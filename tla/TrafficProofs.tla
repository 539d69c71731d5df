--------------------------- MODULE TrafficProofs ----------------------------
(***************************************************************************)
(* What the statistics of Traffic.tla add up to, for any number of         *)
(* addresses, streams and dialogs, any timestamps and any periods.         *)
(*                                                                         *)
(* Attribution folds over streams: AttributeGives says what the fold adds  *)
(* to each address, by induction on the set of streams.  With it every     *)
(* step moves packets from the tails of the streams to the addresses and   *)
(* loses none (MediaInv).  The answers stay below the INVITEs because each *)
(* dialog that waits can be answered once more (SipInv).                   *)
(*                                                                         *)
(* The second half is about time: what is shown of a second, a minute or a *)
(* bucket is what happened in it.  The heatmap (HeatInv), the series       *)
(* (SeriesInv) and the rings of an address (RingsOk) are each compared     *)
(* with a count of all times; what a ring that moves forward, drops its    *)
(* front and takes late traffic still shows of that count is Filled.       *)
(***************************************************************************)
EXTENDS Traffic, SumProofs

-----------------------------------------------------------------------------
LEMMA AddAround ==
  ASSUME NEW a \in Int, NEW b \in Int, NEW c \in Int,
         NEW u, NEW v, NEW w, u = a + b, v = u + c, w = b + c
  PROVE  v = a + w
OBVIOUS

(* The records, and the packets of an address in a table f *)
GoodIp(r) ==
  /\ r = [total |-> r.total, last_seen |-> r.last_seen, sec1 |-> r.sec1, sec60 |-> r.sec60]
  /\ r.total \in [Dirs -> [Kinds -> Nat]]
GoodIps(f) == /\ f = [i \in DOMAIN f |-> f[i]] /\ DOMAIN f \subseteq Ips
              /\ \A i \in DOMAIN f : GoodIp(f[i])
Total(f, i, d, k) == IF i \in DOMAIN f THEN f[i].total[d][k] ELSE 0

LEMMA CountedAdds ==
  ASSUME NEW r, GoodIp(r), NEW t, NEW d \in Dirs, NEW k \in Kinds, NEW n \in Nat
  PROVE  LET c == Counted(r, t, d, k, n)
         IN GoodIp(c) /\ \A e \in Dirs, j \in Kinds :
                           c.total[e][j] = r.total[e][j] + IF e = d /\ j = k THEN n ELSE 0
<1> DEFINE a == InBucket(r.sec1, t, FineWidth, FineRetain, d, k, n)
           b == InBucket(r.sec60, t, CoarseWidth, CoarseRetain, d, k, n)
           c == Counted(r, t, d, k, n)
           m == [r.total EXCEPT ![d][k] = @ + n]
<1>1. c = [r EXCEPT !.total[d][k] = @ + n, !.sec1 = a, !.sec60 = b]
  BY DEF Counted
<1> HIDE DEF a, b, c
<1>2. c = [total |-> m, last_seen |-> r.last_seen, sec1 |-> a, sec60 |-> b]
  BY <1>1 DEF GoodIp
<1>3. m \in [Dirs -> [Kinds -> Nat]]
  BY DEF GoodIp
<1>4. \A e \in Dirs, j \in Kinds : m[e][j] = r.total[e][j] + IF e = d /\ j = k THEN n ELSE 0
  BY DEF GoodIp
<1> HIDE DEF m
<1>5. GoodIp(c) /\ c.total = m
  BY <1>2, <1>3 DEF GoodIp
<1> QED
  BY <1>4, <1>5 DEF c

LEMMA AddsBoth ==
  ASSUME NEW r, GoodIp(r), NEW t, NEW d \in Dirs, NEW p \in Nat, NEW l \in Nat
  PROVE  LET c == AddLost(AddPackets(r, t, p, d), t, l, d)
         IN GoodIp(c) /\ \A e \in Dirs, j \in Kinds :
              c.total[e][j] = r.total[e][j] + IF e = d THEN (IF j = "pkts" THEN p ELSE l) ELSE 0
<1> DEFINE q == AddPackets(r, t, p, d)
           c == AddLost(q, t, l, d)
<1>1. GoodIp(q) /\ \A e \in Dirs, j \in Kinds :
                     q.total[e][j] = r.total[e][j] + IF e = d /\ j = "pkts" THEN p ELSE 0
  <2>1. CASE p = 0
    BY <2>1 DEF AddPackets, GoodIp
  <2>2. CASE p # 0
    <3> DEFINE w == Counted(r, t, d, "pkts", p)
    <3>1. GoodIp(w) /\ \A e \in Dirs, j \in Kinds :
                         w.total[e][j] = r.total[e][j] + IF e = d /\ j = "pkts" THEN p ELSE 0
      BY CountedAdds DEF Kinds
    <3>2. q = [w EXCEPT !.last_seen = t]
      BY <2>2 DEF AddPackets
    <3> HIDE DEF w, q
    <3>3. q.total = w.total /\ GoodIp(q)
      BY <3>1, <3>2 DEF GoodIp
    <3> QED
      BY <3>1, <3>3
  <2> QED
    BY <2>1, <2>2
<1> HIDE DEF q
<1>2. GoodIp(c) /\ \A e \in Dirs, j \in Kinds :
                     c.total[e][j] = q.total[e][j] + IF e = d /\ j = "lost" THEN l ELSE 0
  <2>1. CASE l = 0
    BY <1>1, <2>1 DEF AddLost, GoodIp
  <2>2. CASE l # 0
    <3> DEFINE w == Counted(q, t, d, "lost", l)
    <3>1. GoodIp(w) /\ \A e \in Dirs, j \in Kinds :
                         w.total[e][j] = q.total[e][j] + IF e = d /\ j = "lost" THEN l ELSE 0
      <4>1. "lost" \in Kinds /\ GoodIp(q)
        BY <1>1 DEF Kinds
      <4> QED
        BY <4>1, CountedAdds
    <3>2. c = [w EXCEPT !.last_seen = IF @ = -1 THEN t ELSE @]
      BY <2>2 DEF AddLost
    <3> HIDE DEF w, c
    <3>3. c.total = w.total /\ GoodIp(c)
      BY <3>1, <3>2 DEF GoodIp
    <3> QED
      BY <3>1, <3>3
  <2> QED
    BY <2>1, <2>2
<1> HIDE DEF c
<1>3. \A e \in Dirs, j \in Kinds : r.total[e][j] \in Nat
  BY DEF GoodIp
<1>4. \A j \in Kinds : j = "pkts" \/ j = "lost"
  BY DEF Kinds
<1>5. \A e \in Dirs, j \in Kinds :
        c.total[e][j] = r.total[e][j] + IF e = d THEN (IF j = "pkts" THEN p ELSE l) ELSE 0
  BY <1>1, <1>2, <1>3, <1>4
<1> QED
  BY <1>2, <1>5 DEF c, q

(* The streams: counters and marks *)
GoodStream(x) ==
  /\ x \in [pkts : Nat, lost : Nat, apkts : Nat, alost : Nat, last : Times]
  /\ x.apkts <= x.pkts
GoodStreams ==
  /\ IsFiniteSet(DOMAIN streams) /\ DOMAIN streams \subseteq Streams
  /\ \A s \in DOMAIN streams : GoodStream(streams[s])

LEMMA NewNat ==
  ASSUME GoodStreams, NEW s \in DOMAIN streams, NEW k
  PROVE  New(s, k) \in Nat
BY DEF GoodStreams, GoodStream, New, Less

LEMMA AtAdds ==
  ASSUME GoodStreams, NEW f, GoodIps(f), NEW s \in DOMAIN streams, NEW i \in Ips, NEW d \in Dirs
  PROVE  /\ GoodIps(At(f, s, i, d))
         /\ \A j \in Ips, e \in Dirs, k \in Kinds :
              Total(At(f, s, i, d), j, e, k) = Total(f, j, e, k)
                                               + IF j = i /\ e = d THEN New(s, k) ELSE 0
<1> DEFINE r == Entry(f, i, NewIp)
           t == streams[s].last
           c == AddLost(AddPackets(r, t, New(s, "pkts"), d), t, New(s, "lost"), d)
           g == At(f, s, i, d)
<1>1. GoodIp(r) /\ \A e \in Dirs, k \in Kinds : r.total[e][k] = Total(f, i, e, k)
  BY DEF GoodIp, GoodIps, Entry, NewIp, NoTraffic, Total
<1>2. New(s, "pkts") \in Nat /\ New(s, "lost") \in Nat
  BY NewNat
<1>3. \A k \in Kinds : k = "pkts" \/ k = "lost"
  BY DEF Kinds
<1> HIDE DEF r
<1>4. GoodIp(c) /\ \A e \in Dirs, k \in Kinds :
        c.total[e][k] = r.total[e][k]
                        + IF e = d THEN (IF k = "pkts" THEN New(s, "pkts") ELSE New(s, "lost")) ELSE 0
  BY <1>1, <1>2, AddsBoth
<1>5. g = With(f, i, c)
  BY DEF At, r
<1> HIDE DEF c, g
<1>6. g = [y \in DOMAIN f \cup {i} |-> IF y = i THEN c ELSE f[y]]
  BY <1>5 DEF With
<1>7. GoodIps(g)
  BY <1>4, <1>6 DEF GoodIps
<1>8. ASSUME NEW j \in Ips, NEW e \in Dirs, NEW k \in Kinds
      PROVE  Total(g, j, e, k) = Total(f, j, e, k) + IF j = i /\ e = d THEN New(s, k) ELSE 0
  <2>1. CASE j = i
    <3>1. Total(g, j, e, k) = c.total[e][k]
      BY <1>6, <2>1 DEF Total
    <3>2. CASE k = "pkts"
      BY <1>1, <1>4, <2>1, <3>1, <3>2
    <3>3. CASE k = "lost"
      BY <1>1, <1>4, <2>1, <3>1, <3>3
    <3> QED
      BY <1>3, <3>2, <3>3
  <2>2. CASE j # i
    <3>1. Total(g, j, e, k) = Total(f, j, e, k)
      BY <1>6, <2>2 DEF Total
    <3>2. Total(f, j, e, k) \in Nat
      BY DEF Total, GoodIps, GoodIp
    <3> QED
      BY <2>2, <3>1, <3>2
  <2> QED
    BY <2>1, <2>2
<1> QED
  BY <1>7, <1>8 DEF g

LEMMA AttributeAdds ==
  ASSUME GoodStreams, NEW f, GoodIps(f), NEW s \in DOMAIN streams
  PROVE  /\ GoodIps(Attribute(f, s))
         /\ \A i \in Ips, d \in Dirs, k \in Kinds :
              Total(Attribute(f, s), i, d, k) = Total(f, i, d, k)
                                                + IF i = EndOf(s, d) THEN New(s, k) ELSE 0
<1>1. Src[s] \in Ips /\ Dst[s] \in Ips
  BY TrafficAssumption DEF GoodStreams
<1>2. "tx" \in Dirs /\ "rx" \in Dirs /\ \A d \in Dirs : d = "tx" \/ d = "rx"
  BY DEF Dirs
<1>3. \A i \in Ips, d \in Dirs, k \in Kinds : Total(f, i, d, k) \in Nat /\ New(s, k) \in Nat
  BY NewNat DEF Total, GoodIps, GoodIp
<1>4. CASE \A k \in Kinds : New(s, k) = 0
  BY <1>3, <1>4 DEF Attribute
<1>5. CASE ~ \A k \in Kinds : New(s, k) = 0
  <2> DEFINE g == At(f, s, Src[s], "tx")
             h == At(g, s, Dst[s], "rx")
  <2>1. /\ GoodIps(g)
        /\ \A j \in Ips, e \in Dirs, k \in Kinds :
             Total(g, j, e, k) = Total(f, j, e, k) + IF j = Src[s] /\ e = "tx" THEN New(s, k) ELSE 0
    BY <1>1, <1>2, AtAdds
  <2>2. Attribute(f, s) = h
    BY <1>5 DEF Attribute
  <2> HIDE DEF g
  <2>3. /\ GoodIps(h)
        /\ \A j \in Ips, e \in Dirs, k \in Kinds :
             Total(h, j, e, k) = Total(g, j, e, k) + IF j = Dst[s] /\ e = "rx" THEN New(s, k) ELSE 0
    BY <1>1, <1>2, <2>1, AtAdds
  <2> HIDE DEF h
  <2>4. \A d \in Dirs : EndOf(s, d) = IF d = "tx" THEN Src[s] ELSE Dst[s]
    BY DEF EndOf
  <2>5. \A i \in Ips, d \in Dirs, k \in Kinds :
          Total(h, i, d, k) = Total(f, i, d, k) + IF i = EndOf(s, d) THEN New(s, k) ELSE 0
    BY <1>2, <1>3, <2>1, <2>3, <2>4
  <2> QED
    BY <2>2, <2>3, <2>5
<1> QED
  BY <1>4, <1>5

-----------------------------------------------------------------------------
(* h is the table of the fold of Attribute over the sets in K *)
AttrTable(h, f, K) ==
  h = [s \in K |-> IF s = {} THEN f ELSE Attribute(h[s \ {Chosen(s)}], Chosen(s))]

LEMMA AttrTableExists ==
  ASSUME NEW f, NEW D, IsFiniteSet(D)
  PROVE  \E h : AttrTable(h, f, SUBSET D)
<1> DEFINE N == {n \in Nat : \E h : AttrTable(h, f, UpTo(D, n))}
<1>1. \A s \in SUBSET D : IsFiniteSet(s) /\ Cardinality(s) \in Nat
  BY FS_Subset, FS_CardinalityType
<1>2. 0 \in N
  <2>1. \A s \in UpTo(D, 0) : s = {}
    BY <1>1, FS_EmptySet DEF UpTo
  <2>2. AttrTable([s \in UpTo(D, 0) |-> f], f, UpTo(D, 0))
    BY <2>1 DEF AttrTable
  <2> QED
    BY <2>2
<1>3. ASSUME NEW n \in N PROVE n + 1 \in N
  <2>1. PICK h : AttrTable(h, f, UpTo(D, n))
    OBVIOUS
  <2> DEFINE K == UpTo(D, n)
             L == UpTo(D, n + 1)
             g == [s \in L |-> IF s = {} THEN f ELSE Attribute(h[s \ {Chosen(s)}], Chosen(s))]
  <2>2. \A s \in L : s # {} => s \ {Chosen(s)} \in K
    <3> SUFFICES ASSUME NEW s \in L, s # {} PROVE s \ {Chosen(s)} \in K
      OBVIOUS
    <3>1. IsFiniteSet(s) /\ Chosen(s) \in s /\ s \in SUBSET D /\ Cardinality(s) <= n + 1
      BY <1>1, ChosenIn DEF UpTo
    <3>2. Cardinality(s) = Cardinality(s \ {Chosen(s)}) + 1 /\ Cardinality(s \ {Chosen(s)}) \in Nat
      BY <3>1, OneLess
    <3> QED
      BY <3>1, <3>2 DEF UpTo
  <2>3. K \subseteq L
    BY <1>1 DEF UpTo
  <2>4. \A s \in K : g[s] = h[s]
    BY <2>1, <2>3 DEF AttrTable
  <2>5. AttrTable(g, f, L)
    BY <2>2, <2>3, <2>4 DEF AttrTable
  <2> QED
    BY <2>5
<1> HIDE DEF N
<1>4. N \in SUBSET Nat
  BY DEF N
<1>5. N = Nat
  BY <1>2, <1>3, <1>4, SetInduction
<1>6. Cardinality(D) \in N
  BY <1>1, <1>5
<1>7. UpTo(D, Cardinality(D)) = SUBSET D
  BY FS_Subset DEF UpTo
<1> QED
  BY <1>6, <1>7 DEF N

LEMMA AttributeAllIs ==
  \A f, S : AttributeAll(f, S) = (CHOOSE h : AttrTable(h, f, SUBSET S))[S]
BY DEF AttributeAll, FoldSet, MapThenFoldSet, AttrTable, Chosen

(* flush_stream_ipattr over a set of streams: each address is given what   *)
(* is new of the streams it sends or receives, whatever the order.         *)
LEMMA AttributeGives ==
  ASSUME GoodStreams, NEW f, GoodIps(f), NEW S \in SUBSET DOMAIN streams
  PROVE  /\ GoodIps(AttributeAll(f, S))
         /\ \A i \in Ips, d \in Dirs, k \in Kinds :
              Total(AttributeAll(f, S), i, d, k)
                = Total(f, i, d, k) + SumOver([s \in DOMAIN streams |-> New(s, k)], S \cap Ends(i, d))
<1> DEFINE n(k) == [s \in DOMAIN streams |-> New(s, k)]
<1>1. IsFiniteSet(S) /\ \A s \in SUBSET S : IsFiniteSet(s) /\ Cardinality(s) \in Nat
  BY FS_Subset, FS_CardinalityType DEF GoodStreams
<1>2. PICK h : AttrTable(h, f, SUBSET S) /\ AttributeAll(f, S) = h[S]
  BY <1>1, AttrTableExists, AttributeAllIs
<1>3. \A k : \A s \in DOMAIN streams : n(k)[s] = New(s, k) /\ New(s, k) \in Nat
  BY NewNat
<1> HIDE DEF n
<1> DEFINE Gives(s) == /\ GoodIps(h[s])
                       /\ \A i \in Ips, d \in Dirs, k \in Kinds :
                            Total(h[s], i, d, k) = Total(f, i, d, k) + SumOver(n(k), s \cap Ends(i, d))
           N == {m \in Nat : \A s \in SUBSET S : Cardinality(s) = m => Gives(s)}
<1>4. \A i \in Ips, d \in Dirs, k \in Kinds : Total(f, i, d, k) \in Nat
  BY DEF Total, GoodIps, GoodIp
<1>5. 0 \in N
  <2>1. \A s \in SUBSET S : Cardinality(s) = 0 => s = {}
    BY <1>1, FS_EmptySet
  <2>2. h[{}] = f
    BY <1>2 DEF AttrTable
  <2>3. \A i, d : {} \cap Ends(i, d) = {}
    OBVIOUS
  <2>4. Gives({})
    BY <1>4, <2>2, <2>3, SumEmpty
  <2> HIDE DEF Gives
  <2> QED
    BY <2>1, <2>4
<1>6. ASSUME NEW m \in N PROVE m + 1 \in N
  <2> SUFFICES ASSUME NEW s \in SUBSET S, Cardinality(s) = m + 1 PROVE Gives(s)
    OBVIOUS
  <2> DEFINE x == Chosen(s)
             q == s \ {x}
  <2>1. s # {}
    BY FS_EmptySet
  <2>2. x \in s
    BY <2>1, ChosenIn
  <2>3. Cardinality(q) = m /\ q \in SUBSET S
    BY <1>1, <2>2, OneLess
  <2>4. Gives(q)
    <3> HIDE DEF Gives
    <3> QED
      BY <2>3
  <2>5. h[s] = Attribute(h[q], x)
    BY <1>2, <2>1 DEF AttrTable
  <2> HIDE DEF x, q
  <2>6. x \in DOMAIN streams
    BY <2>2
  <2>7. /\ GoodIps(h[s])
        /\ \A i \in Ips, d \in Dirs, k \in Kinds :
             Total(h[s], i, d, k) = Total(h[q], i, d, k) + IF i = EndOf(x, d) THEN New(x, k) ELSE 0
    BY <2>4, <2>5, <2>6, AttributeAdds
  <2>8. ASSUME NEW i \in Ips, NEW d \in Dirs, NEW k \in Kinds
        PROVE  Total(h[s], i, d, k) = Total(f, i, d, k) + SumOver(n(k), s \cap Ends(i, d))
    <3> DEFINE E == q \cap Ends(i, d)
    <3>1. x \notin E /\ E \subseteq DOMAIN streams /\ IsFiniteSet(E)
      BY <2>3, FS_Subset DEF q, Ends, GoodStreams
    <3>2. SumOver(n(k), E) \in Int
      BY <1>3, <3>1, SumInt
    <3>3. Total(h[q], i, d, k) = Total(f, i, d, k) + SumOver(n(k), E)
      BY <2>4
    <3> HIDE DEF E
    <3>6. Total(h[s], i, d, k) = Total(h[q], i, d, k) + IF i = EndOf(x, d) THEN New(x, k) ELSE 0
      BY <2>7
    <3>7. Total(f, i, d, k) \in Int /\ New(x, k) \in Int /\ n(k)[x] = New(x, k)
      BY <1>3, <1>4, <2>6
    <3> HIDE DEF Gives
    <3>4. SumOver(n(k), s \cap Ends(i, d))
            = SumOver(n(k), E) + IF i = EndOf(x, d) THEN New(x, k) ELSE 0
      <4>1. CASE i = EndOf(x, d)
        <5>1. s \cap Ends(i, d) = E \cup {x}
          BY <2>2, <2>6, <4>1 DEF Ends, q, E
        <5>2. SumOver(n(k), E \cup {x}) = n(k)[x] + SumOver(n(k), E)
          BY <1>3, <2>6, <3>1, SumAdd
        <5>3. SumOver(n(k), s \cap Ends(i, d)) = New(x, k) + SumOver(n(k), E)
          BY <3>7, <5>1, <5>2, Zenon
        <5>4. New(x, k) + SumOver(n(k), E) = SumOver(n(k), E) + New(x, k)
          BY <3>2, <3>7
        <5> QED
          BY <4>1, <5>3, <5>4
      <4>2. CASE i # EndOf(x, d)
        <5>1. s \cap Ends(i, d) = E
          BY <2>2, <4>2 DEF Ends, q, E
        <5> QED
          BY <3>2, <4>2, <5>1
      <4> QED
        BY <4>1, <4>2
    <3>5. (IF i = EndOf(x, d) THEN New(x, k) ELSE 0) \in Int
      BY <3>7
    <3> QED
      BY <3>2, <3>3, <3>4, <3>5, <3>6, <3>7, AddAround
  <2> QED
    BY <2>7, <2>8
<1> HIDE DEF N, Gives
<1>7. N \in SUBSET Nat
  BY DEF N
<1>8. N = Nat
  BY <1>5, <1>6, <1>7, SetInduction
<1>9. Cardinality(S) \in N
  BY <1>1, <1>8
<1>10. Gives(S)
  BY <1>9 DEF N
<1> QED
  BY <1>2, <1>10 DEF Gives, n

-----------------------------------------------------------------------------
(* Media: every packet is with an address or owed to it *)
Attributed == \A i \in Ips, d \in Dirs : Given(i, d, "pkts") + Tails(i, d) = sent[i][d]
MediaInv ==
  /\ GoodStreams /\ GoodIps(ips)
  /\ sent \in [Ips -> [Dirs -> Int]] /\ evicted \in BOOLEAN
  /\ (evicted = FALSE => Attributed)
  /\ LossCovered

LEMMA MediaMeans == MediaInv => PacketsAttributed /\ LossCovered
BY DEF MediaInv, PacketsAttributed, Attributed

(* One value put into the table of a sum *)
LEMMA SumPut ==
  ASSUME NEW f, NEW g, NEW E, IsFiniteSet(E), NEW s, NEW F, F = E \/ F = E \cup {s}, NEW b \in Int,
         \A x \in E : f[x] \in Int, \A x \in E \ {s} : g[x] = f[x],
         s \in E => g[s] = f[s] + b, s \in F \ E => g[s] = b
  PROVE  /\ SumOver(f, E) \in Int
         /\ SumOver(g, F) = SumOver(f, E) + IF s \in F THEN b ELSE 0
<1>1. SumOver(f, E) \in Int
  BY SumInt
<1>2. CASE s \in E
  <2>1. F = E
    BY <1>2
  <2>2. \A x \in E : f[x] \in Int /\ g[x] \in Int /\ (x # s => f[x] = g[x])
    BY <1>2
  <2>3. SumOver(g, E) = SumOver(f, E) + (g[s] - f[s])
    BY <1>2, <2>2, SumChange
  <2>4. g[s] - f[s] = b
    BY <1>2
  <2> QED
    BY <1>1, <1>2, <2>1, <2>3, <2>4
<1>3. CASE s \notin E
  <2>1. \A x \in E : f[x] \in Int /\ f[x] = g[x]
    BY <1>3
  <2>2. SumOver(g, E) = SumOver(f, E)
    BY <2>1, SumSame
  <2>3. CASE F = E
    BY <1>1, <1>3, <2>2, <2>3
  <2>4. CASE F = E \cup {s}
    <3>1. g[s] = b /\ \A x \in E : g[x] \in Int
      BY <1>3, <2>1, <2>4
    <3>2. SumOver(g, E \cup {s}) = g[s] + SumOver(g, E)
      BY <1>3, <3>1, SumAdd
    <3>3. SumOver(g, F) = b + SumOver(f, E) /\ s \in F
      BY <2>2, <2>4, <3>1, <3>2, Zenon
    <3> QED
      BY <1>1, <3>3
  <2> QED
    BY <2>3, <2>4
<1> QED
  BY <1>2, <1>3

LEMMA EndsFinite ==
  ASSUME GoodStreams, NEW i, NEW d
  PROVE  /\ IsFiniteSet(Ends(i, d)) /\ Ends(i, d) \subseteq DOMAIN streams
         /\ \A s \in Ends(i, d) : /\ Owed[s] = streams[s].pkts - streams[s].apkts
                                  /\ Owed[s] \in Nat /\ Owed[s] = New(s, "pkts")
                                  /\ Reported[s] = streams[s].alost /\ Reported[s] \in Nat
<1>1. Ends(i, d) \subseteq DOMAIN streams
  BY DEF Ends
<1>2. IsFiniteSet(Ends(i, d))
  BY <1>1, FS_Subset DEF GoodStreams
<1>3. ASSUME NEW s \in Ends(i, d)
      PROVE  /\ Owed[s] = streams[s].pkts - streams[s].apkts
             /\ Owed[s] \in Nat /\ Owed[s] = New(s, "pkts")
             /\ Reported[s] = streams[s].alost /\ Reported[s] \in Nat
  <2>1. s \in DOMAIN streams /\ GoodStream(streams[s])
    BY <1>1 DEF GoodStreams
  <2>2. Owed[s] = streams[s].pkts - streams[s].apkts /\ Reported[s] = streams[s].alost
    BY <2>1 DEF Owed, Reported
  <2> QED
    BY <2>1, <2>2 DEF GoodStream, New, Less
<1> QED
  BY <1>1, <1>2, <1>3

LEMMA GivenNat ==
  ASSUME GoodIps(ips), NEW i \in Ips, NEW d \in Dirs, NEW k \in Kinds
  PROVE  Given(i, d, k) \in Nat /\ Given(i, d, k) = Total(ips, i, d, k)
BY DEF Given, Total, GoodIps, GoodIp

LEMMA PacketMedia ==
  ASSUME MediaInv, NEW s \in Streams, NEW t \in Times, NEW dl \in {-1, 0, 1}, Packet(s, t, dl)
  PROVE  MediaInv'
<1> DEFINE x == Entry(streams, s, NoStream)
           y == [x EXCEPT !.pkts = @ + 1, !.lost = @ + dl, !.last = t]
           D == DOMAIN streams
<1>1. /\ x.lost + dl >= 0 /\ streams' = With(streams, s, y)
      /\ sent' = [sent EXCEPT ![Src[s]]["tx"] = @ + 1, ![Dst[s]]["rx"] = @ + 1]
      /\ ips' = ips /\ evicted' = evicted /\ pruned' = pruned
  BY DEF Packet, stores
<1>2. GoodStream(x) /\ (s \in D => x = streams[s]) /\ (s \notin D => x = NoStream)
  <2>1. 0 \in Times
    BY TrafficAssumption DEF Times
  <2>2. GoodStream(NoStream)
    BY <2>1 DEF GoodStream, NoStream
  <2> QED
    BY <2>2 DEF MediaInv, GoodStreams, Entry
<1> HIDE DEF x
<1>3. /\ GoodStream(y) /\ y.pkts - y.apkts = (x.pkts - x.apkts) + 1 /\ y.alost = x.alost
      /\ x.pkts - x.apkts \in Int /\ x.alost \in Int
  <2>1. /\ x.pkts \in Nat /\ x.lost \in Nat /\ x.apkts \in Nat /\ x.alost \in Nat
        /\ x.apkts <= x.pkts /\ x.lost + dl \in Nat
    BY <1>1, <1>2 DEF GoodStream
  <2> DEFINE z == [x EXCEPT !.pkts = @ + 1]
             w == [z EXCEPT !.lost = @ + dl]
  <2>2. GoodStream(z) /\ z.pkts = x.pkts + 1 /\ z.lost = x.lost /\ z.apkts = x.apkts /\ z.alost = x.alost
    BY <1>2, <2>1 DEF GoodStream
  <2>3. y = [w EXCEPT !.last = t]
    BY <1>2 DEF GoodStream
  <2> HIDE DEF y, z
  <2>5. GoodStream(w) /\ w.pkts = z.pkts /\ w.lost = z.lost + dl /\ w.apkts = z.apkts /\ w.alost = z.alost
    BY <2>1, <2>2 DEF GoodStream
  <2> HIDE DEF w
  <2>6. GoodStream(y) /\ y.pkts = w.pkts /\ y.apkts = w.apkts /\ y.alost = w.alost
    BY <2>3, <2>5 DEF GoodStream
  <2> QED
    BY <2>1, <2>2, <2>5, <2>6
<1> HIDE DEF y
<1>4. streams' = [q \in D \cup {s} |-> IF q = s THEN y ELSE streams[q]]
  BY <1>1 DEF With
<1>5. GoodStreams'
  <2>1. IsFiniteSet(D \cup {s})
    BY FS_AddElement DEF MediaInv, GoodStreams
  <2>2. DOMAIN streams' = D \cup {s}
    BY <1>4
  <2>3. \A q \in D \cup {s} : GoodStream(streams'[q])
    BY <1>3, <1>4 DEF MediaInv, GoodStreams
  <2> QED
    BY <2>1, <2>2, <2>3 DEF GoodStreams, MediaInv
<1>6. ASSUME NEW i \in Ips, NEW d \in Dirs
      PROVE  /\ Tails(i, d) \in Int
             /\ Tails(i, d)' = Tails(i, d) + IF i = EndOf(s, d) THEN 1 ELSE 0
             /\ SumOver(Reported, Ends(i, d))' = SumOver(Reported, Ends(i, d))
  <2> DEFINE E == Ends(i, d)
             F == Ends(i, d)'
  <2>1. F = {q \in D \cup {s} : i = EndOf(q, d)}
    BY <1>4 DEF Ends, EndOf
  <2>2. E = {q \in D : i = EndOf(q, d)}
    BY DEF Ends
  <2>3. /\ F = E \/ F = E \cup {s}
        /\ s \in F <=> i = EndOf(s, d)
        /\ s \in E => s \in D
        /\ s \in F \ E => s \notin D
    BY <2>1, <2>2
  <2>4. IsFiniteSet(E) /\ \A q \in E : q \in D /\ Owed[q] \in Int /\ Reported[q] \in Int
    BY EndsFinite DEF MediaInv
  <2>5. Owed' = [q \in D \cup {s} |-> streams'[q].pkts - streams'[q].apkts]
    BY <1>4 DEF Owed
  <2>6. Reported' = [q \in D \cup {s} |-> streams'[q].alost]
    BY <1>4 DEF Reported
  <2>7. /\ \A q \in E \ {s} : Owed'[q] = Owed[q]
        /\ s \in E => Owed'[s] = Owed[s] + 1
        /\ s \in F \ E => Owed'[s] = 1
    BY <1>2, <1>3, <1>4, <2>3, <2>4, <2>5 DEF Owed, NoStream
  <2>8. /\ \A q \in E \ {s} : Reported'[q] = Reported[q]
        /\ s \in E => Reported'[s] = Reported[s] + 0
        /\ s \in F \ E => Reported'[s] = 0
    BY <1>2, <1>3, <1>4, <2>3, <2>4, <2>6 DEF Reported, NoStream
  <2> HIDE DEF E, F
  <2>9. SumOver(Owed, E) \in Int /\ SumOver(Owed', F) = SumOver(Owed, E) + IF s \in F THEN 1 ELSE 0
    BY <2>3, <2>4, <2>7, SumPut
  <2>10. SumOver(Reported, E) \in Int
         /\ SumOver(Reported', F) = SumOver(Reported, E) + IF s \in F THEN 0 ELSE 0
    BY <2>3, <2>4, <2>8, SumPut
  <2>11. SumOver(Reported', F) = SumOver(Reported, E)
    BY <2>10
  <2> QED
    BY <2>3, <2>9, <2>11 DEF Tails, E, F
<1>7. ASSUME NEW i \in Ips, NEW d \in Dirs
      PROVE  sent'[i][d] = sent[i][d] + IF i = EndOf(s, d) THEN 1 ELSE 0
  <2>1. sent \in [Ips -> [Dirs -> Int]] /\ (d = "tx" \/ d = "rx") /\ Src[s] \in Ips /\ Dst[s] \in Ips
    BY TrafficAssumption DEF MediaInv, Dirs
  <2> QED
    BY <1>1, <2>1 DEF EndOf, Dirs
<1>8. sent' \in [Ips -> [Dirs -> Int]]
  <2>1. sent \in [Ips -> [Dirs -> Int]] /\ "tx" \in Dirs /\ "rx" \in Dirs /\ Src[s] \in Ips /\ Dst[s] \in Ips
    BY TrafficAssumption DEF MediaInv, Dirs
  <2> QED
    BY <1>1, <2>1
<1>9. \A i \in Ips, d \in Dirs : \A k : Given(i, d, k)' = Given(i, d, k)
  BY <1>1 DEF Given
<1>10. (evicted = FALSE => Attributed)'
  <2> SUFFICES ASSUME evicted' = FALSE, NEW i \in Ips, NEW d \in Dirs
               PROVE  Given(i, d, "pkts")' + Tails(i, d)' = sent'[i][d]
    BY DEF Attributed
  <2>1. Given(i, d, "pkts") + Tails(i, d) = sent[i][d]
    BY <1>1 DEF MediaInv, Attributed
  <2>2. Given(i, d, "pkts") \in Nat
    BY GivenNat DEF MediaInv, Kinds
  <2> QED
    BY <1>6, <1>7, <1>9, <2>1, <2>2
<1>11. LossCovered'
  BY <1>1, <1>6, <1>9 DEF LossCovered, MediaInv
<1> QED
  BY <1>1, <1>5, <1>8, <1>10, <1>11 DEF MediaInv, GoodIps, GoodIp

LEMMA RemoveCallMedia ==
  ASSUME MediaInv, NEW S \in SUBSET Streams, RemoveCall(S)
  PROVE  MediaInv'
<1> DEFINE D == DOMAIN streams
           n(k) == [s \in D |-> New(s, k)]
<1>1. /\ S \subseteq D /\ ips' = AttributeAll(ips, S) /\ streams' = Without(streams, S)
      /\ sent' = sent /\ evicted' = evicted /\ pruned' = pruned
  BY DEF RemoveCall
<1>2. GoodStreams /\ GoodIps(ips)
  BY DEF MediaInv
<1>3. streams' = [q \in D \ S |-> streams[q]]
  BY <1>1 DEF Without
<1>4. GoodStreams'
  <2>1. DOMAIN streams' = D \ S /\ IsFiniteSet(D \ S)
    BY <1>2, <1>3, FS_Subset DEF GoodStreams
  <2> QED
    BY <1>2, <1>3, <2>1 DEF GoodStreams
<1>5. /\ GoodIps(ips')
      /\ \A i \in Ips, d \in Dirs, k \in Kinds :
           Total(ips', i, d, k) = Total(ips, i, d, k) + SumOver(n(k), S \cap Ends(i, d))
  BY <1>1, <1>2, AttributeGives
<1>6. \A k \in Kinds : \A s \in D : n(k)[s] = New(s, k) /\ New(s, k) \in Nat
  BY <1>2, NewNat
<1> HIDE DEF n
<1>7. ASSUME NEW i \in Ips, NEW d \in Dirs
      PROVE  /\ Given(i, d, "pkts")' + Tails(i, d)' = Given(i, d, "pkts") + Tails(i, d)
             /\ Given(i, d, "lost")' >= Given(i, d, "lost")
             /\ SumOver(Reported, Ends(i, d))' <= SumOver(Reported, Ends(i, d))
             /\ Given(i, d, "lost") \in Int /\ Given(i, d, "lost")' \in Int
             /\ SumOver(Reported, Ends(i, d))' \in Int /\ SumOver(Reported, Ends(i, d)) \in Int
  <2> DEFINE E == Ends(i, d)
             A == S \cap E
             F == E \ A
  <2>1. Ends(i, d)' = F
    BY <1>1, <1>3 DEF Ends, EndOf
  <2>2. /\ IsFiniteSet(E) /\ E \subseteq D
        /\ \A s \in E : /\ Owed[s] \in Nat /\ Owed[s] = New(s, "pkts") /\ Reported[s] \in Nat
    BY <1>2, EndsFinite
  <2>3. IsFiniteSet(A) /\ IsFiniteSet(F) /\ A \subseteq E /\ F \subseteq E
    BY <2>2, FS_Subset
  <2>4. \A s \in F : Owed'[s] = Owed[s] /\ Reported'[s] = Reported[s]
    BY <1>1, <1>3, <2>2 DEF Owed, Reported
  <2>5. Given(i, d, "pkts")' = Given(i, d, "pkts") + SumOver(n("pkts"), A)
    <3>1. Given(i, d, "pkts") = Total(ips, i, d, "pkts") /\ Given(i, d, "pkts")' = Total(ips', i, d, "pkts")
      BY DEF Given, Total
    <3> QED
      BY <1>5, <3>1 DEF Kinds
  <2>6. Given(i, d, "lost")' = Given(i, d, "lost") + SumOver(n("lost"), A)
    <3>1. Given(i, d, "lost") = Total(ips, i, d, "lost") /\ Given(i, d, "lost")' = Total(ips', i, d, "lost")
      BY DEF Given, Total
    <3> QED
      BY <1>5, <3>1 DEF Kinds
  <2>7. Given(i, d, "pkts") \in Nat /\ Given(i, d, "lost") \in Nat
    BY <1>2, GivenNat DEF Kinds
  <2> HIDE DEF E
  <2>8. SumOver(n("pkts"), A) = SumOver(Owed, A)
    BY <1>6, <2>2, <2>3, SumSame DEF Kinds
  <2>9. SumOver(n("lost"), A) \in Nat
    BY <1>6, <2>2, <2>3, SumNat DEF Kinds
  <2>10. SumOver(Owed, E) = SumOver(Owed, A) + SumOver(Owed, F)
    BY <2>2, <2>3, SumSplit
  <2>11. SumOver(Reported, E) = SumOver(Reported, A) + SumOver(Reported, F)
    BY <2>2, <2>3, SumSplit
  <2>12. SumOver(Owed, A) \in Int /\ SumOver(Owed, F) \in Int
    BY <2>2, <2>3, SumInt
  <2>13. SumOver(Reported, A) \in Nat /\ SumOver(Reported, F) \in Nat
    BY <2>2, <2>3, SumNat
  <2> HIDE DEF A, F
  <2>14. SumOver(Owed', F) = SumOver(Owed, F) /\ SumOver(Reported', F) = SumOver(Reported, F)
    BY <2>2, <2>3, <2>4, SumSame
  <2>15. Tails(i, d)' = SumOver(Owed, F) /\ SumOver(Reported, Ends(i, d))' = SumOver(Reported, F)
    BY <2>1, <2>14 DEF Tails
  <2>16. Tails(i, d) = SumOver(Owed, A) + SumOver(Owed, F)
    BY <2>10 DEF Tails, E
  <2>17. SumOver(Reported, Ends(i, d)) = SumOver(Reported, A) + SumOver(Reported, F)
    BY <2>11 DEF E
  <2> QED
    BY <2>5, <2>6, <2>7, <2>8, <2>9, <2>12, <2>13, <2>15, <2>16, <2>17
<1>8. (evicted = FALSE => Attributed)'
  <2> SUFFICES ASSUME evicted' = FALSE, NEW i \in Ips, NEW d \in Dirs
               PROVE  Given(i, d, "pkts")' + Tails(i, d)' = sent'[i][d]
    BY DEF Attributed
  <2>1. Given(i, d, "pkts") + Tails(i, d) = sent[i][d]
    BY <1>1 DEF MediaInv, Attributed
  <2> QED
    BY <1>1, <1>7, <2>1
<1>9. LossCovered'
  <2> SUFFICES ASSUME NEW i \in Ips \ pruned, NEW d \in Dirs
               PROVE  Given(i, d, "lost")' >= SumOver(Reported, Ends(i, d))'
    BY <1>1 DEF LossCovered
  <2>1. Given(i, d, "lost") >= SumOver(Reported, Ends(i, d))
    BY DEF MediaInv, LossCovered
  <2> QED
    BY <1>7, <2>1
<1>10. GoodIps(ips)'
  BY <1>5 DEF GoodIps, GoodIp
<1> QED
  BY <1>1, <1>4, <1>8, <1>9, <1>10 DEF MediaInv

LEMMA EvictStreamMedia ==
  ASSUME MediaInv, NEW s \in Streams, EvictStream(s)
  PROVE  MediaInv'
<1> DEFINE D == DOMAIN streams
<1>1. /\ s \in D /\ streams' = Without(streams, {s}) /\ evicted' = TRUE
      /\ ips' = ips /\ sent' = sent /\ pruned' = pruned
  BY DEF EvictStream, stores
<1>2. GoodStreams /\ GoodIps(ips)
  BY DEF MediaInv
<1>3. streams' = [q \in D \ {s} |-> streams[q]]
  BY <1>1 DEF Without
<1>4. GoodStreams'
  <2>1. DOMAIN streams' = D \ {s} /\ IsFiniteSet(D \ {s})
    BY <1>2, <1>3, FS_Subset DEF GoodStreams
  <2> QED
    BY <1>2, <1>3, <2>1 DEF GoodStreams
<1>5. LossCovered'
  <2> SUFFICES ASSUME NEW i \in Ips \ pruned, NEW d \in Dirs
               PROVE  Given(i, d, "lost")' >= SumOver(Reported, Ends(i, d))'
    BY <1>1 DEF LossCovered
  <2> DEFINE E == Ends(i, d)
             F == E \ {s}
             A == E \cap {s}
  <2>1. Ends(i, d)' = F
    BY <1>1, <1>3 DEF Ends, EndOf
  <2>2. IsFiniteSet(E) /\ E \subseteq D /\ \A q \in E : Reported[q] \in Nat
    BY <1>2, EndsFinite
  <2>3. IsFiniteSet(A) /\ IsFiniteSet(F) /\ A \subseteq E /\ F \subseteq E /\ E \ A = F
    BY <2>2, FS_Subset
  <2>4. \A q \in F : Reported'[q] = Reported[q]
    BY <1>1, <1>3, <2>2 DEF Reported
  <2>5. Given(i, d, "lost") >= SumOver(Reported, E) /\ Given(i, d, "lost") \in Nat
    BY <1>2, GivenNat DEF MediaInv, LossCovered, Kinds
  <2>6. Given(i, d, "lost")' = Given(i, d, "lost")
    BY <1>1 DEF Given
  <2> HIDE DEF E, A, F
  <2>7. SumOver(Reported, E) = SumOver(Reported, A) + SumOver(Reported, F)
    BY <2>2, <2>3, SumSplit
  <2>8. SumOver(Reported, A) \in Nat /\ SumOver(Reported, F) \in Nat
    BY <2>2, <2>3, SumNat
  <2>9. SumOver(Reported', F) = SumOver(Reported, F)
    BY <2>2, <2>3, <2>4, SumSame
  <2>10. SumOver(Reported, Ends(i, d))' = SumOver(Reported, F)
    BY <2>1, <2>9
  <2> QED
    BY <2>5, <2>6, <2>7, <2>8, <2>10
<1> QED
  BY <1>1, <1>4, <1>5 DEF MediaInv, GoodIps, GoodIp

(* A tick: with the attribution all tails become zero; without it the      *)
(* streams stay.  An address that is pruned starts again.                  *)
LEMMA FlushMedia ==
  ASSUME MediaInv, NEW t, Flush(t)
  PROVE  MediaInv'
<1> DEFINE D == DOMAIN streams
           n(k) == [s \in D |-> New(s, k)]
           attr == Due(last_ipattr, t, AttrPeriod)
           f == IF attr THEN AttributeAll(ips, D) ELSE ips
           idle == IF Due(last_flush, t, FlushPeriod) THEN Idle(f, t) ELSE {}
<1>1. PICK gone \in SUBSET idle :
      /\ streams' = IF attr THEN [s \in D |-> Marked(streams[s])] ELSE streams
      /\ ips' = Without(f, gone)
      /\ pruned' = pruned \cup gone
      /\ sent' = [i \in Ips |-> IF i \notin gone THEN sent[i]
                    ELSE [d \in Dirs |-> IF attr THEN 0 ELSE Tails(i, d)]]
      /\ evicted' = evicted
  BY DEF Flush
<1>2. GoodStreams /\ GoodIps(ips)
  BY DEF MediaInv
<1>3. gone \subseteq DOMAIN f
  BY DEF Idle
<1> HIDE DEF idle
<1>4. CASE attr
  <2>1. /\ GoodIps(f)
        /\ \A i \in Ips, d \in Dirs, k \in Kinds :
             Total(f, i, d, k) = Total(ips, i, d, k) + SumOver(n(k), D \cap Ends(i, d))
    BY <1>2, <1>4, AttributeGives
  <2>2. \A k \in Kinds : \A s \in D : n(k)[s] = New(s, k) /\ New(s, k) \in Nat
    BY <1>2, NewNat
  <2>3. streams' = [s \in D |-> Marked(streams[s])]
    BY <1>1, <1>4
  <2>4. ips' = [i \in DOMAIN f \ gone |-> f[i]]
    BY <1>1 DEF Without
  <2>5. sent' = [i \in Ips |-> IF i \notin gone THEN sent[i] ELSE [d \in Dirs |-> 0]]
    BY <1>1, <1>4
  <2> HIDE DEF n, f, attr
  <2>6. \A s \in D : /\ GoodStream(Marked(streams[s])) /\ streams[s].lost \in Nat
                     /\ Marked(streams[s]).pkts - Marked(streams[s]).apkts = 0
                     /\ Marked(streams[s]).alost = streams[s].lost
    <3> SUFFICES ASSUME NEW s \in D
                 PROVE  /\ GoodStream(Marked(streams[s])) /\ streams[s].lost \in Nat
                        /\ Marked(streams[s]).pkts - Marked(streams[s]).apkts = 0
                        /\ Marked(streams[s]).alost = streams[s].lost
      OBVIOUS
    <3> DEFINE x == streams[s]
               z == [x EXCEPT !.apkts = x.pkts]
               y == [z EXCEPT !.alost = x.lost]
    <3>1. GoodStream(x) /\ x.lost \in Nat /\ x.pkts \in Nat
      BY <1>2 DEF GoodStreams, GoodStream
    <3>2. Marked(x) = [x EXCEPT !.apkts = x.pkts, !.alost = x.lost]
      BY DEF Marked
    <3> HIDE DEF x
    <3>3. Marked(x) = y
      BY <3>1, <3>2 DEF GoodStream
    <3>4. GoodStream(z) /\ z.pkts = x.pkts /\ z.apkts = x.pkts
      BY <3>1 DEF GoodStream
    <3> HIDE DEF z
    <3>5. GoodStream(y) /\ y.pkts = z.pkts /\ y.apkts = z.apkts /\ y.alost = x.lost
      BY <3>1, <3>4 DEF GoodStream
    <3> HIDE DEF y
    <3>6. GoodStream(Marked(x)) /\ x.lost \in Nat /\ Marked(x).pkts - Marked(x).apkts = 0
          /\ Marked(x).alost = x.lost
      BY <3>1, <3>3, <3>4, <3>5
    <3> QED
      BY <3>6 DEF x
  <2>7. GoodStreams'
    BY <1>2, <2>3, <2>6 DEF GoodStreams
  <2>8. GoodIps(ips')
    BY <2>1, <2>4 DEF GoodIps
  <2>9. ASSUME NEW i \in Ips, NEW d \in Dirs, NEW k \in Kinds
        PROVE  Given(i, d, k)' = IF i \in gone THEN 0 ELSE Given(i, d, k) + SumOver(n(k), Ends(i, d))
    <3>1. Given(i, d, k) = Total(ips, i, d, k) /\ Given(i, d, k)' = Total(ips', i, d, k)
      BY DEF Given, Total
    <3>2. D \cap Ends(i, d) = Ends(i, d)
      BY DEF Ends
    <3>3. CASE i \in gone
      BY <2>4, <3>1, <3>3 DEF Total
    <3>4. CASE i \notin gone
      <4>1. Total(ips', i, d, k) = Total(f, i, d, k)
        BY <2>4, <3>4 DEF Total
      <4> QED
        BY <2>1, <3>1, <3>2, <3>4, <4>1
    <3> QED
      BY <3>3, <3>4
  <2>10. ASSUME NEW i \in Ips, NEW d \in Dirs
         PROVE  /\ Tails(i, d)' = 0
                /\ SumOver(n("pkts"), Ends(i, d)) = Tails(i, d)
                /\ SumOver(Reported, Ends(i, d))' <= SumOver(Reported, Ends(i, d))
                                                     + SumOver(n("lost"), Ends(i, d))
                /\ SumOver(Reported, Ends(i, d))' \in Int
                /\ SumOver(Reported, Ends(i, d)) \in Int
                /\ SumOver(n("lost"), Ends(i, d)) \in Int
    <3> DEFINE E == Ends(i, d)
    <3>1. Ends(i, d)' = E
      BY <2>3 DEF Ends, EndOf
    <3>2. /\ IsFiniteSet(E) /\ E \subseteq D
          /\ \A s \in E : /\ Owed[s] \in Nat /\ Owed[s] = New(s, "pkts")
                          /\ Reported[s] \in Nat /\ Reported[s] = streams[s].alost
      BY <1>2, EndsFinite
    <3>3. \A s \in E : Owed'[s] = 0 /\ Reported'[s] = streams[s].lost /\ Reported'[s] \in Nat
      BY <2>3, <2>6, <3>2 DEF Owed, Reported
    <3>4. \A s \in E : /\ n("pkts")[s] = Owed[s] /\ n("lost")[s] = Less(streams[s].lost, streams[s].alost)
                       /\ n("lost")[s] \in Nat
      BY <2>2, <3>2 DEF Kinds, New
    <3> DEFINE both == [s \in E |-> Reported[s] + n("lost")[s]]
    <3>5. \A s \in E : /\ Reported'[s] \in Int /\ both[s] \in Int /\ Reported'[s] <= both[s]
                       /\ both[s] = Reported[s] + n("lost")[s]
      <4> SUFFICES ASSUME NEW s \in E
                   PROVE  /\ Reported'[s] \in Int /\ both[s] \in Int /\ Reported'[s] <= both[s]
                          /\ both[s] = Reported[s] + n("lost")[s]
        OBVIOUS
      <4>1. both[s] = Reported[s] + n("lost")[s]
        OBVIOUS
      <4>2. Reported[s] \in Nat /\ Reported[s] = streams[s].alost
        BY <3>2
      <4>3. Reported'[s] = streams[s].lost /\ Reported'[s] \in Nat
        BY <3>3
      <4>4. n("lost")[s] = Less(streams[s].lost, streams[s].alost) /\ n("lost")[s] \in Nat
        BY <3>4
      <4> HIDE DEF both, E
      <4>5. Reported'[s] <= Reported[s] + n("lost")[s]
        BY <4>2, <4>3, <4>4 DEF Less
      <4> QED
        BY <4>1, <4>2, <4>3, <4>4, <4>5
    <3> HIDE DEF both, E
    <3>6. SumOver(Owed', E) = 0
      BY <3>2, <3>3, SumZero
    <3>7. SumOver(n("pkts"), E) = SumOver(Owed, E)
      BY <3>2, <3>4, SumSame
    <3>8. SumOver(Reported', E) <= SumOver(both, E)
      BY <3>2, <3>5, SumLess
    <3>9. SumOver(both, E) = SumOver(Reported, E) + SumOver(n("lost"), E)
      BY <3>2, <3>4, <3>5, SumPlus
    <3>10. SumOver(Reported', E) \in Int /\ SumOver(Reported, E) \in Int /\ SumOver(n("lost"), E) \in Int
      BY <3>2, <3>4, <3>5, SumInt
    <3>11. SumOver(Reported', E) <= SumOver(Reported, E) + SumOver(n("lost"), E)
      BY <3>8, <3>9
    <3>12. Tails(i, d)' = SumOver(Owed', E) /\ Tails(i, d) = SumOver(Owed, E)
      BY <3>1 DEF Tails, E
    <3>13. SumOver(Reported, Ends(i, d))' = SumOver(Reported', E) /\ Ends(i, d) = E
      BY <3>1 DEF E
    <3> QED
      BY <3>6, <3>7, <3>10, <3>11, <3>12, <3>13
  <2>11. (evicted = FALSE => Attributed)'
    <3> SUFFICES ASSUME evicted' = FALSE, NEW i \in Ips, NEW d \in Dirs
                 PROVE  Given(i, d, "pkts")' + Tails(i, d)' = sent'[i][d]
      BY DEF Attributed
    <3>1. Given(i, d, "pkts") + Tails(i, d) = sent[i][d] /\ sent[i][d] \in Int
      BY <1>1 DEF MediaInv, Attributed
    <3>2. Tails(i, d)' = 0 /\ SumOver(n("pkts"), Ends(i, d)) = Tails(i, d)
      BY <2>10
    <3>3. Given(i, d, "pkts")' = IF i \in gone THEN 0 ELSE Given(i, d, "pkts") + SumOver(n("pkts"), Ends(i, d))
      BY <2>9 DEF Kinds
    <3>4. CASE i \in gone
      BY <2>5, <3>2, <3>3, <3>4
    <3>5. CASE i \notin gone
      BY <2>5, <3>1, <3>2, <3>3, <3>5
    <3> QED
      BY <3>4, <3>5
  <2>12. LossCovered'
    <3> SUFFICES ASSUME NEW i \in Ips \ pruned', NEW d \in Dirs
                 PROVE  Given(i, d, "lost")' >= SumOver(Reported, Ends(i, d))'
      BY DEF LossCovered
    <3>1. i \notin gone /\ i \notin pruned
      BY <1>1
    <3>2. Given(i, d, "lost")' = Given(i, d, "lost") + SumOver(n("lost"), Ends(i, d))
      BY <2>9, <3>1 DEF Kinds
    <3>3. Given(i, d, "lost") >= SumOver(Reported, Ends(i, d)) /\ Given(i, d, "lost") \in Nat
      BY <1>2, <3>1, GivenNat DEF MediaInv, LossCovered, Kinds
    <3> QED
      BY <2>10, <3>2, <3>3
  <2>13. sent' \in [Ips -> [Dirs -> Int]]
    BY <2>5 DEF MediaInv
  <2>14. GoodIps(ips)'
    BY <2>8 DEF GoodIps, GoodIp
  <2> QED
    BY <1>1, <2>7, <2>11, <2>12, <2>13, <2>14 DEF MediaInv
<1>5. CASE ~attr
  <2>1. streams' = streams /\ f = ips
    BY <1>1, <1>5
  <2>2. ips' = [i \in DOMAIN ips \ gone |-> ips[i]]
    BY <1>1, <2>1 DEF Without
  <2>3. sent' = [i \in Ips |-> IF i \notin gone THEN sent[i] ELSE [d \in Dirs |-> Tails(i, d)]]
    BY <1>1, <1>5
  <2> HIDE DEF f, attr
  <2>4. \A i \in Ips, d \in Dirs : Tails(i, d) \in Int
    <3> SUFFICES ASSUME NEW i \in Ips, NEW d \in Dirs PROVE Tails(i, d) \in Int
      OBVIOUS
    <3>1. IsFiniteSet(Ends(i, d)) /\ \A s \in Ends(i, d) : Owed[s] \in Int
      BY <1>2, EndsFinite
    <3> QED
      BY <3>1, SumInt DEF Tails
  <2>5. \A i, d : /\ Tails(i, d)' = Tails(i, d)
                  /\ SumOver(Reported, Ends(i, d))' = SumOver(Reported, Ends(i, d))
    BY <2>1 DEF Tails, Owed, Reported, Ends, EndOf
  <2>6. \A i, d, k : Given(i, d, k)' = IF i \in gone THEN 0 ELSE Given(i, d, k)
    BY <2>2 DEF Given
  <2>7. GoodStreams' /\ GoodIps(ips)'
    BY <1>2, <2>1, <2>2 DEF GoodStreams, GoodStream, Times, GoodIps, GoodIp
  <2>8. (evicted = FALSE => Attributed)'
    <3> SUFFICES ASSUME evicted' = FALSE, NEW i \in Ips, NEW d \in Dirs
                 PROVE  Given(i, d, "pkts")' + Tails(i, d)' = sent'[i][d]
      BY DEF Attributed
    <3>1. Given(i, d, "pkts") + Tails(i, d) = sent[i][d]
      BY <1>1 DEF MediaInv, Attributed
    <3>2. CASE i \in gone
      BY <2>3, <2>4, <2>5, <2>6, <3>2
    <3>3. CASE i \notin gone
      BY <2>3, <2>5, <2>6, <3>1, <3>3
    <3> QED
      BY <3>2, <3>3
  <2>9. LossCovered'
    <3> SUFFICES ASSUME NEW i \in Ips \ pruned', NEW d \in Dirs
                 PROVE  Given(i, d, "lost")' >= SumOver(Reported, Ends(i, d))'
      BY DEF LossCovered
    <3>1. i \notin gone /\ i \notin pruned
      BY <1>1
    <3>2. Given(i, d, "lost") >= SumOver(Reported, Ends(i, d))
      BY <3>1 DEF MediaInv, LossCovered
    <3> QED
      BY <2>5, <2>6, <3>1, <3>2
  <2>10. sent' \in [Ips -> [Dirs -> Int]]
    BY <2>3, <2>4 DEF MediaInv
  <2> QED
    BY <1>1, <2>7, <2>8, <2>9, <2>10 DEF MediaInv
<1> QED
  BY <1>4, <1>5

(* Everything else leaves the media statistics alone. *)
LEMMA OtherMedia ==
  ASSUME MediaInv, UNCHANGED <<ips, streams, sent, evicted, pruned>>
  PROVE  MediaInv'
<1>1. ips' = ips /\ streams' = streams /\ sent' = sent /\ evicted' = evicted /\ pruned' = pruned
  OBVIOUS
<1>2. \A i, d : /\ Tails(i, d)' = Tails(i, d)
                /\ SumOver(Reported, Ends(i, d))' = SumOver(Reported, Ends(i, d))
  BY <1>1 DEF Tails, Owed, Reported, Ends, EndOf
<1>3. \A i, d, k : Given(i, d, k)' = Given(i, d, k)
  BY <1>1 DEF Given
<1>4. GoodStreams' /\ GoodIps(ips)'
  BY <1>1 DEF MediaInv, GoodStreams, GoodStream, Times, GoodIps, GoodIp
<1>5. LossCovered'
  BY <1>1, <1>2, <1>3 DEF MediaInv, LossCovered
<1>6. (evicted = FALSE => Attributed)'
  BY <1>1, <1>2, <1>3 DEF MediaInv, Attributed
<1> QED
  BY <1>1, <1>4, <1>5, <1>6 DEF MediaInv

LEMMA MediaInit == Init => MediaInv
<1> SUFFICES ASSUME Init PROVE MediaInv
  OBVIOUS
<1>1. /\ ips = <<>> /\ streams = <<>> /\ evicted = FALSE
      /\ sent = [i \in Ips |-> [d \in Dirs |-> 0]]
  BY DEF Init
<1>2. DOMAIN ips = {} /\ DOMAIN streams = {} /\ ips = [i \in DOMAIN ips |-> ips[i]]
  BY <1>1
<1>3. GoodStreams /\ GoodIps(ips)
  BY <1>2, FS_EmptySet DEF GoodStreams, GoodIps
<1>4. \A i, d : Ends(i, d) = {}
  BY <1>2 DEF Ends
<1>5. \A i, d : Tails(i, d) = 0 /\ SumOver(Reported, Ends(i, d)) = 0
  BY <1>4, SumEmpty DEF Tails
<1>6. \A i, d, k : Given(i, d, k) = 0
  BY <1>2 DEF Given
<1>7. sent \in [Ips -> [Dirs -> Int]] /\ \A i \in Ips, d \in Dirs : sent[i][d] = 0
  BY <1>1
<1>8. Attributed /\ LossCovered
  BY <1>5, <1>6, <1>7 DEF Attributed, LossCovered
<1>9. evicted \in BOOLEAN
  BY <1>1
<1> QED
  BY <1>3, <1>7, <1>8, <1>9 DEF MediaInv

LEMMA MediaStep == MediaInv /\ [Next]_vars => MediaInv'
<1> SUFFICES ASSUME MediaInv, [Next]_vars PROVE MediaInv'
  OBVIOUS
<1>1. ASSUME NEW s \in Streams, NEW t \in Times, NEW dl \in {-1, 0, 1}, Packet(s, t, dl) PROVE MediaInv'
  BY <1>1, PacketMedia
<1>2. ASSUME NEW S \in SUBSET Streams, RemoveCall(S) PROVE MediaInv'
  BY <1>2, RemoveCallMedia
<1>3. ASSUME NEW s \in Streams, EvictStream(s) PROVE MediaInv'
  BY <1>3, EvictStreamMedia
<1>4. ASSUME NEW m \in Messages, NEW c \in Dialogs, NEW i \in Ips, NEW t \in Times,
             SipRequest(m, c, i, t)
      PROVE  MediaInv'
  BY <1>4, OtherMedia DEF SipRequest
<1>5. ASSUME NEW c \in Dialogs, NEW i \in Ips, NEW t \in Times, Invite(c, i, t) PROVE MediaInv'
  BY <1>5, OtherMedia DEF Invite
<1>6. ASSUME NEW c \in Dialogs, NEW i \in Ips, NEW t \in Times, NEW r \in Responses,
             SipResponse(c, i, t, r[1], r[2])
      PROVE  MediaInv'
  BY <1>6, OtherMedia DEF SipResponse
<1>7. ASSUME NEW c \in Dialogs, Forget(c) PROVE MediaInv'
  BY <1>7, OtherMedia DEF Forget, stores, history
<1>8. ASSUME NEW t \in {0, frame}, Flush(t) PROVE MediaInv'
  BY <1>8, FlushMedia
<1>9. CASE UNCHANGED vars
  BY <1>9, OtherMedia DEF vars, stores, history
<1> QED
  BY <1>1, <1>2, <1>3, <1>4, <1>5, <1>6, <1>7, <1>8, <1>9 DEF Next

(* What an address was given and what its streams still owe it is every    *)
(* packet it sent or received, each counted once, as long as no stream was *)
(* evicted: flush_stream_ipattr, remove_calls and the pruning of idle      *)
(* addresses neither lose nor repeat a packet.                             *)
THEOREM PacketsAttributedAlways == Spec => []PacketsAttributed
<1>1. Spec => []MediaInv
  BY MediaInit, MediaStep, PTL DEF Spec
<1> QED
  BY <1>1, MediaMeans, PTL

(* The losses an address shows cover those its streams have reported, also *)
(* after a late packet took a loss back (the saturating difference in      *)
(* flush_stream_ipattr).                                                   *)
THEOREM LossesCovered == Spec => []LossCovered
<1>1. Spec => []MediaInv
  BY MediaInit, MediaStep, PTL DEF Spec
<1> QED
  BY <1>1, MediaMeans, PTL

-----------------------------------------------------------------------------
(* Signalling: answers against INVITEs, and the error column *)
GoodSip(s) == /\ DOMAIN s = {"req", "resp", "series", "last"} /\ s = [x \in DOMAIN s |-> s[x]]
              /\ s.resp \in [0 .. RespN - 1 -> Nat]
Stamps == Times \cup {-1}
GoodDialog(x) ==
  /\ x \in [invite_ts : Stamps, answer_ts : Stamps, bye_ts : Stamps, key : Ips \cup {All},
            done : {TRUE, FALSE}]
  /\ x.invite_ts # -1 => x.key \in Ips
Waiting == {c \in DOMAIN dialogs : dialogs[c].invite_ts # -1 /\ dialogs[c].answer_ts = -1}

SipTypes ==
  /\ GoodSip(all) /\ DOMAIN sips \subseteq Ips
  /\ IsFiniteSet(DOMAIN dialogs) /\ \A c \in DOMAIN dialogs : GoodDialog(dialogs[c])
  /\ seenInv \in [Ips \cup {All} -> [Times -> Nat]]
  /\ seenAns \in [Ips \cup {All} -> [Times -> Nat]]

(* Each INVITE can be answered once more at most: it is the dialogs that   *)
(* wait that keep the answers below the INVITEs.                           *)
AnswersLeft ==
  SumOver(seenAns[All], Times) + Cardinality(Waiting) <= SumOver(seenInv[All], Times)

SipInv == SipTypes /\ AnswersLeft /\ ErrorsCounted

LEMMA TimesFinite == IsFiniteSet(Times) /\ Times \subseteq Nat
BY FS_Interval, TrafficAssumption DEF Times

LEMMA WaitingFinite ==
  ASSUME SipTypes PROVE IsFiniteSet(Waiting) /\ Cardinality(Waiting) \in Nat
<1>1. Waiting \subseteq DOMAIN dialogs
  BY DEF Waiting
<1>2. IsFiniteSet(Waiting)
  BY <1>1, FS_Subset DEF SipTypes
<1> QED
  BY <1>2, FS_CardinalityType

LEMMA SumsNat ==
  ASSUME SipTypes
  PROVE  SumOver(seenAns[All], Times) \in Nat /\ SumOver(seenInv[All], Times) \in Nat
<1>1. \A t \in Times : seenAns[All][t] \in Nat /\ seenInv[All][t] \in Nat
  BY DEF SipTypes
<1> QED
  BY <1>1, TimesFinite, SumNat

LEMMA SipMeans == SipInv => SipCountsSound
<1> SUFFICES ASSUME SipInv PROVE AnswersCredited /\ ErrorsCounted
  BY DEF SipCountsSound
<1>1. /\ Cardinality(Waiting) \in Nat
      /\ SumOver(seenAns[All], Times) \in Nat /\ SumOver(seenInv[All], Times) \in Nat
  BY WaitingFinite, SumsNat DEF SipInv
<1> QED
  BY <1>1 DEF SipInv, AnswersLeft, AnswersCredited

(* resp_idx: the columns that err_responses adds up are those of the 4xx,  *)
(* 5xx and 6xx responses, all but 487.                                     *)
LEMMA ErrorColumn ==
  ASSUME NEW code \in Nat
  PROVE  /\ RespIdx(code) \in 0 .. RespN - 1
         /\ RespIdx(code) \in ErrorColumns <=> code \in 400 .. 699 /\ code # 487
<1>1. DOMAIN Codes = 1 .. 10
  BY DEF Codes
<1>2. \A i \in 1 .. 10 : \A j \in 1 .. 10 : Codes[i] = Codes[j] => i = j
  BY DEF Codes
<1>3. CASE \E i \in 1 .. 10 : Codes[i] = code
  <2>1. PICK i \in 1 .. 10 : Codes[i] = code
    BY <1>3
  <2> DEFINE n == CHOOSE j \in DOMAIN Codes : Codes[j] = code
  <2>2. \E j \in DOMAIN Codes : Codes[j] = code
    BY <1>1, <2>1
  <2>3. n \in DOMAIN Codes /\ Codes[n] = code
    BY <2>2
  <2>4. RespIdx(code) = n - 1
    BY <2>2 DEF RespIdx
  <2> HIDE DEF n
  <2>5. n = i
    BY <1>1, <1>2, <2>1, <2>3
  <2>6. RespIdx(code) = i - 1
    BY <2>4, <2>5
  <2>7. i \in {5, 6, 7, 8, 9} <=> code \in 400 .. 699 /\ code # 487
    BY <2>1 DEF Codes
  <2>8. i - 1 \in ErrorColumns <=> i \in {5, 6, 7, 8, 9}
    BY <2>1 DEF ErrorColumns
  <2>9. i - 1 \in 0 .. RespN - 1
    BY <2>1 DEF RespN
  <2> QED
    BY <2>6, <2>7, <2>8, <2>9
<1>4. CASE ~ \E i \in 1 .. 10 : Codes[i] = code
  <2>1. RespIdx(code) = IF code \in 300 .. 699 THEN (code \div 100) + 7 ELSE RespN - 1
    BY <1>1, <1>4 DEF RespIdx
  <2>2. code # 487
    BY <1>4 DEF Codes
  <2>3. CASE code \notin 300 .. 699
    BY <2>1, <2>3 DEF ErrorColumns, RespN
  <2>4. CASE code \in 300 .. 699
    <3>1. PICK q \in Int : q = code \div 100 /\ 100 * q <= code /\ code < 100 * q + 100
      OBVIOUS
    <3>2. q \in {3, 4, 5, 6} /\ (q = 3 <=> code < 400)
      BY <2>4, <3>1
    <3>3. RespIdx(code) = q + 7
      BY <2>1, <2>4, <3>1
    <3> QED
      BY <2>2, <2>4, <3>2, <3>3 DEF ErrorColumns, RespN
  <2> QED
    BY <2>3, <2>4
<1> QED
  BY <1>3, <1>4

LEMMA ResponseCounted ==
  ASSUME NEW s, GoodSip(s), NEW t, NEW code \in Nat
  PROVE  /\ GoodSip(ApplyResponse(s, t, code))
         /\ RespErrors(s) \in Int
         /\ RespErrors(ApplyResponse(s, t, code))
              = RespErrors(s) + IF code \in 400 .. 699 /\ code # 487 THEN 1 ELSE 0
<1> DEFINE c == RespIdx(code)
           f == s.resp
           g == [f EXCEPT ![c] = @ + 1]
           r == ApplyResponse(s, t, code)
<1>1. c \in 0 .. RespN - 1 /\ (c \in ErrorColumns <=> code \in 400 .. 699 /\ code # 487)
  BY ErrorColumn
<1> HIDE DEF c
<1>2. f \in [0 .. RespN - 1 -> Nat]
  BY DEF GoodSip
<1>3. r = [s EXCEPT !.resp[c] = @ + 1, !.last = Later(s, t)]
  BY DEF ApplyResponse, c
<1>4. r.resp = g /\ DOMAIN r = DOMAIN s /\ r = [x \in DOMAIN r |-> r[x]]
  BY <1>3 DEF GoodSip
<1> HIDE DEF f, r
<1>5. g \in [0 .. RespN - 1 -> Nat] /\ g[c] = f[c] + 1 /\ \A x \in 0 .. RespN - 1 : x # c => f[x] = g[x]
  BY <1>1, <1>2
<1> HIDE DEF g
<1>6. GoodSip(r)
  BY <1>4, <1>5 DEF GoodSip
<1>7. IsFiniteSet(ErrorColumns) /\ ErrorColumns \subseteq 0 .. RespN - 1
  <2>1. IsFiniteSet(0 .. RespN - 1)
    <3>1. 0 \in Int /\ RespN - 1 \in Int
      BY DEF RespN
    <3> QED
      BY <3>1, FS_Interval
  <2>2. ErrorColumns \subseteq 0 .. RespN - 1
    BY DEF ErrorColumns, RespN
  <2> QED
    BY <2>1, <2>2, FS_Subset
<1>8. \A x \in ErrorColumns : f[x] \in Int /\ g[x] \in Int /\ (x # c => f[x] = g[x])
  BY <1>2, <1>5, <1>7
<1>9. SumOver(f, ErrorColumns) \in Int
  BY <1>7, <1>8, SumInt
<1>10. SumOver(g, ErrorColumns) = SumOver(f, ErrorColumns) + IF c \in ErrorColumns THEN 1 ELSE 0
  <2>1. CASE c \in ErrorColumns
    <3>1. SumOver(g, ErrorColumns) = SumOver(f, ErrorColumns) + (g[c] - f[c])
      BY <1>7, <1>8, <2>1, SumChange
    <3>2. g[c] - f[c] = 1
      BY <1>1, <1>2, <1>5
    <3> QED
      BY <2>1, <3>1, <3>2
  <2>2. CASE c \notin ErrorColumns
    <3>1. SumOver(f, ErrorColumns) = SumOver(g, ErrorColumns)
      BY <1>7, <1>8, <2>2, SumSame
    <3> QED
      BY <1>9, <2>2, <3>1
  <2> QED
    BY <2>1, <2>2
<1>11. RespErrors(s) = SumOver(f, ErrorColumns) /\ RespErrors(r) = SumOver(g, ErrorColumns)
  BY <1>4 DEF RespErrors, f
<1> QED
  BY <1>1, <1>6, <1>9, <1>10, <1>11 DEF r

(* Requests and credited answers leave the responses alone. *)
LEMMA BumpedSip ==
  ASSUME NEW s, GoodSip(s), NEW t, NEW inv, NEW ans
  PROVE  GoodSip(Bumped(s, t, inv, ans)) /\ Bumped(s, t, inv, ans).resp = s.resp
<1> DEFINE v == [w \in Widths |-> Bump(s.series[w], w, t, inv, ans)]
<1>1. Bumped(s, t, inv, ans) = [s EXCEPT !.series = v]
  BY DEF Bumped
<1> HIDE DEF v
<1> QED
  BY <1>1 DEF GoodSip

LEMMA RequestSip ==
  ASSUME NEW s, GoodSip(s), NEW t, NEW m, NEW initial \in {TRUE, FALSE}
  PROVE  GoodSip(ApplyRequest(s, t, m, initial)) /\ ApplyRequest(s, t, m, initial).resp = s.resp
<1> DEFINE b == IF initial THEN Bumped(s, t, 1, 0) ELSE s
<1>1. GoodSip(b) /\ b.resp = s.resp
  BY BumpedSip
<1>2. ApplyRequest(s, t, m, initial) = [b EXCEPT !.req[ReqIdx(m)] = @ + 1, !.last = Later(s, t)]
  BY DEF ApplyRequest
<1> HIDE DEF b
<1> DEFINE v == [b.req EXCEPT ![ReqIdx(m)] = @ + 1]
           r == ApplyRequest(s, t, m, initial)
<1>3. r.resp = b.resp /\ DOMAIN r = DOMAIN b /\ r = [x \in DOMAIN r |-> r[x]]
  BY <1>1, <1>2 DEF GoodSip
<1> QED
  BY <1>1, <1>3 DEF GoodSip

LEMMA AnswerSip ==
  ASSUME NEW s, GoodSip(s), NEW t
  PROVE  GoodSip(ApplyAnswer(s, t)) /\ ApplyAnswer(s, t).resp = s.resp
<1> DEFINE b == Bumped(s, t, 0, 1)
<1>1. GoodSip(b) /\ b.resp = s.resp
  BY BumpedSip
<1>2. ApplyAnswer(s, t) = [b EXCEPT !.last = Later(s, t)]
  BY DEF ApplyAnswer
<1> HIDE DEF b
<1> QED
  BY <1>1, <1>2 DEF GoodSip

(* One more at time t, for an address and for all *)
Tally(f, i, t) == [f EXCEPT ![i][t] = @ + 1, ![All][t] = @ + 1]

LEMMA OneMore ==
  ASSUME NEW f \in [Ips \cup {All} -> [Times -> Nat]], NEW i \in Ips, NEW t \in Times, NEW g,
         g = Tally(f, i, t)
  PROVE  /\ g \in [Ips \cup {All} -> [Times -> Nat]]
         /\ SumOver(g[All], Times) = SumOver(f[All], Times) + 1
<1> USE DEF Tally
<1>1. i # All /\ i \in Ips \cup {All} /\ All \in Ips \cup {All}
  BY TrafficAssumption DEF All
<1>2. g \in [Ips \cup {All} -> [Times -> Nat]]
  <2> DEFINE h == [f EXCEPT ![i][t] = @ + 1]
  <2>1. h \in [Ips \cup {All} -> [Times -> Nat]]
    BY <1>1
  <2>2. g = [h EXCEPT ![All][t] = @ + 1]
    BY <1>1
  <2> HIDE DEF h
  <2> QED
    BY <1>1, <2>1, <2>2
<1>3. g[All] = [f[All] EXCEPT ![t] = @ + 1]
  BY <1>1
<1> DEFINE u == f[All]
           v == g[All]
<1>4. \A x \in Times : u[x] \in Int /\ v[x] \in Int /\ (x # t => u[x] = v[x])
  BY <1>1, <1>2, <1>3
<1>5. v[t] = u[t] + 1 /\ u[t] \in Int
  BY <1>1, <1>3
<1> HIDE DEF u, v
<1>6. SumOver(u, Times) \in Int /\ SumOver(v, Times) = SumOver(u, Times) + (v[t] - u[t])
  BY <1>4, TimesFinite, SumChange
<1>7. SumOver(v, Times) = SumOver(u, Times) + 1
  BY <1>5, <1>6
<1> QED
  BY <1>2, <1>7 DEF u, v

(* What a message finds and leaves of its dialog *)
LEMMA DialogFound ==
  ASSUME SipTypes, NEW c
  PROVE  /\ GoodDialog(Dialog(c))
         /\ c \in DOMAIN dialogs => Dialog(c) = dialogs[c]
         /\ c \notin DOMAIN dialogs => Dialog(c).invite_ts = -1
<1>1. GoodDialog(NoDialog) /\ NoDialog.invite_ts = -1
  BY DEF GoodDialog, NoDialog, Stamps
<1> QED
  BY <1>1 DEF SipTypes, Dialog, Entry

LEMMA DialogLeft ==
  ASSUME SipTypes, NEW c, NEW x, GoodDialog(x), NEW ends \in BOOLEAN, NEW end,
         Converse(c, x, ends, end)
  PROVE  /\ IsFiniteSet(DOMAIN dialogs') /\ DOMAIN dialogs' = DOMAIN dialogs \cup {c}
         /\ \A q \in DOMAIN dialogs' : GoodDialog(dialogs'[q])
         /\ dialogs'[c].invite_ts = x.invite_ts /\ dialogs'[c].answer_ts = x.answer_ts
         /\ \A q \in DOMAIN dialogs : q # c => dialogs'[q] = dialogs[q]
<1> DEFINE D == DOMAIN dialogs
           y == [x EXCEPT !.done = @ \/ ends]
<1>1. dialogs' = [q \in D \cup {c} |-> IF q = c THEN y ELSE dialogs[q]]
  BY DEF Converse, With
<1>2. GoodDialog(y) /\ y.invite_ts = x.invite_ts /\ y.answer_ts = x.answer_ts
  <2>1. (x.done \/ ends) \in {TRUE, FALSE}
    OBVIOUS
  <2>2. y = [x EXCEPT !.done = (x.done \/ ends)]
    OBVIOUS
  <2> HIDE DEF y
  <2> DEFINE b == x.done \/ ends
  <2> HIDE DEF b
  <2>3. b \in {TRUE, FALSE} /\ y = [x EXCEPT !.done = b]
    BY <2>1, <2>2 DEF b
  <2> QED
    BY <2>3 DEF GoodDialog
<1> HIDE DEF y
<1>3. IsFiniteSet(D \cup {c}) /\ DOMAIN dialogs' = D \cup {c}
  BY <1>1, FS_AddElement DEF SipTypes
<1>4. \A q \in D \cup {c} : GoodDialog(dialogs'[q])
  BY <1>1, <1>2 DEF SipTypes
<1> QED
  BY <1>1, <1>2, <1>3, <1>4

LEMMA StampKept ==
  ASSUME NEW old \in Stamps, NEW t \in Times
  PROVE  /\ FirstOf(old, t) \in Times
         /\ FirstOf(old, t) # -1 /\ (old # -1 => FirstOf(old, t) = old)
BY TimesFinite DEF FirstOf, Stamps

LEMMA ByeKept ==
  ASSUME NEW x, GoodDialog(x), NEW bye, NEW t \in Times
  PROVE  LET y == [x EXCEPT !.bye_ts = IF bye THEN FirstOf(@, t) ELSE @]
         IN GoodDialog(y) /\ y.invite_ts = x.invite_ts /\ y.answer_ts = x.answer_ts
<1> DEFINE n == IF bye THEN FirstOf(x.bye_ts, t) ELSE x.bye_ts
<1>1. n \in Stamps
  BY StampKept DEF GoodDialog, Stamps
<1>2. [x EXCEPT !.bye_ts = IF bye THEN FirstOf(@, t) ELSE @] = [x EXCEPT !.bye_ts = n]
  OBVIOUS
<1> HIDE DEF n
<1> QED
  BY <1>1, <1>2 DEF GoodDialog

LEMMA AnswerKept ==
  ASSUME NEW x, GoodDialog(x), NEW ok, NEW t \in Times
  PROVE  LET y == [x EXCEPT !.answer_ts = IF ok THEN FirstOf(@, t) ELSE @]
         IN /\ GoodDialog(y) /\ y.invite_ts = x.invite_ts
            /\ ok => y.answer_ts # -1
            /\ y.answer_ts = -1 => x.answer_ts = -1
<1> DEFINE n == IF ok THEN FirstOf(x.answer_ts, t) ELSE x.answer_ts
<1>1. n \in Stamps /\ (ok => n # -1) /\ (n = -1 => x.answer_ts = -1)
  BY StampKept DEF GoodDialog, Stamps
<1>2. [x EXCEPT !.answer_ts = IF ok THEN FirstOf(@, t) ELSE @] = [x EXCEPT !.answer_ts = n]
  OBVIOUS
<1> HIDE DEF n
<1> QED
  BY <1>1, <1>2 DEF GoodDialog

LEMMA SipRequestSip ==
  ASSUME SipInv, NEW m \in Messages, NEW c \in Dialogs, NEW i \in Ips, NEW t \in Times,
         SipRequest(m, c, i, t)
  PROVE  SipInv'
<1> DEFINE r == ApplyRequest(Entry(sips, i, NewSip), t, m, FALSE)
           x == Dialog(c)
           y == [x EXCEPT !.bye_ts = IF m = "BYE" THEN FirstOf(@, t) ELSE @]
<1>1. /\ all' = ApplyRequest(all, t, m, FALSE) /\ sips' = With(sips, i, r)
      /\ Converse(c, y, m = "CANCEL", t)
      /\ seenInv' = seenInv /\ seenAns' = seenAns /\ seenErr' = seenErr
  BY DEF SipRequest
<1>2. GoodSip(all') /\ all'.resp = all.resp
  BY <1>1, RequestSip DEF SipInv, SipTypes
<1>3. DOMAIN sips' \subseteq Ips
  BY <1>1 DEF With, SipInv, SipTypes
<1>4. GoodDialog(x) /\ (c \in DOMAIN dialogs => x = dialogs[c])
      /\ (c \notin DOMAIN dialogs => x.invite_ts = -1)
  BY DialogFound DEF SipInv
<1> HIDE DEF r, x
<1>5. GoodDialog(y) /\ y.invite_ts = x.invite_ts /\ y.answer_ts = x.answer_ts
  BY <1>4, ByeKept
<1> HIDE DEF y
<1>6. /\ IsFiniteSet(DOMAIN dialogs') /\ DOMAIN dialogs' = DOMAIN dialogs \cup {c}
      /\ \A q \in DOMAIN dialogs' : GoodDialog(dialogs'[q])
      /\ dialogs'[c].invite_ts = x.invite_ts /\ dialogs'[c].answer_ts = x.answer_ts
      /\ \A q \in DOMAIN dialogs : q # c => dialogs'[q] = dialogs[q]
  BY <1>1, <1>5, DialogLeft DEF SipInv
<1>7. Waiting' = Waiting
  BY <1>4, <1>6 DEF Waiting
<1>8. SipTypes'
  <2>1. /\ seenInv' \in [Ips \cup {All} -> [Times -> Nat]]
        /\ seenAns' \in [Ips \cup {All} -> [Times -> Nat]]
    BY <1>1 DEF SipInv, SipTypes
  <2> QED
    BY <1>2, <1>3, <1>6, <2>1 DEF SipTypes
<1>9. AnswersLeft'
  BY <1>1, <1>7 DEF SipInv, AnswersLeft, All, Times
<1>10. ErrorsCounted'
  BY <1>1, <1>2 DEF SipInv, ErrorsCounted, RespErrors, ErrorColumns
<1> QED
  BY <1>8, <1>9, <1>10 DEF SipInv

LEMMA InviteSip ==
  ASSUME SipInv, NEW c \in Dialogs, NEW i \in Ips, NEW t \in Times, Invite(c, i, t)
  PROVE  SipInv'
<1> DEFINE r == ApplyRequest(Entry(sips, i, NewSip), t, "INVITE", TRUE)
           x == Dialog(c)
           y == [x EXCEPT !.invite_ts = FirstOf(@, t),
                          !.key = IF x.invite_ts = -1 THEN i ELSE @]
           D == DOMAIN dialogs
<1>1. /\ all' = ApplyRequest(all, t, "INVITE", TRUE) /\ sips' = With(sips, i, r)
      /\ dialogs' = With(dialogs, c, y)
      /\ seenInv' = Tally(seenInv, i, t)
      /\ seenAns' = seenAns /\ seenErr' = seenErr
  BY DEF Invite, Tally
<1>2. GoodDialog(x)
  BY DialogFound DEF SipInv
<1> HIDE DEF r, x
<1>3. GoodDialog(y)
  <2>1. FirstOf(x.invite_ts, t) \in Stamps
    BY <1>2, StampKept DEF GoodDialog, Stamps
  <2>2. (IF x.invite_ts = -1 THEN i ELSE x.key) \in Ips
    BY <1>2 DEF GoodDialog
  <2> QED
    BY <1>2, <2>1, <2>2 DEF GoodDialog
<1> HIDE DEF y
<1>4. dialogs' = [q \in D \cup {c} |-> IF q = c THEN y ELSE dialogs[q]]
  BY <1>1 DEF With
<1>5. GoodSip(all') /\ all'.resp = all.resp
  BY <1>1, RequestSip DEF SipInv, SipTypes
<1>6. /\ seenInv' \in [Ips \cup {All} -> [Times -> Nat]]
      /\ SumOver(seenInv'[All], Times) = SumOver(seenInv[All], Times) + 1
  BY <1>1, OneMore DEF SipInv, SipTypes
<1>7. SipTypes'
  <2>1. DOMAIN sips' \subseteq Ips
    BY <1>1 DEF With, SipInv, SipTypes
  <2>2. IsFiniteSet(D \cup {c}) /\ DOMAIN dialogs' = D \cup {c}
    BY <1>4, FS_AddElement DEF SipInv, SipTypes
  <2>3. \A q \in D \cup {c} : GoodDialog(dialogs'[q])
    BY <1>3, <1>4 DEF SipInv, SipTypes
  <2>4. seenAns' \in [Ips \cup {All} -> [Times -> Nat]]
    BY <1>1 DEF SipInv, SipTypes
  <2> QED
    BY <1>5, <1>6, <2>1, <2>2, <2>3, <2>4 DEF SipTypes
<1>8. Cardinality(Waiting') <= Cardinality(Waiting) + 1 /\ Cardinality(Waiting') \in Nat
  <2>1. IsFiniteSet(Waiting) /\ Cardinality(Waiting) \in Nat
    BY WaitingFinite DEF SipInv
  <2>2. Waiting' \subseteq Waiting \cup {c}
    BY <1>4 DEF Waiting
  <2>3. /\ IsFiniteSet(Waiting \cup {c}) /\ Cardinality(Waiting \cup {c}) \in Nat
        /\ Cardinality(Waiting \cup {c}) <= Cardinality(Waiting) + 1
    <3>1. CASE c \in Waiting
      <4>1. Waiting \cup {c} = Waiting
        BY <3>1
      <4>2. IsFiniteSet(Waiting \cup {c}) /\ Cardinality(Waiting \cup {c}) = Cardinality(Waiting)
        BY <2>1, <4>1, Zenon
      <4> QED
        BY <2>1, <4>2
    <3>2. CASE c \notin Waiting
      <4>1. IsFiniteSet(Waiting \cup {c}) /\ Cardinality(Waiting \cup {c}) = Cardinality(Waiting) + 1
        BY <2>1, <3>2, FS_AddElement
      <4> QED
        BY <2>1, <4>1
    <3> QED
      BY <3>1, <3>2
  <2>4. Cardinality(Waiting') <= Cardinality(Waiting \cup {c}) /\ IsFiniteSet(Waiting')
    BY <2>2, <2>3, FS_Subset
  <2>5. Cardinality(Waiting') \in Nat
    BY <2>4, FS_CardinalityType
  <2> QED
    BY <2>1, <2>3, <2>4, <2>5
<1>9. AnswersLeft'
  <2>1. /\ SumOver(seenAns[All], Times) \in Nat /\ SumOver(seenInv[All], Times) \in Nat
        /\ Cardinality(Waiting) \in Nat
    BY SumsNat, WaitingFinite DEF SipInv
  <2>2. SumOver(seenAns[All], Times) + Cardinality(Waiting) <= SumOver(seenInv[All], Times)
    BY DEF SipInv, AnswersLeft
  <2>3. SumOver(seenAns[All], Times) + Cardinality(Waiting') <= SumOver(seenInv'[All], Times)
    BY <1>6, <1>8, <2>1, <2>2
  <2> QED
    BY <1>1, <2>3 DEF AnswersLeft, All, Times
<1>10. ErrorsCounted'
  BY <1>1, <1>5 DEF SipInv, ErrorsCounted, RespErrors, ErrorColumns
<1> QED
  BY <1>7, <1>9, <1>10 DEF SipInv

LEMMA SipResponseSip ==
  ASSUME SipInv, NEW c \in Dialogs, NEW i \in Ips, NEW t \in Times, NEW code \in Nat, NEW cseq,
         SipResponse(c, i, t, code, cseq)
  PROVE  SipInv'
<1> DEFINE d == With(sips, i, ApplyResponse(Entry(sips, i, NewSip), t, code))
           a == ApplyResponse(all, t, code)
           k == dialogs[c].key
           x == Dialog(c)
           ok == code \in 200 .. 299 /\ cseq # "BYE"
           y == [x EXCEPT !.answer_ts = IF ok THEN FirstOf(@, t) ELSE @]
           ends == code >= 300 \/ (code \in 200 .. 299 /\ cseq = "BYE")
           end == IF code = 487 /\ cseq # "BYE" THEN -1 ELSE t
           D == DOMAIN dialogs
           refuse == IF code \in 400 .. 699 /\ code # 487 THEN 1 ELSE 0
<1>1. Converse(c, y, ends, end) /\ seenInv' = seenInv /\ seenErr' = seenErr + refuse
  BY DEF SipResponse
<1>2. GoodDialog(x) /\ (c \in D => x = dialogs[c]) /\ (c \notin D => x.invite_ts = -1)
  BY DialogFound DEF SipInv
<1> HIDE DEF x
<1>3. /\ GoodDialog(y) /\ y.invite_ts = x.invite_ts
      /\ ok => y.answer_ts # -1
      /\ y.answer_ts = -1 => x.answer_ts = -1
  BY <1>2, AnswerKept
<1> HIDE DEF y
<1>4. /\ IsFiniteSet(DOMAIN dialogs') /\ DOMAIN dialogs' = D \cup {c}
      /\ \A q \in DOMAIN dialogs' : GoodDialog(dialogs'[q])
      /\ dialogs'[c].invite_ts = y.invite_ts /\ dialogs'[c].answer_ts = y.answer_ts
      /\ \A q \in D : q # c => dialogs'[q] = dialogs[q]
  <2>1. ends \in BOOLEAN
    OBVIOUS
  <2> HIDE DEF ends, end
  <2> QED
    BY <1>1, <1>3, <2>1, DialogLeft DEF SipInv
<1>5. GoodSip(a) /\ RespErrors(all) \in Int /\ RespErrors(a) = RespErrors(all) + refuse
  BY ResponseCounted DEF SipInv, SipTypes
<1>6. DOMAIN d \subseteq Ips
  BY DEF With, SipInv, SipTypes
<1> HIDE DEF a, d
<1>7. /\ IsFiniteSet(DOMAIN dialogs') /\ \A q \in DOMAIN dialogs' : GoodDialog(dialogs'[q])
      /\ DOMAIN dialogs' = D \cup {c}
  BY <1>4
<1>8. IsFiniteSet(Waiting) /\ Cardinality(Waiting) \in Nat
  BY WaitingFinite DEF SipInv
<1>9. /\ SumOver(seenAns[All], Times) \in Nat /\ SumOver(seenInv[All], Times) \in Nat
      /\ SumOver(seenAns[All], Times) + Cardinality(Waiting) <= SumOver(seenInv[All], Times)
  BY SumsNat DEF SipInv, AnswersLeft
<1>10. CASE Credits(c, code, cseq)
  <2>1. /\ sips' = With(d, k, ApplyAnswer(Entry(d, k, NewSip), t)) /\ all' = ApplyAnswer(a, t)
        /\ seenAns' = Tally(seenAns, k, t)
    BY <1>10 DEF SipResponse, Tally, a, d
  <2>2. c \in D /\ dialogs[c].invite_ts # -1 /\ dialogs[c].answer_ts = -1 /\ ok
    BY <1>10 DEF Credits
  <2>3. k \in Ips
    BY <2>2 DEF SipInv, SipTypes, GoodDialog
  <2>4. GoodSip(all') /\ all'.resp = a.resp
    BY <1>5, <2>1, AnswerSip
  <2>5. DOMAIN sips' \subseteq Ips
    BY <1>6, <2>1, <2>3 DEF With
  <2>6. /\ seenAns' \in [Ips \cup {All} -> [Times -> Nat]]
        /\ SumOver(seenAns'[All], Times) = SumOver(seenAns[All], Times) + 1
    <3>1. seenAns \in [Ips \cup {All} -> [Times -> Nat]]
      BY DEF SipInv, SipTypes
    <3> HIDE DEF k
    <3> QED
      BY <2>1, <2>3, <3>1, OneMore
  <2>7. Waiting' = Waiting \ {c} /\ c \in Waiting
    BY <1>2, <1>3, <1>4, <2>2 DEF Waiting
  <2>8. Cardinality(Waiting) = Cardinality(Waiting') + 1 /\ Cardinality(Waiting') \in Nat
    BY <1>8, <2>7, OneLess
  <2>9. SumOver(seenAns'[All], Times) + Cardinality(Waiting') <= SumOver(seenInv[All], Times)
    BY <1>8, <1>9, <2>6, <2>8
  <2>10. AnswersLeft'
    BY <1>1, <2>9 DEF AnswersLeft, All, Times
  <2>11. ErrorsCounted'
    BY <1>1, <1>5, <2>4 DEF SipInv, ErrorsCounted, RespErrors, ErrorColumns
  <2>12. seenInv' \in [Ips \cup {All} -> [Times -> Nat]]
    BY <1>1 DEF SipInv, SipTypes
  <2>13. SipTypes'
    BY <1>7, <2>4, <2>5, <2>6, <2>12 DEF SipTypes
  <2> QED
    BY <2>10, <2>11, <2>13 DEF SipInv
<1>11. CASE ~Credits(c, code, cseq)
  <2>1. sips' = d /\ all' = a /\ seenAns' = seenAns
    BY <1>11 DEF SipResponse, a, d
  <2>2. Waiting' \subseteq Waiting
    BY <1>2, <1>3, <1>4 DEF Waiting
  <2>3. Cardinality(Waiting') <= Cardinality(Waiting) /\ Cardinality(Waiting') \in Nat
    BY <1>8, <2>2, FS_Subset, FS_CardinalityType
  <2>4. SumOver(seenAns[All], Times) + Cardinality(Waiting') <= SumOver(seenInv[All], Times)
    BY <1>8, <1>9, <2>3
  <2>5. AnswersLeft'
    BY <1>1, <2>1, <2>4 DEF AnswersLeft, All, Times
  <2>6. ErrorsCounted'
    BY <1>1, <1>5, <2>1 DEF SipInv, ErrorsCounted, RespErrors, ErrorColumns
  <2>7. /\ seenInv' \in [Ips \cup {All} -> [Times -> Nat]]
        /\ seenAns' \in [Ips \cup {All} -> [Times -> Nat]]
        /\ GoodSip(all') /\ DOMAIN sips' \subseteq Ips
    BY <1>1, <1>5, <1>6, <2>1 DEF SipInv, SipTypes
  <2>8. SipTypes'
    BY <1>7, <2>7 DEF SipTypes
  <2> QED
    BY <2>5, <2>6, <2>8 DEF SipInv
<1> QED
  BY <1>10, <1>11

LEMMA ForgetSip ==
  ASSUME SipInv, NEW c \in Dialogs, Forget(c)
  PROVE  SipInv'
<1> DEFINE D == DOMAIN dialogs
<1>1. /\ dialogs' = Without(dialogs, {c}) /\ all' = all /\ sips' = sips
      /\ seenInv' = seenInv /\ seenAns' = seenAns /\ seenErr' = seenErr
  BY DEF Forget, stores, history
<1>2. dialogs' = [q \in D \ {c} |-> dialogs[q]]
  BY <1>1 DEF Without
<1>3. SipTypes'
  <2>1. DOMAIN dialogs' = D \ {c} /\ IsFiniteSet(D \ {c})
    BY <1>2, FS_Subset DEF SipInv, SipTypes
  <2>2. \A q \in D \ {c} : GoodDialog(dialogs'[q])
    BY <1>2 DEF SipInv, SipTypes
  <2>3. /\ seenInv' \in [Ips \cup {All} -> [Times -> Nat]]
        /\ seenAns' \in [Ips \cup {All} -> [Times -> Nat]]
        /\ GoodSip(all') /\ DOMAIN sips' \subseteq Ips
    BY <1>1 DEF SipInv, SipTypes
  <2> QED
    BY <2>1, <2>2, <2>3 DEF SipTypes
<1>4. IsFiniteSet(Waiting) /\ Cardinality(Waiting) \in Nat
  BY WaitingFinite DEF SipInv
<1>5. Waiting' \subseteq Waiting
  BY <1>2 DEF Waiting
<1>6. Cardinality(Waiting') <= Cardinality(Waiting) /\ Cardinality(Waiting') \in Nat
  BY <1>4, <1>5, FS_Subset, FS_CardinalityType
<1>7. /\ SumOver(seenAns[All], Times) \in Nat /\ SumOver(seenInv[All], Times) \in Nat
      /\ SumOver(seenAns[All], Times) + Cardinality(Waiting) <= SumOver(seenInv[All], Times)
  BY SumsNat DEF SipInv, AnswersLeft
<1>8. SumOver(seenAns[All], Times) + Cardinality(Waiting') <= SumOver(seenInv[All], Times)
  BY <1>4, <1>6, <1>7
<1>9. AnswersLeft' /\ ErrorsCounted'
  BY <1>1, <1>8 DEF SipInv, AnswersLeft, All, Times, ErrorsCounted, RespErrors, ErrorColumns
<1> QED
  BY <1>3, <1>9 DEF SipInv

LEMMA FlushSip ==
  ASSUME SipInv, NEW t, Flush(t)
  PROVE  SipInv'
<1> DEFINE quiet == IF Due(last_flush, t, FlushPeriod)
                      THEN {i \in DOMAIN sips : sips[i].last < Since(t)} ELSE {}
<1>1. /\ sips' = Without(sips, quiet)
      /\ seenInv' = [i \in DOMAIN seenInv |-> IF i \in quiet THEN Zero ELSE seenInv[i]]
      /\ seenAns' = [i \in DOMAIN seenAns |-> IF i \in quiet THEN Zero ELSE seenAns[i]]
      /\ all' = all /\ dialogs' = dialogs /\ seenErr' = seenErr
  BY DEF Flush
<1>2. All \notin quiet
  BY TrafficAssumption DEF SipInv, SipTypes, All
<1> HIDE DEF quiet
<1>3. DOMAIN sips' \subseteq Ips
  BY <1>1 DEF Without, SipInv, SipTypes
<1>4. Zero \in [Times -> Nat]
  BY DEF Zero
<1>5. /\ seenInv' \in [Ips \cup {All} -> [Times -> Nat]]
      /\ seenAns' \in [Ips \cup {All} -> [Times -> Nat]]
      /\ seenInv'[All] = seenInv[All] /\ seenAns'[All] = seenAns[All]
  BY <1>1, <1>2, <1>4 DEF SipInv, SipTypes
<1>6. SipTypes'
  <2>1. GoodSip(all') /\ IsFiniteSet(DOMAIN dialogs') /\ \A c \in DOMAIN dialogs' : GoodDialog(dialogs'[c])
    BY <1>1 DEF SipInv, SipTypes
  <2> QED
    BY <1>3, <1>5, <2>1 DEF SipTypes
<1>7. AnswersLeft'
  <2>1. Waiting' = Waiting
    BY <1>1 DEF Waiting
  <2>2. SumOver(seenAns'[All], Times) + Cardinality(Waiting') <= SumOver(seenInv'[All], Times)
    BY <1>5, <2>1 DEF SipInv, AnswersLeft
  <2> QED
    BY <2>2 DEF AnswersLeft, All, Times
<1>8. ErrorsCounted'
  BY <1>1 DEF SipInv, ErrorsCounted, RespErrors, ErrorColumns
<1> QED
  BY <1>6, <1>7, <1>8 DEF SipInv

LEMMA OtherSip ==
  ASSUME SipInv, UNCHANGED <<all, sips, dialogs, seenInv, seenAns, seenErr>>
  PROVE  SipInv'
<1>1. /\ all' = all /\ sips' = sips /\ dialogs' = dialogs
      /\ seenInv' = seenInv /\ seenAns' = seenAns /\ seenErr' = seenErr
  OBVIOUS
<1>2. SipTypes'
  BY <1>1 DEF SipInv, SipTypes, GoodSip, RespN, GoodDialog, All, Times
<1>3. AnswersLeft' /\ ErrorsCounted'
  BY <1>1 DEF SipInv, AnswersLeft, Waiting, All, Times, ErrorsCounted, RespErrors, ErrorColumns
<1> QED
  BY <1>2, <1>3 DEF SipInv

LEMMA SipInit == Init => SipInv
<1> SUFFICES ASSUME Init PROVE SipInv
  OBVIOUS
<1>1. /\ all = NewSip /\ sips = <<>> /\ dialogs = <<>> /\ seenErr = 0
      /\ seenInv = [i \in Ips \cup {All} |-> Zero] /\ seenAns = [i \in Ips \cup {All} |-> Zero]
  BY DEF Init
<1>2. DOMAIN dialogs = {} /\ DOMAIN sips = {}
  BY <1>1
<1>3. all.resp = [c \in 0 .. RespN - 1 |-> 0] /\ GoodSip(all)
  BY <1>1 DEF NewSip, GoodSip
<1>4. Zero \in [Times -> Nat] /\ \A t \in Times : Zero[t] = 0
  BY DEF Zero
<1>5. seenInv[All] = Zero /\ seenAns[All] = Zero
  BY <1>1
<1>6. SipTypes
  <2>1. /\ seenInv \in [Ips \cup {All} -> [Times -> Nat]]
        /\ seenAns \in [Ips \cup {All} -> [Times -> Nat]]
    BY <1>1, <1>4
  <2> QED
    BY <1>2, <1>3, <2>1, FS_EmptySet DEF SipTypes
<1>7. AnswersLeft
  <2>1. SumOver(Zero, Times) = 0
    BY <1>4, TimesFinite, SumZero
  <2>2. Waiting = {}
    BY <1>2 DEF Waiting
  <2>3. Cardinality(Waiting) = 0
    BY <2>2, FS_EmptySet
  <2> QED
    BY <1>5, <2>1, <2>3 DEF AnswersLeft
<1>8. ErrorsCounted
  <2>1. ErrorColumns \subseteq 0 .. RespN - 1
    BY DEF ErrorColumns, RespN
  <2>2. IsFiniteSet(0 .. RespN - 1)
    <3>1. 0 \in Int /\ RespN - 1 \in Int
      BY DEF RespN
    <3> QED
      BY <3>1, FS_Interval
  <2>3. SumOver(all.resp, ErrorColumns) = 0
    BY <1>3, <2>1, <2>2, FS_Subset, SumZero
  <2> QED
    BY <1>1, <2>3 DEF ErrorsCounted, RespErrors
<1> QED
  BY <1>6, <1>7, <1>8 DEF SipInv

LEMMA SipStep == SipInv /\ [Next]_vars => SipInv'
<1> SUFFICES ASSUME SipInv, [Next]_vars PROVE SipInv'
  OBVIOUS
<1>1. ASSUME NEW s \in Streams, NEW t \in Times, NEW dl \in {-1, 0, 1}, Packet(s, t, dl) PROVE SipInv'
  BY <1>1, OtherSip DEF Packet, stores
<1>2. ASSUME NEW S \in SUBSET Streams, RemoveCall(S) PROVE SipInv'
  BY <1>2, OtherSip DEF RemoveCall
<1>3. ASSUME NEW s \in Streams, EvictStream(s) PROVE SipInv'
  BY <1>3, OtherSip DEF EvictStream, stores
<1>4. ASSUME NEW m \in Messages, NEW c \in Dialogs, NEW i \in Ips, NEW t \in Times,
             SipRequest(m, c, i, t)
      PROVE  SipInv'
  BY <1>4, SipRequestSip
<1>5. ASSUME NEW c \in Dialogs, NEW i \in Ips, NEW t \in Times, Invite(c, i, t) PROVE SipInv'
  BY <1>5, InviteSip
<1>6. ASSUME NEW c \in Dialogs, NEW i \in Ips, NEW t \in Times, NEW r \in Responses,
             SipResponse(c, i, t, r[1], r[2])
      PROVE  SipInv'
  <2>1. r[1] \in Nat
    BY TrafficAssumption
  <2> QED
    BY <1>6, <2>1, SipResponseSip
<1>7. ASSUME NEW c \in Dialogs, Forget(c) PROVE SipInv'
  BY <1>7, ForgetSip
<1>8. ASSUME NEW t \in {0, frame}, Flush(t) PROVE SipInv'
  BY <1>8, FlushSip
<1>9. CASE UNCHANGED vars
  BY <1>9, OtherSip DEF vars, stores, history
<1> QED
  BY <1>1, <1>2, <1>3, <1>4, <1>5, <1>6, <1>7, <1>8, <1>9 DEF Next

(* The rates of the SIP page are sound: there are never more credited      *)
(* answers than INVITEs, whatever is retransmitted or ends and comes back  *)
(* (ingest_sip credits the first 2xx of an unanswered dialog), and the     *)
(* error column counts each refusal once (resp_idx, err_responses).        *)
THEOREM SipCountsAlwaysSound == Spec => []SipCountsSound
<1>1. Spec => []SipInv
  BY SipInit, SipStep, PTL DEF Spec
<1> QED
  BY <1>1, SipMeans, PTL

(* What truncating division does: the bucket of a time begins at most a    *)
(* width before it.                                                        *)
LEMMA DivBounds ==
  ASSUME NEW t \in Nat, NEW w \in Nat \ {0}
  PROVE  t \div w \in Nat /\ (t \div w) * w <= t /\ t < (t \div w) * w + w
OBVIOUS

-----------------------------------------------------------------------------
(* The heatmap: what a bucket lacks of the calls that ended in it was in   *)
(* it when it was pruned, behind the furthest cutoff                       *)
HeatInv ==
  /\ frame \in Times /\ cut \in Nat /\ ended \in [Times -> Nat]
  /\ \A t \in Times : Entry(heat, BucketOf(t), 0) \in Nat
  /\ HeatExact

EndedIn(f, b) == SumOver(f, {t \in Times : BucketOf(t) = b})

LEMMA BucketBounds ==
  ASSUME NEW t \in Times
  PROVE  BucketOf(t) \in Nat /\ BucketOf(t) <= t /\ t < BucketOf(t) + HeatWidth
<1>1. t \in Nat /\ HeatWidth \in Nat \ {0}
  BY TimesFinite, TrafficAssumption
<1>2. t \div HeatWidth \in Nat /\ (t \div HeatWidth) * HeatWidth <= t
      /\ t < (t \div HeatWidth) * HeatWidth + HeatWidth
  BY <1>1, DivBounds
<1> QED
  BY <1>1, <1>2 DEF BucketOf

LEMMA EndedNat ==
  ASSUME NEW f \in [Times -> Nat], NEW b
  PROVE  EndedIn(f, b) \in Nat
<1> DEFINE S == {t \in Times : BucketOf(t) = b}
<1>1. IsFiniteSet(S)
  BY TimesFinite, FS_Subset
<1>2. \A t \in S : f[t] \in Nat
  OBVIOUS
<1> QED
  BY <1>1, <1>2, SumNat DEF EndedIn

LEMMA HeatInit == Init => HeatInv
<1> SUFFICES ASSUME Init PROVE HeatInv
  OBVIOUS
<1>1. DOMAIN heat = {}
  BY DEF Init
<1>2. ended = Zero /\ Zero \in [Times -> Nat] /\ \A t \in Times : Zero[t] = 0
  BY DEF Init, Zero
<1>3. 0 \in Times /\ cut = 0 /\ frame = 0
  BY TrafficAssumption DEF Init, Times
<1>4. \A b : Entry(heat, b, 0) = 0
  BY <1>1 DEF Entry
<1>5. ASSUME NEW b PROVE SumOver(ended, {t \in Times : BucketOf(t) = b}) = 0
  <2> DEFINE S == {t \in Times : BucketOf(t) = b}
  <2>1. IsFiniteSet(S)
    BY TimesFinite, FS_Subset
  <2>2. \A t \in S : ended[t] = 0
    BY <1>2
  <2> QED
    BY <2>1, <2>2, SumZero
<1>6. HeatExact
  BY <1>4, <1>5 DEF HeatExact
<1>7. \A t \in Times : Entry(heat, BucketOf(t), 0) \in Nat
  BY <1>4
<1> QED
  BY <1>2, <1>3, <1>6, <1>7 DEF HeatInv

(* A step that touches neither the heatmap nor its history *)
LEMMA HeatRest ==
  ASSUME HeatInv, UNCHANGED <<heat, ended, cut>>, frame' \in Times
  PROVE  HeatInv'
<1>1. heat' = heat /\ ended' = ended /\ cut' = cut
  OBVIOUS
<1> QED
  BY <1>1 DEF HeatInv, HeatExact, Entry, BucketOf, Times

(* A call's end is placed at one of its stamps, or at 0 *)
LEMMA PlaceInTimes ==
  ASSUME NEW x, GoodDialog(x), NEW end \in Stamps
  PROVE  Place(x, end) \in Times
<1>1. x.bye_ts \in Stamps /\ x.answer_ts \in Stamps /\ x.invite_ts \in Stamps /\ 0 \in Times
  BY TrafficAssumption DEF GoodDialog, Times
<1>2. \A a \in Stamps, b \in Stamps : FirstOf(a, b) \in Stamps
  BY DEF FirstOf
<1>3. \A a \in Stamps : FirstOf(a, 0) \in Times
  BY <1>1 DEF FirstOf, Stamps
<1> QED
  BY <1>1, <1>2, <1>3 DEF Place

LEMMA HeatMessage ==
  ASSUME HeatInv, NEW c, NEW x, GoodDialog(x), NEW ends, NEW end \in Stamps,
         Converse(c, x, ends, end), cut' = cut, frame' \in Times
  PROVE  HeatInv'
<1>1. CASE UNCHANGED <<heat, ended>>
  BY <1>1, HeatRest
<1>2. CASE ends /\ ~x.done
  <2> DEFINE at == Place(x, end)
             b0 == BucketOf(at)
             g == [ended EXCEPT ![at] = @ + 1]
  <2>1. heat' = With(heat, b0, Entry(heat, b0, 0) + 1) /\ ended' = g
    BY <1>2 DEF Converse
  <2>2. at \in Times /\ ended \in [Times -> Nat]
    BY PlaceInTimes DEF HeatInv
  <2> HIDE DEF at
  <2>3. g \in [Times -> Nat] /\ g[at] = ended[at] + 1 /\ \A t \in Times : t # at => g[t] = ended[t]
    BY <2>2
  <2>4. /\ Entry(heat', b0, 0) = Entry(heat, b0, 0) + 1
        /\ \A b : b # b0 => Entry(heat', b, 0) = Entry(heat, b, 0)
    BY <2>1 DEF With, Entry
  <2>5. ASSUME NEW b
        PROVE  EndedIn(g, b) = EndedIn(ended, b) + IF b = b0 THEN 1 ELSE 0
    <3> DEFINE S == {t \in Times : BucketOf(t) = b}
    <3>1. IsFiniteSet(S) /\ (at \in S <=> b = b0)
      BY <2>2, TimesFinite, FS_Subset
    <3> HIDE DEF g
    <3>2. /\ \A t \in S : ended[t] \in Int
          /\ \A t \in S \ {at} : g[t] = ended[t]
          /\ at \in S => g[at] = ended[at] + 1
      BY <2>2, <2>3
    <3> HIDE DEF S
    <3>3. SumOver(g, S) = SumOver(ended, S) + IF at \in S THEN 1 ELSE 0
      BY <3>1, <3>2, SumPut
    <3> QED
      BY <3>1, <3>3 DEF EndedIn, S
  <2> HIDE DEF g
  <2>6. \A t \in Times : Entry(heat', BucketOf(t), 0) \in Nat
    BY <2>4 DEF HeatInv
  <2>7. ASSUME NEW t \in Times
        PROVE  LET b == BucketOf(t)
               IN /\ Entry(heat', b, 0) <= EndedIn(g, b)
                  /\ b >= cut => Entry(heat', b, 0) = EndedIn(g, b)
    <3> DEFINE b == BucketOf(t)
    <3>1. /\ Entry(heat, b, 0) \in Nat /\ EndedIn(ended, b) \in Nat
          /\ Entry(heat, b, 0) <= EndedIn(ended, b)
          /\ b >= cut => Entry(heat, b, 0) = EndedIn(ended, b)
      BY <2>2, EndedNat DEF HeatInv, HeatExact, EndedIn
    <3>2. /\ Entry(heat', b, 0) = Entry(heat, b, 0) + IF b = b0 THEN 1 ELSE 0
          /\ EndedIn(g, b) = EndedIn(ended, b) + IF b = b0 THEN 1 ELSE 0
      BY <2>4, <2>5, <3>1
    <3> HIDE DEF b, b0
    <3>3. /\ Entry(heat', b, 0) <= EndedIn(g, b)
          /\ b >= cut => Entry(heat', b, 0) = EndedIn(g, b)
      BY <3>1, <3>2
    <3> QED
      BY <3>3 DEF b
  <2>8. HeatExact'
    BY <2>1, <2>7 DEF HeatExact, EndedIn, BucketOf, Times, Entry
  <2>9. cut' \in Nat /\ ended' \in [Times -> Nat]
    BY <2>1, <2>3 DEF HeatInv
  <2> QED
    BY <2>6, <2>8, <2>9 DEF HeatInv, BucketOf, Times
<1> QED
  BY <1>1, <1>2 DEF Converse

(* What is pruned is behind the cutoff, which never moves back *)
LEMMA HeatFlush ==
  ASSUME HeatInv, NEW t, Flush(t)
  PROVE  HeatInv'
<1> DEFINE oldest == IF Due(last_flush, t, FlushPeriod) THEN Less(frame, HeatRetain) ELSE 0
<1>1. /\ heat' = Without(heat, {b \in DOMAIN heat : b < oldest})
      /\ cut' = IF oldest > cut THEN oldest ELSE cut
      /\ ended' = ended /\ frame' = frame
  BY DEF Flush
<1>2. oldest \in Nat
  BY TimesFinite, TrafficAssumption DEF HeatInv, Less
<1> HIDE DEF oldest
<1>3. cut' \in Nat /\ cut <= cut' /\ oldest <= cut' /\ cut \in Nat
  BY <1>1, <1>2 DEF HeatInv
<1>4. \A b : Entry(heat', b, 0) = IF b < oldest THEN 0 ELSE Entry(heat, b, 0)
  BY <1>1 DEF Without, Entry
<1>5. ASSUME NEW x \in Times
      PROVE  LET b == BucketOf(x)
             IN /\ Entry(heat', b, 0) \in Nat
                /\ Entry(heat', b, 0) <= EndedIn(ended, b)
                /\ b >= cut' => Entry(heat', b, 0) = EndedIn(ended, b)
  <2> DEFINE b == BucketOf(x)
  <2>1. /\ b \in Nat /\ Entry(heat, b, 0) \in Nat /\ EndedIn(ended, b) \in Nat
        /\ Entry(heat, b, 0) <= EndedIn(ended, b)
        /\ b >= cut => Entry(heat, b, 0) = EndedIn(ended, b)
    BY BucketBounds, EndedNat DEF HeatInv, HeatExact, EndedIn
  <2> HIDE DEF b
  <2>2. /\ Entry(heat', b, 0) \in Nat
        /\ Entry(heat', b, 0) <= EndedIn(ended, b)
        /\ b >= cut' => Entry(heat', b, 0) = EndedIn(ended, b)
    BY <1>2, <1>3, <1>4, <2>1
  <2> QED
    BY <2>2 DEF b
<1>6. HeatExact'
  BY <1>1, <1>5 DEF HeatExact, EndedIn, BucketOf, Times, Entry
<1> QED
  BY <1>1, <1>3, <1>5, <1>6 DEF HeatInv, BucketOf, Times

LEMMA HeatStep ==
  ASSUME HeatInv, SipTypes, [Next]_vars
  PROVE  HeatInv'
<1>1. ASSUME NEW s \in Streams, NEW t \in Times, NEW dl \in {-1, 0, 1}, Packet(s, t, dl)
      PROVE  HeatInv'
  BY <1>1, HeatRest DEF Packet, Event, stores
<1>2. ASSUME NEW m \in Messages, NEW c \in Dialogs, NEW i \in Ips, NEW t \in Times,
             SipRequest(m, c, i, t)
      PROVE  HeatInv'
  <2> DEFINE x == Dialog(c)
             y == [x EXCEPT !.bye_ts = IF m = "BYE" THEN FirstOf(@, t) ELSE @]
             ends == m = "CANCEL"
  <2>1. Converse(c, y, ends, t) /\ cut' = cut /\ frame' = t
    BY <1>2 DEF SipRequest, Event
  <2>2. GoodDialog(y)
    BY DialogFound, ByeKept
  <2> HIDE DEF y, ends
  <2> QED
    BY <2>1, <2>2, HeatMessage DEF Stamps
<1>3. ASSUME NEW c \in Dialogs, NEW i \in Ips, NEW t \in Times, Invite(c, i, t) PROVE HeatInv'
  BY <1>3, HeatRest DEF Invite, Event
<1>4. ASSUME NEW c \in Dialogs, NEW i \in Ips, NEW t \in Times, NEW r \in Responses,
             SipResponse(c, i, t, r[1], r[2])
      PROVE  HeatInv'
  <2> DEFINE x == Dialog(c)
             ok == r[1] \in 200 .. 299 /\ r[2] # "BYE"
             y == [x EXCEPT !.answer_ts = IF ok THEN FirstOf(@, t) ELSE @]
             ends == r[1] >= 300 \/ (r[1] \in 200 .. 299 /\ r[2] = "BYE")
             end == IF r[1] = 487 /\ r[2] # "BYE" THEN -1 ELSE t
  <2>1. Converse(c, y, ends, end) /\ cut' = cut /\ frame' = t
    BY <1>4 DEF SipResponse, Event
  <2>2. GoodDialog(y)
    BY DialogFound, AnswerKept
  <2>3. end \in Stamps
    BY DEF Stamps
  <2> HIDE DEF y, ends, end
  <2> QED
    BY <2>1, <2>2, <2>3, HeatMessage
<1>5. UNCHANGED <<heat, ended, cut, frame>> => HeatInv'
  BY HeatRest DEF HeatInv
<1>6. ASSUME NEW S \in SUBSET Streams, RemoveCall(S) PROVE HeatInv'
  BY <1>5, <1>6 DEF RemoveCall
<1>7. ASSUME NEW s \in Streams, EvictStream(s) PROVE HeatInv'
  BY <1>5, <1>7 DEF EvictStream, stores
<1>8. ASSUME NEW c \in Dialogs, Forget(c) PROVE HeatInv'
  BY <1>5, <1>8 DEF Forget, stores, history
<1>9. CASE UNCHANGED vars
  BY <1>5, <1>9 DEF vars, stores, history
<1> QED
  BY <1>1, <1>2, <1>3, <1>4, <1>6, <1>7, <1>8, <1>9, HeatFlush DEF Next

-----------------------------------------------------------------------------
(* A series against what was seen: every entry is exact, none is newer     *)
(* than the last one, and nothing was seen after it.                       *)
Begun(w, k) == {t \in Times : (t \div w) * w = k}

Shows(e, w, fi, fa) ==
  /\ e.key \in Int /\ e.inv = SumOver(fi, Begun(w, e.key)) /\ e.ans = SumOver(fa, Begun(w, e.key))

Entries == [key : Int, inv : Int, ans : Int]

Quiet(fi, fa, t) == fi[t] = 0 /\ fa[t] = 0

SeriesOk(r, w, fi, fa) ==
  /\ r \in Seq(Entries)
  /\ \A j \in 1 .. Len(r) : Shows(r[j], w, fi, fa) /\ r[j].key <= r[Len(r)].key
  /\ \A t \in Times : Quiet(fi, fa, t) \/ (r # <<>> /\ (t \div w) * w <= r[Len(r)].key)

More(f, t, n) == [x \in Times |-> IF x = t THEN f[x] + n ELSE f[x]]

BucketGets(f, g, w, k, t, n) ==
  /\ SumOver(f, Begun(w, k)) \in Nat
  /\ SumOver(g, Begun(w, k)) = SumOver(f, Begun(w, k)) + IF t \in Begun(w, k) THEN n ELSE 0
  /\ (\A x \in Begun(w, k) : f[x] = 0) => SumOver(f, Begun(w, k)) = 0

LEMMA BegunSums ==
  ASSUME NEW f \in [Times -> Nat], NEW t \in Times, NEW n \in Nat, NEW w, NEW k,
         NEW g, g = More(f, t, n)
  PROVE  BucketGets(f, g, w, k, t, n)
<1> DEFINE E == Begun(w, k)
<1>1. E \subseteq Times
  BY DEF Begun
<1>2. IsFiniteSet(E)
  BY <1>1, TimesFinite, FS_Subset
<1>3. g \in [Times -> Nat] /\ g[t] = f[t] + n /\ \A x \in Times : x # t => g[x] = f[x]
  BY DEF More
<1> HIDE DEF E
<1>4. /\ \A x \in E : f[x] \in Int
      /\ \A x \in E : f[x] \in Nat
      /\ \A x \in E \ {t} : g[x] = f[x]
      /\ n \in Int
  BY <1>1, <1>3
<1>5. SumOver(g, E) = SumOver(f, E) + IF t \in E THEN n ELSE 0
  BY <1>2, <1>3, <1>4, SumPut
<1>6. SumOver(f, E) \in Nat
  BY <1>2, <1>4, SumNat
<1>7. (\A x \in E : f[x] = 0) => SumOver(f, E) = 0
  BY <1>2, SumZero
<1> QED
  BY <1>5, <1>6, <1>7 DEF E, BucketGets

LEMMA ProductGrows ==
  ASSUME NEW i \in Nat, i >= 1, NEW q \in Nat, i + 1 <= q, NEW w \in Nat \ {0}
  PROVE  i * w \in Nat /\ i * w > 0 /\ i * w + w <= q * w
OBVIOUS

LEMMA VectorIsSeq ==
  ASSUME NEW S, NEW n \in Nat, NEW f, f = [i \in 1 .. n |-> f[i]], \A i \in 1 .. n : f[i] \in S
  PROVE  f \in Seq(S) /\ Len(f) = n
OBVIOUS

LEMMA AppendIs ==
  ASSUME NEW S, NEW s \in Seq(S), NEW e \in S, NEW r, r = Append(s, e)
  PROVE  /\ r \in Seq(S) /\ Len(r) = Len(s) + 1 /\ r[Len(r)] = e /\ r # <<>>
         /\ Len(s) \in Nat /\ \A i \in 1 .. Len(s) : r[i] = s[i]
OBVIOUS

Raised(e, m, n) == [e EXCEPT !.inv = @ + m, !.ans = @ + n]

IsRaised(g, e, m, n) ==
  g \in Entries /\ g.key = e.key /\ g.inv = e.inv + m /\ g.ans = e.ans + n

LEMMA EntryAdds ==
  ASSUME NEW e \in Entries, NEW m \in Nat, NEW n \in Nat, NEW g, g = Raised(e, m, n)
  PROVE  IsRaised(g, e, m, n)
<1> USE DEF Raised, IsRaised
<1>1. /\ DOMAIN e = {"key", "inv", "ans"} /\ e.key \in Int /\ e.inv \in Int /\ e.ans \in Int
  BY DEF Entries
<1>2. g.key = e.key /\ g.inv = e.inv + m /\ g.ans = e.ans + n
  BY <1>1
<1>3. g = [key |-> e.key, inv |-> e.inv + m, ans |-> e.ans + n]
  BY DEF Entries
<1> QED
  BY <1>1, <1>2, <1>3 DEF Entries

TailOf(r, s, a) ==
  /\ Len(r) = Len(s) - a + 1
  /\ \A i \in 1 .. Len(r) : r[i] = s[i + a - 1] /\ i + a - 1 \in 1 .. Len(s)

LEMMA SubSeqIn ==
  ASSUME NEW S, NEW s \in Seq(S), NEW a \in Nat, a >= 1, a <= Len(s) + 1, NEW r, r = SubSeq(s, a, Len(s))
  PROVE  r \in Seq(S) /\ TailOf(r, s, a)
<1>1. r \in Seq(S) /\ Len(r) = Len(s) - a + 1
  OBVIOUS
<1>2. \A i \in 1 .. Len(r) : r[i] = s[i + a - 1] /\ i + a - 1 \in 1 .. Len(s)
  BY <1>1
<1> QED
  BY <1>1, <1>2 DEF TailOf

(* ring_bump keeps a series exact, whatever the time. *)
LEMMA BumpOk ==
  ASSUME NEW w \in Nat \ {0}, NEW fi \in [Times -> Nat], NEW fa \in [Times -> Nat],
         NEW t \in Times, NEW inv \in Nat, NEW ans \in Nat, NEW r, SeriesOk(r, w, fi, fa),
         NEW gi, NEW ga, gi = More(fi, t, inv), ga = More(fa, t, ans)
  PROVE  SeriesOk(Bump(r, w, t, inv, ans), w, gi, ga)
<1> DEFINE key == (t \div w) * w
           entry == [key |-> key, inv |-> inv, ans |-> ans]
           last == r[Len(r)].key
           b == Bump(r, w, t, inv, ans)
<1> DEFINE room == SeriesRetain - Len(r)
           gap == ((key - last) \div w) - 1
           m == IF gap < room THEN gap ELSE room
           fill == [i \in 1 .. m |-> [key |-> last + i * w, inv |-> 0, ans |-> 0]]
           filled == r \o fill
           kept == IF Len(filled) >= SeriesRetain
                     THEN SubSeq(filled, Len(filled) - SeriesRetain + 2, Len(filled)) ELSE filled
<1>1. /\ t \in Nat /\ key \in Nat /\ r \in Seq(Entries) /\ Len(r) \in Nat
      /\ (r # <<>> => last \in Int /\ Len(r) \in 1 .. Len(r) /\ r[Len(r)] \in Entries)
      /\ \A x \in Times : (x \div w) * w \in Nat
  <2>1. \A x \in Times : x \in Nat /\ (x \div w) * w \in Nat
    BY TimesFinite, DivBounds
  <2>2. r \in Seq(Entries)
    BY DEF SeriesOk
  <2>3. r # <<>> => Len(r) \in 1 .. Len(r) /\ r[Len(r)] \in Entries
    BY <2>2
  <2> QED
    BY <2>1, <2>2, <2>3 DEF Entries
<1>2. /\ gi \in [Times -> Nat] /\ ga \in [Times -> Nat]
      /\ \A x \in Times : x # t => gi[x] = fi[x] /\ ga[x] = fa[x]
      /\ \A x \in Times : x # t /\ Quiet(fi, fa, x) => Quiet(gi, ga, x)
  BY DEF More, Quiet
<1>3. b = IF r = <<>> THEN <<entry>>
          ELSE IF key > last
            THEN IF key - last > w * SeriesRetain THEN <<entry>> ELSE Append(kept, entry)
          ELSE [i \in DOMAIN r |-> IF r[i].key # key THEN r[i]
                  ELSE [r[i] EXCEPT !.inv = @ + inv, !.ans = @ + ans]]
  BY DEF Bump
<1>4. \A k : t \in Begun(w, k) <=> k = key
  BY DEF Begun
<1>5. \A k : BucketGets(fi, gi, w, k, t, inv) /\ BucketGets(fa, ga, w, k, t, ans)
  <2> SUFFICES ASSUME NEW k
               PROVE  BucketGets(fi, gi, w, k, t, inv) /\ BucketGets(fa, ga, w, k, t, ans)
    BY Zenon
  <2>1. BucketGets(fi, gi, w, k, t, inv)
    BY BegunSums
  <2>2. BucketGets(fa, ga, w, k, t, ans)
    BY BegunSums
  <2> QED
    BY <2>1, <2>2, Zenon
<1>14. \A x \in Times : Quiet(fi, fa, x) \/ (r # <<>> /\ (x \div w) * w <= last)
  BY DEF SeriesOk
<1>15. \A i \in 1 .. Len(r) : r[i] \in Entries /\ Shows(r[i], w, fi, fa) /\ r[i].key <= last
  BY <1>1 DEF SeriesOk
<1>16. r # <<>> => r[Len(r)].key = last /\ Len(r) \in 1 .. Len(r)
  BY <1>1
<1>17. key \in Nat /\ key \in Int
  BY <1>1
<1>18. r # <<>> => last \in Int
  BY <1>1
<1> HIDE DEF key, b, last, room, gap, m, fill, filled, kept
<1>6. ASSUME NEW e, Shows(e, w, fi, fa), e.key # key PROVE Shows(e, w, gi, ga)
  BY <1>4, <1>5, <1>6 DEF Shows, BucketGets
<1>7. ASSUME NEW k \in Int, r = <<>> \/ k > last
      PROVE  SumOver(fi, Begun(w, k)) = 0 /\ SumOver(fa, Begun(w, k)) = 0
  <2>1. ASSUME NEW x \in Begun(w, k) PROVE fi[x] = 0 /\ fa[x] = 0
    <3>1. x \in Times /\ (x \div w) * w = k
      BY DEF Begun
    <3>2. Quiet(fi, fa, x)
      BY <1>1, <1>7, <1>14, <3>1
    <3> QED
      BY <3>2 DEF Quiet
  <2> QED
    BY <1>5, <2>1 DEF BucketGets
<1>8. ASSUME r = <<>> \/ key > last PROVE entry \in Entries /\ Shows(entry, w, gi, ga)
  <2>1. SumOver(fi, Begun(w, key)) = 0 /\ SumOver(fa, Begun(w, key)) = 0
    BY <1>17, <1>7, <1>8
  <2>2. SumOver(gi, Begun(w, key)) = inv /\ SumOver(ga, Begun(w, key)) = ans
    BY <1>4, <1>5, <2>1 DEF BucketGets
  <2> QED
    BY <1>1, <2>2 DEF Entries, Shows
<1> HIDE DEF entry
<1>9. ASSUME r = <<>> \/ key > last, NEW x \in Times
      PROVE  Quiet(gi, ga, x) \/ (x \div w) * w <= key
  <2>1. CASE x = t
    BY <1>1, <2>1 DEF key
  <2>2. CASE x # t
    <3>1. CASE Quiet(fi, fa, x)
      BY <1>2, <2>2, <3>1
    <3>2. CASE r # <<>> /\ (x \div w) * w <= last
      <4>1. last \in Int /\ key \in Int /\ key > last
        BY <1>9, <1>17, <1>18, <3>2
      <4>2. PICK y \in Int : y = (x \div w) * w
        <5>1. (x \div w) * w \in Nat
          BY <1>1
        <5>2. PICK y : y = (x \div w) * w
          OBVIOUS
        <5>3. y \in Int
          BY <5>1, <5>2
        <5> QED
          BY <5>2, <5>3, Zenon
      <4>3. y <= key
        BY <3>2, <4>1, <4>2
      <4> QED
        BY <4>2, <4>3
    <3> QED
      BY <1>14, <3>1, <3>2
  <2> QED
    BY <2>1, <2>2
<1>10. entry.key = key
  BY DEF entry
<1>11. CASE r = <<>> \/ (key > last /\ key - last > w * SeriesRetain)
  <2>1. b = <<entry>>
    BY <1>3, <1>11
  <2>2. /\ b \in Seq(Entries) /\ Len(b) = 1 /\ b[1] = entry /\ b # <<>>
        /\ Shows(entry, w, gi, ga)
    BY <1>8, <1>11, <2>1
  <2>3. \A j \in 1 .. Len(b) : Shows(b[j], w, gi, ga) /\ b[j].key <= b[Len(b)].key
    <3>1. \A j \in 1 .. Len(b) : b[j] = entry /\ b[Len(b)] = entry
      BY <2>2
    <3>2. key <= key
      BY <1>17
    <3> QED
      BY <1>10, <2>2, <3>1, <3>2, Zenon
  <2>4. \A x \in Times : Quiet(gi, ga, x) \/ (b # <<>> /\ (x \div w) * w <= b[Len(b)].key)
    BY <1>9, <1>10, <1>11, <2>2
  <2> QED
    BY <2>2, <2>3, <2>4 DEF SeriesOk, b
<1>12. CASE r # <<>> /\ key > last /\ ~(key - last > w * SeriesRetain)
  <2>1. b = Append(kept, entry)
    BY <1>3, <1>12
  <2>2. /\ fill \in Seq(Entries)
        /\ \A i \in 1 .. Len(fill) : Shows(fill[i], w, gi, ga) /\ fill[i].key <= key
    <3>0. last \in Int /\ key \in Int /\ key - last \in Nat
      BY <1>17, <1>18, <1>12
    <3>1. (key - last) \div w \in Nat /\ room \in Int /\ gap \in Int /\ m \in Int /\ m <= gap
      <4>1. (key - last) \div w \in Nat
        BY <3>0, DivBounds
      <4>2. room \in Int
        BY <1>1, SipStatsAssumption DEF room
      <4>3. gap \in Int
        BY <4>1 DEF gap
      <4> QED
        BY <4>1, <4>2, <4>3 DEF m
    <3>2. ASSUME NEW i \in 1 .. m PROVE i * w \in Int /\ i * w > 0 /\ last + i * w < key
      <4>1. i <= ((key - last) \div w) - 1
        BY <3>1 DEF gap
      <4> DEFINE q == (key - last) \div w
      <4>2. q \in Nat /\ q * w <= key - last
        BY <3>0, DivBounds
      <4> HIDE DEF q
      <4>3. i \in Nat /\ i >= 1 /\ i + 1 <= q
        BY <3>1, <4>1, <4>2 DEF q
      <4>4. i * w \in Nat /\ i * w > 0 /\ i * w + w <= q * w
        BY <4>2, <4>3, ProductGrows
      <4>5. q * w \in Nat
        BY <4>2
      <4> QED
        BY <3>0, <4>2, <4>4, <4>5
    <3>3. ASSUME NEW i \in 1 .. m
          PROVE  fill[i] \in Entries /\ Shows(fill[i], w, gi, ga) /\ fill[i].key <= key
      <4>1. fill[i] = [key |-> last + i * w, inv |-> 0, ans |-> 0]
        BY DEF fill
      <4>2. last + i * w \in Int /\ last + i * w > last /\ last + i * w < key
        BY <3>0, <3>2
      <4>3. SumOver(fi, Begun(w, last + i * w)) = 0 /\ SumOver(fa, Begun(w, last + i * w)) = 0
        BY <1>7, <4>2
      <4>4. Shows(fill[i], w, fi, fa)
        BY <4>1, <4>2, <4>3 DEF Shows
      <4>5. Shows(fill[i], w, gi, ga)
        <5>1. fill[i].key # key
          BY <1>17, <4>1, <4>2
        <5> QED
          BY <1>6, <4>4, <5>1
      <4> QED
        BY <3>0, <4>1, <4>2, <4>5 DEF Entries
    <3>4. PICK n \in Nat : 1 .. m = 1 .. n
      <4>1. CASE m \in Nat
        BY <4>1
      <4>2. CASE m \notin Nat
        BY <3>1, <4>2
      <4> QED
        BY <4>1, <4>2
    <3>5. DOMAIN fill = 1 .. n /\ \A i \in 1 .. n : fill[i] \in Entries
      BY <3>3, <3>4 DEF fill
    <3>6. fill = [i \in 1 .. n |-> fill[i]]
      BY <3>4 DEF fill
    <3>7. fill \in Seq(Entries) /\ Len(fill) = n
      BY <3>5, <3>6, VectorIsSeq
    <3> QED
      BY <3>3, <3>4, <3>7
  <2>3. ASSUME NEW i \in 1 .. Len(r)
        PROVE  r[i] \in Entries /\ Shows(r[i], w, gi, ga) /\ r[i].key <= key
    <3>1. r[i] \in Entries /\ Shows(r[i], w, fi, fa) /\ r[i].key <= last
      BY <1>15
    <3>2. r[i].key \in Int
      BY <3>1 DEF Entries
    <3>3. r[i].key < key
      BY <1>17, <1>18, <1>12, <3>1, <3>2
    <3>4. r[i].key # key /\ r[i].key <= key
      BY <1>17, <3>2, <3>3
    <3> QED
      BY <1>6, <3>1, <3>4
  <2>4. /\ filled \in Seq(Entries)
        /\ \A i \in 1 .. Len(filled) : Shows(filled[i], w, gi, ga) /\ filled[i].key <= key
    <3>1. filled \in Seq(Entries) /\ Len(filled) = Len(r) + Len(fill) /\ Len(fill) \in Nat
      BY <1>1, <2>2 DEF filled
    <3>2. ASSUME NEW i \in 1 .. Len(filled)
          PROVE  (i \in 1 .. Len(r) /\ filled[i] = r[i])
                  \/ (i - Len(r) \in 1 .. Len(fill) /\ filled[i] = fill[i - Len(r)])
      BY <1>1, <2>2, <3>1 DEF filled
    <3> QED
      BY <2>2, <2>3, <3>1, <3>2
  <2>5. /\ kept \in Seq(Entries)
        /\ \A i \in 1 .. Len(kept) : Shows(kept[i], w, gi, ga) /\ kept[i].key <= key
    <3>1. CASE Len(filled) >= SeriesRetain
      <4> DEFINE a == Len(filled) - SeriesRetain + 2
      <4>1. kept = SubSeq(filled, a, Len(filled))
        BY <3>1 DEF kept
      <4>2. a \in Nat /\ a >= 2 /\ Len(filled) \in Nat /\ a <= Len(filled) + 1
        BY <2>4, <3>1, SipStatsAssumption
      <4> HIDE DEF a
      <4>5. a >= 1
        BY <4>2
      <4> HIDE DEF kept
      <4>7. filled \in Seq(Entries)
        BY <2>4
      <4>6. kept \in Seq(Entries) /\ TailOf(kept, filled, a)
        BY <4>1, <4>2, <4>5, <4>7, SubSeqIn
      <4>3. kept \in Seq(Entries)
        BY <4>6
      <4>4. \A i \in 1 .. Len(kept) : kept[i] = filled[i + a - 1] /\ i + a - 1 \in 1 .. Len(filled)
        BY <4>6 DEF TailOf
      <4> QED
        BY <2>4, <4>3, <4>4
    <3>2. CASE ~(Len(filled) >= SeriesRetain)
      BY <2>4, <3>2 DEF kept
    <3> QED
      BY <3>1, <3>2
  <2>6. entry \in Entries /\ Shows(entry, w, gi, ga)
    BY <1>8, <1>12
  <2>7. /\ b \in Seq(Entries) /\ Len(b) = Len(kept) + 1 /\ b[Len(b)] = entry /\ b # <<>>
        /\ Len(kept) \in Nat /\ \A i \in 1 .. Len(kept) : b[i] = kept[i]
    BY <2>1, <2>5, <2>6, AppendIs
  <2>8. \A i \in 1 .. Len(b) : i \in 1 .. Len(kept) \/ i = Len(b)
    BY <2>7
  <2>9. \A j \in 1 .. Len(b) : Shows(b[j], w, gi, ga) /\ b[j].key <= b[Len(b)].key
    <3>1. key <= key
      BY <1>17
    <3> QED
      BY <1>10, <2>5, <2>6, <2>7, <2>8, <3>1, Zenon
  <2>10. \A x \in Times : Quiet(gi, ga, x) \/ (b # <<>> /\ (x \div w) * w <= b[Len(b)].key)
    BY <1>9, <1>10, <1>12, <2>7
  <2> QED
    BY <2>7, <2>9, <2>10 DEF SeriesOk, b
<1>13. CASE r # <<>> /\ ~(key > last)
  <2>1. b = [i \in 1 .. Len(r) |-> IF r[i].key # key THEN r[i]
                  ELSE [r[i] EXCEPT !.inv = @ + inv, !.ans = @ + ans]]
    <3>1. DOMAIN r = 1 .. Len(r)
      BY <1>1
    <3>2. b = [i \in DOMAIN r |-> IF r[i].key # key THEN r[i]
                  ELSE [r[i] EXCEPT !.inv = @ + inv, !.ans = @ + ans]]
      BY <1>3, <1>13, Zenon
    <3> QED
      BY <3>1, <3>2, Zenon
  <2>2. ASSUME NEW i \in 1 .. Len(r)
        PROVE  b[i] \in Entries /\ b[i].key = r[i].key /\ Shows(b[i], w, gi, ga)
    <3>1. r[i] \in Entries /\ Shows(r[i], w, fi, fa)
      BY <1>15
    <3>2. CASE r[i].key # key
      <4>1. b[i] = r[i]
        BY <2>1, <3>2
      <4> QED
        BY <1>6, <3>1, <3>2, <4>1
    <3>3. CASE r[i].key = key
      <4>0. PICK e : e = r[i]
        OBVIOUS
      <4>1. b[i] = Raised(e, inv, ans)
        BY <2>1, <3>3, <4>0 DEF Raised
      <4>2. e \in Entries /\ Shows(e, w, fi, fa) /\ e.key = key
        BY <3>1, <3>3, <4>0
      <4>3. b[i] \in Entries /\ b[i].key = key /\ b[i].inv = e.inv + inv /\ b[i].ans = e.ans + ans
        <5>1. PICK g : g = b[i]
          OBVIOUS
        <5>2. g \in Entries /\ g.key = e.key /\ g.inv = e.inv + inv /\ g.ans = e.ans + ans
          <6>1. e \in Entries /\ g = Raised(e, inv, ans)
            BY <4>1, <4>2, <5>1
          <6> QED
            <7>1. IsRaised(g, e, inv, ans)
              BY <6>1, EntryAdds, Zenon
            <7> QED
              BY <7>1 DEF IsRaised
        <5> QED
          BY <4>2, <5>1, <5>2
      <4>4. t \in Begun(w, key)
        BY <1>4
      <4>5. Shows(b[i], w, gi, ga)
        BY <1>1, <1>5, <4>2, <4>3, <4>4 DEF Shows, BucketGets
      <4> QED
        BY <3>3, <4>3, <4>5
    <3> QED
      BY <3>2, <3>3
  <2>3. b \in Seq(Entries) /\ Len(b) = Len(r) /\ b # <<>>
    <3>1. DOMAIN b = 1 .. Len(r) /\ b = [i \in 1 .. Len(r) |-> b[i]]
      BY <2>1
    <3>2. b \in Seq(Entries) /\ Len(b) = Len(r)
      BY <1>1, <2>2, <3>1
    <3> QED
      BY <1>1, <1>13, <3>2
  <2>4. b[Len(b)].key = last
    BY <1>16, <1>13, <2>2, <2>3
  <2>5. \A j \in 1 .. Len(b) : Shows(b[j], w, gi, ga) /\ b[j].key <= b[Len(b)].key
    BY <1>15, <2>2, <2>3, <2>4
  <2>6. \A x \in Times : Quiet(gi, ga, x) \/ (b # <<>> /\ (x \div w) * w <= b[Len(b)].key)
    <3> SUFFICES ASSUME NEW x \in Times
                 PROVE  Quiet(gi, ga, x) \/ (x \div w) * w <= last
      BY <2>3, <2>4
    <3>1. CASE x = t
      BY <1>1, <1>13, <3>1 DEF key
    <3>2. CASE x # t
      BY <1>2, <1>14, <3>2
    <3> QED
      BY <3>1, <3>2
  <2> QED
    BY <2>3, <2>5, <2>6 DEF SeriesOk, b
<1> QED
  BY <1>11, <1>12, <1>13

-----------------------------------------------------------------------------
(* The series of an address, of every width *)
HasSeries(s, fi, fa) ==
  /\ GoodSip(s) /\ fi \in [Times -> Nat] /\ fa \in [Times -> Nat]
  /\ \A w \in Widths : SeriesOk(s.series[w], w, fi, fa)

SeriesInv ==
  /\ HasSeries(all, seenInv[All], seenAns[All])
  /\ \A i \in DOMAIN sips : HasSeries(sips[i], seenInv[i], seenAns[i])
  /\ \A i \in Ips \ DOMAIN sips : seenInv[i] = Zero /\ seenAns[i] = Zero

LEMMA SeriesMeans == SeriesInv => SeriesExact
<1> SUFFICES ASSUME SeriesInv PROVE SeriesExact
  OBVIOUS
<1>1. ASSUME NEW s, NEW i, HasSeries(s, seenInv[i], seenAns[i]) PROVE SeriesExactFor(s, i)
  <2> SUFFICES ASSUME NEW w \in Widths, NEW j \in DOMAIN s.series[w]
               PROVE  /\ s.series[w][j].inv = SumOver(seenInv[i], Begun(w, s.series[w][j].key))
                      /\ s.series[w][j].ans = SumOver(seenAns[i], Begun(w, s.series[w][j].key))
    BY DEF SeriesExactFor, Begun
  <2>1. SeriesOk(s.series[w], w, seenInv[i], seenAns[i])
    BY <1>1 DEF HasSeries
  <2>2. PICK r : r = s.series[w]
    OBVIOUS
  <2>3. r \in Seq(Entries) /\ j \in DOMAIN r
        /\ \A k \in 1 .. Len(r) : Shows(r[k], w, seenInv[i], seenAns[i])
    BY <2>1, <2>2 DEF SeriesOk
  <2>4. Shows(r[j], w, seenInv[i], seenAns[i])
    BY <2>3
  <2> QED
    BY <2>2, <2>4 DEF Shows
<1> QED
  BY <1>1 DEF SeriesInv, SeriesExact

LEMMA ZeroIs == Zero \in [Times -> Nat] /\ \A t \in Times : Zero[t] = 0
BY DEF Zero

LEMMA HasNew == HasSeries(NewSip, Zero, Zero)
<1>1. GoodSip(NewSip) /\ \A w \in Widths : NewSip.series[w] = <<>>
  <2>1. \A w \in Widths : NewSip.series[w] = <<>>
    BY DEF NewSip
  <2>2. GoodSip(NewSip)
    BY DEF NewSip, GoodSip, RespN
  <2> QED
    BY <2>1, <2>2
<1>2. \A w : SeriesOk(<<>>, w, Zero, Zero)
  BY ZeroIs DEF SeriesOk, Quiet
<1> QED
  BY <1>1, <1>2, ZeroIs DEF HasSeries

LEMMA EntryHas ==
  ASSUME SeriesInv, NEW i \in Ips
  PROVE  HasSeries(Entry(sips, i, NewSip), seenInv[i], seenAns[i])
BY HasNew DEF SeriesInv, Entry

(* What the statistics do to the series of an address *)
LEMMA MoreIs ==
  ASSUME NEW f \in [Times -> Nat], NEW t \in Times, NEW n \in Nat
  PROVE  /\ More(f, t, n) \in [Times -> Nat]
         /\ (n = 0 => More(f, t, n) = f)
         /\ (n = 1 => More(f, t, n) = [f EXCEPT ![t] = @ + 1])
<1>1. More(f, t, n) \in [Times -> Nat]
  BY DEF More
<1>2. n = 0 => More(f, t, n) = f
  BY DEF More
<1>3. n = 1 => More(f, t, n) = [f EXCEPT ![t] = @ + 1]
  BY DEF More
<1> QED
  BY <1>1, <1>2, <1>3

LEMMA BumpedHas ==
  ASSUME NEW s, NEW fi, NEW fa, HasSeries(s, fi, fa), NEW t \in Times, NEW m \in Nat, NEW n \in Nat
  PROVE  HasSeries(Bumped(s, t, m, n), More(fi, t, m), More(fa, t, n))
<1> DEFINE b == Bumped(s, t, m, n)
           v == [w \in Widths |-> Bump(s.series[w], w, t, m, n)]
<1>1. GoodSip(s) /\ fi \in [Times -> Nat] /\ fa \in [Times -> Nat]
  BY DEF HasSeries
<1>2. GoodSip(b)
  BY <1>1, BumpedSip
<1>3. b = [s EXCEPT !.series = v]
  BY DEF Bumped
<1>4. ASSUME NEW w \in Widths PROVE SeriesOk(v[w], w, More(fi, t, m), More(fa, t, n))
  <2>1. w \in Nat \ {0} /\ SeriesOk(s.series[w], w, fi, fa)
    BY SipStatsAssumption DEF HasSeries
  <2>2. v[w] = Bump(s.series[w], w, t, m, n)
    OBVIOUS
  <2> HIDE DEF v
  <2>3. PICK gi, ga : gi = More(fi, t, m) /\ ga = More(fa, t, n)
    OBVIOUS
  <2>4. SeriesOk(Bump(s.series[w], w, t, m, n), w, gi, ga)
    BY <1>1, <2>1, <2>3, BumpOk
  <2> QED
    BY <2>2, <2>3, <2>4
<1> HIDE DEF v
<1>5. b.series = v
  BY <1>1, <1>3 DEF GoodSip
<1> HIDE DEF b
<1>6. More(fi, t, m) \in [Times -> Nat] /\ More(fa, t, n) \in [Times -> Nat]
  BY <1>1, MoreIs
<1>7. \A w \in Widths : SeriesOk(b.series[w], w, More(fi, t, m), More(fa, t, n))
  BY <1>4, <1>5
<1> QED
  BY <1>2, <1>6, <1>7 DEF HasSeries, b

LEMMA KeepsSeries ==
  ASSUME NEW s, NEW fi, NEW fa, HasSeries(s, fi, fa), NEW r, GoodSip(r), r.series = s.series
  PROVE  HasSeries(r, fi, fa)
BY DEF HasSeries

LEMMA ResponseHas ==
  ASSUME NEW s, NEW fi, NEW fa, HasSeries(s, fi, fa), NEW t, NEW code \in Nat
  PROVE  HasSeries(ApplyResponse(s, t, code), fi, fa)
<1> DEFINE r == ApplyResponse(s, t, code)
<1>1. GoodSip(s)
  BY DEF HasSeries
<1>2. GoodSip(r)
  BY <1>1, ResponseCounted
<1>3. r.series = s.series
  BY <1>1 DEF ApplyResponse, GoodSip
<1> HIDE DEF r
<1>4. HasSeries(r, fi, fa)
  BY <1>2, <1>3, KeepsSeries
<1> QED
  BY <1>4 DEF r

LEMMA RequestHas ==
  ASSUME NEW s, NEW fi, NEW fa, HasSeries(s, fi, fa), NEW t \in Times, NEW m
  PROVE  /\ HasSeries(ApplyRequest(s, t, m, FALSE), fi, fa)
         /\ HasSeries(ApplyRequest(s, t, m, TRUE), More(fi, t, 1), fa)
<1>1. GoodSip(s) /\ fi \in [Times -> Nat] /\ fa \in [Times -> Nat]
  BY DEF HasSeries
<1>2. HasSeries(ApplyRequest(s, t, m, FALSE), fi, fa)
  <2> DEFINE r == ApplyRequest(s, t, m, FALSE)
  <2>1. GoodSip(r)
    BY <1>1, RequestSip
  <2>2. r.series = s.series
    BY <1>1 DEF ApplyRequest, GoodSip
  <2> HIDE DEF r
  <2>3. HasSeries(r, fi, fa)
    BY <2>1, <2>2, KeepsSeries
  <2> QED
    BY <2>3 DEF r
<1>3. HasSeries(ApplyRequest(s, t, m, TRUE), More(fi, t, 1), fa)
  <2> DEFINE r == ApplyRequest(s, t, m, TRUE)
             b == Bumped(s, t, 1, 0)
  <2>1. GoodSip(r)
    BY <1>1, RequestSip
  <2>2. HasSeries(b, More(fi, t, 1), More(fa, t, 0)) /\ GoodSip(b)
    BY <1>1, BumpedHas, BumpedSip
  <2>3. More(fa, t, 0) = fa
    BY <1>1, MoreIs
  <2>4. r = [b EXCEPT !.req[ReqIdx(m)] = @ + 1, !.last = Later(s, t)]
    BY DEF ApplyRequest
  <2> HIDE DEF b, r
  <2>5. r.series = b.series
    BY <2>2, <2>4 DEF GoodSip
  <2>6. HasSeries(r, More(fi, t, 1), fa)
    BY <2>1, <2>2, <2>3, <2>5, KeepsSeries
  <2> QED
    BY <2>6 DEF r
<1> QED
  BY <1>2, <1>3

LEMMA AnswerHas ==
  ASSUME NEW s, NEW fi, NEW fa, HasSeries(s, fi, fa), NEW t \in Times
  PROVE  HasSeries(ApplyAnswer(s, t), fi, More(fa, t, 1))
<1> DEFINE r == ApplyAnswer(s, t)
           b == Bumped(s, t, 0, 1)
<1>1. GoodSip(s) /\ fi \in [Times -> Nat] /\ fa \in [Times -> Nat]
  BY DEF HasSeries
<1>2. GoodSip(r)
  BY <1>1, AnswerSip
<1>3. HasSeries(b, More(fi, t, 0), More(fa, t, 1)) /\ GoodSip(b)
  BY <1>1, BumpedHas, BumpedSip
<1>4. More(fi, t, 0) = fi
  BY <1>1, MoreIs
<1>5. r = [b EXCEPT !.last = Later(s, t)]
  BY DEF ApplyAnswer
<1> HIDE DEF b, r
<1>6. r.series = b.series
  BY <1>3, <1>5 DEF GoodSip
<1>7. HasSeries(r, fi, More(fa, t, 1))
  BY <1>2, <1>3, <1>4, <1>6, KeepsSeries
<1> QED
  BY <1>7 DEF r

(* One more for an address and for all, in a table of counts *)
Tallied(f, g, i, t) ==
  /\ g[i] = More(f[i], t, 1) /\ g[All] = More(f[All], t, 1)
  /\ \A j \in Ips : j # i => g[j] = f[j]

LEMMA TallyAt ==
  ASSUME NEW f \in [Ips \cup {All} -> [Times -> Nat]], NEW i \in Ips, NEW t \in Times, NEW g,
         g = Tally(f, i, t)
  PROVE  Tallied(f, g, i, t)
<1>1. i # All /\ i \in Ips \cup {All} /\ All \in Ips \cup {All} /\ \A j \in Ips : j # All
  BY TrafficAssumption DEF All
<1>2. f[i] \in [Times -> Nat] /\ f[All] \in [Times -> Nat]
  BY <1>1
<1>3. /\ g[i] = [f[i] EXCEPT ![t] = @ + 1] /\ g[All] = [f[All] EXCEPT ![t] = @ + 1]
      /\ \A j \in Ips : j # i => g[j] = f[j]
  BY <1>1 DEF Tally
<1>4. More(f[i], t, 1) = [f[i] EXCEPT ![t] = @ + 1] /\ More(f[All], t, 1) = [f[All] EXCEPT ![t] = @ + 1]
  BY <1>2, MoreIs
<1> QED
  BY <1>3, <1>4 DEF Tallied

LEMMA SeriesInit == Init => SeriesInv
<1> SUFFICES ASSUME Init PROVE SeriesInv
  OBVIOUS
<1>1. DOMAIN sips = {} /\ all = NewSip
  BY DEF Init
<1>2. \A i \in Ips \cup {All} : seenInv[i] = Zero /\ seenAns[i] = Zero
  BY DEF Init
<1> QED
  BY <1>1, <1>2, HasNew DEF SeriesInv

LEMMA SipRequestSeries ==
  ASSUME SeriesInv, NEW m, NEW c, NEW i \in Ips, NEW t \in Times, SipRequest(m, c, i, t)
  PROVE  SeriesInv'
<1> DEFINE r == ApplyRequest(Entry(sips, i, NewSip), t, m, FALSE)
<1>1. /\ all' = ApplyRequest(all, t, m, FALSE) /\ sips' = With(sips, i, r)
      /\ seenInv' = seenInv /\ seenAns' = seenAns
  BY DEF SipRequest
<1>2. HasSeries(r, seenInv[i], seenAns[i])
  BY EntryHas, RequestHas
<1>3. HasSeries(all', seenInv[All], seenAns[All])
  BY <1>1, RequestHas DEF SeriesInv
<1> HIDE DEF r
<1>4. /\ DOMAIN sips' = DOMAIN sips \cup {i} /\ sips'[i] = r
      /\ \A j \in DOMAIN sips : j # i => sips'[j] = sips[j]
  BY <1>1 DEF With
<1>5. \A j \in DOMAIN sips' : HasSeries(sips'[j], seenInv[j], seenAns[j])
  BY <1>2, <1>4 DEF SeriesInv
<1>6. \A j \in Ips \ DOMAIN sips' : seenInv[j] = Zero /\ seenAns[j] = Zero
  BY <1>4 DEF SeriesInv
<1> QED
  BY <1>1, <1>3, <1>5, <1>6 DEF SeriesInv

LEMMA InviteSeries ==
  ASSUME SeriesInv, SipTypes, NEW c, NEW i \in Ips, NEW t \in Times, Invite(c, i, t)
  PROVE  SeriesInv'
<1> DEFINE r == ApplyRequest(Entry(sips, i, NewSip), t, "INVITE", TRUE)
<1>1. /\ all' = ApplyRequest(all, t, "INVITE", TRUE) /\ sips' = With(sips, i, r)
      /\ seenInv' = Tally(seenInv, i, t) /\ seenAns' = seenAns
  BY DEF Invite, Tally
<1>2. HasSeries(r, More(seenInv[i], t, 1), seenAns[i])
  BY EntryHas, RequestHas
<1>3. HasSeries(all', More(seenInv[All], t, 1), seenAns[All])
  BY <1>1, RequestHas DEF SeriesInv
<1> HIDE DEF r
<1>4. /\ DOMAIN sips' = DOMAIN sips \cup {i} /\ sips'[i] = r
      /\ \A j \in DOMAIN sips : j # i => sips'[j] = sips[j]
  BY <1>1 DEF With
<1>5. /\ seenInv'[i] = More(seenInv[i], t, 1) /\ seenInv'[All] = More(seenInv[All], t, 1)
      /\ \A j \in Ips : j # i => seenInv'[j] = seenInv[j]
  <2>1. seenInv \in [Ips \cup {All} -> [Times -> Nat]]
    BY DEF SipTypes
  <2> QED
    <3>1. Tallied(seenInv, seenInv', i, t)
      BY <1>1, <2>1, TallyAt, Zenon
    <3> QED
      BY <3>1 DEF Tallied
<1>6. \A j \in DOMAIN sips' : HasSeries(sips'[j], seenInv'[j], seenAns[j])
  BY <1>2, <1>4, <1>5 DEF SeriesInv, SipTypes
<1>7. \A j \in Ips \ DOMAIN sips' : seenInv'[j] = Zero /\ seenAns[j] = Zero
  BY <1>4, <1>5 DEF SeriesInv
<1> QED
  BY <1>1, <1>3, <1>5, <1>6, <1>7 DEF SeriesInv

LEMMA SipResponseSeries ==
  ASSUME SeriesInv, SipTypes, NEW c, NEW i \in Ips, NEW t \in Times, NEW code \in Nat, NEW cseq,
         SipResponse(c, i, t, code, cseq)
  PROVE  SeriesInv'
<1> DEFINE r == ApplyResponse(Entry(sips, i, NewSip), t, code)
           d == With(sips, i, r)
           a == ApplyResponse(all, t, code)
           k == dialogs[c].key
<1>1. /\ seenInv' = seenInv
      /\ \/ /\ Credits(c, code, cseq)
            /\ sips' = With(d, k, ApplyAnswer(Entry(d, k, NewSip), t))
            /\ all' = ApplyAnswer(a, t) /\ seenAns' = Tally(seenAns, k, t)
         \/ sips' = d /\ all' = a /\ seenAns' = seenAns
  BY DEF SipResponse, Tally
<1>2. HasSeries(r, seenInv[i], seenAns[i]) /\ HasSeries(a, seenInv[All], seenAns[All])
  BY EntryHas, ResponseHas DEF SeriesInv
<1> HIDE DEF r, a
<1>3. /\ DOMAIN d = DOMAIN sips \cup {i} /\ d[i] = r
      /\ \A j \in DOMAIN sips : j # i => d[j] = sips[j]
  BY DEF With
<1> HIDE DEF d
<1>4. /\ \A j \in DOMAIN d : HasSeries(d[j], seenInv[j], seenAns[j])
      /\ \A j \in Ips \ DOMAIN d : seenInv[j] = Zero /\ seenAns[j] = Zero
      /\ DOMAIN d \subseteq Ips
  BY <1>2, <1>3 DEF SeriesInv, SipTypes
<1>5. CASE sips' = d /\ all' = a /\ seenAns' = seenAns
  BY <1>1, <1>2, <1>4, <1>5 DEF SeriesInv
<1>6. CASE /\ Credits(c, code, cseq)
           /\ sips' = With(d, k, ApplyAnswer(Entry(d, k, NewSip), t))
           /\ all' = ApplyAnswer(a, t) /\ seenAns' = Tally(seenAns, k, t)
  <2>1. k \in Ips
    BY <1>6 DEF Credits, SipTypes, GoodDialog
  <2> HIDE DEF k
  <2> DEFINE e == ApplyAnswer(Entry(d, k, NewSip), t)
  <2>2. HasSeries(Entry(d, k, NewSip), seenInv[k], seenAns[k])
    BY <1>4, <2>1, HasNew DEF Entry
  <2>3. HasSeries(e, seenInv[k], More(seenAns[k], t, 1))
    BY <2>2, AnswerHas
  <2>4. HasSeries(all', seenInv[All], More(seenAns[All], t, 1))
    BY <1>2, <1>6, AnswerHas
  <2>5. sips' = With(d, k, e)
    BY <1>6
  <2> HIDE DEF e
  <2>6. /\ DOMAIN sips' = DOMAIN d \cup {k} /\ sips'[k] = e
        /\ \A j \in DOMAIN d : j # k => sips'[j] = d[j]
    BY <2>5 DEF With
  <2>7. /\ seenAns'[k] = More(seenAns[k], t, 1) /\ seenAns'[All] = More(seenAns[All], t, 1)
        /\ \A j \in Ips : j # k => seenAns'[j] = seenAns[j]
    <3>1. seenAns \in [Ips \cup {All} -> [Times -> Nat]]
      BY DEF SipTypes
    <3> QED
      <4>1. Tallied(seenAns, seenAns', k, t)
        BY <1>6, <2>1, <3>1, TallyAt, Zenon
      <4> QED
        BY <4>1 DEF Tallied
  <2>8. \A j \in DOMAIN sips' : HasSeries(sips'[j], seenInv[j], seenAns'[j])
    BY <1>4, <2>3, <2>6, <2>7
  <2>9. \A j \in Ips \ DOMAIN sips' : seenInv[j] = Zero /\ seenAns'[j] = Zero
    BY <1>4, <2>6, <2>7
  <2> QED
    BY <1>1, <2>4, <2>7, <2>8, <2>9 DEF SeriesInv
<1> QED
  BY <1>1, <1>5, <1>6

LEMMA FlushSeries ==
  ASSUME SeriesInv, SipTypes, NEW t, Flush(t)
  PROVE  SeriesInv'
<1>1. PICK quiet \in SUBSET DOMAIN sips :
        /\ sips' = Without(sips, quiet) /\ all' = all
        /\ seenInv' = [i \in DOMAIN seenInv |-> IF i \in quiet THEN Zero ELSE seenInv[i]]
        /\ seenAns' = [i \in DOMAIN seenAns |-> IF i \in quiet THEN Zero ELSE seenAns[i]]
  <2> DEFINE due == Due(last_flush, t, FlushPeriod)
             q == IF due THEN {i \in DOMAIN sips : sips[i].last < Since(t)} ELSE {}
  <2>1. q \in SUBSET DOMAIN sips
    OBVIOUS
  <2>2. /\ sips' = Without(sips, q) /\ all' = all
        /\ seenInv' = [i \in DOMAIN seenInv |-> IF i \in q THEN Zero ELSE seenInv[i]]
        /\ seenAns' = [i \in DOMAIN seenAns |-> IF i \in q THEN Zero ELSE seenAns[i]]
    BY DEF Flush
  <2> HIDE DEF q
  <2> QED
    BY <2>1, <2>2
<1>2. DOMAIN sips' = DOMAIN sips \ quiet /\ \A i \in DOMAIN sips' : sips'[i] = sips[i]
  BY <1>1 DEF Without
<1>3. DOMAIN seenInv = Ips \cup {All} /\ DOMAIN seenAns = Ips \cup {All} /\ DOMAIN sips \subseteq Ips
  BY DEF SipTypes
<1>4. All \notin quiet
  BY <1>3, TrafficAssumption DEF All
<1>5. /\ \A i \in Ips \cup {All} : i \notin quiet => seenInv'[i] = seenInv[i] /\ seenAns'[i] = seenAns[i]
      /\ \A i \in quiet : seenInv'[i] = Zero /\ seenAns'[i] = Zero
  BY <1>1, <1>3
<1>6. HasSeries(all, seenInv'[All], seenAns'[All])
  BY <1>4, <1>5 DEF SeriesInv
<1>7. \A i \in DOMAIN sips' : HasSeries(sips'[i], seenInv'[i], seenAns'[i])
  BY <1>2, <1>3, <1>5 DEF SeriesInv
<1>8. \A i \in Ips \ DOMAIN sips' : seenInv'[i] = Zero /\ seenAns'[i] = Zero
  BY <1>2, <1>5 DEF SeriesInv
<1> QED
  BY <1>1, <1>6, <1>7, <1>8 DEF SeriesInv

LEMMA SeriesStep == SipInv /\ SeriesInv /\ [Next]_vars => SeriesInv'
<1> SUFFICES ASSUME SipInv, SeriesInv, [Next]_vars PROVE SeriesInv'
  OBVIOUS
<1>0. SipTypes
  BY DEF SipInv
<1>1. UNCHANGED <<sips, all, seenInv, seenAns>> => SeriesInv'
  BY DEF SeriesInv
<1>2. ASSUME NEW s \in Streams, NEW t \in Times, NEW dl \in {-1, 0, 1}, Packet(s, t, dl)
      PROVE  SeriesInv'
  BY <1>1, <1>2 DEF Packet, stores
<1>3. ASSUME NEW m \in Messages, NEW c \in Dialogs, NEW i \in Ips, NEW t \in Times,
             SipRequest(m, c, i, t)
      PROVE  SeriesInv'
  BY <1>3, SipRequestSeries
<1>4. ASSUME NEW c \in Dialogs, NEW i \in Ips, NEW t \in Times, Invite(c, i, t) PROVE SeriesInv'
  BY <1>0, <1>4, InviteSeries
<1>5. ASSUME NEW c \in Dialogs, NEW i \in Ips, NEW t \in Times, NEW r \in Responses,
             SipResponse(c, i, t, r[1], r[2])
      PROVE  SeriesInv'
  <2>1. r[1] \in Nat
    BY TrafficAssumption
  <2> QED
    BY <1>0, <1>5, <2>1, SipResponseSeries
<1>6. ASSUME NEW S \in SUBSET Streams, RemoveCall(S) PROVE SeriesInv'
  BY <1>1, <1>6 DEF RemoveCall
<1>7. ASSUME NEW s \in Streams, EvictStream(s) PROVE SeriesInv'
  BY <1>1, <1>7 DEF EvictStream, stores
<1>8. ASSUME NEW c \in Dialogs, Forget(c) PROVE SeriesInv'
  BY <1>1, <1>8 DEF Forget, stores, history
<1>9. CASE UNCHANGED vars
  BY <1>1, <1>9 DEF vars, stores, history
<1> QED
  BY <1>0, <1>2, <1>3, <1>4, <1>5, <1>6, <1>7, <1>8, <1>9, FlushSeries DEF Next


LEMMA VecSeq ==
  ASSUME NEW S, NEW n \in Nat, NEW f \in [1 .. n -> S]
  PROVE  f \in Seq(S) /\ Len(f) = n
OBVIOUS

-----------------------------------------------------------------------------
(* A ring of buckets: contiguous and bounded (Shape), and what it shows of *)
(* a count f of its times (Filled): nothing was counted after its last     *)
(* bucket, every bucket but the first is exact, and the first holds at     *)
(* least its own, and all that is older as long as none was dropped.       *)
Buckets == [key : Int, b : [Dirs -> [Kinds -> Int]]]

Shape(r, n) ==
  /\ r \in Seq(Buckets) /\ Len(r) <= n
  /\ \A j \in 1 .. Len(r) : r[j].key = r[Len(r)].key - Len(r) + j

Upto(key, w) == {t \in Times : t \div w <= key}

Filled(r, w, n, f, d, k) ==
  /\ \A t \in Times : f[t] = 0 \/ (r # <<>> /\ t \div w <= r[Len(r)].key)
  /\ \A j \in 2 .. Len(r) : r[j].b[d][k] = SumOver(f, Keyed(r[j].key, w))
  /\ r # <<>> => r[1].b[d][k] >= SumOver(f, Keyed(r[1].key, w))
  /\ (r # <<>> /\ Len(r) < n) => r[1].b[d][k] >= SumOver(f, Upto(r[1].key, w))

(* What bucket_mut makes of a ring: it is moved forward over m new and     *)
(* empty buckets, c are dropped.                                           *)
Extended(r, e, x) ==
  /\ x <= Len(r) => e = r[x]
  /\ x > Len(r) => e = [key |-> r[Len(r)].key + (x - Len(r)), b |-> NoTraffic]

Moved(r, q, n, m, c) ==
  /\ Len(q) = Len(r) + m - c /\ (c > 0 => Len(q) = n)
  /\ \A j \in 1 .. Len(q) : Extended(r, q[j], j + c)

LEMMA EmptyBucket ==
  ASSUME NEW key \in Int
  PROVE  /\ [key |-> key, b |-> NoTraffic] \in Buckets
         /\ \A d \in Dirs, k \in Kinds : NoTraffic[d][k] = 0
BY DEF Buckets, NoTraffic

LEMMA ReachingMoves ==
  ASSUME NEW n \in Nat \ {0}, NEW r, Shape(r, n), r # <<>>, NEW key \in Nat
  PROVE  \E m \in Nat, c \in Nat : /\ Moved(r, Reaching(r, key, n), n, m, c)
                                   /\ Reaching(r, key, n) \in Seq(Buckets)
                                   /\ Len(r) + m - c > 0 /\ Len(r) + m - c <= n
                                   /\ key <= r[Len(r)].key + m
<1> DEFINE last == r[Len(r)].key
           m == IF key > last THEN key - last ELSE 0
           fill == [i \in 1 .. m |-> [key |-> last + i, b |-> NoTraffic]]
           whole == r \o fill
           q == Reaching(r, key, n)
<1>1. r \in Seq(Buckets) /\ Len(r) \in Nat /\ Len(r) >= 1 /\ Len(r) <= n /\ r[Len(r)] \in Buckets
  BY DEF Shape
<1>2. last \in Int
  BY <1>1 DEF Buckets
<1>3. q = IF Len(whole) <= n THEN whole ELSE SubSeq(whole, Len(whole) - n + 1, Len(whole))
  BY DEF Reaching
<1> HIDE DEF last, q
<1>4. m \in Nat /\ key <= last + m
  BY <1>2
<1> HIDE DEF m
<1>5. fill \in Seq(Buckets) /\ Len(fill) = m /\ \A i \in 1 .. m : fill[i] = [key |-> last + i, b |-> NoTraffic]
  <2>1. \A i \in 1 .. m : last + i \in Int
    BY <1>2, <1>4
  <2>2. \A i \in 1 .. m : fill[i] \in Buckets
    BY <2>1, EmptyBucket
  <2>3. fill = [i \in 1 .. m |-> fill[i]] /\ \A i \in 1 .. m : fill[i] = [key |-> last + i, b |-> NoTraffic]
    OBVIOUS
  <2> HIDE DEF fill
  <2> QED
    BY <1>4, <2>2, <2>3, VectorIsSeq
<1> HIDE DEF fill
<1>6. /\ whole \in Seq(Buckets) /\ Len(whole) = Len(r) + m
      /\ \A j \in 1 .. Len(whole) : /\ j <= Len(r) => whole[j] = r[j]
                                    /\ j > Len(r) => whole[j] = [key |-> last + (j - Len(r)), b |-> NoTraffic]
  <2>1. whole \in Seq(Buckets) /\ Len(whole) = Len(r) + m
    <3>1. r \in Seq(Buckets) /\ fill \in Seq(Buckets) /\ Len(fill) = m
      BY <1>1, <1>5
    <3> QED
      BY <3>1
  <2>2. ASSUME NEW j \in 1 .. Len(whole), j <= Len(r) PROVE whole[j] = r[j]
    BY <1>1, <1>5, <2>2
  <2>3. ASSUME NEW j \in 1 .. Len(whole), j > Len(r)
        PROVE  whole[j] = [key |-> last + (j - Len(r)), b |-> NoTraffic]
    <3>1. whole[j] = fill[j - Len(r)] /\ j - Len(r) \in 1 .. m
      BY <1>1, <1>4, <1>5, <2>1, <2>3
    <3> QED
      BY <1>5, <3>1
  <2> QED
    BY <2>1, <2>2, <2>3
<1> HIDE DEF whole
<1>7. CASE Len(whole) <= n
  <2>1. q = whole
    BY <1>3, <1>7
  <2>2. Moved(r, q, n, m, 0)
    <3>1. \A j \in 1 .. Len(q) : j + 0 = j
      BY <1>6, <2>1
    <3>2. \A j \in 1 .. Len(q) : Extended(r, q[j], j)
      BY <1>6, <2>1 DEF Extended, last
    <3>3. \A j \in 1 .. Len(q) : Extended(r, q[j], j + 0)
      BY <3>1, <3>2
    <3>4. Len(q) = Len(r) + m
      BY <1>6, <2>1
    <3>5. Len(q) = Len(r) + m - 0 /\ (0 > 0 => Len(q) = n)
      BY <1>1, <1>4, <3>4
    <3> QED
      BY <3>3, <3>5 DEF Moved
  <2>3. Len(r) + m - 0 > 0 /\ Len(r) + m - 0 <= n
    BY <1>1, <1>4, <1>6, <1>7
  <2> QED
    BY <1>4, <1>6, <2>1, <2>2, <2>3 DEF last, q
<1>8. CASE ~(Len(whole) <= n)
  <2> DEFINE c == Len(whole) - n
  <2>1. c \in Nat /\ c > 0 /\ c + 1 \in Nat /\ c + 1 >= 1 /\ c + 1 <= Len(whole) + 1
        /\ Len(whole) = Len(r) + m /\ Len(whole) \in Nat
    BY <1>1, <1>4, <1>6, <1>8
  <2>2. q = SubSeq(whole, c + 1, Len(whole))
    BY <1>3, <1>8
  <2>4. Len(r) + m - c = n
    BY <1>1, <1>4, <2>1
  <2> HIDE DEF c
  <2>3. q \in Seq(Buckets) /\ TailOf(q, whole, c + 1)
    <3>1. PICK a : a = c + 1
      OBVIOUS
    <3>2. a \in Nat /\ a >= 1 /\ a <= Len(whole) + 1 /\ q = SubSeq(whole, a, Len(whole))
      BY <2>1, <2>2, <3>1
    <3>3. q \in Seq(Buckets) /\ TailOf(q, whole, a)
      BY <1>6, <3>2, SubSeqIn
    <3> QED
      BY <3>1, <3>3
  <2>5. Len(q) = n /\ Len(q) = Len(r) + m - c
    <3>1. PICK a \in Nat : a = c
      BY <2>1
    <3>2. PICK b \in Nat : b = Len(r)
      BY <1>1
    <3>3. PICK y \in Nat : y = Len(whole) /\ y = b + m
      BY <2>1, <3>2
    <3>4. b + m - a = n
      BY <2>4, <3>1, <3>2
    <3>5. Len(q) = y - (a + 1) + 1
      BY <2>3, <3>1, <3>3 DEF TailOf
    <3>6. y - (a + 1) + 1 = n /\ y - (a + 1) + 1 = b + m - a
      BY <1>4, <3>3, <3>4
    <3> QED
      BY <3>1, <3>2, <3>5, <3>6
  <2>6. ASSUME NEW j \in 1 .. Len(q)
        PROVE  Extended(r, q[j], j + c)
    <3>1. q[j] = whole[j + (c + 1) - 1] /\ j + (c + 1) - 1 \in 1 .. Len(whole)
      BY <2>3 DEF TailOf
    <3>2. j + (c + 1) - 1 = j + c /\ j + c \in 1 .. Len(whole)
      BY <2>1, <2>5, <3>1
    <3>3. PICK x : x = j + c
      OBVIOUS
    <3>4. x \in 1 .. Len(whole) /\ q[j] = whole[x]
      BY <3>1, <3>2, <3>3
    <3>5. Extended(r, q[j], x)
      BY <1>6, <3>4 DEF Extended, last
    <3> QED
      BY <3>3, <3>5
  <2>7. Moved(r, q, n, m, c)
    BY <2>5, <2>6 DEF Moved
  <2>8. Len(r) + m - c > 0 /\ Len(r) + m - c <= n
    BY <2>4
  <2> QED
    BY <1>4, <2>1, <2>3, <2>7, <2>8 DEF last, q
<1> QED
  BY <1>7, <1>8

KeysFrom(r, q, c) == \A j \in 1 .. Len(q) : q[j].key = r[Len(r)].key + (j + c - Len(r))

LEMMA MovedShape ==
  ASSUME NEW n \in Nat, NEW r, Shape(r, n), r # <<>>, NEW m \in Nat, NEW c \in Nat,
         NEW q \in Seq(Buckets), Moved(r, q, n, m, c), Len(q) > 0, Len(q) <= n
  PROVE  /\ Shape(q, n) /\ q # <<>> /\ q[Len(q)].key = r[Len(r)].key + m
         /\ KeysFrom(r, q, c)
<1>1. PICK l \in Int : l = r[Len(r)].key
  <2>1. r \in Seq(Buckets) /\ r[Len(r)] \in Buckets
    BY DEF Shape
  <2> QED
    BY <2>1 DEF Buckets
<1>2. PICK a \in Nat : a = Len(r)
  BY DEF Shape
<1>3. PICK z \in Nat : z = Len(q)
  OBVIOUS
<1>4. ASSUME NEW j \in 1 .. z PROVE q[j].key = l + (j + c - a)
  <2>1. Extended(r, q[j], j + c) /\ j \in Int
    BY <1>3 DEF Moved
  <2>2. PICK x \in Int : x = j + c /\ x >= 1
    OBVIOUS
  <2>3. CASE x <= a
    <3>1. q[j] = r[x]
      BY <1>2, <2>1, <2>2, <2>3 DEF Extended
    <3>2. x \in 1 .. a
      BY <2>2, <2>3
    <3>3. r[x].key = l - a + x
      BY <1>1, <1>2, <3>2 DEF Shape
    <3> QED
      BY <2>2, <3>1, <3>3
  <2>4. CASE ~(x <= a)
    <3>1. q[j] = [key |-> l + (x - a), b |-> NoTraffic]
      BY <1>1, <1>2, <2>1, <2>2, <2>4 DEF Extended
    <3> QED
      BY <2>2, <3>1
  <2> QED
    BY <2>3, <2>4
<1>5. z = a + m - c /\ z >= 1 /\ z \in 1 .. z
  BY <1>2, <1>3 DEF Moved
<1>6. q[z].key = l + m
  <2>1. q[z].key = l + (z + c - a)
    BY <1>4, <1>5
  <2>2. z + c - a = m
    BY <1>5
  <2> QED
    BY <2>1, <2>2
<1>7. \A j \in 1 .. z : q[j].key = q[z].key - z + j
  <2> SUFFICES ASSUME NEW j \in 1 .. z PROVE q[j].key = q[z].key - z + j
    OBVIOUS
  <2>1. q[j].key = l + (j + c - a)
    BY <1>4
  <2>2. l + (j + c - a) = l + m - z + j
    BY <1>5
  <2> QED
    BY <1>6, <2>1, <2>2
<1>8. Shape(q, n) /\ q # <<>>
  BY <1>3, <1>7 DEF Shape
<1> QED
  BY <1>1, <1>2, <1>3, <1>4, <1>6, <1>8 DEF KeysFrom

LEMMA KeyedSums ==
  ASSUME NEW f \in [Times -> Nat], NEW w, NEW key
  PROVE  /\ SumOver(f, Keyed(key, w)) \in Nat /\ SumOver(f, Upto(key, w)) \in Nat
         /\ (\A x \in Keyed(key, w) : f[x] = 0) => SumOver(f, Keyed(key, w)) = 0
         /\ IsFiniteSet(Keyed(key, w)) /\ IsFiniteSet(Upto(key, w))
         /\ Keyed(key, w) \subseteq Times /\ Upto(key, w) \subseteq Times
<1>1. Keyed(key, w) \subseteq Times /\ Upto(key, w) \subseteq Times
  BY DEF Keyed, Upto
<1>2. IsFiniteSet(Keyed(key, w)) /\ IsFiniteSet(Upto(key, w))
  BY <1>1, TimesFinite, FS_Subset
<1>3. \A x \in Times : f[x] \in Nat
  OBVIOUS
<1>4. SumOver(f, Keyed(key, w)) \in Nat
  BY <1>1, <1>2, <1>3, SumNat
<1>5. SumOver(f, Upto(key, w)) \in Nat
  BY <1>1, <1>2, <1>3, SumNat
<1>6. (\A x \in Keyed(key, w) : f[x] = 0) => SumOver(f, Keyed(key, w)) = 0
  BY <1>2, SumZero
<1> QED
  BY <1>1, <1>2, <1>4, <1>5, <1>6

LEMMA MovedFilled ==
  ASSUME NEW n \in Nat, NEW r, Shape(r, n), r # <<>>, NEW m \in Nat, NEW c \in Nat,
         NEW q \in Seq(Buckets), Moved(r, q, n, m, c), Len(q) > 0, Len(q) <= n,
         NEW w \in Nat \ {0}, NEW f \in [Times -> Nat], NEW d \in Dirs, NEW k \in Kinds,
         Filled(r, w, n, f, d, k)
  PROVE  Filled(q, w, n, f, d, k)
<1>1. PICK l \in Int : l = r[Len(r)].key
  <2>1. r \in Seq(Buckets) /\ r[Len(r)] \in Buckets
    BY DEF Shape
  <2> QED
    BY <2>1 DEF Buckets
<1>2. PICK a \in Nat : a = Len(r) /\ a >= 1
  BY DEF Shape
<1>3. PICK z \in Nat : z = Len(q) /\ z >= 1 /\ z = a + m - c /\ (c > 0 => z = n)
  <2>1. Len(q) = Len(r) + m - c /\ (c > 0 => Len(q) = n)
    BY DEF Moved
  <2>2. Len(q) \in Nat /\ Len(q) >= 1
    OBVIOUS
  <2> QED
    BY <1>2, <2>1, <2>2
<1>4. q # <<>> /\ q[z].key = l + m /\ \A j \in 1 .. z : q[j].key = l + (j + c - a)
  <2>1. q # <<>> /\ q[Len(q)].key = r[Len(r)].key + m /\ KeysFrom(r, q, c)
    BY MovedShape
  <2>2. q # <<>> /\ q[z].key = l + m
    BY <1>1, <1>3, <2>1
  <2>3. \A j \in 1 .. z : q[j].key = l + (j + c - a)
    BY <1>1, <1>2, <1>3, <2>1 DEF KeysFrom
  <2> QED
    BY <2>2, <2>3
<1>5. \A x \in Times : x \div w \in Nat
  BY TimesFinite, DivBounds
<1>6. \A x \in Times : f[x] = 0 \/ x \div w <= l
  BY <1>1 DEF Filled
<1>7. \A x \in Times : f[x] = 0 \/ (q # <<>> /\ x \div w <= q[Len(q)].key)
  BY <1>3, <1>4, <1>5, <1>6
<1>8. ASSUME NEW x \in Int, x > l PROVE SumOver(f, Keyed(x, w)) = 0
  <2>1. \A y \in Keyed(x, w) : f[y] = 0
    BY <1>5, <1>6, <1>8 DEF Keyed
  <2> QED
    BY <2>1, KeyedSums
<1>9. ASSUME NEW j \in 1 .. z, j + c >= 2 PROVE q[j].b[d][k] = SumOver(f, Keyed(q[j].key, w))
  <2>1. Extended(r, q[j], j + c) /\ q[j].key = l + (j + c - a)
    BY <1>3, <1>4 DEF Moved
  <2>2. PICK x \in Int : x = j + c /\ x >= 2
    BY <1>9
  <2>3. CASE x <= a
    <3>1. q[j] = r[x]
      BY <1>2, <2>1, <2>2, <2>3 DEF Extended
    <3>2. x \in 2 .. Len(r)
      BY <1>2, <2>2, <2>3
    <3> QED
      BY <3>1, <3>2 DEF Filled
  <2>4. CASE ~(x <= a)
    <3>1. q[j] = [key |-> l + (x - a), b |-> NoTraffic]
      BY <1>1, <1>2, <2>1, <2>2, <2>4 DEF Extended
    <3>2. l + (x - a) \in Int /\ l + (x - a) > l
      BY <2>2, <2>4
    <3>3. q[j].b[d][k] = 0 /\ q[j].key = l + (x - a)
      BY <3>1, <3>2, EmptyBucket
    <3> QED
      BY <1>8, <3>2, <3>3
  <2> QED
    BY <2>3, <2>4
<1>10. \A j \in 2 .. Len(q) : q[j].b[d][k] = SumOver(f, Keyed(q[j].key, w))
  BY <1>3, <1>9
<1>11. /\ q[1].b[d][k] >= SumOver(f, Keyed(q[1].key, w))
       /\ Len(q) < n => q[1].b[d][k] >= SumOver(f, Upto(q[1].key, w))
  <2>1. CASE c = 0
    <3>1. Extended(r, q[1], 1 + c) /\ 1 + c = 1
      BY <1>3, <2>1 DEF Moved
    <3>2. q[1] = r[1]
      BY <1>2, <3>1 DEF Extended
    <3>3. Len(q) < n => Len(r) < n
      BY <1>2, <1>3, <2>1
    <3> QED
      BY <3>2, <3>3 DEF Filled
  <2>2. CASE c # 0
    <3>1. 1 \in 1 .. z /\ 1 + c >= 2 /\ ~(Len(q) < n)
      BY <1>3, <2>2
    <3>2. q[1].b[d][k] = SumOver(f, Keyed(q[1].key, w))
      BY <1>9, <3>1
    <3>3. SumOver(f, Keyed(q[1].key, w)) \in Nat
      BY KeyedSums
    <3> QED
      BY <3>1, <3>2, <3>3
  <2> QED
    BY <2>1, <2>2
<1> QED
  BY <1>7, <1>10, <1>11 DEF Filled

(* bucket_mut: the ring reaches the key and still shows what it showed *)
RingOk(r, w, n, g) ==
  Shape(r, n) /\ \A d \in Dirs, k \in Kinds : Filled(r, w, n, g[d][k], d, k)

Counts == [Dirs -> [Kinds -> [Times -> Nat]]]

LEMMA ReachingOk ==
  ASSUME NEW n \in Nat \ {0}, NEW w \in Nat \ {0}, NEW g \in Counts, NEW r, RingOk(r, w, n, g),
         NEW key \in Nat, NEW q, q = Reaching(r, key, n)
  PROVE  RingOk(q, w, n, g) /\ q # <<>> /\ key <= q[Len(q)].key
<1>1. CASE r = <<>>
  <2>1. q = <<[key |-> key, b |-> NoTraffic]>>
    BY <1>1 DEF Reaching
  <2>2. PICK e \in Buckets : e = [key |-> key, b |-> NoTraffic]
    <3>1. key \in Int
      OBVIOUS
    <3> QED
      BY <3>1, EmptyBucket
  <2>3. q = <<e>> /\ q \in Seq(Buckets) /\ Len(q) = 1 /\ q[1] = e /\ q # <<>> /\ e.key = key
    BY <2>1, <2>2
  <2>4. Shape(q, n)
    BY <2>3 DEF Shape
  <2>5. ASSUME NEW d \in Dirs, NEW k \in Kinds PROVE Filled(q, w, n, g[d][k], d, k)
    <3>1. PICK f \in [Times -> Nat] : f = g[d][k]
      BY DEF Counts
    <3>2. \A t \in Times : f[t] = 0
      BY <1>1, <3>1 DEF RingOk, Filled
    <3>3. e.b[d][k] = 0
      BY <2>2, EmptyBucket
    <3>4. SumOver(f, Keyed(key, w)) = 0 /\ SumOver(f, Upto(key, w)) = 0
      BY <3>2, KeyedSums, SumZero
    <3>5. Filled(q, w, n, f, d, k)
      BY <2>3, <3>2, <3>3, <3>4 DEF Filled
    <3> QED
      BY <3>1, <3>5
  <2> QED
    BY <2>3, <2>4, <2>5 DEF RingOk
<1>2. CASE r # <<>>
  <2>1. Shape(r, n)
    BY DEF RingOk
  <2>2. PICK m \in Nat, c \in Nat :
          /\ Moved(r, q, n, m, c) /\ q \in Seq(Buckets)
          /\ Len(r) + m - c > 0 /\ Len(r) + m - c <= n /\ key <= r[Len(r)].key + m
    BY <1>2, <2>1, ReachingMoves
  <2>3. Len(q) > 0 /\ Len(q) <= n
    BY <2>2 DEF Moved
  <2>4. Shape(q, n) /\ q # <<>> /\ q[Len(q)].key = r[Len(r)].key + m
    BY <1>2, <2>1, <2>2, <2>3, MovedShape
  <2>5. ASSUME NEW d \in Dirs, NEW k \in Kinds PROVE Filled(q, w, n, g[d][k], d, k)
    <3>1. g[d][k] \in [Times -> Nat] /\ Filled(r, w, n, g[d][k], d, k)
      BY DEF Counts, RingOk
    <3> QED
      BY <1>2, <2>1, <2>2, <2>3, <3>1, MovedFilled
  <2> QED
    BY <2>2, <2>4, <2>5 DEF RingOk
<1> QED
  BY <1>1, <1>2

(* More at one time, in a set of times *)
Gets(f, g, E, t, n) ==
  /\ SumOver(f, E) \in Nat
  /\ SumOver(g, E) = SumOver(f, E) + IF t \in E THEN n ELSE 0
  /\ (\A x \in E : f[x] = 0) => SumOver(f, E) = 0

LEMMA MoreGets ==
  ASSUME NEW f \in [Times -> Nat], NEW t \in Times, NEW n \in Nat, NEW E \in SUBSET Times,
         NEW g, g = More(f, t, n)
  PROVE  Gets(f, g, E, t, n)
<1>1. IsFiniteSet(E)
  BY TimesFinite, FS_Subset
<1>2. g[t] = f[t] + n /\ \A x \in Times : x # t => g[x] = f[x]
  BY DEF More
<1>3. /\ \A x \in E : f[x] \in Int
      /\ \A x \in E : f[x] \in Nat
      /\ \A x \in E \ {t} : g[x] = f[x]
      /\ n \in Int
  BY <1>2
<1>4. SumOver(g, E) = SumOver(f, E) + IF t \in E THEN n ELSE 0
  BY <1>1, <1>2, <1>3, SumPut
<1>5. SumOver(f, E) \in Nat
  BY <1>1, <1>3, SumNat
<1>6. (\A x \in E : f[x] = 0) => SumOver(f, E) = 0
  BY <1>1, SumZero
<1> QED
  BY <1>4, <1>5, <1>6 DEF Gets

LEMMA SlotIs ==
  ASSUME NEW n, NEW q, Shape(q, n), q # <<>>, NEW key \in Nat, key <= q[Len(q)].key
  PROVE  /\ Slot(q, key) \in 1 .. Len(q)
         /\ q[Slot(q, key)].key = key \/ (Slot(q, key) = 1 /\ key < q[1].key)
<1>1. PICK l \in Int, z \in Nat : l = q[Len(q)].key /\ z = Len(q) /\ z >= 1 /\ key <= l
  <2>1. q \in Seq(Buckets) /\ q[Len(q)] \in Buckets /\ Len(q) >= 1
    BY DEF Shape
  <2> QED
    BY <2>1 DEF Buckets
<1>2. DOMAIN q = 1 .. z /\ \A j \in 1 .. z : q[j].key = l - z + j
  BY <1>1 DEF Shape
<1>3. CASE \E i \in DOMAIN q : q[i].key = key
  <2>1. Slot(q, key) = CHOOSE i \in DOMAIN q : q[i].key = key
    BY <1>3 DEF Slot
  <2>2. Slot(q, key) \in DOMAIN q /\ q[Slot(q, key)].key = key
    BY <1>3, <2>1
  <2> QED
    BY <1>1, <1>2, <2>2
<1>4. CASE ~ \E i \in DOMAIN q : q[i].key = key
  <2>1. Slot(q, key) = 1
    BY <1>4 DEF Slot
  <2>2. ASSUME key >= q[1].key PROVE FALSE
    <3>1. q[1].key = l - z + 1
      BY <1>1, <1>2
    <3>2. key - l + z \in 1 .. z
      BY <1>1, <2>2, <3>1
    <3>3. q[key - l + z].key = l - z + (key - l + z)
      BY <1>2, <3>2
    <3>4. q[key - l + z].key = key
      BY <3>3
    <3> QED
      BY <1>2, <1>4, <3>2, <3>4
  <2>3. q[1].key \in Int
    BY <1>1, <1>2
  <2> QED
    BY <1>1, <2>1, <2>2, <2>3
<1> QED
  BY <1>3, <1>4

(* One bucket is given more: the others stay *)
Given1(q, p, s, d, k, x) ==
  /\ p \in Seq(Buckets) /\ Len(p) = Len(q) /\ p # <<>>
  /\ \A j \in 1 .. Len(q) : p[j].key = q[j].key
  /\ \A j \in 1 .. Len(q), e \in Dirs, h \in Kinds :
       p[j].b[e][h] = q[j].b[e][h] + IF j = s /\ e = d /\ h = k THEN x ELSE 0

LEMMA BucketGiven ==
  ASSUME NEW q \in Seq(Buckets), NEW s \in 1 .. Len(q), NEW d \in Dirs, NEW k \in Kinds,
         NEW x \in Nat, NEW p, p = [q EXCEPT ![s].b[d][k] = @ + x]
  PROVE  Given1(q, p, s, d, k, x)
<1>1. DOMAIN q = 1 .. Len(q) /\ Len(q) \in Nat /\ q[s] \in Buckets
      /\ \A j \in 1 .. Len(q) : q[j] \in Buckets
  OBVIOUS
<1>2. p = [j \in 1 .. Len(q) |-> IF j = s THEN [q[s] EXCEPT !.b[d][k] = @ + x] ELSE q[j]]
  BY <1>1
<1>3. PICK v : v = q[s]
  OBVIOUS
<1>4. PICK u : u = [v EXCEPT !.b[d][k] = @ + x]
  OBVIOUS
<1>5. PICK vb \in [Dirs -> [Kinds -> Int]] : v.b = vb
  BY <1>1, <1>3 DEF Buckets
<1>6. PICK ub : ub = [vb EXCEPT ![d][k] = @ + x]
  OBVIOUS
<1>7. /\ ub \in [Dirs -> [Kinds -> Int]]
      /\ \A e \in Dirs, h \in Kinds : ub[e][h] = vb[e][h] + IF e = d /\ h = k THEN x ELSE 0
  BY <1>6
<1>8. u = [key |-> v.key, b |-> ub] /\ v.key \in Int
  BY <1>1, <1>3, <1>4, <1>5, <1>6 DEF Buckets
<1>9. u \in Buckets /\ u.key = v.key /\ u.b = ub
  BY <1>7, <1>8 DEF Buckets
<1>10. p[s] = u /\ \A j \in 1 .. Len(q) : j # s => p[j] = q[j]
  BY <1>2, <1>3, <1>4
<1>11. p = [j \in 1 .. Len(q) |-> p[j]] /\ \A j \in 1 .. Len(q) : p[j] \in Buckets
  BY <1>1, <1>2, <1>9, <1>10
<1>12. p \in Seq(Buckets) /\ Len(p) = Len(q)
  <2>1. PICK z \in Nat : z = Len(q)
    OBVIOUS
  <2>2. p = [j \in 1 .. z |-> p[j]] /\ \A j \in 1 .. z : p[j] \in Buckets
    BY <1>11, <2>1
  <2>4. p \in [1 .. z -> Buckets]
    BY <2>2
  <2>3. p \in Seq(Buckets) /\ Len(p) = z
    BY <2>4, VecSeq
  <2> QED
    BY <2>1, <2>3
<1>13. \A j \in 1 .. Len(q) : p[j].key = q[j].key
  BY <1>3, <1>9, <1>10
<1>14. ASSUME NEW j \in 1 .. Len(q), NEW e \in Dirs, NEW h \in Kinds
       PROVE  p[j].b[e][h] = q[j].b[e][h] + IF j = s /\ e = d /\ h = k THEN x ELSE 0
  <2>1. CASE j = s
    BY <1>3, <1>5, <1>7, <1>9, <1>10, <2>1
  <2>2. CASE j # s
    <3>1. q[j].b[e][h] \in Int
      BY <1>1 DEF Buckets
    <3> QED
      BY <1>10, <2>2, <3>1
  <2> QED
    BY <2>1, <2>2
<1>15. p # <<>>
  BY <1>1, <1>12
<1> QED
  BY <1>12, <1>13, <1>14, <1>15 DEF Given1

(* add to a bucket: the ring shows it, in the bucket of its time or, when  *)
(* that one is gone, in the oldest.                                        *)
LEMMA GivenShape ==
  ASSUME NEW n, NEW q, Shape(q, n), NEW p, NEW s, NEW d, NEW k, NEW x, Given1(q, p, s, d, k, x)
  PROVE  Shape(p, n) /\ p[Len(p)].key = q[Len(q)].key
<1>1. PICK z \in Nat : z = Len(q) /\ z = Len(p) /\ z >= 1 /\ z <= n
  BY DEF Given1, Shape
<1>2. p[z].key = q[z].key /\ p \in Seq(Buckets) /\ \A j \in 1 .. z : p[j].key = q[j].key
  BY <1>1 DEF Given1
<1>3. \A j \in 1 .. z : q[j].key = q[z].key - z + j
  BY <1>1 DEF Shape
<1> QED
  BY <1>1, <1>2, <1>3 DEF Shape

LEMMA BucketInt ==
  ASSUME NEW q \in Seq(Buckets), NEW j \in 1 .. Len(q), NEW d \in Dirs, NEW k \in Kinds
  PROVE  q[j].b[d][k] \in Int /\ q[j].key \in Int
<1>1. q[j] \in Buckets
  OBVIOUS
<1> QED
  BY <1>1 DEF Buckets

LEMMA GivenOther ==
  ASSUME NEW n, NEW w, NEW q, Shape(q, n), q # <<>>, NEW p, NEW s, NEW d, NEW k, NEW x \in Nat,
         Given1(q, p, s, d, k, x), NEW e \in Dirs, NEW h \in Kinds, ~(e = d /\ h = k),
         NEW f, Filled(q, w, n, f, e, h)
  PROVE  Filled(p, w, n, f, e, h)
<1>1. PICK z \in Nat : z = Len(q) /\ z = Len(p) /\ z >= 1
  BY DEF Given1, Shape
<1>2. p[Len(p)].key = q[Len(q)].key /\ p # <<>>
  BY GivenShape DEF Given1
<1>3. ASSUME NEW j \in 1 .. z PROVE p[j].key = q[j].key /\ p[j].b[e][h] = q[j].b[e][h]
  <2>1. p[j].key = q[j].key /\ p[j].b[e][h] = q[j].b[e][h] + 0
    BY <1>1 DEF Given1
  <2>2. q[j].b[e][h] \in Int
    BY <1>1, BucketInt DEF Shape
  <2> QED
    BY <2>1, <2>2
<1>4. \A j \in 2 .. Len(p) : p[j].b[e][h] = SumOver(f, Keyed(p[j].key, w))
  BY <1>1, <1>3 DEF Filled
<1>5. p[1].key = q[1].key /\ p[1].b[e][h] = q[1].b[e][h]
  BY <1>1, <1>3
<1> QED
  BY <1>1, <1>2, <1>4, <1>5 DEF Filled

LEMMA GivenFilled ==
  ASSUME NEW n \in Nat \ {0}, NEW w \in Nat \ {0}, NEW q, Shape(q, n), q # <<>>,
         NEW t \in Times, t \div w <= q[Len(q)].key, NEW s, s = Slot(q, t \div w),
         NEW p, NEW d \in Dirs, NEW k \in Kinds, NEW x \in Nat, Given1(q, p, s, d, k, x),
         NEW f \in [Times -> Nat], Filled(q, w, n, f, d, k), NEW g, g = More(f, t, x)
  PROVE  Filled(p, w, n, g, d, k)
<1>1. PICK key \in Nat : key = t \div w
  BY TimesFinite, DivBounds
<1>2. PICK l \in Int, z \in Nat : l = q[Len(q)].key /\ z = Len(q) /\ z = Len(p) /\ z >= 1 /\ key <= l
  <2>1. q \in Seq(Buckets) /\ q[Len(q)] \in Buckets /\ Len(q) >= 1 /\ Len(p) = Len(q)
    BY DEF Shape, Given1
  <2> QED
    BY <1>1, <2>1 DEF Buckets
<1>3. \A j \in 1 .. z : q[j].key = l - z + j /\ p[j].key = q[j].key
  BY <1>2 DEF Shape, Given1
<1>4. /\ s \in 1 .. z
      /\ q[s].key = key \/ (s = 1 /\ key < q[1].key)
  BY <1>1, <1>2, SlotIs
<1>5. p[Len(p)].key = l /\ p # <<>>
  BY <1>2, GivenShape DEF Given1
<1>6. \A y \in Times : g[y] = 0 \/ (p # <<>> /\ y \div w <= p[Len(p)].key)
  <2> SUFFICES ASSUME NEW y \in Times PROVE g[y] = 0 \/ y \div w <= l
    BY <1>5
  <2>1. CASE y = t
    BY <1>1, <1>2, <2>1
  <2>2. CASE y # t
    <3>1. g[y] = f[y]
      BY <2>2 DEF More
    <3> QED
      BY <1>2, <3>1 DEF Filled
  <2> QED
    BY <2>1, <2>2
<1>7. ASSUME NEW j \in 1 .. z
      PROVE  /\ p[j].b[d][k] = q[j].b[d][k] + IF j = s THEN x ELSE 0
             /\ q[j].b[d][k] \in Int
  <2>1. q[j].b[d][k] \in Int
    BY <1>2, BucketInt DEF Shape
  <2>2. p[j].b[d][k] = q[j].b[d][k] + IF j = s THEN x ELSE 0
    BY <1>2 DEF Given1
  <2> QED
    BY <2>1, <2>2
<1>8. ASSUME NEW a
      PROVE  Gets(f, g, Keyed(a, w), t, x) /\ Gets(f, g, Upto(a, w), t, x)
  <2>1. Keyed(a, w) \in SUBSET Times /\ Upto(a, w) \in SUBSET Times
    BY DEF Keyed, Upto
  <2> QED
    BY <2>1, MoreGets
<1>9. \A a : t \in Keyed(a, w) <=> a = key
  BY <1>1 DEF Keyed
<1>10. \A a : t \in Upto(a, w) <=> key <= a
  BY <1>1 DEF Upto
<1>11. ASSUME NEW j \in 2 .. z PROVE p[j].b[d][k] = SumOver(g, Keyed(p[j].key, w))
  <2>1. j \in 1 .. z /\ p[j].key = q[j].key /\ q[j].key = l - z + j /\ q[1].key = l - z + 1
        /\ q[s].key = l - z + s
    <3>1. j \in 1 .. z /\ 1 \in 1 .. z /\ s \in 1 .. z
      BY <1>2, <1>4
    <3> QED
      BY <1>3, <3>1
  <2>2. q[j].b[d][k] = SumOver(f, Keyed(q[j].key, w))
    BY <1>2 DEF Filled
  <2>3. j = s <=> q[j].key = key
    <3>1. PICK kj \in Int, ks \in Int, k1 \in Int :
            /\ kj = q[j].key /\ ks = q[s].key /\ k1 = q[1].key
            /\ kj = l - z + j /\ ks = l - z + s /\ k1 = l - z + 1
      BY <1>4, <2>1
    <3>2. ks = key \/ (s = 1 /\ key < k1)
      BY <1>4, <3>1
    <3>3. j \in Int /\ s \in Int /\ j >= 2
      BY <1>4
    <3>4. j = s <=> kj = key
      BY <3>1, <3>2, <3>3
    <3> QED
      BY <3>1, <3>4
  <2>4. Gets(f, g, Keyed(q[j].key, w), t, x)
    BY <1>8
  <2>5. t \in Keyed(q[j].key, w) <=> j = s
    BY <1>9, <2>3
  <2>6. SumOver(g, Keyed(q[j].key, w)) = SumOver(f, Keyed(q[j].key, w)) + IF j = s THEN x ELSE 0
    BY <2>4, <2>5 DEF Gets
  <2>7. p[j].b[d][k] = q[j].b[d][k] + IF j = s THEN x ELSE 0
    BY <1>7, <2>1
  <2> QED
    BY <2>1, <2>2, <2>6, <2>7
<1>12. /\ p[1].b[d][k] >= SumOver(g, Keyed(p[1].key, w))
       /\ Len(p) < n => p[1].b[d][k] >= SumOver(g, Upto(p[1].key, w))
  <2>1. /\ p[1].key = q[1].key /\ q[1].key = l - z + 1 /\ q[s].key = l - z + s
        /\ p[1].b[d][k] = q[1].b[d][k] + (IF 1 = s THEN x ELSE 0) /\ q[1].b[d][k] \in Int
    BY <1>2, <1>3, <1>4, <1>7
  <2>2. PICK a \in Int : a = q[1].key
    <3>1. l - z + 1 \in Int
      BY <1>2
    <3> QED
      BY <2>1, <3>1
  <2>3. /\ q[1].b[d][k] >= SumOver(f, Keyed(a, w))
        /\ Len(p) < n => q[1].b[d][k] >= SumOver(f, Upto(a, w))
    BY <1>2, <2>2 DEF Filled
  <2>4. s # 1 => t \notin Keyed(a, w) /\ t \notin Upto(a, w)
    <3> SUFFICES ASSUME s # 1 PROVE t \notin Keyed(a, w) /\ t \notin Upto(a, w)
      OBVIOUS
    <3>1. q[s].key = key /\ a = l - z + 1 /\ key = l - z + s /\ s \in Int /\ s > 1
      BY <1>4, <2>1, <2>2
    <3>3. PICK y \in Int : y = l - z
      BY <1>2
    <3>4. a = y + 1 /\ key = y + s /\ s \in Int /\ s > 1
      BY <3>1, <3>3
    <3>2. a # key /\ ~(key <= a)
      BY <3>4
    <3> QED
      BY <1>9, <1>10, <3>2
  <2>5. PICK u \in Nat, v \in Nat : u = SumOver(f, Keyed(a, w)) /\ v = SumOver(f, Upto(a, w))
    BY <1>8 DEF Gets
  <2>6. /\ SumOver(g, Keyed(a, w)) = u + IF t \in Keyed(a, w) THEN x ELSE 0
        /\ SumOver(g, Upto(a, w)) = v + IF t \in Upto(a, w) THEN x ELSE 0
    BY <1>8, <2>5 DEF Gets
  <2>7. CASE s = 1
    <3>1. PICK e \in Int : e = q[1].b[d][k]
      BY <2>1
    <3>2. PICK u1 \in Int, v1 \in Int :
            /\ u1 = SumOver(g, Keyed(a, w)) /\ v1 = SumOver(g, Upto(a, w))
            /\ u1 <= u + x /\ v1 <= v + x
      BY <2>5, <2>6
    <3>3. e >= u /\ (Len(p) < n => e >= v)
      BY <2>3, <2>5, <3>1
    <3>4. e + x >= u1 /\ (Len(p) < n => e + x >= v1)
      BY <3>2, <3>3
    <3>5. p[1].b[d][k] = e + x /\ p[1].key = a
      BY <2>1, <2>2, <2>7, <3>1
    <3> QED
      BY <3>2, <3>4, <3>5
  <2>8. CASE s # 1
    BY <2>1, <2>2, <2>3, <2>4, <2>5, <2>6, <2>8
  <2> QED
    BY <2>7, <2>8
<1> QED
  BY <1>2, <1>6, <1>11, <1>12 DEF Filled

(* What was seen of an address, and a little more of it *)
Put(g, d, k, t, x) == [g EXCEPT ![d][k] = More(@, t, x)]

PutsAt(g, h, d, k, t, x) ==
  /\ h \in Counts /\ h[d][k] = More(g[d][k], t, x)
  /\ \A e \in Dirs, j \in Kinds : ~(e = d /\ j = k) => h[e][j] = g[e][j]

LEMMA PutIs ==
  ASSUME NEW g \in Counts, NEW d \in Dirs, NEW k \in Kinds, NEW t \in Times, NEW x \in Nat,
         NEW h, h = Put(g, d, k, t, x)
  PROVE  PutsAt(g, h, d, k, t, x) /\ (x = 0 => h = g)
<1>1. PICK m \in [Times -> Nat] : m = More(g[d][k], t, x) /\ (x = 0 => m = g[d][k])
  BY MoreIs DEF Counts
<1>2. h = [g EXCEPT ![d][k] = m]
  BY <1>1 DEF Put
<1>3. h \in Counts /\ h[d][k] = m /\ \A e \in Dirs, j \in Kinds : ~(e = d /\ j = k) => h[e][j] = g[e][j]
  BY <1>2 DEF Counts
<1>4. ASSUME x = 0 PROVE h = g
  BY <1>1, <1>2, <1>4 DEF Counts
<1> QED
  BY <1>1, <1>3, <1>4 DEF PutsAt

LEMMA InBucketOk ==
  ASSUME NEW n \in Nat \ {0}, NEW w \in Nat \ {0}, NEW g \in Counts, NEW r, RingOk(r, w, n, g),
         NEW t \in Times, NEW d \in Dirs, NEW k \in Kinds, NEW x \in Nat,
         NEW h, PutsAt(g, h, d, k, t, x)
  PROVE  RingOk(InBucket(r, t, w, n, d, k, x), w, n, h)
<1>1. t \div w \in Nat
  BY TimesFinite, DivBounds
<1>2. PICK q : q = Reaching(r, t \div w, n)
  OBVIOUS
<1>3. RingOk(q, w, n, g) /\ q # <<>> /\ t \div w <= q[Len(q)].key
  BY <1>1, <1>2, ReachingOk
<1>4. Shape(q, n) /\ q \in Seq(Buckets)
  BY <1>3 DEF RingOk, Shape
<1>5. PICK s : s = Slot(q, t \div w)
  OBVIOUS
<1>6. s \in 1 .. Len(q)
  BY <1>1, <1>3, <1>4, <1>5, SlotIs
<1>7. PICK p : p = [q EXCEPT ![s].b[d][k] = @ + x]
  OBVIOUS
<1>8. InBucket(r, t, w, n, d, k, x) = p
  BY <1>2, <1>5, <1>7 DEF InBucket
<1>9. Given1(q, p, s, d, k, x)
  BY <1>4, <1>6, <1>7, BucketGiven
<1>10. Shape(p, n)
  BY <1>4, <1>9, GivenShape
<1>11. ASSUME NEW e \in Dirs, NEW j \in Kinds PROVE Filled(p, w, n, h[e][j], e, j)
  <2>1. Filled(q, w, n, g[e][j], e, j) /\ g[e][j] \in [Times -> Nat]
    BY <1>3 DEF RingOk, Counts
  <2>2. CASE e = d /\ j = k
    <3>1. PICK u : u = h[d][k]
      OBVIOUS
    <3>2. u = More(g[d][k], t, x)
      BY <3>1 DEF PutsAt
    <3>3. PICK f \in [Times -> Nat] : f = g[d][k] /\ Filled(q, w, n, f, d, k) /\ u = More(f, t, x)
      BY <2>1, <2>2, <3>2
    <3>4. Filled(p, w, n, u, d, k)
      BY <1>3, <1>4, <1>5, <1>9, <3>3, GivenFilled
    <3> QED
      BY <2>2, <3>1, <3>4
  <2>3. CASE ~(e = d /\ j = k)
    <3>1. h[e][j] = g[e][j]
      BY <2>3 DEF PutsAt
    <3>2. Filled(p, w, n, g[e][j], e, j)
      BY <1>3, <1>4, <1>9, <2>1, <2>3, GivenOther
    <3> QED
      BY <3>1, <3>2
  <2> QED
    BY <2>2, <2>3
<1> QED
  BY <1>8, <1>10, <1>11 DEF RingOk

(* An address: its rings and its totals *)
IpRings(x, g) ==
  /\ GoodIp(x) /\ g \in Counts
  /\ RingOk(x.sec1, FineWidth, FineRetain, g) /\ RingOk(x.sec60, CoarseWidth, CoarseRetain, g)
  /\ \A d \in Dirs, k \in Kinds : x.total[d][k] = SumOver(g[d][k], Times)

LEMMA CountedOk ==
  ASSUME NEW x, NEW g, IpRings(x, g), NEW t \in Times, NEW d \in Dirs, NEW k \in Kinds, NEW n \in Nat,
         NEW h, h = Put(g, d, k, t, n)
  PROVE  IpRings(Counted(x, t, d, k, n), h)
<1> DEFINE a == InBucket(x.sec1, t, FineWidth, FineRetain, d, k, n)
           b == InBucket(x.sec60, t, CoarseWidth, CoarseRetain, d, k, n)
           c == Counted(x, t, d, k, n)
<1>1. g \in Counts /\ GoodIp(x)
  BY DEF IpRings
<1>2. PutsAt(g, h, d, k, t, n)
  BY <1>1, PutIs
<1>3. RingOk(a, FineWidth, FineRetain, h) /\ RingOk(b, CoarseWidth, CoarseRetain, h)
  BY <1>1, <1>2, InBucketOk, IpStatsAssumption DEF IpRings
<1>4. c = [x EXCEPT !.total[d][k] = @ + n, !.sec1 = a, !.sec60 = b]
  BY DEF Counted
<1>5. GoodIp(c) /\ \A e \in Dirs, j \in Kinds :
                    c.total[e][j] = x.total[e][j] + IF e = d /\ j = k THEN n ELSE 0
  BY <1>1, CountedAdds
<1> HIDE DEF a, b, c
<1>6. c.sec1 = a /\ c.sec60 = b
  BY <1>1, <1>4 DEF GoodIp
<1>7. ASSUME NEW e \in Dirs, NEW j \in Kinds PROVE c.total[e][j] = SumOver(h[e][j], Times)
  <2>1. x.total[e][j] = SumOver(g[e][j], Times) /\ g[e][j] \in [Times -> Nat]
    BY <1>1 DEF IpRings, Counts
  <2>2. CASE e = d /\ j = k
    <3>4. PICK u : u = h[d][k]
      OBVIOUS
    <3>1. PICK f \in [Times -> Nat] : u = h[d][k] /\ f = g[d][k] /\ u = More(f, t, n)
      BY <1>2, <2>1, <2>2, <3>4 DEF PutsAt
    <3>2. Gets(f, u, Times, t, n)
      BY <3>1, MoreGets
    <3>3. SumOver(u, Times) = SumOver(f, Times) + n
      BY <3>2 DEF Gets
    <3> QED
      BY <1>5, <2>1, <2>2, <3>1, <3>3
  <2>3. CASE ~(e = d /\ j = k)
    <3>1. h[e][j] = g[e][j]
      BY <1>2, <2>3 DEF PutsAt
    <3>2. x.total[e][j] \in Nat
      BY <1>1 DEF GoodIp
    <3>3. c.total[e][j] = x.total[e][j] + 0
      BY <1>5, <2>3
    <3> QED
      BY <2>1, <3>1, <3>2, <3>3
  <2> QED
    BY <2>2, <2>3
<1>8. h \in Counts
  BY <1>2 DEF PutsAt
<1> QED
  BY <1>3, <1>5, <1>6, <1>7, <1>8 DEF IpRings, c

LEMMA TouchedOk ==
  ASSUME NEW x, NEW g, IpRings(x, g), NEW y, GoodIp(y), y.sec1 = x.sec1, y.sec60 = x.sec60,
         y.total = x.total
  PROVE  IpRings(y, g)
BY DEF IpRings

LEMMA BothOk ==
  ASSUME NEW x, NEW g, IpRings(x, g), NEW t \in Times, NEW d \in Dirs, NEW p \in Nat, NEW l \in Nat
  PROVE  IpRings(AddLost(AddPackets(x, t, p, d), t, l, d), Put(Put(g, d, "pkts", t, p), d, "lost", t, l))
<1>1. "pkts" \in Kinds /\ "lost" \in Kinds
  BY DEF Kinds
<1>2. PICK h : h = Put(g, d, "pkts", t, p)
  OBVIOUS
<1>3. PICK y : y = AddPackets(x, t, p, d)
  OBVIOUS
<1>4. IpRings(y, h)
  <2>1. CASE p = 0
    <3>1. y = x /\ h = g
      BY <1>1, <1>2, <1>3, <2>1, PutIs DEF AddPackets, IpRings
    <3> QED
      BY <3>1
  <2>2. CASE p # 0
    <3>1. PICK c : c = Counted(x, t, d, "pkts", p)
      OBVIOUS
    <3>2. IpRings(c, h) /\ GoodIp(c)
      BY <1>1, <1>2, <3>1, CountedOk DEF IpRings
    <3>3. y = [c EXCEPT !.last_seen = t]
      BY <1>3, <2>2, <3>1 DEF AddPackets
    <3>4. GoodIp(y) /\ y.sec1 = c.sec1 /\ y.sec60 = c.sec60 /\ y.total = c.total
      BY <3>2, <3>3 DEF GoodIp
    <3> QED
      BY <3>2, <3>4, TouchedOk
  <2> QED
    BY <2>1, <2>2
<1>5. PICK v : v = Put(h, d, "lost", t, l)
  OBVIOUS
<1>6. PICK z : z = AddLost(y, t, l, d)
  OBVIOUS
<1>7. IpRings(z, v)
  <2>1. CASE l = 0
    <3>1. z = y /\ v = h
      BY <1>1, <1>4, <1>5, <1>6, <2>1, PutIs DEF AddLost, IpRings
    <3> QED
      BY <1>4, <3>1
  <2>2. CASE l # 0
    <3>1. PICK c : c = Counted(y, t, d, "lost", l)
      OBVIOUS
    <3>2. IpRings(c, v) /\ GoodIp(c)
      BY <1>1, <1>4, <1>5, <3>1, CountedOk DEF IpRings
    <3>3. z = [c EXCEPT !.last_seen = IF @ = -1 THEN t ELSE @]
      BY <1>6, <2>2, <3>1 DEF AddLost
    <3>4. GoodIp(z) /\ z.sec1 = c.sec1 /\ z.sec60 = c.sec60 /\ z.total = c.total
      BY <3>2, <3>3 DEF GoodIp
    <3> QED
      BY <3>2, <3>4, TouchedOk
  <2> QED
    BY <2>1, <2>2
<1> QED
  BY <1>2, <1>3, <1>5, <1>6, <1>7

-----------------------------------------------------------------------------
(* All addresses of a table f, against what was seen of each *)
SeenCounts == [Ips -> Counts]

RingsOk(f, h) ==
  /\ DOMAIN f \subseteq Ips /\ h \in SeenCounts
  /\ \A i \in Ips : IpRings(Entry(f, i, NewIp), h[i])

PutBoth(g, s, d) ==
  Put(Put(g, d, "pkts", streams[s].last, New(s, "pkts")), d, "lost", streams[s].last, New(s, "lost"))

LEMMA PutBothIs ==
  ASSUME GoodStreams, NEW s \in DOMAIN streams, NEW g \in Counts, NEW d \in Dirs, NEW v,
         v = PutBoth(g, s, d)
  PROVE  /\ v \in Counts
         /\ \A k \in Kinds : v[d][k] = More(g[d][k], streams[s].last, New(s, k))
         /\ \A e \in Dirs, k \in Kinds : e # d => v[e][k] = g[e][k]
<1>1. PICK t \in Times : t = streams[s].last
  BY DEF GoodStreams, GoodStream
<1>2. PICK p \in Nat, l \in Nat : p = New(s, "pkts") /\ l = New(s, "lost")
  BY NewNat
<1>3. "pkts" \in Kinds /\ "lost" \in Kinds /\ \A k \in Kinds : k = "pkts" \/ k = "lost"
  BY DEF Kinds
<1>4. PICK h : h = Put(g, d, "pkts", t, p)
  OBVIOUS
<1>5. PutsAt(g, h, d, "pkts", t, p) /\ h \in Counts
  BY <1>3, <1>4, PutIs DEF PutsAt
<1>6. v = Put(h, d, "lost", t, l)
  BY <1>1, <1>2, <1>4 DEF PutBoth
<1>7. PutsAt(h, v, d, "lost", t, l)
  BY <1>3, <1>5, <1>6, PutIs
<1>8. v[d]["pkts"] = More(g[d]["pkts"], t, p) /\ v[d]["lost"] = More(g[d]["lost"], t, l)
  BY <1>3, <1>5, <1>7 DEF PutsAt
<1>9. \A e \in Dirs, k \in Kinds : e # d => v[e][k] = g[e][k]
  BY <1>3, <1>5, <1>7 DEF PutsAt
<1>10. \A k \in Kinds : v[d][k] = More(g[d][k], streams[s].last, New(s, k))
  BY <1>1, <1>2, <1>3, <1>8
<1> QED
  BY <1>7, <1>9, <1>10 DEF PutsAt

LEMMA AtRings ==
  ASSUME GoodStreams, NEW s \in DOMAIN streams, NEW f, NEW h, RingsOk(f, h),
         NEW i \in Ips, NEW d \in Dirs, NEW v, v = [h EXCEPT ![i] = PutBoth(@, s, d)]
  PROVE  RingsOk(At(f, s, i, d), v)
<1>1. PICK t \in Times : t = streams[s].last
  BY DEF GoodStreams, GoodStream
<1>2. PICK p \in Nat, l \in Nat : p = New(s, "pkts") /\ l = New(s, "lost")
  BY NewNat
<1>3. PICK x, g : x = Entry(f, i, NewIp) /\ g = h[i]
  OBVIOUS
<1>4. IpRings(x, g) /\ g \in Counts /\ h \in [Ips -> Counts]
  BY <1>3 DEF RingsOk, SeenCounts
<1>5. PICK y : y = AddLost(AddPackets(x, t, p, d), t, l, d)
  OBVIOUS
<1>6. PICK u : u = PutBoth(g, s, d)
  OBVIOUS
<1>7. IpRings(y, u)
  BY <1>1, <1>2, <1>4, <1>5, <1>6, BothOk DEF PutBoth
<1>8. At(f, s, i, d) = With(f, i, y)
  BY <1>1, <1>2, <1>3, <1>5 DEF At
<1>9. v = [h EXCEPT ![i] = u] /\ u \in Counts
  BY <1>3, <1>6, <1>7 DEF IpRings
<1>10. v \in SeenCounts /\ v[i] = u /\ \A j \in Ips : j # i => v[j] = h[j]
  BY <1>4, <1>9 DEF SeenCounts
<1>11. PICK z : z = With(f, i, y)
  OBVIOUS
<1>12. DOMAIN z = DOMAIN f \cup {i} /\ Entry(z, i, NewIp) = y
       /\ \A j \in Ips : j # i => Entry(z, j, NewIp) = Entry(f, j, NewIp)
  BY <1>11 DEF With, Entry
<1>13. \A j \in Ips : IpRings(Entry(z, j, NewIp), v[j])
  BY <1>7, <1>10, <1>12 DEF RingsOk
<1>14. RingsOk(z, v)
  BY <1>10, <1>12, <1>13 DEF RingsOk
<1> QED
  BY <1>8, <1>11, <1>14

(* What a stream hands over, in the history of all addresses *)
Gains(h, v, s) ==
  /\ v \in SeenCounts
  /\ \A i \in Ips, d \in Dirs, k \in Kinds :
       v[i][d][k] = IF i = EndOf(s, d) THEN More(h[i][d][k], streams[s].last, New(s, k)) ELSE h[i][d][k]

LEMMA SameCounts ==
  ASSUME NEW v \in SeenCounts, NEW u \in SeenCounts,
         \A i \in Ips, d \in Dirs, k \in Kinds : v[i][d][k] = u[i][d][k]
  PROVE  v = u
<1>1. ASSUME NEW i \in Ips, NEW d \in Dirs PROVE v[i][d] = u[i][d]
  <2>1. v[i][d] \in [Kinds -> [Times -> Nat]] /\ u[i][d] \in [Kinds -> [Times -> Nat]]
    BY DEF SeenCounts, Counts
  <2> QED
    BY <2>1
<1>2. ASSUME NEW i \in Ips PROVE v[i] = u[i]
  <2>1. v[i] \in Counts /\ u[i] \in Counts
    BY DEF SeenCounts
  <2> QED
    BY <1>1, <2>1 DEF Counts
<1> QED
  BY <1>2 DEF SeenCounts

LEMMA AttributeRings ==
  ASSUME GoodStreams, NEW s \in DOMAIN streams, NEW f, NEW h, RingsOk(f, h), NEW v, Gains(h, v, s)
  PROVE  RingsOk(Attribute(f, s), v)
<1>1. Src[s] \in Ips /\ Dst[s] \in Ips
  BY TrafficAssumption DEF GoodStreams
<1>2. "tx" \in Dirs /\ "rx" \in Dirs /\ "tx" # "rx" /\ \A d \in Dirs : d = "tx" \/ d = "rx"
  BY DEF Dirs
<1>3. h \in SeenCounts /\ v \in SeenCounts
  BY DEF RingsOk, Gains
<1>4. PICK t \in Times : t = streams[s].last
  BY DEF GoodStreams, GoodStream
<1>5. CASE \A k \in Kinds : New(s, k) = 0
  <2>1. Attribute(f, s) = f
    BY <1>5 DEF Attribute
  <2>2. ASSUME NEW i \in Ips, NEW d \in Dirs, NEW k \in Kinds PROVE v[i][d][k] = h[i][d][k]
    <3>1. h[i][d][k] \in [Times -> Nat] /\ New(s, k) = 0
      BY <1>3, <1>5 DEF SeenCounts, Counts
    <3>2. More(h[i][d][k], t, 0) = h[i][d][k]
      <4>1. PICK g \in [Times -> Nat] : g = h[i][d][k]
        BY <3>1
      <4>2. More(g, t, 0) = g
        BY MoreIs
      <4> QED
        BY <4>1, <4>2
    <3> QED
      BY <1>4, <3>1, <3>2 DEF Gains
  <2>3. v = h
    BY <1>3, <2>2, SameCounts
  <2> QED
    BY <2>1, <2>3
<1>6. CASE ~ \A k \in Kinds : New(s, k) = 0
  <2>1. PICK a : a = [h EXCEPT ![Src[s]] = PutBoth(@, s, "tx")]
    OBVIOUS
  <2>2. PICK g : g = At(f, s, Src[s], "tx")
    OBVIOUS
  <2>3. RingsOk(g, a)
    BY <1>1, <1>2, <2>1, <2>2, AtRings
  <2>4. PICK u : u = [a EXCEPT ![Dst[s]] = PutBoth(@, s, "rx")]
    OBVIOUS
  <2>5. RingsOk(At(g, s, Dst[s], "rx"), u)
    BY <1>1, <1>2, <2>3, <2>4, AtRings
  <2>6. Attribute(f, s) = At(g, s, Dst[s], "rx")
    BY <1>6, <2>2 DEF Attribute
  <2>7. a \in SeenCounts /\ u \in SeenCounts
    BY <2>3, <2>5 DEF RingsOk
  <2>8. PICK b : b = PutBoth(h[Src[s]], s, "tx")
    OBVIOUS
  <2>9. /\ \A k \in Kinds : b["tx"][k] = More(h[Src[s]]["tx"][k], streams[s].last, New(s, k))
        /\ \A e \in Dirs, k \in Kinds : e # "tx" => b[e][k] = h[Src[s]][e][k]
    BY <1>1, <1>2, <1>3, <2>8, PutBothIs DEF SeenCounts
  <2>10. a[Src[s]] = b /\ \A i \in Ips : i # Src[s] => a[i] = h[i]
    BY <1>1, <1>3, <2>1, <2>8 DEF SeenCounts
  <2>11. PICK c : c = PutBoth(a[Dst[s]], s, "rx")
    OBVIOUS
  <2>12. /\ \A k \in Kinds : c["rx"][k] = More(a[Dst[s]]["rx"][k], streams[s].last, New(s, k))
         /\ \A e \in Dirs, k \in Kinds : e # "rx" => c[e][k] = a[Dst[s]][e][k]
    BY <1>1, <1>2, <2>7, <2>11, PutBothIs DEF SeenCounts
  <2>13. u[Dst[s]] = c /\ \A i \in Ips : i # Dst[s] => u[i] = a[i]
    BY <1>1, <2>4, <2>7, <2>11 DEF SeenCounts
  <2>14. ASSUME NEW i \in Ips, NEW k \in Kinds PROVE u[i]["tx"][k] = v[i]["tx"][k]
    <3>1. u[i]["tx"][k] = a[i]["tx"][k]
      BY <1>2, <2>12, <2>13
    <3>2. a[i]["tx"][k] = IF i = Src[s] THEN More(h[i]["tx"][k], streams[s].last, New(s, k)) ELSE h[i]["tx"][k]
      BY <2>9, <2>10
    <3>3. v[i]["tx"][k] = IF i = Src[s] THEN More(h[i]["tx"][k], streams[s].last, New(s, k)) ELSE h[i]["tx"][k]
      BY <1>2 DEF Gains, EndOf
    <3> QED
      BY <3>1, <3>2, <3>3
  <2>15. ASSUME NEW i \in Ips, NEW k \in Kinds PROVE u[i]["rx"][k] = v[i]["rx"][k]
    <3>1. a[i]["rx"][k] = h[i]["rx"][k]
      BY <1>2, <2>9, <2>10
    <3>2. u[i]["rx"][k] = IF i = Dst[s] THEN More(a[i]["rx"][k], streams[s].last, New(s, k)) ELSE a[i]["rx"][k]
      BY <2>12, <2>13
    <3>3. v[i]["rx"][k] = IF i = Dst[s] THEN More(h[i]["rx"][k], streams[s].last, New(s, k)) ELSE h[i]["rx"][k]
      BY <1>2 DEF Gains, EndOf
    <3> QED
      BY <3>1, <3>2, <3>3
  <2>16. \A i \in Ips, d \in Dirs, k \in Kinds : u[i][d][k] = v[i][d][k]
    BY <1>2, <2>14, <2>15
  <2>17. u = v
    BY <1>3, <2>7, <2>16, SameCounts
  <2> QED
    BY <2>5, <2>6, <2>17
<1> QED
  BY <1>5, <1>6

(* What Recorded adds, with one table for all sets of streams *)
Handed(k) == [s \in DOMAIN streams |-> New(s, k)]

Hands(S, i, d, t) == {s \in S : streams[s].last = t /\ i = EndOf(s, d)}

LEMMA RecordedAt ==
  ASSUME GoodStreams, seen \in SeenCounts, NEW S \in SUBSET DOMAIN streams
  PROVE  /\ Recorded(S) \in SeenCounts
         /\ \A i \in Ips, d \in Dirs, k \in Kinds, t \in Times :
              /\ Recorded(S)[i][d][k][t] = seen[i][d][k][t] + SumOver(Handed(k), Hands(S, i, d, t))
              /\ seen[i][d][k][t] \in Nat /\ SumOver(Handed(k), Hands(S, i, d, t)) \in Nat
<1>1. IsFiniteSet(S)
  BY FS_Subset DEF GoodStreams
<1>2. ASSUME NEW i \in Ips, NEW d \in Dirs, NEW k \in Kinds, NEW t \in Times
      PROVE  /\ SumOver([s \in S |-> New(s, k)], Hands(S, i, d, t)) = SumOver(Handed(k), Hands(S, i, d, t))
             /\ SumOver(Handed(k), Hands(S, i, d, t)) \in Nat
             /\ seen[i][d][k][t] \in Nat
  <2>1. PICK E : E = Hands(S, i, d, t)
    OBVIOUS
  <2>2. E \subseteq S /\ IsFiniteSet(E)
    BY <1>1, <2>1, FS_Subset DEF Hands
  <2>3. PICK a, b : a = [s \in S |-> New(s, k)] /\ b = Handed(k)
    OBVIOUS
  <2>4. \A s \in E : a[s] \in Int /\ a[s] = b[s] /\ b[s] \in Nat
    BY <2>2, <2>3, NewNat DEF Handed
  <2>5. SumOver(a, E) = SumOver(b, E)
    BY <2>2, <2>4, SumSame
  <2>6. SumOver(b, E) \in Nat
    BY <2>2, <2>4, SumNat
  <2>7. seen[i][d][k][t] \in Nat
    BY DEF SeenCounts, Counts
  <2> QED
    BY <2>1, <2>3, <2>5, <2>6, <2>7
<1>3. Recorded(S) = [i \in Ips |-> [d \in Dirs |-> [k \in Kinds |-> [t \in Times |->
        seen[i][d][k][t] + SumOver([s \in S |-> New(s, k)], Hands(S, i, d, t))]]]]
  BY DEF Recorded, Hands
<1>4. \A i \in Ips, d \in Dirs, k \in Kinds, t \in Times :
        Recorded(S)[i][d][k][t] = seen[i][d][k][t] + SumOver([s \in S |-> New(s, k)], Hands(S, i, d, t))
  BY <1>3
<1>5. \A i \in Ips, d \in Dirs, k \in Kinds, t \in Times : Recorded(S)[i][d][k][t] \in Nat
  <2> SUFFICES ASSUME NEW i \in Ips, NEW d \in Dirs, NEW k \in Kinds, NEW t \in Times
               PROVE  Recorded(S)[i][d][k][t] \in Nat
    BY Zenon
  <2>1. PICK m \in Nat, e \in Nat :
          m = seen[i][d][k][t] /\ e = SumOver([s \in S |-> New(s, k)], Hands(S, i, d, t))
    BY <1>2
  <2>2. Recorded(S)[i][d][k][t] = m + e
    BY <1>4, <2>1, Zenon
  <2>3. m + e \in Nat
    OBVIOUS
  <2> QED
    BY <2>2, <2>3
<1>6. PICK v : v = Recorded(S)
  OBVIOUS
<1>7. v \in SeenCounts
  <2>1. \A i \in Ips, d \in Dirs, k \in Kinds : v[i][d][k] = [t \in Times |-> v[i][d][k][t]]
    BY <1>3, <1>6
  <2>2. \A i \in Ips, d \in Dirs, k \in Kinds : v[i][d][k] \in [Times -> Nat]
    <3> SUFFICES ASSUME NEW i \in Ips, NEW d \in Dirs, NEW k \in Kinds
                 PROVE  v[i][d][k] \in [Times -> Nat]
      BY Zenon
    <3>1. PICK h : h = v[i][d][k]
      OBVIOUS
    <3>2. h = [t \in Times |-> h[t]]
      BY <2>1, <3>1
    <3>3. \A t \in Times : h[t] \in Nat
      BY <1>5, <1>6, <3>1
    <3> QED
      BY <3>1, <3>2, <3>3
  <2>3. \A i \in Ips, d \in Dirs : v[i][d] = [k \in Kinds |-> v[i][d][k]]
    BY <1>3, <1>6
  <2>4. \A i \in Ips, d \in Dirs : v[i][d] \in [Kinds -> [Times -> Nat]]
    BY <2>2, <2>3
  <2>5. \A i \in Ips : v[i] = [d \in Dirs |-> v[i][d]]
    BY <1>3, <1>6
  <2>6. \A i \in Ips : v[i] \in Counts
    BY <2>4, <2>5 DEF Counts
  <2>7. v = [i \in Ips |-> v[i]]
    BY <1>3, <1>6
  <2> QED
    BY <2>6, <2>7 DEF SeenCounts
<1>8. \A i \in Ips, d \in Dirs, k \in Kinds, t \in Times :
        /\ Recorded(S)[i][d][k][t] = seen[i][d][k][t] + SumOver(Handed(k), Hands(S, i, d, t))
        /\ seen[i][d][k][t] \in Nat /\ SumOver(Handed(k), Hands(S, i, d, t)) \in Nat
  <2> SUFFICES ASSUME NEW i \in Ips, NEW d \in Dirs, NEW k \in Kinds, NEW t \in Times
               PROVE  /\ Recorded(S)[i][d][k][t]
                            = seen[i][d][k][t] + SumOver(Handed(k), Hands(S, i, d, t))
                      /\ seen[i][d][k][t] \in Nat /\ SumOver(Handed(k), Hands(S, i, d, t)) \in Nat
    BY Zenon
  <2>1. Recorded(S)[i][d][k][t]
          = seen[i][d][k][t] + SumOver([s \in S |-> New(s, k)], Hands(S, i, d, t))
    BY <1>4, Zenon
  <2> QED
    BY <1>2, <2>1
<1> QED
  BY <1>6, <1>7, <1>8

LEMMA RecordedNone ==
  ASSUME GoodStreams, seen \in SeenCounts
  PROVE  Recorded({}) = seen
<1>1. {} \in SUBSET DOMAIN streams
  OBVIOUS
<1>2. PICK v : v = Recorded({})
  OBVIOUS
<1>3. v \in SeenCounts
  BY <1>1, <1>2, RecordedAt
<1>4. ASSUME NEW i \in Ips, NEW d \in Dirs, NEW k \in Kinds PROVE v[i][d][k] = seen[i][d][k]
  <2>1. \A t : Hands({}, i, d, t) = {}
    BY DEF Hands
  <2>2. \A t \in Times : v[i][d][k][t] = seen[i][d][k][t]
    <3> SUFFICES ASSUME NEW t \in Times PROVE v[i][d][k][t] = seen[i][d][k][t]
      BY Zenon
    <3>1. /\ Recorded({})[i][d][k][t] = seen[i][d][k][t] + SumOver(Handed(k), Hands({}, i, d, t))
          /\ seen[i][d][k][t] \in Nat
      BY <1>1, RecordedAt
    <3>2. SumOver(Handed(k), Hands({}, i, d, t)) = 0
      BY <2>1, SumEmpty
    <3> QED
      BY <1>2, <3>1, <3>2
  <2>3. v[i][d][k] \in [Times -> Nat] /\ seen[i][d][k] \in [Times -> Nat]
    BY <1>3 DEF SeenCounts, Counts
  <2> QED
    BY <2>2, <2>3
<1> QED
  BY <1>2, <1>3, <1>4, SameCounts

LEMMA RecordedGains ==
  ASSUME GoodStreams, seen \in SeenCounts, NEW S \in SUBSET DOMAIN streams, NEW x \in S,
         NEW q, q = S \ {x}
  PROVE  Gains(Recorded(q), Recorded(S), x)
<1>1. q \in SUBSET DOMAIN streams /\ x \in DOMAIN streams
  OBVIOUS
<1>2. PICK h, v : h = Recorded(q) /\ v = Recorded(S)
  OBVIOUS
<1>3. h \in SeenCounts /\ v \in SeenCounts
  BY <1>1, <1>2, RecordedAt
<1>4. PICK z \in Times : z = streams[x].last
  BY <1>1 DEF GoodStreams, GoodStream
<1>5. ASSUME NEW i \in Ips, NEW d \in Dirs, NEW k \in Kinds
      PROVE  v[i][d][k] = IF i = EndOf(x, d) THEN More(h[i][d][k], z, New(x, k)) ELSE h[i][d][k]
  <2>1. PICK a \in [Times -> Nat], b \in [Times -> Nat] : a = h[i][d][k] /\ b = v[i][d][k]
    BY <1>3 DEF SeenCounts, Counts
  <2>2. PICK f : f = Handed(k)
    OBVIOUS
  <2>3. \A s \in DOMAIN streams : f[s] \in Int /\ f[s] = New(s, k) /\ f[s] \in Nat
    BY <2>2, NewNat DEF Handed
  <2>4. ASSUME NEW t \in Times
        PROVE  b[t] = IF i = EndOf(x, d) /\ t = z THEN a[t] + New(x, k) ELSE a[t]
    <3>1. PICK E, F : E = Hands(q, i, d, t) /\ F = Hands(S, i, d, t)
      OBVIOUS
    <3>2. PICK m \in Nat, eE \in Nat, eF \in Nat :
            /\ m = seen[i][d][k][t] /\ eE = SumOver(f, E) /\ eF = SumOver(f, F)
            /\ a[t] = m + eE /\ b[t] = m + eF
      <4>1. /\ h[i][d][k][t] = seen[i][d][k][t] + SumOver(Handed(k), Hands(q, i, d, t))
            /\ seen[i][d][k][t] \in Nat /\ SumOver(Handed(k), Hands(q, i, d, t)) \in Nat
        BY <1>1, <1>2, RecordedAt
      <4>2. /\ v[i][d][k][t] = seen[i][d][k][t] + SumOver(Handed(k), Hands(S, i, d, t))
            /\ SumOver(Handed(k), Hands(S, i, d, t)) \in Nat
        BY <1>2, RecordedAt
      <4> QED
        BY <2>1, <2>2, <3>1, <4>1, <4>2
    <3>3. E \subseteq DOMAIN streams /\ IsFiniteSet(E) /\ x \notin E
      BY <1>1, <3>1, FS_Subset DEF Hands, GoodStreams
    <3>4. CASE i = EndOf(x, d) /\ t = z
      <4>1. F = E \cup {x}
        BY <1>4, <3>1, <3>4 DEF Hands
      <4>2. SumOver(f, E \cup {x}) = f[x] + SumOver(f, E)
        BY <1>1, <2>3, <3>3, SumAdd
      <4>3. eF = New(x, k) + eE /\ New(x, k) \in Nat
        BY <1>1, <2>3, <3>2, <4>1, <4>2
      <4> QED
        BY <3>2, <3>4, <4>3
    <3>5. CASE ~(i = EndOf(x, d) /\ t = z)
      <4>1. F = E
        BY <1>4, <3>1, <3>5 DEF Hands
      <4> QED
        BY <3>2, <3>5, <4>1
    <3> QED
      BY <3>4, <3>5
  <2>5. CASE i = EndOf(x, d)
    <3>1. \A t \in Times : b[t] = More(a, z, New(x, k))[t]
      BY <2>4, <2>5 DEF More
    <3>2. More(a, z, New(x, k)) \in [Times -> Nat]
      BY <1>1, NewNat, MoreIs
    <3>3. b = More(a, z, New(x, k))
      BY <3>1, <3>2
    <3> QED
      BY <2>1, <2>5, <3>3
  <2>6. CASE i # EndOf(x, d)
    <3>1. \A t \in Times : b[t] = a[t]
      BY <2>4, <2>6
    <3>2. b = a
      BY <3>1
    <3> QED
      BY <2>1, <2>6, <3>2
  <2> QED
    BY <2>5, <2>6
<1>6. Gains(h, v, x)
  BY <1>3, <1>4, <1>5 DEF Gains
<1> QED
  BY <1>2, <1>6

(* flush_stream_ipattr over a set of streams keeps every ring in step with *)
(* what it was called with.                                                *)
LEMMA AllRings ==
  ASSUME GoodStreams, RingsOk(ips, seen), NEW S \in SUBSET DOMAIN streams
  PROVE  RingsOk(AttributeAll(ips, S), Recorded(S))
<1>0. seen \in SeenCounts
  BY DEF RingsOk
<1>1. IsFiniteSet(S) /\ \A s \in SUBSET S : IsFiniteSet(s) /\ Cardinality(s) \in Nat
  BY FS_Subset, FS_CardinalityType DEF GoodStreams
<1>2. PICK h : AttrTable(h, ips, SUBSET S) /\ AttributeAll(ips, S) = h[S]
  BY <1>1, AttrTableExists, AttributeAllIs
<1> DEFINE N == {m \in Nat : \A s \in SUBSET S : Cardinality(s) = m => RingsOk(h[s], Recorded(s))}
<1>3. 0 \in N
  <2>1. \A s \in SUBSET S : Cardinality(s) = 0 => s = {}
    BY <1>1, FS_EmptySet
  <2>2. h[{}] = ips
    BY <1>2 DEF AttrTable
  <2>3. RingsOk(h[{}], Recorded({}))
    BY <1>0, <2>2, RecordedNone
  <2> QED
    BY <2>1, <2>3
<1>4. ASSUME NEW m \in N PROVE m + 1 \in N
  <2> SUFFICES ASSUME NEW s \in SUBSET S, Cardinality(s) = m + 1 PROVE RingsOk(h[s], Recorded(s))
    OBVIOUS
  <2>1. s # {}
    BY FS_EmptySet
  <2>2. PICK x, q : x = Chosen(s) /\ q = s \ {x}
    OBVIOUS
  <2>3. x \in s
    BY <2>1, <2>2, ChosenIn
  <2>4. Cardinality(q) = m /\ q \in SUBSET S
    BY <1>1, <2>2, <2>3, OneLess
  <2>5. RingsOk(h[q], Recorded(q))
    BY <2>4
  <2>6. h[s] = Attribute(h[q], x)
    BY <1>2, <2>1, <2>2 DEF AttrTable
  <2>7. Gains(Recorded(q), Recorded(s), x)
    BY <1>0, <2>2, <2>3, RecordedGains
  <2> QED
    BY <2>3, <2>5, <2>6, <2>7, AttributeRings
<1> HIDE DEF N
<1>5. N \in SUBSET Nat
  BY DEF N
<1>6. N = Nat
  BY <1>3, <1>4, <1>5, SetInduction
<1>7. Cardinality(S) \in N
  BY <1>1, <1>6
<1> QED
  BY <1>2, <1>7 DEF N

-----------------------------------------------------------------------------
(* The rings of all addresses, through every step *)
NoCounts == [d \in Dirs |-> [k \in Kinds |-> Zero]]

LEMMA NewRings == IpRings(NewIp, NoCounts)
<1>1. NoCounts \in Counts /\ \A d \in Dirs, k \in Kinds : NoCounts[d][k] = Zero
  BY DEF NoCounts, Counts, Zero
<1>2. GoodIp(NewIp) /\ NewIp.sec1 = <<>> /\ NewIp.sec60 = <<>> /\ NewIp.total = NoTraffic
  BY DEF GoodIp, NewIp, NoTraffic
<1>3. \A t \in Times : Zero[t] = 0
  BY DEF Zero
<1>4. \A w, n, d, k : Filled(<<>>, w, n, Zero, d, k)
  BY <1>3 DEF Filled
<1>5. \A n \in Nat : Shape(<<>>, n)
  BY DEF Shape
<1>6. RingOk(<<>>, FineWidth, FineRetain, NoCounts) /\ RingOk(<<>>, CoarseWidth, CoarseRetain, NoCounts)
  BY <1>1, <1>4, <1>5, IpStatsAssumption DEF RingOk
<1>7. SumOver(Zero, Times) = 0
  BY <1>3, TimesFinite, SumZero
<1>8. \A d \in Dirs, k \in Kinds : NoTraffic[d][k] = SumOver(NoCounts[d][k], Times)
  BY <1>1, <1>7 DEF NoTraffic
<1> QED
  BY <1>1, <1>2, <1>6, <1>8 DEF IpRings

LEMMA BucketsInit == Init => RingsOk(ips, seen)
<1> SUFFICES ASSUME Init PROVE RingsOk(ips, seen)
  OBVIOUS
<1>1. DOMAIN ips = {} /\ seen = [i \in Ips |-> NoCounts]
  BY DEF Init, NoCounts
<1>2. \A i \in Ips : Entry(ips, i, NewIp) = NewIp /\ seen[i] = NoCounts
  BY <1>1 DEF Entry
<1>3. seen \in SeenCounts
  BY <1>1, NewRings DEF SeenCounts, IpRings
<1> QED
  BY <1>1, <1>2, <1>3, NewRings DEF RingsOk

LEMMA FlushBuckets ==
  ASSUME GoodStreams, RingsOk(ips, seen), NEW t, Flush(t)
  PROVE  RingsOk(ips', seen')
<1> DEFINE attr == Due(last_ipattr, t, AttrPeriod)
           due == Due(last_flush, t, FlushPeriod)
           f == IF attr THEN AttributeAll(ips, DOMAIN streams) ELSE ips
           idle == IF due THEN Idle(f, t) ELSE {}
           kept == IF attr THEN Recorded(DOMAIN streams) ELSE seen
<1>1. PICK gone \in SUBSET idle :
      /\ ips' = Without(f, gone)
      /\ seen' = [i \in Ips |-> IF i \in gone THEN NoCounts ELSE kept[i]]
  BY DEF Flush, NoCounts
<1>2. RingsOk(f, kept)
  BY AllRings
<1>3. gone \subseteq DOMAIN f
  BY DEF Idle
<1> HIDE DEF f, idle, kept, attr, due
<1>4. /\ DOMAIN ips' = DOMAIN f \ gone
      /\ \A i \in Ips : Entry(ips', i, NewIp) = IF i \in gone THEN NewIp ELSE Entry(f, i, NewIp)
  BY <1>1 DEF Without, Entry
<1>5. \A i \in Ips : seen'[i] = IF i \in gone THEN NoCounts ELSE kept[i]
  BY <1>1
<1>6. \A i \in Ips : IpRings(Entry(ips', i, NewIp), seen'[i])
  BY <1>2, <1>4, <1>5, NewRings DEF RingsOk
<1>7. seen' \in SeenCounts
  <2>1. \A i \in Ips : seen'[i] \in Counts
    BY <1>6 DEF IpRings
  <2> QED
    BY <1>1, <2>1 DEF SeenCounts
<1>8. DOMAIN ips' \subseteq Ips
  BY <1>2, <1>4 DEF RingsOk
<1> QED
  BY <1>6, <1>7, <1>8 DEF RingsOk

LEMMA BucketsStep ==
  ASSUME MediaInv, RingsOk(ips, seen), [Next]_vars
  PROVE  RingsOk(ips', seen')
<1>0. GoodStreams
  BY DEF MediaInv
<1>1. UNCHANGED <<ips, seen>> => RingsOk(ips', seen')
  OBVIOUS
<1>2. ASSUME NEW s \in Streams, NEW t \in Times, NEW dl \in {-1, 0, 1}, Packet(s, t, dl)
      PROVE  RingsOk(ips', seen')
  BY <1>1, <1>2 DEF Packet, stores
<1>3. ASSUME NEW m \in Messages, NEW c \in Dialogs, NEW i \in Ips, NEW t \in Times,
             SipRequest(m, c, i, t)
      PROVE  RingsOk(ips', seen')
  BY <1>1, <1>3 DEF SipRequest
<1>4. ASSUME NEW c \in Dialogs, NEW i \in Ips, NEW t \in Times, Invite(c, i, t)
      PROVE  RingsOk(ips', seen')
  BY <1>1, <1>4 DEF Invite
<1>5. ASSUME NEW c \in Dialogs, NEW i \in Ips, NEW t \in Times, NEW r \in Responses,
             SipResponse(c, i, t, r[1], r[2])
      PROVE  RingsOk(ips', seen')
  BY <1>1, <1>5 DEF SipResponse
<1>6. ASSUME NEW S \in SUBSET Streams, RemoveCall(S) PROVE RingsOk(ips', seen')
  BY <1>0, <1>6, AllRings DEF RemoveCall
<1>7. ASSUME NEW s \in Streams, EvictStream(s) PROVE RingsOk(ips', seen')
  BY <1>1, <1>7 DEF EvictStream, stores
<1>8. ASSUME NEW c \in Dialogs, Forget(c) PROVE RingsOk(ips', seen')
  BY <1>1, <1>8 DEF Forget, stores, history
<1>9. CASE UNCHANGED vars
  BY <1>1, <1>9 DEF vars, stores, history
<1> QED
  BY <1>0, <1>2, <1>3, <1>4, <1>5, <1>6, <1>7, <1>8, <1>9, FlushBuckets DEF Next

LEMMA ExactFrom ==
  ASSUME NEW r, NEW i, NEW w, NEW n, RingOk(r, w, n, seen[i])
  PROVE  Exact(r, i, w, n)
<1>1. PICK z \in Nat : z = Len(r) /\ z <= n
  BY DEF RingOk, Shape
<1>2. \A j \in 1 .. z : r[j].key = r[z].key - z + j
  BY <1>1 DEF RingOk, Shape
<1>3. ASSUME NEW j \in 2 .. z PROVE r[j].key = r[j - 1].key + 1
  <2>1. j \in 1 .. z /\ j - 1 \in 1 .. z /\ z \in 1 .. z
    BY <1>3
  <2>2. r[z].key \in Int
    <3>1. r \in Seq(Buckets) /\ r[z] \in Buckets
      BY <1>1, <2>1 DEF RingOk, Shape
    <3> QED
      BY <3>1 DEF Buckets
  <2>3. r[j].key = r[z].key - z + j /\ r[j - 1].key = r[z].key - z + (j - 1)
    BY <1>2, <2>1
  <2> QED
    BY <2>1, <2>2, <2>3
<1>4. \A j \in 2 .. z, d \in Dirs, k \in Kinds :
        r[j].b[d][k] = SumOver(seen[i][d][k], Keyed(r[j].key, w))
  BY <1>1 DEF RingOk, Filled
<1> QED
  BY <1>1, <1>3, <1>4 DEF Exact

LEMMA BucketsMean == RingsOk(ips, seen) => BucketsExact
<1> SUFFICES ASSUME RingsOk(ips, seen), NEW i \in DOMAIN ips
             PROVE  /\ Exact(ips[i].sec1, i, FineWidth, FineRetain)
                    /\ Exact(ips[i].sec60, i, CoarseWidth, CoarseRetain)
                    /\ \A d \in Dirs, k \in Kinds : ips[i].total[d][k] = SumOver(seen[i][d][k], Times)
  BY DEF BucketsExact
<1>1. IpRings(ips[i], seen[i])
  BY DEF RingsOk, Entry
<1> QED
  BY <1>1, ExactFrom DEF IpRings


-----------------------------------------------------------------------------
(* heatmap_columns groups the buckets of a ring by their keys.  The groups *)
(* are disjoint and leave none out, so their sums add up to the ring's.    *)
KeysOf(D, p) == {p[x] : x \in D}

Group(D, p, c) == {x \in D : p[x] = c}

Grouped(h, f, D, p) ==
  /\ IsFiniteSet(D) /\ \A x \in D : f[x] \in Int
  /\ \A c \in KeysOf(D, p) : h[c] = SumOver(f, Group(D, p, c))

(* Sums by group are the sum of all. *)
LEMMA GroupSums ==
  ASSUME NEW D, NEW f, NEW p, NEW h, Grouped(h, f, D, p)
  PROVE  SumOver(h, KeysOf(D, p)) = SumOver(f, D)
<1>0. PICK C : C = KeysOf(D, p)
  OBVIOUS
<1>9. /\ IsFiniteSet(D) /\ \A x \in D : f[x] \in Int
      /\ \A c \in C : h[c] = SumOver(f, Group(D, p, c))
  BY <1>0 DEF Grouped
<1> DEFINE In(A) == {x \in D : p[x] \in A}
           Q == {A \in SUBSET C : SumOver(h, A) = SumOver(f, In(A))}
<1>1. IsFiniteSet(C)
  <2>1. [x \in D |-> p[x]] \in Surjection(D, C)
    BY <1>0 DEF Surjection, KeysOf
  <2> QED
    BY <1>9, <2>1, FS_Surjection
<1>2. \A E \in SUBSET D : IsFiniteSet(E) /\ SumOver(f, E) \in Int
  BY <1>9, FS_Subset, SumInt
<1>3. \A c \in C : h[c] \in Int
  <2>1. \A c \in C : Group(D, p, c) \in SUBSET D
    BY DEF Group
  <2> QED
    BY <1>2, <1>9, <2>1
<1>4. {} \in Q
  <2>1. In({}) = {}
    OBVIOUS
  <2> QED
    BY <2>1, SumEmpty
<1>5. ASSUME NEW A \in Q, NEW c \in C \ A PROVE A \cup {c} \in Q
  <2> DEFINE E == In(A \cup {c})
             G == Group(D, p, c)
  <2>1. E \in SUBSET D /\ G \in SUBSET E /\ E \ G = In(A) /\ In(A) \in SUBSET D
    BY DEF Group
  <2>2. SumOver(f, E) = SumOver(f, G) + SumOver(f, E \ G)
    BY <1>2, <1>9, <2>1, SumSplit
  <2>3. h[c] = SumOver(f, G)
    BY <1>9
  <2>4. A \in SUBSET C /\ SumOver(h, A) = SumOver(f, In(A)) /\ c \notin A
    OBVIOUS
  <2>5. IsFiniteSet(A) /\ \A x \in A : h[x] \in Int
    BY <1>1, <1>3, <2>4, FS_Subset
  <2>6. SumOver(h, A \cup {c}) = h[c] + SumOver(h, A)
    BY <1>3, <2>4, <2>5, SumAdd
  <2>7. SumOver(h, A \cup {c}) = SumOver(f, E)
    BY <2>1, <2>2, <2>3, <2>4, <2>6
  <2> HIDE DEF In
  <2> QED
    BY <2>4, <2>7
<1>6. C \in Q
  <2> HIDE DEF Q
  <2>1. Q \in SUBSET (SUBSET C)
    BY DEF Q
  <2> QED
    BY <1>1, <1>4, <1>5, <2>1, SubsetInduction
<1>7. In(C) = D
  BY <1>0 DEF KeysOf
<1> QED
  BY <1>0, <1>6, <1>7

(* A ring's buckets are finitely many, with integers. *)
LEMMA RingInts ==
  ASSUME NEW r, NEW n, Shape(r, n)
  PROVE  /\ IsFiniteSet(DOMAIN r) /\ DOMAIN r = 1 .. Len(r) /\ Len(r) \in Nat /\ Len(r) <= n
         /\ \A x \in DOMAIN r, d \in Dirs, k \in Kinds : r[x].b[d][k] \in Int
         /\ \A x \in DOMAIN r : r[x].key \in Int
<1>1. r \in Seq(Buckets) /\ Len(r) <= n
  BY DEF Shape
<1>2. DOMAIN r = 1 .. Len(r) /\ Len(r) \in Nat
  BY <1>1
<1>3. IsFiniteSet(DOMAIN r)
  BY <1>2, FS_Interval
<1>4. \A x \in DOMAIN r : r[x] \in Buckets
  BY <1>1
<1>5. \A x \in DOMAIN r, d \in Dirs, k \in Kinds : r[x].b[d][k] \in Int
  BY <1>4 DEF Buckets
<1>6. \A x \in DOMAIN r : r[x].key \in Int
  BY <1>4 DEF Buckets
<1> QED
  BY <1>1, <1>2, <1>3, <1>5, <1>6

Columns(r, g) ==
  [c \in {r[i].key \div g : i \in DOMAIN r} |-> [x \in Kinds |->
     SumOver([i \in DOMAIN r |-> r[i].b["tx"][x] + r[i].b["rx"][x]],
             {i \in DOMAIN r : r[i].key \div g = c})]]

Complete(shown, r, k) ==
  SumOver([c \in DOMAIN shown |-> shown[c][k]], DOMAIN shown)
    = SumRing(r, Len(r), "tx", k) + SumRing(r, Len(r), "rx", k)

LEMMA ColumnSums ==
  ASSUME NEW r, NEW n, Shape(r, n), NEW g, NEW k \in Kinds,
         NEW shown,
         shown = Columns(r, g)
  PROVE  Complete(shown, r, k)
<1> DEFINE D == DOMAIN r
           p == [i \in D |-> r[i].key \div g]
           C == {p[i] : i \in D}
           tx == [i \in D |-> r[i].b["tx"][k]]
           rx == [i \in D |-> r[i].b["rx"][k]]
           f == [i \in D |-> r[i].b["tx"][k] + r[i].b["rx"][k]]
           h == [c \in DOMAIN shown |-> shown[c][k]]
<1>1. /\ IsFiniteSet(D) /\ D = 1 .. Len(r) /\ Len(r) \in Nat
      /\ \A x \in D : r[x].b["tx"][k] \in Int /\ r[x].b["rx"][k] \in Int
  BY RingInts DEF Dirs
<1>2. \A x \in D : f[x] \in Int /\ tx[x] \in Int /\ rx[x] \in Int /\ f[x] = tx[x] + rx[x]
  BY <1>1
<1>3. DOMAIN shown = C
  BY DEF Columns
<1>4. ASSUME NEW c \in C PROVE h[c] = SumOver(f, Group(D, p, c))
  <2>1. Group(D, p, c) = {i \in DOMAIN r : r[i].key \div g = c}
    BY DEF Group
  <2>2. h[c] = SumOver(f, {i \in DOMAIN r : r[i].key \div g = c})
    BY <1>3, <1>4 DEF Columns
  <2> QED
    BY <2>1, <2>2
<1>5. {i \in DOMAIN r : i > Len(r) - Len(r)} = D
  BY <1>1
<1>6. SumRing(r, Len(r), "tx", k) = SumOver(tx, D) /\ SumRing(r, Len(r), "rx", k) = SumOver(rx, D)
  BY <1>5 DEF SumRing
<1>7. C = KeysOf(D, p) /\ IsFiniteSet(D)
  BY <1>1 DEF KeysOf
<1> HIDE DEF C, D, p, f, h, tx, rx
<1>8. SumOver(h, C) = SumOver(f, D)
  <2>1. \A x \in D : f[x] \in Int
    BY <1>2
  <2>2. \A c \in C : h[c] = SumOver(f, Group(D, p, c))
    BY <1>4
  <2> QED
    <3>1. Grouped(h, f, D, p)
      BY <1>7, <2>1, <2>2 DEF Grouped
    <3> QED
      BY <1>7, <3>1, GroupSums
<1>9. SumOver(f, D) = SumOver(tx, D) + SumOver(rx, D)
  BY <1>1, <1>2, SumPlus
<1> QED
  BY <1>3, <1>6, <1>8, <1>9 DEF h, Complete

LEMMA ColumnsMean == RingsOk(ips, seen) => ColumnsComplete
<1> SUFFICES ASSUME RingsOk(ips, seen), NEW i \in DOMAIN ips,
                    NEW secs \in {1, MaxTime, 10 * FineRetain + 1}, NEW cols \in 1 .. 2, NEW k \in Kinds
             PROVE  Complete(HeatmapColumns(ips[i], secs, cols), HeatmapRing(ips[i], secs), k)
  BY DEF ColumnsComplete, Complete
<1>1. IpRings(ips[i], seen[i])
  BY DEF RingsOk, Entry
<1>2. PICK r, n : r = HeatmapRing(ips[i], secs) /\ Shape(r, n)
  BY <1>1 DEF IpRings, RingOk, HeatmapRing
<1> DEFINE w == IF secs <= FineRetain * 10 THEN FineWidth ELSE CoarseWidth
<1>3. PICK g : g = IF (secs \div w) \div cols > 1 THEN (secs \div w) \div cols ELSE 1
  OBVIOUS
<1>4. PICK shown : shown = HeatmapColumns(ips[i], secs, cols)
  OBVIOUS
<1>5. shown = Columns(r, g)
  BY <1>2, <1>3, <1>4, Zenon DEF HeatmapColumns, Columns
<1> QED
  BY <1>2, <1>4, <1>5, ColumnSums


-----------------------------------------------------------------------------
(* `window` adds the newest buckets of a ring.  As long as the oldest is   *)
(* not among them the sum is exact; with it, the sum is no less, for the   *)
(* oldest bucket holds what is older unless the ring is full.              *)
After(key, w) == {t \in Times : t \div w > key}

BucketMore(r, z, c, d, k) ==
  SumRing(r, c + 1, d, k) = r[z - c].b[d][k] + SumRing(r, c, d, k)

Parts(f, E, A) == SumOver(f, E) = SumOver(f, A) + SumOver(f, E \ A)

(* Two sums of a ring: none of its buckets, and one bucket more. *)
LEMMA RingMore ==
  ASSUME NEW r, NEW n, Shape(r, n), NEW d \in Dirs, NEW k \in Kinds, NEW z, z = Len(r)
  PROVE  /\ SumRing(r, 0, d, k) = 0
         /\ \A c \in 0 .. (z - 1) : BucketMore(r, z, c, d, k)
         /\ \A c \in Nat : c >= z => SumRing(r, c, d, k) = SumRing(r, z, d, k)
         /\ \A c \in Nat : SumRing(r, c, d, k) \in Int
<1> DEFINE g == [i \in DOMAIN r |-> r[i].b[d][k]]
           Last(c) == {i \in DOMAIN r : i > z - c}
<1>1. IsFiniteSet(DOMAIN r) /\ DOMAIN r = 1 .. z /\ z \in Nat
  BY RingInts
<1>2. \A x \in DOMAIN r : g[x] \in Int
  BY RingInts
<1>3. \A c : SumRing(r, c, d, k) = SumOver(g, Last(c))
  BY DEF SumRing
<1>4. \A c : IsFiniteSet(Last(c)) /\ Last(c) \subseteq DOMAIN r
  BY <1>1, FS_Subset
<1>5. Last(0) = {}
  BY <1>1
<1>6. ASSUME NEW c \in 0 .. (z - 1)
      PROVE  BucketMore(r, z, c, d, k)
  <2>1. z - c \in DOMAIN r /\ z - c \notin Last(c) /\ Last(c + 1) = Last(c) \cup {z - c}
    BY <1>1
  <2>2. PICK a \in DOMAIN r : a = z - c
    BY <2>1
  <2>3. g[a] = r[a].b[d][k] /\ g[a] \in Int
    BY <1>2, <2>2
  <2>4. IsFiniteSet(Last(c)) /\ \A x \in Last(c) : g[x] \in Int
    BY <1>2, <1>4
  <2>5. a \notin Last(c) /\ Last(c + 1) = Last(c) \cup {a}
    BY <2>1, <2>2
  <2>6. SumRing(r, c + 1, d, k) = SumOver(g, Last(c + 1)) /\ SumRing(r, c, d, k) = SumOver(g, Last(c))
    BY <1>3
  <2> HIDE DEF g, Last
  <2>7. SumOver(g, Last(c) \cup {a}) = g[a] + SumOver(g, Last(c))
    BY <2>3, <2>4, <2>5, SumAdd
  <2> QED
    BY <2>2, <2>3, <2>5, <2>6, <2>7 DEF BucketMore
<1>7. ASSUME NEW c \in Nat, c >= z PROVE SumRing(r, c, d, k) = SumRing(r, z, d, k)
  <2>1. Last(c) = Last(z)
    BY <1>1, <1>7
  <2> QED
    BY <1>3, <2>1
<1>8. ASSUME NEW c \in Nat PROVE SumRing(r, c, d, k) \in Int
  <2>1. IsFiniteSet(Last(c)) /\ \A x \in Last(c) : g[x] \in Int
    BY <1>2, <1>4
  <2> HIDE DEF g, Last
  <2> QED
    BY <1>3, <2>1, SumInt
<1> QED
  BY <1>3, <1>5, <1>6, <1>7, <1>8, SumEmpty

LEMMA AfterSums ==
  ASSUME NEW f \in [Times -> Nat], NEW w \in Nat \ {0}
  PROVE  /\ \A E \in SUBSET Times : IsFiniteSet(E) /\ SumOver(f, E) \in Nat
         /\ \A E \in SUBSET Times : \A A \in SUBSET E : Parts(f, E, A)
         /\ \A key : After(key, w) \in SUBSET Times
         /\ \A key \in Int : After(key - 1, w) \ After(key, w) = Keyed(key, w)
<1>1. \A E \in SUBSET Times : IsFiniteSet(E)
  BY TimesFinite, FS_Subset
<1>2. \A x \in Times : f[x] \in Nat /\ f[x] \in Int
  OBVIOUS
<1>3. \A E \in SUBSET Times : SumOver(f, E) \in Nat
  BY <1>1, <1>2, SumNat
<1>4. ASSUME NEW E \in SUBSET Times, NEW A \in SUBSET E
      PROVE  Parts(f, E, A)
  BY <1>1, <1>2, SumSplit DEF Parts
<1>5. \A t \in Times : t \div w \in Int
  BY TimesFinite, DivBounds
<1>6. \A key \in Int : After(key - 1, w) \ After(key, w) = Keyed(key, w)
  BY <1>5 DEF After, Keyed
<1> QED
  BY <1>1, <1>3, <1>4, <1>6 DEF After

(* sum_ring over fewer buckets than the ring has is exact. *)
LEMMA NewestExact ==
  ASSUME NEW n, NEW w \in Nat \ {0}, NEW r, Shape(r, n), r # <<>>,
         NEW f \in [Times -> Nat], NEW d \in Dirs, NEW k \in Kinds, Filled(r, w, n, f, d, k),
         NEW z, z = Len(r), NEW l, l = r[z].key, NEW c \in Nat, c <= z - 1
  PROVE  SumRing(r, c, d, k) = SumOver(f, After(l - c, w))
<1>1. z \in Nat /\ z >= 1 /\ l \in Int /\ z \in 1 .. z
  BY RingInts
<1> DEFINE N == {x \in Nat : x <= z - 1 => SumRing(r, x, d, k) = SumOver(f, After(l - x, w))}
<1>2. 0 \in N
  <2>1. \A t \in Times : f[t] = 0 \/ t \div w <= l
    BY DEF Filled
  <2>2. \A t \in After(l, w) : f[t] = 0
    BY <1>1, <2>1, TimesFinite, DivBounds DEF After
  <2>3. SumOver(f, After(l, w)) = 0
    BY <2>2, AfterSums, SumZero
  <2>4. l - 0 = l
    BY <1>1
  <2> QED
    BY <2>3, <2>4, RingMore
<1>3. ASSUME NEW x \in N PROVE x + 1 \in N
  <2> SUFFICES ASSUME x + 1 <= z - 1
               PROVE  SumRing(r, x + 1, d, k) = SumOver(f, After(l - (x + 1), w))
    OBVIOUS
  <2>1. x \in 0 .. (z - 1) /\ SumRing(r, x, d, k) = SumOver(f, After(l - x, w))
    BY <1>1
  <2>2. PICK j \in 2 .. z : j = z - x
    BY <1>1, <2>1
  <2>3. SumRing(r, x + 1, d, k) = r[j].b[d][k] + SumRing(r, x, d, k)
    <3>1. BucketMore(r, z, x, d, k)
      BY <2>1, RingMore
    <3> QED
      BY <2>2, <3>1 DEF BucketMore
  <2>4. PICK key \in Int : key = l - x
    BY <1>1
  <2>5. r[j].key = key
    <3>1. j \in 1 .. z
      BY <2>2
    <3>2. r[j].key = l - z + j
      BY <3>1 DEF Shape
    <3> HIDE DEF N
    <3>3. x \in Int /\ z \in Int /\ l \in Int /\ j \in Int
      BY <1>1, <2>1, <2>2
    <3>4. PICK a \in Int, b \in Int, e \in Int : a = l /\ b = z /\ e = x
      BY <3>3
    <3>5. l - z + j = a - b + (b - e) /\ key = a - e
      BY <2>2, <2>4, <3>4
    <3>6. l - z + j = key
      BY <3>5
    <3> QED
      BY <3>2, <3>6
  <2>6. r[j].b[d][k] = SumOver(f, Keyed(key, w))
    BY <2>2, <2>5 DEF Filled
  <2>7. /\ After(key - 1, w) \in SUBSET Times /\ After(key, w) \in SUBSET After(key - 1, w)
        /\ After(key - 1, w) \ After(key, w) = Keyed(key, w)
    <3>1. \A t \in Times : t \div w \in Int
      BY TimesFinite, DivBounds
    <3>2. After(key, w) \in SUBSET After(key - 1, w)
      BY <3>1 DEF After
    <3> QED
      BY <3>2, AfterSums
  <2>8. SumOver(f, After(key - 1, w)) = SumOver(f, After(key, w)) + SumOver(f, Keyed(key, w))
    <3>1. SumOver(f, After(key - 1, w))
            = SumOver(f, After(key, w)) + SumOver(f, After(key - 1, w) \ After(key, w))
      <4>1. Parts(f, After(key - 1, w), After(key, w))
        BY <2>7, AfterSums
      <4> QED
        BY <4>1 DEF Parts
    <3> QED
      BY <2>7, <3>1
  <2>9. l - (x + 1) = key - 1
    BY <1>1, <2>1, <2>4
  <2>10. SumOver(f, Keyed(key, w)) \in Int /\ SumOver(f, After(key, w)) \in Int
    <3>1. Keyed(key, w) \in SUBSET Times /\ After(key, w) \in SUBSET Times
      BY DEF Keyed, After
    <3> QED
      BY <3>1, AfterSums
  <2> QED
    BY <2>1, <2>3, <2>4, <2>6, <2>8, <2>9, <2>10
<1>4. N = Nat
  <2> HIDE DEF N
  <2>1. N \in SUBSET Nat
    BY DEF N
  <2> QED
    BY <1>2, <1>3, <2>1, SetInduction
<1> QED
  BY <1>4

(* Over all of them, it is no less than what is due. *)
LEMMA NewestCovers ==
  ASSUME NEW n \in Nat, NEW w \in Nat \ {0}, NEW r, Shape(r, n), r # <<>>,
         NEW f \in [Times -> Nat], NEW d \in Dirs, NEW k \in Kinds, Filled(r, w, n, f, d, k),
         NEW z, z = Len(r), NEW l, l = r[z].key, NEW c \in Nat, c >= z, c <= n
  PROVE  SumRing(r, c, d, k) >= SumOver(f, After(l - c, w))
<1>1. z \in Nat /\ z >= 1 /\ l \in Int /\ 1 \in 1 .. z /\ z <= n
  BY RingInts
<1>2. PICK y \in Nat : y = z - 1
  BY <1>1
<1>3. PICK key \in Int : key = l - y
  BY <1>1
<1>4. r[1].key = key
  <2>1. r[1].key = l - z + 1
    BY <1>1 DEF Shape
  <2> QED
    BY <1>1, <1>2, <1>3, <2>1
<1>5. SumRing(r, c, d, k) = r[1].b[d][k] + SumRing(r, y, d, k)
  <2>1. y \in 0 .. (z - 1) /\ y + 1 = z /\ z - y = 1
    BY <1>1, <1>2
  <2>2. SumRing(r, y + 1, d, k) = r[z - y].b[d][k] + SumRing(r, y, d, k)
    <3>1. BucketMore(r, z, y, d, k)
      BY <2>1, RingMore
    <3> QED
      BY <3>1 DEF BucketMore
  <2>3. SumRing(r, c, d, k) = SumRing(r, z, d, k)
    BY RingMore
  <2> QED
    BY <2>1, <2>2, <2>3
<1>6. SumRing(r, y, d, k) = SumOver(f, After(key, w))
  <2>1. y <= z - 1
    BY <1>1, <1>2
  <2> QED
    BY <1>3, <2>1, NewestExact
<1>7. PICK low \in Int : low = l - c
  BY <1>1
<1> DEFINE E == After(low, w)
           A == After(key, w)
<1>8. \A t \in Times : t \div w \in Int
  BY TimesFinite, DivBounds
<1>9. E \in SUBSET Times /\ A \in SUBSET E /\ E \ A \in SUBSET Times
  BY <1>1, <1>2, <1>3, <1>7, <1>8 DEF After
<1>10. SumOver(f, E) = SumOver(f, A) + SumOver(f, E \ A)
  BY <1>9, AfterSums DEF Parts
<1>11. SumOver(f, A) \in Nat /\ SumOver(f, E \ A) \in Nat
  BY <1>9, AfterSums
<1>12. r[1].b[d][k] \in Int
  BY <1>1, RingInts
<1>13. r[1].b[d][k] >= SumOver(f, E \ A)
  <2>1. CASE z < n
    <3>1. r[1].b[d][k] >= SumOver(f, Upto(key, w))
      BY <1>4, <2>1 DEF Filled
    <3>2. Upto(key, w) \in SUBSET Times /\ E \ A \in SUBSET Upto(key, w)
      BY <1>8 DEF After, Upto
    <3>3. SumOver(f, Upto(key, w)) = SumOver(f, E \ A) + SumOver(f, Upto(key, w) \ (E \ A))
      <4> HIDE DEF E, A
      <4>1. PICK U \in SUBSET Times, G \in SUBSET Times : U = Upto(key, w) /\ G = E \ A
        BY <1>9, <3>2
      <4>2. Parts(f, U, G)
        BY <3>2, <4>1, AfterSums
      <4> QED
        BY <4>1, <4>2 DEF Parts
    <3>4. Upto(key, w) \ (E \ A) \in SUBSET Times
      BY <3>2
    <3>5. SumOver(f, Upto(key, w) \ (E \ A)) \in Nat
      BY <3>4, AfterSums
    <3> HIDE DEF E, A
    <3> QED
      BY <1>11, <1>12, <3>1, <3>3, <3>5
  <2>2. CASE ~(z < n)
    <3>1. low = key - 1
      BY <1>1, <1>2, <1>3, <1>7, <2>2
    <3>2. E \ A = Keyed(key, w)
      BY <3>1, AfterSums
    <3>3. r[1].b[d][k] >= SumOver(f, Keyed(key, w))
      BY <1>4 DEF Filled
    <3> QED
      BY <3>2, <3>3
  <2> QED
    BY <2>1, <2>2
<1> HIDE DEF E, A
<1>14. r[1].b[d][k] + SumOver(f, A) >= SumOver(f, E)
  BY <1>10, <1>11, <1>12, <1>13
<1> QED
  BY <1>5, <1>6, <1>7, <1>14 DEF E, A

(* What WindowsShown asks of one ring: v is shown for the newest c buckets *)
Windowed(v, r, w, f, c) ==
  r # <<>> => /\ v >= SumOver(f, After(r[Len(r)].key - c, w))
              /\ Len(r) > c => v = SumOver(f, After(r[Len(r)].key - c, w))

LEMMA RingWindowed ==
  ASSUME NEW n \in Nat, NEW w \in Nat \ {0}, NEW g \in Counts, NEW r, RingOk(r, w, n, g),
         NEW d \in Dirs, NEW k \in Kinds, NEW c \in Nat, c <= n
  PROVE  Windowed(SumRing(r, c, d, k), r, w, g[d][k], c)
<1> SUFFICES ASSUME r # <<>> PROVE Windowed(SumRing(r, c, d, k), r, w, g[d][k], c)
  BY DEF Windowed
<1>1. PICK f \in [Times -> Nat] : f = g[d][k]
  BY DEF Counts
<1>2. Shape(r, n) /\ Filled(r, w, n, f, d, k)
  BY <1>1 DEF RingOk
<1>3. PICK z \in Nat : z = Len(r)
  BY <1>2, RingInts
<1>4. PICK l : l = r[z].key
  OBVIOUS
<1>5. SumOver(f, After(l - c, w)) \in Nat
  BY AfterSums
<1>6. CASE c <= z - 1
  <2>1. SumRing(r, c, d, k) = SumOver(f, After(l - c, w))
    BY <1>2, <1>3, <1>4, <1>6, NewestExact
  <2> QED
    BY <1>1, <1>3, <1>4, <1>5, <2>1 DEF Windowed
<1>7. CASE ~(c <= z - 1)
  <2>1. c >= z
    BY <1>7
  <2>2. SumRing(r, c, d, k) >= SumOver(f, After(l - c, w))
    BY <1>2, <1>3, <1>4, <2>1, NewestCovers
  <2>3. ~(Len(r) > c)
    BY <1>3, <2>1
  <2> QED
    BY <1>1, <1>3, <1>4, <2>2, <2>3 DEF Windowed
<1> QED
  BY <1>6, <1>7

(* The buckets a span of seconds takes *)
LEMMA Rounded ==
  ASSUME NEW s \in Nat, NEW w \in Nat \ {0}, NEW m \in Nat, s <= m * w
  PROVE  (s + w - 1) \div w \in Nat /\ (s + w - 1) \div w <= m
<1>1. PICK x \in Nat : x = s + w - 1
  OBVIOUS
<1>2. PICK c \in Nat : c = x \div w /\ c * w <= x
  BY DivBounds
<1>3. c * w < m * w + w
  BY <1>1, <1>2
<1>4. c >= m + 1 => c * w >= (m + 1) * w
  OBVIOUS
<1>5. (m + 1) * w = m * w + w
  OBVIOUS
<1>6. c <= m
  BY <1>3, <1>4, <1>5
<1> QED
  BY <1>1, <1>2, <1>6

LEMMA WindowsMean ==
  ASSUME FineWidth = 1, RingsOk(ips, seen)
  PROVE  WindowsShown
<1> DEFINE Fine(s) == s <= FineRetain * FineWidth
           W(s) == IF Fine(s) THEN FineWidth ELSE CoarseWidth
           R(i, s) == IF Fine(s) THEN ips[i].sec1 ELSE ips[i].sec60
           C(s) == (s + W(s) - 1) \div W(s)
<1> SUFFICES ASSUME NEW i \in DOMAIN ips, NEW s \in 1 .. CoarseRetain * CoarseWidth,
                    NEW d \in Dirs, NEW k \in Kinds
             PROVE  Windowed(Window(ips[i], s, d, k), R(i, s), W(s), seen[i][d][k], C(s))
  BY DEF WindowsShown, Windowed, After
<1>1. IpRings(ips[i], seen[i])
  BY DEF RingsOk, Entry
<1>2. /\ seen[i] \in Counts /\ RingOk(ips[i].sec1, FineWidth, FineRetain, seen[i])
      /\ RingOk(ips[i].sec60, CoarseWidth, CoarseRetain, seen[i])
  BY <1>1 DEF IpRings
<1>3. /\ FineRetain \in Nat /\ CoarseRetain \in Nat /\ CoarseWidth \in Nat \ {0} /\ FineWidth \in Nat \ {0}
      /\ s \in Nat /\ s >= 1 /\ s <= CoarseRetain * CoarseWidth /\ s # 0
  BY IpStatsAssumption
<1>4. CASE Fine(s)
  <2>1. s <= FineRetain /\ s \div FineWidth = s /\ (s + FineWidth - 1) \div FineWidth = s
    BY <1>3, <1>4
  <2>2. Window(ips[i], s, d, k) = SumRing(ips[i].sec1, s, d, k)
    BY <1>3, <1>4, <2>1 DEF Window
  <2>3. R(i, s) = ips[i].sec1 /\ W(s) = FineWidth /\ C(s) = s
    BY <1>4, <2>1
  <2>4. Windowed(SumRing(ips[i].sec1, s, d, k), ips[i].sec1, FineWidth, seen[i][d][k], s)
    BY <1>2, <1>3, <2>1, RingWindowed
  <2> QED
    BY <2>2, <2>3, <2>4
<1>5. CASE ~Fine(s)
  <2>1. PICK c : c = (s + CoarseWidth - 1) \div CoarseWidth
    OBVIOUS
  <2>2. c \in Nat /\ c <= CoarseRetain
    BY <1>3, <2>1, Rounded
  <2>3. Window(ips[i], s, d, k) = SumRing(ips[i].sec60, c, d, k)
    BY <1>3, <1>5, <2>1 DEF Window
  <2>4. R(i, s) = ips[i].sec60 /\ W(s) = CoarseWidth /\ C(s) = c
    BY <1>5, <2>1
  <2>5. Windowed(SumRing(ips[i].sec60, c, d, k), ips[i].sec60, CoarseWidth, seen[i][d][k], c)
    BY <1>2, <1>3, <2>2, RingWindowed
  <2> QED
    BY <2>3, <2>4, <2>5
<1> QED
  BY <1>4, <1>5

-----------------------------------------------------------------------------
LEMMA RingsMean ==
  ASSUME FineWidth = 1, RingsOk(ips, seen), SeriesInv, HeatInv
  PROVE  RingsExact
BY BucketsMean, WindowsMean, ColumnsMean, SeriesMeans DEF RingsExact, HeatInv, HeatExact

(* What the tables, the charts and the heatmap still show of a second, a   *)
(* minute or a bucket is what happened in it: every bucket of an address   *)
(* but the oldest, every window and column read from them, every entry of  *)
(* a series and every bucket of the heatmap (HeatExact: up to its pruning, *)
(* the end of a 487 at an older stamp), however late or far apart the      *)
(* timestamps were.  The buckets of the fine ring are of one second, as    *)
(* `window` reads them.                                                    *)
THEOREM RingsAlwaysExact ==
  ASSUME FineWidth = 1
  PROVE  Spec => []RingsExact
<1> DEFINE IInv == MediaInv /\ SipInv /\ HeatInv /\ SeriesInv /\ RingsOk(ips, seen)
<1>1. Init => IInv
  BY MediaInit, SipInit, HeatInit, SeriesInit, BucketsInit
<1>2. IInv /\ [Next]_vars => IInv'
  <2> SUFFICES ASSUME IInv, [Next]_vars PROVE IInv'
    OBVIOUS
  <2>1. RingsOk(ips, seen)'
    BY BucketsStep
  <2> QED
    BY <2>1, MediaStep, SipStep, HeatStep, SeriesStep DEF SipInv
<1>3. IInv => RingsExact
  BY RingsMean
<1>4. Spec => []IInv
  <2> HIDE DEF IInv
  <2> QED
    BY <1>1, <1>2, PTL DEF Spec
<1> QED
  <2> HIDE DEF IInv
  <2> QED
    BY <1>3, <1>4, PTL
=============================================================================

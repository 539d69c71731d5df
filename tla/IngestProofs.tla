---------------------------- MODULE IngestProofs ----------------------------
(***************************************************************************)
(* What is shown of a call belongs to it, for any messages, streams, cuts  *)
(* of a TCP connection, capacities and configuration.                      *)
(*                                                                         *)
(* Recalled relates the correlator to its history, Timed the clocks of its *)
(* streams to the descriptions; every way a frame changes the correlator   *)
(* keeps both.  Framing says what the buffer of the connection is, and     *)
(* which messages are still due from it.                                   *)
(***************************************************************************)
EXTENDS Ingest, SumProofs, SequenceTheorems

-----------------------------------------------------------------------------
(* Folds over a sequence.  One operator stands for the steps of all the    *)
(* folds of Ingest, h is the table of the fold over the sets of K.         *)
Stepped(w, r, x) ==
  IF w = "call" THEN AddDiag(r, x, TRUE) ELSE IF w = "turn" THEN AddDiag(r, x, FALSE) ELSE Heard(r, x)
FoldTable(h, w, base, seq, K) ==
  h = [s \in K |-> IF s = {} THEN base ELSE Stepped(w, h[s \ {Max(s)}], seq[Max(s)])]
Trail(g, h, w, base, seq, n) ==
  /\ g[0] = base /\ h[1 .. n] = g[n]
  /\ \A i \in 1 .. n : g[i] = Stepped(w, g[i - 1], seq[i])
DiagTable(h, st, ds, ofCall) ==
  h = [s \in SUBSET DOMAIN ds |->
         IF s = {} THEN st ELSE AddDiag(h[s \ {Max(s)}], ds[Max(s)], ofCall)]
DiagTrail(g, st, ds, ofCall, n) ==
  /\ g[0] = st /\ AddDiags(st, ds, ofCall) = g[n]
  /\ \A i \in 1 .. n : g[i] = AddDiag(g[i - 1], ds[i], ofCall)
HeardTable(h, p, out) ==
  h = [s \in SUBSET DOMAIN out |-> IF s = {} THEN p ELSE Heard(h[s \ {Max(s)}], out[Max(s)])]

HeardTrail(g, p, out, n) ==
  /\ g[0] = p /\ FoldLeft(Heard, p, out) = g[n]
  /\ \A i \in 1 .. n : g[i] = Heard(g[i - 1], out[i])

LEMMA MaxIn == ASSUME NEW n \in Nat, NEW s \in SUBSET (1 .. n), s # {} PROVE Max(s) \in s
<1> DEFINE T == {n - x : x \in s}
<1>0. \A x \in s : x \in 1 .. n
  OBVIOUS
<1>1. T \in SUBSET Nat /\ T # {}
  <2>1. \A x \in s : n - x \in Nat
    BY <1>0
  <2> QED
    BY <2>1
<1>2. PICK y \in T : \A z \in T : y <= z
  BY <1>1, LeastNat
<1>3. PICK x \in s : y = n - x
  OBVIOUS
<1>4. ASSUME NEW z \in s PROVE x >= z
  <2>1. n - x <= n - z /\ x \in 1 .. n /\ z \in 1 .. n
    BY <1>0, <1>2, <1>3
  <2> QED
    BY <2>1
<1> QED
  BY <1>4 DEF Max

LEMMA MaxOfRange == ASSUME NEW n \in Nat, n > 0 PROVE Max(1 .. n) = n
<1>1. Max(1 .. n) \in 1 .. n
  <2>1. 1 \in 1 .. n
    OBVIOUS
  <2>2. 1 .. n # {} /\ 1 .. n \in SUBSET (1 .. n)
    BY <2>1
  <2> QED
    BY <2>2, MaxIn, Zenon
<1>2. \E x \in 1 .. n : \A y \in 1 .. n : x >= y
  OBVIOUS
<1>3. \A y \in 1 .. n : Max(1 .. n) >= y
  BY <1>2 DEF Max
<1> QED
  BY <1>1, <1>3

LEMMA FoldTableExists ==
  ASSUME NEW w, NEW base, NEW seq, NEW n \in Nat
  PROVE  \E h : FoldTable(h, w, base, seq, SUBSET (1 .. n))
<1> DEFINE D == 1 .. n
           N == {m \in Nat : \E h : FoldTable(h, w, base, seq, UpTo(D, m))}
<1>1. IsFiniteSet(D) /\ \A s \in SUBSET D : IsFiniteSet(s) /\ Cardinality(s) \in Nat
  <2>1. IsFiniteSet(D)
    BY FS_Interval
  <2> QED
    BY <2>1, FS_Subset, FS_CardinalityType
<1>2. \A s \in SUBSET D : s # {} => Max(s) \in s
  BY MaxIn
<1> HIDE DEF D
<1>3. 0 \in N
  <2>1. \A s \in UpTo(D, 0) : s = {}
    BY <1>1, FS_EmptySet DEF UpTo
  <2>2. FoldTable([s \in UpTo(D, 0) |-> base], w, base, seq, UpTo(D, 0))
    BY <2>1 DEF FoldTable
  <2> QED
    BY <2>2
<1>4. ASSUME NEW m \in N PROVE m + 1 \in N
  <2>1. PICK h : FoldTable(h, w, base, seq, UpTo(D, m))
    OBVIOUS
  <2> DEFINE K == UpTo(D, m)
             L == UpTo(D, m + 1)
             g == [s \in L |-> IF s = {} THEN base ELSE Stepped(w, h[s \ {Max(s)}], seq[Max(s)])]
  <2>2. \A s \in L : s # {} => s \ {Max(s)} \in K
    <3> SUFFICES ASSUME NEW s \in L, s # {} PROVE s \ {Max(s)} \in K
      OBVIOUS
    <3>1. IsFiniteSet(s) /\ Max(s) \in s /\ s \in SUBSET D /\ Cardinality(s) <= m + 1
      BY <1>1, <1>2 DEF UpTo
    <3>2. Cardinality(s) = Cardinality(s \ {Max(s)}) + 1 /\ Cardinality(s \ {Max(s)}) \in Nat
      BY <3>1, OneLess
    <3> QED
      BY <3>1, <3>2 DEF UpTo
  <2>3. K \subseteq L
    BY <1>1 DEF UpTo
  <2>4. \A s \in K : g[s] = h[s]
    BY <2>1, <2>3 DEF FoldTable
  <2>5. FoldTable(g, w, base, seq, L)
    BY <2>2, <2>3, <2>4 DEF FoldTable
  <2> QED
    BY <2>5
<1> HIDE DEF N
<1>5. N \in SUBSET Nat
  BY DEF N
<1>6. N = Nat
  BY <1>3, <1>4, <1>5, SetInduction
<1>7. Cardinality(D) \in N
  BY <1>1, <1>6
<1>8. UpTo(D, Cardinality(D)) = SUBSET D
  BY <1>1, FS_Subset DEF UpTo
<1> QED
  BY <1>7, <1>8 DEF N, D

(* A fold goes through the sequence from its first element to its last. *)
LEMMA FoldSteps ==
  ASSUME NEW w, NEW base, NEW seq, NEW n \in Nat, NEW h,
         FoldTable(h, w, base, seq, SUBSET (1 .. n))
  PROVE  \E g : Trail(g, h, w, base, seq, n)
<1> DEFINE g == [i \in 0 .. n |-> h[1 .. i]]
<1>1. g[0] = base
  <2>1. 1 .. 0 = {} /\ {} \in SUBSET (1 .. n)
    OBVIOUS
  <2>2. h[{}] = base
    BY <2>1 DEF FoldTable
  <2> QED
    BY <2>1, <2>2
<1>2. ASSUME NEW i \in 1 .. n PROVE g[i] = Stepped(w, g[i - 1], seq[i])
  <2>1. 1 .. i \in SUBSET (1 .. n) /\ i \in 1 .. i
    OBVIOUS
  <2>2. (1 .. i) \ {i} = 1 .. (i - 1)
    OBVIOUS
  <2>3. Max(1 .. i) = i
    BY MaxOfRange
  <2>4. 1 .. i # {}
    BY <2>1
  <2>5. h[1 .. i] = Stepped(w, h[(1 .. i) \ {Max(1 .. i)}], seq[Max(1 .. i)])
    BY <2>1, <2>4 DEF FoldTable
  <2>6. h[1 .. i] = Stepped(w, h[1 .. (i - 1)], seq[i])
    BY <2>2, <2>3, <2>5
  <2>7. i \in 0 .. n /\ i - 1 \in 0 .. n
    OBVIOUS
  <2> QED
    BY <2>6, <2>7
<1>3. h[1 .. n] = g[n]
  OBVIOUS
<1> HIDE DEF g
<1>4. Trail(g, h, w, base, seq, n)
  BY <1>1, <1>2, <1>3 DEF Trail
<1> QED
  BY <1>4

LEMMA AddDiagsIs ==
  \A st, ds, ofCall : AddDiags(st, ds, ofCall) = (CHOOSE h : DiagTable(h, st, ds, ofCall))[DOMAIN ds]
BY DEF AddDiags, FoldLeft, MapThenFoldSet, DiagTable

LEMMA HeardIs ==
  \A p, out : FoldLeft(Heard, p, out) = (CHOOSE h : HeardTable(h, p, out))[DOMAIN out]
BY DEF FoldLeft, MapThenFoldSet, HeardTable

LEMMA DiagSteps ==
  ASSUME NEW st, NEW ds, NEW n \in Nat, DOMAIN ds = 1 .. n, NEW ofCall \in BOOLEAN
  PROVE  \E g : DiagTrail(g, st, ds, ofCall, n)
<1> DEFINE w == IF ofCall THEN "call" ELSE "turn"
<1>1. \A r, x : Stepped(w, r, x) = AddDiag(r, x, ofCall)
  BY Zenon DEF Stepped
<1> HIDE DEF w
<1>2. \A h : DiagTable(h, st, ds, ofCall) <=> FoldTable(h, w, st, ds, SUBSET (1 .. n))
  BY <1>1 DEF DiagTable, FoldTable
<1>3. PICK h : DiagTable(h, st, ds, ofCall) /\ AddDiags(st, ds, ofCall) = h[1 .. n]
  BY <1>2, FoldTableExists, AddDiagsIs
<1>4. FoldTable(h, w, st, ds, SUBSET (1 .. n))
  BY <1>2, <1>3
<1>5. PICK g : Trail(g, h, w, st, ds, n)
  BY <1>4, FoldSteps
<1>6. DiagTrail(g, st, ds, ofCall, n)
  BY <1>1, <1>3, <1>5 DEF Trail, DiagTrail
<1> QED
  BY <1>6

LEMMA HeardSteps ==
  ASSUME NEW p, NEW out, NEW n \in Nat, DOMAIN out = 1 .. n
  PROVE  \E g : HeardTrail(g, p, out, n)
<1>1. \A r, x : Stepped("heard", r, x) = Heard(r, x)
  BY DEF Stepped
<1>2. \A h : HeardTable(h, p, out) <=> FoldTable(h, "heard", p, out, SUBSET (1 .. n))
  BY <1>1 DEF HeardTable, FoldTable
<1>3. PICK h : HeardTable(h, p, out) /\ FoldLeft(Heard, p, out) = h[1 .. n]
  BY <1>2, FoldTableExists, HeardIs
<1>4. FoldTable(h, "heard", p, out, SUBSET (1 .. n))
  BY <1>2, <1>3
<1>5. PICK g : Trail(g, h, "heard", p, out, n)
  BY <1>4, FoldSteps
<1>6. HeardTrail(g, p, out, n)
  BY <1>1, <1>3, <1>5 DEF Trail, HeardTrail
<1> QED
  BY <1>6

-----------------------------------------------------------------------------
(* The loop of feed yields sequences of positions of the connection, for   *)
(* every cut of it: h is the table of its rounds up to n.                  *)
Cuts(r, P) == r.buf \in Seq(P) /\ r.out \in Seq(Seq(P) \ {<<>>})
RoundTable(h, buf, wr, n) ==
  h = [m \in 0 .. n |-> IF m = 0 THEN [buf |-> buf, out |-> <<>>] ELSE Round(h[m - 1], wr)]

(* What the loop leaves is the end of what it was given. *)
EndOf(q, b) ==
  /\ Len(q) \in Nat /\ Len(b) \in Nat /\ Len(q) <= Len(b)
  /\ \A x \in 1 .. Len(q) : q[x] = b[Len(b) - Len(q) + x]

LEMMA EndTwice ==
  ASSUME NEW p, NEW q, NEW b, EndOf(p, q), EndOf(q, b) PROVE EndOf(p, b)
<1>1. /\ Len(p) \in Nat /\ Len(q) \in Nat /\ Len(b) \in Nat /\ Len(p) <= Len(q) /\ Len(q) <= Len(b)
      /\ \A x \in 1 .. Len(p) : p[x] = q[Len(q) - Len(p) + x]
      /\ \A x \in 1 .. Len(q) : q[x] = b[Len(b) - Len(q) + x]
  BY DEF EndOf
<1>2. ASSUME NEW x \in 1 .. Len(p) PROVE p[x] = b[Len(b) - Len(p) + x]
  <2> DEFINE y == Len(q) - Len(p) + x
  <2>1. y \in 1 .. Len(q) /\ Len(b) - Len(q) + y = Len(b) - Len(p) + x
    BY <1>1
  <2>2. p[x] = q[y]
    BY <1>1
  <2> HIDE DEF y
  <2>3. q[y] = b[Len(b) - Len(q) + y]
    BY <1>1, <2>1
  <2> QED
    BY <2>1, <2>2, <2>3
<1> QED
  BY <1>1, <1>2 DEF EndOf

Cutting(r, t, total) ==
  /\ total \in Nat /\ total > 0 /\ total <= Len(r.buf)
  /\ t = [buf |-> SubSeq(r.buf, total + 1, Len(r.buf)), out |-> Append(r.out, SubSeq(r.buf, 1, total))]

LEMMA RoundIs ==
  ASSUME NEW items, NEW wr \in Seq(Byte(items)), NEW r, Cuts(r, DOMAIN wr)
  PROVE  Round(r, wr) = r \/ \E total : Cutting(r, Round(r, wr), total)
<1> DEFINE P == DOMAIN wr
           sep == Separator(r.buf, wr)
           headers == SubSeq(r.buf, 1, sep - 1)
           n == ContentLength(headers, wr)
           total == sep + 1 + n
           rest == SubSeq(r.buf, total + 1, Len(r.buf))
           msg == SubSeq(r.buf, 1, total)
<1>1. Round(r, wr) = IF sep = 0 \/ ~Enough(r.buf, total) THEN r
                     ELSE [buf |-> rest, out |-> Append(r.out, msg)]
  BY DEF Round
<1>2. r.buf \in Seq(P) /\ r.out \in Seq(Seq(P) \ {<<>>}) /\ Len(r.buf) \in Nat
  BY DEF Cuts
<1>3. sep \in 0 .. Len(r.buf)
  <2> DEFINE at == {i \in 1 .. (Len(r.buf) - 1) :
                      wr[r.buf[i]].kind = "crlf" /\ wr[r.buf[i + 1]].kind = "crlf"}
  <2>1. sep = IF at = {} THEN 0 ELSE CHOOSE i \in at : \A j \in at : i <= j
    BY DEF Separator
  <2>2. at \in SUBSET Nat /\ \A i \in at : i \in 0 .. Len(r.buf)
    BY <1>2
  <2> HIDE DEF at, sep
  <2>3. at # {} => \E i \in at : \A j \in at : i <= j
    BY <2>2, LeastNat
  <2>4. CASE at = {}
    BY <1>2, <2>1, <2>4
  <2>5. CASE at # {}
    <3>1. sep \in at
      BY <2>1, <2>3, <2>5
    <3> QED
      BY <2>2, <3>1
  <2> QED
    BY <2>4, <2>5
<1> HIDE DEF sep
<1>4. sep # 0 => headers \in Seq(P)
  BY <1>2, <1>3
<1> HIDE DEF headers
<1>5. sep # 0 => n \in Nat
  <2> DEFINE at == {i \in DOMAIN headers : wr[headers[i]].kind = "length"}
             c == CHOOSE i \in at : \A j \in at : i <= j
  <2>1. n = IF at = {} THEN 0 ELSE wr[headers[c]].n
    BY DEF ContentLength
  <2> SUFFICES ASSUME sep # 0, at # {} PROVE wr[headers[c]].n \in Nat
    BY <2>1
  <2>2. at \in SUBSET Nat
    BY <1>4
  <2>3. c \in at
    BY <2>2, LeastNat
  <2>4. headers[c] \in P /\ wr[headers[c]].kind = "length"
    BY <1>4, <2>3
  <2> HIDE DEF c
  <2>5. wr[headers[c]] \in Byte(items)
    BY <2>4
  <2> QED
    BY <2>4, <2>5 DEF Byte
<1> HIDE DEF n
<1>6. CASE sep = 0 \/ ~Enough(r.buf, total)
  BY <1>1, <1>6
<1>7. CASE sep # 0 /\ Enough(r.buf, total)
  <2>1. total \in Nat /\ total <= Len(r.buf) /\ total > 0
    BY <1>3, <1>5, <1>7 DEF Enough
  <2> HIDE DEF total
  <2>2. Cutting(r, Round(r, wr), total)
    BY <1>1, <1>7, <2>1 DEF Cutting
  <2> QED
    BY <2>2
<1> QED
  BY <1>6, <1>7

LEMMA RoundCuts ==
  ASSUME NEW items, NEW wr \in Seq(Byte(items)), NEW r, Cuts(r, DOMAIN wr)
  PROVE  Cuts(Round(r, wr), DOMAIN wr) /\ EndOf(Round(r, wr).buf, r.buf)
<1> DEFINE P == DOMAIN wr
           b == r.buf
<1>1. b \in Seq(P) /\ r.out \in Seq(Seq(P) \ {<<>>}) /\ Len(b) \in Nat
  BY DEF Cuts
<1> HIDE DEF P, b
<1>2. CASE Round(r, wr) = r
  <2>1. EndOf(b, b)
    BY <1>1 DEF EndOf
  <2> QED
    BY <1>2, <2>1 DEF b
<1>3. CASE \E total : Cutting(r, Round(r, wr), total)
  <2>1. PICK total : Cutting(r, Round(r, wr), total)
    BY <1>3
  <2> DEFINE rest == SubSeq(b, total + 1, Len(b))
             msg == SubSeq(b, 1, total)
             out == Append(r.out, msg)
  <2>2. total \in Nat /\ total > 0 /\ total <= Len(b)
    BY <2>1 DEF Cutting, b
  <2>3. rest \in Seq(P) /\ msg \in Seq(P) /\ Len(msg) = total /\ Len(rest) = Len(b) - total
    BY <1>1, <2>2
  <2>4. \A x \in 1 .. Len(rest) : rest[x] = b[total + x]
    <3>1. rest = [x \in 1 .. (Len(b) - total) |-> b[total + 1 + x - 1]]
      BY <1>1, <2>2
    <3>2. \A x \in 1 .. (Len(b) - total) : total + 1 + x - 1 = total + x
      BY <1>1, <2>2
    <3> QED
      BY <2>3, <3>1, <3>2
  <2>5. Round(r, wr) = [buf |-> rest, out |-> out]
    BY <2>1 DEF Cutting, b
  <2> HIDE DEF rest
  <2>6. out \in Seq(Seq(P) \ {<<>>})
    <3>1. msg # <<>>
      BY <2>2, <2>3
    <3> HIDE DEF msg
    <3> QED
      BY <1>1, <2>3, <3>1, AppendProperties
  <2> HIDE DEF out, msg
  <2>7. Round(r, wr).buf = rest /\ Round(r, wr).out = out
    BY <2>5
  <2>8. EndOf(rest, b)
    <3>1. Len(b) - Len(rest) = total /\ Len(rest) \in Nat /\ Len(rest) <= Len(b)
      BY <1>1, <2>2, <2>3
    <3> QED
      BY <1>1, <2>4, <3>1 DEF EndOf
  <2>9. Cuts(Round(r, wr), P)
    BY <2>3, <2>6, <2>7, Zenon DEF Cuts
  <2> QED
    BY <2>7, <2>8, <2>9 DEF b, P
<1> QED
  BY <1>2, <1>3, RoundIs

LEMMA RoundTableExists ==
  ASSUME NEW buf, NEW wr, NEW n \in Nat
  PROVE  \E h : RoundTable(h, buf, wr, n)
<1> DEFINE b == [buf |-> buf, out |-> <<>>]
           N == {k \in Nat : \E h : RoundTable(h, buf, wr, k)}
<1>1. 0 \in N
  <2>1. RoundTable([m \in 0 .. 0 |-> b], buf, wr, 0)
    BY DEF RoundTable
  <2> QED
    BY <2>1
<1>2. ASSUME NEW k \in N PROVE k + 1 \in N
  <2>1. PICK h : RoundTable(h, buf, wr, k)
    OBVIOUS
  <2> DEFINE g == [m \in 0 .. k + 1 |-> IF m = 0 THEN b ELSE Round(h[m - 1], wr)]
  <2>2. \A m \in 0 .. k : g[m] = h[m]
    BY <2>1 DEF RoundTable
  <2>3. \A m \in 0 .. k + 1 : m # 0 => m - 1 \in 0 .. k
    OBVIOUS
  <2>4. RoundTable(g, buf, wr, k + 1)
    BY <2>2, <2>3 DEF RoundTable
  <2> QED
    BY <2>4
<1> HIDE DEF N
<1>3. N \in SUBSET Nat
  BY DEF N
<1>4. N = Nat
  BY <1>1, <1>2, <1>3, SetInduction
<1> QED
  BY <1>4 DEF N

LEMMA FramedIs ==
  \A buf, wr : Framed(buf, wr) = (CHOOSE h : RoundTable(h, buf, wr, Len(buf)))[Len(buf)]
BY DEF Framed, RoundTable

LEMMA FramedCuts ==
  ASSUME NEW items, NEW wr \in Seq(Byte(items)), NEW buf \in Seq(DOMAIN wr)
  PROVE  Cuts(Framed(buf, wr), DOMAIN wr) /\ EndOf(Framed(buf, wr).buf, buf)
<1>1. PICK h : RoundTable(h, buf, wr, Len(buf)) /\ Framed(buf, wr) = h[Len(buf)]
  <2>1. Len(buf) \in Nat
    OBVIOUS
  <2> QED
    BY <2>1, RoundTableExists, FramedIs
<1> DEFINE Good(m) == Cuts(h[m], DOMAIN wr) /\ EndOf(h[m].buf, buf)
           N == {m \in Nat : m <= Len(buf) => Good(m)}
<1>2. 0 \in N
  <2>1. 0 \in 0 .. Len(buf) /\ Len(buf) \in Nat
    OBVIOUS
  <2>2. h[0] = [buf |-> buf, out |-> <<>>]
    BY <1>1, <2>1 DEF RoundTable
  <2>3. Cuts(h[0], DOMAIN wr)
    BY <2>2 DEF Cuts
  <2>4. EndOf(buf, buf)
    BY <2>1 DEF EndOf
  <2> QED
    BY <2>2, <2>3, <2>4
<1>3. ASSUME NEW m \in N PROVE m + 1 \in N
  <2> SUFFICES ASSUME m + 1 <= Len(buf) PROVE Good(m + 1)
    OBVIOUS
  <2>1. Good(m) /\ m + 1 \in 0 .. Len(buf) /\ m + 1 # 0 /\ (m + 1) - 1 = m
    OBVIOUS
  <2>2. h[m + 1] = Round(h[m], wr)
    BY <1>1, <2>1 DEF RoundTable
  <2>3. Cuts(h[m + 1], DOMAIN wr) /\ EndOf(h[m + 1].buf, h[m].buf)
    BY <2>1, <2>2, RoundCuts
  <2> QED
    BY <2>1, <2>3, EndTwice
<1> HIDE DEF N
<1>4. N \in SUBSET Nat
  BY DEF N
<1>5. N = Nat
  BY <1>2, <1>3, <1>4, SetInduction
<1> QED
  BY <1>1, <1>5 DEF N

LEMMA FeedCuts ==
  ASSUME NEW items, NEW wr \in Seq(Byte(items)), NEW buf \in Seq(DOMAIN wr), NEW data \in Seq(DOMAIN wr)
  PROVE  Cuts(Feed(buf, data, wr), DOMAIN wr) /\ EndOf(Feed(buf, data, wr).buf, buf \o data)
<1> DEFINE b == buf \o data
           f == Framed(b, wr)
<1>1. b \in Seq(DOMAIN wr) /\ Len(b) \in Nat
  OBVIOUS
<1>2. Feed(buf, data, wr) = IF Len(b) > MaxStreamBuf THEN [buf |-> <<>>, out |-> <<>>] ELSE f
  BY DEF Feed, Overflow
<1> HIDE DEF b
<1>3. Cuts(f, DOMAIN wr) /\ EndOf(f.buf, b)
  BY <1>1, FramedCuts
<1>4. Cuts([buf |-> <<>>, out |-> <<>>], DOMAIN wr)
  BY DEF Cuts
<1>5. EndOf(<<>>, b)
  BY <1>1 DEF EndOf
<1> QED
  BY <1>2, <1>3, <1>4, <1>5 DEF b

-----------------------------------------------------------------------------
(* The rules report sequences of diagnostics. *)
Sevs == {"Info", "Warn", "Critical"}
TurnCodes == {"TURN_ALLOC_OK", "TURN_ALLOC_FAILED", "TURN_REFRESH_FAILED"}
RuleCodes == {"CONTACT_UNREACHABLE", "CONTACT_MCAST", "CONTACT_PRIVATE_NAT", "RR_NOT_HONORED",
              "SDP_HOLD", "RTP_PT_MISMATCH", "RTP_FLOW_UNEXPECTED", "RTP_PT_CHANGED",
              "ONE_WAY_MEDIA", "TURN_LEG_IMBALANCE", "TURN_CHANNEL_MEDIA",
              "TURN_SEND_IND_MEDIA", "TURN_RELAY_MEDIA"}
Diags == [sev : Sevs, code : RuleCodes \cup TurnCodes]

LEMMA RulesReport ==
  /\ \A a, b, c : CheckContact(a, b, c) \in Seq(Diags)
  /\ \A a, b, c, d : CheckRecordRoute(a, b, c, d) \in Seq(Diags)
  /\ \A a : CheckSdp(a) \in Seq(Diags)
  /\ \A a, b : CheckRtpPt(a, b) \in Seq(Diags)
  /\ \A a, b : CheckRtpFlow(a, b) \in Seq(Diags)
  /\ \A a, b : CheckPtChange(a, b) \in Seq(Diags)
<1>1. \A s \in Sevs, c \in RuleCodes : Diag(s, c) \in Diags
  BY DEF Diag, Diags
<1>2. \A d \in Diags : <<d>> \in Seq(Diags)
  OBVIOUS
<1>3. <<>> \in Seq(Diags)
  OBVIOUS
<1>4. \A x, y \in Seq(Diags) : x \o y \in Seq(Diags)
  OBVIOUS
<1>5. \A s \in Sevs, c \in RuleCodes : <<Diag(s, c)>> \in Seq(Diags)
  BY <1>1, <1>2
<1>6. ASSUME NEW a, NEW b, NEW c PROVE CheckContact(a, b, c) \in Seq(Diags)
  <2>1. CASE a = b
    BY <1>3, <2>1 DEF CheckContact
  <2>2. CASE a # b /\ (IsZero(a[1]) \/ a[2] = 0)
    BY <1>5, <2>2 DEF CheckContact, Sevs, RuleCodes
  <2>3. CASE a # b /\ ~(IsZero(a[1]) \/ a[2] = 0)
    <3> DEFINE x == IF IsMulticast(a[1]) THEN <<Diag("Warn", "CONTACT_MCAST")>> ELSE <<>>
               y == IF IsPrivate(a[1]) /\ c THEN <<Diag("Warn", "CONTACT_PRIVATE_NAT")>> ELSE <<>>
    <3>1. x \in Seq(Diags) /\ y \in Seq(Diags)
      BY <1>3, <1>5 DEF Sevs, RuleCodes
    <3>2. CheckContact(a, b, c) = x \o y
      BY <2>3 DEF CheckContact
    <3> HIDE DEF x, y
    <3> QED
      BY <1>4, <3>1, <3>2
  <2> QED
    BY <2>1, <2>2, <2>3
<1> QED
  BY <1>3, <1>5, <1>6 DEF CheckRecordRoute, CheckSdp, CheckRtpPt, CheckRtpFlow, CheckPtChange, Sevs, RuleCodes

LEMMA ReportsJoin == \A x, y \in Seq(Diags) : x \o y \in Seq(Diags)
OBVIOUS

LEMMA MessageReport == \A m, rr : MessageDiags(m, rr) \in Seq(Diags)
<1> SUFFICES ASSUME NEW m, NEW rr PROVE MessageDiags(m, rr) \in Seq(Diags)
  OBVIOUS
<1> DEFINE a == CheckContact(m.contact, Nothing, IsPublic(m.src) \/ IsPublic(m.dst))
           b == IF m.req THEN CheckRecordRoute(m.method, m.tagged, m.routes, rr) ELSE <<>>
           c == IF m.sdp # Nothing THEN CheckSdp(SdpIps(m.sdp)) ELSE <<>>
<1>1. MessageDiags(m, rr) = (a \o b) \o c
  BY DEF MessageDiags
<1>2. <<>> \in Seq(Diags)
  OBVIOUS
<1>3. a \in Seq(Diags)
  BY RulesReport, Zenon
<1>4. b \in Seq(Diags) /\ c \in Seq(Diags)
  BY <1>2, RulesReport
<1> HIDE DEF a, b, c
<1> QED
  BY <1>1, <1>3, <1>4

LEMMA EndReport == \A st : OneWayDiags(st) \o LegDiags(st.streams) \in Seq(Diags)
<1> SUFFICES ASSUME NEW st PROVE OneWayDiags(st) \o LegDiags(st.streams) \in Seq(Diags)
  OBVIOUS
<1>1. /\ <<[sev |-> "Warn", code |-> "ONE_WAY_MEDIA"]>> \in Seq(Diags)
      /\ <<[sev |-> "Warn", code |-> "TURN_LEG_IMBALANCE"]>> \in Seq(Diags)
      /\ <<>> \in Seq(Diags)
  BY DEF Diags, Sevs, RuleCodes
<1>2. OneWayDiags(st) \in Seq(Diags)
  BY <1>1 DEF OneWayDiags
<1>3. LegDiags(st.streams) \in Seq(Diags)
  BY <1>1, Zenon DEF LegDiags
<1> QED
  BY <1>2, <1>3

LEMMA RtpReport ==
  \A pt, neg, key, encap, leg :
    CheckRtpPt(pt, ToSet(neg.pts)) \o CheckRtpFlow(key[1], neg.endpoints) \o TurnNotes(encap, leg)
      \in Seq(Diags)
<1> SUFFICES ASSUME NEW pt, NEW neg, NEW key, NEW encap, NEW leg
             PROVE  CheckRtpPt(pt, ToSet(neg.pts)) \o CheckRtpFlow(key[1], neg.endpoints)
                      \o TurnNotes(encap, leg) \in Seq(Diags)
  OBVIOUS
<1> DEFINE x == CASE encap = "channel" -> <<[sev |-> "Info", code |-> "TURN_CHANNEL_MEDIA"]>>
                  [] encap = "send" -> <<[sev |-> "Info", code |-> "TURN_SEND_IND_MEDIA"]>>
                  [] OTHER -> <<>>
           y == IF leg # Nothing THEN <<[sev |-> "Info", code |-> "TURN_RELAY_MEDIA"]>> ELSE <<>>
<1>1. /\ <<[sev |-> "Info", code |-> "TURN_CHANNEL_MEDIA"]>> \in Seq(Diags)
      /\ <<[sev |-> "Info", code |-> "TURN_SEND_IND_MEDIA"]>> \in Seq(Diags)
      /\ <<[sev |-> "Info", code |-> "TURN_RELAY_MEDIA"]>> \in Seq(Diags)
      /\ <<>> \in Seq(Diags)
  BY DEF Diags, Sevs, RuleCodes
<1>2. TurnNotes(encap, leg) = x \o y
  BY DEF TurnNotes
<1>3. x \in Seq(Diags)
  <2>1. CASE encap = "channel"
    BY <1>1, <2>1
  <2>2. CASE encap = "send"
    BY <1>1, <2>2
  <2>3. CASE encap # "channel" /\ encap # "send"
    BY <1>1, <2>3
  <2> QED
    BY <2>1, <2>2, <2>3
<1>4. y \in Seq(Diags)
  BY <1>1
<1> HIDE DEF x, y
<1>5. TurnNotes(encap, leg) \in Seq(Diags)
  BY <1>2, <1>3, <1>4
<1>6. CheckRtpPt(pt, ToSet(neg.pts)) \in Seq(Diags) /\ CheckRtpFlow(key[1], neg.endpoints) \in Seq(Diags)
  BY RulesReport, Zenon
<1> QED
  BY <1>5, <1>6

LEMMA TurnReport ==
  ASSUME NEW codes \in Seq(TurnCodes) PROVE \E n \in Nat : DOMAIN TurnDiags(codes) = 1 .. n
BY DEF TurnDiags

-----------------------------------------------------------------------------
(* What a message changes of the correlator, streams and tables aside *)
CoreFields == {"call", "rr", "done", "endpoints", "streams", "born", "turn", "ring"}
StreamFields == {"pt", "last_pt", "rate", "codec", "leg", "via", "rtt", "oneway", "born"}

(* b has the streams of a, with their samples and ages *)
SameStreams(a, b) ==
  /\ DOMAIN b = DOMAIN a
  /\ \A k \in DOMAIN a : DOMAIN b[k] = DOMAIN a[k] /\ b[k].rtt = a[k].rtt /\ b[k].born = a[k].born
Same(a, b) ==
  /\ DOMAIN b = DOMAIN a
  /\ b.rr = a.rr /\ b.done = a.done /\ b.turn = a.turn /\ b.born = a.born
  /\ SameStreams(a.streams, b.streams)

LEMMA SameSelf == \A a : Same(a, a)
BY DEF Same, SameStreams

LEMMA SameTwice == ASSUME NEW a, NEW b, NEW c, Same(a, b), Same(b, c) PROVE Same(a, c)
<1>1. SameStreams(a.streams, c.streams)
  BY DEF Same, SameStreams
<1> QED
  BY <1>1 DEF Same

LEMMA DiagSame == ASSUME NEW st, DOMAIN st = CoreFields, NEW d, NEW ofCall PROVE Same(st, AddDiag(st, d, ofCall))
<1>1. CASE Level(d.sev) < Level(config.min)
  BY <1>1, SameSelf DEF AddDiag
<1>2. CASE ~(Level(d.sev) < Level(config.min))
  <2>1. PICK r, c : AddDiag(st, d, ofCall) = [st EXCEPT !.ring = r, !.call = c]
    BY <1>2 DEF AddDiag
  <2> DEFINE b == [st EXCEPT !.ring = r, !.call = c]
  <2>2. /\ DOMAIN b = DOMAIN st /\ b.rr = st.rr /\ b.done = st.done /\ b.turn = st.turn
        /\ b.born = st.born /\ b.streams = st.streams
    BY DEF CoreFields
  <2> HIDE DEF b
  <2>3. Same(st, b)
    BY <2>2 DEF Same, SameStreams
  <2> QED
    BY <2>1, <2>3 DEF b
<1> QED
  BY <1>1, <1>2

LEMMA DiagsSameN ==
  ASSUME NEW st, DOMAIN st = CoreFields, NEW ds, NEW n \in Nat, DOMAIN ds = 1 .. n,
         NEW ofCall \in BOOLEAN
  PROVE  Same(st, AddDiags(st, ds, ofCall))
<1>0. PICK g : DiagTrail(g, st, ds, ofCall, n)
  BY DiagSteps
<1>1. /\ g[0] = st /\ AddDiags(st, ds, ofCall) = g[n]
      /\ \A i \in 1 .. n : g[i] = AddDiag(g[i - 1], ds[i], ofCall)
  BY <1>0 DEF DiagTrail
<1> DEFINE N == {i \in Nat : i <= n => Same(st, g[i])}
<1>2. 0 \in N
  BY <1>1, SameSelf
<1>3. ASSUME NEW i \in N PROVE i + 1 \in N
  <2> SUFFICES ASSUME i + 1 <= n PROVE Same(st, g[i + 1])
    OBVIOUS
  <2>1. Same(st, g[i]) /\ i + 1 \in 1 .. n /\ (i + 1) - 1 = i
    OBVIOUS
  <2>2. g[i + 1] = AddDiag(g[i], ds[i + 1], ofCall)
    BY <1>1, <2>1
  <2>3. DOMAIN g[i] = CoreFields
    BY <2>1 DEF Same
  <2> QED
    BY <2>1, <2>2, <2>3, DiagSame, SameTwice
<1> HIDE DEF N
<1>4. N \in SUBSET Nat
  BY DEF N
<1>5. N = Nat
  BY <1>2, <1>3, <1>4, SetInduction
<1> QED
  BY <1>1, <1>5 DEF N

LEMMA DiagsSame ==
  ASSUME NEW st, DOMAIN st = CoreFields, NEW ds \in Seq(Diags)
  PROVE  Same(st, AddDiags(st, ds, TRUE))
<1>1. Len(ds) \in Nat /\ DOMAIN ds = 1 .. Len(ds)
  OBVIOUS
<1> QED
  BY <1>1, DiagsSameN

(* Up to the teardown, a message changes the route at most. *)
LEMMA AppliedSame == ASSUME NEW st, DOMAIN st = CoreFields, NEW m PROVE Same(st, Applied(st, m))
<1>1. PICK c : Applied(st, m) = [st EXCEPT !.call = c]
  BY DEF Applied
<1> DEFINE b == [st EXCEPT !.call = c]
<1>2. /\ DOMAIN b = DOMAIN st /\ b.rr = st.rr /\ b.done = st.done /\ b.turn = st.turn
      /\ b.born = st.born /\ b.streams = st.streams
  BY DEF CoreFields
<1> HIDE DEF b
<1>3. Same(st, b)
  BY <1>2 DEF Same, SameStreams
<1> QED
  BY <1>1, <1>3 DEF b

WellFormed(ss) == \A k \in DOMAIN ss : DOMAIN ss[k] = StreamFields

LEMMA LearnSame ==
  ASSUME NEW st, DOMAIN st = CoreFields, WellFormed(st.streams), NEW s
  PROVE  Same(st, Learn(st, s))
<1>1. PICK c, e : Learn(st, s) = ApplySdpClocks([st EXCEPT !.call = c, !.endpoints = e])
  BY DEF Learn
<1> DEFINE b == [st EXCEPT !.call = c, !.endpoints = e]
<1>2. /\ DOMAIN b = CoreFields /\ b.rr = st.rr /\ b.done = st.done /\ b.turn = st.turn
      /\ b.born = st.born /\ b.streams = st.streams
  BY DEF CoreFields
<1> HIDE DEF b
<1> DEFINE P(x) == x.last_pt \in ToSet(b.call.neg.pts)
           R(x) == RateFor(b.call.neg, x.last_pt)
           C(x) == IF P(x) THEN [x EXCEPT !.rate = R(x)] ELSE x
           ss == [k \in DOMAIN b.streams |-> C(b.streams[k])]
           d == [b EXCEPT !.streams = ss]
<1>3. ApplySdpClocks(b) = d
  BY DEF ApplySdpClocks
<1>4. SameStreams(b.streams, ss)
  <2> SUFFICES ASSUME NEW k \in DOMAIN b.streams
               PROVE  /\ DOMAIN ss[k] = DOMAIN b.streams[k]
                      /\ ss[k].rtt = b.streams[k].rtt /\ ss[k].born = b.streams[k].born
    BY DEF SameStreams
  <2>1. ss[k] = C(b.streams[k]) /\ DOMAIN b.streams[k] = StreamFields
    BY <1>2 DEF WellFormed
  <2> HIDE DEF P, R
  <2> QED
    BY <2>1 DEF StreamFields
<1> HIDE DEF ss
<1>5. /\ DOMAIN d = CoreFields /\ d.rr = b.rr /\ d.done = b.done /\ d.turn = b.turn
      /\ d.born = b.born /\ d.streams = ss
  BY <1>2 DEF CoreFields
<1> HIDE DEF d
<1>6. Same(st, d)
  BY <1>2, <1>4, <1>5 DEF Same
<1> QED
  BY <1>1, <1>3, <1>6 DEF b

LEMMA BeforeSame ==
  ASSUME NEW st, DOMAIN st = CoreFields, WellFormed(st.streams), NEW m
  PROVE  /\ DOMAIN Noted(st, m) = CoreFields
         /\ Noted(st, m).rr = IF InitialInvite(m) /\ st.rr = Nothing THEN m.rrs > 0 ELSE st.rr
         /\ Same([st EXCEPT !.rr = Noted(st, m).rr], Before(st, m))
<1> DEFINE v == IF InitialInvite(m) /\ st.rr = Nothing THEN m.rrs > 0 ELSE st.rr
           n == Noted(st, m)
           a == Applied(n, m)
           l == IF m.sdp # Nothing THEN Learn(a, m.sdp) ELSE a
           ds == MessageDiags(m, n.rr = TRUE)
<1>1. n = [st EXCEPT !.rr = v]
  BY DEF Noted
<1>2. Before(st, m) = AddDiags(l, ds, TRUE)
  BY DEF Before
<1> HIDE DEF v
<1>3. DOMAIN n = CoreFields /\ n.rr = v /\ n.streams = st.streams
  BY <1>1 DEF CoreFields
<1>4. n = [st EXCEPT !.rr = n.rr]
  BY <1>1, <1>3
<1> HIDE DEF n
<1>5. Same(n, a)
  BY <1>3, AppliedSame
<1>6. DOMAIN a = CoreFields /\ WellFormed(a.streams)
  BY <1>3, <1>5 DEF Same, SameStreams, WellFormed
<1> HIDE DEF a
<1>7. Same(a, l)
  BY <1>6, LearnSame, SameSelf
<1> HIDE DEF l
<1>8. DOMAIN l = CoreFields /\ ds \in Seq(Diags)
  BY <1>6, <1>7, MessageReport DEF Same
<1> HIDE DEF ds
<1>9. Same(l, AddDiags(l, ds, TRUE))
  BY <1>8, DiagsSame
<1>10. Same(n, Before(st, m))
  BY <1>2, <1>5, <1>7, <1>9, SameTwice
<1> QED
  BY <1>3, <1>4, <1>10 DEF n, v

-----------------------------------------------------------------------------
(* The correlator and its history *)
HistFields == {"flows", "samples", "rr", "rates", "switched", "evicted", "pruned", "alarms"}
TurnFields == {"allocs", "servers", "relays"}
AllocFields == {"server", "relayed", "created", "refreshed", "channels"}

Newest(all) ==
  SubSeq(all, (IF Len(all) > MaxSamples THEN Len(all) - MaxSamples ELSE 0) + 1, Len(all))

(* Every flow the call had is among its streams until the cap or its end *)
Flowing(st, h) ==
  (h.evicted = FALSE /\ st.done = FALSE) => \A f \in h.flows : \E k \in DOMAIN st.streams : k[1] = f
Sampling(ss, samples) ==
  /\ \A k \in DOMAIN samples : samples[k] \in Seq(Int)
  /\ \A k \in DOMAIN ss : k \in DOMAIN samples /\ ss[k].rtt = Newest(samples[k])
GoodStreams(ss, born) ==
  /\ WellFormed(ss) /\ IsFiniteSet(DOMAIN ss) /\ born \in Nat
  /\ \A k \in DOMAIN ss : ss[k].born \in Nat /\ ss[k].born < born
  /\ \A j, k \in DOMAIN ss : ss[j].born = ss[k].born => j = k
GoodTurn(t) ==
  /\ DOMAIN t = TurnFields
  /\ IsFiniteSet(DOMAIN t.allocs) /\ IsFiniteSet(t.relays) /\ IsFiniteSet(t.servers)
  /\ \A c \in DOMAIN t.allocs : DOMAIN t.allocs[c] = AllocFields
Known(t, h) ==
  h.pruned = FALSE => \A c \in DOMAIN t.allocs : t.allocs[c].relayed \in t.relays \cup {Nothing}
Justified(alarms) == <<"one-way", FALSE>> \notin alarms /\ <<"route", FALSE>> \notin alarms

(* The INVITEs of the call, and what was noted of one of them *)
Routes(noted, S) == IF S = {} THEN noted = Nothing ELSE noted \in S

Recalled(st, h) ==
  /\ DOMAIN st = CoreFields /\ DOMAIN h = HistFields
  /\ h.evicted \in BOOLEAN /\ h.pruned \in BOOLEAN /\ st.done \in BOOLEAN
  /\ Routes(st.rr, h.rr) /\ Justified(h.alarms)
  /\ Flowing(st, h) /\ Sampling(st.streams, h.samples) /\ GoodStreams(st.streams, st.born)
  /\ GoodTurn(st.turn) /\ Known(st.turn, h)

LEMMA SameGood ==
  ASSUME NEW a, NEW b, NEW born, GoodStreams(a, born), SameStreams(a, b) PROVE GoodStreams(b, born)
BY DEF GoodStreams, SameStreams, WellFormed

LEMMA SameSampling ==
  ASSUME NEW a, NEW b, NEW samples, Sampling(a, samples), SameStreams(a, b) PROVE Sampling(b, samples)
BY DEF Sampling, SameStreams

LEMMA SameRecalled ==
  ASSUME NEW a, NEW b, NEW h, Recalled(a, h), Same(a, b) PROVE Recalled(b, h)
<1>1. Flowing(b, h)
  BY DEF Recalled, Same, SameStreams, Flowing
<1>2. Sampling(b.streams, h.samples) /\ GoodStreams(b.streams, b.born)
  BY SameGood, SameSampling DEF Recalled, Same
<1>3. GoodTurn(b.turn) /\ Known(b.turn, h)
  BY DEF Recalled, Same
<1> QED
  BY <1>1, <1>2, <1>3 DEF Recalled, Same

(* Some streams go *)
LEMMA FewerStreams ==
  ASSUME NEW ss, NEW born, NEW samples, GoodStreams(ss, born), Sampling(ss, samples),
         NEW K \in SUBSET DOMAIN ss
  PROVE  LET r == [k \in K |-> ss[k]] IN GoodStreams(r, born) /\ Sampling(r, samples)
<1> DEFINE r == [k \in K |-> ss[k]]
<1>1. IsFiniteSet(K)
  BY FS_Subset DEF GoodStreams
<1>2. GoodStreams(r, born)
  BY <1>1 DEF GoodStreams, WellFormed
<1>3. Sampling(r, samples)
  BY DEF Sampling
<1> QED
  BY <1>2, <1>3

LEMMA EvictIs ==
  ASSUME NEW st, DOMAIN st = CoreFields
  PROVE  LET e == EvictStreams(st)
         IN /\ DOMAIN e = CoreFields /\ e.rr = st.rr /\ e.done = st.done /\ e.turn = st.turn
            /\ e.born = st.born
            /\ e.streams = [k \in {k \in DOMAIN st.streams :
                 Cardinality({j \in DOMAIN st.streams : st.streams[j].born > st.streams[k].born})
                   < MaxStreams} |-> st.streams[k]]
<1> DEFINE K == {k \in DOMAIN st.streams :
                 Cardinality({j \in DOMAIN st.streams : st.streams[j].born > st.streams[k].born})
                   < MaxStreams}
           r == [k \in K |-> st.streams[k]]
<1>1. EvictStreams(st) = [st EXCEPT !.streams = r]
  BY DEF EvictStreams
<1> HIDE DEF r
<1>2. LET e == [st EXCEPT !.streams = r]
      IN /\ DOMAIN e = CoreFields /\ e.rr = st.rr /\ e.done = st.done /\ e.turn = st.turn
         /\ e.born = st.born /\ e.streams = r
  BY DEF CoreFields
<1> QED
  BY <1>1, <1>2, Zenon DEF r

(* The teardown of a call, kept or removed *)
LEMMA KeptRecalled ==
  ASSUME NEW st, NEW h, Recalled(st, h), config.keep
  PROVE  Recalled(OnCallTerminal(st), h)
<1> DEFINE ds == OneWayDiags(st) \o LegDiags(st.streams)
           told == AddDiags(st, ds, TRUE)
           d == [told EXCEPT !.done = TRUE]
           e == EvictStreams(d)
<1>1. OnCallTerminal(st) = e
  BY DEF OnCallTerminal
<1>2. Same(st, told)
  <2>1. ds \in Seq(Diags)
    BY EndReport
  <2> HIDE DEF ds
  <2> QED
    BY <2>1, DiagsSame DEF Recalled
<1> HIDE DEF told
<1>3. Recalled(told, h)
  BY <1>2, SameRecalled
<1>4. /\ DOMAIN d = CoreFields /\ d.rr = told.rr /\ d.turn = told.turn /\ d.born = told.born
      /\ d.streams = told.streams /\ d.done = TRUE
  BY <1>3 DEF Recalled, CoreFields
<1> HIDE DEF d
<1>5. PICK K \in SUBSET DOMAIN d.streams :
        /\ DOMAIN e = CoreFields /\ e.rr = d.rr /\ e.done = d.done /\ e.turn = d.turn
        /\ e.born = d.born /\ e.streams = [k \in K |-> d.streams[k]]
  <2> DEFINE L == {k \in DOMAIN d.streams :
                 Cardinality({j \in DOMAIN d.streams : d.streams[j].born > d.streams[k].born})
                   < MaxStreams}
  <2>1. /\ DOMAIN e = CoreFields /\ e.rr = d.rr /\ e.done = d.done /\ e.turn = d.turn
        /\ e.born = d.born /\ e.streams = [k \in L |-> d.streams[k]]
    BY <1>4, EvictIs, Zenon
  <2>2. L \in SUBSET DOMAIN d.streams
    OBVIOUS
  <2> HIDE DEF L, e
  <2> QED
    BY <2>1, <2>2
<1> HIDE DEF e
<1>6. GoodStreams(e.streams, e.born) /\ Sampling(e.streams, h.samples)
  <2>1. GoodStreams(d.streams, d.born) /\ Sampling(d.streams, h.samples)
    BY <1>3, <1>4 DEF Recalled
  <2> QED
    BY <1>5, <2>1, FewerStreams
<1>7. Flowing(e, h)
  BY <1>4, <1>5 DEF Flowing
<1> QED
  BY <1>1, <1>3, <1>4, <1>5, <1>6, <1>7 DEF Recalled

(* The history of a call that was removed, or of none *)
Afresh(h, g) ==
  /\ DOMAIN g = HistFields /\ g.rr = {} /\ g.flows = {} /\ g.samples = <<>>
  /\ g.evicted = FALSE /\ g.alarms = h.alarms

LEMMA NothingHeld ==
  ASSUME NEW ss, ss = <<>>, NEW samples, samples = <<>>, NEW born \in Nat
  PROVE  GoodStreams(ss, born) /\ Sampling(ss, samples)
<1>1. DOMAIN ss = {} /\ DOMAIN samples = {}
  OBVIOUS
<1>2. IsFiniteSet(DOMAIN ss)
  BY <1>1, FS_EmptySet
<1> QED
  BY <1>1, <1>2 DEF GoodStreams, Sampling, WellFormed

LEMMA RemovedRecalled ==
  ASSUME NEW st, DOMAIN st = CoreFields, st.born \in Nat, GoodTurn(st.turn), NEW h, NEW g,
         Justified(h.alarms), Afresh(h, g), g.pruned \in BOOLEAN, Known(st.turn, g)
  PROVE  Recalled(Removed(st), g)
<1> DEFINE r == Removed(st)
<1>1. /\ DOMAIN r = CoreFields /\ r.rr = Nothing /\ r.done = FALSE /\ r.streams = <<>>
      /\ r.turn = st.turn /\ r.born = st.born
  BY DEF Removed, CoreFields
<1> HIDE DEF r
<1>2. GoodStreams(r.streams, r.born) /\ Sampling(r.streams, g.samples)
  BY <1>1, NothingHeld DEF Afresh
<1>3. Flowing(r, g)
  BY DEF Flowing, Afresh
<1> QED
  BY <1>1, <1>2, <1>3 DEF Recalled, Afresh, Routes, r

LEMMA GoneRecalled ==
  ASSUME NEW st, NEW h, Recalled(st, h), ~config.keep
  PROVE  Recalled(OnCallTerminal(st), [NewHist EXCEPT !.alarms = h.alarms, !.pruned = h.pruned])
<1> DEFINE ds == OneWayDiags(st) \o LegDiags(st.streams)
           told == AddDiags(st, ds, TRUE)
           g == [NewHist EXCEPT !.alarms = h.alarms, !.pruned = h.pruned]
<1>1. OnCallTerminal(st) = Removed(told)
  BY DEF OnCallTerminal
<1>2. Same(st, told)
  <2>1. ds \in Seq(Diags)
    BY EndReport
  <2> HIDE DEF ds
  <2> QED
    BY <2>1, DiagsSame DEF Recalled
<1> HIDE DEF told
<1>3. Recalled(told, h)
  BY <1>2, SameRecalled
<1>4. Afresh(h, g) /\ g.pruned = h.pruned
  BY DEF Afresh, NewHist, HistFields
<1> HIDE DEF g
<1>5. Known(told.turn, g) /\ g.pruned \in BOOLEAN
  BY <1>3, <1>4 DEF Recalled, Known
<1>6. DOMAIN told = CoreFields /\ told.born \in Nat /\ GoodTurn(told.turn) /\ Justified(h.alarms)
  BY <1>3 DEF Recalled, GoodStreams
<1>7. Recalled(Removed(told), g)
  BY <1>4, <1>5, <1>6, RemovedRecalled
<1> QED
  BY <1>1, <1>7 DEF g

(* A message never raises an alarm that is not justified. *)
Justly(m, v, S) == IF Warned(m, v = TRUE) THEN TRUE \in S ELSE S # {TRUE}

LEMMA RouteJustified ==
  ASSUME NEW m, NEW v, NEW S, Routes(v, S), Warned(m, TRUE) PROVE Justly(m, v, S) = TRUE
<1>1. CASE v = TRUE
  <2>1. Warned(m, v = TRUE)
    BY <1>1
  <2>2. S # {}
    BY <1>1, IngestAssumption DEF Routes
  <2> QED
    BY <1>1, <2>1, <2>2, Zenon DEF Routes, Justly
<1>2. CASE v # TRUE
  <2>1. ~Warned(m, v = TRUE)
    BY <1>2 DEF Warned, CheckRecordRoute
  <2>2. S # {TRUE}
    BY <1>2 DEF Routes
  <2> QED
    BY <2>1, <2>2, Zenon DEF Justly
<1> QED
  BY <1>1, <1>2

LEMMA RouteNoted ==
  ASSUME NEW st, DOMAIN st = CoreFields, NEW h, DOMAIN h = HistFields, Routes(st.rr, h.rr), NEW m
  PROVE  Routes(IF InitialInvite(m) /\ st.rr = Nothing THEN m.rrs > 0 ELSE st.rr, Route(h, m))
BY DEF Routes, Route

LEMMA FlowJustified ==
  ASSUME NEW K, NEW flows, OneWay(K), BothWays(flows), \A f \in flows : \E k \in K : k[1] = f
  PROVE  FALSE
<1>1. PICK f \in flows : Reversed(f) \in flows
  BY DEF BothWays
<1>2. PICK j \in K : j[1] = f
  OBVIOUS
<1>3. PICK k \in K : k[1] = Reversed(f)
  BY <1>1
<1> QED
  BY <1>2, <1>3 DEF OneWay

LEMMA RecallStep ==
  ASSUME NEW p, Recalled(p.core, p.hist), NEW m
  PROVE  Recalled(Recall(p, m).core, Recall(p, m).hist)
<1> DEFINE st == p.core
           h == p.hist
           s == Before(st, m)
           rr == Route(h, m)
           v == Noted(st, m).rr
           n == [st EXCEPT !.rr = v]
           justly == IF Warned(m, v = TRUE) THEN TRUE \in rr ELSE rr # {TRUE}
           routed == IF Warned(m, TRUE) THEN {<<"route", justly>>} ELSE {}
           oneway == IF Ends(s) /\ OneWay(DOMAIN s.streams)
                       THEN {<<"one-way", h.evicted \/ ~BothWays(h.flows)>>} ELSE {}
           alarms == h.alarms \cup routed \cup oneway
           told == IF m.sdp = Nothing THEN <<>>
                   ELSE [pt \in ToSet(PayloadTypes(m.sdp)) |-> StatedRate(m.sdp, pt)]
           rates == Over(h.rates, told)
           g == [h EXCEPT !.rr = rr, !.rates = rates, !.alarms = alarms]
           c == IF Ends(s) THEN OnCallTerminal(s) ELSE s
           l == IF Ends(s) /\ ~config.keep
                  THEN [NewHist EXCEPT !.alarms = g.alarms, !.pruned = g.pruned] ELSE g
<1>0. Recall(p, m) = [core |-> c, hist |-> l]
  BY Zenon DEF Recall, IngestSip
<1> HIDE DEF rates
<1>1. Recall(p, m).core = c /\ Recall(p, m).hist = l
  <2> HIDE DEF c, l
  <2> QED
    BY <1>0
<1>2. DOMAIN st = CoreFields /\ WellFormed(st.streams)
  BY DEF Recalled, GoodStreams
<1>3. Routes(v, rr) /\ Same(n, s)
  BY <1>2, BeforeSame, RouteNoted DEF Recalled
<1>4. /\ DOMAIN n = CoreFields /\ n.rr = v /\ n.done = st.done /\ n.streams = st.streams
      /\ n.turn = st.turn /\ n.born = st.born
  BY <1>2 DEF CoreFields
<1>5. DOMAIN s.streams = DOMAIN st.streams /\ s.done = st.done
  BY <1>3, <1>4 DEF Same, SameStreams
<1>6. <<"route", FALSE>> \notin routed /\ <<"one-way", FALSE>> \notin routed
  <2>1. CASE Warned(m, TRUE)
    <3>1. justly = TRUE
      BY <1>3, <2>1, RouteJustified DEF Justly
    <3>2. routed = {<<"route", TRUE>>}
      BY <2>1, <3>1, Zenon
    <3> HIDE DEF routed
    <3> QED
      BY <3>2
  <2>2. CASE ~Warned(m, TRUE)
    BY <2>2
  <2> QED
    BY <2>1, <2>2
<1>7. <<"route", FALSE>> \notin oneway /\ <<"one-way", FALSE>> \notin oneway
  <2>1. CASE Ends(s) /\ OneWay(DOMAIN s.streams)
    <3>1. st.done = FALSE
      BY <1>5, <2>1, Zenon DEF Ends, Recalled
    <3>2. h.evicted = FALSE => ~BothWays(h.flows)
      BY <1>5, <2>1, <3>1, FlowJustified DEF Recalled, Flowing
    <3>3. h.evicted \in BOOLEAN
      BY DEF Recalled
    <3>4. h.evicted \/ ~BothWays(h.flows)
      BY <3>2, <3>3, Zenon
    <3>5. oneway = {<<"one-way", TRUE>>}
      BY <2>1, <3>4, Zenon
    <3> HIDE DEF oneway
    <3> QED
      BY <3>5
  <2>2. CASE ~(Ends(s) /\ OneWay(DOMAIN s.streams))
    BY <2>2
  <2> QED
    BY <2>1, <2>2
<1> HIDE DEF routed, oneway
<1>8. Justified(alarms)
  BY <1>6, <1>7 DEF Justified, Recalled
<1> HIDE DEF alarms, rr, v, s
<1>9. /\ DOMAIN g = HistFields /\ g.rr = rr /\ g.alarms = alarms /\ g.flows = h.flows
      /\ g.samples = h.samples /\ g.evicted = h.evicted /\ g.pruned = h.pruned
  BY DEF Recalled, HistFields
<1> HIDE DEF g, n
<1>10. Recalled(n, g)
  <2>1. Flowing(n, g) /\ Known(n.turn, g)
    BY <1>4, <1>9 DEF Recalled, Flowing, Known
  <2> QED
    BY <1>3, <1>4, <1>8, <1>9, <2>1 DEF Recalled
<1>11. Recalled(s, g)
  BY <1>3, <1>10, SameRecalled
<1>12. /\ Recall(p, m).core = IF Ends(s) THEN OnCallTerminal(s) ELSE s
       /\ Recall(p, m).hist =
            IF Ends(s) /\ ~config.keep
              THEN [NewHist EXCEPT !.alarms = g.alarms, !.pruned = g.pruned] ELSE g
  BY <1>1
<1>13. CASE ~Ends(s)
  BY <1>11, <1>12, <1>13
<1>14. CASE Ends(s) /\ config.keep
  BY <1>11, <1>12, <1>14, KeptRecalled
<1>15. CASE Ends(s) /\ ~config.keep
  <2>1. Recalled(OnCallTerminal(s), [NewHist EXCEPT !.alarms = g.alarms, !.pruned = g.pruned])
    BY <1>11, <1>15, GoneRecalled
  <2>2. /\ Recall(p, m).core = OnCallTerminal(s)
        /\ Recall(p, m).hist = [NewHist EXCEPT !.alarms = g.alarms, !.pruned = g.pruned]
    BY <1>12, <1>15, Zenon
  <2> QED
    BY <2>1, <2>2, Zenon
<1> QED
  BY <1>13, <1>14, <1>15

(* The messages of a segment, one after the other *)
LEMMA HeardRecalled ==
  ASSUME NEW p, Recalled(p.core, p.hist), NEW out, NEW n \in Nat, DOMAIN out = 1 .. n
  PROVE  LET r == FoldLeft(Heard, p, out) IN Recalled(r.core, r.hist)
<1>0. PICK g : HeardTrail(g, p, out, n)
  BY HeardSteps
<1>1. /\ g[0] = p /\ FoldLeft(Heard, p, out) = g[n]
      /\ \A i \in 1 .. n : g[i] = Heard(g[i - 1], out[i])
  BY <1>0 DEF HeardTrail
<1> DEFINE N == {i \in Nat : i <= n => Recalled(g[i].core, g[i].hist)}
<1>2. 0 \in N
  BY <1>1
<1>3. ASSUME NEW i \in N PROVE i + 1 \in N
  <2> SUFFICES ASSUME i + 1 <= n PROVE Recalled(g[i + 1].core, g[i + 1].hist)
    OBVIOUS
  <2>1. Recalled(g[i].core, g[i].hist) /\ i + 1 \in 1 .. n /\ (i + 1) - 1 = i
    OBVIOUS
  <2>2. g[i + 1] = Heard(g[i], out[i + 1])
    BY <1>1, <2>1
  <2>3. CASE Starts(out[i + 1])
    <3>1. g[i + 1] = Recall(g[i], Parsed(out[i + 1]))
      BY <2>2, <2>3 DEF Heard
    <3> QED
      BY <2>1, <3>1, RecallStep
  <2>4. CASE ~Starts(out[i + 1])
    BY <2>1, <2>2, <2>4 DEF Heard
  <2> QED
    BY <2>3, <2>4
<1> HIDE DEF N
<1>4. N \in SUBSET Nat
  BY DEF N
<1>5. N = Nat
  BY <1>2, <1>3, <1>4, SetInduction
<1> QED
  BY <1>1, <1>5 DEF N

-----------------------------------------------------------------------------
(* RTP *)
LEMMA AcceptedIs ==
  ASSUME NEW h, DOMAIN h = HistFields, NEW r, NEW key
  PROVE  LET g == Accepted(h, r, key)
         IN /\ DOMAIN g = HistFields /\ g.rr = h.rr /\ g.alarms = h.alarms
            /\ g.evicted = h.evicted /\ g.pruned = h.pruned
            /\ g.flows = IF key \in DOMAIN r.streams THEN h.flows \cup {key[1]} ELSE h.flows
            /\ g.samples = IF key \in DOMAIN core.streams \/ key \notin DOMAIN r.streams
                             THEN h.samples ELSE Put(h.samples, key, <<>>)
<1> DEFINE F == IF key \in DOMAIN r.streams THEN h.flows \cup {key[1]} ELSE h.flows
           S == IF key \in DOMAIN core.streams \/ key \notin DOMAIN r.streams
                  THEN h.samples ELSE Put(h.samples, key, <<>>)
<1>1. PICK w : Accepted(h, r, key) = [h EXCEPT !.flows = F, !.switched = w, !.samples = S]
  BY DEF Accepted
<1> HIDE DEF F, S
<1> DEFINE g == [h EXCEPT !.flows = F, !.switched = w, !.samples = S]
<1>2. /\ DOMAIN g = HistFields /\ g.rr = h.rr /\ g.alarms = h.alarms
      /\ g.evicted = h.evicted /\ g.pruned = h.pruned /\ g.flows = F /\ g.samples = S
  BY DEF HistFields
<1> QED
  BY <1>1, <1>2, Zenon DEF F, S

LEMMA KnownSame ==
  ASSUME NEW st, DOMAIN st = CoreFields, WellFormed(st.streams), NEW key \in DOMAIN st.streams, NEW pt
  PROVE  Same(st, KnownRtp(st, key, pt))
<1> DEFINE b == [st EXCEPT !.streams[key].last_pt = pt, !.call.last_ts = clock]
           ss == [st.streams EXCEPT ![key].last_pt = pt]
           ds == CheckPtChange(pt, st.streams[key].last_pt)
<1>1. KnownRtp(st, key, pt) = AddDiags(b, ds, TRUE)
  BY DEF KnownRtp
<1>2. /\ DOMAIN b = CoreFields /\ b.rr = st.rr /\ b.done = st.done /\ b.turn = st.turn
      /\ b.born = st.born /\ b.streams = ss
  BY DEF CoreFields
<1>3. SameStreams(st.streams, ss)
  BY DEF SameStreams, WellFormed, StreamFields
<1> HIDE DEF b, ss
<1>4. Same(st, b)
  BY <1>2, <1>3 DEF Same
<1>5. ds \in Seq(Diags)
  BY RulesReport
<1> HIDE DEF ds
<1> QED
  BY <1>1, <1>2, <1>4, <1>5, DiagsSame, SameTwice

LEMMA NewRtpSame ==
  ASSUME NEW st, DOMAIN st = CoreFields, st.born \in Nat, NEW key, NEW pt, NEW encap
  PROVE  \E x, b : /\ DOMAIN x = StreamFields /\ x.rtt = <<>> /\ x.born = st.born
                   /\ DOMAIN b = CoreFields /\ b.rr = st.rr /\ b.done = st.done
                   /\ b.turn = st.turn /\ b.born = st.born + 1
                   /\ b.streams = Put(st.streams, key, x)
                   /\ Same(b, NewRtp(st, key, pt, encap))
<1> DEFINE neg == st.call.neg
           leg == LegOf(st.turn, key[1])
           via == leg # Nothing \/ encap # "direct"
           rate == RateFor(neg, pt)
           codec == CodecFor(neg, pt)
           x == [pt |-> pt, last_pt |-> pt, rate |-> rate, codec |-> codec, leg |-> leg,
                 via |-> via, rtt |-> <<>>, oneway |-> <<>>, born |-> st.born]
           ss == Put(st.streams, key, x)
           b == [st EXCEPT !.streams = ss, !.born = @ + 1, !.call.via = @ \/ via,
                           !.call.last_ts = clock]
           ds == CheckRtpPt(pt, ToSet(neg.pts)) \o CheckRtpFlow(key[1], neg.endpoints) \o
                 TurnNotes(encap, leg)
<1>1. NewRtp(st, key, pt, encap) = AddDiags(b, ds, TRUE)
  BY Zenon DEF NewRtp
<1>2. ds \in Seq(Diags)
  BY RtpReport, Zenon
<1> HIDE DEF ds
<1>3. DOMAIN x = StreamFields /\ x.rtt = <<>> /\ x.born = st.born
  <2> HIDE DEF leg, via, rate, codec
  <2> QED
    BY DEF StreamFields
<1> HIDE DEF x
<1>4. PICK c : b = [st EXCEPT !.streams = ss, !.born = @ + 1, !.call = c]
  <2> DEFINE c == [st.call EXCEPT !.via = @ \/ via, !.last_ts = clock]
  <2>1. b = [st EXCEPT !.streams = ss, !.born = @ + 1, !.call = c]
    <3> HIDE DEF via, ss
    <3> QED
      BY DEF CoreFields
  <2> HIDE DEF b, c
  <2> QED
    BY <2>1
<1> HIDE DEF b
<1>5. /\ DOMAIN b = CoreFields /\ b.rr = st.rr /\ b.done = st.done /\ b.turn = st.turn
      /\ b.born = st.born + 1 /\ b.streams = ss
  <2> HIDE DEF ss
  <2> QED
    BY <1>4 DEF CoreFields
<1>6. Same(b, NewRtp(st, key, pt, encap))
  BY <1>1, <1>2, <1>5, DiagsSame
<1> QED
  BY <1>3, <1>5, <1>6

LEMMA NothingNewest == Newest(<<>>) = <<>>
<1>1. Len(<<>>) = 0 /\ ~(0 > MaxSamples)
  BY IngestAssumption
<1>2. Newest(<<>>) = SubSeq(<<>>, 1, 0)
  BY <1>1 DEF Newest
<1> QED
  BY <1>2

LEMMA RtpRecalled ==
  ASSUME NEW st, NEW h, Recalled(st, h), DOMAIN core.streams = DOMAIN st.streams,
         NEW key, NEW pt, NEW encap
  PROVE  LET r == IngestRtp(st, key, pt, encap) IN Recalled(r, Accepted(h, r, key))
<1> DEFINE r == IngestRtp(st, key, pt, encap)
           g == Accepted(h, r, key)
<1>1. /\ DOMAIN g = HistFields /\ g.rr = h.rr /\ g.alarms = h.alarms
      /\ g.evicted = h.evicted /\ g.pruned = h.pruned
      /\ g.flows = IF key \in DOMAIN r.streams THEN h.flows \cup {key[1]} ELSE h.flows
      /\ g.samples = IF key \in DOMAIN core.streams \/ key \notin DOMAIN r.streams
                       THEN h.samples ELSE Put(h.samples, key, <<>>)
  <2>1. DOMAIN h = HistFields
    BY DEF Recalled
  <2> HIDE DEF r
  <2> QED
    BY <2>1, AcceptedIs, Zenon
<1> HIDE DEF g
<1>2. CASE key \in DOMAIN st.streams
  <2>1. Same(st, r)
    <3>1. r = KnownRtp(st, key, pt)
      BY <1>2 DEF IngestRtp
    <3> QED
      BY <1>2, <3>1, KnownSame DEF Recalled, GoodStreams
  <2> HIDE DEF r
  <2>2. Recalled(r, h) /\ DOMAIN r.streams = DOMAIN st.streams
    BY <2>1, SameRecalled DEF Same, SameStreams
  <2>3. g.flows = h.flows \cup {key[1]} /\ g.samples = h.samples
    BY <1>1, <1>2, <2>2
  <2>4. Flowing(r, g)
    BY <1>1, <1>2, <2>2, <2>3 DEF Recalled, Flowing
  <2> QED
    BY <1>1, <2>2, <2>3, <2>4 DEF Recalled, Known, r, g
<1>3. CASE key \notin DOMAIN st.streams /\ {key[1][1], key[1][2]} \cap st.endpoints # {}
  <2>1. r = NewRtp(st, key, pt, encap)
    BY <1>3 DEF IngestRtp
  <2>2. DOMAIN st = CoreFields /\ st.born \in Nat
    BY DEF Recalled, GoodStreams
  <2>3. PICK x, b : /\ DOMAIN x = StreamFields /\ x.rtt = <<>> /\ x.born = st.born
                    /\ DOMAIN b = CoreFields /\ b.rr = st.rr /\ b.done = st.done
                    /\ b.turn = st.turn /\ b.born = st.born + 1
                    /\ b.streams = Put(st.streams, key, x)
                    /\ Same(b, r)
    BY <2>1, <2>2, NewRtpSame, Zenon
  <2> HIDE DEF r
  <2>4. /\ DOMAIN b.streams = DOMAIN st.streams \cup {key} /\ b.streams[key] = x
        /\ \A k \in DOMAIN st.streams : b.streams[k] = st.streams[k]
    BY <1>3, <2>3 DEF Put
  <2>5. DOMAIN r.streams = DOMAIN st.streams \cup {key}
    BY <2>3, <2>4 DEF Same, SameStreams
  <2>6. g.flows = h.flows \cup {key[1]} /\ g.samples = Put(h.samples, key, <<>>)
    BY <1>1, <1>3, <2>5
  <2>7. /\ DOMAIN g.samples = DOMAIN h.samples \cup {key} /\ g.samples[key] = <<>>
        /\ \A k \in DOMAIN h.samples : k # key => g.samples[k] = h.samples[k]
    BY <2>6 DEF Put
  <2>8. Sampling(b.streams, g.samples)
    <3>1. Sampling(st.streams, h.samples)
      BY DEF Recalled
    <3>2. \A k \in DOMAIN g.samples : g.samples[k] \in Seq(Int)
      <4>1. <<>> \in Seq(Int) /\ \A k \in DOMAIN h.samples : h.samples[k] \in Seq(Int)
        BY <3>1 DEF Sampling
      <4> SUFFICES ASSUME NEW k \in DOMAIN g.samples PROVE g.samples[k] \in Seq(Int)
        OBVIOUS
      <4>2. CASE k = key
        BY <2>7, <4>1, <4>2
      <4>3. CASE k # key
        BY <2>7, <4>1, <4>3
      <4> QED
        BY <4>2, <4>3
    <3>3. ASSUME NEW k \in DOMAIN b.streams
          PROVE  k \in DOMAIN g.samples /\ b.streams[k].rtt = Newest(g.samples[k])
      <4>1. CASE k = key
        BY <2>3, <2>4, <2>7, <4>1, NothingNewest
      <4>2. CASE k # key
        BY <2>4, <2>7, <3>1, <4>2 DEF Sampling
      <4> QED
        BY <4>1, <4>2
    <3> QED
      BY <3>2, <3>3 DEF Sampling
  <2>9. GoodStreams(b.streams, b.born)
    <3>1. GoodStreams(st.streams, st.born)
      BY DEF Recalled
    <3>2. IsFiniteSet(DOMAIN b.streams)
      BY <2>4, <3>1, FS_AddElement DEF GoodStreams
    <3>3. WellFormed(b.streams)
      BY <2>3, <2>4, <3>1 DEF GoodStreams, WellFormed
    <3>4. \A k \in DOMAIN b.streams : b.streams[k].born \in Nat /\ b.streams[k].born < b.born
      BY <2>3, <2>4, <3>1 DEF GoodStreams
    <3>5. \A j, k \in DOMAIN b.streams : b.streams[j].born = b.streams[k].born => j = k
      BY <2>3, <2>4, <3>1 DEF GoodStreams
    <3> QED
      BY <2>2, <2>3, <3>2, <3>3, <3>4, <3>5 DEF GoodStreams
  <2>10. Flowing(b, g)
    <3>1. Flowing(st, h)
      BY DEF Recalled
    <3> QED
      BY <1>1, <2>3, <2>4, <2>6, <3>1 DEF Flowing
  <2>11. Known(b.turn, g) /\ GoodTurn(b.turn)
    BY <1>1, <2>3 DEF Recalled, Known
  <2>12. Recalled(b, g)
    BY <1>1, <2>3, <2>8, <2>9, <2>10, <2>11 DEF Recalled
  <2> QED
    BY <2>3, <2>12, SameRecalled DEF r, g
<1>4. CASE key \notin DOMAIN st.streams /\ ~({key[1][1], key[1][2]} \cap st.endpoints # {})
  <2>1. r = st
    BY <1>4 DEF IngestRtp
  <2> HIDE DEF r
  <2>2. g.flows = h.flows /\ g.samples = h.samples
    BY <1>1, <1>4, <2>1
  <2> QED
    BY <1>1, <2>1, <2>2 DEF Recalled, Flowing, Known, r, g
<1> QED
  BY <1>2, <1>3, <1>4

-----------------------------------------------------------------------------
(* RTCP *)
LEMMA Dropped ==
  ASSUME NEW q \in Seq(Int), NEW f \in 0 .. Len(q)
  PROVE  LET u == SubSeq(q, f + 1, Len(q))
         IN u \in Seq(Int) /\ Len(u) = Len(q) - f /\ \A i \in 1 .. (Len(q) - f) : u[i] = q[f + i]
OBVIOUS

(* Dropping f elements before or after the next one is appended *)
LEMMA DroppedNext ==
  ASSUME NEW q \in Seq(Int), NEW f \in 0 .. Len(q), NEW v \in Int
  PROVE  LET a == Append(q, v)
             t == Append(SubSeq(q, f + 1, Len(q)), v)
         IN /\ t = SubSeq(a, f + 1, Len(a)) /\ Len(t) = Len(q) - f + 1
            /\ Tail(t) = SubSeq(a, f + 2, Len(a))
<1> DEFINE n == Len(q)
           s == SubSeq(q, f + 1, n)
           a == Append(q, v)
           t == Append(s, v)
           u == SubSeq(a, f + 1, n + 1)
           w == SubSeq(a, f + 2, n + 1)
<1>1. n \in Nat /\ f \in Nat /\ f <= n
  OBVIOUS
<1>2. a \in Seq(Int) /\ Len(a) = n + 1 /\ a[n + 1] = v /\ \A i \in 1 .. n : a[i] = q[i]
  OBVIOUS
<1>3. s \in Seq(Int) /\ Len(s) = n - f /\ \A i \in 1 .. (n - f) : s[i] = q[f + i]
  BY Dropped
<1> HIDE DEF s, a
<1>4. f \in 0 .. Len(a) /\ f + 1 \in 0 .. Len(a) /\ (f + 1) + 1 = f + 2
  BY <1>1, <1>2
<1>5. u \in Seq(Int) /\ Len(u) = n + 1 - f /\ \A i \in 1 .. (n + 1 - f) : u[i] = a[f + i]
  <2>1. u = SubSeq(a, f + 1, Len(a))
    BY <1>2
  <2>2. LET x == SubSeq(a, f + 1, Len(a))
        IN /\ x \in Seq(Int) /\ Len(x) = Len(a) - f
           /\ \A i \in 1 .. (Len(a) - f) : x[i] = a[f + i]
    BY <1>2, <1>4, Dropped, Zenon
  <2> HIDE DEF u
  <2> QED
    BY <1>2, <2>1, <2>2
<1>6. SubSeq(a, (f + 1) + 1, Len(a)) \in Seq(Int) /\ Len(SubSeq(a, (f + 1) + 1, Len(a))) = Len(a) - (f + 1)
      /\ \A i \in 1 .. (Len(a) - (f + 1)) : SubSeq(a, (f + 1) + 1, Len(a))[i] = a[(f + 1) + i]
  BY <1>2, <1>4, Dropped, Zenon
<1>7. w \in Seq(Int) /\ Len(w) = n - f /\ \A i \in 1 .. (n - f) : w[i] = a[(f + 1) + i]
  <2>1. w = SubSeq(a, (f + 1) + 1, Len(a)) /\ Len(a) - (f + 1) = n - f
    BY <1>1, <1>2, <1>4
  <2> HIDE DEF w
  <2> QED
    BY <1>6, <2>1
<1> HIDE DEF n, u, w
<1>8. /\ t \in Seq(Int) /\ Len(t) = n - f + 1 /\ t[n - f + 1] = v
      /\ \A i \in 1 .. (n - f) : t[i] = s[i]
  BY <1>3, AppendProperties
<1> HIDE DEF t
<1>9. ASSUME NEW i \in 1 .. (n + 1 - f) PROVE t[i] = a[f + i]
  <2>1. CASE i = n + 1 - f
    <3>1. f + i = n + 1 /\ i = n - f + 1
      BY <1>1, <2>1
    <3> QED
      BY <1>2, <1>8, <3>1
  <2>2. CASE i # n + 1 - f
    <3>1. i \in 1 .. (n - f) /\ f + i \in 1 .. n
      BY <1>1, <2>2
    <3> QED
      BY <1>2, <1>3, <1>8, <3>1
  <2> QED
    BY <2>1, <2>2
<1>10. t = u
  <2>1. Len(t) = Len(u)
    BY <1>1, <1>5, <1>8
  <2>2. \A i \in 1 .. Len(t) : t[i] = u[i]
    BY <1>1, <1>5, <1>8, <1>9
  <2> QED
    BY <1>5, <1>8, <2>1, <2>2, SeqEqual
<1>11. Tail(t) = w
  <2> DEFINE x == Tail(t)
  <2>1. x \in Seq(Int) /\ Len(x) = n - f /\ \A i \in 1 .. (n - f) : x[i] = t[i + 1]
    BY <1>1, <1>8
  <2> HIDE DEF x
  <2>2. ASSUME NEW i \in 1 .. (n - f) PROVE x[i] = w[i]
    <3>1. i + 1 \in 1 .. (n + 1 - f) /\ f + (i + 1) = (f + 1) + i
      BY <1>1
    <3> QED
      BY <1>7, <1>9, <2>1, <3>1
  <2>3. Len(x) = Len(w) /\ \A i \in 1 .. Len(x) : x[i] = w[i]
    BY <1>7, <2>1, <2>2
  <2>4. x = w
    BY <1>7, <2>1, <2>3, SeqEqual
  <2> QED
    BY <2>4 DEF x
<1> QED
  BY <1>2, <1>8, <1>10, <1>11 DEF n, u, w, t, s, a

LEMMA NewestNext ==
  ASSUME NEW all \in Seq(Int), NEW v \in Int
  PROVE  Sampled(Newest(all), v) = Newest(Append(all, v))
<1> DEFINE n == Len(all)
           from == IF n > MaxSamples THEN n - MaxSamples ELSE 0
           a == Append(all, v)
           t == Append(SubSeq(all, from + 1, n), v)
<1>0. n \in Nat /\ MaxSamples \in Nat /\ Len(a) = n + 1
  BY IngestAssumption
<1>1. Sampled(Newest(all), v) = IF Len(t) > MaxSamples THEN Tail(t) ELSE t
  BY DEF Sampled, Newest
<1>2. Newest(a) = SubSeq(a, (IF Len(a) > MaxSamples THEN Len(a) - MaxSamples ELSE 0) + 1, Len(a))
  BY DEF Newest
<1> HIDE DEF n
<1>3. from \in 0 .. n
  BY <1>0
<1>4. n + 1 > MaxSamples => from = n - MaxSamples
  BY <1>0
<1>5. ~(n + 1 > MaxSamples) => from = 0
  BY <1>0
<1> HIDE DEF from
<1>6. t = SubSeq(a, from + 1, Len(a)) /\ Len(t) = n - from + 1 /\ Tail(t) = SubSeq(a, from + 2, Len(a))
  BY <1>3, DroppedNext DEF n
<1> HIDE DEF a, t
<1>7. CASE n + 1 > MaxSamples
  <2>1. Len(t) > MaxSamples /\ Len(a) > MaxSamples /\ (Len(a) - MaxSamples) + 1 = from + 2
    BY <1>0, <1>3, <1>4, <1>6, <1>7
  <2> QED
    BY <1>1, <1>2, <1>6, <2>1 DEF a
<1>8. CASE ~(n + 1 > MaxSamples)
  <2>1. ~(Len(t) > MaxSamples) /\ ~(Len(a) > MaxSamples) /\ from = 0
    BY <1>0, <1>3, <1>5, <1>6, <1>8
  <2> QED
    BY <1>1, <1>2, <1>6, <2>1 DEF a
<1> QED
  BY <1>7, <1>8

LEMMA RtcpRecalled ==
  ASSUME NEW from, NEW ssrc, NEW field \in {"rtt", "oneway"}, Recalled(core, hist),
         left.rtcp \in Int, Rtcp(from, ssrc, field)
  PROVE  Recalled(core', hist')
<1> DEFINE v == left.rtcp
           C(x) == [x EXCEPT ![field] = Sampled(@, v)]
           ss == [k \in DOMAIN core.streams |-> IF k[2] # ssrc THEN core.streams[k] ELSE C(core.streams[k])]
           sp == [k \in DOMAIN hist.samples |->
                    IF k[2] = ssrc THEN Append(hist.samples[k], v) ELSE hist.samples[k]]
<1>1. PICK c : core' = [core EXCEPT !.streams = ss, !.call = c]
  BY DEF Rtcp
<1>2. hist' = IF field = "oneway" THEN hist ELSE [hist EXCEPT !.samples = sp]
  BY DEF Rtcp
<1>3. /\ DOMAIN core = CoreFields /\ DOMAIN hist = HistFields
      /\ GoodStreams(core.streams, core.born) /\ Sampling(core.streams, hist.samples)
  BY DEF Recalled
<1>4. ASSUME NEW x, DOMAIN x = StreamFields
      PROVE  /\ DOMAIN C(x) = StreamFields /\ C(x).born = x.born
             /\ C(x).rtt = IF field = "oneway" THEN x.rtt ELSE Sampled(x.rtt, v)
  BY <1>4 DEF StreamFields
<1> HIDE DEF C
<1>5. /\ DOMAIN ss = DOMAIN core.streams
      /\ \A k \in DOMAIN ss :
           /\ DOMAIN ss[k] = StreamFields /\ ss[k].born = core.streams[k].born
           /\ ss[k].rtt = IF field = "oneway" \/ k[2] # ssrc THEN core.streams[k].rtt
                          ELSE Sampled(core.streams[k].rtt, v)
  BY <1>3, <1>4 DEF GoodStreams, WellFormed
<1> HIDE DEF ss
<1>6. /\ DOMAIN core' = CoreFields /\ core'.rr = core.rr /\ core'.done = core.done
      /\ core'.turn = core.turn /\ core'.born = core.born /\ core'.streams = ss
  BY <1>1, <1>3 DEF CoreFields
<1>7. GoodStreams(ss, core.born)
  BY <1>3, <1>5 DEF GoodStreams, WellFormed
<1>8. CASE field = "oneway"
  <2>1. hist' = hist
    BY <1>2, <1>8
  <2>2. Sampling(ss, hist.samples)
    BY <1>3, <1>5, <1>8 DEF Sampling
  <2>3. Flowing(core', hist')
    BY <1>5, <1>6, <2>1 DEF Recalled, Flowing
  <2> QED
    BY <1>6, <1>7, <2>1, <2>2, <2>3 DEF Recalled
<1>9. CASE field # "oneway"
  <2>1. /\ DOMAIN hist' = HistFields /\ hist'.rr = hist.rr /\ hist'.alarms = hist.alarms
        /\ hist'.evicted = hist.evicted /\ hist'.pruned = hist.pruned
        /\ hist'.flows = hist.flows /\ hist'.samples = sp
    <3> HIDE DEF sp
    <3> QED
      BY <1>2, <1>3, <1>9 DEF HistFields
  <2>2. ASSUME NEW k \in DOMAIN sp PROVE sp[k] \in Seq(Int)
    <3>1. hist.samples[k] \in Seq(Int)
      BY <1>3 DEF Sampling
    <3>2. Append(hist.samples[k], v) \in Seq(Int)
      BY <3>1, AppendProperties
    <3> QED
      BY <3>1, <3>2
  <2>3. ASSUME NEW k \in DOMAIN ss PROVE k \in DOMAIN sp /\ ss[k].rtt = Newest(sp[k])
    <3>1. k \in DOMAIN hist.samples /\ core.streams[k].rtt = Newest(hist.samples[k])
      BY <1>3, <1>5 DEF Sampling
    <3>2. hist.samples[k] \in Seq(Int)
      BY <1>3, <3>1 DEF Sampling
    <3>3. CASE k[2] # ssrc
      BY <1>5, <3>1, <3>3
    <3>4. CASE k[2] = ssrc
      <4>1. sp[k] = Append(hist.samples[k], v) /\ k \in DOMAIN sp
        BY <3>1, <3>4
      <4>2. ss[k].rtt = Sampled(Newest(hist.samples[k]), v)
        BY <1>5, <1>9, <3>1, <3>4
      <4> QED
        BY <3>2, <4>1, <4>2, NewestNext
    <3> QED
      BY <3>3, <3>4
  <2> HIDE DEF sp
  <2>4. Sampling(ss, sp)
    BY <2>2, <2>3 DEF Sampling
  <2>5. Flowing(core', hist') /\ Known(core'.turn, hist')
    BY <1>5, <1>6, <2>1 DEF Recalled, Flowing, Known
  <2> QED
    BY <1>6, <1>7, <2>1, <2>4, <2>5 DEF Recalled
<1> QED
  BY <1>8, <1>9

-----------------------------------------------------------------------------
(* TURN *)
LEMMA LearnedGood ==
  ASSUME NEW t, NEW h, GoodTurn(t), Known(t, h), NEW flow, NEW m
  PROVE  GoodTurn(Learned(t, flow, m)) /\ Known(Learned(t, flow, m), h)
<1> DEFINE x == Ip(ServerSide(t, flow, m.method))
           r == [t EXCEPT !.servers = @ \cup {x}]
<1>1. Learned(t, flow, m) = IF m.method = "allocate" THEN r ELSE t
  BY DEF Learned
<1> HIDE DEF x
<1>2. DOMAIN r = TurnFields /\ r.allocs = t.allocs /\ r.relays = t.relays /\ r.servers = t.servers \cup {x}
  BY DEF GoodTurn, TurnFields
<1> HIDE DEF r
<1>3. IsFiniteSet(r.servers)
  BY <1>2, FS_AddElement DEF GoodTurn
<1>4. GoodTurn(r) /\ Known(r, h)
  BY <1>2, <1>3 DEF GoodTurn, Known
<1> QED
  BY <1>1, <1>4

(* The table of allocations gets other records, the relays grow. *)
LEMMA AllocsGood ==
  ASSUME NEW t, NEW h, GoodTurn(t), Known(t, h), NEW allocs, IsFiniteSet(DOMAIN allocs),
         \A c \in DOMAIN allocs : DOMAIN allocs[c] = AllocFields,
         \A c \in DOMAIN allocs :
           \/ allocs[c].relayed = Nothing
           \/ c \in DOMAIN t.allocs /\ allocs[c].relayed = t.allocs[c].relayed
  PROVE  LET r == [t EXCEPT !.allocs = allocs] IN GoodTurn(r) /\ Known(r, h)
<1> DEFINE r == [t EXCEPT !.allocs = allocs]
<1>1. DOMAIN r = TurnFields /\ r.allocs = allocs /\ r.relays = t.relays /\ r.servers = t.servers
  BY DEF GoodTurn, TurnFields
<1> HIDE DEF r
<1> QED
  BY <1>1 DEF GoodTurn, Known, r

LEMMA AllocatedGood ==
  ASSUME NEW t, NEW h, GoodTurn(t), Known(t, h), NEW client \in DOMAIN t.allocs, NEW relayed
  PROVE  GoodTurn(Allocated(t, client, relayed)) /\ Known(Allocated(t, client, relayed), h)
<1> DEFINE as == [t.allocs EXCEPT ![client].relayed = relayed]
           ip == Ip(relayed)
           r == [t EXCEPT !.allocs[client].relayed = relayed, !.relays = @ \cup {relayed},
                          !.servers = @ \cup {ip}]
<1>1. Allocated(t, client, relayed) = IF relayed = Nothing THEN t ELSE r
  BY DEF Allocated
<1> HIDE DEF ip
<1>2. /\ DOMAIN r = TurnFields /\ r.allocs = as
      /\ r.relays = t.relays \cup {relayed} /\ r.servers = t.servers \cup {ip}
  BY DEF GoodTurn, TurnFields
<1>3. /\ DOMAIN as = DOMAIN t.allocs
      /\ \A c \in DOMAIN as : /\ DOMAIN as[c] = AllocFields
                              /\ as[c].relayed = IF c = client THEN relayed ELSE t.allocs[c].relayed
  BY DEF GoodTurn, AllocFields
<1> HIDE DEF r, as
<1>4. IsFiniteSet(r.servers) /\ IsFiniteSet(r.relays)
  <2>1. IsFiniteSet(t.servers) /\ IsFiniteSet(t.relays)
    BY DEF GoodTurn
  <2>2. IsFiniteSet(t.servers \cup {ip}) /\ IsFiniteSet(t.relays \cup {relayed})
    BY <2>1, FS_AddElement, Zenon
  <2> QED
    BY <1>2, <2>2
<1>5. GoodTurn(r)
  BY <1>2, <1>3, <1>4 DEF GoodTurn
<1>6. Known(r, h)
  BY <1>2, <1>3 DEF Known
<1> QED
  BY <1>1, <1>5, <1>6

Tracked(r, h) ==
  GoodTurn(r.turn) /\ Known(r.turn, h) /\ r.diags \in Seq(TurnCodes)

LEMMA StunTracked ==
  ASSUME NEW old, NEW h, GoodTurn(old), Known(old, h), NEW ts, NEW flow, NEW m
  PROVE  Tracked(IngestStun(old, ts, flow, m), h)
<1> DEFINE t == Learned(old, flow, m)
           r == IngestStun(old, ts, flow, m)
<1> SUFFICES Tracked(r, h)
  OBVIOUS
<1>1. GoodTurn(t) /\ Known(t, h)
  BY LearnedGood
<1>2. \A c \in TurnCodes : <<c>> \in Seq(TurnCodes)
  OBVIOUS
<1>3. <<>> \in Seq(TurnCodes)
  OBVIOUS
<1>4. ASSUME NEW x, NEW ds \in Seq(TurnCodes), NEW b, GoodTurn(x), Known(x, h),
             r = [turn |-> x, diags |-> ds, media |-> b]
      PROVE  Tracked(r, h)
  BY <1>4 DEF Tracked
<1>5. CASE m.method = "allocate" /\ m.class = "request"
  <2> DEFINE a == [server |-> flow[2], relayed |-> Nothing, created |-> ts, refreshed |-> ts,
                   channels |-> <<>>]
             as == Put(t.allocs, flow[1], a)
  <2>1. r = [turn |-> [t EXCEPT !.allocs = as], diags |-> <<>>, media |-> FALSE]
    BY <1>5 DEF IngestStun
  <2>2. DOMAIN a = AllocFields /\ a.relayed = Nothing
    BY DEF AllocFields
  <2> HIDE DEF a, t, r
  <2>3. /\ DOMAIN as = DOMAIN t.allocs \cup {flow[1]}
        /\ \A c \in DOMAIN as : as[c] = IF c = flow[1] THEN a ELSE t.allocs[c]
    BY DEF Put
  <2> HIDE DEF as
  <2>4. IsFiniteSet(DOMAIN as)
    <3>1. IsFiniteSet(DOMAIN t.allocs)
      BY <1>1 DEF GoodTurn
    <3>2. IsFiniteSet(DOMAIN t.allocs \cup {flow[1]})
      BY <3>1, FS_AddElement, Zenon
    <3> QED
      BY <2>3, <3>2
  <2>5. \A c \in DOMAIN as : DOMAIN as[c] = AllocFields
    BY <1>1, <2>2, <2>3 DEF GoodTurn
  <2>6. \A c \in DOMAIN as :
          as[c].relayed = Nothing \/ (c \in DOMAIN t.allocs /\ as[c].relayed = t.allocs[c].relayed)
    BY <2>2, <2>3
  <2>7. GoodTurn([t EXCEPT !.allocs = as]) /\ Known([t EXCEPT !.allocs = as], h)
    BY <1>1, <2>4, <2>5, <2>6, AllocsGood
  <2> QED
    BY <1>3, <1>4, <2>1, <2>7
<1>6. CASE m.method = "allocate" /\ m.class = "success"
  <2>1. CASE flow[2] \in DOMAIN t.allocs
    <3>1. r = [turn |-> Allocated(t, flow[2], m.address), diags |-> <<"TURN_ALLOC_OK">>, media |-> FALSE]
      BY <1>6, <2>1 DEF IngestStun
    <3> HIDE DEF t, r
    <3>2. GoodTurn(Allocated(t, flow[2], m.address)) /\ Known(Allocated(t, flow[2], m.address), h)
      BY <1>1, <2>1, AllocatedGood
    <3>3. <<"TURN_ALLOC_OK">> \in Seq(TurnCodes)
      BY <1>2 DEF TurnCodes
    <3> QED
      BY <1>4, <3>1, <3>2, <3>3
  <2>2. CASE flow[2] \notin DOMAIN t.allocs
    <3>1. r = [turn |-> t, diags |-> <<>>, media |-> FALSE]
      BY <1>6, <2>2 DEF IngestStun
    <3> HIDE DEF t, r
    <3> QED
      BY <1>1, <1>3, <1>4, <3>1
  <2> QED
    BY <2>1, <2>2
<1>7. CASE m.method = "allocate" /\ m.class = "error"
  <2> DEFINE K == DOMAIN t.allocs \ {flow[2]}
             as == [c \in K |-> t.allocs[c]]
  <2>1. r = [turn |-> [t EXCEPT !.allocs = as], diags |-> <<"TURN_ALLOC_FAILED">>, media |-> FALSE]
    BY <1>7 DEF IngestStun
  <2> HIDE DEF t, r
  <2>2. IsFiniteSet(DOMAIN as)
    BY <1>1, FS_Subset DEF GoodTurn
  <2>3. \A c \in DOMAIN as : DOMAIN as[c] = AllocFields
    BY <1>1 DEF GoodTurn
  <2>4. \A c \in DOMAIN as :
          as[c].relayed = Nothing \/ (c \in DOMAIN t.allocs /\ as[c].relayed = t.allocs[c].relayed)
    OBVIOUS
  <2> HIDE DEF as
  <2>5. GoodTurn([t EXCEPT !.allocs = as]) /\ Known([t EXCEPT !.allocs = as], h)
    BY <1>1, <2>2, <2>3, <2>4, AllocsGood
  <2>6. <<"TURN_ALLOC_FAILED">> \in Seq(TurnCodes)
    BY <1>2 DEF TurnCodes
  <2> QED
    BY <1>4, <2>1, <2>5, <2>6
<1>8. CASE m.method = "refresh" /\ m.class = "request"
  <2>1. CASE flow[1] \in DOMAIN t.allocs
    <3> DEFINE as == [t.allocs EXCEPT ![flow[1]].refreshed = ts]
    <3>1. r = [turn |-> [t EXCEPT !.allocs = as], diags |-> <<>>, media |-> FALSE]
      BY <1>8, <2>1 DEF IngestStun
    <3> HIDE DEF t, r
    <3>2. /\ DOMAIN as = DOMAIN t.allocs
          /\ \A c \in DOMAIN as : DOMAIN as[c] = AllocFields /\ as[c].relayed = t.allocs[c].relayed
      BY <1>1 DEF GoodTurn, AllocFields
    <3> HIDE DEF as
    <3>3. GoodTurn([t EXCEPT !.allocs = as]) /\ Known([t EXCEPT !.allocs = as], h)
      BY <1>1, <3>2, AllocsGood DEF GoodTurn
    <3> QED
      BY <1>3, <1>4, <3>1, <3>3
  <2>2. CASE flow[1] \notin DOMAIN t.allocs
    <3>1. r = [turn |-> t, diags |-> <<>>, media |-> FALSE]
      BY <1>8, <2>2 DEF IngestStun
    <3> HIDE DEF t, r
    <3> QED
      BY <1>1, <1>3, <1>4, <3>1
  <2> QED
    BY <2>1, <2>2
<1>9. CASE m.method = "refresh" /\ m.class = "error"
  <2>1. r = [turn |-> t, diags |-> <<"TURN_REFRESH_FAILED">>, media |-> FALSE]
    BY <1>9 DEF IngestStun
  <2>2. <<"TURN_REFRESH_FAILED">> \in Seq(TurnCodes)
    BY <1>2 DEF TurnCodes
  <2> HIDE DEF t, r
  <2> QED
    BY <1>1, <1>4, <2>1, <2>2
<1>10. CASE m.method = "bind" /\ m.class = "request"
  <2> DEFINE p == flow[1] \in DOMAIN t.allocs /\ m.address # Nothing /\ m.channel # Nothing
  <2>1. CASE p
    <3> DEFINE as == [t.allocs EXCEPT ![flow[1]].channels = Put(@, m.channel, m.address)]
    <3>1. r = [turn |-> [t EXCEPT !.allocs = as], diags |-> <<>>, media |-> FALSE]
      BY <1>10, <2>1 DEF IngestStun
    <3> HIDE DEF t, r
    <3>2. /\ DOMAIN as = DOMAIN t.allocs
          /\ \A c \in DOMAIN as : DOMAIN as[c] = AllocFields /\ as[c].relayed = t.allocs[c].relayed
      BY <1>1 DEF GoodTurn, AllocFields
    <3> HIDE DEF as
    <3>3. GoodTurn([t EXCEPT !.allocs = as]) /\ Known([t EXCEPT !.allocs = as], h)
      BY <1>1, <3>2, AllocsGood DEF GoodTurn
    <3> QED
      BY <1>3, <1>4, <3>1, <3>3
  <2>2. CASE ~p
    <3>1. r = [turn |-> t, diags |-> <<>>, media |-> FALSE]
      BY <1>10, <2>2 DEF IngestStun
    <3> HIDE DEF t, r
    <3> QED
      BY <1>1, <1>3, <1>4, <3>1
  <2> QED
    BY <2>1, <2>2
<1>11. CASE m.method \in {"send", "data"} /\ m.class = "indication"
  <2>1. r = [turn |-> t, diags |-> <<>>, media |-> m.data]
    BY <1>11 DEF IngestStun
  <2> HIDE DEF t, r
  <2> QED
    BY <1>1, <1>3, <1>4, <2>1
<1>12. CASE /\ ~(m.method = "allocate" /\ m.class = "request")
            /\ ~(m.method = "allocate" /\ m.class = "success")
            /\ ~(m.method = "allocate" /\ m.class = "error")
            /\ ~(m.method = "refresh" /\ m.class = "request")
            /\ ~(m.method = "refresh" /\ m.class = "error")
            /\ ~(m.method = "bind" /\ m.class = "request")
            /\ ~(m.method \in {"send", "data"} /\ m.class = "indication")
  <2>1. r = [turn |-> t, diags |-> <<>>, media |-> FALSE]
    BY <1>12 DEF IngestStun
  <2> HIDE DEF t, r
  <2> QED
    BY <1>1, <1>3, <1>4, <2>1
<1> QED
  BY <1>5, <1>6, <1>7, <1>8, <1>9, <1>10, <1>11, <1>12

LEMMA StunRecalled ==
  ASSUME NEW flow, NEW m, NEW ssrc, NEW pt, Recalled(core, hist), Stun(flow, m, ssrc, pt)
  PROVE  Recalled(core', hist')
<1> DEFINE r == IngestStun(core.turn, clock, flow, m)
           b == [core EXCEPT !.turn = r.turn]
           told == AddDiags(b, TurnDiags(r.diags), FALSE)
<1>1. /\ r.media => /\ core' = IngestRtp(told, <<flow, ssrc>>, pt, "send")
                    /\ hist' = Accepted(hist, core', <<flow, ssrc>>)
      /\ ~r.media => core' = told /\ hist' = hist
  BY DEF Stun
<1>2. Tracked(r, hist)
  BY StunTracked DEF Recalled
<1> HIDE DEF r
<1>3. /\ DOMAIN b = CoreFields /\ b.rr = core.rr /\ b.done = core.done /\ b.turn = r.turn
      /\ b.born = core.born /\ b.streams = core.streams
  BY DEF Recalled, CoreFields
<1> HIDE DEF b
<1>4. Recalled(b, hist)
  <2>1. Flowing(b, hist)
    BY <1>3 DEF Recalled, Flowing
  <2> QED
    BY <1>2, <1>3, <2>1 DEF Recalled, Tracked
<1>5. Same(b, told)
  <2>1. PICK n \in Nat : DOMAIN TurnDiags(r.diags) = 1 .. n
    BY <1>2, TurnReport DEF Tracked
  <2> QED
    BY <1>3, <2>1, DiagsSameN
<1> HIDE DEF told
<1>6. Recalled(told, hist)
  BY <1>4, <1>5, SameRecalled
<1>7. DOMAIN core.streams = DOMAIN told.streams
  BY <1>3, <1>5 DEF Same, SameStreams
<1>8. CASE r.media
  BY <1>1, <1>6, <1>7, <1>8, RtpRecalled
<1>9. CASE ~r.media
  BY <1>1, <1>6, <1>9
<1> QED
  BY <1>8, <1>9

-----------------------------------------------------------------------------
(* Maintenance *)
LEMMA PrunedGood ==
  ASSUME NEW t, NEW new, GoodTurn(t), Pruned(t, new)
  PROVE  /\ GoodTurn(new)
         /\ \A c \in DOMAIN new.allocs : c \in DOMAIN t.allocs /\ new.allocs[c] = t.allocs[c]
         /\ Cardinality(DOMAIN new.allocs) <= MaxAllocs
         /\ Cardinality(new.relays) <= MaxRelays /\ Cardinality(new.servers) <= MaxServers
<1>1. PICK a \in SUBSET DOMAIN t.allocs, r \in SUBSET t.relays, s \in SUBSET t.servers :
        /\ KeptAllocs(t.allocs, a) /\ KeptOf(t.relays, MaxRelays, r) /\ KeptOf(t.servers, MaxServers, s)
        /\ new = [allocs |-> [c \in a |-> t.allocs[c]], relays |-> r, servers |-> s]
  BY DEF Pruned
<1>2. IsFiniteSet(a) /\ IsFiniteSet(r) /\ IsFiniteSet(s)
  BY FS_Subset DEF GoodTurn
<1>3. /\ Cardinality(DOMAIN t.allocs) \in Nat /\ Cardinality(t.relays) \in Nat
      /\ Cardinality(t.servers) \in Nat
  BY FS_CardinalityType DEF GoodTurn
<1>4. Cardinality(a) <= MaxAllocs
  BY <1>1, <1>3, TurnAssumption DEF KeptAllocs
<1>5. Cardinality(r) <= MaxRelays /\ Cardinality(s) <= MaxServers
  BY <1>1, <1>3, TurnAssumption DEF KeptOf
<1>6. /\ DOMAIN new = TurnFields /\ DOMAIN new.allocs = a /\ new.relays = r /\ new.servers = s
      /\ \A c \in a : new.allocs[c] = t.allocs[c]
  BY <1>1 DEF TurnFields
<1>7. GoodTurn(new)
  BY <1>2, <1>6 DEF GoodTurn
<1> QED
  BY <1>4, <1>5, <1>6, <1>7

(* Of streams that began at different times, fewer than MaxStreams are     *)
(* later than any one that is kept.                                        *)
LEMMA EvictBounds ==
  ASSUME NEW ss, NEW born, GoodStreams(ss, born),
         NEW K, K = {k \in DOMAIN ss :
                       Cardinality({j \in DOMAIN ss : ss[j].born > ss[k].born}) < MaxStreams}
  PROVE  Cardinality(K) <= MaxStreams
<1>1. IsFiniteSet(DOMAIN ss) /\ IsFiniteSet(K) /\ K \subseteq DOMAIN ss
  BY FS_Subset DEF GoodStreams
<1>2. CASE K = {}
  <2>1. Cardinality(K) = 0
    BY <1>2, FS_EmptySet
  <2>2. MaxStreams \in Nat
    BY IngestAssumption
  <2> QED
    BY <2>1, <2>2
<1>3. CASE K # {}
  <2> DEFINE B == {ss[k].born : k \in K}
  <2>1. B \in SUBSET Nat /\ B # {}
    <3>1. \A k \in K : ss[k].born \in Nat
      BY <1>1 DEF GoodStreams
    <3> QED
      BY <1>3, <3>1
  <2>2. PICK y \in B : \A z \in B : y <= z
    BY <2>1, LeastNat
  <2>3. PICK k \in K : y = ss[k].born
    OBVIOUS
  <2> DEFINE L == {j \in DOMAIN ss : ss[j].born > ss[k].born}
  <2>4. IsFiniteSet(L) /\ Cardinality(L) \in Nat /\ Cardinality(L) < MaxStreams
    BY <1>1, FS_Subset, FS_CardinalityType
  <2>5. ASSUME NEW j \in K PROVE j \in L \cup {k}
    <3>1. ss[k].born <= ss[j].born
      BY <2>2, <2>3
    <3>2. ss[j].born \in Nat /\ ss[k].born \in Nat /\ (ss[j].born = ss[k].born => j = k)
      BY <1>1 DEF GoodStreams
    <3>3. j # k => ss[j].born > ss[k].born
      BY <3>1, <3>2
    <3> QED
      BY <1>1, <3>3
  <2>6. k \notin L
    BY <1>1 DEF GoodStreams
  <2> HIDE DEF L
  <2>7. IsFiniteSet(L \cup {k}) /\ Cardinality(L \cup {k}) <= Cardinality(L) + 1
    <3>1. IsFiniteSet(L \cup {k}) /\ Cardinality(L \cup {k}) = Cardinality(L) + 1
      BY <2>4, <2>6, FS_AddElement, Zenon
    <3> QED
      BY <2>4, <3>1
  <2>8. K \subseteq L \cup {k}
    BY <2>5
  <2>9. Cardinality(K) <= Cardinality(L \cup {k}) /\ Cardinality(K) \in Nat
    BY <1>1, <2>7, <2>8, FS_Subset, FS_CardinalityType
  <2>10. Cardinality(L \cup {k}) \in Nat
    BY <2>7, FS_CardinalityType
  <2> QED
    BY <2>4, <2>7, <2>9, <2>10, IngestAssumption
<1> QED
  BY <1>2, <1>3

LEMMA FlushRecalled ==
  ASSUME Recalled(core, hist), Flush
  PROVE  /\ Recalled(core', hist')
         /\ Cardinality(DOMAIN core'.turn.allocs) <= MaxAllocs
         /\ Cardinality(core'.turn.relays) <= MaxRelays
         /\ Cardinality(core'.turn.servers) <= MaxServers
         /\ Cardinality(DOMAIN core'.streams) <= MaxStreams
<1>1. PICK new :
        LET st == [core EXCEPT !.turn = new]
            kept == EvictStreams(st)
        IN /\ Pruned(core.turn, new)
           /\ IF Stale(st, clock')
                THEN /\ core' = Removed(st)
                     /\ hist' = [NewHist EXCEPT !.alarms = hist.alarms,
                                  !.pruned = hist.pruned \/ new.relays # core.turn.relays]
                ELSE /\ core' = kept
                     /\ hist' = [hist EXCEPT !.evicted = @ \/ kept # st,
                                  !.pruned = @ \/ new.relays # core.turn.relays]
  BY Zenon DEF Flush
<1> DEFINE st == [core EXCEPT !.turn = new]
           kept == EvictStreams(st)
           ev == hist.evicted \/ kept # st
           pr == hist.pruned \/ new.relays # core.turn.relays
           gone == [NewHist EXCEPT !.alarms = hist.alarms, !.pruned = pr]
           on == [hist EXCEPT !.evicted = ev, !.pruned = pr]
<1>2. /\ Pruned(core.turn, new)
      /\ Stale(st, clock') => core' = Removed(st) /\ hist' = gone
      /\ ~Stale(st, clock') => core' = kept /\ hist' = on
  BY <1>1, Zenon
<1>3. /\ DOMAIN st = CoreFields /\ st.rr = core.rr /\ st.done = core.done /\ st.turn = new
      /\ st.born = core.born /\ st.streams = core.streams
  BY DEF Recalled, CoreFields
<1> HIDE DEF st
<1>4. /\ GoodTurn(new)
      /\ \A c \in DOMAIN new.allocs :
           c \in DOMAIN core.turn.allocs /\ new.allocs[c] = core.turn.allocs[c]
      /\ Cardinality(DOMAIN new.allocs) <= MaxAllocs
      /\ Cardinality(new.relays) <= MaxRelays /\ Cardinality(new.servers) <= MaxServers
  BY <1>2, PrunedGood DEF Recalled
<1>5. pr \in BOOLEAN /\ ev \in BOOLEAN
  OBVIOUS
<1>6. pr = FALSE => hist.pruned = FALSE /\ new.relays = core.turn.relays
  <2>1. hist.pruned \in BOOLEAN
    BY DEF Recalled
  <2> QED
    BY <2>1, Zenon
<1>7. ev = FALSE => hist.evicted = FALSE /\ kept = st
  <2>1. hist.evicted \in BOOLEAN
    BY DEF Recalled
  <2> QED
    BY <2>1, Zenon
<1> HIDE DEF pr, ev
<1>8. ASSUME NEW g, g.pruned = pr PROVE Known(new, g)
  BY <1>4, <1>6, <1>8 DEF Known, Recalled
<1>9. CASE Stale(st, clock')
  <2>1. Afresh(hist, gone) /\ gone.pruned = pr
    BY DEF Afresh, NewHist, HistFields
  <2> HIDE DEF gone
  <2>2. Recalled(Removed(st), gone)
    BY <1>3, <1>4, <1>5, <1>8, <2>1, RemovedRecalled DEF Recalled, GoodStreams
  <2>3. Removed(st).turn = new /\ Removed(st).streams = <<>>
    BY <1>3 DEF Removed, CoreFields
  <2>4. Cardinality(DOMAIN Removed(st).streams) <= MaxStreams
    <3>1. DOMAIN Removed(st).streams = {}
      BY <2>3
    <3> QED
      BY <3>1, FS_EmptySet, IngestAssumption
  <2> QED
    BY <1>2, <1>4, <1>9, <2>2, <2>3, <2>4
<1>10. CASE ~Stale(st, clock')
  <2>1. /\ DOMAIN on = HistFields /\ on.rr = hist.rr /\ on.flows = hist.flows
        /\ on.samples = hist.samples /\ on.alarms = hist.alarms
        /\ on.evicted = ev /\ on.pruned = pr
    BY DEF Recalled, HistFields
  <2> DEFINE K == {k \in DOMAIN st.streams :
                 Cardinality({j \in DOMAIN st.streams : st.streams[j].born > st.streams[k].born})
                   < MaxStreams}
  <2>2. /\ DOMAIN kept = CoreFields /\ kept.rr = st.rr /\ kept.done = st.done
        /\ kept.turn = st.turn /\ kept.born = st.born
        /\ kept.streams = [k \in K |-> st.streams[k]]
    BY <1>3, EvictIs, Zenon
  <2> HIDE DEF kept, on
  <2>3. GoodStreams(st.streams, st.born) /\ Sampling(st.streams, hist.samples)
    BY <1>3 DEF Recalled
  <2>4. Cardinality(K) <= MaxStreams
    BY <2>3, EvictBounds, Zenon
  <2>5. K \in SUBSET DOMAIN st.streams
    OBVIOUS
  <2> HIDE DEF K
  <2>6. DOMAIN kept.streams = K
    BY <2>2
  <2>7. GoodStreams(kept.streams, kept.born) /\ Sampling(kept.streams, on.samples)
    BY <2>1, <2>2, <2>3, <2>5, FewerStreams
  <2>8. Flowing(kept, on)
    <3> SUFFICES ASSUME on.evicted = FALSE, kept.done = FALSE
                 PROVE  \A f \in on.flows : \E k \in DOMAIN kept.streams : k[1] = f
      BY DEF Flowing
    <3>1. hist.evicted = FALSE /\ kept = st /\ core.done = FALSE
      BY <1>3, <1>7, <2>1
    <3> QED
      BY <1>3, <2>1, <3>1 DEF Recalled, Flowing
  <2>9. Known(kept.turn, on) /\ GoodTurn(kept.turn)
    BY <1>3, <1>4, <1>8, <2>1, <2>2
  <2>10. Recalled(kept, on)
    BY <1>3, <1>5, <2>1, <2>2, <2>7, <2>8, <2>9 DEF Recalled
  <2> QED
    BY <1>2, <1>3, <1>4, <1>10, <2>2, <2>4, <2>6, <2>10
<1> QED
  BY <1>9, <1>10

LEMMA ClearRecalled ==
  ASSUME Recalled(core, hist), Clear PROVE Recalled(core', hist')
<1> DEFINE t == ClearTurn(core.turn)
           c == [NewCore EXCEPT !.turn = t]
           g == [NewHist EXCEPT !.alarms = hist.alarms]
<1>1. core' = c /\ hist' = g
  BY DEF Clear
<1>2. DOMAIN t = TurnFields /\ t.allocs = <<>> /\ t.relays = {} /\ t.servers = core.turn.servers
  BY DEF Recalled, GoodTurn, TurnFields, ClearTurn
<1> HIDE DEF t
<1>3. DOMAIN t.allocs = {}
  BY <1>2
<1>4. GoodTurn(t) /\ Known(t, g)
  <2>1. IsFiniteSet({}) /\ IsFiniteSet(core.turn.servers)
    BY FS_EmptySet DEF Recalled, GoodTurn
  <2> QED
    BY <1>2, <1>3, <2>1 DEF GoodTurn, Known
<1>5. /\ DOMAIN c = CoreFields /\ c.rr = Nothing /\ c.done = FALSE /\ c.streams = <<>>
      /\ c.turn = t /\ c.born = 0
  BY DEF NewCore, CoreFields
<1>6. Afresh(hist, g) /\ g.pruned = FALSE
  BY DEF Afresh, NewHist, HistFields
<1> HIDE DEF c, g
<1>7. GoodStreams(c.streams, c.born) /\ Sampling(c.streams, g.samples)
  BY <1>5, <1>6, NothingHeld DEF Afresh
<1>8. Flowing(c, g) /\ Justified(g.alarms)
  BY <1>6 DEF Flowing, Afresh, Recalled
<1> QED
  BY <1>1, <1>4, <1>5, <1>6, <1>7, <1>8 DEF Recalled, Afresh, Routes

-----------------------------------------------------------------------------
(* Sequences of anything, and where something first stands in one *)
Vec(q) == q \in Seq(ToSet(q))

LEMMA VecIs == ASSUME NEW n \in Nat, NEW q, q = [i \in 1 .. n |-> q[i]] PROVE Vec(q) /\ Len(q) = n
<1> DEFINE T == ToSet(q)
<1>1. q \in [1 .. n -> T]
  BY DEF ToSet
<1>2. DOMAIN q = 1 .. n
  OBVIOUS
<1> HIDE DEF T
<1>3. [1 .. n -> T] \in {[1 .. m -> T] : m \in Nat}
  OBVIOUS
<1>4. q \in UNION {[1 .. m -> T] : m \in Nat}
  BY <1>1, <1>3, Zenon
<1>5. q \in Seq(T)
  BY <1>4, SeqDef, Zenon
<1>6. Len(q) = n
  BY <1>2, <1>5
<1> QED
  BY <1>5, <1>6 DEF Vec, T

LEMMA VecFacts ==
  ASSUME NEW q, Vec(q)
  PROVE  Len(q) \in Nat /\ DOMAIN q = 1 .. Len(q) /\ q = [i \in 1 .. Len(q) |-> q[i]]
BY DEF Vec

IsJoin(c, q, r) == c = q \o r

Follows(c, q, r) ==
  /\ Vec(c) /\ Len(c) = Len(q) + Len(r)
  /\ \A i \in 1 .. Len(q) : c[i] = q[i]
  /\ \A i \in 1 .. Len(r) : c[Len(q) + i] = r[i]
  /\ ToSet(c) = ToSet(q) \cup ToSet(r)

LEMMA VecJoin ==
  ASSUME NEW q, NEW r, Vec(q), Vec(r), NEW c, IsJoin(c, q, r)
  PROVE  Follows(c, q, r)
<1> DEFINE S == ToSet(q) \cup ToSet(r)
<1>0. q \in Seq(S) /\ r \in Seq(S)
  <2>1. ToSet(q) \subseteq S /\ ToSet(r) \subseteq S
    OBVIOUS
  <2> HIDE DEF S
  <2> QED
    BY <2>1 DEF Vec
<1> HIDE DEF S
<1>1. /\ c \in Seq(S) /\ Len(c) = Len(q) + Len(r) /\ Len(q) \in Nat /\ Len(r) \in Nat
      /\ \A i \in 1 .. Len(q) : c[i] = q[i]
      /\ \A i \in 1 .. Len(r) : c[Len(q) + i] = r[i]
      /\ DOMAIN c = 1 .. Len(c) /\ DOMAIN q = 1 .. Len(q) /\ DOMAIN r = 1 .. Len(r)
      /\ c = [i \in 1 .. Len(c) |-> c[i]]
  <2>1. /\ c \in Seq(S) /\ Len(c) = Len(q) + Len(r) /\ Len(q) \in Nat /\ Len(r) \in Nat
    BY <1>0 DEF IsJoin
  <2>2. /\ \A i \in 1 .. Len(q) : c[i] = q[i]
        /\ \A i \in 1 .. Len(r) : c[Len(q) + i] = r[i]
    BY <1>0 DEF IsJoin
  <2>3. DOMAIN c = 1 .. Len(c) /\ c = [i \in 1 .. Len(c) |-> c[i]]
    BY <2>1
  <2> QED
    BY <2>1, <2>2, <2>3, VecFacts
<1>2. Vec(c)
  BY <1>1, VecIs
<1>3. ASSUME NEW i \in DOMAIN c PROVE i \in 1 .. Len(q) \/ \E j \in 1 .. Len(r) : i = Len(q) + j
  <2>1. i \in 1 .. Len(q) \/ (i - Len(q) \in 1 .. Len(r) /\ i = Len(q) + (i - Len(q)))
    BY <1>1
  <2> QED
    BY <2>1
<1>4. ToSet(c) \subseteq ToSet(q) \cup ToSet(r)
  BY <1>1, <1>3 DEF ToSet
<1>5. ToSet(q) \subseteq ToSet(c)
  BY <1>1 DEF ToSet
<1>6. ToSet(r) \subseteq ToSet(c)
  <2>1. \A i \in 1 .. Len(r) : Len(q) + i \in DOMAIN c
    BY <1>1
  <2> QED
    BY <1>1, <2>1 DEF ToSet
<1> QED
  BY <1>1, <1>2, <1>4, <1>5, <1>6 DEF Follows

LEMMA FirstAt ==
  ASSUME NEW q, Vec(q), NEW x \in ToSet(q)
  PROVE  LET p == Position(q, x)
         IN p \in DOMAIN q /\ q[p] = x /\ \A j \in 1 .. (p - 1) : q[j] # x
<1> DEFINE at == {i \in DOMAIN q : q[i] = x}
<1>1. DOMAIN q = 1 .. Len(q) /\ Len(q) \in Nat
  BY VecFacts
<1>2. at \in SUBSET Nat /\ at # {}
  BY <1>1 DEF ToSet
<1>3. PICK i \in at : \A j \in at : i <= j
  BY <1>2, LeastNat
<1>4. i \in DOMAIN q /\ q[i] = x /\ \A j \in 1 .. (i - 1) : q[j] # x
  BY <1>1, <1>3
<1>5. Position(q, x) = CHOOSE k \in DOMAIN q : q[k] = x /\ \A j \in 1 .. (k - 1) : q[j] # x
  BY DEF Position
<1> HIDE DEF at
<1> QED
  BY <1>4, <1>5

LEMMA FirstIs ==
  ASSUME NEW q, Vec(q), NEW p \in DOMAIN q, \A j \in 1 .. (p - 1) : q[j] # q[p]
  PROVE  Position(q, q[p]) = p
<1> DEFINE x == q[p]
           i == Position(q, x)
<1>1. DOMAIN q = 1 .. Len(q) /\ Len(q) \in Nat /\ x \in ToSet(q)
  BY VecFacts DEF ToSet
<1>2. i \in DOMAIN q /\ q[i] = x /\ \A j \in 1 .. (i - 1) : q[j] # x
  BY <1>1, FirstAt
<1> HIDE DEF i
<1>3. ~(i < p) /\ ~(p < i)
  BY <1>1, <1>2
<1> QED
  BY <1>1, <1>2, <1>3 DEF i

LEMMA NowhereAt == ASSUME NEW q, NEW x, x \notin ToSet(q) PROVE Position(q, x) = 0
BY DEF Position

Found(c, q, r, x) ==
  /\ x \in ToSet(q) => Position(c, x) = Position(q, x)
  /\ (x \notin ToSet(q) /\ x \in ToSet(r)) =>
       \E i \in 1 .. Len(r) : Position(c, x) = Len(q) + i /\ r[i] = x

LEMMA FirstInJoin ==
  ASSUME NEW q, NEW r, Vec(q), Vec(r), NEW c, IsJoin(c, q, r), NEW x
  PROVE  Found(c, q, r, x)
<1>1. /\ Vec(c) /\ Len(c) = Len(q) + Len(r)
      /\ \A i \in 1 .. Len(q) : c[i] = q[i]
      /\ \A i \in 1 .. Len(r) : c[Len(q) + i] = r[i]
      /\ ToSet(c) = ToSet(q) \cup ToSet(r)
  BY VecJoin DEF Follows
<1>2. /\ DOMAIN q = 1 .. Len(q) /\ Len(q) \in Nat /\ DOMAIN r = 1 .. Len(r) /\ Len(r) \in Nat
      /\ DOMAIN c = 1 .. Len(c)
  BY <1>1, VecFacts
<1>3. ASSUME x \in ToSet(q) PROVE Position(c, x) = Position(q, x)
  <2> DEFINE p == Position(q, x)
  <2>1. p \in DOMAIN q /\ q[p] = x /\ \A j \in 1 .. (p - 1) : q[j] # x
    BY <1>3, FirstAt
  <2> HIDE DEF p
  <2>2. p \in DOMAIN c /\ c[p] = x /\ \A j \in 1 .. (p - 1) : c[j] # x
    BY <1>1, <1>2, <2>1
  <2>3. Position(c, c[p]) = p
    BY <1>1, <2>2, FirstIs
  <2> QED
    BY <2>2, <2>3 DEF p
<1>4. ASSUME x \notin ToSet(q), x \in ToSet(r)
      PROVE  \E i \in 1 .. Len(r) : Position(c, x) = Len(q) + i /\ r[i] = x
  <2> DEFINE p == Position(c, x)
  <2>1. x \in ToSet(c)
    BY <1>1, <1>4
  <2>2. p \in DOMAIN c /\ c[p] = x
    BY <1>1, <2>1, FirstAt
  <2> HIDE DEF p
  <2>3. p \notin 1 .. Len(q)
    BY <1>1, <1>2, <1>4, <2>2 DEF ToSet
  <2>4. p - Len(q) \in 1 .. Len(r) /\ p = Len(q) + (p - Len(q))
    BY <1>1, <1>2, <2>2, <2>3
  <2>5. r[p - Len(q)] = x
    BY <1>1, <2>2, <2>4
  <2> QED
    BY <2>4, <2>5 DEF p
<1> QED
  BY <1>3, <1>4 DEF Found

-----------------------------------------------------------------------------
(* The clock rate of every payload type *)
Paired(n) == Vec(n.pts) /\ Vec(n.rates) /\ Len(n.rates) = Len(n.pts)

LEMMA RateIs ==
  ASSUME NEW n, NEW pt
  PROVE  /\ (Position(n.pts, pt) \in DOMAIN n.rates /\ n.rates[Position(n.pts, pt)] > 0) =>
              RateFor(n, pt) = n.rates[Position(n.pts, pt)]
         /\ ~(Position(n.pts, pt) \in DOMAIN n.rates /\ n.rates[Position(n.pts, pt)] > 0) =>
              RateFor(n, pt) = DefaultRate(pt)
BY Zenon DEF RateFor

LEMMA DefaultPositive == \A pt : DefaultRate(pt) \in Int /\ DefaultRate(pt) > 0
BY DEF DefaultRate

LEMMA UnlistedRate ==
  ASSUME NEW n, Paired(n), NEW pt, pt \notin ToSet(n.pts) PROVE RateFor(n, pt) = DefaultRate(pt)
<1>1. Position(n.pts, pt) = 0 /\ 0 \notin DOMAIN n.rates
  BY NowhereAt, VecFacts DEF Paired
<1> QED
  BY <1>1, RateIs

LEMMA ListedRate ==
  ASSUME NEW n, Paired(n), NEW pt \in ToSet(n.pts)
  PROVE  RateFor(n, pt) = IF n.rates[Position(n.pts, pt)] > 0
                            THEN n.rates[Position(n.pts, pt)] ELSE DefaultRate(pt)
<1>1. Position(n.pts, pt) \in DOMAIN n.rates
  BY FirstAt, VecFacts DEF Paired
<1> QED
  BY <1>1, RateIs

LEMMA PayloadVec == ASSUME NEW s, IsFiniteSet(Formats(s)) PROVE Vec(PayloadTypes(s))
<1> DEFINE all == Formats(s)
           n == Cardinality(all)
           F(i) == CHOOSE pt \in all : Cardinality({x \in all : x < pt}) = i - 1
           q == [i \in 1 .. n |-> F(i)]
<1>1. PayloadTypes(s) = q
  BY DEF PayloadTypes
<1>2. n \in Nat
  BY FS_CardinalityType
<1> HIDE DEF n, F
<1>3. q = [i \in 1 .. n |-> q[i]]
  OBVIOUS
<1> HIDE DEF q
<1>4. Vec(q)
  BY <1>2, <1>3, VecIs
<1> QED
  BY <1>1, <1>4

LEMMA OfferedIs ==
  ASSUME NEW s, IsFiniteSet(Formats(s))
  PROVE  LET n == Offered(s)
         IN /\ Paired(n) /\ n.pts = PayloadTypes(s)
            /\ \A pt \in ToSet(n.pts) : RateFor(n, pt) = StatedRate(s, pt)
<1> DEFINE n == Offered(s)
           pts == PayloadTypes(s)
           rates == [i \in DOMAIN pts |-> ClockRate(s, pts[i])]
<1>1. n.pts = pts /\ n.rates = rates
  <2> DEFINE ends == Endpoints(s)
             names == [i \in DOMAIN pts |-> CodecName(s, pts[i])]
             codecs == Only(names, ToSet(names) \ {Nothing})
  <2>1. n = [endpoints |-> ends, pts |-> pts, codecs |-> codecs, rates |-> rates]
    BY Zenon DEF Offered
  <2> HIDE DEF n, ends, pts, codecs, rates
  <2> QED
    BY <2>1
<1> HIDE DEF n
<1>2. Vec(pts) /\ Len(pts) \in Nat /\ DOMAIN pts = 1 .. Len(pts)
  BY PayloadVec, VecFacts
<1> HIDE DEF pts
<1>3. rates = [i \in 1 .. Len(pts) |-> rates[i]] /\ \A i \in DOMAIN pts : rates[i] = ClockRate(s, pts[i])
  BY <1>2
<1> HIDE DEF rates
<1>4. Vec(rates) /\ Len(rates) = Len(pts)
  BY <1>2, <1>3, VecIs
<1>5. Paired(n)
  BY <1>1, <1>2, <1>4 DEF Paired
<1>6. ASSUME NEW pt \in ToSet(n.pts) PROVE RateFor(n, pt) = StatedRate(s, pt)
  <2> DEFINE p == Position(n.pts, pt)
  <2>1. p \in DOMAIN pts /\ pts[p] = pt
    BY <1>1, <1>2, FirstAt
  <2>2. n.rates[p] = ClockRate(s, pt)
    BY <1>1, <1>3, <2>1
  <2>3. RateFor(n, pt) = IF n.rates[p] > 0 THEN n.rates[p] ELSE DefaultRate(pt)
    BY <1>5, ListedRate
  <2> HIDE DEF p
  <2> QED
    BY <2>2, <2>3 DEF StatedRate
<1> QED
  BY <1>1, <1>5, <1>6 DEF n, pts

LEMMA OnlyNew ==
  ASSUME NEW q, NEW m, Vec(m)
  PROVE  LET new == Only(m, ToSet(m) \ ToSet(q)) IN Vec(new) /\ ToSet(new) = ToSet(m) \ ToSet(q)
<1> DEFINE S == ToSet(m) \ ToSet(q)
           new == Only(m, S)
<1>0. Len(m) \in Nat /\ DOMAIN m = 1 .. Len(m)
  BY VecFacts
<1>1. new \in Seq(S)
  BY <1>0, OnlyIn
<1>2. ASSUME NEW x PROVE (\E i \in DOMAIN new : new[i] = x) <=> x \in S /\ \E i \in 1 .. Len(m) : m[i] = x
  <2> HIDE DEF S
  <2> QED
    BY <1>0, OnlyOf
<1>3. \A x \in S : \E i \in 1 .. Len(m) : m[i] = x
  BY <1>0 DEF ToSet
<1> HIDE DEF new
<1>4. Len(new) \in Nat /\ new = [i \in 1 .. Len(new) |-> new[i]]
  BY <1>1
<1>5. Vec(new)
  BY <1>4, VecIs
<1>6. \A x : x \in ToSet(new) <=> x \in S
  <2>1. \A x : x \in ToSet(new) <=> \E i \in DOMAIN new : new[i] = x
    BY DEF ToSet
  <2> QED
    BY <1>2, <1>3, <2>1
<1>7. ToSet(new) = S
  BY <1>6
<1> QED
  BY <1>5, <1>7, Zenon DEF new
(* What an answer adds to what is known *)
LEMMA MergedIs ==
  ASSUME NEW old, NEW n, Paired(old), Paired(n)
  PROVE  LET g == Merged(old, n)
         IN /\ Paired(g) /\ ToSet(g.pts) = ToSet(old.pts) \cup ToSet(n.pts)
            /\ \A pt : RateFor(g, pt) = IF pt \in ToSet(old.pts) THEN RateFor(old, pt) ELSE RateFor(n, pt)
<1>0. PICK q, u : q = old.pts /\ u = old.rates
  OBVIOUS
<1> DEFINE new == Only(n.pts, ToSet(n.pts) \ ToSet(q))
           pts == q \o new
           k == Len(q)
           add == [i \in 1 .. (Len(pts) - k) |-> RateFor(n, pts[k + i])]
           rates == u \o add
           g == Merged(old, n)
<1>1. g.pts = pts /\ g.rates = rates
  <2> DEFINE ends == old.endpoints \cup n.endpoints
             codecs == Joined(old.codecs, n.codecs)
  <2>1. g = [endpoints |-> ends, pts |-> pts, codecs |-> codecs, rates |-> rates]
    BY <1>0, Zenon DEF Merged, Joined
  <2> HIDE DEF g, ends, pts, codecs, rates
  <2> QED
    BY <2>1
<1> HIDE DEF g
<1>2. /\ Vec(q) /\ k \in Nat /\ DOMAIN q = 1 .. k
      /\ Vec(u) /\ Len(u) = k /\ DOMAIN u = 1 .. k
      /\ Vec(n.pts) /\ Len(n.pts) \in Nat /\ DOMAIN n.pts = 1 .. Len(n.pts)
  BY <1>0, VecFacts DEF Paired
<1>3. Vec(new) /\ ToSet(new) = ToSet(n.pts) \ ToSet(q)
  BY <1>2, OnlyNew
<1> HIDE DEF new
<1>4. /\ Vec(pts) /\ Len(pts) = k + Len(new) /\ Len(new) \in Nat
      /\ \A i \in 1 .. Len(new) : pts[k + i] = new[i]
      /\ ToSet(pts) = ToSet(q) \cup ToSet(new)
  <2>1. Len(new) \in Nat
    BY <1>3, VecFacts
  <2>2. IsJoin(pts, q, new)
    BY DEF IsJoin
  <2> HIDE DEF pts
  <2>3. Follows(pts, q, new)
    BY <1>2, <1>3, <2>2, VecJoin, Zenon
  <2> QED
    BY <2>1, <2>3 DEF Follows
<1>5. /\ \A pt \in ToSet(q) : Position(pts, pt) = Position(q, pt)
      /\ \A pt \in ToSet(new) : \E i \in 1 .. Len(new) : Position(pts, pt) = k + i /\ new[i] = pt
  <2>1. ASSUME NEW pt
        PROVE  /\ pt \in ToSet(q) => Position(pts, pt) = Position(q, pt)
               /\ (pt \notin ToSet(q) /\ pt \in ToSet(new)) =>
                    \E i \in 1 .. Len(new) : Position(pts, pt) = k + i /\ new[i] = pt
    <3>1. IsJoin(pts, q, new)
      BY DEF IsJoin
    <3> HIDE DEF pts
    <3>2. Found(pts, q, new, pt)
      BY <1>2, <1>3, <3>1, FirstInJoin, Zenon
    <3> QED
      BY <3>2, Zenon DEF Found
  <2> HIDE DEF pts, k
  <2> QED
    BY <1>3, <2>1
<1> HIDE DEF pts
<1>6. /\ Vec(add) /\ Len(add) = Len(new)
      /\ \A i \in 1 .. Len(new) : add[i] = RateFor(n, new[i])
  <2>1. Len(pts) - k = Len(new)
    BY <1>2, <1>4
  <2>2. add = [i \in 1 .. Len(new) |-> add[i]]
    BY <2>1
  <2>3. \A i \in 1 .. Len(new) : add[i] = RateFor(n, new[i])
    BY <1>4, <2>1
  <2> HIDE DEF add
  <2> QED
    BY <1>4, <2>2, <2>3, VecIs
<1> HIDE DEF add
<1>7. /\ Vec(rates) /\ Len(rates) = k + Len(new)
      /\ \A i \in 1 .. k : rates[i] = u[i]
      /\ \A i \in 1 .. Len(new) : rates[k + i] = add[i]
  <2>1. /\ Vec(rates) /\ Len(rates) = Len(u) + Len(add)
        /\ \A i \in 1 .. Len(u) : rates[i] = u[i]
        /\ \A i \in 1 .. Len(add) : rates[Len(u) + i] = add[i]
    <3>1. IsJoin(rates, u, add)
      BY DEF IsJoin
    <3> HIDE DEF rates
    <3>2. Follows(rates, u, add)
      BY <1>2, <1>6, <3>1, VecJoin, Zenon
    <3> QED
      BY <3>2 DEF Follows
  <2> HIDE DEF rates, k
  <2> QED
    BY <1>2, <1>6, <2>1
<1> HIDE DEF rates, k
<1>8. Paired(g)
  BY <1>1, <1>4, <1>7 DEF Paired
<1>9. ToSet(g.pts) = ToSet(q) \cup ToSet(n.pts)
  BY <1>1, <1>3, <1>4
<1>10. ASSUME NEW pt \in ToSet(q) PROVE RateFor(g, pt) = RateFor(old, pt)
  <2> DEFINE p == Position(q, pt)
  <2>1. p \in 1 .. k /\ Position(g.pts, pt) = p
    BY <1>1, <1>2, <1>5, FirstAt
  <2>2. g.rates[p] = u[p] /\ pt \in ToSet(g.pts)
    BY <1>1, <1>7, <1>9, <2>1
  <2>3. /\ RateFor(g, pt) = IF g.rates[p] > 0 THEN g.rates[p] ELSE DefaultRate(pt)
        /\ RateFor(old, pt) = IF u[p] > 0 THEN u[p] ELSE DefaultRate(pt)
    BY <1>0, <1>8, <2>1, <2>2, ListedRate
  <2> QED
    BY <2>2, <2>3
<1>11. ASSUME NEW pt \in ToSet(new) PROVE RateFor(g, pt) = RateFor(n, pt)
  <2>1. PICK i \in 1 .. Len(new) : Position(g.pts, pt) = k + i /\ new[i] = pt
    BY <1>1, <1>5
  <2>2. g.rates[k + i] = RateFor(n, pt) /\ pt \in ToSet(g.pts)
    BY <1>1, <1>3, <1>6, <1>7, <1>9, <2>1
  <2>3. RateFor(n, pt) > 0
    BY RateIs, DefaultPositive
  <2>4. RateFor(g, pt) = IF g.rates[k + i] > 0 THEN g.rates[k + i] ELSE DefaultRate(pt)
    BY <1>8, <2>1, <2>2, ListedRate
  <2> QED
    BY <2>2, <2>3, <2>4
<1>12. ASSUME NEW pt, pt \notin ToSet(g.pts) PROVE RateFor(g, pt) = RateFor(n, pt)
  BY <1>8, <1>9, <1>12, UnlistedRate
<1>13. ASSUME NEW pt
       PROVE  RateFor(g, pt) = IF pt \in ToSet(q) THEN RateFor(old, pt) ELSE RateFor(n, pt)
  BY <1>3, <1>9, <1>10, <1>11, <1>12
<1> QED
  BY <1>0, <1>8, <1>9, <1>13 DEF g

-----------------------------------------------------------------------------
(* What the call knows of its media, and what its streams are measured with *)
NegOf(st) == IF st.call = NoCall THEN NoMedia ELSE st.call.neg
RateOf(rates, pt) == IF pt \in DOMAIN rates THEN rates[pt] ELSE DefaultRate(pt)
Agreed(neg, rates) ==
  /\ Paired(neg) /\ ToSet(neg.pts) = DOMAIN rates
  /\ \A pt : RateFor(neg, pt) = RateOf(rates, pt)
OnClock(x, neg) == x.last_pt = x.pt /\ x.rate = RateFor(neg, x.pt)
HasNeg(c) == c # NoCall => "neg" \in DOMAIN c
Measured(ss, neg, switched) == \A k \in DOMAIN ss : k \notin switched => OnClock(ss[k], neg)
Timed(st, h) ==
  /\ HasNeg(st.call)
  /\ st.call = NoCall => st.endpoints = {} /\ DOMAIN st.streams = {}
  /\ Agreed(NegOf(st), h.rates) /\ Measured(st.streams, NegOf(st), h.switched)

(* b keeps all of that *)
Carried(a, b) ==
  /\ b.endpoints = a.endpoints /\ b.streams = a.streams
  /\ HasNeg(b.call) /\ (b.call = NoCall <=> a.call = NoCall) /\ NegOf(b) = NegOf(a)

LEMMA CarriedSelf == \A a : HasNeg(a.call) => Carried(a, a)
BY DEF Carried

LEMMA CarriedTwice == ASSUME NEW a, NEW b, NEW c, Carried(a, b), Carried(b, c) PROVE Carried(a, c)
BY DEF Carried

LEMMA CarriedTimed == ASSUME NEW a, NEW b, NEW h, Timed(a, h), Carried(a, b) PROVE Timed(b, h)
BY DEF Carried, Timed

LEMMA IsACall == \A c : "neg" \in DOMAIN c => c # NoCall
<1>1. DOMAIN NoCall = {}
  BY DEF NoCall
<1> QED
  BY <1>1

LEMMA NobodyAgreed == Agreed(NoMedia, <<>>)
<1>1. NoMedia.pts = <<>> /\ NoMedia.rates = <<>>
  BY DEF NoMedia
<1>2. <<>> = [i \in 1 .. 0 |-> (<<>>)[i]] /\ DOMAIN <<>> = {} /\ ToSet(<<>>) = {}
  BY DEF ToSet
<1>3. Vec(<<>>)
  BY DEF Vec
<1>4. Paired(NoMedia)
  BY <1>1, <1>3 DEF Paired
<1>5. \A pt : RateFor(NoMedia, pt) = DefaultRate(pt)
  BY <1>1, <1>2, <1>4, UnlistedRate
<1> HIDE DEF Paired
<1> QED
  BY <1>1, <1>2, <1>4, <1>5 DEF Agreed, RateOf

LEMMA DiagCarried ==
  ASSUME NEW st, DOMAIN st = CoreFields, HasNeg(st.call), NEW d, NEW ofCall \in BOOLEAN
  PROVE  Carried(st, AddDiag(st, d, ofCall))
<1>1. CASE Level(d.sev) < Level(config.min)
  BY <1>1, CarriedSelf DEF AddDiag
<1>2. CASE ~(Level(d.sev) < Level(config.min))
  <2> DEFINE e == Counted(st.call, d)
             c == IF ~ofCall \/ st.call = NoCall THEN st.call ELSE e
             b == AddDiag(st, d, ofCall)
  <2>1. b.call = c
    BY <1>2 DEF AddDiag, CoreFields
  <2>4. b.endpoints = st.endpoints /\ b.streams = st.streams
    BY <1>2 DEF AddDiag, CoreFields
  <2>2. st.call # NoCall => "neg" \in DOMAIN e /\ e.neg = st.call.neg
    BY DEF HasNeg, Counted
  <2> HIDE DEF e
  <2>3. /\ HasNeg(c) /\ (c = NoCall <=> st.call = NoCall)
        /\ st.call # NoCall => c.neg = st.call.neg
    BY <2>2, IsACall DEF HasNeg
  <2> HIDE DEF c, b
  <2>5. Carried(st, b)
    BY <2>1, <2>3, <2>4 DEF Carried, NegOf
  <2> QED
    BY <2>5 DEF b
<1> QED
  BY <1>1, <1>2

LEMMA DiagsCarriedN ==
  ASSUME NEW st, DOMAIN st = CoreFields, HasNeg(st.call), NEW ds, NEW n \in Nat, DOMAIN ds = 1 .. n,
         NEW ofCall \in BOOLEAN
  PROVE  Carried(st, AddDiags(st, ds, ofCall))
<1>0. PICK g : DiagTrail(g, st, ds, ofCall, n)
  BY DiagSteps
<1>1. /\ g[0] = st /\ AddDiags(st, ds, ofCall) = g[n]
      /\ \A i \in 1 .. n : g[i] = AddDiag(g[i - 1], ds[i], ofCall)
  BY <1>0 DEF DiagTrail
<1> DEFINE N == {i \in Nat : i <= n => DOMAIN g[i] = CoreFields /\ Carried(st, g[i])}
<1>2. 0 \in N
  BY <1>1, CarriedSelf
<1>3. ASSUME NEW i \in N PROVE i + 1 \in N
  <2> SUFFICES ASSUME i + 1 <= n PROVE DOMAIN g[i + 1] = CoreFields /\ Carried(st, g[i + 1])
    OBVIOUS
  <2>1. DOMAIN g[i] = CoreFields /\ Carried(st, g[i]) /\ i + 1 \in 1 .. n /\ (i + 1) - 1 = i
    OBVIOUS
  <2>2. g[i + 1] = AddDiag(g[i], ds[i + 1], ofCall)
    BY <1>1, <2>1
  <2>3. HasNeg(g[i].call)
    BY <2>1 DEF Carried
  <2>4. Same(g[i], g[i + 1]) /\ Carried(g[i], g[i + 1])
    BY <2>1, <2>2, <2>3, DiagSame, DiagCarried
  <2> QED
    BY <2>1, <2>4, CarriedTwice DEF Same
<1> HIDE DEF N
<1>4. N \in SUBSET Nat
  BY DEF N
<1>5. N = Nat
  BY <1>2, <1>3, <1>4, SetInduction
<1> QED
  BY <1>1, <1>5 DEF N

LEMMA DiagsCarried ==
  ASSUME NEW st, DOMAIN st = CoreFields, HasNeg(st.call), NEW ds \in Seq(Diags)
  PROVE  Carried(st, AddDiags(st, ds, TRUE))
<1>1. Len(ds) \in Nat /\ DOMAIN ds = 1 .. Len(ds)
  OBVIOUS
<1> QED
  BY <1>1, DiagsCarriedN

(* The dialog's transitions leave the media alone. *)
KeepsNeg(c, d) == "neg" \in DOMAIN d /\ d.neg = c.neg

LEMMA RequestKeeps ==
  ASSUME NEW c, "neg" \in DOMAIN c, NEW m, NEW ts PROVE KeepsNeg(c, OnRequest(c, m, ts))
<1>1. KeepsNeg(c, c)
  BY DEF KeepsNeg
<1>2. KeepsNeg(c, OnInitialInvite(c, m, ts))
  <2>1. PICK x, y, z : OnInitialInvite(c, m, ts) =
          [c EXCEPT !.invite_ts = x, !.invite_key = y, !.active_ips = z, !.state = "Dialing"]
    BY DEF OnInitialInvite
  <2> QED
    BY <2>1 DEF KeepsNeg
<1>3. KeepsNeg(c, OnBye(c, m, ts))
  <2>1. PICK x, y : OnBye(c, m, ts) = [c EXCEPT !.bye_ts = x, !.hangup_by = y]
    BY DEF OnBye
  <2> QED
    BY <2>1 DEF KeepsNeg
<1>4. KeepsNeg(c, OnCancel(c, ts))
  <2>1. CASE c.state \in {"Completed", "Failed"}
    BY <1>1, <2>1 DEF OnCancel
  <2>2. CASE c.state \notin {"Completed", "Failed"}
    <3>1. PICK x : OnCancel(c, ts) = [c EXCEPT !.state = "Canceled", !.end_ts = ts, !.hangup_by = x]
      BY <2>2 DEF OnCancel
    <3> QED
      BY <3>1 DEF KeepsNeg
  <2> QED
    BY <2>1, <2>2
<1>5. OnRequest(c, m, ts) \in {OnInitialInvite(c, m, ts), OnBye(c, m, ts), OnCancel(c, ts), c}
  BY DEF OnRequest
<1> QED
  BY <1>1, <1>2, <1>3, <1>4, <1>5

LEMMA ResponseKeeps ==
  ASSUME NEW c, "neg" \in DOMAIN c, NEW m, NEW ts PROVE KeepsNeg(c, OnResponse(c, m, ts))
<1>1. KeepsNeg(c, c)
  BY DEF KeepsNeg
<1>2. KeepsNeg(c, OnProvisional(c, m, ts))
  <2> DEFINE p == IF c.trying_ts = None /\ c.ringing_ts = None
                    THEN Elapsed(ts, GetOrInsert(c.invite_ts, ts)) ELSE c.pdd_ms
             t == [c EXCEPT !.pdd_ms = p]
  <2>1. OnProvisional(c, m, ts) =
          IF Ringback(m.code) THEN [t EXCEPT !.ringing_ts = GetOrInsert(@, ts), !.state = "Ringing"]
          ELSE [t EXCEPT !.trying_ts = GetOrInsert(@, ts)]
    BY DEF OnProvisional
  <2> HIDE DEF p
  <2>2. KeepsNeg(c, t)
    BY DEF KeepsNeg
  <2> HIDE DEF t
  <2>3. \A x, y : KeepsNeg(c, [t EXCEPT !.ringing_ts = x, !.state = "Ringing"])
                  /\ KeepsNeg(c, [t EXCEPT !.trying_ts = y])
    BY <2>2 DEF KeepsNeg
  <2>4. PICK x, y : OnProvisional(c, m, ts) =
          IF Ringback(m.code) THEN [t EXCEPT !.ringing_ts = x, !.state = "Ringing"]
          ELSE [t EXCEPT !.trying_ts = y]
    BY <2>1
  <2> QED
    BY <2>3, <2>4
<1>3. KeepsNeg(c, Closed(c, ts))
  <2>1. PICK x, y : Closed(c, ts) = [c EXCEPT !.end_ts = x, !.state = y]
    BY DEF Closed
  <2> QED
    BY <2>1 DEF KeepsNeg
<1>4. KeepsNeg(c, OnSuccess(c, m, ts))
  <2>1. KeepsNeg(c, Answered(c, ts))
    <3>1. PICK x, y : Answered(c, ts) = [c EXCEPT !.answer_ts = ts, !.setup_ms = x, !.ring_ms = y,
                                                  !.state = "Active", !.outcome = "Answered"]
      BY DEF Answered
    <3> QED
      BY <3>1 DEF KeepsNeg
  <2>2. OnSuccess(c, m, ts) \in {Closed(c, ts), c, Answered(c, ts)}
    BY DEF OnSuccess
  <2> QED
    BY <1>1, <1>3, <2>1, <2>2
<1>5. KeepsNeg(c, OnFailure(c, m, ts))
  <2>1. KeepsNeg(c, RequestTerminated(c))
    <3>1. PICK x : RequestTerminated(c) =
            [c EXCEPT !.state = "Canceled", !.outcome = "Canceled", !.hangup_by = x]
      BY DEF RequestTerminated
    <3> QED
      BY <3>1 DEF KeepsNeg
  <2>2. KeepsNeg(c, Refused(c, m, ts))
    <3>1. PICK x, y, z : Refused(c, m, ts) =
            [c EXCEPT !.state = "Failed", !.outcome = x, !.hangup_by = y, !.end_ts = z]
      BY DEF Refused
    <3> QED
      BY <3>1 DEF KeepsNeg
  <2>3. OnFailure(c, m, ts) \in {RequestTerminated(c), Refused(c, m, ts), Closed(c, ts)}
    BY DEF OnFailure
  <2> QED
    BY <1>3, <2>1, <2>2, <2>3
<1>6. OnResponse(c, m, ts) \in {OnProvisional(c, m, ts), OnSuccess(c, m, ts), OnFailure(c, m, ts), c}
  BY DEF OnResponse
<1> QED
  BY <1>1, <1>2, <1>4, <1>5, <1>6

LEMMA ApplyKeeps ==
  ASSUME NEW c, "neg" \in DOMAIN c, NEW m, NEW ts PROVE KeepsNeg(c, ApplySip(c, m, ts))
<1> DEFINE t == [c EXCEPT !.last_ts = ts]
<1>1. KeepsNeg(c, t)
  BY DEF KeepsNeg
<1>2. ApplySip(c, m, ts) \in {OnRequest(t, m, ts), OnResponse(t, m, ts)}
  BY DEF ApplySip
<1> HIDE DEF t
<1>3. "neg" \in DOMAIN t
  BY <1>1 DEF KeepsNeg
<1>4. KeepsNeg(t, OnRequest(t, m, ts)) /\ KeepsNeg(t, OnResponse(t, m, ts))
  BY <1>3, RequestKeeps, ResponseKeeps
<1>5. KeepsNeg(t, ApplySip(c, m, ts))
  BY <1>2, <1>4
<1> QED
  BY <1>1, <1>5 DEF KeepsNeg

(* A message opens the call, or finds it *)
LEMMA AppliedTimed ==
  ASSUME NEW st, NEW h, DOMAIN st = CoreFields, Timed(st, h), NEW m
  PROVE  /\ Timed(Applied(st, m), h) /\ Applied(st, m).call # NoCall
         /\ Applied(st, m).streams = st.streams
<1> DEFINE new == Over(NewCall, [neg |-> NoMedia, warn |-> 0, critical |-> 0, via |-> FALSE])
           c == IF st.call = NoCall THEN new ELSE st.call
           d == ApplySip(c, m, clock)
           b == [st EXCEPT !.call = d]
<1>1. Applied(st, m) = b
  BY Zenon DEF Applied
<1>2. "neg" \in DOMAIN new /\ new.neg = NoMedia
  <2> DEFINE x == [neg |-> NoMedia, warn |-> 0, critical |-> 0, via |-> FALSE]
  <2>1. "neg" \in DOMAIN x /\ x.neg = NoMedia /\ "neg" \notin DOMAIN NewCall
    <3> HIDE DEF NoMedia
    <3> QED
      BY DEF NewCall
  <2> HIDE DEF x
  <2> QED
    BY <2>1 DEF x, Over
<1> HIDE DEF new
<1>3. "neg" \in DOMAIN c /\ c.neg = NegOf(st)
  BY <1>2 DEF Timed, HasNeg, NegOf
<1> HIDE DEF c
<1>4. "neg" \in DOMAIN d /\ d.neg = NegOf(st)
  BY <1>3, ApplyKeeps DEF KeepsNeg
<1> HIDE DEF d
<1>5. d # NoCall
  BY <1>4, IsACall
<1>6. b.call = d /\ b.endpoints = st.endpoints /\ b.streams = st.streams
  BY DEF CoreFields
<1> HIDE DEF b
<1>7. NegOf(b) = NegOf(st)
  BY <1>4, <1>5, <1>6 DEF NegOf
<1>8. Timed(b, h)
  BY <1>4, <1>5, <1>6, <1>7 DEF Timed, HasNeg
<1> QED
  BY <1>1, <1>5, <1>6, <1>8

(* What the history keeps of a description *)
Told(m) == IF m.sdp = Nothing THEN <<>>
           ELSE [pt \in ToSet(PayloadTypes(m.sdp)) |-> StatedRate(m.sdp, pt)]

LEMMA NegotiatedAgrees ==
  ASSUME NEW old, NEW rates, Agreed(old, rates), NEW s, IsFiniteSet(Formats(s)), NEW r,
         r = Over(rates, [pt \in ToSet(PayloadTypes(s)) |-> StatedRate(s, pt)])
  PROVE  LET neg == Negotiate(old, Offered(s))
         IN /\ Agreed(neg, r)
            /\ \A pt : pt \notin ToSet(neg.pts) => RateFor(neg, pt) = RateFor(old, pt)
<1> DEFINE n == Offered(s)
           neg == Negotiate(old, n)
           told == [pt \in ToSet(PayloadTypes(s)) |-> StatedRate(s, pt)]
<1>1. /\ Paired(n) /\ n.pts = PayloadTypes(s)
      /\ \A pt \in ToSet(n.pts) : RateFor(n, pt) = StatedRate(s, pt)
  BY OfferedIs, Zenon
<1> HIDE DEF n
<1>2. DOMAIN told = ToSet(n.pts) /\ \A pt \in ToSet(n.pts) : told[pt] = RateFor(n, pt)
  BY <1>1
<1>3. /\ DOMAIN r = DOMAIN rates \cup ToSet(n.pts)
      /\ \A pt \in DOMAIN rates : r[pt] = rates[pt]
      /\ \A pt \in ToSet(n.pts) : pt \notin DOMAIN rates => r[pt] = RateFor(n, pt)
  <2> HIDE DEF told
  <2>1. r = Over(rates, told)
    BY DEF told
  <2>2. r = [x \in (DOMAIN rates) \cup (DOMAIN told) |-> IF x \in DOMAIN rates THEN rates[x] ELSE told[x]]
    BY <2>1 DEF Over
  <2> QED
    BY <1>2, <2>2
<1> HIDE DEF told
<1>4. /\ Paired(old) /\ ToSet(old.pts) = DOMAIN rates
      /\ \A pt : RateFor(old, pt) = RateOf(rates, pt)
  BY DEF Agreed
<1>5. /\ Paired(neg) /\ ToSet(neg.pts) = ToSet(old.pts) \cup ToSet(n.pts)
      /\ \A pt : RateFor(neg, pt) = IF pt \in ToSet(old.pts) THEN RateFor(old, pt) ELSE RateFor(n, pt)
  <2>1. CASE old.pts = <<>>
    <3>1. neg = n
      BY <2>1 DEF Negotiate
    <3>2. ToSet(old.pts) = {}
      BY <2>1 DEF ToSet
    <3> HIDE DEF neg
    <3> QED
      BY <1>1, <3>1, <3>2
  <2>2. CASE old.pts # <<>>
    <3>1. neg = Merged(old, n)
      BY <2>2 DEF Negotiate
    <3> HIDE DEF neg
    <3> QED
      BY <1>1, <1>4, <3>1, MergedIs
  <2> QED
    BY <2>1, <2>2
<1> HIDE DEF neg
<1>6. ASSUME NEW pt PROVE RateFor(neg, pt) = RateOf(r, pt)
  <2>1. CASE pt \in ToSet(old.pts)
    <3>1. RateFor(neg, pt) = rates[pt]
      BY <1>4, <1>5, <2>1 DEF RateOf
    <3> QED
      BY <1>3, <1>4, <2>1, <3>1 DEF RateOf
  <2>2. CASE pt \notin ToSet(old.pts) /\ pt \in ToSet(n.pts)
    <3>1. RateFor(neg, pt) = RateFor(n, pt)
      BY <1>5, <2>2
    <3> QED
      BY <1>3, <1>4, <2>2, <3>1 DEF RateOf
  <2>3. CASE pt \notin ToSet(old.pts) /\ pt \notin ToSet(n.pts)
    <3>1. RateFor(neg, pt) = DefaultRate(pt)
      BY <1>5, <2>3, UnlistedRate
    <3> QED
      BY <1>3, <1>4, <2>3, <3>1 DEF RateOf
  <2> QED
    BY <2>1, <2>2, <2>3
<1>7. Agreed(neg, r)
  BY <1>3, <1>4, <1>5, <1>6 DEF Agreed
<1>8. ASSUME NEW pt, pt \notin ToSet(neg.pts) PROVE RateFor(neg, pt) = RateFor(old, pt)
  <2>1. RateFor(neg, pt) = DefaultRate(pt) /\ RateFor(old, pt) = DefaultRate(pt)
    BY <1>4, <1>5, <1>8, UnlistedRate
  <2> QED
    BY <2>1
<1> QED
  BY <1>7, <1>8 DEF neg, n

LEMMA LearnTimed ==
  ASSUME NEW st, NEW h, DOMAIN st = CoreFields, WellFormed(st.streams), Timed(st, h),
         st.call # NoCall, NEW s, IsFiniteSet(Formats(s)), NEW g, g.switched = h.switched,
         g.rates = Over(h.rates, [pt \in ToSet(PayloadTypes(s)) |-> StatedRate(s, pt)])
  PROVE  Timed(Learn(st, s), g)
<1> DEFINE n == Offered(s)
           neg == Negotiate(st.call.neg, n)
           c == [st.call EXCEPT !.neg = neg]
           e == st.endpoints \cup n.endpoints
           b == [st EXCEPT !.call = c, !.endpoints = e]
<1>1. Learn(st, s) = ApplySdpClocks(b)
  <2> HIDE DEF n
  <2>1. [st EXCEPT !.call.neg = Negotiate(@, n), !.endpoints = @ \cup n.endpoints] = b
    BY DEF CoreFields
  <2> QED
    BY <2>1 DEF Learn, n
<1>2. /\ Agreed(neg, g.rates)
      /\ \A pt : pt \notin ToSet(neg.pts) => RateFor(neg, pt) = RateFor(st.call.neg, pt)
  <2>1. Agreed(st.call.neg, h.rates)
    BY DEF Timed, NegOf
  <2> QED
    BY <2>1, NegotiatedAgrees, Zenon
<1> HIDE DEF neg
<1>3. "neg" \in DOMAIN c /\ c.neg = neg
  BY DEF Timed, HasNeg
<1> HIDE DEF c, e
<1>4. b.call = c /\ b.streams = st.streams /\ DOMAIN b = CoreFields
  BY DEF CoreFields
<1> HIDE DEF b
<1> DEFINE C(x) == IF x.last_pt \in ToSet(neg.pts) THEN [x EXCEPT !.rate = RateFor(neg, x.last_pt)] ELSE x
           ss == [k \in DOMAIN st.streams |-> C(st.streams[k])]
           d == [b EXCEPT !.streams = ss]
<1>5. ApplySdpClocks(b) = d
  BY <1>3, <1>4 DEF ApplySdpClocks
<1>6. Measured(ss, neg, g.switched)
  <2> SUFFICES ASSUME NEW k \in DOMAIN st.streams, k \notin h.switched PROVE OnClock(ss[k], neg)
    BY DEF Measured
  <2> DEFINE x == st.streams[k]
  <2>1. ss[k] = C(x) /\ DOMAIN x = StreamFields
    BY DEF WellFormed
  <2>2. x.last_pt = x.pt /\ x.rate = RateFor(st.call.neg, x.pt)
    BY DEF Timed, Measured, OnClock, NegOf
  <2> HIDE DEF x, ss
  <2>3. CASE x.last_pt \in ToSet(neg.pts)
    <3> DEFINE v == RateFor(neg, x.last_pt)
               y == [x EXCEPT !.rate = v]
    <3>1. ss[k] = y
      BY <2>1, <2>3
    <3> HIDE DEF v
    <3>2. y.last_pt = x.last_pt /\ y.pt = x.pt /\ y.rate = v
      BY <2>1 DEF StreamFields
    <3> HIDE DEF y
    <3> QED
      BY <2>2, <3>1, <3>2 DEF OnClock, v
  <2>4. CASE x.last_pt \notin ToSet(neg.pts)
    <3>1. ss[k] = x
      BY <2>1, <2>4
    <3> QED
      BY <1>2, <2>2, <2>4, <3>1 DEF OnClock
  <2> QED
    BY <2>3, <2>4
<1> HIDE DEF ss
<1>7. d.call = c /\ d.streams = ss
  BY <1>4 DEF CoreFields
<1> HIDE DEF d
<1>8. c # NoCall
  BY <1>3, IsACall
<1>9. NegOf(d) = neg /\ HasNeg(d.call)
  BY <1>3, <1>7, <1>8 DEF NegOf, HasNeg
<1>10. Timed(d, g)
  BY <1>2, <1>6, <1>7, <1>8, <1>9 DEF Timed
<1> QED
  BY <1>1, <1>5, <1>10

LEMMA BeforeTimed ==
  ASSUME NEW st, NEW h, DOMAIN st = CoreFields, WellFormed(st.streams), Timed(st, h),
         NEW m, Described(m), NEW g, g.switched = h.switched, g.rates = Over(h.rates, Told(m))
  PROVE  Timed(Before(st, m), g)
<1> DEFINE n == Noted(st, m)
           a == Applied(n, m)
           l == IF m.sdp # Nothing THEN Learn(a, m.sdp) ELSE a
           ds == MessageDiags(m, n.rr = TRUE)
<1>1. Before(st, m) = AddDiags(l, ds, TRUE)
  BY DEF Before
<1>2. /\ DOMAIN n = CoreFields /\ n.call = st.call /\ n.endpoints = st.endpoints
      /\ n.streams = st.streams
  BY DEF Noted, CoreFields
<1> HIDE DEF n
<1>3. Timed(n, h)
  BY <1>2 DEF Timed, NegOf
<1>4. Timed(a, h) /\ a.call # NoCall /\ a.streams = st.streams /\ DOMAIN a = CoreFields
  BY <1>2, <1>3, AppliedTimed, AppliedSame DEF Same
<1> HIDE DEF a
<1>5. Timed(l, g) /\ DOMAIN l = CoreFields
  <2>1. CASE m.sdp # Nothing
    <3>1. l = Learn(a, m.sdp) /\ Told(m) = [pt \in ToSet(PayloadTypes(m.sdp)) |-> StatedRate(m.sdp, pt)]
      BY <2>1 DEF Told
    <3>2. IsFiniteSet(Formats(m.sdp)) /\ WellFormed(a.streams)
      BY <1>4, <2>1 DEF Described
    <3> HIDE DEF l
    <3> QED
      BY <1>4, <3>1, <3>2, LearnTimed, LearnSame DEF Same
  <2>2. CASE m.sdp = Nothing
    <3>1. l = a /\ g.rates = Over(h.rates, <<>>)
      BY <2>2 DEF Told
    <3>2. DOMAIN g.rates = DOMAIN h.rates /\ \A pt \in DOMAIN h.rates : g.rates[pt] = h.rates[pt]
      <4>1. g.rates = [x \in (DOMAIN h.rates) \cup (DOMAIN <<>>) |->
                         IF x \in DOMAIN h.rates THEN h.rates[x] ELSE (<<>>)[x]]
        BY <3>1 DEF Over
      <4>2. DOMAIN <<>> = {}
        OBVIOUS
      <4> QED
        BY <4>1, <4>2
    <3>3. Agreed(NegOf(a), g.rates)
      BY <1>4, <3>2 DEF Timed, Agreed, RateOf
    <3> HIDE DEF l
    <3> QED
      BY <1>4, <3>1, <3>3 DEF Timed
  <2> QED
    BY <2>1, <2>2
<1> HIDE DEF l
<1>6. ds \in Seq(Diags)
  BY MessageReport
<1> HIDE DEF ds
<1>7. Carried(l, AddDiags(l, ds, TRUE))
  BY <1>5, <1>6, DiagsCarried DEF Timed
<1> QED
  BY <1>1, <1>5, <1>7, CarriedTimed

(* Streams that go take nothing else with them; a call that goes takes all. *)
LEMMA FewerTimed ==
  ASSUME NEW st, NEW h, Timed(st, h), NEW b, b.call = st.call, b.endpoints = st.endpoints,
         NEW K \in SUBSET DOMAIN st.streams, b.streams = [k \in K |-> st.streams[k]]
  PROVE  Timed(b, h)
<1>1. DOMAIN b.streams = K /\ \A k \in K : b.streams[k] = st.streams[k]
  OBVIOUS
<1>2. NegOf(b) = NegOf(st)
  BY DEF NegOf
<1>3. Measured(b.streams, NegOf(b), h.switched)
  BY <1>1, <1>2 DEF Timed, Measured
<1>4. b.call = NoCall => DOMAIN b.streams = {}
  BY <1>1 DEF Timed
<1> QED
  BY <1>2, <1>3, <1>4 DEF Timed

LEMMA GoneTimed ==
  ASSUME NEW b, b.call = NoCall, b.endpoints = {}, b.streams = <<>>, NEW g, g.rates = <<>>
  PROVE  Timed(b, g)
<1>1. DOMAIN b.streams = {}
  OBVIOUS
<1>2. NegOf(b) = NoMedia
  BY DEF NegOf
<1> QED
  BY <1>1, <1>2, NobodyAgreed DEF Timed, HasNeg, Measured

LEMMA RemovedTimed ==
  ASSUME NEW st, DOMAIN st = CoreFields, NEW g, g.rates = <<>> PROVE Timed(Removed(st), g)
<1> DEFINE b == Removed(st)
<1>1. b.call = NoCall /\ b.endpoints = {} /\ b.streams = <<>>
  BY DEF Removed, CoreFields
<1> HIDE DEF b
<1> QED
  BY <1>1, GoneTimed DEF b

LEMMA EvictTimed ==
  ASSUME NEW st, DOMAIN st = CoreFields, NEW h, Timed(st, h) PROVE Timed(EvictStreams(st), h)
<1>1. PICK K \in SUBSET DOMAIN st.streams :
        EvictStreams(st) = [st EXCEPT !.streams = [k \in K |-> st.streams[k]]]
  BY DEF EvictStreams
<1> DEFINE r == [k \in K |-> st.streams[k]]
           b == [st EXCEPT !.streams = r]
<1> HIDE DEF r
<1>2. b.call = st.call /\ b.endpoints = st.endpoints /\ b.streams = r
  BY DEF CoreFields
<1> HIDE DEF b
<1>3. Timed(b, h)
  BY <1>2, FewerTimed DEF r
<1> QED
  BY <1>1, <1>3 DEF b, r

LEMMA KeptTimed ==
  ASSUME NEW st, DOMAIN st = CoreFields, NEW h, Timed(st, h), config.keep
  PROVE  Timed(OnCallTerminal(st), h)
<1> DEFINE ds == OneWayDiags(st) \o LegDiags(st.streams)
           told == AddDiags(st, ds, TRUE)
           d == [told EXCEPT !.done = TRUE]
<1>1. OnCallTerminal(st) = EvictStreams(d)
  BY DEF OnCallTerminal
<1>2. ds \in Seq(Diags)
  BY EndReport
<1> HIDE DEF ds
<1>3. Same(st, told) /\ Carried(st, told)
  BY <1>2, DiagsSame, DiagsCarried DEF Timed
<1> HIDE DEF told
<1>4. DOMAIN told = CoreFields /\ Timed(told, h)
  BY <1>3, CarriedTimed DEF Same
<1>5. /\ DOMAIN d = CoreFields /\ d.call = told.call /\ d.endpoints = told.endpoints
      /\ d.streams = told.streams
  BY <1>4 DEF CoreFields
<1> HIDE DEF d
<1>6. Timed(d, h)
  BY <1>4, <1>5 DEF Timed, NegOf
<1> QED
  BY <1>1, <1>5, <1>6, EvictTimed

(* A message *)
LEMMA RecallTimed ==
  ASSUME NEW p, DOMAIN p.core = CoreFields, DOMAIN p.hist = HistFields,
         WellFormed(p.core.streams), Timed(p.core, p.hist), NEW m, Described(m)
  PROVE  Timed(Recall(p, m).core, Recall(p, m).hist)
<1> DEFINE st == p.core
           h == p.hist
           s == Before(st, m)
           rr == Route(h, m)
           v == Noted(st, m).rr
           justly == IF Warned(m, v = TRUE) THEN TRUE \in rr ELSE rr # {TRUE}
           routed == IF Warned(m, TRUE) THEN {<<"route", justly>>} ELSE {}
           oneway == IF Ends(s) /\ OneWay(DOMAIN s.streams)
                       THEN {<<"one-way", h.evicted \/ ~BothWays(h.flows)>>} ELSE {}
           alarms == h.alarms \cup routed \cup oneway
           rates == Over(h.rates, Told(m))
           g == [h EXCEPT !.rr = rr, !.rates = rates, !.alarms = alarms]
           c == IF Ends(s) THEN OnCallTerminal(s) ELSE s
           l == IF Ends(s) /\ ~config.keep
                  THEN [NewHist EXCEPT !.alarms = g.alarms, !.pruned = g.pruned] ELSE g
<1>0. Recall(p, m) = [core |-> c, hist |-> l]
  BY Zenon DEF Recall, IngestSip, Told
<1>1. Recall(p, m).core = c /\ Recall(p, m).hist = l
  <2> HIDE DEF c, l
  <2> QED
    BY <1>0
<1> HIDE DEF rates, alarms, rr
<1>2. g.rates = rates /\ g.switched = h.switched
  BY DEF HistFields
<1> HIDE DEF g
<1>3. Timed(s, g)
  BY <1>2, BeforeTimed DEF rates
<1>4. DOMAIN s = CoreFields
  <2> DEFINE n == [st EXCEPT !.rr = v]
  <2>1. Same(n, s) /\ DOMAIN n = CoreFields
    BY BeforeSame DEF CoreFields
  <2> QED
    BY <2>1 DEF Same
<1> HIDE DEF s
<1>5. CASE ~Ends(s)
  BY <1>1, <1>3, <1>5
<1>6. CASE Ends(s) /\ config.keep
  BY <1>1, <1>3, <1>4, <1>6, KeptTimed
<1>7. CASE Ends(s) /\ ~config.keep
  <2> DEFINE x == [NewHist EXCEPT !.alarms = g.alarms, !.pruned = g.pruned]
             ds == OneWayDiags(s) \o LegDiags(s.streams)
             told == AddDiags(s, ds, TRUE)
  <2>1. Recall(p, m).core = OnCallTerminal(s) /\ Recall(p, m).hist = x
    BY <1>1, <1>7, Zenon
  <2>2. OnCallTerminal(s) = Removed(told)
    BY <1>7 DEF OnCallTerminal
  <2>3. ds \in Seq(Diags)
    BY EndReport
  <2> HIDE DEF ds
  <2>4. DOMAIN told = CoreFields
    BY <1>4, <2>3, DiagsSame DEF Same
  <2>5. x.rates = <<>>
    BY DEF NewHist
  <2> HIDE DEF x, told
  <2> QED
    BY <2>1, <2>2, <2>4, <2>5, RemovedTimed
<1> QED
  BY <1>5, <1>6, <1>7

LEMMA EmptyDescribed ==
  ASSUME NEW m, "sdp" \in DOMAIN m PROVE Described([m EXCEPT !.sdp = EmptySession])
<1>1. ToSet(EmptySession.media) = {}
  BY DEF ToSet, EmptySession
<1>2. Formats(EmptySession) = {}
  BY <1>1 DEF Formats
<1>3. IsFiniteSet(Formats(EmptySession))
  BY <1>2, FS_EmptySet
<1> DEFINE b == [m EXCEPT !.sdp = EmptySession]
<1>4. "sdp" \in DOMAIN b /\ b.sdp = EmptySession
  <2> HIDE DEF EmptySession
  <2> QED
    OBVIOUS
<1> HIDE DEF b
<1>5. Described(b)
  BY <1>3, <1>4 DEF Described
<1> QED
  BY <1>5 DEF b

LEMMA ParsedDescribed ==
  ASSUME wire.bytes \in Seq(Byte(wire.items)),
         \A i \in Messages(wire.items) : Described(wire.items[i]),
         NEW b \in Seq(DOMAIN wire.bytes), b # <<>>, Starts(b)
  PROVE  Described(Parsed(b))
<1>1. b[1] \in DOMAIN wire.bytes
  OBVIOUS
<1> DEFINE x == wire.bytes[b[1]]
<1>2. x \in Byte(wire.items) /\ x.kind = "start"
  BY <1>1 DEF Starts
<1> HIDE DEF x
<1>3. x.item \in Messages(wire.items)
  BY <1>2 DEF Byte
<1>4. Described(wire.items[ItemOf(b)])
  BY <1>3 DEF ItemOf, x
<1>5. Parsed(b) \in {wire.items[ItemOf(b)], [wire.items[ItemOf(b)] EXCEPT !.sdp = EmptySession]}
  BY DEF Parsed
<1>6. Described([wire.items[ItemOf(b)] EXCEPT !.sdp = EmptySession])
  BY <1>4, EmptyDescribed DEF Described
<1> QED
  BY <1>4, <1>5, <1>6

LEMMA HeardTimed ==
  ASSUME NEW p, Recalled(p.core, p.hist), Timed(p.core, p.hist), NEW out, NEW n \in Nat,
         DOMAIN out = 1 .. n, \A i \in 1 .. n : Starts(out[i]) => Described(Parsed(out[i]))
  PROVE  LET r == FoldLeft(Heard, p, out) IN Timed(r.core, r.hist)
<1>0. PICK g : HeardTrail(g, p, out, n)
  BY HeardSteps
<1>1. /\ g[0] = p /\ FoldLeft(Heard, p, out) = g[n]
      /\ \A i \in 1 .. n : g[i] = Heard(g[i - 1], out[i])
  BY <1>0 DEF HeardTrail
<1> DEFINE N == {i \in Nat : i <= n => Recalled(g[i].core, g[i].hist) /\ Timed(g[i].core, g[i].hist)}
<1>2. 0 \in N
  BY <1>1
<1>3. ASSUME NEW i \in N PROVE i + 1 \in N
  <2> SUFFICES ASSUME i + 1 <= n
               PROVE  Recalled(g[i + 1].core, g[i + 1].hist) /\ Timed(g[i + 1].core, g[i + 1].hist)
    OBVIOUS
  <2>1. /\ Recalled(g[i].core, g[i].hist) /\ Timed(g[i].core, g[i].hist)
        /\ i + 1 \in 1 .. n /\ (i + 1) - 1 = i
    OBVIOUS
  <2>2. g[i + 1] = Heard(g[i], out[i + 1])
    BY <1>1, <2>1
  <2>3. CASE Starts(out[i + 1])
    <3>1. g[i + 1] = Recall(g[i], Parsed(out[i + 1])) /\ Described(Parsed(out[i + 1]))
      BY <2>1, <2>2, <2>3 DEF Heard
    <3>2. /\ DOMAIN g[i].core = CoreFields /\ DOMAIN g[i].hist = HistFields
          /\ WellFormed(g[i].core.streams)
      BY <2>1 DEF Recalled, GoodStreams
    <3> QED
      BY <2>1, <3>1, <3>2, RecallStep, RecallTimed
  <2>4. CASE ~Starts(out[i + 1])
    BY <2>1, <2>2, <2>4 DEF Heard
  <2> QED
    BY <2>3, <2>4
<1> HIDE DEF N
<1>4. N \in SUBSET Nat
  BY DEF N
<1>5. N = Nat
  BY <1>2, <1>3, <1>4, SetInduction
<1> QED
  BY <1>1, <1>5 DEF N

-----------------------------------------------------------------------------
(* RTP *)
Switches(old, new, key, switched) ==
  IF key \in DOMAIN old
    THEN IF new[key].last_pt # old[key].last_pt THEN switched \cup {key} ELSE switched
  ELSE switched \ {key}

LEMMA AcceptedRates ==
  ASSUME NEW h, DOMAIN h = HistFields, NEW r, NEW key
  PROVE  /\ Accepted(h, r, key).rates = h.rates
         /\ Accepted(h, r, key).switched = Switches(core.streams, r.streams, key, h.switched)
<1> DEFINE W == Switches(core.streams, r.streams, key, h.switched)
<1>1. PICK f, x : Accepted(h, r, key) = [h EXCEPT !.flows = f, !.switched = W, !.samples = x]
  BY DEF Accepted, Switches
<1> HIDE DEF W
<1> DEFINE g == [h EXCEPT !.flows = f, !.switched = W, !.samples = x]
<1>2. g.rates = h.rates /\ g.switched = W
  BY DEF HistFields
<1> QED
  BY <1>1, <1>2, Zenon DEF W

LEMMA KnownTimed ==
  ASSUME NEW st, NEW h, DOMAIN st = CoreFields, WellFormed(st.streams), Timed(st, h),
         NEW key \in DOMAIN st.streams, NEW pt, NEW g, g.rates = h.rates,
         NEW z, z = KnownRtp(st, key, pt),
         g.switched = Switches(st.streams, z.streams, key, h.switched)
  PROVE  Timed(z, g)
<1> DEFINE c == [st.call EXCEPT !.last_ts = clock]
           ss == [st.streams EXCEPT ![key].last_pt = pt]
           b == [st EXCEPT !.streams = ss, !.call = c]
           ds == CheckPtChange(pt, st.streams[key].last_pt)
           r == AddDiags(b, ds, TRUE)
<1>1. z = r
  <2>1. [st EXCEPT !.streams[key].last_pt = pt, !.call.last_ts = clock] = b
    BY DEF CoreFields
  <2> QED
    BY <2>1 DEF KnownRtp
<1>2. st.call # NoCall /\ "neg" \in DOMAIN st.call
  BY DEF Timed, HasNeg
<1>3. "neg" \in DOMAIN c /\ c.neg = st.call.neg
  BY <1>2
<1> HIDE DEF c
<1>4. c # NoCall
  BY <1>3, IsACall
<1>5. /\ DOMAIN ss = DOMAIN st.streams
      /\ ss[key].last_pt = pt /\ ss[key].pt = st.streams[key].pt
      /\ ss[key].rate = st.streams[key].rate
      /\ \A k \in DOMAIN ss : k # key => ss[k] = st.streams[k]
  BY DEF WellFormed, StreamFields
<1> HIDE DEF ss
<1>6. DOMAIN b = CoreFields /\ b.streams = ss /\ b.call = c
  BY DEF CoreFields
<1> HIDE DEF b
<1>7. ds \in Seq(Diags)
  BY RulesReport
<1> HIDE DEF ds
<1>8. Carried(b, r)
  BY <1>3, <1>6, <1>7, DiagsCarried DEF HasNeg
<1> HIDE DEF r
<1>9. g.switched = IF pt # st.streams[key].last_pt THEN h.switched \cup {key} ELSE h.switched
  <2>1. r.streams[key].last_pt = pt
    BY <1>5, <1>6, <1>8 DEF Carried
  <2> QED
    BY <1>1, <2>1 DEF Switches
<1>10. NegOf(b) = NegOf(st)
  BY <1>2, <1>3, <1>4, <1>6 DEF NegOf
<1>11. Measured(ss, NegOf(st), g.switched)
  <2> SUFFICES ASSUME NEW k \in DOMAIN ss, k \notin g.switched PROVE OnClock(ss[k], NegOf(st))
    BY DEF Measured
  <2>1. k \notin h.switched /\ k \in DOMAIN st.streams
    BY <1>5, <1>9
  <2>2. OnClock(st.streams[k], NegOf(st))
    BY <2>1 DEF Timed, Measured
  <2>3. CASE k # key
    BY <1>5, <2>2, <2>3
  <2>4. CASE k = key
    <3>1. pt = st.streams[key].last_pt
      BY <1>9, <2>4
    <3> QED
      BY <1>5, <2>2, <2>4, <3>1 DEF OnClock
  <2> QED
    BY <2>3, <2>4
<1>12. Timed(b, g)
  BY <1>3, <1>4, <1>6, <1>10, <1>11 DEF Timed, HasNeg
<1> QED
  BY <1>1, <1>8, <1>12, CarriedTimed

LEMMA NewTimed ==
  ASSUME NEW st, NEW h, DOMAIN st = CoreFields, Timed(st, h), NEW key, key \notin DOMAIN st.streams,
         st.endpoints # {}, NEW pt, NEW encap, NEW g, g.rates = h.rates,
         g.switched = h.switched \ {key}
  PROVE  Timed(NewRtp(st, key, pt, encap), g)
<1> DEFINE neg == st.call.neg
           leg == LegOf(st.turn, key[1])
           via == leg # Nothing \/ encap # "direct"
           rate == RateFor(neg, pt)
           codec == CodecFor(neg, pt)
           x == [pt |-> pt, last_pt |-> pt, rate |-> rate, codec |-> codec, leg |-> leg,
                 via |-> via, rtt |-> <<>>, oneway |-> <<>>, born |-> st.born]
           ss == Put(st.streams, key, x)
           a == [st EXCEPT !.streams = ss, !.born = @ + 1, !.call.via = @ \/ via,
                           !.call.last_ts = clock]
           ds == CheckRtpPt(pt, ToSet(neg.pts)) \o CheckRtpFlow(key[1], neg.endpoints) \o
                 TurnNotes(encap, leg)
           r == AddDiags(a, ds, TRUE)
<1>1. NewRtp(st, key, pt, encap) = r
  BY Zenon DEF NewRtp
<1>2. ds \in Seq(Diags)
  BY RtpReport, Zenon
<1> HIDE DEF ds
<1>3. st.call # NoCall /\ "neg" \in DOMAIN st.call /\ NegOf(st) = neg
  BY DEF Timed, HasNeg, NegOf
<1>4. x.pt = pt /\ x.last_pt = pt /\ x.rate = rate
  <2> HIDE DEF leg, via, rate, codec
  <2> QED
    OBVIOUS
<1>5. OnClock(x, neg)
  <2> HIDE DEF x
  <2> QED
    BY <1>4 DEF OnClock
<1> HIDE DEF x
<1>6. /\ DOMAIN ss = DOMAIN st.streams \cup {key} /\ ss[key] = x
      /\ \A k \in DOMAIN st.streams : ss[k] = st.streams[k]
  BY DEF Put
<1> HIDE DEF ss
<1>7. PICK c : /\ a = [st EXCEPT !.streams = ss, !.born = @ + 1, !.call = c]
               /\ "neg" \in DOMAIN c /\ c.neg = neg
  <2> DEFINE d == [st.call EXCEPT !.via = @ \/ via, !.last_ts = clock]
  <2> HIDE DEF via
  <2>1. a = [st EXCEPT !.streams = ss, !.born = @ + 1, !.call = d]
    BY DEF CoreFields
  <2>2. PICK y : d = [st.call EXCEPT !.via = y, !.last_ts = clock]
    OBVIOUS
  <2> HIDE DEF a, d
  <2>3. "neg" \in DOMAIN d /\ d.neg = neg
    BY <1>3, <2>2
  <2> QED
    BY <2>1, <2>3
<1> HIDE DEF a
<1>8. DOMAIN a = CoreFields /\ a.streams = ss /\ a.call = c
  BY <1>7 DEF CoreFields
<1>9. c # NoCall
  BY <1>7, IsACall
<1>10. Carried(a, r)
  BY <1>2, <1>7, <1>8, DiagsCarried DEF HasNeg
<1> HIDE DEF r, neg
<1>11. NegOf(a) = neg
  BY <1>7, <1>8, <1>9 DEF NegOf
<1>12. Measured(ss, neg, g.switched)
  <2> SUFFICES ASSUME NEW k \in DOMAIN ss, k \notin g.switched PROVE OnClock(ss[k], neg)
    BY DEF Measured
  <2>1. CASE k = key
    BY <1>5, <1>6, <2>1
  <2>2. CASE k # key
    <3>1. k \notin h.switched /\ k \in DOMAIN st.streams /\ ss[k] = st.streams[k]
      BY <1>6, <2>2
    <3> QED
      BY <1>3, <3>1 DEF Timed, Measured
  <2> QED
    BY <2>1, <2>2
<1>13. Timed(a, g)
  BY <1>3, <1>7, <1>8, <1>9, <1>11, <1>12 DEF Timed, HasNeg
<1> QED
  BY <1>1, <1>10, <1>13, CarriedTimed

LEMMA RtpTimed ==
  ASSUME NEW st, NEW h, DOMAIN st = CoreFields, DOMAIN h = HistFields, WellFormed(st.streams),
         Timed(st, h), core.streams = st.streams, NEW key, NEW pt, NEW encap
  PROVE  LET r == IngestRtp(st, key, pt, encap) IN Timed(r, Accepted(h, r, key))
<1> DEFINE r == IngestRtp(st, key, pt, encap)
           g == Accepted(h, r, key)
<1>1. g.rates = h.rates /\ g.switched = Switches(st.streams, r.streams, key, h.switched)
  <2> HIDE DEF r
  <2> QED
    BY AcceptedRates
<1> HIDE DEF g
<1>2. CASE key \in DOMAIN st.streams
  <2>1. r = KnownRtp(st, key, pt)
    BY <1>2 DEF IngestRtp
  <2> HIDE DEF r
  <2>3. Timed(r, g)
    BY <1>1, <1>2, <2>1, KnownTimed
  <2> QED
    BY <2>3 DEF r, g
<1>3. CASE key \notin DOMAIN st.streams /\ {key[1][1], key[1][2]} \cap st.endpoints # {}
  <2>1. r = NewRtp(st, key, pt, encap)
    BY <1>3 DEF IngestRtp
  <2> HIDE DEF r
  <2>2. st.endpoints # {} /\ g.switched = h.switched \ {key}
    BY <1>1, <1>3 DEF Switches
  <2>3. Timed(r, g)
    BY <1>1, <1>3, <2>1, <2>2, NewTimed
  <2> QED
    BY <2>3 DEF r, g
<1>4. CASE key \notin DOMAIN st.streams /\ ~({key[1][1], key[1][2]} \cap st.endpoints # {})
  <2>1. r = st
    BY <1>4 DEF IngestRtp
  <2> HIDE DEF r
  <2>2. g.switched = h.switched \ {key}
    BY <1>1, <1>4 DEF Switches
  <2>3. Timed(st, g)
    BY <1>1, <1>4, <2>2 DEF Timed, Measured
  <2> QED
    BY <2>1, <2>3 DEF r, g
<1> QED
  BY <1>2, <1>3, <1>4

(* RTCP, STUN, maintenance *)
LEMMA RtcpTimed ==
  ASSUME NEW from, NEW ssrc, NEW field \in {"rtt", "oneway"}, Recalled(core, hist),
         Timed(core, hist), Rtcp(from, ssrc, field)
  PROVE  Timed(core', hist')
<1> DEFINE v == left.rtcp
           C(x) == [x EXCEPT ![field] = Sampled(@, v)]
           ss == [k \in DOMAIN core.streams |-> IF k[2] # ssrc THEN core.streams[k] ELSE C(core.streams[k])]
           c == IF \E k \in DOMAIN core.streams : k[2] = from
                  THEN [core.call EXCEPT !.last_ts = clock] ELSE core.call
           b == [core EXCEPT !.streams = ss, !.call = c]
<1>1. core' = b
  BY DEF Rtcp
<1>2. DOMAIN core = CoreFields /\ DOMAIN hist = HistFields /\ WellFormed(core.streams)
  BY DEF Recalled, GoodStreams
<1>3. hist'.rates = hist.rates /\ hist'.switched = hist.switched
  <2>1. PICK x : hist' = hist \/ hist' = [hist EXCEPT !.samples = x]
    BY DEF Rtcp
  <2> QED
    BY <1>2, <2>1 DEF HistFields
<1>4. ASSUME NEW x, DOMAIN x = StreamFields
      PROVE  C(x).last_pt = x.last_pt /\ C(x).pt = x.pt /\ C(x).rate = x.rate
  BY <1>4 DEF StreamFields
<1> HIDE DEF C
<1>5. /\ DOMAIN ss = DOMAIN core.streams
      /\ \A k \in DOMAIN ss : /\ ss[k].last_pt = core.streams[k].last_pt
                              /\ ss[k].pt = core.streams[k].pt
                              /\ ss[k].rate = core.streams[k].rate
  BY <1>2, <1>4 DEF WellFormed
<1> HIDE DEF ss
<1>6. HasNeg(c) /\ (core.call = NoCall => c = NoCall) /\ (core.call # NoCall => c # NoCall /\ c.neg = core.call.neg)
  <2>1. CASE \E k \in DOMAIN core.streams : k[2] = from
    <3>1. core.call # NoCall /\ "neg" \in DOMAIN core.call
      BY <2>1 DEF Timed, HasNeg
    <3>2. c = [core.call EXCEPT !.last_ts = clock]
      BY <2>1
    <3> HIDE DEF c
    <3>3. "neg" \in DOMAIN c /\ c.neg = core.call.neg
      BY <3>1, <3>2
    <3> QED
      BY <3>1, <3>3, IsACall DEF HasNeg
  <2>2. CASE ~\E k \in DOMAIN core.streams : k[2] = from
    <3>1. c = core.call
      BY <2>2
    <3> HIDE DEF c
    <3> QED
      BY <3>1 DEF Timed
  <2> QED
    BY <2>1, <2>2
<1> HIDE DEF c
<1>7. b.call = c /\ b.streams = ss /\ b.endpoints = core.endpoints
  BY <1>2 DEF CoreFields
<1> HIDE DEF b
<1>8. NegOf(b) = NegOf(core)
  BY <1>6, <1>7 DEF NegOf
<1>9. Measured(ss, NegOf(core), hist'.switched)
  BY <1>3, <1>5 DEF Timed, Measured, OnClock
<1>10. Timed(b, hist')
  BY <1>3, <1>5, <1>6, <1>7, <1>8, <1>9 DEF Timed
<1> QED
  BY <1>1, <1>10

LEMMA StunTimed ==
  ASSUME NEW flow, NEW m, NEW ssrc, NEW pt, Recalled(core, hist), Timed(core, hist),
         Stun(flow, m, ssrc, pt)
  PROVE  Timed(core', hist')
<1> DEFINE r == IngestStun(core.turn, clock, flow, m)
           b == [core EXCEPT !.turn = r.turn]
           told == AddDiags(b, TurnDiags(r.diags), FALSE)
<1>1. /\ r.media => /\ core' = IngestRtp(told, <<flow, ssrc>>, pt, "send")
                    /\ hist' = Accepted(hist, core', <<flow, ssrc>>)
      /\ ~r.media => core' = told /\ hist' = hist
  BY DEF Stun
<1>2. Tracked(r, hist)
  BY StunTracked DEF Recalled
<1> HIDE DEF r
<1>3. /\ DOMAIN b = CoreFields /\ b.call = core.call /\ b.endpoints = core.endpoints
      /\ b.streams = core.streams
  BY DEF Recalled, CoreFields
<1> HIDE DEF b
<1>4. Timed(b, hist)
  BY <1>3 DEF Timed, NegOf
<1>5. Same(b, told) /\ Carried(b, told)
  <2>1. PICK n \in Nat : DOMAIN TurnDiags(r.diags) = 1 .. n
    BY <1>2, TurnReport DEF Tracked
  <2> QED
    BY <1>3, <1>4, <2>1, DiagsSameN, DiagsCarriedN DEF Timed
<1> HIDE DEF told
<1>6. Timed(told, hist)
  BY <1>4, <1>5, CarriedTimed
<1>7. /\ core.streams = told.streams /\ DOMAIN told = CoreFields /\ WellFormed(told.streams)
      /\ DOMAIN hist = HistFields
  BY <1>3, <1>5 DEF Carried, Same, Recalled, GoodStreams
<1>8. CASE r.media
  BY <1>1, <1>6, <1>7, <1>8, RtpTimed
<1>9. CASE ~r.media
  BY <1>1, <1>6, <1>9
<1> QED
  BY <1>8, <1>9

LEMMA FlushTimed ==
  ASSUME Recalled(core, hist), Timed(core, hist), Flush PROVE Timed(core', hist')
<1>1. PICK new :
        LET st == [core EXCEPT !.turn = new]
            kept == EvictStreams(st)
        IN IF Stale(st, clock')
             THEN /\ core' = Removed(st)
                  /\ hist' = [NewHist EXCEPT !.alarms = hist.alarms,
                               !.pruned = hist.pruned \/ new.relays # core.turn.relays]
             ELSE /\ core' = kept
                  /\ hist' = [hist EXCEPT !.evicted = @ \/ kept # st,
                               !.pruned = @ \/ new.relays # core.turn.relays]
  BY Zenon DEF Flush
<1> DEFINE st == [core EXCEPT !.turn = new]
           ev == hist.evicted \/ EvictStreams(st) # st
           pr == hist.pruned \/ new.relays # core.turn.relays
           gone == [NewHist EXCEPT !.alarms = hist.alarms, !.pruned = pr]
           on == [hist EXCEPT !.evicted = ev, !.pruned = pr]
<1>4. \/ core' = Removed(st) /\ hist' = gone
      \/ core' = EvictStreams(st) /\ hist' = on
  BY <1>1, Zenon
<1> HIDE DEF ev, pr
<1>2. /\ DOMAIN st = CoreFields /\ st.call = core.call /\ st.endpoints = core.endpoints
      /\ st.streams = core.streams
  BY DEF Recalled, CoreFields
<1>3. gone.rates = <<>> /\ on.rates = hist.rates /\ on.switched = hist.switched
  BY DEF NewHist, Recalled, HistFields
<1> HIDE DEF st, gone, on
<1>5. Timed(st, on)
  BY <1>2, <1>3 DEF Timed, NegOf
<1>6. Timed(EvictStreams(st), on) /\ Timed(Removed(st), gone)
  BY <1>2, <1>3, <1>5, EvictTimed, RemovedTimed
<1> QED
  BY <1>4, <1>6

LEMMA ClearTimed == ASSUME Clear PROVE Timed(core', hist')
<1> DEFINE t == ClearTurn(core.turn)
<1>1. core' = [NewCore EXCEPT !.turn = t] /\ hist' = [NewHist EXCEPT !.alarms = hist.alarms]
  BY DEF Clear
<1> HIDE DEF t
<1>2. core'.call = NoCall /\ core'.endpoints = {} /\ core'.streams = <<>>
  <2> HIDE DEF NoCall
  <2> QED
    BY <1>1 DEF NewCore
<1>3. hist'.rates = <<>>
  BY <1>1 DEF NewHist
<1> QED
  BY <1>2, <1>3, GoneTimed

-----------------------------------------------------------------------------
(* Where the messages of a connection stand in its bytes: h is the table   *)
(* of the concatenation, up to the n-th item.                              *)
Behind(r, x) == r \o x
FlatTable(h, q, n) == h = [i \in 1 .. n |-> IF i = 1 THEN q[i] ELSE Behind(h[i - 1], q[i])]

LEMMA FlatTableExists ==
  ASSUME NEW q, NEW n \in Nat
  PROVE  \E h : FlatTable(h, q, n)
<1> DEFINE N == {k \in Nat : \E h : FlatTable(h, q, k)}
<1>1. 0 \in N
  <2>1. FlatTable([i \in 1 .. 0 |-> q], q, 0)
    BY DEF FlatTable
  <2> QED
    BY <2>1
<1>2. ASSUME NEW k \in N PROVE k + 1 \in N
  <2>1. PICK h : FlatTable(h, q, k)
    OBVIOUS
  <2> DEFINE g == [i \in 1 .. (k + 1) |-> IF i = 1 THEN q[i] ELSE Behind(h[i - 1], q[i])]
  <2>2. \A i \in 1 .. k : g[i] = h[i]
    BY <2>1 DEF FlatTable
  <2>3. \A i \in 1 .. (k + 1) : i # 1 => i - 1 \in 1 .. k
    OBVIOUS
  <2>4. FlatTable(g, q, k + 1)
    BY <2>2, <2>3 DEF FlatTable
  <2> QED
    BY <2>4
<1> HIDE DEF N
<1>3. N \in SUBSET Nat
  BY DEF N
<1>4. N = Nat
  BY <1>1, <1>2, <1>3, SetInduction
<1> QED
  BY <1>4 DEF N

LEMMA FlatIs ==
  \A q : FlattenSeq(q) = IF Len(q) = 0 THEN q ELSE (CHOOSE h : FlatTable(h, q, Len(q)))[Len(q)]
BY DEF FlattenSeq, FlatTable, Behind

(* Two tables agree as far as the sequences do. *)
LEMMA FlatAgree ==
  ASSUME NEW g, NEW h, NEW q, NEW p, NEW m \in Nat, NEW n \in Nat, m <= n,
         FlatTable(g, p, m), FlatTable(h, q, n), \A i \in 1 .. m : p[i] = q[i]
  PROVE  \A i \in 1 .. m : g[i] = h[i]
<1> DEFINE N == {k \in Nat : k \in 1 .. m => g[k] = h[k]}
<1>1. 0 \in N
  OBVIOUS
<1>2. ASSUME NEW k \in N PROVE k + 1 \in N
  <2> SUFFICES ASSUME k + 1 \in 1 .. m PROVE g[k + 1] = h[k + 1]
    OBVIOUS
  <2>1. /\ g[k + 1] = IF k + 1 = 1 THEN p[k + 1] ELSE Behind(g[(k + 1) - 1], p[k + 1])
        /\ h[k + 1] = IF k + 1 = 1 THEN q[k + 1] ELSE Behind(h[(k + 1) - 1], q[k + 1])
    BY DEF FlatTable
  <2>2. (k + 1) - 1 = k /\ (k + 1 # 1 => k \in 1 .. m) /\ p[k + 1] = q[k + 1]
    OBVIOUS
  <2>3. k + 1 # 1 => g[k] = h[k]
    BY <2>2
  <2> QED
    BY <2>1, <2>2, <2>3
<1> HIDE DEF N
<1>3. N \in SUBSET Nat
  BY DEF N
<1>4. N = Nat
  BY <1>1, <1>2, <1>3, SetInduction
<1> QED
  BY <1>4 DEF N

Until(items, j) == WireOf(SubSeq(items, 1, j))
Items(items) == [i \in 1 .. Len(items) |-> Item(items, i)]

(* The bytes up to the j-th item are the j-th entry of the table. *)
LEMMA UntilIs ==
  ASSUME NEW items, Vec(items), NEW h, FlatTable(h, Items(items), Len(items)),
         NEW j \in 0 .. Len(items)
  PROVE  Until(items, j) = IF j = 0 THEN <<>> ELSE h[j]
<1>1. Len(items) \in Nat /\ items \in Seq(ToSet(items))
  BY VecFacts DEF Vec
<1> DEFINE some == SubSeq(items, 1, j)
           p == [i \in DOMAIN some |-> Item(some, i)]
<1>2. DOMAIN some = 1 .. j /\ \A i \in 1 .. j : some[i] = items[i]
  BY <1>1
<1> HIDE DEF some
<1>3. p = [i \in 1 .. j |-> Item(items, i)]
  BY <1>2 DEF Item
<1>4. Until(items, j) = FlattenSeq(p)
  BY DEF Until, WireOf, some
<1> HIDE DEF p
<1>5. Len(p) = j
  BY <1>1, <1>3
<1>6. CASE j = 0
  <2>1. p = <<>>
    BY <1>3, <1>6
  <2> QED
    BY <1>4, <1>5, <1>6, <2>1, FlatIs
<1>7. CASE j # 0
  <2>1. PICK g : FlatTable(g, p, j) /\ FlattenSeq(p) = g[j]
    <3> DEFINE g == CHOOSE g : FlatTable(g, p, j)
    <3>0. j \in Nat
      OBVIOUS
    <3>1. FlatTable(g, p, j)
      BY <3>0, FlatTableExists, Zenon
    <3>2. FlattenSeq(p) = g[j]
      BY <1>5, <1>7, FlatIs
    <3> QED
      BY <3>1, <3>2
  <2>2. \A i \in 1 .. j : p[i] = Items(items)[i]
    BY <1>1, <1>3 DEF Items
  <2>3. j \in Nat /\ j <= Len(items) /\ j \in 1 .. j
    BY <1>1, <1>7
  <2>4. \A i \in 1 .. j : g[i] = h[i]
    BY <1>1, <2>1, <2>2, <2>3, FlatAgree
  <2> QED
    BY <1>4, <1>7, <2>1, <2>3, <2>4
<1> QED
  BY <1>6, <1>7

(* One item after the other *)
LEMMA UntilSteps ==
  ASSUME NEW items, Vec(items), NEW B, \A i \in 1 .. Len(items) : Item(items, i) \in Seq(B)
  PROVE  /\ \A j \in 0 .. Len(items) : Until(items, j) \in Seq(B)
         /\ Until(items, 0) = <<>>
         /\ \A j \in 1 .. Len(items) : Until(items, j) = Until(items, j - 1) \o Item(items, j)
         /\ Until(items, Len(items)) = WireOf(items)
<1>1. Len(items) \in Nat /\ items \in Seq(ToSet(items))
  BY VecFacts DEF Vec
<1>2. PICK h : FlatTable(h, Items(items), Len(items))
  BY <1>1, FlatTableExists
<1>3. \A j \in 0 .. Len(items) : Until(items, j) = IF j = 0 THEN <<>> ELSE h[j]
  BY <1>2, UntilIs
<1>4. Until(items, 0) = <<>>
  BY <1>1, <1>3
<1>5. ASSUME NEW j \in 1 .. Len(items)
      PROVE  Until(items, j) = Until(items, j - 1) \o Item(items, j)
  <2>1. Until(items, j) = h[j] /\ j - 1 \in 0 .. Len(items) /\ j \in 1 .. Len(items)
    BY <1>1, <1>3
  <2>2. h[j] = IF j = 1 THEN Items(items)[j] ELSE Behind(h[j - 1], Items(items)[j])
    BY <1>2 DEF FlatTable
  <2>3. Items(items)[j] = Item(items, j)
    BY DEF Items
  <2>4. CASE j = 1
    <3>1. Until(items, j - 1) = <<>>
      BY <1>4, <2>4
    <3>2. <<>> \o Item(items, j) = Item(items, j)
      OBVIOUS
    <3> QED
      BY <2>1, <2>2, <2>3, <2>4, <3>1, <3>2
  <2>5. CASE j # 1
    <3>1. Until(items, j - 1) = h[j - 1]
      BY <1>1, <1>3, <2>1, <2>5
    <3> QED
      BY <2>1, <2>2, <2>3, <2>5, <3>1 DEF Behind
  <2> QED
    BY <2>4, <2>5
<1>6. Until(items, Len(items)) = WireOf(items)
  <2>1. SubSeq(items, 1, Len(items)) = items
    BY <1>1
  <2> QED
    BY <2>1 DEF Until
<1> DEFINE N == {k \in Nat : k <= Len(items) => Until(items, k) \in Seq(B)}
<1>7. 0 \in N
  <2>1. <<>> \in Seq(B)
    OBVIOUS
  <2> QED
    BY <1>4, <2>1
<1>8. ASSUME NEW k \in N PROVE k + 1 \in N
  <2> SUFFICES ASSUME k + 1 <= Len(items) PROVE Until(items, k + 1) \in Seq(B)
    OBVIOUS
  <2>1. k + 1 \in 1 .. Len(items) /\ (k + 1) - 1 = k /\ Until(items, k) \in Seq(B)
    BY <1>1
  <2>2. Until(items, k + 1) = Until(items, k) \o Item(items, k + 1)
    BY <1>5, <2>1
  <2>3. Item(items, k + 1) \in Seq(B)
    BY <2>1
  <2>4. \A a, b \in Seq(B) : a \o b \in Seq(B)
    OBVIOUS
  <2> QED
    BY <2>1, <2>2, <2>3, <2>4, Zenon
<1> HIDE DEF N
<1>9. N \in SUBSET Nat
  BY DEF N
<1>10. N = Nat
  BY <1>7, <1>8, <1>9, SetInduction
<1>11. \A j \in 0 .. Len(items) : Until(items, j) \in Seq(B)
  BY <1>1, <1>10 DEF N
<1> QED
  BY <1>4, <1>5, <1>6, <1>11

-----------------------------------------------------------------------------
(* The i-th item stands after a and up to b, a message behind a single     *)
(* line end one byte later. *)
Plainly(items) ==
  /\ Vec(items)
  /\ \A i \in Messages(items) :
       /\ items[i].claims \in Nat /\ items[i].body \in Seq({"crlf", "body"})
       /\ items[i].pong \in BOOLEAN
Opens(w, i, m, a) ==
  /\ w[a + 1].kind = "start" /\ w[a + 1].item = i
  /\ w[a + 2].kind = "length" /\ w[a + 2].n = m.claims
  /\ w[a + 3].kind = "crlf" /\ w[a + 4].kind = "crlf"
Lies(items, w, i, a, b) ==
  /\ b = a + 4 + Len(items[i].body) /\ Opens(w, i, items[i], a)
  /\ \A p \in (a + 5) .. b : w[p].kind \in {"crlf", "body"}
Stands(items, w, i, a, b) ==
  IF items[i] = Nothing THEN b = a + 2 /\ w[a + 1].kind = "crlf" /\ w[a + 2].kind = "crlf"
  ELSE IF items[i].pong THEN w[a + 1].kind = "crlf" /\ Lies(items, w, i, a + 1, b)
  ELSE Lies(items, w, i, a, b)

(* A message without the line end before it *)
Header(i, m) == <<[kind |-> "start", item |-> i], [kind |-> "length", n |-> m.claims], Crlf, Crlf>>
Payload(m) == [j \in DOMAIN m.body |-> [kind |-> m.body[j]]]
LEMMA MessageLies ==
  ASSUME NEW items, Plainly(items), NEW i \in Messages(items)
  PROVE  LET c == Header(i, items[i]) \o Payload(items[i])
         IN /\ c \in Seq(Byte(items)) /\ Len(c) \in Nat /\ Len(c) >= 4
            /\ Lies(items, c, i, 0, Len(c))
<1> DEFINE m == items[i]
           top == <<[kind |-> "start", item |-> i], [kind |-> "length", n |-> m.claims],
                    [kind |-> "crlf"], [kind |-> "crlf"]>>
           low == [j \in DOMAIN m.body |-> [kind |-> m.body[j]]]
<1>2. m.claims \in Nat /\ m.body \in Seq({"crlf", "body"})
  BY DEF Plainly
<1>3. Vec(top) /\ top \in Seq(Byte(items)) /\ Len(top) = 4
  <2>1. /\ [kind |-> "start", item |-> i] \in Byte(items) /\ [kind |-> "length", n |-> m.claims] \in Byte(items)
        /\ [kind |-> "crlf"] \in Byte(items)
    BY <1>2 DEF Byte
  <2>2. top \in Seq(Byte(items)) /\ Len(top) = 4
    BY <2>1
  <2> HIDE DEF top
  <2>3. top = [k \in 1 .. 4 |-> top[k]]
    BY <2>2
  <2> QED
    BY <2>2, <2>3, VecIs
<1>4. Opens(top, i, m, 0)
  BY DEF Opens
<1> DEFINE n == Len(m.body)
<1>5. n \in Nat /\ DOMAIN m.body = 1 .. n /\ \A j \in 1 .. n : m.body[j] \in {"crlf", "body"}
  BY <1>2
<1>16. Header(i, items[i]) \o Payload(items[i]) = top \o low
  BY DEF Header, Payload, Crlf
<1> HIDE DEF n, m, top
<1>6. low = [j \in 1 .. n |-> [kind |-> m.body[j]]]
  BY <1>5
<1>7. \A j \in 1 .. n : low[j] \in Byte(items) /\ low[j].kind \in {"crlf", "body"}
  BY <1>5, <1>6 DEF Byte
<1>8. Vec(low) /\ Len(low) = n
  <2>1. low = [j \in 1 .. n |-> low[j]]
    BY <1>6
  <2> HIDE DEF low
  <2> QED
    BY <1>5, <2>1, VecIs
<1>9. low \in Seq(Byte(items))
  <2>1. DOMAIN low = 1 .. n
    BY <1>6
  <2> HIDE DEF low
  <2>2. \A j \in 1 .. Len(low) : low[j] \in Byte(items)
    BY <1>7, <1>8
  <2>3. low \in Seq(ToSet(low))
    BY <1>8 DEF Vec
  <2> QED
    BY <2>2, <2>3
<1> HIDE DEF low
<1> DEFINE c == top \o low
<1>10. c \in Seq(Byte(items)) /\ IsJoin(c, top, low)
  BY <1>3, <1>9 DEF IsJoin
<1>11. Follows(c, top, low)
  BY <1>3, <1>8, <1>10, VecJoin
<1> HIDE DEF c
<1>12. Len(c) = 4 + n /\ \A k \in 1 .. 4 : c[k] = top[k]
  BY <1>3, <1>8, <1>11 DEF Follows
<1>13. \A p \in 5 .. (4 + n) : c[p].kind \in {"crlf", "body"}
  <2> SUFFICES ASSUME NEW p \in 5 .. (4 + n) PROVE c[p].kind \in {"crlf", "body"}
    OBVIOUS
  <2>1. p - 4 \in 1 .. n /\ p = 4 + (p - 4)
    BY <1>5
  <2>2. c[p] = low[p - 4]
    BY <1>3, <1>8, <1>11, <2>1 DEF Follows
  <2> QED
    BY <1>7, <2>1, <2>2
<1>14. Opens(c, i, m, 0)
  <2>1. c[0 + 1] = top[0 + 1] /\ c[0 + 2] = top[0 + 2] /\ c[0 + 3] = top[0 + 3] /\ c[0 + 4] = top[0 + 4]
    BY <1>12
  <2> QED
    BY <1>4, <2>1 DEF Opens
<1>15. Lies(items, c, i, 0, Len(c))
  <2>1. Len(c) = 0 + 4 + Len(m.body) /\ (0 + 5) .. Len(c) = 5 .. (4 + n)
    BY <1>5, <1>12 DEF n
  <2>2. \A p \in (0 + 5) .. Len(c) : c[p].kind \in {"crlf", "body"}
    BY <1>13, <2>1
  <2> QED
    BY <1>14, <2>1, <2>2, Zenon DEF Lies, m
<1>17. Len(c) \in Nat /\ Len(c) >= 4
  BY <1>5, <1>12
<1>18. Header(i, items[i]) \o Payload(items[i]) = c
  BY <1>16 DEF c
<1> QED
  BY <1>10, <1>15, <1>17, <1>18

LEMMA ItemStands ==
  ASSUME NEW items, Plainly(items), NEW i \in 1 .. Len(items)
  PROVE  /\ Item(items, i) \in Seq(Byte(items)) /\ Len(Item(items, i)) \in Nat
         /\ Len(Item(items, i)) >= 2
         /\ Stands(items, Item(items, i), i, 0, Len(Item(items, i)))
<1>0. i \in DOMAIN items
  BY VecFacts DEF Plainly
<1>1. CASE items[i] = Nothing
  <2>1. Item(items, i) = <<[kind |-> "crlf"], [kind |-> "crlf"]>>
    BY <1>1 DEF Item, Ping, Crlf
  <2>2. [kind |-> "crlf"] \in Byte(items)
    BY DEF Byte
  <2> QED
    BY <1>1, <2>1, <2>2 DEF Stands
<1>2. CASE items[i] # Nothing
  <2> DEFINE m == items[i]
             c == Header(i, m) \o Payload(m)
             n == Len(c)
  <2>1. i \in Messages(items)
    BY <1>0, <1>2 DEF Messages
  <2>2. c \in Seq(Byte(items)) /\ n \in Nat /\ n >= 4 /\ Lies(items, c, i, 0, n)
    BY <2>1, MessageLies
  <2>3. items[i].pong \in BOOLEAN /\ items[i].body \in Seq({"crlf", "body"})
    BY <2>1 DEF Plainly
  <2>4. Header(i, m) \in Seq(Byte(items)) /\ Payload(m) = [j \in DOMAIN m.body |-> [kind |-> m.body[j]]]
    <3>1. /\ [kind |-> "start", item |-> i] \in Byte(items) /\ [kind |-> "length", n |-> m.claims] \in Byte(items)
          /\ [kind |-> "crlf"] \in Byte(items)
      BY <2>1 DEF Byte, Plainly
    <3> QED
      BY <3>1 DEF Header, Payload, Crlf
  <2>5. CASE ~items[i].pong
    <3>1. Item(items, i) = c
      <4> DEFINE h == Header(i, m)
                 l == Payload(m)
      <4>1. Item(items, i) = (<<>> \o h) \o l
        BY <1>2, <2>5 DEF Item, Bytes, Header, Payload
      <4>2. h \in Seq(Byte(items))
        BY <2>4
      <4> HIDE DEF h, l
      <4>3. <<>> \o h = h
        BY <4>2
      <4> QED
        BY <4>1, <4>3 DEF h, l
    <3> HIDE DEF c
    <3> QED
      BY <1>2, <2>2, <2>5, <3>1 DEF Stands
  <2>6. CASE items[i].pong
    <3> DEFINE h == Header(i, m)
               l == Payload(m)
               one == <<Crlf>>
               d == one \o c
    <3>1. h \in Seq(Byte(items)) /\ l \in Seq(Byte(items)) /\ one \in Seq(Byte(items)) /\ Len(one) = 1
          /\ one[1] = Crlf
      <4>1. Crlf \in Byte(items)
        BY DEF Byte, Crlf
      <4>2. one \in Seq(Byte(items)) /\ Len(one) = 1 /\ one[1] = Crlf
        BY <4>1
      <4>3. \A j \in DOMAIN m.body : [kind |-> m.body[j]] \in Byte(items)
        BY <2>3 DEF Byte
      <4>4. l \in Seq(Byte(items))
        <5> DEFINE k == Len(m.body)
        <5>1. k \in Nat /\ DOMAIN m.body = 1 .. k /\ l = [j \in 1 .. k |-> [kind |-> m.body[j]]]
          BY <2>3 DEF Payload
        <5> HIDE DEF k, l
        <5>2. \A j \in 1 .. k : l[j] \in Byte(items)
          BY <4>3, <5>1
        <5>3. l = [j \in 1 .. k |-> l[j]]
          BY <5>1
        <5> QED
          BY <5>1, <5>2, <5>3, VecIs DEF Vec
      <4> QED
        BY <2>4, <4>2, <4>4
    <3>2. Item(items, i) = d
      <4>1. Item(items, i) = (one \o h) \o l
        BY <1>2, <2>6 DEF Item, Bytes, Header, Payload
      <4> HIDE DEF h, l, one
      <4>2. (one \o h) \o l = one \o (h \o l)
        BY <3>1
      <4> QED
        BY <4>1, <4>2 DEF h, l
    <3> HIDE DEF c, h, l, one
    <3>3. d \in Seq(Byte(items)) /\ Len(d) = n + 1 /\ d[1] = Crlf /\ \A x \in 1 .. n : d[x + 1] = c[x]
      <4>1. c \in Seq(Byte(items)) /\ one \in Seq(Byte(items)) /\ Len(c) \in Nat /\ n = Len(c)
        BY <2>2, <3>1
      <4> HIDE DEF n
      <4>2. Len(d) = Len(one) + Len(c) /\ d \in Seq(Byte(items))
        BY <4>1
      <4>3. d[1] = one[1]
        <5>1. \A k \in 1 .. Len(one) : (one \o c)[k] = one[k]
          BY <4>1
        <5> HIDE DEF d
        <5>2. 1 \in 1 .. Len(one)
          BY <3>1
        <5> QED
          BY <5>1, <5>2 DEF d
      <4>4. ASSUME NEW x \in 1 .. n PROVE d[x + 1] = c[x]
        <5>1. x + 1 \in (Len(one) + 1) .. (Len(one) + Len(c)) /\ (x + 1) - Len(one) = x
          BY <3>1, <4>1
        <5> QED
          BY <4>1, <5>1
      <4> HIDE DEF d
      <4>5. Len(d) = n + 1 /\ d[1] = Crlf
        BY <3>1, <4>1, <4>2, <4>3
      <4> QED
        BY <4>2, <4>4, <4>5
    <3> HIDE DEF d, n
    <3>4. Lies(items, d, i, 1, n + 1)
      <4>1. n = 0 + 4 + Len(items[i].body) /\ Opens(c, i, items[i], 0)
            /\ \A p \in (0 + 5) .. n : c[p].kind \in {"crlf", "body"}
        BY <2>2, Zenon DEF Lies
      <4>2. Len(items[i].body) \in Nat
        BY <2>3
      <4>3. d[1 + 1] = c[0 + 1] /\ d[1 + 2] = c[0 + 2] /\ d[1 + 3] = c[0 + 3] /\ d[1 + 4] = c[0 + 4]
        BY <2>2, <3>3
      <4>4. Opens(d, i, items[i], 1)
        BY <4>1, <4>3 DEF Opens
      <4>5. ASSUME NEW p \in (1 + 5) .. (n + 1) PROVE d[p].kind \in {"crlf", "body"}
        <5>1. p - 1 \in (0 + 5) .. n /\ p - 1 \in 1 .. n /\ (p - 1) + 1 = p
          BY <2>2
        <5>2. d[p] = c[p - 1]
          BY <3>3, <5>1
        <5> QED
          BY <4>1, <5>1, <5>2
      <4>6. n + 1 = 1 + 4 + Len(items[i].body)
        BY <4>1, <4>2
      <4> QED
        BY <4>4, <4>5, <4>6 DEF Lies
    <3>5. d[0 + 1].kind = "crlf" /\ 0 + 1 = 1 /\ n + 1 \in Nat /\ n + 1 >= 2
      BY <2>2, <3>3 DEF Crlf
    <3>6. Stands(items, d, i, 0, n + 1)
      BY <1>2, <2>6, <3>4, <3>5 DEF Stands
    <3> QED
      BY <3>2, <3>3, <3>5, <3>6
  <2> QED
    BY <2>3, <2>5, <2>6
<1> QED
  BY <1>1, <1>2

(* The ends of the items, and what stands between them *)
EndsOf(items) == [j \in 0 .. Len(items) |-> Len(Until(items, j))]
Laid(items, w, o) ==
  /\ Len(items) \in Nat /\ Len(w) \in Nat /\ DOMAIN items = 1 .. Len(items)
  /\ o[0] = 0 /\ o[Len(items)] = Len(w)
  /\ \A j \in 0 .. Len(items) : o[j] \in Nat
  /\ \A i \in 1 .. Len(items) :
       /\ o[i] = o[i - 1] + Len(Item(items, i)) /\ o[i] >= o[i - 1] + 2
       /\ Stands(items, w, i, o[i - 1], o[i])

LEMMA LiesMoved ==
  ASSUME NEW items, NEW v, NEW i, NEW n \in Nat, NEW h \in Nat, Lies(items, v, i, h, n), NEW w, NEW a \in Nat,
         \A x \in 1 .. n : w[a + x] = v[x], Len(items[i].body) \in Nat
  PROVE  Lies(items, w, i, a + h, a + n)
<1> DEFINE k == Len(items[i].body)
<1>1. n = h + 4 + k /\ Opens(v, i, items[i], h) /\ \A p \in (h + 5) .. n : v[p].kind \in {"crlf", "body"}
  BY Zenon DEF Lies
<1>2. k \in Nat
  OBVIOUS
<1> HIDE DEF k
<1>3. n >= h + 4 /\ a + n = (a + h) + 4 + k
  BY <1>1, <1>2
<1>4. ASSUME NEW x \in 1 .. 4 PROVE w[(a + h) + x] = v[h + x]
  <2>1. h + x \in 1 .. n /\ a + (h + x) = (a + h) + x
    BY <1>3
  <2> QED
    BY <2>1
<1>5. Opens(w, i, items[i], a + h)
  <2>1. /\ w[(a + h) + 1] = v[h + 1] /\ w[(a + h) + 2] = v[h + 2]
        /\ w[(a + h) + 3] = v[h + 3] /\ w[(a + h) + 4] = v[h + 4]
    BY <1>4
  <2> QED
    BY <1>1, <2>1 DEF Opens
<1>6. ASSUME NEW p \in ((a + h) + 5) .. (a + n) PROVE w[p].kind \in {"crlf", "body"}
  <2>1. p - a \in (h + 5) .. n /\ p - a \in 1 .. n /\ a + (p - a) = p
    OBVIOUS
  <2>2. w[p] = v[p - a]
    BY <2>1
  <2> QED
    BY <1>1, <2>1, <2>2
<1> QED
  BY <1>3, <1>5, <1>6, Zenon DEF Lies, k

LEMMA ItemMoved ==
  ASSUME NEW items, NEW v, NEW i, NEW n \in Nat, n >= 2, Stands(items, v, i, 0, n), NEW w, NEW a \in Nat,
         \A x \in 1 .. n : w[a + x] = v[x],
         items[i] # Nothing => Len(items[i].body) \in Nat
  PROVE  Stands(items, w, i, a, a + n)
<1>0. w[a + 1] = v[0 + 1] /\ w[a + 2] = v[0 + 2] /\ a + 0 = a /\ 0 + 1 = 1
  OBVIOUS
<1>1. CASE items[i] = Nothing
  <2>1. n = 2 /\ v[0 + 1].kind = "crlf" /\ v[0 + 2].kind = "crlf"
    BY <1>1 DEF Stands
  <2> QED
    BY <1>0, <1>1, <2>1 DEF Stands
<1>2. CASE items[i] # Nothing /\ items[i].pong
  <2>1. v[0 + 1].kind = "crlf" /\ Lies(items, v, i, 1, n)
    BY <1>0, <1>2 DEF Stands
  <2>2. Lies(items, w, i, a + 1, a + n)
    BY <1>2, <2>1, LiesMoved
  <2> QED
    BY <1>0, <1>2, <2>1, <2>2 DEF Stands
<1>3. CASE items[i] # Nothing /\ ~items[i].pong
  <2>1. Lies(items, v, i, 0, n)
    BY <1>3 DEF Stands
  <2>2. Lies(items, w, i, a + 0, a + n)
    BY <1>3, <2>1, LiesMoved
  <2> QED
    BY <1>0, <1>3, <2>2 DEF Stands
<1> QED
  BY <1>1, <1>2, <1>3

(* The bytes of a connection are its items, one after the other. *)
LEMMA WireLaid ==
  ASSUME NEW items, Plainly(items), NEW o, o = EndsOf(items)
  PROVE  WireOf(items) \in Seq(Byte(items)) /\ Laid(items, WireOf(items), o)
<1> DEFINE w == WireOf(items)
           N == Len(items)
           B == Byte(items)
<1>1. N \in Nat /\ Vec(items) /\ DOMAIN items = 1 .. N
  BY VecFacts DEF Plainly
<1>2. \A i \in 1 .. N : Item(items, i) \in Seq(B) /\ Len(Item(items, i)) \in Nat /\ Len(Item(items, i)) >= 2
  BY ItemStands
<1>3. /\ \A j \in 0 .. N : Until(items, j) \in Seq(B)
      /\ Until(items, 0) = <<>>
      /\ \A j \in 1 .. N : Until(items, j) = Until(items, j - 1) \o Item(items, j)
      /\ Until(items, N) = w
  BY <1>1, <1>2, UntilSteps
<1>4. \A j \in 0 .. N : o[j] = Len(Until(items, j)) /\ o[j] \in Nat
  BY <1>3 DEF EndsOf
<1> HIDE DEF w, N, B
<1>5. w \in Seq(B) /\ o[0] = 0 /\ o[N] = Len(w) /\ Len(w) \in Nat
  BY <1>1, <1>3, <1>4
<1>6. ASSUME NEW i \in 1 .. N
      PROVE  i - 1 \in 0 .. N /\ i \in 0 .. N /\ o[i] = o[i - 1] + Len(Item(items, i)) /\ o[i] >= o[i - 1] + 2
             /\ \A x \in 1 .. Len(Item(items, i)) : Until(items, i)[o[i - 1] + x] = Item(items, i)[x]
  <2> DEFINE s == Until(items, i - 1)
             m == Item(items, i)
  <2>1. i - 1 \in 0 .. N /\ i \in 0 .. N
    BY <1>1
  <2>2. s \in Seq(B) /\ m \in Seq(B) /\ Until(items, i) = s \o m /\ Len(m) \in Nat /\ Len(m) >= 2
    BY <1>2, <1>3, <2>1
  <2>3. Len(s) = o[i - 1] /\ Len(Until(items, i)) = o[i]
    BY <1>4, <2>1
  <2> HIDE DEF s, m
  <2>4. Len(s \o m) = Len(s) + Len(m) /\ \A x \in 1 .. Len(m) : (s \o m)[Len(s) + x] = m[x]
    BY <2>2
  <2>5. Len(s) \in Nat
    BY <2>2
  <2> DEFINE u == Until(items, i)
             j == i - 1
  <2>6. u = s \o m /\ Len(s) = o[j] /\ Len(u) = o[i] /\ j \in 0 .. N /\ i \in 0 .. N
    BY <2>1, <2>2, <2>3
  <2>7. Len(m) \in Nat /\ Len(m) >= 2
    BY <2>2
  <2> HIDE DEF u, j
  <2>8. o[i] = o[j] + Len(m) /\ o[i] >= o[j] + 2
    BY <2>4, <2>5, <2>6, <2>7
  <2>9. \A x \in 1 .. Len(m) : u[o[j] + x] = m[x]
    BY <2>4, <2>6
  <2> QED
    BY <2>6, <2>8, <2>9 DEF m, u, j
<1>7. ASSUME NEW i \in 1 .. N
      PROVE  \A p \in 1 .. o[i - 1] : Until(items, i)[p] = Until(items, i - 1)[p]
  <2> DEFINE s == Until(items, i - 1)
             m == Item(items, i)
  <2>1. i - 1 \in 0 .. N
    BY <1>1
  <2>2. s \in Seq(B) /\ m \in Seq(B) /\ Until(items, i) = s \o m /\ Len(s) = o[i - 1]
    BY <1>2, <1>3, <1>4, <2>1
  <2> HIDE DEF s, m
  <2>3. \A p \in 1 .. Len(s) : (s \o m)[p] = s[p]
    BY <2>2
  <2> QED
    BY <2>2, <2>3 DEF s
<1>8. ASSUME NEW i \in 1 .. N, NEW x \in 1 .. Len(Item(items, i)) PROVE w[o[i - 1] + x] = Item(items, i)[x]
  <2> DEFINE p == o[i - 1] + x
             v == Item(items, i)[x]
             K == {k \in Nat : i + k <= N => p <= o[i + k] /\ Until(items, i + k)[p] = v}
  <2>1. p \in Nat /\ p > 0 /\ p <= o[i] /\ i \in Nat /\ x \in Nat
    BY <1>1, <1>2, <1>4, <1>6, SMTT(30)
  <2>2. Until(items, i)[p] = v
    BY <1>6
  <2>3. i + 0 = i
    BY <2>1
  <2> HIDE DEF p, v
  <2>4. 0 \in K
    BY <2>1, <2>2, <2>3
  <2>5. ASSUME NEW k \in K PROVE k + 1 \in K
    <3> SUFFICES ASSUME i + (k + 1) <= N
                 PROVE  p <= o[i + (k + 1)] /\ Until(items, i + (k + 1))[p] = v
      OBVIOUS
    <3> DEFINE j == i + (k + 1)
    <3>1. j \in 1 .. N /\ j - 1 = i + k /\ j - 1 \in 0 .. N
      BY <1>1, <2>1
    <3>2. p <= o[j - 1] /\ Until(items, j - 1)[p] = v
      BY <1>1, <2>1, <3>1
    <3>3. o[j] >= o[j - 1] + 2 /\ o[j] \in Nat /\ o[j - 1] \in Nat
      BY <1>4, <1>6, <3>1
    <3>4. p \in 1 .. o[j - 1]
      BY <2>1, <3>2, <3>3
    <3>5. Until(items, j)[p] = Until(items, j - 1)[p]
      BY <1>7, <3>1, <3>4
    <3>6. p <= o[j]
      BY <2>1, <3>2, <3>3
    <3> HIDE DEF j
    <3>7. p <= o[j] /\ Until(items, j)[p] = v
      BY <3>2, <3>5, <3>6
    <3> QED
      BY <3>7 DEF j
  <2> HIDE DEF K
  <2>6. K \in SUBSET Nat
    BY DEF K
  <2>7. K = Nat
    BY <2>4, <2>5, <2>6, SetInduction
  <2>8. N - i \in Nat /\ i + (N - i) = N
    BY <1>1
  <2>9. Until(items, i + (N - i))[p] = v
    BY <2>7, <2>8 DEF K
  <2> QED
    BY <1>3, <2>8, <2>9 DEF p, v
<1>9. ASSUME NEW i \in 1 .. N PROVE Stands(items, w, i, o[i - 1], o[i])
  <2> DEFINE n == Len(Item(items, i))
             v == Item(items, i)
  <2>1. Stands(items, v, i, 0, n) /\ n \in Nat /\ n >= 2
    BY ItemStands DEF N
  <2>2. o[i - 1] \in Nat /\ o[i] = o[i - 1] + n
    BY <1>4, <1>6
  <2>3. \A x \in 1 .. n : w[o[i - 1] + x] = v[x]
    BY <1>8
  <2>4. items[i] # Nothing => Len(items[i].body) \in Nat
    BY <1>1 DEF Plainly, Messages
  <2> HIDE DEF n, v
  <2>5. Stands(items, w, i, o[i - 1], o[i - 1] + n)
    BY <2>1, <2>2, <2>3, <2>4, ItemMoved
  <2> QED
    BY <2>2, <2>5
<1>10. \A i \in 1 .. N : o[i] = o[i - 1] + Len(Item(items, i)) /\ o[i] >= o[i - 1] + 2
  BY <1>6
<1>11. \A j \in 0 .. N : o[j] \in Nat
  BY <1>4
<1>12. Laid(items, w, o)
  BY <1>1, <1>5, <1>9, <1>10, <1>11 DEF Laid, N
<1> QED
  BY <1>5, <1>12 DEF w, B

-----------------------------------------------------------------------------
(* A round of the loop, on the bytes after a and up to z *)
Piece(a, z) == [i \in 1 .. (z - a) |-> a + i]
SepAt(w, p) == w[p].kind = "crlf" /\ w[p + 1].kind = "crlf"
FirstSep(w, a, s) == s \in Nat /\ s > a /\ SepAt(w, s) /\ \A p \in (a + 1) .. (s - 1) : ~SepAt(w, p)
Claimed(w, a, s) == ContentLength(Piece(a, s - 1), w)

LEMMA PieceIs ==
  ASSUME NEW a \in Nat, NEW z \in Nat, a <= z
  PROVE  /\ Piece(a, z) \in Seq(Nat) /\ Len(Piece(a, z)) = z - a /\ z - a \in Nat
         /\ \A i \in 1 .. (z - a) : Piece(a, z)[i] = a + i
<1> DEFINE q == Piece(a, z)
           n == z - a
<1>1. n \in Nat /\ q = [i \in 1 .. n |-> a + i]
  BY DEF Piece
<1>2. \A i \in 1 .. n : q[i] = a + i /\ q[i] \in Nat
  BY <1>1
<1>3. q = [i \in 1 .. n |-> q[i]] /\ DOMAIN q = 1 .. n
  BY <1>1
<1> HIDE DEF q, n
<1>4. Vec(q) /\ Len(q) = n
  BY <1>1, <1>3, VecIs
<1>5. q \in Seq(Nat)
  <2>1. \A i \in 1 .. Len(q) : q[i] \in Nat
    BY <1>2, <1>4
  <2>2. q \in Seq(ToSet(q))
    BY <1>4 DEF Vec
  <2> QED
    BY <2>1, <2>2
<1> QED
  BY <1>1, <1>2, <1>4, <1>5 DEF q, n

Within(a, z, l, m, c, e) ==
  /\ a \in Nat /\ z \in Nat /\ c \in Nat /\ e \in Nat
  /\ a <= c /\ c <= e /\ e <= z /\ l = c - a + 1 /\ m = e - a

LEMMA PieceOf ==
  ASSUME NEW a, NEW z, NEW l, NEW m, NEW c, NEW e, Within(a, z, l, m, c, e)
  PROVE  SubSeq(Piece(a, z), l, m) = Piece(c, e)
<1> DEFINE k == c - a
           n == m - k
           b == Piece(a, z)
           q == SubSeq(b, l, m)
           v == Piece(c, e)
<1>0. /\ a \in Nat /\ z \in Nat /\ c \in Nat /\ e \in Nat /\ a <= z /\ c <= e /\ e <= z
      /\ k \in Nat /\ l = k + 1 /\ c = a + k /\ e = a + m /\ m \in Nat /\ k <= m /\ m <= z - a
  BY DEF Within
<1> HIDE DEF k
<1>1. n \in Nat
  BY <1>0
<1>2. b \in Seq(Nat) /\ Len(b) = z - a /\ \A i \in 1 .. (z - a) : b[i] = a + i
  BY <1>0, PieceIs
<1>3. v \in Seq(Nat) /\ Len(v) = n /\ \A i \in 1 .. n : v[i] = c + i
  <2>1. c <= e /\ e - c = n
    BY <1>0
  <2>2. /\ Piece(c, e) \in Seq(Nat) /\ Len(Piece(c, e)) = e - c
        /\ \A i \in 1 .. (e - c) : Piece(c, e)[i] = c + i
    BY <1>0, <2>1, PieceIs, Zenon
  <2> QED
    BY <2>1, <2>2, Zenon
<1> HIDE DEF b, v
<1>4. q \in Seq(Nat) /\ Len(q) = n /\ \A i \in 1 .. n : q[i] = b[k + i]
  <2>1. q \in Seq(Nat) /\ Len(q) = n /\ \A i \in 1 .. n : q[i] = b[l + i - 1]
    <3>1. l \in 1 .. Len(b) + 1 /\ m \in (l - 1) .. Len(b) /\ m - l + 1 = n
      BY <1>0, <1>2
    <3>2. /\ SubSeq(b, l, m) \in Seq(Nat) /\ Len(SubSeq(b, l, m)) = m - l + 1
          /\ \A i \in 1 .. m - l + 1 : SubSeq(b, l, m)[i] = b[l + i - 1]
      BY <1>2, <3>1, SubSeqProperties
    <3> QED
      BY <3>1, <3>2
  <2>2. \A i \in 1 .. n : l + i - 1 = k + i
    BY <1>0, <1>1
  <2> QED
    BY <2>1, <2>2
<1> HIDE DEF q
<1>5. \A i \in 1 .. n : k + i \in 1 .. (z - a) /\ a + (k + i) = c + i
  BY <1>0, <1>1
<1>6. \A i \in 1 .. n : q[i] = v[i]
  BY <1>2, <1>3, <1>4, <1>5
<1>7. q = v
  BY <1>3, <1>4, <1>6
<1> QED
  BY <1>7 DEF q, v, b

(* What find_header_end and content_length find in a piece *)
LEMMA SeparatorIs ==
  ASSUME NEW w, NEW a \in Nat, NEW z \in Nat, a <= z
  PROVE  /\ (\A p \in (a + 1) .. (z - 1) : ~SepAt(w, p)) => Separator(Piece(a, z), w) = 0
         /\ \A s : FirstSep(w, a, s) /\ s < z => Separator(Piece(a, z), w) = s - a
<1> DEFINE buf == Piece(a, z)
           n == z - a
           at == {i \in 1 .. (Len(buf) - 1) : w[buf[i]].kind = "crlf" /\ w[buf[i + 1]].kind = "crlf"}
           sep == Separator(buf, w)
<1>1. sep = IF at = {} THEN 0 ELSE CHOOSE i \in at : \A j \in at : i <= j
  BY DEF Separator
<1>2. n \in Nat /\ Len(buf) = n /\ \A i \in 1 .. n : buf[i] = a + i
  BY PieceIs
<1>3. \A i : i \in at <=> i \in 1 .. (n - 1) /\ SepAt(w, a + i)
  <2> SUFFICES ASSUME NEW i \in 1 .. (n - 1)
               PROVE  w[buf[i]].kind = "crlf" /\ w[buf[i + 1]].kind = "crlf" <=> SepAt(w, a + i)
    BY <1>2
  <2>1. buf[i] = a + i /\ buf[i + 1] = a + (i + 1) /\ a + (i + 1) = a + i + 1
    BY <1>2
  <2> QED
    BY <2>1 DEF SepAt
<1>4. n = z - a
  OBVIOUS
<1> HIDE DEF at, sep, n, buf
<1>5. ASSUME \A p \in (a + 1) .. (z - 1) : ~SepAt(w, p) PROVE sep = 0
  <2>1. \A i \in 1 .. (n - 1) : a + i \in (a + 1) .. (z - 1)
    BY <1>2, <1>4
  <2>2. at = {}
    BY <1>3, <1>5, <2>1
  <2> QED
    BY <1>1, <2>2
<1>6. ASSUME NEW s, FirstSep(w, a, s), s < z PROVE sep = s - a
  <2>1. s \in Nat /\ s > a /\ SepAt(w, s) /\ \A p \in (a + 1) .. (s - 1) : ~SepAt(w, p)
    BY <1>6 DEF FirstSep
  <2>2. s - a \in 1 .. (n - 1) /\ a + (s - a) = s
    BY <1>4, <1>6, <2>1
  <2>3. s - a \in at
    BY <1>3, <2>1, <2>2
  <2>4. \A i \in at : i \in Nat /\ i > 0 /\ i >= s - a
    <3> SUFFICES ASSUME NEW i \in at, i < s - a PROVE FALSE
      BY <1>2, <1>3, <2>1
    <3>1. a + i \in (a + 1) .. (s - 1) /\ SepAt(w, a + i)
      BY <1>2, <1>3, <2>1
    <3> QED
      BY <2>1, <3>1
  <2>5. s - a \in Nat
    BY <2>1
  <2>6. \A i \in at : s - a <= i
    BY <2>4, <2>5
  <2>7. \A i \in at : (\A j \in at : i <= j) => i = s - a
    BY <2>3, <2>4, <2>5
  <2>8. (CHOOSE i \in at : \A j \in at : i <= j) = s - a
    BY <2>3, <2>6, <2>7
  <2> QED
    BY <1>1, <2>3, <2>8
<1> QED
  BY <1>5, <1>6 DEF sep, buf

LEMMA LengthIs ==
  ASSUME NEW w, NEW a \in Nat, NEW z \in Nat, a <= z
  PROVE  /\ (\A p \in (a + 1) .. z : w[p].kind # "length") => ContentLength(Piece(a, z), w) = 0
         /\ \A p \in (a + 1) .. z :
              w[p].kind = "length" /\ (\A x \in (a + 1) .. z : x # p => w[x].kind # "length")
                => ContentLength(Piece(a, z), w) = w[p].n
<1> DEFINE h == Piece(a, z)
           n == z - a
           at == {i \in DOMAIN h : w[h[i]].kind = "length"}
           length == ContentLength(h, w)
<1>1. length = IF at = {} THEN 0 ELSE w[h[CHOOSE i \in at : \A j \in at : i <= j]].n
  BY DEF ContentLength
<1>2. n \in Nat /\ DOMAIN h = 1 .. n /\ (\A i \in 1 .. n : h[i] = a + i) /\ n = z - a
  BY PieceIs
<1>3. \A i : i \in at <=> i \in 1 .. n /\ w[a + i].kind = "length"
  BY <1>2
<1> HIDE DEF at, length, n, h
<1>4. ASSUME \A p \in (a + 1) .. z : w[p].kind # "length" PROVE length = 0
  <2>1. \A i \in 1 .. n : a + i \in (a + 1) .. z
    BY <1>2
  <2>2. at = {}
    BY <1>3, <1>4, <2>1
  <2> QED
    BY <1>1, <2>2
<1>5. ASSUME NEW p \in (a + 1) .. z, w[p].kind = "length",
             \A x \in (a + 1) .. z : x # p => w[x].kind # "length"
      PROVE  length = w[p].n
  <2>1. p - a \in 1 .. n /\ a + (p - a) = p
    BY <1>2
  <2>2. p - a \in at
    BY <1>3, <1>5, <2>1
  <2>3. ASSUME NEW i \in at PROVE i = p - a
    <3>1. i \in 1 .. n /\ w[a + i].kind = "length"
      BY <1>3
    <3>2. a + i \in (a + 1) .. z
      BY <1>2, <3>1
    <3>3. a + i = p
      BY <1>5, <3>1, <3>2
    <3> QED
      BY <3>1, <3>3
  <2>4. at = {p - a} /\ p - a <= p - a
    BY <2>2, <2>3
  <2>5. (CHOOSE i \in at : \A j \in at : i <= j) = p - a
    BY <2>4
  <2>6. h[p - a] = p
    BY <1>2, <2>1
  <2> QED
    BY <1>1, <2>2, <2>5, <2>6
<1> QED
  BY <1>4, <1>5 DEF length, h

(* Where a frame that begins after a ends *)
CutsAt(w, a, c) ==
  \E s \in Nat : FirstSep(w, a, s) /\ Claimed(w, a, s) \in Nat /\ c = s + 1 + Claimed(w, a, s)

LEMMA RoundWaits ==
  ASSUME NEW w, NEW a \in Nat, NEW z \in Nat, a <= z, NEW c \in Nat, CutsAt(w, a, c), z < c,
         NEW r, r.buf = Piece(a, z)
  PROVE  Round(r, w) = r
<1>1. PICK s \in Nat : FirstSep(w, a, s) /\ Claimed(w, a, s) \in Nat /\ c = s + 1 + Claimed(w, a, s)
  BY DEF CutsAt
<1> DEFINE sep == Separator(r.buf, w)
           total == sep + 1 + ContentLength(SubSeq(r.buf, 1, sep - 1), w)
<1>2. sep = 0 \/ ~Enough(r.buf, total) => Round(r, w) = r
  BY DEF Round
<1>3. CASE z <= s
  <2>1. \A p \in (a + 1) .. (z - 1) : ~SepAt(w, p)
    BY <1>1, <1>3 DEF FirstSep
  <2>2. sep = 0
    BY <2>1, SeparatorIs, ZenonT(30)
  <2> QED
    BY <1>2, <2>2
<1>4. CASE s < z
  <2>1. sep = s - a
    BY <1>1, <1>4, SeparatorIs
  <2>2. s > a
    BY <1>1 DEF FirstSep
  <2>3. SubSeq(r.buf, 1, sep - 1) = Piece(a, s - 1)
    <3>1. Within(a, z, 1, sep - 1, a, s - 1)
      BY <1>1, <1>4, <2>1, <2>2 DEF Within
    <3> QED
      BY <3>1, PieceOf
  <2>4. total = (s - a) + 1 + Claimed(w, a, s)
    BY <2>1, <2>3 DEF Claimed
  <2>5. Len(r.buf) = z - a
    BY PieceIs
  <2> HIDE DEF total
  <2>6. ~Enough(r.buf, total)
    BY <1>1, <2>2, <2>4, <2>5 DEF Enough
  <2> QED
    BY <1>2, <2>6
<1> QED
  BY <1>3, <1>4

LEMMA RoundTakes ==
  ASSUME NEW w, NEW a \in Nat, NEW z \in Nat, NEW c \in Nat, CutsAt(w, a, c), c <= z,
         NEW r, r.buf = Piece(a, z)
  PROVE  Round(r, w) = [buf |-> Piece(c, z), out |-> Append(r.out, Piece(a, c))] /\ a < c
<1>1. PICK s \in Nat : FirstSep(w, a, s) /\ Claimed(w, a, s) \in Nat /\ c = s + 1 + Claimed(w, a, s)
  BY DEF CutsAt
<1>2. s > a /\ s < z /\ a < c /\ a <= z
  BY <1>1 DEF FirstSep
<1> DEFINE sep == Separator(r.buf, w)
           total == sep + 1 + ContentLength(SubSeq(r.buf, 1, sep - 1), w)
<1>3. ~(sep = 0 \/ ~Enough(r.buf, total)) =>
        Round(r, w) = [buf |-> SubSeq(r.buf, total + 1, Len(r.buf)),
                       out |-> Append(r.out, SubSeq(r.buf, 1, total))]
  BY DEF Round
<1>4. sep = s - a
  BY <1>1, <1>2, SeparatorIs
<1>5. Len(r.buf) = z - a
  BY <1>2, PieceIs
<1>6. SubSeq(r.buf, 1, sep - 1) = Piece(a, s - 1)
  <2>1. Within(a, z, 1, sep - 1, a, s - 1)
    BY <1>2, <1>4 DEF Within
  <2> QED
    BY <2>1, PieceOf
<1>8. total = (s - a) + 1 + Claimed(w, a, s)
  BY <1>4, <1>6 DEF Claimed
<1> HIDE DEF total, sep
<1>9. sep # 0 /\ total = c - a /\ total \in Nat /\ Enough(r.buf, total)
  <2>1. sep # 0
    BY <1>1, <1>2, <1>4
  <2>2. total = c - a
    BY <1>1, <1>8
  <2>3. c - a \in Nat /\ c - a <= z - a
    BY <1>2
  <2> QED
    BY <1>5, <2>1, <2>2, <2>3 DEF Enough
<1>10. SubSeq(r.buf, total + 1, Len(r.buf)) = Piece(c, z)
  <2>1. Within(a, z, total + 1, z - a, c, z)
    BY <1>2, <1>9 DEF Within
  <2> QED
    BY <1>5, <2>1, PieceOf
<1>11. SubSeq(r.buf, 1, total) = Piece(a, c)
  <2>1. Within(a, z, 1, total, a, c)
    BY <1>2, <1>9 DEF Within
  <2> QED
    BY <2>1, PieceOf
<1> QED
  BY <1>2, <1>3, <1>9, <1>10, <1>11

-----------------------------------------------------------------------------
(* A message whose Content-Length is right is cut out whole. *)
Truthful(items, i) == items[i] = Nothing \/ items[i].claims = Len(items[i].body)

LEMMA PingCut ==
  ASSUME NEW w, NEW a \in Nat, w[a + 1].kind = "crlf", w[a + 2].kind = "crlf"
  PROVE  CutsAt(w, a, a + 2)
<1> DEFINE s == a + 1
<1>1. s \in Nat /\ s > a /\ s + 1 = a + 2 /\ s - 1 = a
  OBVIOUS
<1>2. SepAt(w, s)
  BY <1>1 DEF SepAt
<1>3. FirstSep(w, a, s)
  BY <1>1, <1>2 DEF FirstSep
<1>4. Claimed(w, a, s) = 0
  BY <1>1, LengthIs DEF Claimed
<1> HIDE DEF s
<1> QED
  BY <1>1, <1>3, <1>4 DEF CutsAt

(* From wherever no separator and no length come before its headers *)
LEMMA HeaderCut ==
  ASSUME NEW items, NEW w, NEW i, NEW h \in Nat, NEW b, Lies(items, w, i, h, b),
         items[i].claims = Len(items[i].body), Len(items[i].body) \in Nat,
         NEW a \in Nat, a <= h + 1, \A p \in (a + 1) .. h : ~SepAt(w, p) /\ w[p].kind # "length"
  PROVE  CutsAt(w, a, b) /\ b \in Nat /\ a < b
<1> DEFINE n == Len(items[i].body)
           s == h + 3
<1>1. /\ n \in Nat /\ b = h + 4 + n
      /\ w[h + 1].kind = "start" /\ w[h + 2].kind = "length" /\ w[h + 2].n = n
      /\ w[h + 3].kind = "crlf" /\ w[h + 4].kind = "crlf"
  BY DEF Lies, Opens
<1>2. /\ s \in Nat /\ s > a /\ s + 1 = h + 4 /\ s - 1 = h + 2 /\ h + 2 \in Nat /\ a <= h + 2
      /\ \A p \in (a + 1) .. (h + 2) : p \in (a + 1) .. h \/ p = h + 1 \/ p = h + 2
  OBVIOUS
<1>3. FirstSep(w, a, s)
  <2>1. SepAt(w, s)
    BY <1>1, <1>2 DEF SepAt
  <2>2. ~SepAt(w, h + 1) /\ ~SepAt(w, h + 2)
    BY <1>1 DEF SepAt
  <2>3. \A p \in (a + 1) .. (s - 1) : ~SepAt(w, p)
    BY <1>2, <2>2
  <2> HIDE DEF s
  <2> QED
    BY <1>2, <2>1, <2>3 DEF FirstSep
<1> HIDE DEF n, s
<1>4. Claimed(w, a, s) = n
  <2> DEFINE z == h + 2
  <2>1. z \in Nat /\ a <= z /\ z \in (a + 1) .. z /\ s - 1 = z
    BY <1>2
  <2>2. w[z].kind = "length" /\ w[z].n = n /\ \A x \in (a + 1) .. z : x # z => w[x].kind # "length"
    BY <1>1, <1>2
  <2> HIDE DEF z
  <2>3. ContentLength(Piece(a, z), w) = w[z].n
    BY <2>1, <2>2, LengthIs
  <2> QED
    BY <2>1, <2>2, <2>3 DEF Claimed
<1>5. b = s + 1 + n /\ b \in Nat /\ a < b
  BY <1>1, <1>2
<1> QED
  BY <1>1, <1>2, <1>3, <1>4, <1>5 DEF CutsAt

LEMMA AlignedCut ==
  ASSUME NEW items, NEW w, NEW i, NEW a \in Nat, NEW b, Stands(items, w, i, a, b),
         Truthful(items, i), items[i] # Nothing => Len(items[i].body) \in Nat
  PROVE  CutsAt(w, a, b) /\ b \in Nat /\ a < b
<1>1. CASE items[i] = Nothing
  <2>1. b = a + 2 /\ w[a + 1].kind = "crlf" /\ w[a + 2].kind = "crlf"
    BY <1>1 DEF Stands
  <2> QED
    BY <2>1, PingCut
<1>2. CASE items[i] # Nothing /\ ~items[i].pong
  <2>1. Lies(items, w, i, a, b) /\ items[i].claims = Len(items[i].body) /\ Len(items[i].body) \in Nat
    BY <1>2 DEF Stands, Truthful
  <2>2. a <= a + 1 /\ \A p \in (a + 1) .. a : FALSE
    OBVIOUS
  <2> QED
    BY <2>1, <2>2, HeaderCut
<1>3. CASE items[i] # Nothing /\ items[i].pong
  <2> DEFINE h == a + 1
  <2>1. /\ Lies(items, w, i, h, b) /\ items[i].claims = Len(items[i].body) /\ Len(items[i].body) \in Nat
        /\ w[h].kind = "crlf"
    BY <1>3 DEF Stands, Truthful
  <2>2. w[h + 1].kind = "start"
    BY <2>1 DEF Lies, Opens
  <2>3. a <= h + 1 /\ h \in Nat /\ \A p \in (a + 1) .. h : p = h
    OBVIOUS
  <2>4. ~SepAt(w, h) /\ w[h].kind # "length"
    BY <2>1, <2>2 DEF SepAt
  <2> HIDE DEF h
  <2>5. \A p \in (a + 1) .. h : ~SepAt(w, p) /\ w[p].kind # "length"
    BY <2>3, <2>4
  <2> QED
    BY <2>1, <2>3, <2>5, HeaderCut
<1> QED
  BY <1>1, <1>2, <1>3

(* The first separator at or before a given one *)
LEMMA FirstSepIs ==
  ASSUME NEW w, NEW a \in Nat, NEW t \in Nat, t > a, SepAt(w, t)
  PROVE  \E s \in Nat : FirstSep(w, a, s) /\ s <= t
<1> DEFINE S == {p \in (a + 1) .. t : SepAt(w, p)}
<1>1. S \in SUBSET Nat /\ t \in S
  OBVIOUS
<1>2. PICK s \in S : \A p \in S : s <= p
  BY <1>1, LeastNat
<1>3. s \in Nat /\ s > a /\ s <= t /\ SepAt(w, s)
  BY <1>1, <1>2
<1>4. \A p \in (a + 1) .. (s - 1) : ~SepAt(w, p)
  <2> SUFFICES ASSUME NEW p \in (a + 1) .. (s - 1), SepAt(w, p) PROVE FALSE
    OBVIOUS
  <2>1. p \in S /\ p < s
    BY <1>3
  <2> HIDE DEF S
  <2>2. s <= p
    BY <1>2, <2>1
  <2> QED
    BY <1>3, <2>1, <2>2
<1> HIDE DEF S
<1> QED
  BY <1>3, <1>4 DEF FirstSep

(* A loop that begins inside an item leaves it behind, with at most one    *)
(* item more or the line end that the next one begins with. *)
Leaves(w, a, e, f) ==
  \E c \in Nat : CutsAt(w, a, c) /\ a < c /\ (c <= e \/ c = f \/ (c = e + 1 /\ w[e + 1].kind = "crlf"))
LEMMA InsideCut ==
  ASSUME NEW items, NEW w, NEW i, NEW j, NEW d \in Nat, NEW e \in Nat, NEW f \in Nat,
         Stands(items, w, i, d, e), Stands(items, w, j, e, f),
         Truthful(items, i), Truthful(items, j),
         items[i] # Nothing => Len(items[i].body) \in Nat,
         items[j] # Nothing => Len(items[j].body) \in Nat,
         NEW a \in Nat, d < a, a < e
  PROVE  Leaves(w, a, e, f)
<1> SUFFICES \E c \in Nat : CutsAt(w, a, c) /\ a < c /\ (c <= e \/ c = f \/ (c = e + 1 /\ w[e + 1].kind = "crlf"))
  BY Zenon DEF Leaves
<1> DEFINE Low(p) == w[p].kind \in {"crlf", "body"}
           h == IF items[i].pong THEN d + 1 ELSE d
<1>1. ASSUME NEW s \in Nat, FirstSep(w, a, s), \A p \in (a + 1) .. (s - 1) : w[p].kind # "length"
      PROVE  CutsAt(w, a, s + 1)
  <2>1. s > a /\ s - 1 \in Nat /\ a <= s - 1
    BY <1>1 DEF FirstSep
  <2>2. Claimed(w, a, s) = 0
    BY <1>1, <2>1, LengthIs DEF Claimed
  <2>3. 0 \in Nat /\ s + 1 = s + 1 + 0
    OBVIOUS
  <2> QED
    BY <1>1, <2>2, <2>3 DEF CutsAt
<1>2. items[i] # Nothing => Lies(items, w, i, h, e)
  BY DEF Stands
<1>3. h \in Nat /\ d <= h /\ h <= a
  OBVIOUS
<1> HIDE DEF h
<1>4. CASE items[i] # Nothing /\ a <= h + 1
  <2>1. items[i].claims = Len(items[i].body) /\ Len(items[i].body) \in Nat /\ Lies(items, w, i, h, e)
    BY <1>2, <1>4 DEF Truthful
  <2>2. \A p \in (a + 1) .. h : FALSE
    BY <1>3
  <2>3. CutsAt(w, a, e)
    BY <1>3, <1>4, <2>1, <2>2, HeaderCut
  <2> QED
    BY <2>3
<1>5. CASE items[i] = Nothing \/ a > h + 1
  (* what is left of the item holds no length *)
  <2>1. \A p \in (a + 1) .. e : Low(p)
    <3> SUFFICES ASSUME NEW p \in (a + 1) .. e PROVE Low(p)
      OBVIOUS
    <3>1. CASE items[i] = Nothing
      <4>1. e = d + 2 /\ w[d + 2].kind = "crlf"
        BY <3>1 DEF Stands
      <4>2. p = d + 2
        BY <4>1
      <4> QED
        BY <4>1, <4>2
    <3>2. CASE items[i] # Nothing
      <4>1. /\ w[h + 3].kind = "crlf" /\ w[h + 4].kind = "crlf"
            /\ \A x \in (h + 5) .. e : w[x].kind \in {"crlf", "body"}
        BY <1>2, <3>2 DEF Lies, Opens
      <4>2. p = h + 3 \/ p = h + 4 \/ p \in (h + 5) .. e
        BY <1>3, <1>5, <3>2
      <4> QED
        BY <4>1, <4>2
    <3> QED
      BY <3>1, <3>2
  <2> HIDE DEF Low
  <2>2. CASE \E t \in (a + 1) .. e : SepAt(w, t)
    <3>1. PICK t \in Nat : t > a /\ t <= e /\ SepAt(w, t)
      BY <2>2
    <3>2. PICK s \in Nat : FirstSep(w, a, s) /\ s <= t
      BY <3>1, FirstSepIs
    <3>3. s > a /\ s <= e /\ SepAt(w, s)
      BY <3>1, <3>2 DEF FirstSep
    <3>4. \A p \in (a + 1) .. (s - 1) : p \in (a + 1) .. e
      BY <3>3
    <3>5. \A p \in (a + 1) .. (s - 1) : w[p].kind # "length"
      BY <2>1, <3>4 DEF Low
    <3>6. CutsAt(w, a, s + 1)
      BY <1>1, <3>2, <3>5
    <3>7. s + 1 \in Nat /\ a < s + 1 /\ (s + 1 <= e \/ s = e)
      BY <3>3
    <3>8. s = e => w[e + 1].kind = "crlf"
      BY <3>3 DEF SepAt
    <3> QED
      BY <3>6, <3>7, <3>8
  <2>3. CASE ~(\E t \in (a + 1) .. e : SepAt(w, t)) /\ items[j] = Nothing
    <3>1. f = e + 2 /\ w[e + 1].kind = "crlf" /\ w[e + 2].kind = "crlf" /\ e + 1 + 1 = e + 2
      BY <2>3 DEF Stands
    <3> DEFINE s == e + 1
    <3>2. s \in Nat /\ s > a /\ s - 1 = e /\ s + 1 = f
      BY <3>1
    <3>3. SepAt(w, s)
      BY <3>1 DEF SepAt
    <3> HIDE DEF s
    <3>4. FirstSep(w, a, s)
      BY <2>3, <3>2, <3>3 DEF FirstSep
    <3>5. \A p \in (a + 1) .. (s - 1) : w[p].kind # "length"
      BY <2>1, <3>2 DEF Low
    <3>6. CutsAt(w, a, f) /\ a < f
      BY <1>1, <3>2, <3>4, <3>5
    <3> QED
      BY <3>6
  <2>4. CASE ~(\E t \in (a + 1) .. e : SepAt(w, t)) /\ items[j] # Nothing
    <3> DEFINE g == IF items[j].pong THEN e + 1 ELSE e
    <3>1. /\ Lies(items, w, j, g, f) /\ items[j].claims = Len(items[j].body) /\ Len(items[j].body) \in Nat
          /\ g = e \/ (g = e + 1 /\ w[e + 1].kind = "crlf")
      BY <2>4 DEF Stands, Truthful
    <3> HIDE DEF g
    <3>2. w[g + 1].kind = "start"
      BY <3>1 DEF Lies, Opens
    <3>3. g \in Nat /\ a <= g + 1 /\ \A p \in (a + 1) .. g : p \in (a + 1) .. e \/ (p = g /\ g = e + 1)
      BY <3>1
    <3>4. g = e + 1 => ~SepAt(w, g) /\ w[g].kind # "length"
      BY <3>1, <3>2 DEF SepAt
    <3>5. \A p \in (a + 1) .. g : ~SepAt(w, p) /\ w[p].kind # "length"
      BY <2>1, <2>4, <3>3, <3>4 DEF Low
    <3>6. CutsAt(w, a, f) /\ a < f
      BY <3>1, <3>3, <3>5, HeaderCut
    <3> QED
      BY <3>6
  <2> QED
    BY <2>2, <2>3, <2>4
<1> QED
  BY <1>3, <1>4, <1>5

-----------------------------------------------------------------------------
(* The loop goes from cut to cut, within a set T of positions, until it    *)
(* has to wait for more bytes than the z that have come.                   *)
Idle(w, p, z) ==
  (\E c \in Nat : CutsAt(w, p, c) /\ z < c) \/ \A x \in (p + 1) .. (z - 1) : ~SepAt(w, x)
Leads(w, T, z) == T \subseteq 0 .. z /\ \A p \in T : Idle(w, p, z) \/ \E c \in T : CutsAt(w, p, c)
Walk(w, T, a, z, r, n, b) ==
  /\ b \in [0 .. n -> T] /\ b[0] = a /\ b[n] >= a + n
  /\ r.buf = Piece(b[n], z) /\ r.out \in Seq(Seq(Nat)) /\ Len(r.out) = n
  /\ \A k \in 1 .. n : CutsAt(w, b[k - 1], b[k]) /\ r.out[k] = Piece(b[k - 1], b[k])

LEMMA RoundIdle ==
  ASSUME NEW w, NEW a \in Nat, NEW z \in Nat, a <= z, Idle(w, a, z), NEW r, r.buf = Piece(a, z)
  PROVE  Round(r, w) = r
<1>1. CASE \E c \in Nat : CutsAt(w, a, c) /\ z < c
  BY <1>1, RoundWaits
<1>2. CASE \A x \in (a + 1) .. (z - 1) : ~SepAt(w, x)
  <2>1. Separator(r.buf, w) = 0
    BY <1>2, SeparatorIs, ZenonT(30)
  <2> QED
    BY <2>1 DEF Round
<1> QED
  BY <1>1, <1>2 DEF Idle

LEMMA OneCut ==
  ASSUME NEW w, NEW a \in Nat, NEW c \in Nat, CutsAt(w, a, c), NEW e \in Nat, CutsAt(w, a, e)
  PROVE  c = e /\ a < c
<1>1. PICK s \in Nat : FirstSep(w, a, s) /\ Claimed(w, a, s) \in Nat /\ c = s + 1 + Claimed(w, a, s)
  BY DEF CutsAt
<1>2. PICK t \in Nat : FirstSep(w, a, t) /\ Claimed(w, a, t) \in Nat /\ e = t + 1 + Claimed(w, a, t)
  BY DEF CutsAt
<1>3. s > a /\ SepAt(w, s) /\ \A p \in (a + 1) .. (s - 1) : ~SepAt(w, p)
  BY <1>1 DEF FirstSep
<1>4. t > a /\ SepAt(w, t) /\ \A p \in (a + 1) .. (t - 1) : ~SepAt(w, p)
  BY <1>2 DEF FirstSep
<1>5. s < t => s \in (a + 1) .. (t - 1)
  BY <1>3
<1>6. t < s => t \in (a + 1) .. (s - 1)
  BY <1>4
<1>7. s = t
  BY <1>3, <1>4, <1>5, <1>6
<1> QED
  BY <1>1, <1>2, <1>3, <1>7

(* A frame that the loop waits for ends after what has come. *)
LEMMA IdleBefore ==
  ASSUME NEW w, NEW a \in Nat, NEW z \in Nat, Idle(w, a, z), NEW c \in Nat, CutsAt(w, a, c)
  PROVE  z < c
<1>1. PICK s \in Nat : FirstSep(w, a, s) /\ Claimed(w, a, s) \in Nat /\ c = s + 1 + Claimed(w, a, s)
  BY DEF CutsAt
<1>2. s > a /\ SepAt(w, s)
  BY <1>1 DEF FirstSep
<1>3. CASE \A x \in (a + 1) .. (z - 1) : ~SepAt(w, x)
  <2>1. s \notin (a + 1) .. (z - 1)
    BY <1>2, <1>3
  <2>2. s >= z
    BY <1>2, <2>1
  <2> QED
    BY <1>1, <2>2
<1>4. CASE \E e \in Nat : CutsAt(w, a, e) /\ z < e
  BY <1>4, OneCut
<1> QED
  BY <1>3, <1>4 DEF Idle

LEMMA WalkEnd ==
  ASSUME NEW w, NEW T, NEW a, NEW z \in Nat, Leads(w, T, z),
         NEW r, NEW n \in Nat, NEW b, Walk(w, T, a, z, r, n, b)
  PROVE  b[n] \in T /\ b[n] \in Nat /\ b[n] <= z /\ r.buf = Piece(b[n], z)
<1>1. n \in 0 .. n /\ b \in [0 .. n -> T]
  BY DEF Walk
<1>2. b[n] \in T
  BY <1>1
<1>3. b[n] \in 0 .. z
  BY <1>2 DEF Leads
<1>4. r.buf = Piece(b[n], z)
  BY DEF Walk
<1> QED
  BY <1>2, <1>3, <1>4

LEMMA WalkOn ==
  ASSUME NEW w, NEW T, NEW a \in Nat, NEW z \in Nat, Leads(w, T, z),
         NEW r, NEW n \in Nat, NEW b, Walk(w, T, a, z, r, n, b), ~Idle(w, b[n], z)
  PROVE  \E d : Walk(w, T, a, z, Round(r, w), n + 1, d)
<1>1. b[n] \in T /\ b[n] \in Nat /\ b[n] <= z
  BY WalkEnd
<1>2. PICK c \in T : CutsAt(w, b[n], c)
  BY <1>1 DEF Leads
<1>3. c \in Nat /\ c <= z
  BY DEF Leads
<1>4. Round(r, w) = [buf |-> Piece(c, z), out |-> Append(r.out, Piece(b[n], c))] /\ b[n] < c
  BY <1>1, <1>2, <1>3, RoundTakes DEF Walk
<1> DEFINE d == [k \in 0 .. (n + 1) |-> IF k <= n THEN b[k] ELSE c]
           m == Piece(b[n], c)
           out == Append(r.out, m)
<1>5. d[n + 1] = c /\ \A k \in 0 .. n : d[k] = b[k]
  OBVIOUS
<1>6. d \in [0 .. (n + 1) -> T]
  BY DEF Walk
<1> HIDE DEF d
<1>7. m \in Seq(Nat)
  <2>1. b[n] <= c
    BY <1>1, <1>3, <1>4
  <2> QED
    BY <1>1, <1>3, <2>1, PieceIs, Zenon
<1>8. out \in Seq(Seq(Nat)) /\ Len(out) = n + 1 /\ out[n + 1] = m /\ \A k \in 1 .. n : out[k] = r.out[k]
  <2> HIDE DEF m
  <2>1. r.out \in Seq(Seq(Nat)) /\ Len(r.out) = n
    BY DEF Walk
  <2> QED
    BY <1>7, <2>1, AppendProperties
<1> HIDE DEF out
<1>9. Round(r, w).buf = Piece(c, z) /\ Round(r, w).out = out
  BY <1>4 DEF out
<1>10. d[0] = a /\ d[n + 1] >= a + (n + 1)
  <2>1. b[0] = a /\ b[n] >= a + n
    BY DEF Walk
  <2> QED
    BY <1>1, <1>3, <1>4, <1>5, <2>1
<1>11. ASSUME NEW k \in 1 .. (n + 1)
       PROVE  CutsAt(w, d[k - 1], d[k]) /\ out[k] = Piece(d[k - 1], d[k])
  <2>1. CASE k = n + 1
    <3>1. d[k - 1] = b[n] /\ d[k] = c /\ out[k] = m
      BY <1>5, <1>8, <2>1
    <3> QED
      BY <1>2, <3>1 DEF m
  <2>2. CASE k # n + 1
    <3>1. k \in 1 .. n /\ k - 1 \in 0 .. n /\ k \in 0 .. n
      BY <2>2
    <3>2. d[k - 1] = b[k - 1] /\ d[k] = b[k] /\ out[k] = r.out[k]
      BY <1>5, <1>8, <3>1
    <3> QED
      BY <3>1, <3>2 DEF Walk
  <2> QED
    BY <2>1, <2>2
<1>12. Walk(w, T, a, z, Round(r, w), n + 1, d)
  BY <1>5, <1>6, <1>8, <1>9, <1>10, <1>11 DEF Walk
<1> QED
  BY <1>12

(* The whole loop is such a walk, to a position where it waits. *)
LEMMA FramedWalk ==
  ASSUME NEW w, NEW T, NEW a \in T, NEW z \in Nat, Leads(w, T, z)
  PROVE  \E n \in Nat : \E b : Walk(w, T, a, z, Framed(Piece(a, z), w), n, b) /\ Idle(w, b[n], z)
<1>0. a \in Nat /\ a <= z
  BY DEF Leads
<1> DEFINE buf == Piece(a, z)
<1>1. Len(buf) \in Nat /\ Len(buf) = z - a
  BY <1>0, PieceIs
<1>2. PICK h : RoundTable(h, buf, w, Len(buf)) /\ Framed(buf, w) = h[Len(buf)]
  BY <1>1, RoundTableExists, FramedIs
<1> DEFINE Done(m) == \E n \in Nat : \E b : Walk(w, T, a, z, h[m], n, b) /\ (Idle(w, b[n], z) \/ n = m)
           N == {m \in Nat : m <= Len(buf) => Done(m)}
<1>3. 0 \in N
  <2>1. 0 \in 0 .. Len(buf)
    BY <1>1
  <2>2. h[0] = [buf |-> buf, out |-> <<>>]
    BY <1>2, <2>1 DEF RoundTable
  <2> DEFINE b == [k \in 0 .. 0 |-> a]
  <2>3. b[0] = a /\ b \in [0 .. 0 -> T] /\ a + 0 = a /\ 1 .. 0 = {}
    BY <1>0
  <2>4. <<>> \in Seq(Seq(Nat)) /\ Len(<<>>) = 0
    OBVIOUS
  <2> HIDE DEF b
  <2>5. b[0] >= a + 0
    BY <1>0, <2>3
  <2>6. h[0].buf = Piece(b[0], z) /\ h[0].out = <<>>
    BY <2>2, <2>3
  <2>7. Walk(w, T, a, z, h[0], 0, b)
    BY <2>3, <2>4, <2>5, <2>6 DEF Walk
  <2>8. Done(0)
    BY <2>7
  <2> HIDE DEF Done
  <2> QED
    BY <2>8
<1>4. ASSUME NEW m \in N PROVE m + 1 \in N
  <2> SUFFICES ASSUME m + 1 <= Len(buf) PROVE Done(m + 1)
    OBVIOUS
  <2>1. m \in Nat /\ m + 1 \in 0 .. Len(buf) /\ m + 1 # 0 /\ (m + 1) - 1 = m /\ Done(m)
    BY <1>1
  <2>2. h[m + 1] = Round(h[m], w)
    BY <1>2, <2>1 DEF RoundTable
  <2>3. PICK n, b : n \in Nat /\ Walk(w, T, a, z, h[m], n, b) /\ (Idle(w, b[n], z) \/ n = m)
    BY <2>1
  <2>4. CASE Idle(w, b[n], z)
    <3>1. b[n] \in Nat /\ b[n] <= z /\ h[m].buf = Piece(b[n], z)
      BY <2>3, WalkEnd
    <3>2. Round(h[m], w) = h[m]
      BY <2>4, <3>1, RoundIdle
    <3> QED
      BY <2>2, <2>3, <2>4, <3>2
  <2>5. CASE ~Idle(w, b[n], z)
    <3>1. n = m
      BY <2>3, <2>5
    <3>2. PICK d : Walk(w, T, a, z, Round(h[m], w), n + 1, d)
      BY <1>0, <2>3, <2>5, WalkOn
    <3> QED
      BY <2>1, <2>2, <3>1, <3>2
  <2> QED
    BY <2>4, <2>5
<1> HIDE DEF N
<1>5. N \in SUBSET Nat
  BY DEF N
<1>6. N = Nat
  BY <1>3, <1>4, <1>5, SetInduction
<1>7. Done(Len(buf))
  BY <1>1, <1>6 DEF N
<1>8. PICK n, b : n \in Nat /\ Walk(w, T, a, z, h[Len(buf)], n, b) /\ (Idle(w, b[n], z) \/ n = Len(buf))
  BY <1>7
<1>9. Idle(w, b[n], z)
  <2> SUFFICES ASSUME n = Len(buf) PROVE Idle(w, b[n], z)
    BY <1>8
  <2>1. b[n] >= a + n /\ b[n] \in 0 .. z
    <3>1. Walk(w, T, a, z, h[Len(buf)], n, b)
      BY <1>8
    <3>2. b[n] \in Nat /\ b[n] <= z
      BY <3>1, WalkEnd
    <3>3. b[n] >= a + n
      BY <3>1 DEF Walk
    <3> QED
      BY <3>2, <3>3
  <2>2. b[n] = z
    BY <1>0, <1>1, <2>1
  <2>3. (z + 1) .. (z - 1) = {}
    OBVIOUS
  <2> QED
    BY <2>2, <2>3 DEF Idle
<1> QED
  BY <1>2, <1>8, <1>9

-----------------------------------------------------------------------------
(* What Only returns keeps its order. *)
InOrder(q, s, m) ==
  /\ \A a \in DOMAIN q : \E k \in 1 .. m : s[k] = q[a]
  /\ \A a, b \in DOMAIN q : a < b => \E k, l \in 1 .. m : k < l /\ s[k] = q[a] /\ s[l] = q[b]

LEMMA AppendInOrder ==
  ASSUME NEW S, NEW q \in Seq(S), NEW s, NEW m \in Nat, InOrder(q, s, m), s[m + 1] \in S
  PROVE  InOrder(Append(q, s[m + 1]), s, m + 1)
<1> DEFINE y == s[m + 1]
           r == Append(q, y)
           n == Len(q)
<1>1. /\ n \in Nat /\ DOMAIN q = 1 .. n /\ DOMAIN r = 1 .. (n + 1) /\ r[n + 1] = y
      /\ \A i \in 1 .. n : r[i] = q[i]
  OBVIOUS
<1>2. m + 1 \in 1 .. (m + 1) /\ \A k \in 1 .. m : k \in 1 .. (m + 1) /\ k < m + 1
  OBVIOUS
<1> HIDE DEF r, n
<1>3. ASSUME NEW a \in DOMAIN r PROVE \E k \in 1 .. (m + 1) : s[k] = r[a]
  <2>1. CASE a = n + 1
    BY <1>1, <1>2, <2>1
  <2>2. CASE a # n + 1
    <3>1. a \in DOMAIN q /\ r[a] = q[a]
      BY <1>1, <2>2
    <3> QED
      BY <1>2, <3>1 DEF InOrder
  <2> QED
    BY <2>1, <2>2
<1>4. ASSUME NEW a \in DOMAIN r, NEW b \in DOMAIN r, a < b
      PROVE  \E k, l \in 1 .. (m + 1) : k < l /\ s[k] = r[a] /\ s[l] = r[b]
  <2>1. a \in DOMAIN q /\ r[a] = q[a]
    BY <1>1, <1>4
  <2>2. CASE b = n + 1
    <3>1. PICK k \in 1 .. m : s[k] = q[a]
      BY <2>1 DEF InOrder
    <3>2. k \in 1 .. (m + 1) /\ k < m + 1 /\ m + 1 \in 1 .. (m + 1)
      BY <1>2
    <3>3. s[k] = r[a] /\ s[m + 1] = r[b]
      BY <1>1, <2>1, <2>2, <3>1
    <3> QED
      BY <3>2, <3>3
  <2>3. CASE b # n + 1
    <3>1. b \in DOMAIN q /\ r[b] = q[b]
      BY <1>1, <2>3
    <3>2. PICK k \in 1 .. m, l \in 1 .. m : k < l /\ s[k] = q[a] /\ s[l] = q[b]
      BY <1>4, <2>1, <3>1 DEF InOrder
    <3> QED
      BY <1>2, <2>1, <3>1, <3>2
  <2> QED
    BY <2>2, <2>3
<1> QED
  BY <1>3, <1>4, Zenon DEF InOrder, r

LEMMA OnlyInOrder ==
  ASSUME NEW s, Len(s) \in Nat, NEW S
  PROVE  InOrder(Only(s, S), s, Len(s))
<1>1. PICK h : OnlyTable(h, s, S, Len(s)) /\ Only(s, S) = h[Len(s)]
  BY OnlyTableExists, OnlyIs
<1> DEFINE N == {m \in Nat : m <= Len(s) => h[m] \in Seq(S) /\ InOrder(h[m], s, m)}
<1>2. 0 \in N
  <2>1. h[0] = <<>>
    BY <1>1 DEF OnlyTable
  <2>2. <<>> \in Seq(S) /\ InOrder(<<>>, s, 0)
    BY DEF InOrder
  <2> QED
    BY <2>1, <2>2
<1>3. ASSUME NEW m \in N PROVE m + 1 \in N
  <2> SUFFICES ASSUME m + 1 <= Len(s) PROVE h[m + 1] \in Seq(S) /\ InOrder(h[m + 1], s, m + 1)
    OBVIOUS
  <2>1. h[m] \in Seq(S) /\ InOrder(h[m], s, m) /\ m + 1 \in 0 .. Len(s) /\ m + 1 # 0 /\ (m + 1) - 1 = m
    OBVIOUS
  <2>2. h[m + 1] = Taken(h[m], s[m + 1], S)
    BY <1>1, <2>1 DEF OnlyTable
  <2>3. CASE s[m + 1] \in S
    <3>1. h[m + 1] = Append(h[m], s[m + 1])
      BY <2>2, <2>3 DEF Taken
    <3>2. InOrder(Append(h[m], s[m + 1]), s, m + 1)
      BY <2>1, <2>3, AppendInOrder
    <3>3. Append(h[m], s[m + 1]) \in Seq(S)
      BY <2>1, <2>3
    <3> QED
      BY <3>1, <3>2, <3>3
  <2>4. CASE s[m + 1] \notin S
    <3>1. h[m + 1] = h[m]
      BY <2>2, <2>4 DEF Taken
    <3>2. \A k \in 1 .. m : k \in 1 .. (m + 1)
      OBVIOUS
    <3>3. InOrder(h[m], s, m + 1)
      <4> DEFINE q == h[m]
      <4>1. /\ \A a \in DOMAIN q : \E k \in 1 .. m : s[k] = q[a]
            /\ \A a, b \in DOMAIN q : a < b => \E k, l \in 1 .. m : k < l /\ s[k] = q[a] /\ s[l] = q[b]
        BY <2>1 DEF InOrder
      <4> HIDE DEF q
      <4>2. \A a \in DOMAIN q : \E k \in 1 .. (m + 1) : s[k] = q[a]
        BY <3>2, <4>1
      <4>3. \A a, b \in DOMAIN q : a < b => \E k, l \in 1 .. (m + 1) : k < l /\ s[k] = q[a] /\ s[l] = q[b]
        BY <3>2, <4>1
      <4> QED
        BY <4>2, <4>3 DEF InOrder, q
    <3> QED
      BY <2>1, <3>1, <3>3
  <2> QED
    BY <2>3, <2>4
<1> HIDE DEF N
<1>4. N \in SUBSET Nat
  BY DEF N
<1>5. N = Nat
  BY <1>2, <1>3, <1>4, SetInduction
<1> QED
  BY <1>1, <1>5 DEF N

(* The messages among the frames, in their order *)
Sips(out) == Only(out, {b \in ToSet(out) : Starts(b)})
Added(out) == [i \in DOMAIN Sips(out) |-> ItemOf(Sips(out)[i])]

LEMMA AddedIs ==
  ASSUME NEW out, Vec(out)
  PROVE  /\ Vec(Added(out))
         /\ \A x : x \in ToSet(Added(out)) <=> \E k \in 1 .. Len(out) : Starts(out[k]) /\ ItemOf(out[k]) = x
         /\ (\A k, l \in 1 .. Len(out) : k < l /\ Starts(out[k]) /\ Starts(out[l]) => ItemOf(out[k]) < ItemOf(out[l]))
              => \A a, b \in DOMAIN Added(out) : a < b => Added(out)[a] < Added(out)[b]
<1> DEFINE S == {b \in ToSet(out) : Starts(b)}
           q == Only(out, S)
           n == Len(out)
           new == [i \in DOMAIN q |-> ItemOf(q[i])]
<1>1. n \in Nat /\ DOMAIN out = 1 .. n
  BY VecFacts
<1>2. q \in Seq(S)
  BY <1>1, OnlyIn
<1>3. \A x : (\E i \in DOMAIN q : q[i] = x) <=> (x \in S /\ \E i \in 1 .. n : out[i] = x)
  <2> SUFFICES ASSUME NEW x PROVE (\E i \in DOMAIN q : q[i] = x) <=> (x \in S /\ \E i \in 1 .. n : out[i] = x)
    OBVIOUS
  <2> HIDE DEF S
  <2> QED
    BY <1>1, OnlyOf
<1>4. InOrder(q, out, n)
  BY <1>1, OnlyInOrder
<1>5. \A b : b \in S <=> (\E k \in 1 .. n : out[k] = b) /\ Starts(b)
  BY <1>1 DEF ToSet
<1>6. Added(out) = new
  BY DEF Added, Sips
<1> HIDE DEF S, q, n
<1>7. Len(q) \in Nat /\ DOMAIN q = 1 .. Len(q) /\ \A i \in DOMAIN q : q[i] \in S
  BY <1>2
<1>8. DOMAIN new = 1 .. Len(q) /\ (\A i \in DOMAIN q : new[i] = ItemOf(q[i])) /\ new = [i \in 1 .. Len(q) |-> new[i]]
  BY <1>7
<1> HIDE DEF new
<1>9. Vec(new)
  BY <1>7, <1>8, VecIs
<1>10. ASSUME NEW x PROVE x \in ToSet(new) <=> \E k \in 1 .. n : Starts(out[k]) /\ ItemOf(out[k]) = x
  <2>1. x \in ToSet(new) <=> \E i \in DOMAIN new : new[i] = x
    BY DEF ToSet
  <2>2. ASSUME NEW i \in DOMAIN new, new[i] = x PROVE \E k \in 1 .. n : Starts(out[k]) /\ ItemOf(out[k]) = x
    <3>1. i \in DOMAIN q /\ q[i] \in S /\ x = ItemOf(q[i])
      BY <1>7, <1>8, <2>2
    <3> QED
      BY <1>5, <3>1
  <2>3. ASSUME NEW k \in 1 .. n, Starts(out[k]), ItemOf(out[k]) = x PROVE \E i \in DOMAIN new : new[i] = x
    <3>1. out[k] \in S
      BY <1>5, <2>3
    <3>2. PICK i \in DOMAIN q : q[i] = out[k]
      BY <1>3, <3>1
    <3>3. i \in DOMAIN new /\ new[i] = x
      BY <1>7, <1>8, <2>3, <3>2
    <3> QED
      BY <3>3
  <2> QED
    BY <2>1, <2>2, <2>3
<1>11. ASSUME \A k, l \in 1 .. n : k < l /\ Starts(out[k]) /\ Starts(out[l]) => ItemOf(out[k]) < ItemOf(out[l]),
              NEW a \in DOMAIN new, NEW b \in DOMAIN new, a < b
       PROVE  new[a] < new[b]
  <2>1. a \in DOMAIN q /\ b \in DOMAIN q /\ Starts(q[a]) /\ Starts(q[b]) /\ new[a] = ItemOf(q[a]) /\ new[b] = ItemOf(q[b])
    BY <1>5, <1>7, <1>8
  <2>2. PICK k \in 1 .. n, l \in 1 .. n : k < l /\ out[k] = q[a] /\ out[l] = q[b]
    BY <1>4, <1>11, <2>1 DEF InOrder
  <2> QED
    BY <1>11, <2>1, <2>2
<1> QED
  BY <1>6, <1>9, <1>10, <1>11 DEF n

-----------------------------------------------------------------------------
(* Where the items stand, in order, and which of them a position is in *)
LEMMA LaidOrder ==
  ASSUME NEW items, NEW w, NEW o, Laid(items, w, o)
  PROVE  \A j, k \in 0 .. Len(items) : j < k => o[j] < o[k]
<1> DEFINE N == Len(items)
           K == {d \in Nat : \A j \in 0 .. N : d > 0 /\ j + d <= N => o[j] < o[j + d]}
<1>1. N \in Nat /\ (\A j \in 0 .. N : o[j] \in Nat) /\ \A i \in 1 .. N : o[i] >= o[i - 1] + 2
  BY DEF Laid
<1> HIDE DEF N
<1>2. 0 \in K
  OBVIOUS
<1>3. ASSUME NEW d \in K PROVE d + 1 \in K
  <2> SUFFICES ASSUME NEW j \in 0 .. N, j + (d + 1) <= N PROVE o[j] < o[j + (d + 1)]
    OBVIOUS
  <2> DEFINE k == j + (d + 1)
  <2>1. k \in 1 .. N /\ k - 1 = j + d /\ k - 1 \in 0 .. N /\ k \in 0 .. N /\ d \in Nat
    BY <1>1
  <2>2. o[k] >= o[k - 1] + 2 /\ o[k] \in Nat /\ o[k - 1] \in Nat /\ o[j] \in Nat
    BY <1>1, <2>1
  <2>3. d > 0 => o[j] < o[k - 1]
    <3>1. d > 0 => o[j] < o[j + d]
      BY <1>1, <2>1
    <3> QED
      BY <2>1, <3>1
  <2>4. d = 0 => o[j] = o[k - 1]
    BY <2>1
  <2> HIDE DEF k
  <2>5. o[j] < o[k]
    BY <2>1, <2>2, <2>3, <2>4
  <2> QED
    BY <2>5 DEF k
<1> HIDE DEF K
<1>4. K \in SUBSET Nat
  BY DEF K
<1>5. K = Nat
  BY <1>2, <1>3, <1>4, SetInduction
<1>6. ASSUME NEW j \in 0 .. N, NEW k \in 0 .. N, j < k PROVE o[j] < o[k]
  <2>1. k - j \in Nat /\ k - j > 0 /\ j + (k - j) = k /\ j + (k - j) <= N
    BY <1>1, <1>6
  <2>2. o[j] < o[j + (k - j)]
    BY <1>5, <2>1 DEF K
  <2> QED
    BY <2>1, <2>2
<1> QED
  BY <1>6 DEF N

(* A position of the connection is where an item begins, or inside one. *)
LEMMA Located ==
  ASSUME NEW items, NEW w, NEW o, Laid(items, w, o), NEW a \in Nat, a <= Len(w)
  PROVE  \E k \in 0 .. Len(items) : a = o[k] \/ (k > 0 /\ o[k - 1] < a /\ a < o[k])
<1> DEFINE N == Len(items)
           S == {k \in 0 .. N : a <= o[k]}
<1>1. N \in Nat /\ (\A j \in 0 .. N : o[j] \in Nat) /\ o[N] = Len(w) /\ o[0] = 0 /\ Len(w) \in Nat
  BY DEF Laid
<1>2. S \in SUBSET Nat /\ N \in S
  BY <1>1
<1>3. PICK k \in S : \A j \in S : k <= j
  BY <1>2, LeastNat
<1>4. k \in 0 .. N /\ k \in Nat /\ a <= o[k] /\ o[k] \in Nat
  BY <1>1, <1>3
<1>5. CASE a = o[k]
  BY <1>4, <1>5
<1>6. CASE a # o[k]
  <2>1. k # 0
    BY <1>1, <1>4, <1>6
  <2>2. k - 1 \in 0 .. N /\ ~(k <= k - 1) /\ k > 0
    BY <1>4, <2>1
  <2>3. k - 1 \notin S
    BY <1>3, <2>2
  <2>4. o[k - 1] < a
    BY <1>1, <2>2, <2>3
  <2> QED
    BY <1>4, <1>6, <2>2, <2>4
<1> QED
  BY <1>5, <1>6

BodyLength(items, i) == items[i] # Nothing => Len(items[i].body) \in Nat

LEMMA LaidItem ==
  ASSUME NEW items, Plainly(items), NEW w, NEW o, Laid(items, w, o), NEW i \in 1 .. Len(items)
  PROVE  /\ Stands(items, w, i, o[i - 1], o[i]) /\ BodyLength(items, i)
         /\ o[i - 1] \in Nat /\ o[i] \in Nat /\ i - 1 \in 0 .. Len(items) /\ i \in 0 .. Len(items)
<1>1. Len(items) \in Nat /\ DOMAIN items = 1 .. Len(items)
  BY DEF Laid
<1>2. i - 1 \in 0 .. Len(items) /\ i \in 0 .. Len(items)
  BY <1>1
<1>3. o[i - 1] \in Nat /\ o[i] \in Nat
  BY <1>2 DEF Laid
<1>4. Stands(items, w, i, o[i - 1], o[i])
  BY DEF Laid
<1>5. BodyLength(items, i)
  BY <1>1 DEF BodyLength, Plainly, Messages
<1> QED
  BY <1>2, <1>3, <1>4, <1>5

LEMMA LaidCut ==
  ASSUME NEW items, Plainly(items), NEW w, NEW o, Laid(items, w, o),
         NEW i \in 1 .. Len(items), Truthful(items, i)
  PROVE  CutsAt(w, o[i - 1], o[i])
<1>1. Stands(items, w, i, o[i - 1], o[i]) /\ BodyLength(items, i) /\ o[i - 1] \in Nat
  BY LaidItem
<1> QED
  BY <1>1, AlignedCut DEF BodyLength

(* The same of the cuts, for items of the connection *)
LEMMA LaidInside ==
  ASSUME NEW items, Plainly(items), NEW w, NEW o, Laid(items, w, o),
         NEW i \in 1 .. Len(items), i + 1 \in 1 .. Len(items), Truthful(items, i), Truthful(items, i + 1),
         NEW a \in Nat, o[i - 1] < a, a < o[i]
  PROVE  Leaves(w, a, o[i], o[i + 1])
<1>1. Stands(items, w, i, o[i - 1], o[i]) /\ BodyLength(items, i) /\ o[i - 1] \in Nat /\ o[i] \in Nat
  BY LaidItem
<1>2. /\ Stands(items, w, i + 1, o[(i + 1) - 1], o[i + 1]) /\ BodyLength(items, i + 1)
      /\ o[i + 1] \in Nat /\ (i + 1) - 1 = i
  BY LaidItem
<1>3. Stands(items, w, i + 1, o[i], o[i + 1])
  BY <1>2
<1>4. /\ items[i] # Nothing => Len(items[i].body) \in Nat
      /\ items[i + 1] # Nothing => Len(items[i + 1].body) \in Nat
  BY <1>1, <1>2 DEF BodyLength
<1> QED
  BY <1>1, <1>2, <1>3, <1>4, InsideCut

-----------------------------------------------------------------------------
(* Without a wrong Content-Length, the loop cuts out item after item. *)
Whole(items, w, o, j, z, r, n) ==
  /\ j + n <= Len(items) /\ o[j + n] <= z /\ r.buf = Piece(o[j + n], z) /\ Idle(w, o[j + n], z)
  /\ r.out \in Seq(Seq(Nat)) /\ Len(r.out) = n
  /\ \A k \in 1 .. n : r.out[k] = Piece(o[j + k - 1], o[j + k])

LEMMA WholeWalk ==
  ASSUME NEW items, Plainly(items), NEW w, NEW o, Laid(items, w, o),
         \A i \in 1 .. Len(items) : Truthful(items, i),
         NEW j \in 0 .. Len(items), NEW z \in Nat, o[j] <= z, z <= Len(w)
  PROVE  \E n \in Nat : Whole(items, w, o, j, z, Framed(Piece(o[j], z), w), n)
<1> DEFINE N == Len(items)
           T == {p \in 0 .. z : \E k \in 0 .. N : p = o[k]}
           r == Framed(Piece(o[j], z), w)
<1>1. N \in Nat /\ (\A k \in 0 .. N : o[k] \in Nat) /\ o[N] = Len(w) /\ Len(w) \in Nat
  BY DEF Laid
<1>2. \A k \in 0 .. N : k < N => CutsAt(w, o[k], o[k + 1]) /\ k + 1 \in 0 .. N
  <2> SUFFICES ASSUME NEW k \in 0 .. N, k < N PROVE CutsAt(w, o[k], o[k + 1]) /\ k + 1 \in 0 .. N
    OBVIOUS
  <2>1. k + 1 \in 1 .. N /\ (k + 1) - 1 = k /\ k + 1 \in 0 .. N
    BY <1>1
  <2>2. CutsAt(w, o[(k + 1) - 1], o[k + 1])
    BY <2>1, LaidCut
  <2> QED
    BY <2>1, <2>2
<1>3. z <= o[N]
  BY <1>1
<1>4. Leads(w, T, z)
  <2> SUFFICES ASSUME NEW p \in T PROVE Idle(w, p, z) \/ \E c \in T : CutsAt(w, p, c)
    BY DEF Leads
  <2>1. PICK k \in 0 .. N : p = o[k]
    OBVIOUS
  <2>2. p \in 0 .. z
    OBVIOUS
  <2>3. CASE k = N
    <3>1. p = z
      BY <1>1, <1>3, <2>1, <2>2, <2>3
    <3>2. (z + 1) .. (z - 1) = {}
      OBVIOUS
    <3> QED
      BY <3>1, <3>2 DEF Idle
  <2>4. CASE k # N
    <3>1. CutsAt(w, p, o[k + 1]) /\ k + 1 \in 0 .. N
      BY <1>1, <1>2, <2>1, <2>4
    <3>2. o[k + 1] \in Nat
      BY <1>1, <3>1
    <3>3. o[k + 1] <= z => o[k + 1] \in T
      BY <3>1, <3>2
    <3> HIDE DEF T
    <3> QED
      BY <3>1, <3>2, <3>3 DEF Idle
  <2> QED
    BY <2>3, <2>4
<1>5. o[j] \in T
  BY <1>1
<1>6. \A p \in T : p \in Nat /\ p <= z /\ \E k \in 0 .. N : p = o[k]
  OBVIOUS
<1> HIDE DEF N, T
<1>7. PICK n, b : n \in Nat /\ Walk(w, T, o[j], z, r, n, b) /\ Idle(w, b[n], z)
  BY <1>4, <1>5, FramedWalk
<1> HIDE DEF r
<1>8. /\ b \in [0 .. n -> T] /\ b[0] = o[j] /\ r.buf = Piece(b[n], z)
      /\ r.out \in Seq(Seq(Nat)) /\ Len(r.out) = n
      /\ \A k \in 1 .. n : CutsAt(w, b[k - 1], b[k]) /\ r.out[k] = Piece(b[k - 1], b[k])
  BY <1>7 DEF Walk
<1> DEFINE K == {k \in Nat : k <= n => j + k <= N /\ b[k] = o[j + k]}
<1>9. 0 \in K
  <2>1. j + 0 = j /\ j <= N
    BY <1>1 DEF N
  <2> QED
    BY <1>8, <2>1
<1>10. ASSUME NEW k \in K PROVE k + 1 \in K
  <2> SUFFICES ASSUME k + 1 <= n PROVE j + (k + 1) <= N /\ b[k + 1] = o[j + (k + 1)]
    OBVIOUS
  <2>1. k \in Nat /\ k + 1 \in 1 .. n /\ (k + 1) - 1 = k /\ k \in 0 .. n /\ k + 1 \in 0 .. n
    BY <1>7
  <2>2. j + k <= N /\ b[k] = o[j + k]
    BY <1>7, <2>1
  <2> DEFINE h == j + k
  <2>3. h \in 0 .. N /\ h + 1 = j + (k + 1) /\ h \in Nat
    BY <1>1, <2>1, <2>2 DEF N
  <2>4. b[k + 1] \in T /\ CutsAt(w, b[k], b[k + 1])
    BY <1>8, <2>1
  <2>5. b[k + 1] \in Nat /\ b[k + 1] <= z /\ b[k] \in Nat
    BY <1>6, <1>8, <2>1
  <2>6. b[k] < b[k + 1]
    BY <2>4, <2>5, OneCut
  <2>7. h # N
    <3> SUFFICES ASSUME h = N PROVE FALSE
      OBVIOUS
    <3>1. b[k] = o[N]
      BY <2>2
    <3> QED
      BY <1>1, <1>3, <2>5, <2>6, <3>1
  <2>8. CutsAt(w, o[h], o[h + 1]) /\ h + 1 \in 0 .. N
    BY <1>1, <1>2, <2>3, <2>7
  <2>9. o[h + 1] \in Nat
    BY <1>1, <2>8
  <2>10. b[k + 1] = o[h + 1]
    BY <2>2, <2>4, <2>5, <2>8, <2>9, OneCut
  <2> QED
    BY <1>1, <2>3, <2>8, <2>10
<1> HIDE DEF K
<1>11. K \in SUBSET Nat
  BY DEF K
<1>12. K = Nat
  BY <1>9, <1>10, <1>11, SetInduction
<1>13. ASSUME NEW k \in 0 .. n PROVE j + k <= N /\ b[k] = o[j + k]
  <2>1. k \in Nat /\ k <= n
    BY <1>7
  <2>2. k \in K
    BY <1>12, <2>1
  <2> QED
    BY <2>1, <2>2 DEF K
<1>14. n \in 0 .. n /\ b[n] <= z
  <2>1. n \in 0 .. n
    BY <1>7
  <2> QED
    BY <1>6, <1>8, <2>1
<1>15. \A k \in 1 .. n : r.out[k] = Piece(o[j + k - 1], o[j + k])
  <2> SUFFICES ASSUME NEW k \in 1 .. n PROVE r.out[k] = Piece(o[j + k - 1], o[j + k])
    OBVIOUS
  <2>1. k - 1 \in 0 .. n /\ k \in 0 .. n /\ j + (k - 1) = j + k - 1
    BY <1>7
  <2>2. b[k - 1] = o[j + (k - 1)] /\ b[k] = o[j + k]
    BY <1>13, <2>1
  <2> QED
    BY <1>8, <2>1, <2>2
<1>16. Whole(items, w, o, j, z, r, n)
  BY <1>7, <1>8, <1>13, <1>14, <1>15 DEF Whole, N
<1> QED
  BY <1>7, <1>16 DEF r

-----------------------------------------------------------------------------
(* Once no fault is left in the buffer, the loop comes to an item wherever *)
(* it stands: at the beginning of an item, inside one with a message       *)
(* between the two, or behind the line end that a message begins with.     *)
Inside(o, k, p) == o[k - 1] < p /\ p < o[k]
Reaches(items, o, i, p) ==
  \/ \E k \in 0 .. (i - 1) : p = o[k]
  \/ \E k \in 1 .. (i - 2) : Inside(o, k, p) /\ \E m \in (k + 1) .. (i - 1) : items[m] # Nothing
  \/ \E k \in 1 .. (i - 1) : p = o[k - 1] + 1 /\ items[k] # Nothing /\ items[k].pong
Past(items, o, p) == \A d \in 1 .. Len(items) : Truthful(items, d) \/ o[d] <= p
Late(items, w, o, i, z, r, p) ==
  /\ p <= z /\ r.buf = Piece(p, z) /\ Idle(w, p, z) /\ Past(items, o, p) /\ Vec(r.out)
  /\ Reaches(items, o, i, p) \/ \E m \in 1 .. Len(r.out) : r.out[m] = Piece(o[i - 1], o[i])

(* Two messages and a segment fit into the buffer. *)
Roomy(items) == \A i \in 1 .. Len(items) : 2 * Len(Item(items, i)) + MaxSegment <= MaxStreamBuf + 2

(* Where the frame that begins at a position on the way ends *)
Follow(items, w, o, i, p, c) ==
  /\ CutsAt(w, p, c) /\ p < c /\ c <= o[i] /\ Past(items, o, c)
  /\ c - p + MaxSegment <= MaxStreamBuf + 1
  /\ Reaches(items, o, i, c) \/ (p = o[i - 1] /\ c = o[i])

LEMMA NextCut ==
  ASSUME NEW items, Plainly(items), NEW w, NEW o, Laid(items, w, o),
         Roomy(items), NEW i \in 1 .. Len(items), NEW p \in Nat, Reaches(items, o, i, p), Past(items, o, p)
  PROVE  \E c \in Nat : Follow(items, w, o, i, p, c)
<1> DEFINE N == Len(items)
<1>1. /\ N \in Nat /\ (\A k \in 0 .. N : o[k] \in Nat) /\ i \in Nat /\ i <= N /\ i \in 0 .. N
      /\ \A j, k \in 0 .. N : j < k => o[j] < o[k]
  <2>1. N \in Nat /\ (\A k \in 0 .. N : o[k] \in Nat) /\ o[N] = Len(w) /\ Len(w) \in Nat
    BY DEF Laid
  <2>2. i \in Nat /\ i <= N /\ i \in 0 .. N /\ i \in i .. N
    BY <2>1
  <2>3. \A j, k \in 0 .. N : j < k => o[j] < o[k]
    BY LaidOrder
  <2> HIDE DEF N
  <2> QED
    BY <2>1, <2>2, <2>3
<1>2. ASSUME NEW c \in Nat, p < c PROVE Past(items, o, c)
  <2> SUFFICES ASSUME NEW d \in 1 .. N, o[d] <= p PROVE o[d] <= c
    BY DEF Past
  <2>1. o[d] \in Nat
    BY <1>1
  <2> QED
    BY <1>2, <2>1
<1>3. ASSUME NEW k \in 1 .. N, p < o[k] PROVE Truthful(items, k)
  <2>1. Truthful(items, k) \/ o[k] <= p
    BY DEF Past
  <2>2. o[k] \in Nat
    BY <1>1
  <2> QED
    BY <1>3, <2>1, <2>2
<1> DEFINE L(k) == o[k] - o[k - 1]
<1>4. MaxSegment \in Nat /\ MaxStreamBuf \in Nat
  BY IngestAssumption, ReasmAssumption
<1>5. \A k \in 1 .. N : L(k) \in Nat /\ L(k) >= 2 /\ 2 * L(k) + MaxSegment <= MaxStreamBuf + 2
  <2> SUFFICES ASSUME NEW k \in 1 .. N
               PROVE  L(k) \in Nat /\ L(k) >= 2 /\ 2 * L(k) + MaxSegment <= MaxStreamBuf + 2
    OBVIOUS
  <2>2. o[k] \in Nat /\ o[k - 1] \in Nat
    BY LaidItem
  <2>3. o[k] = o[k - 1] + Len(Item(items, k)) /\ o[k] >= o[k - 1] + 2
    BY DEF Laid
  <2> DEFINE m == Len(Item(items, k))
  <2>4. 2 * m + MaxSegment <= MaxStreamBuf + 2
    BY DEF Roomy
  <2>5. m \in Nat
    BY ItemStands
  <2> HIDE DEF m
  <2>6. o[k] = o[k - 1] + m
    BY <2>3 DEF m
  <2>7. L(k) = m
    BY <2>2, <2>5, <2>6
  <2> QED
    BY <2>2, <2>3, <2>4, <2>5, <2>7, SMTT(30)
<1>6. CASE \E k \in 0 .. (i - 1) : p = o[k]
  <2>1. PICK k \in 0 .. (i - 1) : p = o[k]
    BY <1>6
  <2> DEFINE h == k + 1
  <2>2. k \in 0 .. N /\ h \in 1 .. N /\ h \in 0 .. N /\ h - 1 = k /\ k < h /\ h <= i
    BY <1>1
  <2>3. o[h] \in Nat /\ o[k] < o[h]
    BY <1>1, <2>2
  <2>4. CutsAt(w, o[h - 1], o[h])
    BY <1>3, <2>1, <2>2, <2>3, LaidCut
  <2>5. CutsAt(w, p, o[h]) /\ p < o[h] /\ Past(items, o, o[h])
    BY <1>2, <2>1, <2>2, <2>3, <2>4
  <2>6. o[h] <= o[i]
    <3>1. h < i => o[h] < o[i]
      BY <1>1, <2>2
    <3>2. h = i \/ h < i
      BY <1>1, <2>2
    <3>3. o[i] \in Nat /\ o[k] \in Nat
      BY <1>1, <2>2
    <3> QED
      BY <2>1, <2>3, <3>1, <3>2, <3>3
  <2>7. Reaches(items, o, i, o[h]) \/ (p = o[i - 1] /\ o[h] = o[i])
    <3>1. CASE h = i
      BY <2>1, <2>2, <3>1
    <3>2. CASE h # i
      <4>1. h \in 0 .. (i - 1)
        BY <1>1, <2>2, <3>2
      <4> QED
        BY <4>1 DEF Reaches
    <3> QED
      BY <3>1, <3>2
  <2>8. o[h] - p + MaxSegment <= MaxStreamBuf + 1
    <3>1. L(h) \in Nat /\ L(h) >= 2 /\ 2 * L(h) + MaxSegment <= MaxStreamBuf + 2
      BY <1>5, <2>2
    <3>2. L(h) = o[h] - p
      BY <2>1, <2>2
    <3> DEFINE l == L(h)
    <3>3. l \in Nat /\ l >= 2 /\ 2 * l + MaxSegment <= MaxStreamBuf + 2 /\ l = o[h] - p
      BY <3>1, <3>2
    <3> HIDE DEF l
    <3>4. l + MaxSegment <= MaxStreamBuf + 1
      BY <1>4, <3>3, SMTT(30)
    <3> QED
      BY <1>4, <3>3, <3>4
  <2> HIDE DEF h
  <2>9. Follow(items, w, o, i, p, o[h])
    BY <2>5, <2>6, <2>7, <2>8 DEF Follow
  <2> QED
    BY <2>3, <2>9
<1>7. CASE \E k \in 1 .. (i - 2) : Inside(o, k, p) /\ \E m \in (k + 1) .. (i - 1) : items[m] # Nothing
  <2>1. PICK k \in 1 .. (i - 2) : o[k - 1] < p /\ p < o[k] /\ \E m \in (k + 1) .. (i - 1) : items[m] # Nothing
    BY <1>7 DEF Inside
  <2> DEFINE h == k + 1
  <2>2. /\ k \in 1 .. N /\ k \in 0 .. N /\ h \in 1 .. N /\ h \in 0 .. N /\ k < h /\ h < i
        /\ k \in 0 .. (i - 1) /\ h \in 0 .. (i - 1) /\ h \in 1 .. (i - 1) /\ h - 1 = k
    BY <1>1
  <2>3. /\ o[k] \in Nat /\ o[h] \in Nat /\ o[i] \in Nat /\ o[k] < o[h] /\ o[h] < o[i] /\ o[k - 1] \in Nat
        /\ o[h] >= o[k] + 2
    <3>1. o[h] >= o[h - 1] + 2
      BY <2>2 DEF Laid
    <3> QED
      BY <1>1, <2>2, <3>1
  <2>4. p < o[h] /\ p < o[i]
    BY <2>1, <2>3
  <2>5. Truthful(items, k) /\ Truthful(items, h)
    BY <1>3, <2>1, <2>2, <2>4
  <2>6. PICK c \in Nat : /\ CutsAt(w, p, c) /\ p < c
                         /\ c <= o[k] \/ c = o[h] \/ (c = o[k] + 1 /\ w[o[k] + 1].kind = "crlf")
    <3>1. k + 1 = h /\ Leaves(w, p, o[k], o[h])
      BY <2>1, <2>2, <2>5, LaidInside
    <3> QED
      BY <3>1, Zenon DEF Leaves
  <2>7. c <= o[i] /\ Past(items, o, c)
    <3>1. c <= o[k] => c <= o[i]
      BY <2>3, <2>6
    <3>2. c = o[h] => c <= o[i]
      BY <2>3, <2>6
    <3>3. c = o[k] + 1 => c <= o[i]
      BY <2>3, <2>6
    <3>4. Past(items, o, c)
      BY <1>2, <2>6
    <3> HIDE DEF h
    <3> QED
      BY <2>6, <3>1, <3>2, <3>3, <3>4
  <2>8. Reaches(items, o, i, c)
    <3>1. CASE c = o[h]
      BY <2>2, <3>1 DEF Reaches
    <3>2. CASE c = o[k]
      BY <2>2, <3>2 DEF Reaches
    <3>3. CASE c < o[k]
      <4>1. Inside(o, k, c)
        BY <2>1, <2>3, <2>6, <3>3 DEF Inside
      <4> QED
        BY <2>1, <4>1, Zenon DEF Reaches
    <3>4. CASE c = o[k] + 1 /\ w[o[k] + 1].kind = "crlf" /\ items[h] = Nothing
      <4>1. PICK m \in (k + 1) .. (i - 1) : items[m] # Nothing
        BY <2>1
      <4>2. m # h
        BY <3>4, <4>1
      <4>3. m \in (h + 1) .. (i - 1) /\ h \in 1 .. (i - 2)
        BY <1>1, <4>2
      <4>4. Inside(o, h, c)
        BY <2>2, <2>3, <3>4 DEF Inside
      <4> HIDE DEF h
      <4> QED
        BY <4>1, <4>3, <4>4 DEF Reaches
    <3>5. CASE c = o[k] + 1 /\ w[o[k] + 1].kind = "crlf" /\ items[h] # Nothing
      <4>1. Stands(items, w, h, o[k], o[h])
        <5>1. Stands(items, w, h, o[h - 1], o[h])
          BY <2>2, LaidItem
        <5> QED
          BY <2>2, <5>1
      <4> HIDE DEF h
      <4>2. items[h].pong
        BY <3>5, <4>1 DEF Stands, Lies, Opens
      <4> QED
        BY <2>2, <3>5, <4>2 DEF Reaches
    <3> QED
      BY <2>3, <2>6, <3>1, <3>2, <3>3, <3>4, <3>5
  <2>9. c - p + MaxSegment <= MaxStreamBuf + 1
    <3> DEFINE l == L(k)
               m == L(h)
               b == o[k - 1]
    <3>1. /\ l \in Nat /\ 2 * l + MaxSegment <= MaxStreamBuf + 2
          /\ m \in Nat /\ m >= 2 /\ 2 * m + MaxSegment <= MaxStreamBuf + 2
      BY <1>5, <2>2
    <3>2. h - 1 = k /\ k - 1 \in 0 .. N
      BY <2>2
    <3>3. b \in Nat /\ o[k] = b + l /\ o[h] = b + l + m /\ b < p
      BY <1>1, <2>1, <2>3, <3>2, SMTT(30)
    <3> HIDE DEF l, m, b
    <3>4. c <= b + l + m
      BY <2>3, <2>6, <3>1, <3>3
    <3> QED
      BY <1>4, <2>6, <3>1, <3>3, <3>4
  <2> HIDE DEF h
  <2>10. Follow(items, w, o, i, p, c)
    BY <2>6, <2>7, <2>8, <2>9 DEF Follow
  <2> QED
    BY <2>10
<1>8. CASE \E k \in 1 .. (i - 1) : p = o[k - 1] + 1 /\ items[k] # Nothing /\ items[k].pong
  <2>1. PICK k \in 1 .. (i - 1) : p = o[k - 1] + 1 /\ items[k] # Nothing /\ items[k].pong
    BY <1>8
  <2>2. k \in 1 .. N /\ k \in 0 .. N /\ k \in 0 .. (i - 1) /\ k - 1 \in 0 .. N /\ k < i
    BY <1>1
  <2>3. o[k] \in Nat /\ o[k - 1] \in Nat /\ o[i] \in Nat /\ o[k] < o[i] /\ o[k] >= o[k - 1] + 2 /\ p < o[k]
    <3>1. o[k] >= o[k - 1] + 2
      BY <2>2 DEF Laid
    <3> QED
      BY <1>1, <2>1, <2>2, <3>1
  <2>4. Truthful(items, k) /\ Stands(items, w, k, o[k - 1], o[k]) /\ BodyLength(items, k)
    BY <1>3, <2>2, <2>3, LaidItem
  <2>5. Lies(items, w, k, p, o[k]) /\ items[k].claims = Len(items[k].body) /\ Len(items[k].body) \in Nat
    BY <2>1, <2>4 DEF Stands, Truthful, BodyLength
  <2>6. p <= p + 1 /\ \A x \in (p + 1) .. p : FALSE
    OBVIOUS
  <2>7. CutsAt(w, p, o[k])
    BY <2>5, <2>6, HeaderCut
  <2>8. Past(items, o, o[k]) /\ Reaches(items, o, i, o[k])
    BY <1>2, <2>2, <2>3 DEF Reaches
  <2>9. o[k] - p + MaxSegment <= MaxStreamBuf + 1
    <3> DEFINE l == L(k)
               b == o[k - 1]
               e == o[k]
    <3>1. l \in Nat /\ l >= 2 /\ 2 * l + MaxSegment <= MaxStreamBuf + 2 /\ l = e - b
      BY <1>5, <2>2
    <3>2. b \in Nat /\ e \in Nat /\ p = b + 1
      BY <2>1, <2>3
    <3> HIDE DEF l, b, e
    <3>3. l + MaxSegment <= MaxStreamBuf + 1
      BY <1>4, <3>1, SMTT(30)
    <3>4. e - p + MaxSegment <= MaxStreamBuf + 1
      BY <1>4, <3>1, <3>2, <3>3
    <3> QED
      BY <3>4 DEF e
  <2>10. p < o[k] /\ o[k] <= o[i]
    BY <2>3
  <2>11. Follow(items, w, o, i, p, o[k])
    BY <2>7, <2>8, <2>9, <2>10 DEF Follow
  <2> QED
    BY <2>3, <2>11
<1> QED
  BY <1>6, <1>7, <1>8 DEF Reaches

LEMMA LateWalk ==
  ASSUME NEW items, Plainly(items), NEW w, NEW o, Laid(items, w, o), Roomy(items),
         NEW i \in 1 .. Len(items), NEW a \in Nat, NEW z \in Nat, a <= z, z <= Len(w),
         Reaches(items, o, i, a), Past(items, o, a)
  PROVE  \E p \in Nat : Late(items, w, o, i, z, Framed(Piece(a, z), w), p)
<1> DEFINE N == Len(items)
           T == {p \in 0 .. z : Past(items, o, p) /\ (Reaches(items, o, i, p) \/ \E k \in i .. N : p = o[k])}
           r == Framed(Piece(a, z), w)
<1>1. /\ N \in Nat /\ (\A k \in 0 .. N : o[k] \in Nat) /\ o[N] = Len(w) /\ Len(w) \in Nat
      /\ i \in Nat /\ i <= N /\ i \in 0 .. N /\ i \in i .. N
      /\ \A j, k \in 0 .. N : j < k => o[j] < o[k]
  <2>1. N \in Nat /\ (\A k \in 0 .. N : o[k] \in Nat) /\ o[N] = Len(w) /\ Len(w) \in Nat
    BY DEF Laid
  <2>2. i \in Nat /\ i <= N /\ i \in 0 .. N /\ i \in i .. N
    BY <2>1
  <2>3. \A j, k \in 0 .. N : j < k => o[j] < o[k]
    BY LaidOrder
  <2> HIDE DEF N
  <2> QED
    BY <2>1, <2>2, <2>3
<1>2. a \in T
  OBVIOUS
<1>3. \A p \in T : p \in Nat /\ p <= z /\ Past(items, o, p) /\ (Reaches(items, o, i, p) \/ \E k \in i .. N : p = o[k])
  OBVIOUS
<1>4. \A p : p \in Nat /\ p <= z /\ Past(items, o, p) /\ (Reaches(items, o, i, p) \/ \E k \in i .. N : p = o[k]) => p \in T
  OBVIOUS
<1>5. T \subseteq 0 .. z
  OBVIOUS
<1> HIDE DEF T, N
<1>6. ASSUME NEW p \in T PROVE Idle(w, p, z) \/ \E c \in T : CutsAt(w, p, c)
  <2>0. p \in Nat /\ p <= z /\ Past(items, o, p)
    BY <1>3
  <2>1. CASE Reaches(items, o, i, p)
    <3>1. PICK c \in Nat : /\ CutsAt(w, p, c) /\ p < c /\ c <= o[i] /\ Past(items, o, c)
                           /\ Reaches(items, o, i, c) \/ (p = o[i - 1] /\ c = o[i])
      BY <2>0, <2>1, NextCut DEF Follow
    <3>2. c <= z => c \in T
      BY <1>1, <1>4, <3>1
    <3> QED
      BY <3>1, <3>2 DEF Idle
  <2>2. CASE \E k \in i .. N : p = o[k]
    <3>1. PICK k \in i .. N : p = o[k]
      BY <2>2
    <3>2. CASE k = N
      <4>1. p = z
        BY <1>1, <2>0, <3>1, <3>2
      <4>2. (z + 1) .. (z - 1) = {}
        OBVIOUS
      <4> QED
        BY <4>1, <4>2 DEF Idle
    <3>3. CASE k # N
      <4> DEFINE h == k + 1
      <4>1. k \in 0 .. N /\ h \in 1 .. N /\ h \in 0 .. N /\ h \in i .. N /\ h - 1 = k /\ k < h
        BY <1>1, <3>3
      <4>2. o[k] \in Nat /\ o[h] \in Nat /\ o[k] < o[h]
        BY <1>1, <4>1
      <4>3. Truthful(items, h)
        <5>1. Truthful(items, h) \/ o[h] <= p
          BY <2>0, <4>1 DEF Past, N
        <5> QED
          BY <3>1, <4>2, <5>1
      <4>4. CutsAt(w, o[h - 1], o[h])
        BY <4>1, <4>3, LaidCut DEF N
      <4>5. CutsAt(w, p, o[h])
        BY <3>1, <4>1, <4>4
      <4>6. Past(items, o, o[h])
        <5> SUFFICES ASSUME NEW d \in 1 .. Len(items), o[d] <= p PROVE o[d] <= o[h]
          BY <2>0 DEF Past
        <5>1. o[d] \in Nat
          BY <1>1 DEF N
        <5> QED
          BY <3>1, <4>2, <5>1
      <4>7. o[h] <= z => o[h] \in T
        BY <1>4, <4>1, <4>2, <4>6
      <4> HIDE DEF h
      <4> QED
        BY <4>2, <4>5, <4>7 DEF Idle
    <3> QED
      BY <3>2, <3>3
  <2> QED
    BY <1>3, <2>1, <2>2
<1>7. Leads(w, T, z)
  BY <1>5, <1>6 DEF Leads
<1>8. PICK n, b : n \in Nat /\ Walk(w, T, a, z, r, n, b) /\ Idle(w, b[n], z)
  BY <1>2, <1>7, FramedWalk
<1> HIDE DEF r
<1>9. /\ b \in [0 .. n -> T] /\ b[0] = a /\ r.buf = Piece(b[n], z)
      /\ r.out \in Seq(Seq(Nat)) /\ Len(r.out) = n
      /\ \A k \in 1 .. n : CutsAt(w, b[k - 1], b[k]) /\ r.out[k] = Piece(b[k - 1], b[k])
  BY <1>8 DEF Walk
<1> DEFINE Cut(l) == \E m \in 1 .. l : r.out[m] = Piece(o[i - 1], o[i])
           K == {l \in Nat : l <= n => Reaches(items, o, i, b[l]) \/ Cut(l)}
<1>10. 0 \in K
  BY <1>9
<1>11. ASSUME NEW l \in K PROVE l + 1 \in K
  <2> SUFFICES ASSUME l + 1 <= n PROVE Reaches(items, o, i, b[l + 1]) \/ Cut(l + 1)
    OBVIOUS
  <2>1. l \in Nat /\ l + 1 \in 1 .. n /\ (l + 1) - 1 = l /\ l \in 0 .. n /\ l + 1 \in 0 .. n /\ l <= n
    BY <1>8
  <2>2. CASE Cut(l)
    <3>1. \A m \in 1 .. l : m \in 1 .. (l + 1)
      BY <2>1
    <3> QED
      BY <2>2, <3>1
  <2>3. CASE Reaches(items, o, i, b[l])
    <3>1. b[l] \in Nat /\ Past(items, o, b[l]) /\ b[l + 1] \in Nat
      BY <1>3, <1>9, <2>1
    <3>2. CutsAt(w, b[l], b[l + 1]) /\ r.out[l + 1] = Piece(b[l], b[l + 1])
      BY <1>9, <2>1
    <3>3. PICK c \in Nat : Follow(items, w, o, i, b[l], c)
      BY <2>3, <3>1, NextCut
    <3>4. CutsAt(w, b[l], c) /\ (Reaches(items, o, i, c) \/ (b[l] = o[i - 1] /\ c = o[i]))
      BY <3>3 DEF Follow
    <3>5. c = b[l + 1]
      BY <3>1, <3>2, <3>3, <3>4, OneCut
    <3>6. l + 1 \in 1 .. (l + 1)
      BY <2>1
    <3> QED
      BY <3>2, <3>5, <3>6, <3>4
  <2> QED
    BY <2>1, <2>2, <2>3
<1> HIDE DEF K
<1>12. K \in SUBSET Nat
  BY DEF K
<1>13. K = Nat
  BY <1>10, <1>11, <1>12, SetInduction
<1>14. Reaches(items, o, i, b[n]) \/ Cut(n)
  BY <1>8, <1>13 DEF K
<1>15. b[n] \in Nat /\ b[n] <= z /\ Past(items, o, b[n])
  <2>1. n \in 0 .. n
    BY <1>8
  <2> QED
    BY <1>3, <1>9, <2>1
<1>16. Vec(r.out)
  <2> DEFINE q == r.out
  <2>1. q \in Seq(Seq(Nat))
    BY <1>9
  <2> HIDE DEF q
  <2>2. Len(q) \in Nat /\ q = [k \in 1 .. Len(q) |-> q[k]]
    BY <2>1
  <2>3. Vec(q)
    BY <2>2, VecIs
  <2> QED
    BY <2>3 DEF q
<1>17. Late(items, w, o, i, z, r, b[n])
  BY <1>8, <1>9, <1>14, <1>15, <1>16 DEF Late
<1> QED
  BY <1>15, <1>17 DEF r

-----------------------------------------------------------------------------
(* The bytes of the buffer that came after the last gap are contiguous. *)
Recent(q, sn, gp) ==
  /\ Len(q) <= MaxStreamBuf /\ (sn = 0 => Len(q) = 0)
  /\ \A x \in 1 .. Len(q) : sn - (Len(q) - x) > gp => q[x] = sn - (Len(q) - x)

LEMMA EndRecent ==
  ASSUME NEW p, NEW q, NEW sn \in Nat, NEW gp, EndOf(p, q), Recent(q, sn, gp) PROVE Recent(p, sn, gp)
<1>1. /\ Len(p) \in Nat /\ Len(q) \in Nat /\ Len(p) <= Len(q)
      /\ \A x \in 1 .. Len(p) : p[x] = q[Len(q) - Len(p) + x]
  BY DEF EndOf
<1>2. /\ Len(q) <= MaxStreamBuf /\ MaxStreamBuf \in Nat /\ (sn = 0 => Len(q) = 0)
      /\ \A x \in 1 .. Len(q) : sn - (Len(q) - x) > gp => q[x] = sn - (Len(q) - x)
  BY ReasmAssumption DEF Recent
<1>3. ASSUME NEW x \in 1 .. Len(p), sn - (Len(p) - x) > gp PROVE p[x] = sn - (Len(p) - x)
  <2> DEFINE y == Len(q) - Len(p) + x
  <2>1. y \in 1 .. Len(q) /\ sn - (Len(q) - y) = sn - (Len(p) - x)
    BY <1>1
  <2>2. p[x] = q[y]
    BY <1>1
  <2> HIDE DEF y
  <2>3. sn - (Len(q) - y) > gp => q[y] = sn - (Len(q) - y)
    BY <1>2, <2>1
  <2> QED
    BY <1>3, <2>1, <2>2, <2>3
<1> QED
  BY <1>1, <1>2, <1>3 DEF Recent

(* The next n bytes behind the buffer *)
Joins(b, buf, sn, n) == b = buf \o [i \in 1 .. n |-> sn + i]
Adjoined(b, buf, sn, n) ==
  /\ Len(b) = Len(buf) + n /\ Len(buf) \in Nat
  /\ \A x \in 1 .. Len(buf) : b[x] = buf[x]
  /\ \A x \in 1 .. n : b[Len(buf) + x] = sn + x

LEMMA SeqVec == ASSUME NEW S, NEW q \in Seq(S) PROVE Vec(q)
<1>1. Len(q) \in Nat /\ q = [i \in 1 .. Len(q) |-> q[i]]
  OBVIOUS
<1> QED
  BY <1>1, VecIs

LEMMA JoinedIs ==
  ASSUME NEW buf, Vec(buf), NEW sn \in Nat, NEW n \in Nat, NEW b, Joins(b, buf, sn, n)
  PROVE  Adjoined(b, buf, sn, n)
<1> DEFINE d == [i \in 1 .. n |-> sn + i]
<1>1. d = [i \in 1 .. n |-> d[i]] /\ \A i \in 1 .. n : d[i] = sn + i
  OBVIOUS
<1>2. IsJoin(b, buf, d)
  BY DEF IsJoin, Joins
<1> HIDE DEF d
<1>3. Vec(d) /\ Len(d) = n
  BY <1>1, VecIs
<1>4. Follows(b, buf, d)
  BY <1>2, <1>3, VecJoin
<1> QED
  BY <1>1, <1>3, <1>4, VecFacts DEF Follows, Adjoined

LEMMA JoinRecent ==
  ASSUME NEW buf, Vec(buf), NEW sn \in Nat, NEW n \in Nat, NEW gp \in Nat, Recent(buf, sn, gp),
         NEW b, Joins(b, buf, sn, n), Len(b) <= MaxStreamBuf
  PROVE  Recent(b, sn + n, gp)
<1>1. /\ Len(b) = Len(buf) + n /\ Len(buf) \in Nat
      /\ \A x \in 1 .. Len(buf) : b[x] = buf[x]
      /\ \A x \in 1 .. n : b[Len(buf) + x] = sn + x
  <2>1. Adjoined(b, buf, sn, n)
    BY JoinedIs, Zenon
  <2> QED
    BY <2>1 DEF Adjoined
<1>2. ASSUME NEW x \in 1 .. Len(b), (sn + n) - (Len(b) - x) > gp PROVE b[x] = (sn + n) - (Len(b) - x)
  <2>1. CASE x \in 1 .. Len(buf)
    <3>1. (sn + n) - (Len(b) - x) = sn - (Len(buf) - x)
      BY <1>1, <2>1
    <3>2. sn - (Len(buf) - x) > gp => buf[x] = sn - (Len(buf) - x)
      BY <2>1 DEF Recent
    <3> QED
      BY <1>1, <1>2, <2>1, <3>1, <3>2
  <2>2. CASE x \notin 1 .. Len(buf)
    <3> DEFINE y == x - Len(buf)
    <3>1. y \in 1 .. n /\ x = Len(buf) + y /\ (sn + n) - (Len(b) - x) = sn + y
      BY <1>1, <2>2
    <3> HIDE DEF y
    <3>2. b[Len(buf) + y] = sn + y
      BY <1>1, <3>1
    <3> QED
      BY <3>1, <3>2
  <2> QED
    BY <2>1, <2>2
<1>3. sn + n = 0 => Len(b) = 0
  <2>1. sn = 0 => Len(buf) = 0
    BY DEF Recent
  <2>2. sn + n = 0 => sn = 0 /\ n = 0
    OBVIOUS
  <2> QED
    BY <1>1, <2>1, <2>2
<1> QED
  BY <1>2, <1>3 DEF Recent

(* Far behind the gap, the buffer is a piece of the connection. *)
LEMMA RecentPiece ==
  ASSUME NEW q, Vec(q), NEW sn \in Nat, NEW gp \in Nat, Recent(q, sn, gp), sn - Len(q) >= gp
  PROVE  sn - Len(q) \in Nat /\ q = Piece(sn - Len(q), sn)
<1> DEFINE m == Len(q)
           a == sn - m
           v == Piece(a, sn)
<1>1. m \in Nat /\ q = [i \in 1 .. m |-> q[i]]
  BY VecFacts
<1>2. \A x \in 1 .. m : sn - (m - x) > gp => q[x] = sn - (m - x)
  BY DEF Recent
<1>3. a \in Nat /\ a >= gp /\ a <= sn /\ sn - a = m
  BY <1>1
<1>4. \A x \in 1 .. m : sn - (m - x) > gp /\ sn - (m - x) = a + x
  BY <1>1, <1>3
<1> HIDE DEF m
<1>5. \A x \in 1 .. m : q[x] = a + x
  BY <1>2, <1>4
<1> HIDE DEF a
<1>6. v = [i \in 1 .. m |-> a + i]
  BY <1>3 DEF Piece
<1>7. q = v
  BY <1>1, <1>5, <1>6
<1> QED
  BY <1>3, <1>7 DEF a, m

LEMMA PieceJoin ==
  ASSUME NEW a \in Nat, NEW sn \in Nat, a <= sn, NEW n \in Nat, NEW b, Joins(b, Piece(a, sn), sn, n)
  PROVE  b = Piece(a, sn + n) /\ Len(b) = sn + n - a
<1> DEFINE q == Piece(a, sn)
           z == sn + n
           v == Piece(a, z)
<1>1. q \in Seq(Nat) /\ Len(q) = sn - a /\ \A i \in 1 .. (sn - a) : q[i] = a + i
  BY PieceIs
<1>2. z \in Nat /\ a <= z /\ z = sn + n
  OBVIOUS
<1> HIDE DEF z
<1>3. v \in Seq(Nat) /\ Len(v) = z - a /\ \A i \in 1 .. (z - a) : v[i] = a + i
  BY <1>2, PieceIs
<1>4. Joins(b, q, sn, n)
  OBVIOUS
<1> HIDE DEF q, v
<1>5. /\ Len(b) = Len(q) + n
      /\ \A x \in 1 .. Len(q) : b[x] = q[x]
      /\ \A x \in 1 .. n : b[Len(q) + x] = sn + x
  <2>1. Vec(q)
    BY <1>1, SeqVec
  <2> QED
    <3>1. Adjoined(b, q, sn, n)
      BY <1>4, <2>1, JoinedIs, Zenon
    <3> QED
      BY <3>1 DEF Adjoined
<1>6. b \in Seq(Nat)
  <2> DEFINE d == [i \in 1 .. n |-> sn + i]
  <2>1. d = [i \in 1 .. n |-> d[i]] /\ \A i \in 1 .. n : d[i] \in Nat
    OBVIOUS
  <2>2. b = q \o d
    BY <1>4 DEF Joins
  <2> HIDE DEF d
  <2>3. Vec(d) /\ Len(d) = n
    BY <2>1, VecIs
  <2>4. d \in Seq(Nat)
    BY <2>1, <2>3 DEF Vec
  <2> QED
    BY <1>1, <2>2, <2>4
<1>7. Len(b) = z - a
  BY <1>1, <1>2, <1>5
<1>8. ASSUME NEW x \in 1 .. (z - a) PROVE b[x] = v[x]
  <2>1. v[x] = a + x
    BY <1>3
  <2>2. CASE x <= sn - a
    <3>1. x \in 1 .. Len(q) /\ x \in 1 .. (sn - a)
      BY <1>1, <1>2, <2>2
    <3> QED
      BY <1>1, <1>5, <2>1, <3>1
  <2>3. CASE x > sn - a
    <3> DEFINE y == x - (sn - a)
    <3>1. y \in 1 .. n /\ x = Len(q) + y /\ sn + y = a + x
      BY <1>1, <1>2, <2>3
    <3> HIDE DEF y
    <3>2. b[Len(q) + y] = sn + y
      BY <1>5, <3>1
    <3> QED
      BY <2>1, <3>1, <3>2
  <2> QED
    BY <1>2, <2>2, <2>3
<1>9. b = v
  BY <1>3, <1>6, <1>7, <1>8
<1> QED
  BY <1>2, <1>7, <1>9 DEF v, z

-----------------------------------------------------------------------------
(* What a frame that is an item tells: a message behind a single line end  *)
(* does not look like one.                                                 *)
Heeded(items, i) == items[i] # Nothing /\ ~items[i].pong
LEMMA ItemFrame ==
  ASSUME NEW items, Plainly(items), NEW o, Laid(items, wire.bytes, o), NEW i \in 1 .. Len(items)
  PROVE  LET b == Piece(o[i - 1], o[i])
         IN (Starts(b) <=> Heeded(items, i)) /\ (Heeded(items, i) => ItemOf(b) = i)
<1> DEFINE a == o[i - 1]
           c == o[i]
           b == Piece(a, c)
<1>1. a \in Nat /\ c \in Nat /\ Stands(items, wire.bytes, i, a, c) /\ c >= a + 2
  BY LaidItem DEF Laid
<1> HIDE DEF a, c
<1>2. b[1] = a + 1
  BY <1>1, PieceIs, SMTT(30)
<1>3. CASE ~Heeded(items, i)
  <2>1. wire.bytes[a + 1].kind = "crlf"
    BY <1>1, <1>3 DEF Stands, Heeded
  <2> QED
    BY <1>2, <1>3, <2>1 DEF Starts, a, c
<1>4. CASE Heeded(items, i)
  <2>1. wire.bytes[a + 1].kind = "start" /\ wire.bytes[a + 1].item = i
    BY <1>1, <1>4 DEF Stands, Lies, Opens, Heeded
  <2> QED
    BY <1>2, <1>4, <2>1 DEF Starts, ItemOf, a, c
<1> QED
  BY <1>3, <1>4

Rising(q) == \A a, b \in DOMAIN q : a < b => q[a] < q[b]
HeardTo(items, hd, j) == ToSet(hd) = {i \in Messages(items) : Heeded(items, i) /\ i <= j} /\ Rising(hd)
Met(items, w, o, sn, buf, hd) ==
  \E j \in 0 .. Len(items) :
    /\ o[j] <= sn /\ buf = Piece(o[j], sn) /\ Idle(w, o[j], sn)
    /\ HeardTo(items, hd, j)
Frames(o, j, n, out) == Vec(out) /\ Len(out) = n /\ \A k \in 1 .. n : out[k] = Piece(o[j + k - 1], o[j + k])

(* The loop adds what it cut out to what was heard. *)
LEMMA HeardMore ==
  ASSUME NEW items, Plainly(items), NEW o, Laid(items, wire.bytes, o),
         NEW j \in 0 .. Len(items), NEW n \in Nat, j + n <= Len(items),
         NEW out, Frames(o, j, n, out), NEW hd, Vec(hd), HeardTo(items, hd, j)
  PROVE  HeardTo(items, hd \o Added(out), j + n)
<1>1. /\ Vec(out) /\ Len(out) = n /\ \A k \in 1 .. n : out[k] = Piece(o[j + k - 1], o[j + k])
      /\ ToSet(hd) = {i \in Messages(items) : Heeded(items, i) /\ i <= j} /\ Rising(hd)
  BY DEF Frames, HeardTo
<1> DEFINE new == Added(out)
           c == hd \o new
           N == Len(items)
<1>2. N \in Nat /\ DOMAIN items = 1 .. N
  BY DEF Laid
<1>3. ASSUME NEW k \in 1 .. n
      PROVE  /\ j + k \in 1 .. N
             /\ Starts(out[k]) <=> Heeded(items, j + k)
             /\ Heeded(items, j + k) => ItemOf(out[k]) = j + k
  <2> DEFINE i == j + k
  <2>1. i \in 1 .. N /\ j + k - 1 = i - 1
    BY <1>2
  <2>2. out[k] = Piece(o[i - 1], o[i])
    BY <1>1, <2>1
  <2> HIDE DEF i
  <2>3. (Starts(out[k]) <=> Heeded(items, i)) /\ (Heeded(items, i) => ItemOf(out[k]) = i)
    BY <2>1, <2>2, ItemFrame
  <2> QED
    BY <2>1, <2>3 DEF i
<1>4. \A k, l \in 1 .. n : k < l /\ Starts(out[k]) /\ Starts(out[l]) => ItemOf(out[k]) < ItemOf(out[l])
  <2> SUFFICES ASSUME NEW k \in 1 .. n, NEW l \in 1 .. n, k < l, Starts(out[k]), Starts(out[l])
               PROVE  ItemOf(out[k]) < ItemOf(out[l])
    OBVIOUS
  <2>1. ItemOf(out[k]) = j + k /\ ItemOf(out[l]) = j + l
    BY <1>3
  <2> QED
    BY <2>1
<1>5. /\ Vec(new) /\ Rising(new)
      /\ \A x : x \in ToSet(new) <=> \E k \in 1 .. n : Starts(out[k]) /\ ItemOf(out[k]) = x
  BY <1>1, <1>4, AddedIs DEF Rising
<1>6. IsJoin(c, hd, new)
  BY DEF IsJoin
<1> HIDE DEF new, c
<1>7. Follows(c, hd, new)
  BY <1>5, <1>6, VecJoin
<1>8. /\ Len(c) = Len(hd) + Len(new) /\ DOMAIN c = 1 .. Len(c)
      /\ DOMAIN hd = 1 .. Len(hd) /\ DOMAIN new = 1 .. Len(new)
      /\ Len(hd) \in Nat /\ Len(new) \in Nat
      /\ \A i \in 1 .. Len(hd) : c[i] = hd[i]
      /\ \A i \in 1 .. Len(new) : c[Len(hd) + i] = new[i]
      /\ ToSet(c) = ToSet(hd) \cup ToSet(new)
  BY <1>5, <1>7, VecFacts DEF Follows
<1>9. \A x : x \in ToSet(new) <=> x \in Messages(items) /\ Heeded(items, x) /\ x > j /\ x <= j + n
  <2>1. ASSUME NEW x \in ToSet(new) PROVE x \in Messages(items) /\ Heeded(items, x) /\ x > j /\ x <= j + n
    <3>1. PICK k \in 1 .. n : Starts(out[k]) /\ ItemOf(out[k]) = x
      BY <1>5
    <3>2. j + k \in 1 .. N /\ Heeded(items, j + k) /\ x = j + k
      BY <1>3, <3>1
    <3>3. x \in 1 .. N /\ Heeded(items, x) /\ x > j /\ x <= j + n
      BY <3>2
    <3> QED
      BY <1>2, <3>3 DEF Messages, Heeded
  <2>2. ASSUME NEW x \in Messages(items), Heeded(items, x), x > j, x <= j + n PROVE x \in ToSet(new)
    <3>1. x \in 1 .. N
      BY <1>2 DEF Messages
    <3>2. x - j \in 1 .. n /\ j + (x - j) = x
      BY <2>2, <3>1
    <3>3. Starts(out[x - j]) /\ ItemOf(out[x - j]) = x
      BY <1>3, <2>2, <3>2
    <3> QED
      BY <1>5, <3>2, <3>3
  <2> QED
    BY <2>1, <2>2
<1>10. ToSet(c) = {i \in Messages(items) : Heeded(items, i) /\ i <= j + n}
  <2>1. \A x \in Messages(items) : x \in Nat
    BY <1>2 DEF Messages
  <2>2. \A x \in Messages(items) : x <= j => x <= j + n
    BY <2>1
  <2>3. \A x \in Messages(items) : x <= j \/ x > j
    BY <2>1
  <2> QED
    BY <1>1, <1>8, <1>9, <2>2, <2>3
<1>11. \A a \in DOMAIN hd : hd[a] \in ToSet(hd)
  BY DEF ToSet
<1>12. \A a \in DOMAIN new : new[a] \in ToSet(new)
  BY DEF ToSet
<1>13. ASSUME NEW a \in DOMAIN c, NEW b \in DOMAIN c, a < b PROVE c[a] < c[b]
  <2>1. CASE b <= Len(hd)
    <3>1. a \in DOMAIN hd /\ b \in DOMAIN hd /\ c[a] = hd[a] /\ c[b] = hd[b]
      BY <1>8, <1>13, <2>1
    <3> QED
      BY <1>1, <1>13, <3>1 DEF Rising
  <2>2. CASE a <= Len(hd) /\ b > Len(hd)
    <3> DEFINE d == b - Len(hd)
    <3>1. a \in DOMAIN hd /\ d \in DOMAIN new /\ d \in 1 .. Len(new) /\ b = Len(hd) + d
      BY <1>8, <2>2
    <3> HIDE DEF d
    <3>2. c[a] = hd[a] /\ c[b] = new[d]
      BY <1>8, <3>1
    <3>3. hd[a] \in Messages(items) /\ hd[a] <= j
      BY <1>1, <1>11, <3>1
    <3>4. new[d] \in Messages(items) /\ new[d] > j
      BY <1>9, <1>12, <3>1
    <3>5. hd[a] \in Nat /\ new[d] \in Nat
      BY <1>2, <3>3, <3>4 DEF Messages
    <3> QED
      BY <3>2, <3>3, <3>4, <3>5
  <2>3. CASE a > Len(hd)
    <3> DEFINE d == b - Len(hd)
               e == a - Len(hd)
    <3>1. d \in 1 .. Len(new) /\ e \in 1 .. Len(new) /\ e < d /\ b = Len(hd) + d /\ a = Len(hd) + e
      BY <1>8, <1>13, <2>3
    <3> HIDE DEF d, e
    <3>2. c[a] = new[e] /\ c[b] = new[d]
      BY <1>8, <3>1
    <3> QED
      BY <1>5, <1>8, <3>1, <3>2 DEF Rising
  <2> QED
    BY <1>8, <2>1, <2>2, <2>3
<1> QED
  BY <1>10, <1>13 DEF HeardTo, Rising, c, new

-----------------------------------------------------------------------------
(* A buffer that is not too long is framed. *)
LEMMA FeedFits ==
  ASSUME NEW buf, NEW sn, NEW n, NEW b, Joins(b, buf, sn, n), Len(b) \in Nat, NEW w
  PROVE  Feed(buf, [i \in 1 .. n |-> sn + i], w) =
           IF Len(b) > MaxStreamBuf THEN [buf |-> <<>>, out |-> <<>>] ELSE Framed(b, w)
BY DEF Feed, Overflow, Joins

LEMMA MetStep ==
  ASSUME NEW items, Plainly(items), NEW o, Laid(items, wire.bytes, o), Roomy(items),
         \A i \in 1 .. Len(items) : Truthful(items, i),
         NEW sn \in Nat, NEW n \in 1 .. MaxSegment, sn + n <= Len(wire.bytes),
         NEW buf, NEW hd, Vec(hd), Met(items, wire.bytes, o, sn, buf, hd),
         NEW r, r = Feed(buf, [i \in 1 .. n |-> sn + i], wire.bytes)
  PROVE  Met(items, wire.bytes, o, sn + n, r.buf, hd \o Added(r.out))
<1> DEFINE w == wire.bytes
           N == Len(items)
           z == sn + n
<1>1. PICK j \in 0 .. N : /\ o[j] <= sn /\ buf = Piece(o[j], sn) /\ Idle(w, o[j], sn)
                          /\ HeardTo(items, hd, j)
  BY DEF Met
<1>2. /\ N \in Nat /\ (\A k \in 0 .. N : o[k] \in Nat) /\ o[N] = Len(w) /\ Len(w) \in Nat
  BY DEF Laid
<1>3. MaxSegment \in Nat /\ MaxStreamBuf \in Nat /\ n \in Nat /\ n <= MaxSegment /\ n > 0
  BY IngestAssumption, ReasmAssumption
<1>4. z \in Nat /\ z = sn + n /\ z <= Len(w) /\ o[j] \in Nat /\ o[j] <= z
  BY <1>1, <1>2, <1>3
<1> HIDE DEF z
<1>5. PICK b : Joins(b, buf, sn, n)
  BY DEF Joins
<1>6. b = Piece(o[j], z) /\ Len(b) = z - o[j]
  BY <1>1, <1>3, <1>4, <1>5, PieceJoin
<1>7. Len(b) <= MaxStreamBuf
  <2> DEFINE h == j + 1
             m == Len(Item(items, h))
  <2>1. j # N
    BY <1>1, <1>2, <1>3, <1>4
  <2>2. h \in 1 .. N /\ h - 1 = j /\ h \in 0 .. N
    BY <1>2, <2>1
  <2>3. CutsAt(w, o[h - 1], o[h])
    BY <2>2, LaidCut
  <2>4. o[h] \in Nat
    BY <1>2, <2>2
  <2>5. sn < o[h]
    BY <1>1, <1>4, <2>2, <2>3, <2>4, IdleBefore
  <2>6. o[h] = o[h - 1] + Len(Item(items, h))
    BY <2>2 DEF Laid
  <2>7. 2 * m + MaxSegment <= MaxStreamBuf + 2
    BY <2>2 DEF Roomy
  <2>8. m \in Nat /\ m >= 2
    BY <2>2, ItemStands
  <2>9. o[h] = o[j] + m
    BY <2>2, <2>6
  <2> HIDE DEF m, h
  <2>10. z - o[j] <= m - 1 + MaxSegment
    BY <1>3, <1>4, <2>4, <2>5, <2>8, <2>9
  <2>11. m - 1 + MaxSegment <= MaxStreamBuf
    BY <1>3, <2>7, <2>8
  <2> QED
    BY <1>3, <1>4, <1>6, <2>8, <2>10, <2>11
<1>8. r = Framed(Piece(o[j], z), w)
  <2>1. Len(b) \in Nat
    BY <1>4, <1>6
  <2>2. r = IF Len(b) > MaxStreamBuf THEN [buf |-> <<>>, out |-> <<>>] ELSE Framed(b, w)
    BY <1>5, <2>1, FeedFits
  <2> QED
    BY <1>3, <1>6, <1>7, <2>1, <2>2
<1>9. PICK k \in Nat : Whole(items, w, o, j, z, r, k)
  <2>1. \A i \in 1 .. Len(items) : Truthful(items, i)
    OBVIOUS
  <2>2. \E k \in Nat : Whole(items, w, o, j, z, Framed(Piece(o[j], z), w), k)
    BY <1>4, <2>1, WholeWalk, Zenon
  <2> QED
    BY <1>8, <2>2, Zenon
<1>10. /\ j + k <= N /\ o[j + k] <= z /\ r.buf = Piece(o[j + k], z) /\ Idle(w, o[j + k], z)
       /\ r.out \in Seq(Seq(Nat)) /\ Len(r.out) = k
       /\ \A x \in 1 .. k : r.out[x] = Piece(o[j + x - 1], o[j + x])
  BY <1>9 DEF Whole
<1>11. Frames(o, j, k, r.out)
  BY <1>10, SeqVec DEF Frames
<1>12. HeardTo(items, hd \o Added(r.out), j + k)
  <2>1. j + k <= Len(items)
    BY <1>10
  <2> QED
    BY <1>1, <1>11, <2>1, HeardMore, Zenon
<1>13. j + k \in 0 .. N
  BY <1>2, <1>10
<1> QED
  BY <1>10, <1>12, <1>13, Zenon DEF Met, z

-----------------------------------------------------------------------------
(* A message that begins far behind every fault, before another one *)
Calm(items, o, gp, j) ==
  /\ o[j - 1] >= gp + 2 * MaxStreamBuf
  /\ \A d \in 1 .. Len(items) : Truthful(items, d) \/ o[j - 1] >= o[d] + 2 * MaxStreamBuf
Earlier(items, i, j) == j \in Messages(items) /\ j < i
Waits(items, w, o, sn, buf, i) ==
  \E p \in Nat : /\ p <= sn /\ buf = Piece(p, sn) /\ Idle(w, p, sn)
                 /\ Past(items, o, p) /\ Reaches(items, o, i, p)
Due(items, w, o, sn, buf, hd, i, j) ==
  i \in ToSet(hd) \/ sn + MaxStreamBuf <= o[j - 1] \/ Waits(items, w, o, sn, buf, i)

LEMMA HeardStays ==
  ASSUME NEW hd, Vec(hd), NEW out, Vec(out)
  PROVE  Vec(hd \o Added(out)) /\ ToSet(hd \o Added(out)) = ToSet(hd) \cup ToSet(Added(out))
<1> DEFINE c == hd \o Added(out)
<1>1. Vec(Added(out)) /\ IsJoin(c, hd, Added(out))
  BY AddedIs DEF IsJoin
<1> HIDE DEF c
<1>2. Follows(c, hd, Added(out))
  BY <1>1, VecJoin
<1> QED
  BY <1>2 DEF Follows, c

(* Framing from a position on the way to it leaves it heard, or on the way. *)
LEMMA DueFrom ==
  ASSUME NEW items, Plainly(items), NEW o, Laid(items, wire.bytes, o), Roomy(items),
         NEW i \in 1 .. Len(items), Heeded(items, i), NEW j,
         NEW a \in Nat, NEW z \in Nat, a <= z, z <= Len(wire.bytes), Reaches(items, o, i, a), Past(items, o, a),
         NEW hd, Vec(hd), NEW r, r = Framed(Piece(a, z), wire.bytes)
  PROVE  Due(items, wire.bytes, o, z, r.buf, hd \o Added(r.out), i, j)
<1> DEFINE w == wire.bytes
<1>1. PICK p \in Nat : Late(items, w, o, i, z, r, p)
  BY LateWalk
<1>2. /\ p <= z /\ r.buf = Piece(p, z) /\ Idle(w, p, z) /\ Past(items, o, p) /\ Vec(r.out)
      /\ Reaches(items, o, i, p) \/ \E m \in 1 .. Len(r.out) : r.out[m] = Piece(o[i - 1], o[i])
  BY <1>1 DEF Late
<1>3. CASE Reaches(items, o, i, p)
  BY <1>2, <1>3 DEF Due, Waits
<1>4. CASE \E m \in 1 .. Len(r.out) : r.out[m] = Piece(o[i - 1], o[i])
  <2> DEFINE out == r.out
  <2>1. PICK m \in 1 .. Len(out) : out[m] = Piece(o[i - 1], o[i])
    BY <1>4
  <2>2. Starts(out[m]) /\ ItemOf(out[m]) = i
    BY <2>1, ItemFrame
  <2>3. Vec(out)
    BY <1>2
  <2> HIDE DEF out
  <2>4. i \in ToSet(Added(out))
    BY <2>2, <2>3, AddedIs
  <2>5. i \in ToSet(hd \o Added(out))
    BY <2>3, <2>4, HeardStays
  <2> QED
    BY <2>5 DEF Due, out
<1> QED
  BY <1>2, <1>3, <1>4

(* A position before a message reaches what comes after the message. *)
LEMMA FarReaches ==
  ASSUME NEW items, Plainly(items), NEW w, NEW o, Laid(items, w, o), Roomy(items),
         NEW i \in 1 .. Len(items), NEW j, Earlier(items, i, j),
         NEW z \in Nat, z + MaxStreamBuf <= o[j - 1] + MaxSegment, NEW p \in Nat, p <= z
  PROVE  Reaches(items, o, i, p)
<1> DEFINE N == Len(items)
<1>1. MaxSegment \in Nat /\ MaxStreamBuf \in Nat
  BY IngestAssumption, ReasmAssumption
<1>2. /\ N \in Nat /\ (\A k \in 0 .. N : o[k] \in Nat) /\ o[N] = Len(w) /\ Len(w) \in Nat /\ o[0] = 0
      /\ DOMAIN items = 1 .. N
  BY DEF Laid
<1>3. \A d, k \in 0 .. N : d < k => o[d] < o[k]
  BY LaidOrder
<1>4. j \in 1 .. N /\ items[j] # Nothing /\ j < i /\ i \in Nat /\ j \in Nat
  BY <1>2 DEF Earlier, Messages
<1>5. j - 1 \in 0 .. N /\ o[j - 1] \in Nat
  BY <1>2, <1>4
<1>6. MaxStreamBuf >= MaxSegment + 2
  <2> DEFINE m == Len(Item(items, i))
  <2>1. 2 * m + MaxSegment <= MaxStreamBuf + 2 /\ m \in Nat /\ m >= 2
    BY ItemStands DEF Roomy
  <2> HIDE DEF m
  <2> QED
    BY <1>1, <2>1
<1>7. p < o[j - 1]
  BY <1>1, <1>5, <1>6
<1>8. p <= Len(w)
  <2>1. N \in 0 .. N /\ j - 1 < N
    BY <1>2, <1>4
  <2>2. o[j - 1] < o[N]
    BY <1>3, <1>5, <2>1
  <2> QED
    BY <1>2, <1>5, <1>7, <2>2
<1>9. PICK k \in 0 .. N : p = o[k] \/ (k > 0 /\ o[k - 1] < p /\ p < o[k])
  BY <1>8, Located
<1>10. CASE p = o[k]
  <2>1. ~(j - 1 < k)
    <3> SUFFICES ASSUME j - 1 < k PROVE FALSE
      OBVIOUS
    <3>1. o[j - 1] < o[k] /\ o[k] \in Nat
      BY <1>2, <1>3, <1>5
    <3> QED
      BY <1>5, <1>7, <1>10, <3>1
  <2>2. k \in 0 .. (i - 1)
    BY <1>4, <2>1
  <2> QED
    BY <1>10, <2>2 DEF Reaches
<1>11. CASE k > 0 /\ o[k - 1] < p /\ p < o[k]
  <2>1. k - 1 \in 0 .. N /\ o[k - 1] \in Nat
    BY <1>2, <1>11
  <2>2. k - 1 # j - 1 /\ ~(j - 1 < k - 1)
    <3>1. j - 1 < k - 1 => o[j - 1] < o[k - 1]
      BY <1>3, <1>5, <2>1
    <3>2. k - 1 = j - 1 => o[j - 1] = o[k - 1]
      OBVIOUS
    <3> QED
      BY <1>5, <1>7, <1>11, <2>1, <3>1, <3>2
  <2>3. k \in 1 .. (i - 2) /\ j \in (k + 1) .. (i - 1)
    BY <1>4, <1>11, <2>2
  <2> QED
    BY <1>4, <1>11, <2>3 DEF Reaches, Inside
<1> QED
  BY <1>9, <1>10, <1>11

-----------------------------------------------------------------------------
(* What a calm item is due is due after the next segment too. *)
LEMMA DueStep ==
  ASSUME NEW items, Plainly(items), NEW o, Laid(items, wire.bytes, o), Roomy(items),
         NEW i \in 1 .. Len(items), Heeded(items, i), NEW j, Earlier(items, i, j),
         NEW gp \in Nat, Calm(items, o, gp, j),
         NEW sn \in Nat, NEW n \in 1 .. MaxSegment, sn + n <= Len(wire.bytes),
         NEW buf, Vec(buf), Recent(buf, sn, gp),
         NEW hd, Vec(hd), Due(items, wire.bytes, o, sn, buf, hd, i, j),
         NEW r, r = Feed(buf, [k \in 1 .. n |-> sn + k], wire.bytes), Vec(r.out)
  PROVE  Due(items, wire.bytes, o, sn + n, r.buf, hd \o Added(r.out), i, j)
<1> DEFINE w == wire.bytes
           N == Len(items)
           z == sn + n
           new == hd \o Added(r.out)
<1>1. MaxSegment \in Nat /\ MaxStreamBuf \in Nat /\ n \in Nat /\ n <= MaxSegment /\ n > 0
  BY IngestAssumption, ReasmAssumption
<1>2. /\ N \in Nat /\ (\A k \in 0 .. N : o[k] \in Nat) /\ o[N] = Len(w) /\ Len(w) \in Nat
      /\ j - 1 \in 0 .. N /\ o[j - 1] \in Nat
  <2>1. /\ N \in Nat /\ (\A k \in 0 .. N : o[k] \in Nat) /\ o[N] = Len(w) /\ Len(w) \in Nat
        /\ DOMAIN items = 1 .. N
    BY DEF Laid
  <2>2. j - 1 \in 0 .. N
    BY <2>1 DEF Earlier, Messages
  <2> QED
    BY <2>1, <2>2
<1>3. z \in Nat /\ z = sn + n /\ z <= Len(w)
  BY <1>1
<1>4. PICK b : Joins(b, buf, sn, n)
  BY DEF Joins
<1>5. Len(b) = Len(buf) + n /\ Len(buf) \in Nat /\ Len(b) \in Nat
  <2>1. Adjoined(b, buf, sn, n)
    BY <1>1, <1>4, JoinedIs, Zenon
  <2>2. Len(b) = Len(buf) + n /\ Len(buf) \in Nat
    BY <2>1 DEF Adjoined
  <2> QED
    BY <1>1, <2>2
<1>6. r = IF Len(b) > MaxStreamBuf THEN [buf |-> <<>>, out |-> <<>>] ELSE Framed(b, w)
  BY <1>4, <1>5, FeedFits
<1>7. /\ o[j - 1] >= gp + 2 * MaxStreamBuf
      /\ \A d \in 1 .. N : Truthful(items, d) \/ o[j - 1] >= o[d] + 2 * MaxStreamBuf
  BY DEF Calm
<1> HIDE DEF z
<1> DEFINE D == Due(items, w, o, z, r.buf, new, i, j)
<1>8. /\ i \in ToSet(new) => D
      /\ z + MaxStreamBuf <= o[j - 1] => D
      /\ Waits(items, w, o, z, r.buf, i) => D
  <2> HIDE DEF new
  <2> QED
    BY DEF Due
<1>9. ASSUME NEW p \in Nat, p <= z, b = Piece(p, z), Len(b) <= MaxStreamBuf, Reaches(items, o, i, p), Past(items, o, p)
      PROVE  D
  <2>1. r = Framed(Piece(p, z), w)
    BY <1>1, <1>5, <1>6, <1>9
  <2> QED
    BY <1>3, <1>9, <2>1, DueFrom
<1>10. i \in ToSet(hd) => i \in ToSet(new)
  <2>1. ToSet(new) = ToSet(hd) \cup ToSet(Added(r.out))
    BY HeardStays, Zenon
  <2> HIDE DEF new
  <2> QED
    BY <2>1
<1> HIDE DEF D, new
<1> SUFFICES D
  BY DEF D, new, z
<1>11. CASE i \in ToSet(hd)
  BY <1>11, <1>8, <1>10
<1>12. CASE Waits(items, w, o, sn, buf, i)
  <2>1. PICK p \in Nat : /\ p <= sn /\ buf = Piece(p, sn) /\ Idle(w, p, sn)
                         /\ Past(items, o, p) /\ Reaches(items, o, i, p)
    BY <1>12 DEF Waits
  <2>2. p <= z
    BY <1>1, <1>3, <2>1
  <2>3. b = Piece(p, z) /\ Len(b) = z - p
    BY <1>1, <1>3, <1>4, <2>1, PieceJoin
  <2>4. PICK c \in Nat : Follow(items, w, o, i, p, c)
    BY <2>1, NextCut
  <2>5. CutsAt(w, p, c) /\ c - p + MaxSegment <= MaxStreamBuf + 1
    BY <2>4 DEF Follow
  <2>6. sn < c
    BY <2>1, <2>5, IdleBefore
  <2>7. Len(b) <= MaxStreamBuf
    BY <1>1, <1>3, <2>3, <2>5, <2>6
  <2> QED
    BY <1>9, <2>1, <2>2, <2>3, <2>7
<1>13. CASE z + MaxStreamBuf <= o[j - 1]
  BY <1>13, <1>8
<1>14. CASE sn + MaxStreamBuf <= o[j - 1] /\ ~(z + MaxStreamBuf <= o[j - 1])
  <2>1. z + MaxStreamBuf <= o[j - 1] + MaxSegment
    BY <1>1, <1>2, <1>3, <1>14
  <2>2. z + MaxStreamBuf > o[j - 1]
    BY <1>1, <1>2, <1>3, <1>14
  <2>3. ASSUME NEW p \in Nat, p + MaxStreamBuf >= z PROVE p >= gp /\ Past(items, o, p)
    <3>1. p + 2 * MaxStreamBuf > o[j - 1]
      BY <1>1, <1>2, <1>3, <2>2, <2>3
    <3>2. p >= gp
      BY <1>1, <1>2, <1>7, <3>1
    <3>3. ASSUME NEW d \in 1 .. N, o[j - 1] >= o[d] + 2 * MaxStreamBuf PROVE o[d] <= p
      <4>1. o[d] \in Nat
        BY <1>2
      <4> QED
        BY <1>1, <1>2, <3>1, <3>3, <4>1, SMTT(30)
    <3> QED
      BY <1>7, <3>2, <3>3 DEF Past
  <2>4. ASSUME NEW p \in Nat, p <= z PROVE Reaches(items, o, i, p)
    BY <1>3, <2>1, <2>4, FarReaches
  <2>5. CASE Len(b) > MaxStreamBuf
    <3>1. r.buf = <<>>
      BY <1>6, <2>5
    <3>2. Past(items, o, z) /\ Reaches(items, o, i, z)
      BY <1>1, <1>3, <2>3, <2>4
    <3>3. Piece(z, z) = <<>>
      <4>0. z <= z /\ z - z = 0
        BY <1>3
      <4>1. Piece(z, z) \in Seq(Nat) /\ Len(Piece(z, z)) = 0
        BY <1>3, <4>0, PieceIs
      <4> QED
        BY <4>1
    <3>4. Idle(w, z, z)
      <4>1. \A c \in (z + 1) .. (z - 1) : FALSE
        BY <1>3
      <4> QED
        BY <4>1 DEF Idle
    <3>5. Waits(items, w, o, z, r.buf, i)
      BY <1>3, <3>1, <3>2, <3>3, <3>4, SMTT(30) DEF Waits
    <3> QED
      BY <3>5, <1>8
  <2>6. CASE Len(b) <= MaxStreamBuf
    <3> DEFINE p == z - Len(b)
    <3>1. Recent(b, z, gp)
      BY <1>1, <1>3, <1>4, <2>6, JoinRecent
    <3>2. p + MaxStreamBuf >= z
      BY <1>1, <1>3, <1>5, <2>6
    <3>3. gp + 2 * MaxStreamBuf < z + MaxStreamBuf
      BY <1>1, <1>2, <1>3, <1>7, <2>2
    <3>4. p >= gp
      BY <1>1, <1>3, <1>5, <2>6, <3>3
    <3>5. Vec(b)
      <4> DEFINE d == [k \in 1 .. n |-> sn + k]
      <4>1. d = [k \in 1 .. n |-> d[k]]
        OBVIOUS
      <4>2. IsJoin(b, buf, d)
        BY <1>4 DEF Joins, IsJoin
      <4> HIDE DEF d
      <4>3. Vec(d)
        BY <1>1, <4>1, VecIs
      <4> QED
        BY <4>2, <4>3, VecJoin DEF Follows
    <3>6. p \in Nat /\ b = Piece(p, z)
      BY <1>3, <3>1, <3>4, <3>5, RecentPiece
    <3>7. p <= z
      BY <1>3, <1>5
    <3> HIDE DEF p
    <3>8. Past(items, o, p) /\ Reaches(items, o, i, p)
      BY <2>3, <2>4, <3>2, <3>6, <3>7
    <3> QED
      BY <1>9, <2>6, <3>6, <3>7, <3>8
  <2> QED
    BY <1>1, <1>5, <2>5, <2>6
<1>15. i \in ToSet(hd) \/ sn + MaxStreamBuf <= o[j - 1] \/ Waits(items, w, o, sn, buf, i)
  BY DEF Due
<1> QED
  BY <1>11, <1>12, <1>13, <1>14, <1>15

-----------------------------------------------------------------------------
(* What the buffer and the messages heard are, and what is still due *)
Framing(items, w, o, sn, gp, buf, hd) ==
  /\ gp \in Nat /\ gp <= sn /\ Vec(hd) /\ Recent(buf, sn, gp)
  /\ gp = 0 /\ (\A i \in 1 .. Len(items) : Truthful(items, i)) => Met(items, w, o, sn, buf, hd)
  /\ \A i, j \in Messages(items) :
       Heeded(items, i) /\ Earlier(items, i, j) /\ Calm(items, o, gp, j) => Due(items, w, o, sn, buf, hd, i, j)

LEMMA NoBytes == ASSUME NEW z \in Nat PROVE Piece(z, z) = <<>>
<1>1. z <= z /\ z - z = 0
  OBVIOUS
<1>2. Piece(z, z) \in Seq(Nat) /\ Len(Piece(z, z)) = 0
  BY <1>1, PieceIs
<1> QED
  BY <1>2

LEMMA NothingDue ==
  ASSUME NEW items, NEW w, NEW o, Laid(items, w, o), NEW sn \in Nat, NEW buf, NEW hd,
         NEW i, NEW j \in Messages(items), Calm(items, o, sn, j)
  PROVE  Due(items, w, o, sn, buf, hd, i, j)
<1>1. j \in 1 .. Len(items) /\ Len(items) \in Nat
  BY DEF Laid, Messages
<1>2. j - 1 \in 0 .. Len(items)
  BY <1>1
<1>3. o[j - 1] \in Nat
  BY <1>2 DEF Laid
<1>4. o[j - 1] >= sn + 2 * MaxStreamBuf
  BY DEF Calm
<1>5. sn + MaxStreamBuf <= o[j - 1]
  BY <1>3, <1>4, ReasmAssumption
<1> QED
  BY <1>5 DEF Due

LEMMA FramingStarts ==
  ASSUME NEW items, NEW w, NEW o, Laid(items, w, o) PROVE Framing(items, w, o, 0, 0, <<>>, <<>>)
<1> DEFINE e == <<>>
<1>1. Len(e) = 0 /\ e = [i \in 1 .. 0 |-> e[i]] /\ ToSet(e) = {} /\ DOMAIN e = {}
  BY DEF ToSet
<1>2. e = Piece(0, 0)
  BY NoBytes
<1>3. Vec(e)
  BY DEF Vec
<1> HIDE DEF e
<1>4. Recent(e, 0, 0)
  BY <1>1, ReasmAssumption DEF Recent
<1>5. Met(items, w, o, 0, e, e)
  <2>1. 0 \in 0 .. Len(items) /\ o[0] = 0 /\ Len(items) \in Nat /\ DOMAIN items = 1 .. Len(items)
    BY DEF Laid
  <2>2. Idle(w, 0, 0)
    <3>1. \A x \in (0 + 1) .. (0 - 1) : ~SepAt(w, x)
      OBVIOUS
    <3> QED
      BY <3>1 DEF Idle
  <2>3. HeardTo(items, e, 0)
    <3>1. {i \in Messages(items) : Heeded(items, i) /\ i <= 0} = {}
      BY <2>1 DEF Messages
    <3> QED
      BY <1>1, <3>1 DEF HeardTo, Rising
  <2>4. o[0] <= 0 /\ e = Piece(o[0], 0) /\ Idle(w, o[0], 0)
    BY <1>2, <2>1, <2>2
  <2> QED
    BY <2>1, <2>3, <2>4 DEF Met
<1>6. \A i, j \in Messages(items) : Calm(items, o, 0, j) => Due(items, w, o, 0, e, e, i, j)
  BY NothingDue
<1>7. Framing(items, w, o, 0, 0, e, e)
  BY <1>3, <1>4, <1>5, <1>6 DEF Framing
<1> QED
  BY <1>7 DEF e

(* Behind a fault nothing is due. *)
LEMMA FramingLost ==
  ASSUME NEW items, NEW w, NEW o, Laid(items, w, o), NEW sn \in Nat,
         NEW buf, Len(buf) \in Nat, Len(buf) <= MaxStreamBuf, NEW hd, Vec(hd),
         sn # 0
  PROVE  Framing(items, w, o, sn, sn, buf, hd)
<1>1. Recent(buf, sn, sn)
  <2>1. ASSUME NEW x \in 1 .. Len(buf) PROVE ~(sn - (Len(buf) - x) > sn)
    OBVIOUS
  <2> QED
    BY <2>1 DEF Recent
<1>2. \A i, j \in Messages(items) : Calm(items, o, sn, j) => Due(items, w, o, sn, buf, hd, i, j)
  BY NothingDue
<1> QED
  BY <1>1, <1>2 DEF Framing

(* The next segment *)
LEMMA FramingStep ==
  ASSUME NEW items, Plainly(items), NEW o, Laid(items, wire.bytes, o), Roomy(items),
         NEW sn \in Nat, NEW n \in 1 .. MaxSegment, sn + n <= Len(wire.bytes),
         NEW gp, NEW buf \in Seq(DOMAIN wire.bytes), NEW hd, Framing(items, wire.bytes, o, sn, gp, buf, hd),
         [k \in 1 .. n |-> sn + k] \in Seq(DOMAIN wire.bytes), wire.bytes \in Seq(Byte(items)),
         NEW r, r = Feed(buf, [k \in 1 .. n |-> sn + k], wire.bytes)
  PROVE  Framing(items, wire.bytes, o, sn + n, gp, r.buf, hd \o Added(r.out))
<1> DEFINE w == wire.bytes
           data == [k \in 1 .. n |-> sn + k]
           z == sn + n
           new == hd \o Added(r.out)
<1>1. /\ gp \in Nat /\ gp <= sn /\ Vec(hd) /\ Recent(buf, sn, gp)
      /\ gp = 0 /\ (\A i \in 1 .. Len(items) : Truthful(items, i)) => Met(items, w, o, sn, buf, hd)
      /\ \A i, j \in Messages(items) :
           Heeded(items, i) /\ Earlier(items, i, j) /\ Calm(items, o, gp, j) => Due(items, w, o, sn, buf, hd, i, j)
  BY DEF Framing
<1>2. n \in Nat /\ z \in Nat /\ gp <= z
  BY <1>1, IngestAssumption
<1>3. Cuts(r, DOMAIN w)
  BY FeedCuts
<1>4. Vec(r.out) /\ Vec(buf) /\ r.buf \in Seq(DOMAIN w)
  BY <1>3, SeqVec DEF Cuts
<1>5. Vec(new)
  BY <1>1, <1>4, HeardStays, Zenon
<1>6. Recent(r.buf, z, gp)
  <2>1. PICK b : Joins(b, buf, sn, n)
    BY DEF Joins
  <2>2. b = buf \o data /\ Len(b) \in Nat
    BY <2>1 DEF Joins
  <2>3. EndOf(r.buf, b)
    BY <2>2, FeedCuts
  <2>4. r = IF Len(b) > MaxStreamBuf THEN [buf |-> <<>>, out |-> <<>>] ELSE Framed(b, w)
    <3>1. Len(b) \in Nat
      BY <2>2
    <3> QED
      BY <2>1, <3>1, FeedFits
  <2>5. CASE Len(b) > MaxStreamBuf
    <3>1. r.buf = <<>>
      BY <2>4, <2>5
    <3> QED
      <4>1. Len(r.buf) = 0 /\ Len(r.buf) <= MaxStreamBuf
        BY <3>1, ReasmAssumption
      <4>2. z = 0 => Len(r.buf) = 0
        BY <4>1
      <4>3. \A x \in 1 .. Len(r.buf) : FALSE
        BY <4>1
      <4> QED
        BY <4>1, <4>2, <4>3 DEF Recent
  <2>6. CASE Len(b) <= MaxStreamBuf
    <3>1. Recent(b, z, gp)
      BY <1>1, <1>2, <1>4, <2>1, <2>6, JoinRecent
    <3> HIDE DEF z
    <3> QED
      BY <1>2, <2>3, <3>1, EndRecent
  <2> QED
    BY <2>2, <2>5, <2>6, ReasmAssumption
<1>7. ASSUME gp = 0, \A i \in 1 .. Len(items) : Truthful(items, i) PROVE Met(items, w, o, z, r.buf, new)
  <2>1. Met(items, w, o, sn, buf, hd)
    BY <1>1, <1>7
  <2> QED
    BY <1>1, <1>7, <2>1, MetStep, Zenon
<1>8. ASSUME NEW i \in Messages(items), NEW j \in Messages(items), Heeded(items, i), Earlier(items, i, j),
             Calm(items, o, gp, j)
      PROVE  Due(items, w, o, z, r.buf, new, i, j)
  <2>1. i \in 1 .. Len(items)
    BY DEF Messages, Laid
  <2>2. Due(items, w, o, sn, buf, hd, i, j)
    BY <1>1, <1>8
  <2> QED
    BY <1>1, <1>4, <1>8, <2>1, <2>2, DueStep, Zenon
<1> HIDE DEF new, z
<1>9. Framing(items, w, o, z, gp, r.buf, new)
  BY <1>1, <1>2, <1>5, <1>6, <1>7, <1>8 DEF Framing
<1> QED
  BY <1>9 DEF new, z

-----------------------------------------------------------------------------
(* The inductive invariant: the buffer of the connection holds positions   *)
(* of it, and the correlator follows its history.                          *)
Connected ==
  /\ wire.bytes \in Seq(Byte(wire.items)) /\ sent \in Nat /\ sent <= Len(wire.bytes)
  /\ DOMAIN tcp = {"buf", "last"} /\ tcp.buf \in Seq(DOMAIN wire.bytes)
Budgeted == "rtcp" \in DOMAIN left /\ left.rtcp \in Int
IngestInv == Recalled(core, hist) /\ Connected /\ Budgeted

LEMMA ItemsPlain == ASSUME NEW items \in Connections \cup {<<>>} PROVE Plainly(items)
<1>1. Vec(items)
  BY IngestAssumption DEF Vec
<1> QED
  BY <1>1, IngestAssumption DEF Plainly

LEMMA InitInv == Init => IngestInv
<1> SUFFICES ASSUME Init PROVE IngestInv
  OBVIOUS
<1>1. /\ DOMAIN core = CoreFields /\ core.rr = Nothing /\ core.done = FALSE
      /\ core.streams = <<>> /\ core.turn = NewTurn /\ core.born = 0
  BY DEF Init, NewCore, CoreFields
<1>2. /\ DOMAIN hist = HistFields /\ hist.rr = {} /\ hist.flows = {} /\ hist.samples = <<>>
      /\ hist.evicted = FALSE /\ hist.pruned = FALSE /\ hist.alarms = {}
  BY DEF Init, NewHist, HistFields
<1>3. GoodTurn(core.turn) /\ Known(core.turn, hist)
  <2>1. /\ DOMAIN core.turn = TurnFields /\ core.turn.allocs = <<>> /\ core.turn.relays = {}
        /\ core.turn.servers = Configured
    BY <1>1 DEF NewTurn, TurnFields
  <2>2. DOMAIN core.turn.allocs = {}
    BY <2>1
  <2>3. IsFiniteSet({}) /\ IsFiniteSet(Configured)
    BY FS_EmptySet, IngestAssumption
  <2> QED
    BY <2>1, <2>2, <2>3 DEF GoodTurn, Known
<1>4. GoodStreams(core.streams, core.born) /\ Sampling(core.streams, hist.samples)
  BY <1>1, <1>2, NothingHeld
<1>5. Recalled(core, hist)
  BY <1>1, <1>2, <1>3, <1>4 DEF Recalled, Flowing, Justified, Routes
<1>6. Connected
  <2>1. PICK items \in Connections \cup {<<>>} : wire = [items |-> items, bytes |-> WireOf(items)]
    BY DEF Init
  <2>2. Plainly(items)
    BY ItemsPlain
  <2>3. wire.bytes \in Seq(Byte(wire.items))
    BY <2>1, <2>2, WireLaid
  <2>4. sent = 0 /\ tcp = [buf |-> <<>>, last |-> 0]
    BY DEF Init
  <2> QED
    BY <2>3, <2>4 DEF Connected
<1>7. Budgeted
  BY IngestAssumption DEF Init, Budgeted
<1> QED
  BY <1>5, <1>6, <1>7 DEF IngestInv

LEMMA SpendKeeps ==
  ASSUME Budgeted, NEW kind \in {"sip", "loss", "repeat", "rtp", "rtcp", "stun", "clear"}, Spend(kind)
  PROVE  Budgeted'
BY DEF Budgeted, Spend

(* n bytes of the connection *)
LEMMA SomeBytes ==
  ASSUME NEW n \in Nat, NEW from \in Nat, NEW items, wire.bytes \in Seq(Byte(items)),
         from + n <= Len(wire.bytes)
  PROVE  [i \in 1 .. n |-> from + i] \in Seq(DOMAIN wire.bytes)
<1> DEFINE P == DOMAIN wire.bytes
           data == [i \in 1 .. n |-> from + i]
<1>1. \A i \in 1 .. n : from + i \in P
  OBVIOUS
<1> HIDE DEF P
<1>2. data \in [1 .. n -> P]
  BY <1>1
<1> HIDE DEF data
<1>3. [1 .. n -> P] \in {[1 .. m -> P] : m \in Nat}
  OBVIOUS
<1>4. data \in UNION {[1 .. m -> P] : m \in Nat}
  BY <1>2, <1>3, Zenon
<1>5. data \in Seq(P)
  BY <1>4, SeqDef, Zenon
<1> QED
  BY <1>5 DEF data, P

LEMMA ReceiveKeeps ==
  ASSUME IngestInv, NEW data \in Seq(DOMAIN wire.bytes), Receive(data)
  PROVE  Recalled(core', hist') /\ DOMAIN tcp' = {"buf", "last"} /\ tcp'.buf \in Seq(DOMAIN wire.bytes)
<1> DEFINE P == DOMAIN wire.bytes
           r == Feed(tcp.buf, data, wire.bytes)
           done == FoldLeft(Heard, State, r.out)
<1>1. tcp' = [buf |-> r.buf, last |-> clock] /\ core' = done.core /\ hist' = done.hist
  BY DEF Receive
<1>2. wire.bytes \in Seq(Byte(wire.items)) /\ tcp.buf \in Seq(P)
  BY DEF IngestInv, Connected
<1>3. Cuts(r, P)
  BY <1>2, FeedCuts
<1> HIDE DEF r
<1>4. Recalled(done.core, done.hist)
  <2>1. Len(r.out) \in Nat /\ DOMAIN r.out = 1 .. Len(r.out)
    BY <1>3 DEF Cuts
  <2>2. Recalled(State.core, State.hist)
    BY DEF State, IngestInv
  <2> QED
    BY <2>1, <2>2, HeardRecalled
<1> HIDE DEF done
<1> QED
  BY <1>1, <1>3, <1>4 DEF Cuts

LEMMA SegmentKeeps ==
  ASSUME IngestInv, NEW n \in 1 .. MaxSegment, Segment(n) PROVE IngestInv'
<1> DEFINE data == [i \in 1 .. n |-> sent + i]
<1>1. sent + n <= Len(wire.bytes) /\ Receive(data) /\ sent' = sent + n /\ wire' = wire /\ left' = left
  BY DEF Segment
<1>2. n \in Nat /\ sent \in Nat /\ wire.bytes \in Seq(Byte(wire.items))
  BY IngestAssumption DEF IngestInv, Connected
<1>3. data \in Seq(DOMAIN wire.bytes)
  BY <1>1, <1>2, SomeBytes
<1> HIDE DEF data
<1>4. Recalled(core', hist') /\ DOMAIN tcp' = {"buf", "last"} /\ tcp'.buf \in Seq(DOMAIN wire.bytes)
  BY <1>1, <1>3, ReceiveKeeps
<1>5. Connected'
  BY <1>1, <1>2, <1>4 DEF Connected
<1> QED
  BY <1>1, <1>4, <1>5 DEF IngestInv, Budgeted

LEMMA RepeatedBytes ==
  ASSUME IngestInv, NEW n \in 1 .. MaxSegment, NEW from \in 0 .. sent, from + n <= sent
  PROVE  [i \in 1 .. n |-> from + i] \in Seq(DOMAIN wire.bytes)
<1>1. /\ n \in Nat /\ from \in Nat /\ sent \in Nat /\ wire.bytes \in Seq(Byte(wire.items))
      /\ from + n <= Len(wire.bytes)
  BY IngestAssumption DEF IngestInv, Connected
<1> QED
  BY <1>1, SomeBytes

LEMMA RepeatKeeps ==
  ASSUME IngestInv, NEW n \in 1 .. MaxSegment, NEW from \in 0 .. sent, Repeat(from, n) PROVE IngestInv'
<1> DEFINE data == [i \in 1 .. n |-> from + i]
<1>1. from + n <= sent /\ Receive(data) /\ sent' = sent /\ wire' = wire /\ Spend("repeat")
  BY DEF Repeat
<1>2. data \in Seq(DOMAIN wire.bytes)
  BY <1>1, RepeatedBytes
<1> HIDE DEF data
<1>3. Recalled(core', hist') /\ DOMAIN tcp' = {"buf", "last"} /\ tcp'.buf \in Seq(DOMAIN wire.bytes)
  BY <1>1, <1>2, ReceiveKeeps
<1>4. Connected'
  BY <1>1, <1>3 DEF Connected, IngestInv
<1>5. Budgeted'
  BY <1>1, SpendKeeps DEF IngestInv
<1> QED
  BY <1>3, <1>4, <1>5 DEF IngestInv

LEMMA NextInv == IngestInv /\ [Next]_vars => IngestInv'
<1> SUFFICES ASSUME IngestInv, [Next]_vars PROVE IngestInv'
  OBVIOUS
<1>1. Recalled(core, hist) /\ Connected /\ Budgeted
  BY DEF IngestInv
<1>2. TcpUnchanged => Connected'
  BY <1>1 DEF TcpUnchanged, Connected
<1>3. CASE \E m \in left.messages : SipDatagram(m)
  <2>1. PICK m \in left.messages : SipDatagram(m)
    BY <1>3
  <2>2. Recalled(State.core, State.hist)
    BY <1>1 DEF State
  <2>3. Recalled(core', hist')
    BY <2>1, <2>2, RecallStep DEF SipDatagram
  <2> QED
    BY <1>1, <1>2, <2>1, <2>3, SpendKeeps DEF SipDatagram, IngestInv
<1>4. CASE \E n \in 1 .. MaxSegment : Segment(n) \/ LoseSegment(n)
  <2>1. PICK n \in 1 .. MaxSegment : Segment(n) \/ LoseSegment(n)
    BY <1>4
  <2>2. CASE Segment(n)
    BY <2>2, SegmentKeeps
  <2>3. CASE LoseSegment(n)
    <3>1. Connected'
      BY <1>1, <2>3, IngestAssumption DEF LoseSegment, Connected
    <3>2. core' = core /\ hist' = hist /\ Budgeted'
      BY <1>1, <2>3, SpendKeeps DEF LoseSegment
    <3> QED
      BY <1>1, <3>1, <3>2 DEF IngestInv
  <2> QED
    BY <2>1, <2>2, <2>3
<1>5. CASE \E f \in Flows, s \in Ssrcs, pt \in left.pts, e \in left.encaps : Rtp(f, s, pt, e)
  <2>1. PICK f \in Flows, s \in Ssrcs, pt \in left.pts, e \in left.encaps : Rtp(f, s, pt, e)
    BY <1>5
  <2>2. Recalled(core', hist')
    BY <1>1, <2>1, RtpRecalled DEF Rtp
  <2> QED
    BY <1>1, <1>2, <2>1, <2>2, SpendKeeps DEF Rtp, IngestInv
<1>6. CASE \E r, s \in Ssrcs, field \in {"rtt", "oneway"} : Rtcp(r, s, field)
  <2>1. PICK r \in Ssrcs, s \in Ssrcs, field \in {"rtt", "oneway"} : Rtcp(r, s, field)
    BY <1>6
  <2>2. Recalled(core', hist')
    BY <1>1, <2>1, RtcpRecalled DEF Budgeted
  <2> QED
    BY <1>1, <1>2, <2>1, <2>2, SpendKeeps DEF Rtcp, IngestInv
<1>7. CASE \E x \in Stuns, s \in Ssrcs, pt \in left.pts : Stun(x[1], x[2], s, pt)
  <2>1. PICK x \in Stuns, s \in Ssrcs, pt \in left.pts : Stun(x[1], x[2], s, pt)
    BY <1>7
  <2>2. Recalled(core', hist')
    BY <1>1, <2>1, StunRecalled
  <2>3. Spend("stun") /\ TcpUnchanged
    BY <2>1 DEF Stun
  <2> QED
    BY <1>1, <1>2, <2>2, <2>3, SpendKeeps DEF IngestInv
<1>8. CASE Flush
  <2>1. Recalled(core', hist')
    BY <1>1, <1>8, FlushRecalled
  <2>2. /\ tcp' = [tcp EXCEPT !.buf = <<>>] \/ tcp' = tcp
        /\ wire' = wire /\ sent' = sent /\ left' = left
    BY <1>8 DEF Flush
  <2>3. DOMAIN tcp' = {"buf", "last"} /\ tcp'.buf \in {<<>>, tcp.buf}
    BY <1>1, <2>2 DEF Connected
  <2>4. <<>> \in Seq(DOMAIN wire.bytes)
    OBVIOUS
  <2>5. Connected'
    BY <1>1, <2>2, <2>3, <2>4 DEF Connected
  <2> QED
    BY <1>1, <2>1, <2>2, <2>5 DEF IngestInv, Budgeted
<1>9. CASE Clear
  <2>1. Recalled(core', hist')
    BY <1>1, <1>9, ClearRecalled
  <2> QED
    BY <1>1, <1>2, <1>9, <2>1, SpendKeeps DEF Clear, IngestInv
<1>10. CASE \E from \in 0 .. sent, n \in 1 .. MaxSegment : Repeat(from, n)
  BY <1>10, RepeatKeeps
<1>11. CASE UNCHANGED vars
  BY <1>1, <1>11 DEF vars, IngestInv, Connected, Budgeted
<1> QED
  BY <1>3, <1>4, <1>5, <1>6, <1>7, <1>8, <1>9, <1>10, <1>11 DEF Next

(* The correlator follows its history, whatever frames arrive              *)
(* (ingest_frame, maybe_periodic_flush, clear).                            *)
THEOREM IngestInvariant == Spec => []IngestInv
BY InitInv, NextInv, PTL DEF Spec

(* What was negotiated agrees with the descriptions of the history, and    *)
(* every description that may still come lists finitely many types.        *)
RateInv ==
  /\ Timed(core, hist)
  /\ \A i \in Messages(wire.items) : Described(wire.items[i])
  /\ "messages" \in DOMAIN left /\ \A m \in left.messages : Described(m)

LEMMA InitRates == Init => RateInv
<1> SUFFICES ASSUME Init PROVE RateInv
  OBVIOUS
<1>1. core.call = NoCall /\ core.endpoints = {} /\ core.streams = <<>> /\ hist.rates = <<>>
  <2> HIDE DEF NoCall
  <2> QED
    BY DEF Init, NewCore, NewHist
<1>2. Timed(core, hist)
  BY <1>1, GoneTimed
<1>3. PICK items \in Connections \cup {<<>>} : wire = [items |-> items, bytes |-> WireOf(items)]
  BY DEF Init
<1>4. wire.items = items
  BY <1>3
<1>5. left \in Scenes
  BY DEF Init
<1> QED
  BY <1>2, <1>4, <1>5, IngestAssumption DEF RateInv

LEMMA SpendRates ==
  ASSUME RateInv, NEW kind \in {"sip", "loss", "repeat", "rtp", "rtcp", "stun", "clear"}, Spend(kind)
  PROVE  "messages" \in DOMAIN left' /\ \A m \in left'.messages : Described(m)
<1>1. left' = [left EXCEPT ![kind] = @ - 1]
  BY DEF Spend
<1>2. "messages" \in DOMAIN left' /\ left'.messages = left.messages
  BY <1>1 DEF RateInv
<1> QED
  BY <1>2 DEF RateInv

LEMMA ReceiveRates ==
  ASSUME IngestInv, RateInv, NEW data \in Seq(DOMAIN wire.bytes), Receive(data) PROVE Timed(core', hist')
<1> DEFINE P == DOMAIN wire.bytes
           r == Feed(tcp.buf, data, wire.bytes)
           done == FoldLeft(Heard, State, r.out)
<1>1. core' = done.core /\ hist' = done.hist
  BY DEF Receive
<1>2. wire.bytes \in Seq(Byte(wire.items)) /\ tcp.buf \in Seq(P)
  BY DEF IngestInv, Connected
<1>3. Cuts(r, P)
  BY <1>2, FeedCuts
<1> HIDE DEF r
<1>4. Len(r.out) \in Nat /\ DOMAIN r.out = 1 .. Len(r.out)
  BY <1>3 DEF Cuts
<1>5. ASSUME NEW i \in 1 .. Len(r.out), Starts(r.out[i]) PROVE Described(Parsed(r.out[i]))
  <2>1. r.out[i] \in Seq(P) /\ r.out[i] # <<>>
    BY <1>3 DEF Cuts
  <2> QED
    BY <1>2, <1>5, <2>1, ParsedDescribed DEF RateInv
<1>6. Timed(done.core, done.hist)
  <2>1. Recalled(State.core, State.hist) /\ Timed(State.core, State.hist)
    BY DEF State, IngestInv, RateInv
  <2> QED
    BY <1>4, <1>5, <2>1, HeardTimed
<1> HIDE DEF done
<1> QED
  BY <1>1, <1>6

LEMMA SegmentRates ==
  ASSUME IngestInv, RateInv, NEW n \in 1 .. MaxSegment, Segment(n) PROVE RateInv'
<1> DEFINE data == [i \in 1 .. n |-> sent + i]
<1>1. sent + n <= Len(wire.bytes) /\ Receive(data) /\ wire' = wire /\ left' = left
  BY DEF Segment
<1>2. n \in Nat /\ sent \in Nat /\ wire.bytes \in Seq(Byte(wire.items))
  BY IngestAssumption DEF IngestInv, Connected
<1>3. data \in Seq(DOMAIN wire.bytes)
  BY <1>1, <1>2, SomeBytes
<1> HIDE DEF data
<1>4. Timed(core', hist')
  BY <1>1, <1>3, ReceiveRates
<1> QED
  BY <1>1, <1>4 DEF RateInv

LEMMA NextRates == IngestInv /\ RateInv /\ [Next]_vars => RateInv'
<1> SUFFICES ASSUME IngestInv, RateInv, [Next]_vars PROVE RateInv'
  OBVIOUS
<1>1. /\ Recalled(core, hist) /\ Timed(core, hist)
      /\ DOMAIN core = CoreFields /\ DOMAIN hist = HistFields /\ WellFormed(core.streams)
  BY DEF IngestInv, RateInv, Recalled, GoodStreams
<1>2. TcpUnchanged => wire' = wire
  BY DEF TcpUnchanged
<1>3. ASSUME NEW kind \in {"sip", "loss", "repeat", "rtp", "rtcp", "stun", "clear"}, Spend(kind),
             wire' = wire, Timed(core', hist')
      PROVE  RateInv'
  BY <1>3, SpendRates DEF RateInv
<1>4. CASE \E m \in left.messages : SipDatagram(m)
  <2>1. PICK m \in left.messages : SipDatagram(m)
    BY <1>4
  <2>2. State.core = core /\ State.hist = hist /\ Described(m)
    BY DEF State, RateInv
  <2>3. Timed(core', hist')
    BY <1>1, <2>1, <2>2, RecallTimed DEF SipDatagram
  <2> QED
    BY <1>2, <1>3, <2>1, <2>3 DEF SipDatagram
<1>5. CASE \E n \in 1 .. MaxSegment : Segment(n) \/ LoseSegment(n)
  <2>1. PICK n \in 1 .. MaxSegment : Segment(n) \/ LoseSegment(n)
    BY <1>5
  <2>2. CASE Segment(n)
    BY <2>2, SegmentRates
  <2>3. CASE LoseSegment(n)
    <3>1. core' = core /\ hist' = hist /\ wire' = wire /\ Spend("loss")
      BY <2>3 DEF LoseSegment
    <3> QED
      BY <1>1, <1>3, <3>1
  <2> QED
    BY <2>1, <2>2, <2>3
<1>6. CASE \E f \in Flows, s \in Ssrcs, pt \in left.pts, e \in left.encaps : Rtp(f, s, pt, e)
  <2>1. PICK f \in Flows, s \in Ssrcs, pt \in left.pts, e \in left.encaps : Rtp(f, s, pt, e)
    BY <1>6
  <2>2. Timed(core', hist')
    BY <1>1, <2>1, RtpTimed DEF Rtp
  <2> QED
    BY <1>2, <1>3, <2>1, <2>2 DEF Rtp
<1>7. CASE \E r, s \in Ssrcs, field \in {"rtt", "oneway"} : Rtcp(r, s, field)
  <2>1. PICK r \in Ssrcs, s \in Ssrcs, field \in {"rtt", "oneway"} : Rtcp(r, s, field)
    BY <1>7
  <2>2. Timed(core', hist')
    BY <1>1, <2>1, RtcpTimed
  <2> QED
    BY <1>2, <1>3, <2>1, <2>2 DEF Rtcp
<1>8. CASE \E x \in Stuns, s \in Ssrcs, pt \in left.pts : Stun(x[1], x[2], s, pt)
  <2>1. PICK x \in Stuns, s \in Ssrcs, pt \in left.pts : Stun(x[1], x[2], s, pt)
    BY <1>8
  <2>2. Timed(core', hist')
    BY <1>1, <2>1, StunTimed
  <2>3. Spend("stun") /\ TcpUnchanged
    BY <2>1 DEF Stun
  <2> QED
    BY <1>2, <1>3, <2>2, <2>3
<1>9. CASE Flush
  <2>1. Timed(core', hist')
    BY <1>1, <1>9, FlushTimed
  <2>2. wire' = wire /\ left' = left
    BY <1>9 DEF Flush
  <2> QED
    BY <2>1, <2>2 DEF RateInv
<1>10. CASE Clear
  <2>1. Timed(core', hist')
    BY <1>10, ClearTimed
  <2> QED
    BY <1>2, <1>3, <1>10, <2>1 DEF Clear
<1>11. CASE \E from \in 0 .. sent, n \in 1 .. MaxSegment : Repeat(from, n)
  <2>1. PICK from \in 0 .. sent, n \in 1 .. MaxSegment : Repeat(from, n)
    BY <1>11
  <2> DEFINE data == [i \in 1 .. n |-> from + i]
  <2>2. from + n <= sent /\ Receive(data) /\ wire' = wire /\ Spend("repeat")
    BY <2>1 DEF Repeat
  <2>3. data \in Seq(DOMAIN wire.bytes)
    BY <2>2, RepeatedBytes
  <2> HIDE DEF data
  <2>4. Timed(core', hist')
    BY <2>2, <2>3, ReceiveRates
  <2> QED
    BY <1>3, <2>2, <2>4
<1>12. CASE UNCHANGED vars
  BY <1>12 DEF vars, RateInv
<1> QED
  BY <1>4, <1>5, <1>6, <1>7, <1>8, <1>9, <1>10, <1>11, <1>12 DEF Next

(* The framing of the connection, for items that fit into the buffer *)
FrameInv ==
  /\ Plainly(wire.items) /\ Laid(wire.items, wire.bytes, EndsOf(wire.items)) /\ Roomy(wire.items)
  /\ Framing(wire.items, wire.bytes, EndsOf(wire.items), sent, gap, tcp.buf, heard)

LEMMA InitFrames ==
  ASSUME Init, \A items \in Connections : Roomy(items) PROVE FrameInv
<1>1. PICK items \in Connections \cup {<<>>} : wire = [items |-> items, bytes |-> WireOf(items)]
  BY DEF Init
<1>2. wire.items = items /\ wire.bytes = WireOf(items)
  BY <1>1
<1>3. sent = 0 /\ gap = 0 /\ tcp.buf = <<>> /\ heard = <<>>
  BY DEF Init
<1>4. Plainly(items) /\ Roomy(items)
  BY ItemsPlain DEF Roomy
<1>5. Laid(items, wire.bytes, EndsOf(items))
  BY <1>2, <1>4, WireLaid
<1>6. Framing(items, wire.bytes, EndsOf(items), 0, 0, <<>>, <<>>)
  BY <1>5, FramingStarts
<1> QED
  BY <1>2, <1>3, <1>4, <1>5, <1>6 DEF FrameInv

LEMMA SegmentFrames ==
  ASSUME IngestInv, FrameInv, NEW n \in 1 .. MaxSegment, Segment(n) PROVE FrameInv'
<1> DEFINE items == wire.items
           o == EndsOf(items)
           data == [k \in 1 .. n |-> sent + k]
           r == Feed(tcp.buf, data, wire.bytes)
<1>1. /\ sent + n <= Len(wire.bytes) /\ wire' = wire /\ gap' = gap /\ sent' = sent + n
      /\ tcp' = [buf |-> r.buf, last |-> clock]
      /\ heard' = heard \o Added(r.out)
  BY DEF Segment, Receive, Added, Sips
<1>2. n \in Nat /\ sent \in Nat /\ wire.bytes \in Seq(Byte(wire.items)) /\ tcp.buf \in Seq(DOMAIN wire.bytes)
  BY IngestAssumption DEF IngestInv, Connected
<1>3. data \in Seq(DOMAIN wire.bytes)
  BY <1>1, <1>2, SomeBytes
<1>4. tcp'.buf = r.buf
  BY <1>1
<1>5. /\ Plainly(items) /\ Laid(items, wire.bytes, o) /\ Roomy(items)
      /\ Framing(items, wire.bytes, o, sent, gap, tcp.buf, heard)
  BY DEF FrameInv
<1> HIDE DEF o, items
<1>6. Framing(items, wire.bytes, o, sent + n, gap, r.buf, heard \o Added(r.out))
  <2>1. wire.bytes \in Seq(Byte(items))
    BY <1>2 DEF items
  <2> QED
    BY <1>1, <1>2, <1>3, <1>5, <2>1, FramingStep, Zenon
<1> HIDE DEF r
<1> QED
  BY <1>1, <1>4, <1>5, <1>6 DEF FrameInv, items, o

LEMMA LostFrames ==
  ASSUME IngestInv, FrameInv, NEW n \in 1 .. MaxSegment, LoseSegment(n) PROVE FrameInv'
<1> DEFINE z == sent + n
<1>1. wire' = wire /\ tcp' = tcp /\ heard' = heard /\ sent' = z /\ gap' = z
  BY DEF LoseSegment
<1>2. z \in Nat /\ z # 0 /\ tcp.buf \in Seq(DOMAIN wire.bytes)
  BY IngestAssumption DEF IngestInv, Connected
<1>3. Len(tcp.buf) \in Nat
  BY <1>2
<1>4. /\ Len(tcp.buf) <= MaxStreamBuf /\ Vec(heard)
      /\ Laid(wire.items, wire.bytes, EndsOf(wire.items))
  BY DEF FrameInv, Framing, Recent
<1> HIDE DEF z
<1>6. Framing(wire.items, wire.bytes, EndsOf(wire.items), z, z, tcp.buf, heard)
  BY <1>2, <1>3, <1>4, FramingLost
<1> QED
  BY <1>1, <1>6 DEF FrameInv

LEMMA RepeatFrames ==
  ASSUME IngestInv, FrameInv, NEW n \in 1 .. MaxSegment, NEW from \in 0 .. sent, Repeat(from, n)
  PROVE  FrameInv'
<1> DEFINE data == [k \in 1 .. n |-> from + k]
           b == tcp.buf \o data
           r == Feed(tcp.buf, data, wire.bytes)
<1>1. /\ from + n <= sent /\ wire' = wire /\ gap' = sent /\ sent' = sent
      /\ tcp' = [buf |-> r.buf, last |-> clock]
      /\ heard' = heard \o Added(r.out)
  BY DEF Repeat, Receive, Added, Sips
<1>2. /\ n \in Nat /\ n > 0 /\ from \in Nat /\ sent \in Nat
      /\ wire.bytes \in Seq(Byte(wire.items)) /\ tcp.buf \in Seq(DOMAIN wire.bytes)
  BY IngestAssumption DEF IngestInv, Connected
<1>3. data \in Seq(DOMAIN wire.bytes)
  BY <1>1, RepeatedBytes
<1>4. sent # 0
  BY <1>1, <1>2
<1>5. tcp'.buf = r.buf
  BY <1>1
<1> HIDE DEF data
<1>6. Cuts(r, DOMAIN wire.bytes) /\ EndOf(r.buf, b) /\ Len(b) \in Nat
  BY <1>2, <1>3, FeedCuts
<1>7. r = IF Len(b) > MaxStreamBuf THEN [buf |-> <<>>, out |-> <<>>] ELSE Framed(b, wire.bytes)
  BY DEF Feed, Overflow
<1> HIDE DEF b
<1>8. Len(r.buf) \in Nat /\ Len(r.buf) <= MaxStreamBuf
  <2>1. CASE Len(b) > MaxStreamBuf
    <3>1. r.buf = <<>>
      BY <1>7, <2>1
    <3> HIDE DEF r
    <3> QED
      BY <3>1, ReasmAssumption
  <2>2. CASE ~(Len(b) > MaxStreamBuf)
    <3> HIDE DEF r
    <3> QED
      BY <1>6, <2>2, ReasmAssumption DEF EndOf
  <2> QED
    BY <2>1, <2>2
<1> HIDE DEF r
<1>9. Vec(heard) /\ Laid(wire.items, wire.bytes, EndsOf(wire.items))
  BY DEF FrameInv, Framing
<1>10. Vec(r.out)
  BY <1>6, SeqVec DEF Cuts
<1>11. Vec(heard \o Added(r.out))
  BY <1>9, <1>10, HeardStays
<1>12. Framing(wire.items, wire.bytes, EndsOf(wire.items), sent, sent, r.buf, heard \o Added(r.out))
  BY <1>2, <1>4, <1>8, <1>9, <1>11, FramingLost
<1> QED
  BY <1>1, <1>5, <1>12 DEF FrameInv

(* What idleness drops counts as lost. *)
LEMMA FlushFrames ==
  ASSUME IngestInv, FrameInv, Flush PROVE FrameInv'
<1> DEFINE idle == tcp.buf # <<>> /\ clock' - tcp.last >= IdleUs
           items == wire.items
           o == EndsOf(items)
<1>1. /\ wire' = wire /\ heard' = heard /\ sent' = sent
      /\ tcp' = IF idle THEN [tcp EXCEPT !.buf = <<>>] ELSE tcp
      /\ gap' = IF idle THEN sent ELSE gap
  BY Zenon DEF Flush
<1>2. sent \in Nat /\ DOMAIN tcp = {"buf", "last"} /\ tcp.buf \in Seq(DOMAIN wire.bytes)
  BY DEF IngestInv, Connected
<1>3. CASE ~idle
  BY <1>1, <1>3 DEF FrameInv
<1>4. CASE idle
  <2>1. tcp.buf # <<>>
    BY <1>4
  <2>2. tcp'.buf = <<>> /\ gap' = sent
    BY <1>1, <1>2, <1>4
  <2>3. Laid(items, wire.bytes, o) /\ Framing(items, wire.bytes, o, sent, gap, tcp.buf, heard)
    BY DEF FrameInv
  <2>4. Vec(heard)
    BY <2>3 DEF Framing
  <2>5. sent # 0
    <3> SUFFICES ASSUME sent = 0 PROVE FALSE
      OBVIOUS
    <3>1. Len(tcp.buf) = 0
      BY <2>3 DEF Framing, Recent
    <3> QED
      BY <1>2, <2>1, <3>1
  <2>6. Framing(items, wire.bytes, o, sent, sent, <<>>, heard)
    <3>1. Len(<<>>) = 0 /\ 0 \in Nat /\ 0 <= MaxStreamBuf
      BY ReasmAssumption
    <3> QED
      BY <1>2, <2>3, <2>4, <2>5, <3>1, FramingLost
  <2> QED
    BY <1>1, <2>2, <2>6 DEF FrameInv
<1> QED
  BY <1>3, <1>4

LEMMA NextFrames == IngestInv /\ FrameInv /\ [Next]_vars => FrameInv'
<1> SUFFICES ASSUME IngestInv, FrameInv, [Next]_vars PROVE FrameInv'
  OBVIOUS
<1>1. ASSUME UNCHANGED <<wire, sent, tcp, heard, gap>> PROVE FrameInv'
  BY <1>1 DEF FrameInv
<1>2. CASE \E n \in 1 .. MaxSegment : Segment(n) \/ LoseSegment(n)
  BY <1>2, SegmentFrames, LostFrames
<1>3. CASE Flush
  BY <1>3, FlushFrames
<1>4. CASE \/ \E m \in left.messages : SipDatagram(m)
           \/ \E f \in Flows, s \in Ssrcs, pt \in left.pts, e \in left.encaps : Rtp(f, s, pt, e)
           \/ \E r, s \in Ssrcs, field \in {"rtt", "oneway"} : Rtcp(r, s, field)
           \/ \E x \in Stuns, s \in Ssrcs, pt \in left.pts : Stun(x[1], x[2], s, pt)
           \/ Clear
  <2>1. TcpUnchanged
    BY <1>4 DEF SipDatagram, Rtp, Rtcp, Stun, Clear
  <2> QED
    BY <1>1, <2>1 DEF TcpUnchanged
<1>5. CASE \E from \in 0 .. sent, n \in 1 .. MaxSegment : Repeat(from, n)
  BY <1>5, RepeatFrames
<1>6. CASE UNCHANGED vars
  BY <1>1, <1>6 DEF vars
<1> QED
  BY <1>2, <1>3, <1>4, <1>5, <1>6 DEF Next

(* The properties in terms of the ends of the items *)
LEMMA EndsAre ==
  ASSUME Laid(wire.items, wire.bytes, EndsOf(wire.items)), NEW i \in 1 .. Len(wire.items)
  PROVE  LET o == EndsOf(wire.items)
         IN /\ i - 1 \in 0 .. Len(wire.items) /\ i \in 0 .. Len(wire.items)
            /\ o[i - 1] \in Nat /\ o[i] \in Nat /\ o[i - 1] < o[i]
            /\ Begin(i) = o[i - 1] + 1 /\ End(i) = o[i]
            /\ Real = {k \in 1 .. Len(wire.items) : wire.items[k] # Nothing}
<1> DEFINE o == EndsOf(wire.items)
           N == Len(wire.items)
<1>1. N \in Nat /\ DOMAIN wire.items = 1 .. N /\ \A k \in 0 .. N : o[k] \in Nat
  BY DEF Laid
<1>2. i - 1 \in 0 .. N /\ i \in 0 .. N
  BY <1>1
<1>3. \A k \in 0 .. N : o[k] = Len(Until(wire.items, k))
  BY DEF EndsOf
<1>4. End(i) = o[i] /\ Begin(i) = o[i - 1] + 1
  BY <1>2, <1>3 DEF End, Begin, Until
<1>5. o[i] >= o[i - 1] + 2
  BY DEF Laid
<1>6. Real = {k \in 1 .. N : wire.items[k] # Nothing}
  BY <1>1 DEF Real, Messages
<1> HIDE DEF o, N
<1>7. o[i - 1] \in Nat /\ o[i] \in Nat /\ o[i - 1] < o[i]
  BY <1>1, <1>2, <1>5
<1> QED
  BY <1>2, <1>4, <1>6, <1>7 DEF o, N

LEMMA HeardWhole ==
  ASSUME IngestInv, FrameInv PROVE FramedExactly
<1> DEFINE items == wire.items
           o == EndsOf(items)
           N == Len(items)
<1>1. /\ Plainly(items) /\ Laid(items, wire.bytes, o)
      /\ Framing(items, wire.bytes, o, sent, gap, tcp.buf, heard)
  BY DEF FrameInv
<1>2. N \in Nat /\ DOMAIN items = 1 .. N /\ sent \in Nat /\ sent <= Len(wire.bytes) /\ o[N] = Len(wire.bytes)
      /\ \A k \in 0 .. N : o[k] \in Nat
  BY <1>1 DEF Laid, IngestInv, Connected
<1>3. \A i \in 1 .. N : End(i) = o[i]
  BY <1>1, EndsAre
<1>4. \A j, k \in 0 .. N : j < k => o[j] < o[k]
  BY <1>1, LaidOrder
<1>5. \A i \in Real : i \in 1 .. N /\ i \in 0 .. N
  BY <1>2 DEF Real, Messages
<1> HIDE DEF o
<1> SUFFICES ASSUME gap = 0, \A i \in Real : Honest(i)
             PROVE  ToSet(heard) = {i \in Clean : End(i) <= sent} /\ Rising(heard)
  BY DEF FramedExactly, Rising
<1>6. ASSUME NEW i \in 1 .. N PROVE Truthful(items, i)
  <2>1. items[i] # Nothing => Honest(i)
    BY <1>2 DEF Real, Messages
  <2> QED
    BY <2>1 DEF Truthful, Honest
<1>7. Met(items, wire.bytes, o, sent, tcp.buf, heard)
  BY <1>1, <1>6 DEF Framing
<1>8. PICK j \in 0 .. N : /\ o[j] <= sent /\ Idle(wire.bytes, o[j], sent)
                          /\ HeardTo(items, heard, j)
  BY <1>7 DEF Met
<1>9. ToSet(heard) = {i \in Clean : i <= j} /\ Rising(heard)
  <2>1. \A i \in Real : Heeded(items, i) <=> i \in Clean
    BY DEF Heeded, Clean, Real, Messages
  <2>2. \A i \in Clean : i \in Real
    BY DEF Clean
  <2>3. ToSet(heard) = {i \in Real : Heeded(items, i) /\ i <= j} /\ Rising(heard)
    BY <1>8 DEF HeardTo, Real
  <2> QED
    BY <2>1, <2>2, <2>3
<1>10. ASSUME NEW i \in Real PROVE i <= j <=> End(i) <= sent
  <2>1. i \in 1 .. N /\ i \in 0 .. N /\ End(i) = o[i] /\ o[i] \in Nat /\ o[j] \in Nat
    BY <1>2, <1>3, <1>5
  <2>2. CASE i <= j
    <3>1. i = j \/ i < j
      BY <1>2, <2>1, <2>2
    <3>2. i < j => o[i] < o[j]
      BY <1>4, <2>1
    <3> QED
      BY <1>2, <1>8, <2>1, <2>2, <3>1, <3>2
  <2>3. CASE ~(i <= j)
    <3> DEFINE h == j + 1
    <3>1. h \in 1 .. N /\ h \in 0 .. N /\ h - 1 = j /\ (h = i \/ h < i)
      BY <1>2, <2>1, <2>3
    <3> HIDE DEF h
    <3>2. CutsAt(wire.bytes, o[h - 1], o[h])
      BY <1>1, <1>6, <3>1, LaidCut
    <3>3. o[h] \in Nat
      BY <1>2, <3>1
    <3>4. sent < o[h]
      BY <1>2, <1>8, <2>1, <3>1, <3>2, <3>3, IdleBefore
    <3>5. h < i => o[h] < o[i]
      BY <1>4, <2>1, <3>1
    <3> QED
      BY <1>2, <2>1, <2>3, <3>1, <3>3, <3>4, <3>5
  <2> QED
    BY <2>2, <2>3
<1>11. \A i \in Clean : i \in Real
  BY DEF Clean
<1> QED
  BY <1>9, <1>10, <1>11

LEMMA HeardAgain ==
  ASSUME IngestInv, FrameInv PROVE Resyncs
<1> DEFINE items == wire.items
           o == EndsOf(items)
           N == Len(items)
<1>1. /\ Plainly(items) /\ Laid(items, wire.bytes, o) /\ Roomy(items)
      /\ Framing(items, wire.bytes, o, sent, gap, tcp.buf, heard)
  BY DEF FrameInv
<1>2. /\ N \in Nat /\ DOMAIN items = 1 .. N /\ sent \in Nat /\ gap \in Nat
      /\ \A k \in 0 .. N : o[k] \in Nat
  BY <1>1 DEF Laid, IngestInv, Connected, Framing
<1>3. \A i \in 1 .. N : End(i) = o[i] /\ Begin(i) = o[i - 1] + 1 /\ i - 1 \in 0 .. N /\ i \in 0 .. N /\ o[i - 1] < o[i]
  BY <1>1, EndsAre
<1>4. \A i \in Real : i \in 1 .. N /\ i \in Messages(items)
  BY <1>2 DEF Real, Messages
<1> HIDE DEF o
<1> SUFFICES ASSUME NEW i \in Clean, NEW j \in Real, j < i, Settled(Begin(j)), End(i) <= sent
             PROVE  i \in ToSet(heard)
  BY DEF Resyncs
<1>5. /\ i \in Real /\ Heeded(items, i)
      /\ i \in 1 .. N /\ i \in Messages(items) /\ o[i] \in Nat /\ End(i) = o[i]
      /\ j \in 1 .. N /\ j \in Messages(items) /\ o[j - 1] \in Nat /\ o[j] \in Nat /\ o[j - 1] < o[j]
      /\ Begin(j) = o[j - 1] + 1 /\ o[j - 1] < o[i]
  <2>1. i \in Real /\ Heeded(items, i)
    BY DEF Clean, Heeded, Real, Messages
  <2>2. i \in 1 .. N /\ i \in Messages(items) /\ j \in 1 .. N /\ j \in Messages(items)
    BY <1>4, <2>1
  <2>3. i \in 0 .. N /\ j \in 0 .. N /\ j - 1 \in 0 .. N
    BY <1>3, <2>2
  <2>4. o[j] < o[i]
    BY <1>1, <2>3, LaidOrder
  <2>5. o[j - 1] < o[j] /\ Begin(j) = o[j - 1] + 1 /\ End(i) = o[i]
    BY <1>3, <2>2
  <2>6. o[j - 1] \in Nat /\ o[j] \in Nat /\ o[i] \in Nat
    BY <1>2, <2>3
  <2> QED
    BY <2>1, <2>2, <2>4, <2>5, <2>6
<1>6. MaxStreamBuf \in Nat /\ Horizon = 2 * MaxStreamBuf
  BY ReasmAssumption DEF Horizon
<1>7. /\ o[j - 1] >= gap + 2 * MaxStreamBuf
      /\ \A d \in Real : Honest(d) \/ o[j - 1] + 1 > End(d) + 2 * MaxStreamBuf
  BY <1>2, <1>5, <1>6 DEF Settled
<1>8. ASSUME NEW d \in 1 .. N PROVE Truthful(items, d) \/ o[j - 1] >= o[d] + 2 * MaxStreamBuf
  <2>1. items[d] # Nothing => Honest(d) \/ o[j - 1] + 1 > o[d] + 2 * MaxStreamBuf
    BY <1>2, <1>3, <1>7 DEF Real, Messages
  <2>2. o[d] \in Nat
    BY <1>2, <1>3
  <2>3. items[d] # Nothing => Honest(d) \/ o[j - 1] >= o[d] + 2 * MaxStreamBuf
    BY <1>5, <1>6, <2>1, <2>2
  <2> QED
    BY <2>3 DEF Truthful, Honest
<1>9. Calm(items, o, gap, j) /\ Earlier(items, i, j)
  BY <1>5, <1>7, <1>8 DEF Calm, Earlier
<1>10. Due(items, wire.bytes, o, sent, tcp.buf, heard, i, j)
  BY <1>1, <1>5, <1>9 DEF Framing
<1>11. ~(sent + MaxStreamBuf <= o[j - 1])
  BY <1>2, <1>5, <1>6
<1>12. ~Waits(items, wire.bytes, o, sent, tcp.buf, i)
  <2> SUFFICES ASSUME Waits(items, wire.bytes, o, sent, tcp.buf, i) PROVE FALSE
    OBVIOUS
  <2>1. PICK p \in Nat : p <= sent /\ Idle(wire.bytes, p, sent) /\ Past(items, o, p) /\ Reaches(items, o, i, p)
    BY DEF Waits
  <2>2. PICK c \in Nat : Follow(items, wire.bytes, o, i, p, c)
    BY <1>1, <1>5, <2>1, NextCut
  <2>3. CutsAt(wire.bytes, p, c) /\ c <= o[i]
    BY <2>2 DEF Follow
  <2>4. sent < c
    BY <1>2, <2>1, <2>3, IdleBefore
  <2> QED
    BY <1>2, <1>5, <2>3, <2>4
<1> QED
  BY <1>10, <1>11, <1>12 DEF Due

(* SIP over TCP is cut into its messages exactly while no bytes are lost   *)
(* or repeated, and again soon after a fault (but for one more message),   *)
(* for any messages, keep-alives of one or two line ends, wrong            *)
(* Content-Lengths, cuts into segments, losses, retransmitted and          *)
(* reordered segments, as long as two messages and a segment fit into the  *)
(* buffer (MAX_STREAM_BUF, 1 MiB), so that a frame begun in the middle of  *)
(* a message can end (TcpReassembler::feed).                               *)
THEOREM StreamsAlwaysFramed ==
  ASSUME \A items \in Connections : \A i \in 1 .. Len(items) :
           2 * Len(Item(items, i)) + MaxSegment <= MaxStreamBuf + 2
  PROVE  Spec => []StreamsFramed
<1>1. Init => FrameInv
  BY InitFrames DEF Roomy
<1>2. IngestInv /\ FrameInv => StreamsFramed
  BY HeardWhole, HeardAgain DEF StreamsFramed
<1> QED
  BY <1>1, <1>2, NextFrames, IngestInvariant, PTL DEF Spec

(* A stream that kept its payload type is measured with the clock rate of  *)
(* the first description that listed it, for any descriptions and any      *)
(* order of offer, answer and media (ingest_sip, apply_sdp_clocks,         *)
(* ingest_rtp).                                                            *)
THEOREM RatesAlwaysFollowSdp == Spec => []RatesFollowSdp
<1>1. RateInv => RatesFollowSdp
  <2> SUFFICES ASSUME RateInv, NEW k \in DOMAIN core.streams \ hist.switched
               PROVE  LET s == core.streams[k]
                      IN s.rate = RateOf(hist.rates, s.pt)
    BY DEF RatesFollowSdp, RateOf
  <2>1. OnClock(core.streams[k], NegOf(core)) /\ Agreed(NegOf(core), hist.rates)
    BY DEF RateInv, Timed, Measured
  <2> QED
    BY <2>1 DEF OnClock, Agreed
<1> QED
  BY <1>1, InitRates, NextRates, IngestInvariant, PTL DEF Spec

(* ONE_WAY_MEDIA is about a call without RTP both ways, for any traffic    *)
(* (check_oneway_at_teardown).                                             *)
THEOREM OneWayAlarmsSound == Spec => []OneWayIsOneWay
<1>1. IngestInv => OneWayIsOneWay
  BY DEF IngestInv, Recalled, Justified, OneWayIsOneWay
<1> QED
  BY <1>1, IngestInvariant, PTL

(* A request inside a dialog draws RR_NOT_HONORED only if an INVITE        *)
(* carried Record-Route since the call entered the table, and always if    *)
(* all did, for any messages, and any number of calls removed and begun    *)
(* again under the Call-ID (check_record_route, prune_removed_bookkeeping).*)
THEOREM RouteAlarmsSound == Spec => []RouteWarningsSound
<1>1. IngestInv => RouteWarningsSound
  BY DEF IngestInv, Recalled, Justified, RouteWarningsSound
<1> QED
  BY <1>1, IngestInvariant, PTL

(* The relay of every allocation is known until pruning, for any STUN      *)
(* traffic (TurnTracker::ingest).                                          *)
THEOREM RelaysAlwaysKnown == Spec => []RelaysKnown
<1>1. IngestInv => RelaysKnown
  <2> SUFFICES ASSUME IngestInv, ~hist.pruned
               PROVE  \A c \in DOMAIN core.turn.allocs :
                        core.turn.allocs[c].relayed \in core.turn.relays \cup {Nothing}
    BY DEF RelaysKnown
  <2>1. hist.pruned = FALSE
    BY Zenon DEF IngestInv, Recalled
  <2> QED
    BY <2>1 DEF IngestInv, Recalled, Known
<1> QED
  BY <1>1, IngestInvariant, PTL

(* A stream holds the newest round trips, for any capacity of its history  *)
(* (ingest_rtcp).                                                          *)
THEOREM SamplesAlwaysNewest == Spec => []SamplesNewest
<1>1. IngestInv => SamplesNewest
  BY DEF IngestInv, Recalled, Sampling, SamplesNewest, Newest
<1> QED
  BY <1>1, IngestInvariant, PTL

(* Maintenance bounds the tables, however large they had grown (prune,     *)
(* evict_if_needed).                                                       *)
THEOREM MaintenanceAlwaysBounds == Spec => MaintenanceBounds
<1> DEFINE Bound == clock' # clock =>
       /\ Cardinality(DOMAIN core'.turn.allocs) <= MaxAllocs
       /\ Cardinality(core'.turn.relays) <= MaxRelays
       /\ Cardinality(core'.turn.servers) <= MaxServers
       /\ Cardinality(DOMAIN core'.streams) <= MaxStreams
<1>1. IngestInv /\ [Next]_vars => [Bound]_vars
  <2> SUFFICES ASSUME IngestInv, Next, clock' # clock PROVE Bound
    OBVIOUS
  <2>1. Flush
    BY DEF Next, SipDatagram, Segment, Repeat, LoseSegment, Rtp, Rtcp, Stun, Clear
  <2> QED
    BY <2>1, FlushRecalled DEF IngestInv
<1> QED
  BY <1>1, IngestInvariant, PTL DEF Spec, MaintenanceBounds
=============================================================================

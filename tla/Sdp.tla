-------------------------------- MODULE Sdp ---------------------------------
(***************************************************************************)
(* What a call learns from session descriptions (SdpSession in             *)
(* src/src/decode/sdp.rs, NegotiatedMedia in src/src/model/media.rs, the   *)
(* learning in ingest_sip, src/src/correlate/mod.rs).                      *)
(*                                                                         *)
(* A session is [ip, media]; a media line is [port, formats, ip, map] with *)
(* the payload types of its rtpmap lines mapped to [name, rate].           *)
(***************************************************************************)
EXTENDS Integers, SequencesExt, Sums, Option

(* endpoints: port 0 is a refused line, the line's address comes first *)
Endpoints(s) ==
  {<<IF m.ip # Nothing THEN m.ip ELSE s.ip, m.port>> :
     m \in {x \in ToSet(s.media) : x.port # 0 /\ (x.ip # Nothing \/ s.ip # Nothing)}}

(* payload_types: sorted, each once *)
Formats(s) == UNION {ToSet(m.formats) : m \in ToSet(s.media)}
PayloadTypes(s) ==
  LET all == Formats(s)
      Below(pt) == {x \in all : x < pt}
  IN [i \in 1 .. Cardinality(all) |-> CHOOSE pt \in all : Cardinality(Below(pt)) = i - 1]

StaticCodec(pt) ==
  CASE pt = 0 -> "PCMU"
    [] pt = 8 -> "PCMA"
    [] pt = 9 -> "G.722"
    [] pt = 18 -> "G.729"
    [] pt \in {4, 15, 16} -> "G.723"
    [] pt = 13 -> "CN"
    [] pt \in {97, 98, 111, 112, 115} -> "OPUS"
    [] pt = 101 -> "telephone-event"
    [] OTHER -> Nothing

(* rtp_clock_rate_for_payload_type *)
DefaultRate(pt) == IF pt \in 96 .. 127 THEN 48000 ELSE 8000

(* The first media line with an rtpmap for the payload type *)
Mapped(s, pt) == {i \in DOMAIN s.media : pt \in DOMAIN s.media[i].map}
FirstMap(s, pt) == s.media[CHOOSE i \in Mapped(s, pt) : \A j \in Mapped(s, pt) : i <= j].map[pt]
CodecName(s, pt) == IF Mapped(s, pt) = {} THEN StaticCodec(pt) ELSE FirstMap(s, pt).name
ClockRate(s, pt) == IF Mapped(s, pt) = {} THEN DefaultRate(pt) ELSE FirstMap(s, pt).rate

NoMedia == [endpoints |-> {}, pts |-> <<>>, codecs |-> <<>>, rates |-> <<>>]

(* What one session offers; payload types without a name have no codec *)
Offered(s) ==
  LET pts == PayloadTypes(s)
      names == [i \in DOMAIN pts |-> CodecName(s, pts[i])]
  IN [endpoints |-> Endpoints(s), pts |-> pts, codecs |-> Only(names, ToSet(names) \ {Nothing}),
      rates |-> [i \in DOMAIN pts |-> ClockRate(s, pts[i])]]

(* NegotiatedMedia::clock_rate_for_pt, and the codec of a new stream *)
Position(seq, x) == IF x \in ToSet(seq) THEN CHOOSE i \in DOMAIN seq :
                        seq[i] = x /\ \A j \in 1 .. (i - 1) : seq[j] # x ELSE 0
RateFor(n, pt) ==
  LET i == Position(n.pts, pt)
  IN IF i \in DOMAIN n.rates /\ n.rates[i] > 0 THEN n.rates[i] ELSE DefaultRate(pt)
CodecFor(n, pt) ==
  LET i == Position(n.pts, pt) IN IF i \in DOMAIN n.codecs THEN n.codecs[i] ELSE Nothing

(* Appends what is not there yet *)
Joined(seq, new) == seq \o Only(new, ToSet(new) \ ToSet(seq))

(* Mutant: a rate is appended for every payload type of the answer *)
MergedRates(old, n) ==
  [endpoints |-> old.endpoints \cup n.endpoints, pts |-> Joined(old.pts, n.pts),
   codecs |-> Joined(old.codecs, n.codecs), rates |-> old.rates \o n.rates]

(* An answer is merged into the offer; what is known stays *)
Merged(old, n) ==
  LET pts == Joined(old.pts, n.pts)
  IN [endpoints |-> old.endpoints \cup n.endpoints, pts |-> pts,
      codecs |-> Joined(old.codecs, n.codecs),
      rates |-> old.rates \o
        [i \in 1 .. (Len(pts) - Len(old.pts)) |-> RateFor(n, pts[Len(old.pts) + i])]]

Negotiate(old, n) == IF old.pts = <<>> THEN n ELSE Merged(old, n)
=============================================================================

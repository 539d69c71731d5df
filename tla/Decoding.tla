------------------------------ MODULE Decoding -------------------------------
(***************************************************************************)
(* The parts of sipmon that read what others wrote, each against what was  *)
(* written: the bodies of the event log (EvlogCodec), captured frames      *)
(* (Frame), UDP payloads (Demux, with Rtcp and Stun) and the messages of a *)
(* bridged call on the detail page (Ladder).                               *)
(*                                                                         *)
(* `input` is what was sent, `seen` what the reader holds.  Bytes get lost *)
(* at the end (a capture's snap length, a torn write), so a reader is      *)
(* asked about every prefix; the messages of a call are captured one by    *)
(* one, in any order and not all of them.                                  *)
(***************************************************************************)
EXTENDS EvlogCodec, Frame, Demux, Ladder

CONSTANTS Bodies,      \* events of the log: [event, layout], see Body
          Frames,      \* frames on the wire, see FrameBytes
          Datagrams,   \* UDP payloads, see DatagramBytes
          Scenes       \* bridged calls, see Messages

VARIABLES topic, input, seen
vars == <<topic, input, seen>>

Field16(n) == <<n \div 256, n % 256>>
Field24(n) == LET u == IF n < 0 THEN n + 16777216 ELSE n
              IN <<u \div 65536>> \o Field16(u % 65536)
Zeros(n) == [i \in 1 .. n |-> 0]
Prefix(s, n) == SubSeq(s, 1, IF n < Len(s) THEN n ELSE Len(s))

-----------------------------------------------------------------------------
(* A log body: a StreamSnap of an old log lacks the extension *)
Body(i) == Encode(IF i.layout = "old" THEN OldSnap(i.event) ELSE i.event)
Written(i) ==
  IF i.layout = "old" THEN OldSnap(i.event).fields \o OldDefaults ELSE i.event.fields

(* A frame: link, VLAN tags, IP version, IP options (words), protocol,     *)
(* fragment offset, whether the length fields are filled in (segmentation  *)
(* offload leaves them 0), TCP options (words), payload, link padding      *)
Ip4Hosts == [src |-> <<10, 0, 0, 1>>, dst |-> <<10, 0, 0, 2>>]
Ip6Hosts == [src |-> Zeros(15) \o <<1>>, dst |-> Zeros(15) \o <<2>>]
Hosts(f) == IF f.version = 4 THEN Ip4Hosts ELSE Ip6Hosts
LengthField(f, n) == IF f.sized THEN Field16(n) ELSE Field16(0)

TransportHeader(f) ==
  CASE f.proto = 17 -> Field16(5060) \o Field16(5062) \o LengthField(f, 8 + Len(f.payload)) \o Zeros(2)
    [] f.proto = 6  -> Field16(5060) \o Field16(5062) \o Zeros(8) \o <<16 * (5 + f.tcpOptions)>>
                         \o Zeros(7 + 4 * f.tcpOptions)
    [] OTHER        -> Zeros(8)
NetworkHeader(f) ==
  LET len == Len(TransportHeader(f)) + Len(f.payload)
  IN IF f.version = 4
       THEN <<64 + 5 + f.options, 0>> \o LengthField(f, 20 + 4 * f.options + len) \o Zeros(2)
              \o Field16(f.fragment) \o <<64, f.proto>> \o Zeros(2)
              \o Hosts(f).src \o Hosts(f).dst \o Zeros(4 * f.options)
       ELSE <<96, 0, 0, 0>> \o LengthField(f, len) \o <<f.proto, 64>> \o Hosts(f).src \o Hosts(f).dst
LinkHeader(f) ==
  LET ethertype == IF f.version = 4 THEN Field16(2048) ELSE Field16(34525)
  IN CASE f.link = DLT.en10mb -> Zeros(12)
                                   \o FlattenSeq([i \in 1 .. f.tags |-> <<129, 0, 0, 7>>])
                                   \o ethertype
       [] f.link = DLT.sll    -> Zeros(14) \o ethertype
       [] f.link = DLT.sll2   -> ethertype \o Zeros(18)
       [] f.link = DLT.raw    -> <<>>
       [] OTHER               -> <<2, 0, 0, 0>>
Headers(f) == LinkHeader(f) \o NetworkHeader(f) \o TransportHeader(f)
FrameBytes(f) == Headers(f) \o f.payload \o Zeros(f.padding)

(* A UDP payload: RTP, an RTCP compound, SIP, a STUN message or ChannelData *)
BlockBytes(b) ==
  b.ssrc \o <<b.fraction_lost>> \o Field24(b.cumulative_lost) \o b.highest_seq \o b.jitter
    \o b.lsr \o b.dlsr
MemberBytes(m) ==
  LET body == CASE m.type = "sr"    -> m.ssrc \o m.sender \o FlattenSeq([i \in DOMAIN m.reports |->
                                                                        BlockBytes(m.reports[i])])
                [] m.type = "rr"    -> m.ssrc \o FlattenSeq([i \in DOMAIN m.reports |->
                                                            BlockBytes(m.reports[i])])
                [] m.type = "other" -> Zeros(4)
                [] m.type = "empty" -> <<>>
      pt == CASE m.type = "sr" -> 200 [] m.type = "rr" -> 201 [] OTHER -> m.pt
      count == IF m.type \in {"sr", "rr"} THEN Len(m.reports) ELSE 0
  IN <<128 + count, pt>> \o Field16(Len(body) \div 4) \o body
MediaBytes(d) ==
  CASE d.kind = "rtp"  -> <<128, d.header.payload_type + 128 * d.marker>>
                            \o Field16(d.header.sequence_number)
                            \o d.header.timestamp \o d.header.ssrc \o <<213, 85, 85>>
    [] d.kind = "rtcp" -> FlattenSeq([i \in DOMAIN d.members |-> MemberBytes(d.members[i])])

AttrBytes(typ, value) ==
  Field16(typ) \o Field16(Len(value)) \o value \o Zeros((4 - (Len(value) % 4)) % 4)
AddressBytes(a, txn) ==
  <<0, IF Len(a.ip) = 4 THEN 1 ELSE 2>> \o Xored(a.port, MAGIC_COOKIE)
    \o Xored(a.ip, MAGIC_COOKIE \o txn)
(* The attributes that are present, after a user name of any length *)
StunBody(d) ==
  LET One(v, typ, bytes) == IF v = <<>> THEN <<>> ELSE AttrBytes(typ, bytes)
      f == d.fields
  IN AttrBytes(6, Zeros(d.user))
       \o One(f.error, ATTR.error, <<0, 0, f.error[1] \div 100, f.error[1] % 100>>)
       \o One(f.channel, ATTR.channel, Field16(f.channel[1]) \o Zeros(2))
       \o One(f.lifetime, ATTR.lifetime, f.lifetime[1])
       \o One(f.relayed, ATTR.relayed, AddressBytes(f.relayed[1], d.txn))
       \o One(f.peer, ATTR.peer, AddressBytes(f.peer[1], d.txn))
       \o One(f.data, ATTR.data, f.data[1])
(* RFC 5389: the two class bits sit at 4 and 8 of the type *)
StunType(method, class) ==
  LET c == CHOOSE n \in 0 .. 3 : <<"request", "indication", "success", "error">>[n + 1] = class
  IN (method % 16) + 16 * (c % 2) + 32 * (method \div 16) + 256 * (c \div 2)
DatagramBytes(d) ==
  CASE d.kind \in {"rtp", "rtcp"} -> MediaBytes(d)
    [] d.kind = "sip"     -> d.start \o <<115, 105, 112, 58, 97, 64, 98>>
    [] d.kind = "stun"    -> Field16(StunType(d.method, d.class)) \o Field16(Len(StunBody(d)))
                               \o MAGIC_COOKIE \o d.txn \o StunBody(d)
    [] d.kind = "channel" -> <<64, 1>> \o Field16(Len(MediaBytes(d.inner))) \o MediaBytes(d.inner)

(* A bridged call: A calls the box P, which calls B from another port.  B  *)
(* may share A's address (behind one NAT), send from a second address, and *)
(* hang up with its own tag as From tag.                                   *)
HostA == [ip |-> "a", port |-> 1]
BoxA == [ip |-> "p", port |-> 1]
BoxB == [ip |-> "p", port |-> 2]
HostB(s) == IF s.nat THEN [ip |-> "a", port |-> 2] ELSE [ip |-> "b", port |-> 1]
Stranger == [ip |-> "c", port |-> 1]
Messages(s) ==
  LET M(src, dst, tag, invite) ==
        [src |-> src, dst |-> dst, fromTag |-> tag, branch |-> Nothing, invite |-> invite]
  IN {M(HostA, BoxA, "x", TRUE), M(BoxA, HostA, "x", FALSE),
      M(BoxB, HostB(s), "y", TRUE), M(HostB(s), BoxB, "y", FALSE), M(Stranger, BoxB, "y", FALSE)}
     \cup (IF s.calleeEnds THEN {M(HostB(s), BoxB, "z", FALSE)} ELSE {})
OfA(m) == m.fromTag = "x"
Stamped(m, ts) == m @@ [ts |-> ts]

-----------------------------------------------------------------------------
Init ==
  \/ topic = "log" /\ input \in Bodies /\ seen = Body(input)
  \/ topic = "frame" /\ input \in Frames /\ seen = FrameBytes(input)
  \/ topic = "datagram" /\ input \in Datagrams /\ seen = DatagramBytes(input)
  \/ topic = "ladder" /\ input \in Scenes /\ seen = <<>>

(* The end of what was written is lost *)
Truncate ==
  /\ topic # "ladder" /\ seen # <<>>
  /\ seen' = Front(seen)
  /\ UNCHANGED <<topic, input>>

(* Another message of the call is captured *)
Capture ==
  /\ topic = "ladder"
  /\ \E m \in Messages(input) :
       /\ \A i \in DOMAIN seen : seen[i] # Stamped(m, seen[i].ts)
       /\ seen' = Append(seen, Stamped(m, Len(seen) + 1))
  /\ UNCHANGED <<topic, input>>

Next == Truncate \/ Capture
Spec == Init /\ [][Next]_vars

-----------------------------------------------------------------------------
Whole == seen = Body(input)

(* Every event survives the log: decode_payload gives back each field that *)
(* encode_event_payload wrote, with the defaults for a log older than the  *)
(* StreamSnap extension, and consumes the body to its last byte.           *)
RoundTrip(d) == Whole => d.ok /\ d.fields = Written(input) /\ d.rest = <<>>

(* A body cut short is never taken for a whole event: decode_payload fails *)
(* on every proper prefix, except that a StreamSnap cut exactly before its *)
(* extension reads as one of an older log.                                 *)
TruncationDetected(d) ==
  ~Whole /\ d.ok
    => input.event.ty = 4 /\ input.layout = "current" /\ seen = Encode(OldSnap(input.event))

(* The three StreamSnap decoders and the two of RtcpRtt agree: whatever    *)
(* body decode_payload accepts, replay and stats accept, and they read the *)
(* same fields from it.                                                    *)
SnapsAgree(d, summary, lite) ==
  d.ok => /\ summary.ok /\ summary.fields = d.fields
          /\ lite.ok /\ SubSeq(lite.fields, 1, 19) = SubSeq(d.fields, 1, 19)
RttAgrees(d, rtt) == d.ok => rtt.ok /\ rtt.fields = SubSeq(d.fields, 1, 3)
DecodersAgree(d) ==
  /\ input.event.ty = 4 => \A summary \in {StreamSummary(seen)}, lite \in {StreamSnapLite(seen)} :
                             SnapsAgree(d, summary, lite)
  /\ input.event.ty = 5 => \A rtt \in {RtcpRtt(seen)} : RttAgrees(d, rtt)

(* Whatever prefix of a record's body a reader of the event log is handed, *)
(* it recovers the event or reports an error, and the decoders of query,   *)
(* replay and stats do not disagree about it.                              *)
BodiesRecovered ==
  topic = "log" => \A d \in {DecodePayload(input.event.ty, seen)} :
                     RoundTrip(d) /\ TruncationDetected(d) /\ DecodersAgree(d)

(* decode takes from a frame the flow and exactly the payload that was     *)
(* sent: up to two VLAN tags and all options are stepped over, link        *)
(* padding never becomes payload, a frame cut by the snap length yields    *)
(* what is left of the payload, and one cut inside the headers nothing.    *)
FramesExact ==
  topic = "frame" =>
    LET f == input
        left == Len(seen) - Len(Headers(f))
        known == f.tags <= 2 /\ f.proto \in {6, 17} /\ f.fragment = 0
        sent == <<IF f.proto = 17 THEN "udp" ELSE "tcp", Hosts(f).src, 5060, Hosts(f).dst, 5062>>
        d == Decode(f.link, seen)
    IN IF known /\ left >= 0 THEN d = Hit(sent, Prefix(f.payload, left))
                             ELSE d.kind # "hit"

(* What a datagram should deliver when its first n bytes were captured *)
MediaDeliveries(d, n, via) ==
  CASE d.kind = "rtp" -> IF n >= 12 THEN <<Delivery("rtp", via, d.header)>> ELSE <<>>
    [] d.kind = "rtcp" ->
         LET End(k) == Len(FlattenSeq([i \in 1 .. k |-> MemberBytes(d.members[i])]))
             fit == {k \in DOMAIN d.members : End(k) <= n}
             heard == SelectSeq(SubSeq(d.members, 1, Cardinality(fit)),
                                LAMBDA m : m.type # "empty")
         IN Deliveries("rtcp", via, heard)
Due(d, n) ==
  LET whole == n = Len(DatagramBytes(d))
  IN CASE d.kind \in {"rtp", "rtcp"} -> MediaDeliveries(d, n, "direct")
       [] d.kind = "sip"     -> IF n >= 8 /\ n >= Len(d.start)
                                  THEN <<Delivery("sip", "direct", seen)>> ELSE <<>>
       [] d.kind = "stun"    ->
            IF ~whole THEN <<>>
              ELSE <<Delivery("turn", "direct", [method |-> d.method, class |-> d.class,
                                                 txn_id |-> d.txn, fields |-> d.fields])>>
                     \o (IF d.inner = Nothing THEN <<>>
                           ELSE MediaDeliveries(d.inner, Len(MediaBytes(d.inner)), "indication"))
       [] d.kind = "channel" ->
            IF whole THEN MediaDeliveries(d.inner, Len(MediaBytes(d.inner)), "channel") ELSE <<>>
ReadOut(x) ==
  IF x.to # "turn" THEN x
    ELSE [x EXCEPT !.what = [method |-> @.method, class |-> @.class, txn_id |-> @.txn_id,
                             fields |-> Accessors(@)]]

(* The media of a datagram that look like RTCP: classify takes a second    *)
(* byte of 200 to 207, which is a marker and a payload type of 72 to 79    *)
(* (RFC 5761 keeps RTP from using them), for the packet type of RTCP.      *)
Inner(d) == IF d.kind \in {"stun", "channel"} THEN d.inner ELSE d
Disguised(d) ==
  Inner(d) # Nothing /\ Inner(d).kind = "rtp" /\ Inner(d).marker = 1
    /\ Inner(d).header.payload_type \in 72 .. 79
Without(to, deliveries) == SelectSeq(deliveries, LAMBDA x : x.to # to)

(* handle_udp hands each datagram to the handler of its protocol, with     *)
(* every field that was sent: RTP whatever its payload type and marker,    *)
(* except a marked packet of type 72 to 79, which never arrives as RTP and *)
(* may arrive as RTCP; every whole member of an RTCP compound; SIP         *)
(* although its first letters look like ChannelData; the attributes of a   *)
(* STUN message behind padding of any length; and the media inside TURN.   *)
(* A datagram cut short never turns into another protocol's, and with      *)
(* no_media only SIP is heard.                                             *)
DatagramsDelivered ==
  topic = "datagram" =>
    LET heard == HandleUdp(FALSE, seen)
        read == [i \in DOMAIN heard |-> ReadOut(heard[i])]
        sipOnly == HandleUdp(TRUE, seen)
    IN /\ IF Disguised(input)
            THEN Without("rtcp", read) = Without("rtp", Due(input, Len(seen)))
            ELSE read = Due(input, Len(seen))
       /\ sipOnly = IF input.kind = "sip" THEN Due(input, Len(seen)) ELSE <<>>

(* The page of a bridged call, from any of its messages captured in any    *)
(* order: the three columns are caller, box and callee even when the       *)
(* callee's dialog was captured first or both phones share an address,     *)
(* every arrow runs from the sender's column to the receiver's, and the    *)
(* box named in the header is the one in the middle.  One exception: a     *)
(* message from an address without a column is placed by the number of its *)
(* leg, and leg 0 is the dialog captured first; when that is the callee's, *)
(* its message leaves the caller's column.  Three columns are there as     *)
(* soon as both INVITEs were captured, unless a third From tag or a second *)
(* shared address makes the box ambiguous.                                 *)
LadderFollowsFlow ==
  topic = "ladder" =>
    LET s == input
        f == FocusDetail(IF s.linked THEN SelectSeq(seen, OfA) ELSE seen,
                         IF s.linked THEN SelectSeq(seen, LAMBDA m : ~OfA(m)) ELSE Nothing)
        local == IF s.local THEN <<"q", "p">> ELSE <<>>
        ln == ClassifyLanes(f, local)
        column(a) == CASE a = HostA -> 0 [] a \in {BoxA, BoxB} -> 1 [] OTHER -> 2
        invites == {f.msgs[i].fromTag : i \in {j \in DOMAIN f.msgs : f.msgs[j].invite}}
        tags == {f.msgs[i].fromTag : i \in DOMAIN f.msgs}
        callerFirst == s.linked \/ OfA(f.msgs[1])
    IN /\ (ln # Nothing =>
            /\ ln = [a_remote |-> HostA, pbx |-> "p", b_remote |-> HostB(s)]
            /\ \A i \in DOMAIN f.msgs :
                 ResolvePartyPair(f.msgs[i], Parties(f, local), f.legs[i])
                   = IF f.msgs[i].src = Stranger /\ ~callerFirst THEN <<0, 1>>
                       ELSE <<column(f.msgs[i].src), column(f.msgs[i].dst)>>
            /\ CommonFlowIp(f) \in {Nothing, "p"})
       /\ (invites = {"x", "y"} /\ (s.linked \/ "z" \notin tags) /\ (s.local \/ ~s.nat)
             => ln # Nothing)
=============================================================================

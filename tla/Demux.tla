-------------------------------- MODULE Demux --------------------------------
(***************************************************************************)
(* Which handler a UDP payload reaches: handle_udp and dispatch_media of   *)
(* src/src/correlate/mod.rs.  A delivery is the handler (to), the          *)
(* encapsulation (via) and the parsed message (what); a datagram yields a  *)
(* sequence of deliveries.                                                 *)
(***************************************************************************)
EXTENDS Rtcp, Stun

Delivery(to, via, what) == [to |-> to, via |-> via, what |-> what]
Deliveries(to, via, msgs) == [i \in DOMAIN msgs |-> Delivery(to, via, msgs[i])]

(* looks_like_sip: SIP/ or a method and a space, in ASCII *)
SipStarts ==
  { <<83, 73, 80, 47>>, <<73, 78, 86, 73, 84, 69, 32>>, <<65, 67, 75, 32>>,
    <<66, 89, 69, 32>>, <<67, 65, 78, 67, 69, 76, 32>>,
    <<82, 69, 71, 73, 83, 84, 69, 82, 32>>, <<79, 80, 84, 73, 79, 78, 83, 32>>,
    <<80, 82, 65, 67, 75, 32>>, <<85, 80, 68, 65, 84, 69, 32>>,
    <<83, 85, 66, 83, 67, 82, 73, 66, 69, 32>>, <<78, 79, 84, 73, 70, 89, 32>>,
    <<80, 85, 66, 76, 73, 83, 72, 32>>, <<73, 78, 70, 79, 32>>,
    <<82, 69, 70, 69, 82, 32>>, <<77, 69, 83, 83, 65, 71, 69, 32>> }
LooksLikeSip(b) == Len(b) >= 8 /\ \E s \in SipStarts : IsPrefix(s, b)

DispatchMedia(b, via) ==
  CASE Classify(b) = "rtp"   -> Deliveries("rtp", via, ParseRtpHeader(b))
    [] Classify(b) = "rtcp"  -> Deliveries("rtcp", via, ParseAll(b))
    [] Classify(b) = "other" -> <<>>

(* The part of TurnTracker::ingest that hands media back *)
Carried(msg) ==
  IF msg.class = "indication" /\ msg.method \in {METHOD.send, METHOD.data}
    THEN DataPayload(msg) ELSE <<>>
ToTurn(b) ==
  LET msgs == Parse(b)
      media == IF msgs = <<>> THEN <<>> ELSE Carried(msgs[1])
  IN Deliveries("turn", "direct", msgs)
       \o (IF media = <<>> THEN <<>> ELSE DispatchMedia(media[1], "indication"))

HandleUdp(no_media, b) ==
  LET inner == ChannelDataPayload(b)
  IN IF ~no_media /\ Classify(b) # "other" THEN DispatchMedia(b, "direct")
       ELSE IF LooksLikeSip(b) THEN <<Delivery("sip", "direct", b)>>
       ELSE IF no_media THEN <<>>
       ELSE IF IsStun(b) THEN ToTurn(b)
       ELSE IF inner # <<>> THEN DispatchMedia(inner[1], "channel")
       ELSE <<>>
=============================================================================

-------------------------------- MODULE Frame --------------------------------
(***************************************************************************)
(* From a captured frame to a flow and an L4 payload: decode and the fast  *)
(* path of src/src/decode/frame.rs.  The etherparse crate, which takes     *)
(* what the fast path does not (unknown link types, IPv6 extension         *)
(* headers), is external and appears as the result Fallback.               *)
(***************************************************************************)
EXTENDS Bytes

LOCAL Result(kind) == [kind |-> kind, flow |-> <<>>, payload |-> <<>>]
Miss == Result("miss")
Fallback == Result("fallback")
Hit(flow, payload) == [kind |-> "hit", flow |-> flow, payload |-> payload]

DLT == [null |-> 0, en10mb |-> 1, raw |-> 12, loop |-> 108, sll |-> 113, sll2 |-> 276]

(* parse_l4: UDP trusts its length field when it fits, TCP steps over its  *)
(* options                                                                 *)
Udp(src, dst, b) ==
  LET ulen == Be16(b, 4)
      end == IF ulen >= 8 /\ ulen <= Len(b) THEN ulen ELSE Len(b)
  IN IF Len(b) < 8 THEN Miss
       ELSE Hit(<<"udp", src, Be16(b, 0), dst, Be16(b, 2)>>, Slice(b, 8, end))
Tcp(src, dst, b) ==
  LET doff == 4 * (At(b, 12) \div 16)
  IN IF Len(b) < 20 THEN Miss
       ELSE IF doff < 20 \/ Len(b) < doff THEN Miss
       ELSE Hit(<<"tcp", src, Be16(b, 0), dst, Be16(b, 2)>>, From(b, doff))
ParseL4(proto, src, dst, b) ==
  CASE proto = 17 -> Udp(src, dst, b)
    [] proto = 6  -> Tcp(src, dst, b)
    [] OTHER      -> Miss

(* Mutant: the total length is not used to cut the link's padding *)
Ipv4EndUncut(b, ihl) == Len(b)

(* parse_ipv4: a total length that cannot be right (0 after segmentation   *)
(* offload, or past a cut frame) gives way to the end of the frame         *)
Ipv4End(b, ihl) ==
  LET total == Be16(b, 2) IN IF total >= ihl /\ total <= Len(b) THEN total ELSE Len(b)
ParseIpv4(b) ==
  LET ihl == 4 * (At(b, 0) % 16)
  IN IF Len(b) < 20 THEN Miss
       ELSE IF ihl < 20 \/ Len(b) < ihl \/ Be16(b, 6) % 8192 # 0 THEN Miss
       ELSE ParseL4(At(b, 9), Slice(b, 12, 16), Slice(b, 16, 20), Slice(b, ihl, Ipv4End(b, ihl)))

(* parse_ipv6: extension headers go to etherparse, ICMPv6 nowhere *)
ParseIpv6(b) ==
  LET next == At(b, 6)
      len == Be16(b, 4)
      end == IF len > 0 /\ 40 + len < Len(b) THEN 40 + len ELSE Len(b)
  IN IF Len(b) < 40 \/ next = 58 THEN Miss
       ELSE IF next \notin {6, 17} THEN Fallback
       ELSE ParseL4(next, Slice(b, 8, 24), Slice(b, 24, 40), Slice(b, 40, end))

(* The IP packet behind the link header, <<>> for a Miss (decode_fast      *)
(* misses an empty packet too)                                             *)
EthertypePayload(ethertype, rest) == IF ethertype \in {2048, 34525} THEN rest ELSE <<>>

VlanTags == {33024, 34984, 37120}   \* 0x8100, 0x88a8, 0x9100
EthernetPayload(b) ==
  LET Type(n) == Be16(b, 12 + 4 * n)
      Whole(n) == Len(b) >= 14 + 4 * n
      tags == CASE ~Whole(0) \/ Type(0) \notin VlanTags  -> 0
                [] ~Whole(1) \/ Type(1) \notin VlanTags  -> 1
                [] OTHER                                 -> 2
  IN IF Whole(tags) THEN EthertypePayload(Type(tags), From(b, 14 + 4 * tags)) ELSE <<>>

L2Payload(linktype, b) ==
  CASE linktype \in {DLT.null, DLT.loop} -> From(b, 4)
    [] linktype = DLT.en10mb             -> EthernetPayload(b)
    [] linktype = DLT.raw                -> b
    [] linktype = DLT.sll                -> IF Len(b) < 16 THEN <<>>
                                              ELSE EthertypePayload(Be16(b, 14), From(b, 16))
    [] linktype = DLT.sll2               -> IF Len(b) < 20 THEN <<>>
                                              ELSE EthertypePayload(Be16(b, 0), From(b, 20))

Decode(linktype, b) ==
  LET ip == L2Payload(linktype, b)
  IN IF linktype \notin Range(DLT) THEN Fallback
       ELSE IF ip = <<>> THEN Miss
       ELSE CASE At(ip, 0) \div 16 = 4 -> ParseIpv4(ip)
              [] At(ip, 0) \div 16 = 6 -> ParseIpv6(ip)
              [] OTHER                 -> Miss
=============================================================================

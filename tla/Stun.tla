-------------------------------- MODULE Stun ---------------------------------
(***************************************************************************)
(* STUN and TURN datagrams: src/src/decode/stun.rs.  An attribute is       *)
(* [typ, value]; an accessor yields no or one value, as a sequence.        *)
(***************************************************************************)
EXTENDS Bytes, Bitwise

MAGIC_COOKIE == <<33, 18, 164, 66>>
ATTR == [error |-> 9, channel |-> 12, lifetime |-> 13, peer |-> 18, data |-> 19,
         relayed |-> 22, mapped |-> 32]
METHOD == [binding |-> 1, allocate |-> 3, refresh |-> 4, send |-> 6, data |-> 7,
           channelBind |-> 9]

IsStun(b) == Len(b) >= 20 /\ Slice(b, 4, 8) = MAGIC_COOKIE
IsChannelData(b) == Len(b) >= 4 /\ At(b, 0) \div 64 = 1

(* channel_data_payload *)
ChannelDataPayload(b) ==
  LET len == Be16(b, 2)
  IN IF IsChannelData(b) /\ 4 + len <= Len(b) THEN <<Slice(b, 4, 4 + len)>> ELSE <<>>

(* The class bits sit between the bits of the method *)
StunMethod(typ) == (typ % 16) + 16 * ((typ \div 32) % 8)
StunClass(typ) ==
  LET c == 2 * ((typ \div 256) % 2) + ((typ \div 16) % 2)
  IN <<"request", "indication", "success", "error">>[c + 1]

(* Mutant: the walk does not step over the padding of a value *)
StrideUnpadded(alen) == 4 + alen

(* An attribute takes its header and its value, padded to four bytes *)
Stride(alen) == 4 + 4 * ((alen + 3) \div 4)

Parse(b) ==
  LET end == 20 + Be16(b, 2)
      Walk[off \in 20 .. end + 3] ==
        IF off + 4 > end THEN <<>>
          ELSE IF off + 4 + Be16(b, off + 2) > end THEN <<>>
          ELSE <<[typ |-> Be16(b, off), value |-> Slice(b, off + 4, off + 4 + Be16(b, off + 2))]>>
                 \o Walk[off + Stride(Be16(b, off + 2))]
  IN IF ~IsStun(b) THEN <<>>
       ELSE IF end > Len(b) THEN <<>>
       ELSE <<[method |-> StunMethod(Be16(b, 0)), class |-> StunClass(Be16(b, 0)),
               txn_id |-> Slice(b, 8, 20), attrs |-> Walk[20]]>>

-----------------------------------------------------------------------------
(* StunAttribute: the value of an attribute of the right type and length *)
Sized(a, typ, n) == a.typ = typ /\ Len(a.value) >= n
ErrorCode(a) ==
  IF Sized(a, ATTR.error, 4) THEN <<100 * At(a.value, 2) + At(a.value, 3)>> ELSE <<>>
ChannelNumber(a) == IF Sized(a, ATTR.channel, 4) THEN <<Be16(a.value, 0)>> ELSE <<>>
Lifetime(a) == IF Sized(a, ATTR.lifetime, 4) THEN <<Slice(a.value, 0, 4)>> ELSE <<>>
Data(a) == IF a.typ = ATTR.data THEN <<a.value>> ELSE <<>>

(* xor_address: the port against the cookie, the octets against the cookie *)
(* and the transaction id                                                  *)
Xored(b, key) == [i \in DOMAIN b |-> b[i] ^^ key[i]]
XorAddress(a, txn_id) ==
  LET octets == CASE At(a.value, 1) = 1 -> 4 [] At(a.value, 1) = 2 -> 16 [] OTHER -> 0
  IN IF a.typ \notin {ATTR.mapped, ATTR.relayed, ATTR.peer} \/ Len(a.value) < 4 THEN <<>>
       ELSE IF octets = 0 \/ Len(a.value) < 4 + octets THEN <<>>
       ELSE <<[ip |-> Xored(Slice(a.value, 4, 4 + octets), MAGIC_COOKIE \o txn_id),
               port |-> Xored(Slice(a.value, 2, 4), MAGIC_COOKIE)]>>

(* StunMessage: find_map takes the first attribute that has a value, the   *)
(* address accessors the first attribute of the type                       *)
FindMap(values) ==
  LET found == FlattenSeq(values) IN IF found = <<>> THEN <<>> ELSE <<found[1]>>
DataPayload(msg) == FindMap([i \in DOMAIN msg.attrs |-> Data(msg.attrs[i])])
AddressOf(msg, typ) ==
  LET Typed(a) == a.typ = typ
      found == SelectSeq(msg.attrs, Typed)
  IN IF found = <<>> THEN <<>> ELSE XorAddress(found[1], msg.txn_id)

Accessors(msg) ==
  LET attrs == msg.attrs
  IN [error |-> FindMap([i \in DOMAIN attrs |-> ErrorCode(attrs[i])]),
      channel |-> FindMap([i \in DOMAIN attrs |-> ChannelNumber(attrs[i])]),
      lifetime |-> FindMap([i \in DOMAIN attrs |-> Lifetime(attrs[i])]),
      data |-> DataPayload(msg),
      relayed |-> AddressOf(msg, ATTR.relayed), peer |-> AddressOf(msg, ATTR.peer)]
=============================================================================

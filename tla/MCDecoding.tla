----------------------------- MODULE MCDecoding -----------------------------
(* What TLC lets be written, for Decoding *)
EXTENDS Decoding

(* For every event type one event whose optional fields are all None, one  *)
(* where all are set, and two that alternate; strings are empty, short or  *)
(* longer than one group of a varint can say.  The value of a field        *)
(* depends on its place, so that fields taken in the wrong order are told  *)
(* apart.                                                                  *)
Octets(i, n) == [j \in 1 .. n |-> (i + j) % 8]
Text(i, v) == Octets(i, CASE v = 0 -> 0 [] v = 1 -> i % 4 [] OTHER -> 9)
Set(i, v) == v = 1 \/ (v > 1 /\ (i + v) % 2 = 0)
Value(k, i, v) ==
  CASE k.kind = "fix"       -> IF k.n = 1 THEN <<1>> ELSE Octets(i, k.n)
    [] k.kind = "varint"    -> i * (v + 1)
    [] k.kind = "string"    -> Text(i, v)
    [] k.kind = "optstring" -> IF Set(i, v) THEN <<Text(i, v)>> ELSE <<>>
    [] k.kind = "opt"       -> IF Set(i, v) THEN <<Octets(i, k.n)>> ELSE <<>>
    [] k.kind = "optvarint" -> IF Set(i, v) THEN <<i * (v + 1)>> ELSE <<>>
    [] k.kind = "address"   -> Octets(i, IF v % 2 = 0 THEN 6 ELSE 18)
Events ==
  {[ty |-> ty, fields |-> [i \in DOMAIN Layout[ty] |-> Value(Layout[ty][i], i, v)]] :
     ty \in 1 .. 8, v \in 0 .. 3}
MCBodies ==
  {[event |-> e, layout |-> l] : e \in Events, l \in {"current", "old"}}
    \ {[event |-> e, layout |-> "old"] : e \in {d \in Events : d.ty # 4}}

(* Every link type, VLAN depth and IP version with every transport; one    *)
(* frame with padding, options on both layers and one without lengths      *)
Plain == [link |-> 1, tags |-> 0, version |-> 4, options |-> 0, proto |-> 17, fragment |-> 0,
          sized |-> TRUE, tcpOptions |-> 0, payload |-> <<7, 8, 9>>, padding |-> 0]
MCFrames ==
  {[Plain EXCEPT !.link = l, !.version = v, !.proto = p] :
     l \in {0, 1, 12, 108, 113, 276}, v \in {4, 6}, p \in {17, 6, 58, 44}}
  \cup {[Plain EXCEPT !.tags = t, !.version = v, !.padding = 5, !.proto = p] :
          t \in 0 .. 3, v \in {4, 6}, p \in {17, 6}}
  \cup {[Plain EXCEPT !.options = o, !.tcpOptions = t, !.proto = p, !.padding = 2,
                      !.fragment = g, !.payload = y] :
          o \in {0, 2}, t \in {0, 1}, p \in {17, 6}, g \in {0, 185}, y \in {<<>>, <<7>>}}
  \cup {[Plain EXCEPT !.sized = FALSE, !.version = v, !.proto = p] :
          v \in {4, 6}, p \in {17, 6}}

(* RTP of a static and of dynamic types and of those on both sides of what *)
(* RTCP packet types look like, with and without marker, one of them a     *)
(* well-formed RTCP report by accident; RTCP compounds of up to three      *)
(* members, with zero to two report blocks                                 *)
Word(i) == <<i, 0, 1, i>>
Rtp(pt, marker) ==
  [kind |-> "rtp", marker |-> marker,
   header |-> [payload_type |-> pt, sequence_number |-> 65535, timestamp |-> Word(3),
               ssrc |-> Word(4)]]
Block(i, lost) ==
  [ssrc |-> Word(i), fraction_lost |-> 255, cumulative_lost |-> lost, highest_seq |-> Word(2),
   jitter |-> Word(3), lsr |-> Word(5), dlsr |-> Word(6)]
Blocks == <<Block(9, -1), Block(8, 8388607)>>
Sr(n) == [type |-> "sr", ssrc |-> Word(1), reports |-> SubSeq(Blocks, 1, n),
          sender |-> FlattenSeq([i \in 1 .. 5 |-> Word(i)])]
Rr(n) == [type |-> "rr", ssrc |-> Word(2), reports |-> SubSeq(Blocks, 1, n)]
Sdes == [type |-> "other", pt |-> 202]
Bye == [type |-> "empty", pt |-> 203]
Rtcps ==
  {[kind |-> "rtcp", members |-> ms] :
     ms \in {<<Sr(n), Sdes>> : n \in 0 .. 2} \cup {<<Rr(n), Bye, Sdes>> : n \in 0 .. 2}
              \cup {<<Sr(1), Rr(1)>>, <<Bye>>}}
Media == {Rtp(0, 0), Rtp(0, 1), Rtp(96, 1), Rtp(127, 0)}
           \cup {Rtp(pt, marker) : pt \in {64, 71, 72, 79, 80, 95}, marker \in {0, 1}}
           \cup {[Rtp(73, 1) EXCEPT !.header.sequence_number = 2]}
           \cup Rtcps

NoFields == [error |-> <<>>, channel |-> <<>>, lifetime |-> <<>>, data |-> <<>>,
             relayed |-> <<>>, peer |-> <<>>]
Address4 == [ip |-> <<192, 168, 1, 200>>, port |-> <<19, 196>>]
Address6 == [ip |-> [i \in 1 .. 16 |-> 13 * i], port |-> <<255, 1>>]
MCStun(method, class, fields, user, inner) ==
  [kind |-> "stun", method |-> method, class |-> class, txn |-> [i \in 1 .. 12 |-> 20 * i],
   fields |-> fields, user |-> user, inner |-> inner]
Turns ==
  {MCStun(m, c, NoFields, 0, Nothing) : m \in {1, 3, 4, 6, 7, 8, 9, 127},
                                        c \in {"request", "indication", "success", "error"}}
  \cup {MCStun(3, "success", [NoFields EXCEPT !.relayed = <<a>>, !.lifetime = <<Word(1)>>], u, Nothing) :
          a \in {Address4, Address6}, u \in 0 .. 4}
  \cup {MCStun(3, "error", [NoFields EXCEPT !.error = <<e>>], u, Nothing) : e \in {401, 437}, u \in 1 .. 2}
  \cup {MCStun(9, "request", [NoFields EXCEPT !.channel = <<16385>>, !.peer = <<Address4>>], u, Nothing) :
          u \in 2 .. 3}
  \cup {MCStun(m, "indication", [NoFields EXCEPT !.peer = <<Address4>>, !.data = <<MediaBytes(d)>>], u, d) :
          m \in {6, 7}, u \in {0, 1}, d \in Media}
MCDatagrams ==
  Media \cup Turns
    \cup {[kind |-> "sip", start |-> s] : s \in SipStarts}
    \cup {[kind |-> "channel", inner |-> d] : d \in Media}

MCScenes ==
  [nat : BOOLEAN, linked : BOOLEAN, local : BOOLEAN, calleeEnds : BOOLEAN]
=============================================================================

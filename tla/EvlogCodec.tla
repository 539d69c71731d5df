----------------------------- MODULE EvlogCodec -----------------------------
(***************************************************************************)
(* The bodies of the event log's records (src/src/store/evlog.rs): one     *)
(* encoder and three decoders, namely decode_payload (query, export), the  *)
(* zero-copy parse_stream_summary (replay) and parse_stream_snap_lite      *)
(* (stats), with parse_rtcp_rtt_ms beside them.                            *)
(*                                                                         *)
(* An event is its type and the sequence of its field values.  A field has *)
(* a kind, which decides the bytes it takes:                               *)
(*   fix(n)     n bytes (u8, ssrc, f64, a flow's protocol)                 *)
(*   varint     a number                                                   *)
(*   string     its length as a varint, then its bytes                     *)
(*   optstring  length + 1 as a varint, 0 for None, then the bytes         *)
(*   opt(n)     a flag byte, then n bytes when it is set                   *)
(*   optvarint  a flag byte, then a varint when it is set                  *)
(*   address    a tag byte, then 4 or 16 octets and 2 bytes of port        *)
(* The value of a number is a number, of an optional field <<>> or <<v>>,  *)
(* of the others a sequence of bytes.                                      *)
(***************************************************************************)
EXTENDS Varint, SequencesExt

fix(n) == [kind |-> "fix", n |-> n]
opt(n) == [kind |-> "opt", n |-> n]
simple(k) == [kind |-> k, n |-> 0]
varint == simple("varint")
string == simple("string")
optstring == simple("optstring")
optvarint == simple("optvarint")
address == simple("address")

f64 == fix(8)
optf64 == opt(8)
flow == <<fix(1), address, address>>

(* write_metric_set: three counters, then five sums with their counts *)
MetricSet == <<varint, varint, varint>> \o FlattenSeq([i \in 1 .. 5 |-> <<f64, varint>>])

(* encode_event_payload: the layout of each event type *)
Layout ==
  [ty \in 1 .. 8 |->
     CASE ty = 1 -> flow \o <<fix(1), optstring, opt(2), string, optvarint,
                              optstring, optstring, optstring, string>>
       [] ty = 2 -> <<string, string, string, opt(2), optvarint>>
       [] ty = 3 -> <<string, fix(1), optstring, optstring, optstring, optstring,
                      fix(1), fix(1)>>
                      \o [i \in 1 .. 9 |-> optvarint]
                      \o <<optstring, varint, varint, varint, varint>>
       [] ty = 4 -> <<string, fix(4)>> \o flow
                      \o <<optstring, opt(1), varint, varint, varint, f64,
                           optf64, optf64, optstring>>
                      \o <<varint, optvarint, optvarint, optf64, optf64, optf64,
                           optf64, optstring, fix(1)>>
       [] ty = 5 -> <<string, fix(4), f64, optf64>>
       [] ty = 6 -> <<varint, string>> \o MetricSet
       [] ty = 7 -> <<string, string>>
       [] ty = 8 -> <<string, fix(1), string, string>>]

(* decode_payload: the order in which it asks for the fields of each type, *)
(* for a StreamSnap those up to the direction                              *)
ReadLayout(ty) ==
  CASE ty = 1 -> flow \o <<fix(1)>> \o <<optstring, opt(2)>> \o <<string, optvarint>>
                   \o <<optstring, optstring, optstring>> \o <<string>>
    [] ty = 2 -> <<string, string, string>> \o <<opt(2), optvarint>>
    [] ty = 3 -> <<string, fix(1)>> \o <<optstring, optstring, optstring, optstring>>
                   \o <<fix(1), fix(1)>>
                   \o <<optvarint, optvarint, optvarint, optvarint, optvarint, optvarint>>
                   \o <<optvarint, optvarint, optvarint>> \o <<optstring>>
                   \o <<varint, varint, varint, varint>>
    [] ty = 4 -> <<string, fix(4)>> \o flow \o <<optstring, opt(1)>>
                   \o <<varint, varint, varint, f64, optf64, optf64, optstring>>
    [] ty = 5 -> <<string, fix(4), f64, optf64>>
    [] ty = 6 -> <<varint, string>>
                   \o <<varint, varint, varint, f64, varint, f64, varint>>
                   \o <<f64, varint, f64, varint, f64, varint>>
    [] ty = 7 -> <<string, string>>
    [] ty = 8 -> <<string, fix(1), string, string>>

ReadExtension ==
  <<varint, optvarint, optvarint, optf64, optf64, optf64, optf64, optstring, fix(1)>>

(* parse_stream_summary and parse_stream_snap_lite, up to the direction *)
SummaryLayout ==
  <<string, fix(4)>> \o flow
    \o <<optstring, opt(1), varint, varint, varint, f64, optf64, optf64, optstring>>
LiteLayout ==
  <<string, fix(4)>> \o flow
    \o <<optstring, opt(1), varint, varint, varint, fix(8), optf64, optf64, optstring>>

-----------------------------------------------------------------------------
(* The write_* helpers *)
Put(k, v) ==
  CASE k.kind = "fix"       -> v
    [] k.kind = "varint"    -> WriteVarint(v)
    [] k.kind = "string"    -> WriteVarint(Len(v)) \o v
    [] k.kind = "optstring" -> IF v = <<>> THEN WriteVarint(0)
                                           ELSE WriteVarint(Len(v[1]) + 1) \o v[1]
    [] k.kind = "opt"       -> IF v = <<>> THEN <<0>> ELSE <<1>> \o v[1]
    [] k.kind = "optvarint" -> IF v = <<>> THEN <<0>> ELSE <<1>> \o WriteVarint(v[1])
    [] k.kind = "address"   -> <<IF Len(v) = 6 THEN 4 ELSE 6>> \o v

Encode(e) ==
  FlattenSeq([i \in DOMAIN e.fields |-> Put(Layout[e.ty][i], e.fields[i])])

(* The read_* and slice_* helpers: the value of one field and the bytes    *)
(* after it, or not ok when the body ends inside it.                       *)
Short == [ok |-> FALSE, value |-> <<>>, rest |-> <<>>]
Drop(b, n) == SubSeq(b, n + 1, Len(b))

(* Mutant: reading clamps a length to the bytes there are *)
TakeClamped(b, n) ==
  [ok |-> TRUE, value |-> SubSeq(b, 1, IF n < Len(b) THEN n ELSE Len(b)), rest |-> Drop(b, n)]

Take(b, n) == IF n <= Len(b)
                THEN [ok |-> TRUE, value |-> SubSeq(b, 1, n), rest |-> Drop(b, n)]
                ELSE Short
Some(r) == IF r.ok THEN [r EXCEPT !.value = <<@>>] ELSE Short
Number(b) ==
  LET r == ReadVarint(b, 1)
  IN IF r.status = "ok" THEN [ok |-> TRUE, value |-> r.value, rest |-> Drop(b, r.next - 1)]
                        ELSE Short

None(b) == [ok |-> TRUE, value |-> <<>>, rest |-> b]
Flagged(b, body) ==
  CASE b = <<>>                 -> Short
    [] b # <<>> /\ b[1] = 0     -> None(Tail(b))
    [] b # <<>> /\ b[1] # 0     -> Some(body)

GetOptString(b) ==
  LET len == Number(b)
  IN CASE ~len.ok                   -> Short
       [] len.ok /\ len.value = 0   -> None(len.rest)
       [] len.ok /\ len.value > 0   -> Some(Take(len.rest, len.value - 1))

Get(k, b) ==
  CASE k.kind = "fix"       -> Take(b, k.n)
    [] k.kind = "varint"    -> Number(b)
    [] k.kind = "string"    -> LET len == Number(b)
                               IN IF len.ok THEN Take(len.rest, len.value) ELSE Short
    [] k.kind = "optstring" -> GetOptString(b)
    [] k.kind = "opt"       -> Flagged(b, Take(Drop(b, 1), k.n))
    [] k.kind = "optvarint" -> Flagged(b, Number(Drop(b, 1)))
    [] k.kind = "address"   -> IF b = <<>> THEN Short
                                 ELSE Take(Tail(b), IF b[1] = 4 THEN 6 ELSE 18)

(* A run of fields, one after the other; the first that is short fails it *)
Start(b) == [ok |-> TRUE, fields |-> <<>>, rest |-> b]
Failed == [ok |-> FALSE, fields |-> <<>>, rest |-> <<>>]
Then(r, k) ==
  LET g == Get(k, r.rest)
  IN IF r.ok /\ g.ok THEN [ok |-> TRUE, fields |-> Append(r.fields, g.value), rest |-> g.rest]
                     ELSE Failed
Fields(layout, r) == FoldLeft(Then, r, layout)

-----------------------------------------------------------------------------
(* What the decoders put in place of the extension of an old StreamSnap *)
OldDefaults == <<0, <<>>, <<>>, <<>>, <<>>, <<>>, <<>>, <<>>, <<0>>>>

WithDefaults(r, n) == [r EXCEPT !.fields = @ \o Drop(OldDefaults, n)]

AtEnd(r) == r.ok /\ r.rest = <<>>

(* decode_payload.  An unknown type yields an Error event, not a failure.  *)
DecodePayload(ty, b) ==
  LET base == Fields(ReadLayout(ty), Start(b))
  IN IF ty # 4 THEN base
       ELSE IF AtEnd(base) THEN WithDefaults(base, 0) ELSE Fields(ReadExtension, base)

(* parse_stream_summary: the body may also end before the leg or before    *)
(* via_turn                                                                *)
StreamSummary(b) ==
  LET base == Fields(SummaryLayout, Start(b))
      most == Fields(<<varint, optvarint, optvarint, optf64, optf64, optf64, optf64>>, base)
      leg == Fields(<<optstring>>, most)
  IN CASE AtEnd(base)                   -> WithDefaults(base, 0)
       [] ~AtEnd(base) /\ AtEnd(most)   -> WithDefaults(most, 7)
       [] ~AtEnd(base) /\ AtEnd(leg)    -> WithDefaults(leg, 8)
       [] OTHER                         -> Fields(<<fix(1)>>, leg)

(* parse_stream_snap_lite: stops after rtt_avg_ms.  Its skip_* helpers     *)
(* step over a field the way the others read it.                           *)
StreamSnapLite(b) ==
  LET base == Fields(LiteLayout, Start(b))
  IN IF AtEnd(base) THEN WithDefaults(base, 0)
       ELSE Fields(<<varint, optvarint, optvarint, opt(8), optf64>>, base)

(* parse_rtcp_rtt_ms: the rtt follows the call id and the ssrc *)
RtcpRtt(b) == Fields(<<string, fix(4), f64>>, Start(b))

(* A StreamSnap written before its extension existed *)
OldSnap(e) == [e EXCEPT !.fields = SubSeq(@, 1, 14)]
=============================================================================

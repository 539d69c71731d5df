-------------------------------- MODULE Rtcp ---------------------------------
(***************************************************************************)
(* RTP and RTCP datagrams: src/src/decode/rtp.rs and rtcp.rs.  A 32-bit    *)
(* field stays the slice of its four bytes.                                *)
(***************************************************************************)
EXTENDS Bytes

IsRtpLike(b) == Len(b) >= 2 /\ At(b, 0) \div 64 = 2

Classify(b) ==
  CASE ~IsRtpLike(b)                        -> "other"
    [] IsRtpLike(b) /\ At(b, 1) \in 200 .. 207 -> "rtcp"
    [] OTHER                                -> "rtp"

(* parse_rtp_header, as a sequence of no or one header *)
ParseRtpHeader(b) ==
  IF Len(b) < 12 \/ At(b, 0) \div 64 # 2 THEN <<>>
    ELSE <<[payload_type |-> At(b, 1) % 128, sequence_number |-> Be16(b, 2),
            timestamp |-> Slice(b, 4, 8), ssrc |-> Slice(b, 8, 12)]>>

-----------------------------------------------------------------------------
PT_SR == 200
PT_RR == 201

(* The cumulative loss is a signed 24-bit number *)
Signed24(b, i) ==
  LET u == 65536 * At(b, i) + Be16(b, i + 1) IN IF u >= 8388608 THEN u - 16777216 ELSE u

ReportBlock(b) ==
  [ssrc |-> Slice(b, 0, 4), fraction_lost |-> At(b, 4), cumulative_lost |-> Signed24(b, 5),
   highest_seq |-> Slice(b, 8, 12), jitter |-> Slice(b, 12, 16),
   lsr |-> Slice(b, 16, 20), dlsr |-> Slice(b, 20, 24)]

(* parse_report_blocks: as many of `count` blocks as the member holds *)
ParseReportBlocks(member, start, count) ==
  LET held == (Len(member) - start) \div 24
  IN [k \in 1 .. (IF held < count THEN held ELSE count) |->
        ReportBlock(From(member, start + 24 * (k - 1)))]

(* One member of a compound packet; a sender report too short is dropped *)
Message(type, ssrc, reports) == [type |-> type, ssrc |-> ssrc, reports |-> reports]
ParseMember(member) ==
  LET count == At(member, 0) % 32
      pt == At(member, 1)
      ssrc == Slice(member, 4, 8)
  IN CASE Len(member) < 8 -> <<>>
       [] Len(member) >= 8 /\ pt = PT_SR ->
            IF Len(member) < 28 THEN <<>>
              ELSE <<Message("sr", ssrc, ParseReportBlocks(member, 28, count))
                       @@ [sender |-> Slice(member, 8, 28)]>>
       [] Len(member) >= 8 /\ pt = PT_RR ->
            <<Message("rr", ssrc, ParseReportBlocks(member, 8, count))>>
       [] OTHER -> <<[type |-> "other", pt |-> pt]>>

(* parse_all: the walk ends at a member that runs past the datagram *)
ParseAll(b) ==
  LET Size(off) == 4 * (Be16(b, off + 2) + 1)
      Walk[off \in 0 .. Len(b)] ==
        IF off + 4 > Len(b) THEN <<>>
          ELSE IF off + Size(off) > Len(b) THEN <<>>
          ELSE ParseMember(Slice(b, off, off + Size(off))) \o Walk[off + Size(off)]
  IN Walk[0]
=============================================================================

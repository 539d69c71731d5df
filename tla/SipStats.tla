------------------------------ MODULE SipStats ------------------------------
(***************************************************************************)
(* Per-address SIP statistics (src/src/store/sipstats.rs) as operators:    *)
(* the distribution of requests and responses, and for every bucket width  *)
(* a series of INVITEs and answers.                                        *)
(***************************************************************************)
EXTENDS Integers, Sequences, Sums

CONSTANTS Widths,         \* SERIES_BUCKETS
          SeriesRetain    \* buckets kept in a series

ASSUME SipStatsAssumption == Widths \subseteq Nat \ {0} /\ SeriesRetain \in Nat \ {0}

(* Columns *)
ReqN == 9
RespN == 15
Requests == <<"INVITE", "ACK", "BYE", "CANCEL", "OPTIONS", "INFO", "REGISTER", "MESSAGE">>
Codes == <<100, 180, 183, 200, 486, 404, 403, 408, 480, 487>>
ReqIdx(m) == IF \E i \in DOMAIN Requests : Requests[i] = m
               THEN (CHOOSE i \in DOMAIN Requests : Requests[i] = m) - 1 ELSE ReqN - 1
RespIdx(code) ==
  IF \E i \in DOMAIN Codes : Codes[i] = code
    THEN (CHOOSE i \in DOMAIN Codes : Codes[i] = code) - 1
    ELSE IF code \in 300 .. 699 THEN (code \div 100) + 7 ELSE RespN - 1

ErrorColumns == {4, 5, 6, 7, 8, 11, 12, 13}

NewSip == [req |-> [c \in 0 .. ReqN - 1 |-> 0], resp |-> [c \in 0 .. RespN - 1 |-> 0],
           series |-> [w \in Widths |-> <<>>], last |-> -1]

(* ring_bump: an exact bucket, a new one after zero-filling the gap, or a  *)
(* fresh ring when the gap is wider than all of it; too late is dropped.   *)
Bump(ring, w, t, inv, ans) ==
  LET key == (t \div w) * w
      entry == [key |-> key, inv |-> inv, ans |-> ans]
      last == ring[Len(ring)].key
      room == SeriesRetain - Len(ring)
      gap == ((key - last) \div w) - 1
      filled == ring \o [i \in 1 .. (IF gap < room THEN gap ELSE room) |->
                           [key |-> last + i * w, inv |-> 0, ans |-> 0]]
      kept == IF Len(filled) >= SeriesRetain
                THEN SubSeq(filled, Len(filled) - SeriesRetain + 2, Len(filled)) ELSE filled
  IN IF ring = <<>> THEN <<entry>>
     ELSE IF key > last
       THEN IF key - last > w * SeriesRetain THEN <<entry>> ELSE Append(kept, entry)
     ELSE [i \in DOMAIN ring |-> IF ring[i].key # key THEN ring[i]
             ELSE [ring[i] EXCEPT !.inv = @ + inv, !.ans = @ + ans]]

Later(s, t) == IF t > s.last THEN t ELSE s.last

Bumped(s, t, inv, ans) ==
  [s EXCEPT !.series = [w \in Widths |-> Bump(s.series[w], w, t, inv, ans)]]

(* apply_dist and apply_answer *)
ApplyRequest(s, t, m, initial) ==
  [(IF initial THEN Bumped(s, t, 1, 0) ELSE s) EXCEPT
     !.req[ReqIdx(m)] = @ + 1, !.last = Later(s, t)]
ApplyResponse(s, t, code) == [s EXCEPT !.resp[RespIdx(code)] = @ + 1, !.last = Later(s, t)]
ApplyAnswer(s, t) == [Bumped(s, t, 0, 1) EXCEPT !.last = Later(s, t)]

RespErrors(s) == SumOver(s.resp, ErrorColumns)
=============================================================================

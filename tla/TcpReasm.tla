------------------------------ MODULE TcpReasm ------------------------------
(***************************************************************************)
(* Reassembly of SIP over TCP (src/src/decode/tcp_reasm.rs) as operators   *)
(* on the buffer of one flow.                                              *)
(*                                                                         *)
(* A byte is its position in the connection's stream; wire[p] tells what   *)
(* stands there.  Its `kind` is "start" or "length" for the header lines   *)
(* without and with the Content-Length, "crlf" for a line end (the two at  *)
(* the end of the headers, and keep-alives) and "body" for anything else,  *)
(* and `n` is the number in a Content-Length line.  A line end is one      *)
(* byte here: it is not cut in two.                                        *)
(***************************************************************************)
EXTENDS Integers, Sequences, SequencesExt

CONSTANTS MaxStreamBuf, IdleUs

ASSUME ReasmAssumption == MaxStreamBuf \in Nat /\ IdleUs \in Nat

(* find_double_crlf: where the first two line ends in a row begin, 0 for   *)
(* none                                                                    *)
Separator(buf, wire) ==
  LET at == {i \in 1 .. (Len(buf) - 1) : wire[buf[i]].kind = "crlf" /\ wire[buf[i + 1]].kind = "crlf"}
  IN IF at = {} THEN 0 ELSE CHOOSE i \in at : \A j \in at : i <= j

(* extract_content_length: of the first such line, 0 without one *)
ContentLength(headers, wire) ==
  LET at == {i \in DOMAIN headers : wire[headers[i]].kind = "length"}
  IN IF at = {} THEN 0 ELSE wire[headers[CHOOSE i \in at : \A j \in at : i <= j]].n

Enough(buf, total) == Len(buf) >= total

(* The loop of feed: complete messages out, the rest kept.  A message has  *)
(* at least one byte, so there are at most as many rounds as bytes.        *)
Round(r, wire) ==
  LET sep == Separator(r.buf, wire)
      total == sep + 1 + ContentLength(SubSeq(r.buf, 1, sep - 1), wire)
  IN IF sep = 0 \/ ~Enough(r.buf, total) THEN r
     ELSE [buf |-> SubSeq(r.buf, total + 1, Len(r.buf)),
           out |-> Append(r.out, SubSeq(r.buf, 1, total))]
Framed(buf, wire) ==
  LET after[n \in 0 .. Len(buf)] ==
        IF n = 0 THEN [buf |-> buf, out |-> <<>>] ELSE Round(after[n - 1], wire)
  IN after[Len(buf)]

(* Mutant: an oversized buffer is left alone *)
OverflowKeep(buf) == buf
Overflow(buf) == <<>>

(* feed: an oversized buffer goes, framed or not *)
Feed(buf, data, wire) ==
  LET b == buf \o data
  IN IF Len(b) > MaxStreamBuf THEN [buf |-> Overflow(b), out |-> <<>>]
     ELSE Framed(b, wire)
=============================================================================

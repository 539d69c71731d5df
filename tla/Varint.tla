------------------------------- MODULE Varint -------------------------------
(***************************************************************************)
(* The variable-length integers of the event log (src/src/store/evlog.rs): *)
(* groups of digits, least significant first, every byte but the last      *)
(* carrying a continuation flag.  A byte is a number below 2 * Base; the   *)
(* code has Base = 128, Groups = 10 and Wide = 2^64.                       *)
(***************************************************************************)
EXTENDS Integers, Sequences

CONSTANTS Base,    \* values of one group: a byte >= Base continues
          Groups,  \* groups after which read_varint gives up
          Wide     \* 2^64: digits shifted past it are dropped

ASSUME VarintAssumption ==
  /\ Base \in Nat /\ Base > 1
  /\ Groups \in Nat /\ Groups > 0
  /\ Wide \in Nat /\ Wide > 1

(* write_varint *)
WriteVarint(n) ==
  LET from[k \in 0 .. n] ==
        IF k < Base THEN <<k>> ELSE <<Base + (k % Base)>> \o from[k \div Base]
  IN from[n]

(* The digits s[p .. q], those above the width lost *)
Digits(s, p, q) ==
  LET upTo[i \in p .. q] ==
        (IF i = p THEN 0 ELSE upTo[i - 1]) + (((s[i] % Base) * Base ^ (i - p)) % Wide)
  IN upTo[q]

(* read_varint on s from position p: a value and the position after it,    *)
(* "eof" when the bytes run out first, "bad" when the last allowed group   *)
(* still continues.                                                        *)
ReadVarint(s, p) ==
  LET ends == {q \in p .. Len(s) : s[q] < Base /\ q < p + Groups}
      q == CHOOSE q \in ends : \A r \in ends : q <= r
  IN CASE ends # {} -> [status |-> "ok", value |-> Digits(s, p, q), next |-> q + 1]
       [] ends = {} /\ Len(s) >= p + Groups - 1
                    -> [status |-> "bad", value |-> 0, next |-> p + Groups]
       [] OTHER     -> [status |-> "eof", value |-> 0, next |-> Len(s) + 1]
=============================================================================

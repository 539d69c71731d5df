------------------------------ MODULE MCEvlog -------------------------------
(* Event log for TLC: 3-bit groups in an 8-bit word, so that a delta or a  *)
(* length of 8 or more takes two bytes.  Read as a record, the header asks *)
(* for a body of 5 bytes, as "SMON" asks for one of 79.                    *)
EXTENDS Evlog

MCMagic == <<4, 7, 5>>
MCHeaderRest == <<0, 2, 5>>
MCEvents ==
  {[ts |-> 2, ty |-> 1, body |-> <<5>>],
   [ts |-> 9, ty |-> 4, body |-> <<>>],
   [ts |-> 5, ty |-> 1, body |-> <<9, 1, 6>>]}
=============================================================================

------------------------------ MODULE RtpLoss ------------------------------
(***************************************************************************)
(* What the loss tracker of an RTP stream promises, with no bitmap and no  *)
(* wrapping sequence numbers: the packets of a tracking epoch have integer *)
(* positions, `arrived` holds every position received in time, and the     *)
(* reported loss is the number of positions between the first and the      *)
(* highest one that are not in `arrived`, plus what earlier epochs left.   *)
(* A position is received in time when it is at most Window behind the     *)
(* highest; a jump of more than RestartWindow opens a new epoch, which     *)
(* forgives the positions still inside the window.                         *)
(***************************************************************************)
EXTENDS Integers, FiniteSets

CONSTANTS Window,         \* RTP_REORDER_WINDOW
          RestartWindow,  \* RTP_RESTART_WINDOW
          Half            \* half the sequence number space

VARIABLES started,  \* a first packet was seen
          base,     \* position of the first packet of the epoch
          hi,       \* highest position of the epoch
          arrived,  \* positions received in time in the epoch
          closed,   \* loss settled in earlier epochs
          loss      \* the loss the tracker reports

vars == <<started, base, hi, arrived, closed, loss>>

Missing(lo, up, got) == (lo .. up) \ got

Report == loss' = closed' + Cardinality(Missing(base', hi', arrived'))

Init ==
  /\ ~started
  /\ base = 0 /\ hi = 0
  /\ arrived = {}
  /\ closed = 0
  /\ loss = 0

First ==
  /\ ~started
  /\ started'
  /\ \E p \in 0 .. (2 * Half - 1) : base' = p /\ hi' = p /\ arrived' = {p}
  /\ closed' = closed
  /\ Report

Advance ==
  /\ started
  /\ \E p \in (hi + 1) .. (hi + RestartWindow) :
       hi' = p /\ arrived' = arrived \cup {p}
  /\ UNCHANGED <<started, base, closed>>
  /\ Report

Restart ==
  /\ started
  /\ closed' = closed + Cardinality(Missing(base, hi - Window - 1, arrived))
  /\ \E p \in (hi + RestartWindow + 1) .. (hi + Half - 1) :
       base' = p /\ hi' = p /\ arrived' = {p}
  /\ UNCHANGED started
  /\ Report

InTime ==
  /\ started
  /\ \E p \in (hi - Window) .. (hi - 1) : arrived' = arrived \cup {p}
  /\ UNCHANGED <<started, base, hi, closed>>
  /\ Report

Next == First \/ Advance \/ Restart \/ InTime

Spec == Init /\ [][Next]_vars
=============================================================================

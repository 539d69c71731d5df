--------------------------- MODULE MCRtpSequence ---------------------------
(* A 16-value sequence space, a 3-packet reorder window and a restart      *)
(* threshold of 5; streams begin on both sides of the wrap.                *)
EXTENDS RtpSequence

MCFirstSeqs == {0, 14}
=============================================================================

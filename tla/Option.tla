------------------------------- MODULE Option -------------------------------
(* Option::None, for the modules that decode and correlate media *)
CONSTANT Nothing
=============================================================================

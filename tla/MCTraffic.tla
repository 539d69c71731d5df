----------------------------- MODULE MCTraffic ------------------------------
(* The statistics for TLC: two hosts, a stream each way, rings of two. *)
EXTENDS Traffic, TLC
CONSTANTS h1, h2, s1, s2
MCSrc == (s1 :> h1) @@ (s2 :> h2)
MCDst == (s1 :> h2) @@ (s2 :> h1)
MCResponses == {<<200, "INVITE">>, <<200, "BYE">>, <<404, "INVITE">>, <<487, "INVITE">>}

(* The hosts are alike if the streams between them change places too. *)
MCSymmetry ==
  {f \in Permutations({h1, h2, s1, s2}) :
     \/ f[h1] = h2 /\ f[h2] = h1 /\ f[s1] = s2
     \/ f[h1] = h1 /\ f[h2] = h2 /\ f[s1] = s1}
=============================================================================

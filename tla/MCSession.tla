----------------------------- MODULE MCSession ------------------------------
(* A dialog between two hosts, or a stream each way. *)
EXTENDS Session
CONSTANTS h1, h2, s1, s2

Request(method, tagged, reason) ==
  [req |-> TRUE, method |-> method, tagged |-> tagged, code |-> None, cseq |-> None,
   src |-> h1, dst |-> h2, reason |-> reason]
Response(code, cseq) ==
  [req |-> FALSE, method |-> None, tagged |-> TRUE, code |-> code, cseq |-> cseq,
   src |-> h2, dst |-> h1, reason |-> None]

MCMessages ==
  {Request("INVITE", FALSE, None), Request("BYE", TRUE, 16), Request("CANCEL", FALSE, None),
   Response(200, "INVITE"), Response(200, "BYE"), Response(404, "INVITE")}
MCCallOf == (s1 :> 1) @@ (s2 :> 1)
MCFlowOf == (s1 :> <<h1, h2>>) @@ (s2 :> <<h2, h1>>)
(* Of the windows two wide, the times of either plane meet two *)
MCStamps == ("sip" :> {1, 2}) @@ ("media" :> 0 .. 2)
MCMaxSkew == ("sip" :> 0) @@ ("media" :> 1)
MCMaxEvents == ("sip" :> 4) @@ ("media" :> 4)
=============================================================================

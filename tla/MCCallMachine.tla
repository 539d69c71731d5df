--------------------------- MODULE MCCallMachine ---------------------------
(* The messages of calls between two hosts, seen in any order and any      *)
(* number of times.                                                        *)
EXTENDS CallMachine

CONSTANTS Alice, Bob

Request(method, tagged, src, dst) ==
  [req |-> TRUE, method |-> method, tagged |-> tagged, code |-> None,
   cseq |-> None, src |-> src, dst |-> dst]
Response(code, cseq) ==
  [req |-> FALSE, method |-> None, tagged |-> TRUE, code |-> code,
   cseq |-> cseq, src |-> Bob, dst |-> Alice]

Invite == Request("INVITE", FALSE, Alice, Bob)
Bye(src, dst) == Request("BYE", TRUE, src, dst)
Cancel == Request("CANCEL", FALSE, Alice, Bob)

(* Every message the transitions tell apart. *)
AllMessages ==
  {Invite, Request("INVITE", TRUE, Alice, Bob), Cancel}
  \cup {Bye(Alice, Bob), Bye(Bob, Alice)}
  \cup {Response(100, "INVITE"), Response(180, None), Response(183, "PRACK")}
  \cup {Response(200, cseq) : cseq \in {None, "BYE", "CANCEL"}}
  \cup {Response(code, "INVITE") : code \in {401, 487, 503}}
  \cup {Response(481, "BYE")}
=============================================================================

---------------------------- MODULE MCCorrelator ----------------------------
(* Two or three calls between two hosts, two media sockets, one stream in  *)
(* each direction; the alphabets hold the messages a question needs.       *)
EXTENDS Correlator, TLC

CONSTANTS Alice, Bob, ea, eb

Request(method, tagged, sdp) ==
  [req |-> TRUE, method |-> method, tagged |-> tagged, code |-> None,
   cseq |-> None, src |-> Alice, dst |-> Bob, sdp |-> sdp]
Response(code, cseq, sdp) ==
  [req |-> FALSE, method |-> None, tagged |-> TRUE, code |-> code,
   cseq |-> cseq, src |-> Bob, dst |-> Alice, sdp |-> sdp]

MCIps == {Alice, Bob}
MCEndpoints == {ea, eb}
Forth == [src |-> ea, dst |-> eb, ssrc |-> 1]
Back == [src |-> eb, dst |-> ea, ssrc |-> 2]
MCKeys == {Forth, Back}
NoKeys == {}

Invite == Request("INVITE", FALSE, {ea})
InviteNoSdp == Request("INVITE", FALSE, {})
ByeOk == Response(200, "BYE", {})

(* Calls are interchangeable: no table orders them by Call-ID. *)
CallSymmetry == Permutations(CallIds)

NoFocus == {{}}
AnyFocus == {{}} \cup {{c} : c \in CallIds}
NoFilter == {FALSE}
AnyFilter == {TRUE, FALSE}

(* Offer and end of a call. *)
OfferAndEnd == {Invite, ByeOk}
(* Signalling only. *)
Signalling == {InviteNoSdp, ByeOk}
=============================================================================

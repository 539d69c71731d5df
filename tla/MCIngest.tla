------------------------------ MODULE MCIngest ------------------------------
(* A caller behind a relay and a callee on a public address, one call *)
EXTENDS Ingest

Ca == <<"private", 1>>
Cb == <<"public", 2>>
Ts == <<"public", 3>>
Client == <<Ca, 10>>
Relay == <<Ts, 20>>
Relay2 == <<Ts, 21>>
Server == <<Ts, 34>>
Callee == <<Cb, 40>>

Line(addr, formats, map) == [ip |-> addr[1], port |-> addr[2], formats |-> formats, map |-> map]
Session(line) == [ip |-> Nothing, media |-> <<line>>]
Amr == [x \in {96} |-> [name |-> "AMR", rate |-> 8000]]
Wide16 == [x \in {97} |-> [name |-> "L16", rate |-> 16000]]
Offer == Session(Line(Relay, <<0, 96>>, Amr))
Answer == Session(Line(Callee, <<96, 97>>, Amr @@ Wide16))
Fax == Session(Line(Callee, <<>>, <<>>))
NoRate == [x \in {97} |-> [name |-> "L16", rate |-> 0]]
Hold == [ip |-> <<"zero", 0>>, media |-> <<Line(<<Nothing, 40>>, <<97>>, NoRate)>>]

Base == [req |-> TRUE, method |-> "INVITE", tagged |-> FALSE, code |-> 0, cseq |-> "INVITE",
         src |-> Ca, dst |-> Cb, contact |-> Nothing, routes |-> 0, rrs |-> 0, sdp |-> Nothing,
         claims |-> 0, body |-> <<>>, pong |-> FALSE]
Invite == [Base EXCEPT !.sdp = Offer, !.contact = Client]
InviteRouted == [Base EXCEPT !.rrs = 1]
Late == [Base EXCEPT !.req = FALSE, !.code = 200, !.sdp = Answer]
Held == [Base EXCEPT !.req = FALSE, !.code = 183, !.sdp = Hold]
FaxAnswer == [Base EXCEPT !.req = FALSE, !.code = 183, !.sdp = Fax]
Ack == [Base EXCEPT !.method = "ACK", !.tagged = TRUE]
Cancel == [Base EXCEPT !.method = "CANCEL"]
MCFlows == {<<Callee, Relay>>, <<Relay, Callee>>, <<Client, Callee>>}
MCLossOf == (1 :> 0) @@ (2 :> 10)

Msg(method, class, address, channel, data) ==
  [method |-> method, class |-> class, address |-> address, channel |-> channel, data |-> data]
MCStuns ==
  {<<<<Client, Server>>, Msg("allocate", "request", Nothing, Nothing, FALSE)>>,
   <<<<Server, Client>>, Msg("allocate", "success", Relay, Nothing, FALSE)>>,
   <<<<Server, Client>>, Msg("allocate", "success", Relay2, Nothing, FALSE)>>,
   <<<<Server, Client>>, Msg("allocate", "error", Nothing, Nothing, FALSE)>>,
   <<<<Callee, Server>>, Msg("allocate", "request", Nothing, Nothing, FALSE)>>,
   <<<<Client, Server>>, Msg("refresh", "request", Nothing, Nothing, FALSE)>>,
   <<<<Server, Client>>, Msg("refresh", "error", Nothing, Nothing, FALSE)>>,
   <<<<Client, Server>>, Msg("bind", "request", Callee, 1, FALSE)>>,
   <<<<Relay, Callee>>, Msg("data", "indication", Nothing, Nothing, TRUE)>>}

(* Messages with a body that holds an empty line, one without a body, one  *)
(* that claims more than it has, keep-alives of two line ends and of one   *)
Multi == [Invite EXCEPT !.claims = 2, !.body = <<"crlf", "crlf">>]
Plain == Ack
Liar == [Ack EXCEPT !.claims = 16]
Short == [Plain EXCEPT !.claims = 1, !.body = <<"body">>]
Ponged == [Plain EXCEPT !.pong = TRUE]
MCConnections ==
  {<<Multi, Nothing, Ponged, Short, Multi, Ponged, Plain, Plain>>,
   <<Liar, Multi, Short, Multi, Short, Plain, Plain, Plain>>}
MCConfigured == {}

Scene(b, messages, pts, encaps) ==
  [sip |-> b[1], rtp |-> b[2], rtcp |-> b[3], stun |-> b[4], tcp |-> b[5], loss |-> b[6],
   clear |-> b[7], repeat |-> b[8], messages |-> messages, pts |-> pts, encaps |-> encaps]
MCScenes ==
  {Scene(<<5, 0, 0, 0, 0, 0, 1, 0>>, {Invite, InviteRouted, Ack, Cancel}, {}, {}),
   Scene(<<3, 2, 0, 0, 0, 0, 0, 0>>, {Invite, Late, Held}, {0, 97}, {"direct"}),
   Scene(<<2, 2, 0, 0, 0, 0, 0, 0>>, {Invite, Late, FaxAnswer}, {0, 97}, {"direct"}),
   Scene(<<2, 3, 0, 0, 0, 0, 0, 0>>, {Invite, Cancel}, {0}, {"direct"}),
   Scene(<<1, 1, 2, 0, 0, 0, 0, 0>>, {Invite}, {0}, {"direct", "channel"}),
   Scene(<<2, 2, 0, 2, 0, 0, 0, 0>>, {Invite, Cancel}, {0}, {"direct"}),
   Scene(<<0, 0, 0, 3, 0, 0, 1, 0>>, {}, {0}, {}),
   Scene(<<0, 0, 0, 0, 1, 1, 0, 0>>, {}, {}, {}),
   Scene(<<0, 0, 0, 0, 1, 0, 0, 1>>, {}, {}, {})}
MCConfigs == {[min |-> "Info", keep |-> TRUE, ttl |-> 1], [min |-> "Warn", keep |-> FALSE, ttl |-> 0]}
=============================================================================

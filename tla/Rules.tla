------------------------------- MODULE Rules --------------------------------
(***************************************************************************)
(* The diagnostic rules (src/src/diagnostics/rules.rs, and the teardown    *)
(* checks of src/src/correlate/mod.rs).  A diagnostic is [sev, code]; an   *)
(* address is <<ip, port>> and an ip is <<class, number>>, the class being *)
(* what the rules ask of it.                                               *)
(***************************************************************************)
EXTENDS Integers, Sequences, FiniteSets

Diag(sev, code) == [sev |-> sev, code |-> code]

Severities == <<"Info", "Warn", "Critical">>
Level(sev) == CHOOSE i \in 1 .. 3 : Severities[i] = sev

IsZero(ip) == ip[1] = "zero"
IsMulticast(ip) == ip[1] \in {"multicast", "link_local", "broadcast"}
IsPrivate(ip) == ip[1] \in {"private", "loopback", "link_local"}
IsPublic(ip) == ip[1] \notin {"private", "loopback", "link_local", "zero", "broadcast"}

CheckContact(contact, none, peer_public) ==
  IF contact = none THEN <<>>
  ELSE IF IsZero(contact[1]) \/ contact[2] = 0 THEN <<Diag("Critical", "CONTACT_UNREACHABLE")>>
  ELSE (IF IsMulticast(contact[1]) THEN <<Diag("Warn", "CONTACT_MCAST")>> ELSE <<>>) \o
       (IF IsPrivate(contact[1]) /\ peer_public THEN <<Diag("Warn", "CONTACT_PRIVATE_NAT")>> ELSE <<>>)

DialogMethods == {"BYE", "ACK", "INVITE", "INFO", "NOTIFY", "REFER", "UPDATE"}
CheckRecordRoute(method, tagged, routes, invite_had_rr) ==
  IF method \in DialogMethods /\ tagged /\ invite_had_rr /\ routes = 0
    THEN <<Diag("Warn", "RR_NOT_HONORED")>> ELSE <<>>

CheckSdp(ips) == IF \E ip \in ips : IsZero(ip) THEN <<Diag("Info", "SDP_HOLD")>> ELSE <<>>

CheckRtpPt(pt, pts) ==
  IF pts # {} /\ pt \notin pts THEN <<Diag("Warn", "RTP_PT_MISMATCH")>> ELSE <<>>

CheckRtpFlow(flow, endpoints) ==
  IF endpoints # {} /\ {flow[1], flow[2]} \cap endpoints = {}
    THEN <<Diag("Warn", "RTP_FLOW_UNEXPECTED")>> ELSE <<>>

CheckPtChange(pt, prev) == IF prev # pt THEN <<Diag("Info", "RTP_PT_CHANGED")>> ELSE <<>>

Reversed(flow) == <<flow[2], flow[1]>>

(* Mutant: the other direction must have the same SSRC *)
OneWaySsrc(keys) ==
  keys # {} /\ ~ \E j, k \in keys : k[1] = Reversed(j[1]) /\ k[2] = j[2]

(* check_oneway_at_teardown, over the streams <<flow, ssrc>> of the call *)
OneWay(keys) ==
  /\ Cardinality(keys) = 1
  /\ ~ \E j, k \in keys : k[1] = Reversed(j[1])

(* check_turn_legs, over the losses of the streams of each leg: averages   *)
(* that differ by more than 5 points                                       *)
Imbalance == 5
LegsApart(csum, cn, psum, pn) ==
  cn > 0 /\ pn > 0 /\ LET d == csum * pn - psum * cn IN (IF d < 0 THEN -d ELSE d) > Imbalance * cn * pn
=============================================================================

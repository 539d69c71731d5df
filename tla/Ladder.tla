------------------------------- MODULE Ladder --------------------------------
(***************************************************************************)
(* The ladder of the call detail page: which dialog (leg) each message of  *)
(* a call belongs to (focus_detail, merge_leg_msgs and dialog_legs of      *)
(* src/src/store/registry.rs) and the columns its arrow connects           *)
(* (classify_lanes, resolve_party_pair and render_flow of                  *)
(* src/src/ui/call_detail.rs).                                             *)
(*                                                                         *)
(* A message is [ts, src, dst, invite, fromTag, branch]: its addresses are *)
(* [ip, port], invite says that it is an INVITE without a To tag, and an   *)
(* absent tag is Nothing.  Legs are numbered from 0 as in the code, and so *)
(* are columns.                                                            *)
(***************************************************************************)
EXTENDS Integers, SequencesExt, Option

CONSTANT MaxMsgs   \* the cap of trim_msgs (1000)

TrimMsgs(msgs) ==
  IF Len(msgs) > MaxMsgs THEN SubSeq(msgs, Len(msgs) - MaxMsgs + 1, Len(msgs)) ELSE msgs

(* merge_leg_msgs: a stable sort by time, the primary call first at a tie *)
Earlier(p, q) == p.m.ts < q.m.ts
Stable(msgs) ==
  SetToSortSeq(DOMAIN msgs, LAMBDA i, j :
    Earlier(msgs[i], msgs[j]) \/ (~Earlier(msgs[j], msgs[i]) /\ i < j))
MergeLegMsgs(primary, linked) ==
  LET both == [i \in DOMAIN primary |-> [m |-> primary[i], leg |-> 0]]
                \o [i \in DOMAIN linked |-> [m |-> linked[i], leg |-> 1]]
      order == Stable(both)
      merged == [i \in DOMAIN order |-> both[order[i]]]
  IN [msgs |-> [i \in DOMAIN merged |-> merged[i].m],
      legs |-> [i \in DOMAIN merged |-> merged[i].leg]]

(* dialog_legs: a leg per From tag (or branch), numbered as they appear *)
KeyOf(m) == IF m.fromTag # Nothing THEN m.fromTag ELSE m.branch
KeysOf(msgs) == {KeyOf(msgs[i]) : i \in DOMAIN msgs} \ {Nothing}
FirstOf(msgs, key) == CHOOSE i \in DOMAIN msgs :
                        KeyOf(msgs[i]) = key /\ \A j \in 1 .. i - 1 : KeyOf(msgs[j]) # key
LegOf(msgs, key) ==
  Cardinality({k \in KeysOf(msgs) : FirstOf(msgs, k) < FirstOf(msgs, key)})
DialogLegs(msgs) ==
  [i \in DOMAIN msgs |-> IF KeyOf(msgs[i]) = Nothing THEN 0 ELSE LegOf(msgs, KeyOf(msgs[i]))]

(* focus_detail: a linked call overrides the classification by tag *)
FocusDetail(primary, linked) ==
  IF linked # Nothing THEN MergeLegMsgs(TrimMsgs(primary), TrimMsgs(linked))
    ELSE [msgs |-> TrimMsgs(primary), legs |-> DialogLegs(TrimMsgs(primary))]

-----------------------------------------------------------------------------
(* The addresses on the flows of a leg *)
IpsOf(f, leg) ==
  UNION {{f.msgs[i].src.ip, f.msgs[i].dst.ip} : i \in {j \in DOMAIN f.msgs : f.legs[j] = leg}}

(* The INVITE that opens a leg *)
FirstInvite(f, leg) ==
  LET opens == {i \in DOMAIN f.msgs : f.legs[i] = leg /\ f.msgs[i].invite}
  IN IF opens = {} THEN Nothing
       ELSE f.msgs[CHOOSE i \in opens : \A j \in opens : i <= j]

OtherEnd(inv, mid) == IF inv.dst.ip = mid THEN inv.src ELSE inv.dst
Lanes(a, b, pbx) ==
  [a_remote |-> OtherEnd(a, pbx), b_remote |-> OtherEnd(b, pbx), pbx |-> pbx]

(* With the addresses of this machine: the a-leg's INVITE arrives here.    *)
(* `local` is a sequence, the first address both legs use is the box.      *)
Ends(inv) == {inv.src.ip, inv.dst.ip}
Shared(a, b, local) == SelectSeq(local, LAMBDA ip : ip \in Ends(a) /\ ip \in Ends(b))
LanesAt(a, b, local) ==
  IF Shared(a, b, local) = <<>> THEN Nothing ELSE Lanes(a, b, Shared(a, b, local)[1])
LocalLanes(inv0, inv1, local) ==
  LET Inbound(inv) == inv.dst.ip \in ToSet(local)
  IN CASE Inbound(inv0) /\ ~Inbound(inv1) -> LanesAt(inv0, inv1, local)
       [] Inbound(inv1) /\ ~Inbound(inv0) -> LanesAt(inv1, inv0, local)
       [] OTHER                           -> Nothing

(* Mutant: without local addresses the leg seen first is the a-leg *)
SharedLanesByLeg(inv0, inv1, pbx) == Lanes(inv0, inv1, pbx)

(* Without: the only address the two legs share is the box *)
SharedLanes(inv0, inv1, pbx) ==
  LET Inbound(inv) == inv.dst.ip = pbx
  IN CASE Inbound(inv0) /\ ~Inbound(inv1) -> Lanes(inv0, inv1, pbx)
       [] Inbound(inv1) /\ ~Inbound(inv0) -> Lanes(inv1, inv0, pbx)
       [] Inbound(inv0) /\ Inbound(inv1)  -> IF inv0.ts <= inv1.ts THEN Lanes(inv0, inv1, pbx)
                                                                   ELSE Lanes(inv1, inv0, pbx)
       [] OTHER                           -> Nothing

(* classify_lanes *)
ClassifyLanes(f, local) ==
  LET inv0 == FirstInvite(f, 0)
      inv1 == FirstInvite(f, 1)
      shared == IpsOf(f, 0) \cap IpsOf(f, 1)   \* common_flow_ip_for_lanes
  IN IF {f.legs[i] : i \in DOMAIN f.legs} \ {0} # {1} \/ inv0 = Nothing \/ inv1 = Nothing
       THEN Nothing
       ELSE IF local # <<>> THEN LocalLanes(inv0, inv1, local)
       ELSE IF Cardinality(shared) # 1 THEN Nothing
       ELSE SharedLanes(inv0, inv1, CHOOSE ip \in shared : TRUE)

(* common_flow_ip: the box that the header of the page names.  An address  *)
(* counts once for each time it appears on the flows of leg 0.             *)
CommonFlowIp(f) ==
  LET ends == FlattenSeq([i \in DOMAIN f.msgs |->
                IF f.legs[i] = 0 THEN <<f.msgs[i].src.ip, f.msgs[i].dst.ip>> ELSE <<>>])
      shared == SelectSeq(ends, LAMBDA ip : ip \in IpsOf(f, 1))
  IN IF Len(shared) = 1 THEN shared[1] ELSE Nothing

-----------------------------------------------------------------------------
(* mid_socket: the first socket seen at the box *)
MidSocket(pbx, msgs) ==
  LET at == SelectSeq(msgs, LAMBDA m : pbx \in Ends(m))
  IN IF at[1].src.ip = pbx THEN at[1].src ELSE at[1].dst

(* two_parties: the ends of the initial INVITE, else of the first message *)
TwoParties(msgs) ==
  LET opens == SelectSeq(msgs, LAMBDA m : m.invite)
      m == IF opens = <<>> THEN msgs[1] ELSE opens[1]
  IN <<m.src, m.dst>>

(* render_flow: the columns *)
Parties(f, local) ==
  LET ln == ClassifyLanes(f, local)
  IN IF ln # Nothing THEN <<ln.a_remote, MidSocket(ln.pbx, f.msgs), ln.b_remote>>
                     ELSE TwoParties(f.msgs)

(* party_index: the very socket, else the first column with its address *)
PartyIndex(parties, addr) ==
  LET exact == {i \in DOMAIN parties : parties[i] = addr}
      alike == {i \in DOMAIN parties : parties[i].ip = addr.ip}
      found == IF exact # {} THEN exact ELSE alike
  IN IF found = {} THEN Nothing ELSE (CHOOSE i \in found : \A j \in found : i <= j) - 1

(* resolve_party_pair: an endpoint without a column is placed by the leg *)
ByLeg(m, parties, leg) ==
  LET dstMid == PartyIndex(parties, m.dst) = 1 \/ m.dst.ip = parties[2].ip
  IN CASE leg = 0 -> IF dstMid THEN <<0, 1>> ELSE <<1, 0>>
       [] leg = 1 -> IF dstMid THEN <<2, 1>> ELSE <<1, 2>>
       [] OTHER   -> <<0, 1>>
ResolvePartyPair(m, parties, leg) ==
  LET s == PartyIndex(parties, m.src)
      d == PartyIndex(parties, m.dst)
  IN IF s # Nothing /\ d # Nothing THEN <<s, d>>
       ELSE IF Len(parties) = 3 THEN ByLeg(m, parties, leg) ELSE <<0, 1>>
=============================================================================

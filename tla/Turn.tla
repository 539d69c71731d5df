-------------------------------- MODULE Turn --------------------------------
(***************************************************************************)
(* The passive TURN tracker (src/src/correlate/turn.rs) as operators on    *)
(* its tables: allocations by client address, relayed addresses and known  *)
(* servers.  An address is <<ip, port>>, a flow <<source, destination>>,   *)
(* a message its method and class with the address or channel it carries   *)
(* (src/src/decode/stun.rs).                                               *)
(***************************************************************************)
EXTENDS Integers, FiniteSets, Option

CONSTANTS MaxAllocs, MaxRelays, MaxServers,
          Configured   \* the servers given on the command line

ASSUME TurnAssumption == MaxAllocs \in Nat /\ MaxRelays \in Nat /\ MaxServers \in Nat

NewTurn == [allocs |-> <<>>, servers |-> Configured, relays |-> {}]
ClearTurn(t) == [t EXCEPT !.allocs = <<>>, !.relays = {}]

Ip(addr) == addr[1]
Put(f, x, v) == [y \in DOMAIN f \cup {x} |-> IF y = x THEN v ELSE f[y]]

(* The server's end of the flow, as far as it is known *)
ServerSide(t, flow, method) ==
  CASE Ip(flow[2]) \in t.servers -> flow[2]
    [] Ip(flow[2]) \notin t.servers /\ Ip(flow[1]) \in t.servers -> flow[1]
    [] OTHER -> IF method = "allocate" THEN flow[2] ELSE flow[1]

Learned(t, flow, m) ==
  IF m.method = "allocate" THEN [t EXCEPT !.servers = @ \cup {Ip(ServerSide(t, flow, m.method))}]
  ELSE t

(* Mutant: the relay of an allocation is kept with the allocation only *)
AllocatedQuietly(t, client, relayed) ==
  [t EXCEPT !.allocs[client].relayed = IF relayed # Nothing THEN relayed ELSE @]

Allocated(t, client, relayed) ==
  IF relayed = Nothing THEN t
  ELSE [t EXCEPT !.allocs[client].relayed = relayed, !.relays = @ \cup {relayed},
                 !.servers = @ \cup {Ip(relayed)}]

(* ingest: the tables after a message, with what it reports and unwraps *)
IngestStun(old, ts, flow, m) ==
  LET t == Learned(old, flow, m)
      known == flow[2] \in DOMAIN t.allocs
      mine == flow[1] \in DOMAIN t.allocs
      Res(x, d, media) == [turn |-> x, diags |-> d, media |-> media]
  IN CASE m.method = "allocate" /\ m.class = "request" ->
            Res([t EXCEPT !.allocs = Put(@, flow[1], [server |-> flow[2], relayed |-> Nothing,
                   created |-> ts, refreshed |-> ts, channels |-> <<>>])], <<>>, FALSE)
       [] m.method = "allocate" /\ m.class = "success" ->
            IF known THEN Res(Allocated(t, flow[2], m.address), <<"TURN_ALLOC_OK">>, FALSE)
            ELSE Res(t, <<>>, FALSE)
       [] m.method = "allocate" /\ m.class = "error" ->
            Res([t EXCEPT !.allocs = [c \in DOMAIN @ \ {flow[2]} |-> @[c]]],
                <<"TURN_ALLOC_FAILED">>, FALSE)
       [] m.method = "refresh" /\ m.class = "request" ->
            Res(IF mine THEN [t EXCEPT !.allocs[flow[1]].refreshed = ts] ELSE t, <<>>, FALSE)
       [] m.method = "refresh" /\ m.class = "error" -> Res(t, <<"TURN_REFRESH_FAILED">>, FALSE)
       [] m.method = "bind" /\ m.class = "request" ->
            Res(IF mine /\ m.address # Nothing /\ m.channel # Nothing
                  THEN [t EXCEPT !.allocs[flow[1]].channels = Put(@, m.channel, m.address)]
                  ELSE t, <<>>, FALSE)
       [] m.method \in {"send", "data"} /\ m.class = "indication" -> Res(t, <<>>, m.data)
       [] OTHER -> Res(t, <<>>, FALSE)

(* leg_of *)
LegOf(t, flow) ==
  CASE flow[2] \in t.relays /\ flow[1] \notin t.relays -> "client"
    [] flow[1] \in t.relays /\ flow[2] \notin t.relays -> "peer"
    [] OTHER -> Nothing

(* prune: the oldest allocations go, and whichever relays and servers the  *)
(* hash tables list last                                                   *)
KeptAllocs(allocs, kept) ==
  /\ Cardinality(kept) = IF Cardinality(DOMAIN allocs) > MaxAllocs THEN MaxAllocs
                         ELSE Cardinality(DOMAIN allocs)
  /\ \A c \in kept, d \in DOMAIN allocs \ kept : allocs[d].created <= allocs[c].created
KeptOf(S, max, kept) == Cardinality(kept) = IF Cardinality(S) > max THEN max ELSE Cardinality(S)

(* Mutant: only the allocations are bounded *)
PrunedAllocs(t, new) ==
  \E a \in SUBSET DOMAIN t.allocs :
    KeptAllocs(t.allocs, a) /\ new = [t EXCEPT !.allocs = [c \in a |-> @[c]]]

Pruned(t, new) ==
  \E a \in SUBSET DOMAIN t.allocs, r \in SUBSET t.relays, s \in SUBSET t.servers :
    /\ KeptAllocs(t.allocs, a) /\ KeptOf(t.relays, MaxRelays, r) /\ KeptOf(t.servers, MaxServers, s)
    /\ new = [allocs |-> [c \in a |-> t.allocs[c]], relays |-> r, servers |-> s]
=============================================================================

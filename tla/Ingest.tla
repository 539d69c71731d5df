------------------------------- MODULE Ingest -------------------------------
(***************************************************************************)
(* From frames to the media side of a call: ingest_frame and everything    *)
(* below it in src/src/correlate/mod.rs, for one call.                     *)
(*                                                                         *)
(* SIP arrives in datagrams or as the segments of one TCP connection       *)
(* (TcpReasm), descriptions fix what is negotiated (Sdp), RTP opens and    *)
(* updates streams, STUN teaches the relays (Turn), and what the rules     *)
(* (Rules) find is counted and kept.  Calls follow SipCall.                *)
(*                                                                         *)
(* The correlator is one record, since the messages framed by one segment  *)
(* are ingested in a row.  Left out: packet counters, the IP list of a     *)
(* call, and reverse_seen, which nothing reads.                            *)
(***************************************************************************)
EXTENDS SipCall, Turn, Sdp, Rules, TcpReasm

CONSTANTS Connections,      \* what a TCP connection carries: sequences of messages
          Flows, Ssrcs,     \* of RTP
          Stuns,            \* <<flow, message>>
          Configs,          \* [min, keep]: --diag-level, keep_terminated
          LossOf,           \* the loss of the stream with an SSRC, in percent
          MaxDiagnostics, MaxStreams, MaxSamples,   \* capacities
          Scenes,           \* bounds: how many frames of each kind, SIP messages and RTP from which sets
          MaxSegment, MaxBack,        \* bounds: the bytes of a segment, how far back one begins
          MaxTime

VARIABLES core,             \* the correlator
          wire, sent, tcp,  \* the connection, how much was captured, its buffer
          heard,            \* the messages ingested from it
          gap,              \* how far the connection was when capture last lost or
                            \* repeated bytes of it, or idleness dropped its buffer
          config, clock, left,
          hist              \* history of the call
vars == <<core, wire, sent, tcp, heard, gap, config, clock, left, hist>>

(* f, and what g says where f says nothing *)
Over(f, g) == [x \in DOMAIN f \cup DOMAIN g |-> IF x \in DOMAIN f THEN f[x] ELSE g[x]]

NoCall == <<>>
NewCore == [call |-> NoCall, rr |-> Nothing, done |-> FALSE, endpoints |-> {},
            streams |-> <<>>, born |-> 0, turn |-> NewTurn, ring |-> <<>>]
NewHist == [flows |-> {}, samples |-> <<>>, rr |-> {}, rates |-> <<>>,
            switched |-> {}, evicted |-> FALSE, pruned |-> FALSE, alarms |-> {}]

(* The bytes of one message: start line and headers, Content-Length, empty *)
(* line, body.  A keep-alive of two line ends is an item of its own, one   *)
(* of a single line end (`pong`) is taken with the message that follows.   *)
Crlf == [kind |-> "crlf"]
Bytes(i, m) ==
  (IF m.pong THEN <<Crlf>> ELSE <<>>) \o
  <<[kind |-> "start", item |-> i], [kind |-> "length", n |-> m.claims], Crlf, Crlf>> \o
  [j \in DOMAIN m.body |-> [kind |-> m.body[j]]]
Ping == <<Crlf, Crlf>>
Item(items, i) == IF items[i] = Nothing THEN Ping ELSE Bytes(i, items[i])
WireOf(items) == FlattenSeq([i \in DOMAIN items |-> Item(items, i)])

Messages(items) == {i \in DOMAIN items : items[i] # Nothing}
Byte(items) ==
  [kind : {"start"}, item : Messages(items)] \cup [kind : {"length"}, n : Nat]
  \cup [kind : {"crlf", "body"}]

(* A description lists finitely many payload types *)
Described(m) == "sdp" \in DOMAIN m /\ (m.sdp # Nothing => IsFiniteSet(Formats(m.sdp)))

ASSUME IngestAssumption ==
  /\ Nothing \notin BOOLEAN
  /\ MaxStreams \in Nat /\ MaxSamples \in Nat /\ MaxSegment \in Nat /\ IsFiniteSet(Configured)
  /\ \A items \in Connections \cup {<<>>} :
       /\ items \in Seq(ToSet(items))
       /\ \A i \in Messages(items) :
            /\ items[i].claims \in Nat /\ items[i].body \in Seq({"crlf", "body"})
            /\ items[i].pong \in BOOLEAN /\ Described(items[i])
  /\ \A s \in Scenes :
       /\ {"rtcp", "messages"} \subseteq DOMAIN s /\ s.rtcp \in Nat
       /\ \A m \in s.messages : Described(m)

Init ==
  /\ core = NewCore /\ hist = NewHist
  /\ left \in Scenes
  /\ \E items \in (IF left.tcp > 0 THEN Connections ELSE {<<>>}) :
       wire = [items |-> items, bytes |-> WireOf(items)]
  /\ sent = 0 /\ tcp = [buf |-> <<>>, last |-> 0] /\ heard = <<>> /\ gap = 0
  /\ config \in Configs /\ clock = 0

-----------------------------------------------------------------------------
(* add_diagnostic; the TURN tracker's carry no Call-ID *)
Counted(c, d) ==
  [c EXCEPT !.warn = @ + (IF d.sev = "Warn" THEN 1 ELSE 0),
            !.critical = @ + (IF d.sev = "Critical" THEN 1 ELSE 0)]
AddDiag(st, d, ofCall) ==
  IF Level(d.sev) < Level(config.min) THEN st
  ELSE [st EXCEPT
    !.ring = LET r == Append(@, d)
             IN IF Len(r) > MaxDiagnostics THEN Tail(r) ELSE r,
    !.call = IF ~ofCall \/ @ = NoCall THEN @
             ELSE Counted(@, d)]
AddDiags(st, ds, ofCall) == FoldLeft(LAMBDA s, d : AddDiag(s, d, ofCall), st, ds)

(* check_turn_legs: the streams through TURN, by leg *)
LegDiags(streams) ==
  LET Of(leg) == {k \in DOMAIN streams : streams[k].via /\ streams[k].leg = leg}
      Loss(S) == MapThenSumSet(LAMBDA k : LossOf[k[2]], S)
  IN IF LegsApart(Loss(Of("client")), Cardinality(Of("client")),
                  Loss(Of("peer")), Cardinality(Of("peer")))
       THEN <<[sev |-> "Warn", code |-> "TURN_LEG_IMBALANCE"]>> ELSE <<>>

(* evict_if_needed: the streams that began first go.  Their times are all  *)
(* different here; among equal ones the sort leaves the order open.        *)
EvictStreams(st) ==
  LET later(k) == {j \in DOMAIN st.streams : st.streams[j].born > st.streams[k].born}
      kept == {k \in DOMAIN st.streams : Cardinality(later(k)) < MaxStreams}
  IN [st EXCEPT !.streams = [k \in kept |-> @[k]]]

(* Mutant: what was noted of the INVITE survives the call *)
RemovedKeepsRoute(st) ==
  [st EXCEPT !.call = NoCall, !.endpoints = {}, !.streams = <<>>, !.done = FALSE]

(* remove_call and prune_removed_bookkeeping *)
Removed(st) ==
  [st EXCEPT !.call = NoCall, !.endpoints = {}, !.streams = <<>>, !.done = FALSE, !.rr = Nothing]

OneWayDiags(st) ==
  IF OneWay(DOMAIN st.streams) THEN <<[sev |-> "Warn", code |-> "ONE_WAY_MEDIA"]>> ELSE <<>>

(* on_call_terminal *)
OnCallTerminal(st) ==
  LET told == AddDiags(st, OneWayDiags(st) \o LegDiags(st.streams), TRUE)
  IN IF config.keep THEN EvictStreams([told EXCEPT !.done = TRUE]) ELSE Removed(told)

(* apply_sdp_clocks *)
ApplySdpClocks(st) ==
  LET neg == st.call.neg
      Clocked(s) == IF s.last_pt \in ToSet(neg.pts) THEN [s EXCEPT !.rate = RateFor(neg, s.last_pt)]
                    ELSE s
  IN [st EXCEPT !.streams = [k \in DOMAIN @ |-> Clocked(@[k])]]

SdpIps(s) == ({s.ip} \cup {m.ip : m \in ToSet(s.media)}) \ {Nothing}

Learn(st, s) ==
  LET n == Offered(s)
  IN ApplySdpClocks([st EXCEPT !.call.neg = Negotiate(@, n), !.endpoints = @ \cup n.endpoints])

MessageDiags(m, rr) ==
  CheckContact(m.contact, Nothing, IsPublic(m.src) \/ IsPublic(m.dst)) \o
  (IF m.req THEN CheckRecordRoute(m.method, m.tagged, m.routes, rr) ELSE <<>>) \o
  (IF m.sdp # Nothing THEN CheckSdp(SdpIps(m.sdp)) ELSE <<>>)

(* ingest_sip *)
Noted(st, m) ==
  [st EXCEPT !.rr = IF InitialInvite(m) /\ @ = Nothing THEN m.rrs > 0 ELSE @]
Applied(st, m) ==
  [st EXCEPT !.call = ApplySip(
     IF @ = NoCall THEN Over(NewCall, [neg |-> NoMedia, warn |-> 0, critical |-> 0, via |-> FALSE])
     ELSE @, m, clock)]
Before(st, m) ==
  LET noted == Noted(st, m)
      applied == Applied(noted, m)
      learned == IF m.sdp # Nothing THEN Learn(applied, m.sdp) ELSE applied
  IN AddDiags(learned, MessageDiags(m, noted.rr = TRUE), TRUE)
Ends(st) == st.call.state \in Terminal /\ ~st.done
IngestSip(st, m) == LET s == Before(st, m) IN IF Ends(s) THEN OnCallTerminal(s) ELSE s

(* What the history keeps of a message *)
Route(h, m) == IF InitialInvite(m) THEN h.rr \cup {m.rrs > 0} ELSE h.rr
Warned(m, rr) == m.req /\ CheckRecordRoute(m.method, m.tagged, m.routes, rr) # <<>>
BothWays(flows) == \E f \in flows : Reversed(f) \in flows
StatedRate(s, pt) == IF ClockRate(s, pt) > 0 THEN ClockRate(s, pt) ELSE DefaultRate(pt)
Recall(p, m) ==
  LET s == Before(p.core, m)
      rr == Route(p.hist, m)
      justly == IF Warned(m, Noted(p.core, m).rr = TRUE) THEN TRUE \in rr ELSE rr # {TRUE}
      routed == IF Warned(m, TRUE) THEN {<<"route", justly>>} ELSE {}
      oneway == IF Ends(s) /\ OneWay(DOMAIN s.streams)
                  THEN {<<"one-way", p.hist.evicted \/ ~BothWays(p.hist.flows)>>} ELSE {}
      told == IF m.sdp = Nothing THEN <<>>
              ELSE [pt \in ToSet(PayloadTypes(m.sdp)) |-> StatedRate(m.sdp, pt)]
      h == [p.hist EXCEPT !.rr = rr, !.rates = Over(@, told), !.alarms = @ \cup routed \cup oneway]
  IN [core |-> IngestSip(p.core, m),
      hist |-> IF Ends(s) /\ ~config.keep
                 THEN [NewHist EXCEPT !.alarms = h.alarms, !.pruned = h.pruned] ELSE h]
State == [core |-> core, hist |-> hist]

Spend(kind) == left[kind] > 0 /\ left' = [left EXCEPT ![kind] = @ - 1]
TcpUnchanged == UNCHANGED <<wire, sent, tcp, heard, gap, config>>

SipDatagram(m) ==
  /\ Spend("sip")
  /\ core' = Recall(State, m).core /\ hist' = Recall(State, m).hist
  /\ TcpUnchanged /\ UNCHANGED clock

-----------------------------------------------------------------------------
(* parse_sip on a framed message.  A description whose body is not whole   *)
(* is taken for an empty one.                                              *)
EmptySession == [ip |-> Nothing, media |-> <<>>]
Starts(b) == wire.bytes[b[1]].kind = "start"
ItemOf(b) == wire.bytes[b[1]].item
Parsed(b) ==
  LET m == wire.items[ItemOf(b)]
      body == {b[1] + 3 + j : j \in DOMAIN m.body}
  IN IF m.sdp # Nothing /\ ~(body \subseteq ToSet(b)) THEN [m EXCEPT !.sdp = EmptySession] ELSE m

Heard(p, b) == IF Starts(b) THEN Recall(p, Parsed(b)) ELSE p

(* Bytes that capture saw: feed appends them, whatever their sequence      *)
(* numbers say                                                             *)
Receive(data) ==
  LET r == Feed(tcp.buf, data, wire.bytes)
      sips == Only(r.out, {b \in ToSet(r.out) : Starts(b)})
      done == FoldLeft(Heard, State, r.out)
  IN /\ tcp' = [buf |-> r.buf, last |-> clock]
     /\ heard' = heard \o [i \in DOMAIN sips |-> ItemOf(sips[i])]
     /\ core' = done.core /\ hist' = done.hist

(* A segment with the next n bytes *)
Segment(n) ==
  /\ left.tcp > 0 /\ n <= MaxSegment /\ sent + n <= Len(wire.bytes)
  /\ Receive([i \in 1 .. n |-> sent + i]) /\ sent' = sent + n
  /\ UNCHANGED <<wire, gap, config, clock, left>>

(* A segment with earlier bytes: sent again, or overtaken by later ones    *)
Repeat(from, n) ==
  /\ Spend("repeat") /\ n <= MaxSegment /\ from + n <= sent /\ sent <= from + MaxBack
  /\ Receive([i \in 1 .. n |-> from + i]) /\ gap' = sent
  /\ UNCHANGED <<wire, sent, config, clock>>

(* Capture drops a segment, or has yet to see it *)
LoseSegment(n) ==
  /\ Spend("loss") /\ n <= MaxSegment /\ sent + n <= Len(wire.bytes)
  /\ sent' = sent + n /\ gap' = sent + n
  /\ UNCHANGED <<core, wire, tcp, heard, config, clock, hist>>

-----------------------------------------------------------------------------
(* observe_existing_rtp *)
KnownRtp(st, key, pt) ==
  AddDiags([st EXCEPT !.streams[key].last_pt = pt, !.call.last_ts = clock],
           CheckPtChange(pt, st.streams[key].last_pt), TRUE)

TurnNotes(encap, leg) ==
  (CASE encap = "channel" -> <<[sev |-> "Info", code |-> "TURN_CHANNEL_MEDIA"]>>
     [] encap = "send" -> <<[sev |-> "Info", code |-> "TURN_SEND_IND_MEDIA"]>>
     [] OTHER -> <<>>) \o
  (IF leg # Nothing THEN <<[sev |-> "Info", code |-> "TURN_RELAY_MEDIA"]>> ELSE <<>>)

(* The rest of ingest_rtp *)
NewRtp(st, key, pt, encap) ==
  LET neg == st.call.neg
      leg == LegOf(st.turn, key[1])
      via == leg # Nothing \/ encap # "direct"
      stream == [pt |-> pt, last_pt |-> pt, rate |-> RateFor(neg, pt),
                 codec |-> CodecFor(neg, pt), leg |-> leg, via |-> via,
                 rtt |-> <<>>, oneway |-> <<>>, born |-> st.born]
  IN AddDiags([st EXCEPT !.streams = Put(@, key, stream), !.born = @ + 1,
                         !.call.via = @ \/ via, !.call.last_ts = clock],
              CheckRtpPt(pt, ToSet(neg.pts)) \o CheckRtpFlow(key[1], neg.endpoints) \o
              TurnNotes(encap, leg), TRUE)

IngestRtp(st, key, pt, encap) ==
  CASE key \in DOMAIN st.streams -> KnownRtp(st, key, pt)
    [] key \notin DOMAIN st.streams /\ {key[1][1], key[1][2]} \cap st.endpoints # {} ->
         NewRtp(st, key, pt, encap)
    [] OTHER -> st

Accepted(h, st, key) ==
  [h EXCEPT !.flows = IF key \in DOMAIN st.streams THEN @ \cup {key[1]} ELSE @,
            !.switched = IF key \in DOMAIN core.streams
                           THEN IF st.streams[key].last_pt # core.streams[key].last_pt
                                  THEN @ \cup {key} ELSE @
                           ELSE @ \ {key},
            !.samples = IF key \in DOMAIN core.streams \/ key \notin DOMAIN st.streams THEN @
                        ELSE Put(@, key, <<>>)]

(* RTP by itself or in a ChannelData message *)
Rtp(flow, ssrc, pt, encap) ==
  /\ Spend("rtp")
  /\ core' = IngestRtp(core, <<flow, ssrc>>, pt, encap)
  /\ hist' = Accepted(hist, core', <<flow, ssrc>>)
  /\ TcpUnchanged /\ UNCHANGED clock

(* Mutant: a full history keeps its oldest samples *)
SampledFirst(seq, v) == IF Len(seq) < MaxSamples THEN Append(seq, v) ELSE seq
Sampled(seq, v) == LET s == Append(seq, v) IN IF Len(s) > MaxSamples THEN Tail(s) ELSE s

(* ingest_rtcp: the round trip of a report block, the delay of a sender    *)
(* report.  Every stream of that SSRC takes the sample; a report from a    *)
(* known SSRC keeps the call alive.                                        *)
Rtcp(from, ssrc, field) ==
  /\ Spend("rtcp") /\ (field = "oneway" => from = ssrc)
  /\ core' = [core EXCEPT
       !.streams = [k \in DOMAIN @ |->
         IF k[2] # ssrc THEN @[k]
         ELSE [core.streams[k] EXCEPT ![field] = Sampled(@, left.rtcp)]],
       !.call = IF \E k \in DOMAIN core.streams : k[2] = from THEN [@ EXCEPT !.last_ts = clock]
                ELSE @]
  /\ hist' = IF field = "oneway" THEN hist
             ELSE [hist EXCEPT !.samples = [k \in DOMAIN @ |->
                     IF k[2] = ssrc THEN Append(@[k], left.rtcp) ELSE @[k]]]
  /\ TcpUnchanged /\ UNCHANGED clock

TurnDiags(codes) ==
  [i \in DOMAIN codes |-> [code |-> codes[i],
     sev |-> IF codes[i] = "TURN_ALLOC_FAILED" THEN "Warn" ELSE "Info"]]

(* A STUN message; an indication brings RTP *)
Stun(flow, m, ssrc, pt) ==
  /\ Spend("stun")
  /\ LET r == IngestStun(core.turn, clock, flow, m)
         told == AddDiags([core EXCEPT !.turn = r.turn], TurnDiags(r.diags), FALSE)
     IN IF r.media
          THEN /\ core' = IngestRtp(told, <<flow, ssrc>>, pt, "send")
               /\ hist' = Accepted(hist, core', <<flow, ssrc>>)
          ELSE core' = told /\ UNCHANGED hist
  /\ TcpUnchanged /\ UNCHANGED clock

-----------------------------------------------------------------------------
(* evict_stale *)
Stale(st, now) ==
  /\ config.ttl > 0 /\ st.call # NoCall
  /\ LET c == st.call
         end == GetOrInsert(c.end_ts, GetOrInsert(c.bye_ts, c.last_ts))
         t == IF c.state \in Terminal THEN end ELSE c.last_ts
     IN t < now - config.ttl

(* maybe_periodic_flush, after the interval *)
Flush ==
  /\ clock < MaxTime /\ clock' = clock + 1
  /\ \E new \in [allocs : {[c \in a |-> core.turn.allocs[c]] : a \in SUBSET DOMAIN core.turn.allocs},
                  relays : SUBSET core.turn.relays, servers : SUBSET core.turn.servers] :
       /\ Pruned(core.turn, new)
       /\ LET st == [core EXCEPT !.turn = new]
              kept == EvictStreams(st)
          IN IF Stale(st, clock')
               THEN /\ core' = Removed(st)
                    /\ hist' = [NewHist EXCEPT !.alarms = hist.alarms,
                                              !.pruned = hist.pruned \/ new.relays # core.turn.relays]
               ELSE /\ core' = kept
                    /\ hist' = [hist EXCEPT !.evicted = @ \/ kept # st,
                                   !.pruned = @ \/ new.relays # core.turn.relays]
  /\ LET idle == tcp.buf # <<>> /\ clock' - tcp.last >= IdleUs
     IN /\ tcp' = IF idle THEN [tcp EXCEPT !.buf = <<>>] ELSE tcp
        /\ gap' = IF idle THEN sent ELSE gap
  /\ UNCHANGED <<wire, sent, heard, config, left>>

(* Correlator::clear; the TCP buffers stay *)
Clear ==
  /\ Spend("clear")
  /\ core' = [NewCore EXCEPT !.turn = ClearTurn(core.turn)]
  /\ hist' = [NewHist EXCEPT !.alarms = hist.alarms]
  /\ TcpUnchanged /\ UNCHANGED clock

Next ==
  \/ \E m \in left.messages : SipDatagram(m)
  \/ \E n \in 1 .. MaxSegment : Segment(n) \/ LoseSegment(n)
  \/ \E from \in 0 .. sent, n \in 1 .. MaxSegment : Repeat(from, n)
  \/ \E f \in Flows, s \in Ssrcs, pt \in left.pts, e \in left.encaps : Rtp(f, s, pt, e)
  \/ \E r, s \in Ssrcs, field \in {"rtt", "oneway"} : Rtcp(r, s, field)
  \/ \E x \in Stuns, s \in Ssrcs, pt \in left.pts : Stun(x[1], x[2], s, pt)
  \/ Flush
  \/ Clear

Spec == Init /\ [][Next]_vars

-----------------------------------------------------------------------------
(* A stream whose payload type never changed is measured with the clock    *)
(* rate of the first description that listed it, else (or if that was 0)   *)
(* with the default, whichever came first, the media, the offer or the     *)
(* answer (ingest_sip, apply_sdp_clocks, ingest_rtp).                      *)
RatesFollowSdp ==
  \A k \in DOMAIN core.streams \ hist.switched :
    LET s == core.streams[k]
    IN s.rate = IF s.pt \in DOMAIN hist.rates THEN hist.rates[s.pt] ELSE DefaultRate(s.pt)

(* ONE_WAY_MEDIA is never reported of a call that had RTP in both          *)
(* directions of a pair of addresses, unless the stream cap removed it     *)
(* (check_oneway_at_teardown).                                             *)
OneWayIsOneWay == <<"one-way", FALSE>> \notin hist.alarms

(* A request inside a dialog without Route draws RR_NOT_HONORED only if an *)
(* INVITE carried Record-Route since the call entered the table, and       *)
(* always if all of them did: nothing is left of a call that was removed   *)
(* and its Call-ID used again.  Exception: among several INVITEs of a call *)
(* that stays the first decides, so a warning can be about an INVITE that  *)
(* was rejected and sent again without Record-Route (invite_rr,            *)
(* prune_removed_bookkeeping, check_record_route).                         *)
RouteWarningsSound == <<"route", FALSE>> \notin hist.alarms

(* Media through a relay that is allocated is recognised: the address of   *)
(* every allocation is a known relay, unless pruning dropped it            *)
(* (TurnTracker::ingest, leg_of).                                          *)
RelaysKnown ==
  ~hist.pruned => \A c \in DOMAIN core.turn.allocs :
    core.turn.allocs[c].relayed \in core.turn.relays \cup {Nothing}

(* Maintenance bounds the TURN tables and the streams, however many were   *)
(* learned since the last one (prune, evict_if_needed).                    *)
MaintenanceBounds ==
  [][clock' # clock =>
       /\ Cardinality(DOMAIN core'.turn.allocs) <= MaxAllocs
       /\ Cardinality(core'.turn.relays) <= MaxRelays
       /\ Cardinality(core'.turn.servers) <= MaxServers
       /\ Cardinality(DOMAIN core'.streams) <= MaxStreams]_vars

(* A stream holds the newest round trips reported for its SSRC since it    *)
(* began (ingest_rtcp).                                                    *)
SamplesNewest ==
  \A k \in DOMAIN core.streams :
    LET all == hist.samples[k]
        from == IF Len(all) > MaxSamples THEN Len(all) - MaxSamples ELSE 0
    IN core.streams[k].rtt = SubSeq(all, from + 1, Len(all))

(* Where a message of the connection begins and ends *)
Begin(i) == Len(WireOf(SubSeq(wire.items, 1, i - 1))) + 1
End(i) == Len(WireOf(SubSeq(wire.items, 1, i)))
Real == Messages(wire.items)
Honest(i) == wire.items[i].claims = Len(wire.items[i].body)
Clean == {i \in Real : ~wire.items[i].pong}

(* Without a fault, exactly the messages that were captured whole have     *)
(* been ingested, in order, as soon as their last byte arrived, however    *)
(* the stream was cut into segments (TcpReassembler::feed).  Exception: a  *)
(* message behind a keep-alive of a single line end begins with that line  *)
(* end, does not look like SIP and is dropped (looks_like_sip).            *)
FramedExactly ==
  (gap = 0 /\ \A i \in Real : Honest(i)) =>
    /\ ToSet(heard) = {i \in Clean : End(i) <= sent}
    /\ \A a, b \in DOMAIN heard : a < b => heard[a] < heard[b]

(* Faults are forgotten: bytes lost, repeated, out of order or dropped     *)
(* when idle, and a wrong Content-Length.  Behind Horizon bytes without    *)
(* one, at most one more message is lost (its start may be joined to a     *)
(* line end left over): all after it are ingested as soon as they are      *)
(* whole, but for those behind a single line end (the drop of an oversized *)
(* buffer).                                                                *)
Horizon == 2 * MaxStreamBuf
Settled(p) == p > gap + Horizon /\ \A j \in Real : Honest(j) \/ p > End(j) + Horizon
Resyncs ==
  \A i \in Clean :
    (End(i) <= sent /\ \E j \in Real : j < i /\ Settled(Begin(j))) => i \in ToSet(heard)

(* SIP over TCP is cut into its messages, exactly while nothing is lost or *)
(* repeated, and again soon after a fault (TcpReassembler::feed).          *)
StreamsFramed == FramedExactly /\ Resyncs
=============================================================================

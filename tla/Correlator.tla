----------------------------- MODULE Correlator -----------------------------
(***************************************************************************)
(* The correlator (src/src/correlate/mod.rs) and the call/stream tables of *)
(* the registry it owns (src/src/store/registry.rs): how SIP and RTP       *)
(* frames, the periodic maintenance and the operator's hints change the    *)
(* call table, the stream table, the indexes over them and the per-call    *)
(* bookkeeping.                                                            *)
(*                                                                         *)
(* A map is a set of present keys or a total function with a default for   *)
(* absent keys; a Vec used as an index is the number of times it holds     *)
(* each key, so that a stale or a duplicated entry is a state of its own.  *)
(* A message carries, beyond the fields of SipCall, `sdp`: the set of      *)
(* media endpoints of its body.  Time counts maintenance periods (5s), so  *)
(* a flush is due when the clock moved.  Statistics, diagnostics, TURN and *)
(* TCP state are not kept here.                                            *)
(***************************************************************************)
EXTENDS SipCall, FiniteSets

CONSTANTS CallIds,         \* Call-IDs of the capture
          Ips,             \* signalling hosts
          Endpoints,       \* media sockets
          Keys,            \* stream keys: records [src, dst, ssrc]
          Messages,        \* SIP messages: SipCall's records with `sdp`
          Matching,        \* Call-IDs that match the operator's filter
          KeepTerminated,  \* FALSE for a headless recording
          Ttl,             \* call_ttl_secs; 0 disables it
          MaxCalls, MaxStreams,
          PinMax,          \* SEARCH_PIN_MAX
          FocusHints,      \* the sets of calls the operator may focus
          Filters,         \* whether the operator may set the filter
          MaxTs,           \* bound on the clock
          MaxCount         \* bound on the per-IP counters

ASSUME CorrelatorAssumption ==
  /\ IsFiniteSet(CallIds) /\ IsFiniteSet(Keys)
  /\ None \notin CallIds
  /\ KeepTerminated \in BOOLEAN
  /\ Ttl \in Nat /\ MaxCalls \in Nat /\ MaxStreams \in Nat
  /\ PinMax \in Nat /\ MaxTs \in Nat /\ MaxCount \in Nat
  /\ FocusHints \subseteq SUBSET CallIds /\ Filters \subseteq BOOLEAN
  /\ \A k \in Keys : k.src \in Endpoints /\ k.dst \in Endpoints
  /\ \A m \in Messages : /\ m.sdp \subseteq Endpoints
                         /\ m.src \in Ips /\ m.dst \in Ips

VARIABLES
  live,            \* keys of reg.calls
  call,            \* values of reg.calls
  order,           \* reg.order: occurrences of each Call-ID
  owner,           \* reg.streams: the call_id of each stream, None if absent
  first_ts,        \* RtpStream::first_ts_us
  stream_index,    \* reg.stream_index: occurrences of each key per call
  ssrc_index,      \* reg.ssrc_index: occurrences of each key
  endpoint_call,   \* reg.endpoint_call, None if absent
  invite_rr,       \* keys of invite_rr
  terminal_done,
  active,          \* IpStats::active_calls
  focus,           \* reg.focus_hint: the primary call and its linked leg
  search,          \* reg.search_hint is set
  search_matches,
  last_flush,      \* last_flush_us
  now              \* timestamp of the newest frame

calltable == <<live, call, order>>
media == <<owner, first_ts, stream_index, ssrc_index, endpoint_call>>
bookkeeping == <<invite_rr, terminal_done>>
hints == <<focus, search, search_matches>>
vars == <<calltable, media, bookkeeping, active, hints, last_flush, now>>

Init ==
  /\ live = {}
  /\ call = [c \in CallIds |-> NewCall]
  /\ order = [c \in CallIds |-> 0]
  /\ owner = [k \in Keys |-> None]
  /\ first_ts = [k \in Keys |-> 0]
  /\ stream_index = [c \in CallIds |-> [k \in Keys |-> 0]]
  /\ ssrc_index = [k \in Keys |-> 0]
  /\ endpoint_call = [e \in Endpoints |-> None]
  /\ invite_rr = {} /\ terminal_done = {}
  /\ active = [i \in Ips |-> 0]
  /\ focus = {} /\ search = FALSE /\ search_matches = {}
  /\ last_flush = None
  /\ now = 1

-----------------------------------------------------------------------------
IsTerminal(r) == r.state \in Terminal

(* pinned_set *)
Pinned(matches) == matches \cup focus

(* The sort key of evict_if_needed: `terminated as u8` (FALSE sorts        *)
(* first), then invite_ts, a missing one last.                             *)
EvictRank(r) ==
  (IF IsTerminal(r) THEN MaxTs + 2 ELSE 0) + GetOrInsert(r.invite_ts, MaxTs + 1)

(* The first n elements of S by rank.  The code breaks ties by Call-ID or  *)
(* in hash order: any choice.                                              *)
Lesser(a, b) == IF a < b THEN a ELSE b
FirstOf(S, n, rank) ==
  {V \in SUBSET S : /\ Cardinality(V) = Lesser(n, Cardinality(S))
                    /\ \A v \in V, s \in S \ V : rank[v] <= rank[s]}

(* Mutant: eviction starts one call too late *)
VictimsLate(cs, tab, pins) ==
  IF Cardinality(cs) <= MaxCalls + 1
    THEN {{}}
    ELSE FirstOf(cs \ pins, Cardinality(cs) - MaxCalls,
                 [c \in cs |-> EvictRank(tab[c])])

(* evict_if_needed: the sets of calls, then of streams, it may drop *)
CapacityVictims(cs, tab, pins) ==
  IF Cardinality(cs) <= MaxCalls
    THEN {{}}
    ELSE FirstOf(cs \ pins, Cardinality(cs) - MaxCalls,
                 [c \in cs |-> EvictRank(tab[c])])

StreamVictims(ks) ==
  IF Cardinality(ks) <= MaxStreams
    THEN {{}}
    ELSE FirstOf(ks, Cardinality(ks) - MaxStreams, first_ts)

(* evict_stale *)
StaleSince(r) ==
  IF IsTerminal(r) THEN GetOrInsert(GetOrInsert(r.end_ts, r.bye_ts), r.last_ts)
                   ELSE r.last_ts

(* Mutant: the time-to-live ignores the pins *)
StaleUnpinned(pins, ts) ==
  {c \in live : /\ Ttl # 0 /\ ts # 0
                /\ StaleSince(call[c]) # 0
                /\ StaleSince(call[c]) + Ttl < ts}

Stale(pins, ts) ==
  {c \in live \ pins : /\ Ttl # 0 /\ ts # 0
                       /\ StaleSince(call[c]) # 0
                       /\ StaleSince(call[c]) + Ttl < ts}

(* refresh_search_matches: the newest PinMax matches *)
SearchMatches(on) ==
  IF on THEN FirstOf(live \cap Matching, PinMax,
                     [c \in live |-> 0 - GetOrInsert(call[c].invite_ts, 0)])
        ELSE {{}}

Streams == {k \in Keys : owner[k] # None}

(* Mutant: removal leaves a call's only stream behind *)
StreamsOfTwo(gone) == {k \in Keys : \E c \in gone : stream_index[c][k] > 1}

(* The streams remove_calls finds through stream_index *)
StreamsOf(gone) == {k \in Keys : \E c \in gone : stream_index[c][k] > 0}

(* The tables a step has updated before it removes anything *)
Tables == [live |-> live, call |-> call, order |-> order,
           endpoint_call |-> endpoint_call,
           invite_rr |-> invite_rr, terminal_done |-> terminal_done]

(* remove_calls(gone) on the tables t, forget_stream on each stream of cut *)
(* and prune_removed_bookkeeping                                           *)
Remove(t, gone, cut) ==
  LET dropped == StreamsOf(gone) \cup cut
  IN /\ live' = t.live \ gone
     /\ call' = [c \in CallIds |-> IF c \in gone THEN NewCall ELSE t.call[c]]
     /\ order' = [c \in CallIds |-> IF c \in gone THEN 0 ELSE t.order[c]]
     /\ owner' = [k \in Keys |-> IF k \in dropped THEN None ELSE owner[k]]
     /\ first_ts' = [k \in Keys |-> IF k \in dropped THEN 0 ELSE first_ts[k]]
     /\ stream_index' = [c \in CallIds |-> [k \in Keys |->
          IF c \in gone \/ (k \in dropped /\ owner[k] = c)
            THEN 0 ELSE stream_index[c][k]]]
     /\ ssrc_index' = [k \in Keys |-> IF k \in dropped THEN 0 ELSE ssrc_index[k]]
     /\ endpoint_call' = [e \in Endpoints |->
          IF t.endpoint_call[e] \in gone THEN None ELSE t.endpoint_call[e]]
     /\ invite_rr' = t.invite_rr \ gone
     /\ terminal_done' = t.terminal_done \ gone

(* evict_if_needed after the calls `gone` went *)
EvictIfNeeded(t, gone, pins) ==
  \E more \in CapacityVictims(t.live \ gone, t.call, pins) :
    \E cut \in StreamVictims(Streams \ StreamsOf(gone \cup more)) :
      Remove(t, gone \cup more, cut)

-----------------------------------------------------------------------------
Times(ips, i) == Cardinality({n \in DOMAIN ips : ips[n] = i})
(* Mutant: an INVITE counts for its source only *)
HeldBySource(ips) == [i \in Ips |-> active[i] + (IF ips[1] = i THEN 1 ELSE 0)]

(* IpStats::active_add over a list of hosts *)
Held(ips) == [i \in Ips |-> active[i] + Times(ips, i)]
Released(ips) == [i \in Ips |-> IF active[i] < Times(ips, i)
                                  THEN 0 ELSE active[i] - Times(ips, i)]

(* ingest_sip up to the terminal check *)
WithMessage(c, m) ==
  [live          |-> live \cup {c},
   call          |-> [call EXCEPT ![c] = ApplySip(@, m, now)],
   order         |-> IF c \in live THEN order ELSE [order EXCEPT ![c] = @ + 1],
   endpoint_call |-> [e \in Endpoints |->
                        IF e \in m.sdp THEN c ELSE endpoint_call[e]],
   invite_rr     |-> IF InitialInvite(m) THEN invite_rr \cup {c} ELSE invite_rr,
   terminal_done |-> IF IsTerminal(ApplySip(call[c], m, now))
                       THEN terminal_done \cup {c} ELSE terminal_done]

(* The message is the one that sends its call through on_call_terminal *)
Ends(c, m) == IsTerminal(ApplySip(call[c], m, now)) /\ c \notin terminal_done

IngestSip(c, m) ==
  /\ ~Ends(c, m)
  /\ Remove(WithMessage(c, m), {}, {})
  /\ active' = IF InitialInvite(m) THEN Held(<<m.src, m.dst>>) ELSE active
  /\ \A i \in Ips : active'[i] <= MaxCount
  /\ UNCHANGED <<hints, last_flush, now>>

(* on_call_terminal, reached from ingest_sip; the message is never an      *)
(* INVITE, which leaves the call Dialing                                   *)
OnCallTerminal(c, m) ==
  LET t == WithMessage(c, m)
  IN /\ Ends(c, m)
     /\ active' = Released(t.call[c].active_ips)
     /\ \/ KeepTerminated /\ EvictIfNeeded(t, {}, Pinned(search_matches))
        \/ ~KeepTerminated /\ Remove(t, {c}, {})
     /\ UNCHANGED <<hints, last_flush, now>>

(* observe_existing_rtp *)
Touched(c) == IF c \in live THEN [call EXCEPT ![c].last_ts = now] ELSE call

ExistingRtp(k) ==
  /\ owner[k] # None
  /\ call' = Touched(owner[k])
  /\ UNCHANGED <<live, order, media, bookkeeping, active, hints, last_flush, now>>

(* ingest_rtp for a stream not seen yet; without an SDP endpoint at either *)
(* end the packet is ignored                                               *)
NewRtp(k) ==
  LET c == GetOrInsert(endpoint_call[k.src], endpoint_call[k.dst])
  IN /\ owner[k] = None
     /\ c # None
     /\ owner' = [owner EXCEPT ![k] = c]
     /\ first_ts' = [first_ts EXCEPT ![k] = now]
     /\ stream_index' = [stream_index EXCEPT ![c][k] = @ + 1]
     /\ ssrc_index' = [ssrc_index EXCEPT ![k] = @ + 1]
     /\ call' = Touched(c)
     /\ UNCHANGED <<live, order, endpoint_call, bookkeeping, active, hints,
                    last_flush, now>>

(* ingest_rtcp: the call of a stream with the reporter's SSRC *)
IngestRtcp(ssrc) ==
  \E k \in Keys :
    /\ k.ssrc = ssrc /\ ssrc_index[k] > 0 /\ owner[k] # None
    /\ call' = Touched(owner[k])
    /\ UNCHANGED <<live, order, media, bookkeeping, active, hints, last_flush,
                   now>>

(* maybe_periodic_flush, not due: ts is 0 when the interface is idle *)
PrimeFlush(ts) ==
  /\ last_flush = None
  /\ last_flush' = ts
  /\ UNCHANGED <<calltable, media, bookkeeping, active, hints, now>>

(* maybe_periodic_flush, due *)
PeriodicFlush(ts) ==
  /\ last_flush # None
  /\ ts > last_flush
  /\ last_flush' = ts
  /\ \E matches \in IF search THEN SearchMatches(TRUE) ELSE {search_matches} :
       /\ search_matches' = matches
       /\ EvictIfNeeded(Tables, Stale(Pinned(matches), ts), Pinned(matches))
  /\ UNCHANGED <<active, focus, search, now>>

(* publish hands the operator's focus and filter to the correlator:        *)
(* set_focus always stores, set_search_hint recomputes only on a change    *)
SetHints(f, on) ==
  /\ focus' = f
  /\ search' = on
  /\ \E matches \in IF on = search THEN {search_matches} ELSE SearchMatches(on) :
       search_matches' = matches
  /\ UNCHANGED <<calltable, media, bookkeeping, active, last_flush, now>>

(* Correlator::clear and Registry::clear; the filter itself is kept *)
Clear ==
  /\ live' = {}
  /\ call' = [c \in CallIds |-> NewCall]
  /\ order' = [c \in CallIds |-> 0]
  /\ owner' = [k \in Keys |-> None]
  /\ first_ts' = [k \in Keys |-> 0]
  /\ stream_index' = [c \in CallIds |-> [k \in Keys |-> 0]]
  /\ ssrc_index' = [k \in Keys |-> 0]
  /\ endpoint_call' = [e \in Endpoints |-> None]
  /\ invite_rr' = {} /\ terminal_done' = {}
  /\ active' = [i \in Ips |-> 0]
  /\ focus' = {} /\ search_matches' = {}
  /\ last_flush' = None
  /\ UNCHANGED <<search, now>>

(* Capture time passes *)
Tick ==
  /\ now < MaxTs
  /\ now' = now + 1
  /\ UNCHANGED <<calltable, media, bookkeeping, active, hints, last_flush>>

Next ==
  \/ \E c \in CallIds, m \in Messages : IngestSip(c, m) \/ OnCallTerminal(c, m)
  \/ \E k \in Keys : ExistingRtp(k) \/ NewRtp(k) \/ IngestRtcp(k.ssrc)
  \/ \E ts \in {0, now} : PrimeFlush(ts) \/ PeriodicFlush(ts)
  \/ \E f \in FocusHints, on \in Filters : SetHints(f, on)
  \/ Clear
  \/ Tick

Spec == Init /\ [][Next]_vars

-----------------------------------------------------------------------------
Optional(S) == S \cup {None}

(* The types of the tables and of their indexes *)
TablesOK ==
  /\ live \subseteq CallIds
  /\ order \in [CallIds -> Nat]
  /\ owner \in [Keys -> Optional(CallIds)]
  /\ stream_index \in [CallIds -> [Keys -> Nat]]
  /\ ssrc_index \in [Keys -> Nat]
  /\ endpoint_call \in [Endpoints -> Optional(CallIds)]
  /\ invite_rr \subseteq CallIds /\ terminal_done \subseteq CallIds

(* Every index says the same as the tables: a stream is listed once under  *)
(* its call and once under its SSRC while it exists and nowhere afterwards,*)
(* its call exists, a media endpoint points to an existing call, and the   *)
(* display order lists each call once.  This is what lets the RTP and RTCP *)
(* paths trust the indexes after evictions, removals and reused keys.      *)
StreamsIndexed ==
  \A k \in Keys : /\ ssrc_index[k] = IF owner[k] = None THEN 0 ELSE 1
                  /\ \A c \in CallIds :
                       stream_index[c][k] = IF owner[k] = c THEN 1 ELSE 0
ReferencesLive ==
  /\ \A k \in Keys : owner[k] # None => owner[k] \in live
  /\ \A e \in Endpoints : endpoint_call[e] # None => endpoint_call[e] \in live
OrderListsCalls ==
  \A c \in CallIds : order[c] = IF c \in live THEN 1 ELSE 0

(* "invite_rr / terminal_done would otherwise grow forever": neither holds *)
(* a Call-ID that left the table.                                          *)
BookkeepingBounded == invite_rr \cup terminal_done \subseteq live

Coherent == StreamsIndexed /\ ReferencesLive /\ OrderListsCalls /\ BookkeepingBounded

(* Calls still holding their hosts' concurrent-call counters *)
Holding(i) == {h \in (live \ terminal_done) \X {1, 2} :
                 /\ call[h[1]].active_ips # <<>>
                 /\ call[h[1]].active_ips[h[2]] = i}

(* The per-IP concurrent-call counter never falls below the calls that     *)
(* still hold it, so the saturating decrement at teardown never hides an   *)
(* imbalance and an IP with calls in progress is never pruned as idle.     *)
ActiveCoversCalls == \A i \in Ips : active[i] >= Cardinality(Holding(i))

(* The pins hold: no step but clear removes a focused call or a match the  *)
(* step ends up pinning, and due maintenance, which looks the matches up   *)
(* before it evicts, removes no match at all unless there are more than    *)
(* SEARCH_PIN_MAX.  Between two refreshes only the matches of the last one *)
(* are pinned: a call that began to match since can be evicted when        *)
(* another one ends (FilterMatchesSurvive).                                *)
Flushed == last_flush # None /\ last_flush' # None /\ last_flush' # last_flush
Matches == live \cap Matching
Survive ==
  \/ Clear
  \/ /\ live \cap Pinned(search_matches') \subseteq live'
     /\ Flushed /\ search /\ Cardinality(Matches) <= PinMax => Matches \subseteq live'
PinnedSurvive == [][Survive]_vars

(* After due maintenance the call table is within its capacity except for  *)
(* pinned calls, and the stream table is within its own.                   *)
Restored ==
  Flushed => /\ \/ Cardinality(live') <= MaxCalls
                \/ live' \subseteq Pinned(search_matches')
             /\ Cardinality({k \in Keys : owner'[k] # None}) <= MaxStreams
CapacityRestored == [][Restored]_vars

-----------------------------------------------------------------------------
(* Two statements of the repository that the code does not keep.  *)

(* registry.rs: "Matching calls are pinned in snapshots [...] and          *)
(* protected from TTL / capacity eviction, so filter results don't vanish  *)
(* mid-analysis": while a filter is on, no step but clear removes a call   *)
(* that matches it, as long as there are no more of them than              *)
(* SEARCH_PIN_MAX.                                                         *)
FilterMatchesSurvive ==
  [][search /\ Cardinality(Matches) <= PinMax => Clear \/ Matches \subseteq live']_vars

(* registry.rs: "Rank: terminated calls evict first" and "Falls back to    *)
(* evicting the oldest active call only if all are still active".          *)
TerminatedEvictedFirst ==
  [][Flushed => \A c \in live \ live', d \in live' :
        ~IsTerminal(call[c]) /\ IsTerminal(call[d]) => d \in Pinned(search_matches')]_vars
=============================================================================

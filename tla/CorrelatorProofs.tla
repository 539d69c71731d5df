-------------------------- MODULE CorrelatorProofs --------------------------
(***************************************************************************)
(* Proofs about the tables of Correlator, for every set of calls, streams  *)
(* and messages, every capacity and every time-to-live: the indexes never  *)
(* disagree with the tables, a pinned call is never evicted, maintenance   *)
(* enforces the capacities, and the per-host call counters cover the calls *)
(* that hold them.                                                         *)
(***************************************************************************)
EXTENDS Correlator, FiniteSetTheorems, TLAPS

(* TablesOK and Coherent are inductive together. *)
TablesInv == TablesOK /\ Coherent

(* What a step may hand to Remove: tables that agree with each other and   *)
(* only ever gained entries.                                               *)
Ready(t) ==
  /\ live \subseteq t.live /\ t.live \subseteq CallIds
  /\ t.order \in [CallIds -> Nat]
  /\ \A c \in CallIds : t.order[c] = IF c \in t.live THEN 1 ELSE 0
  /\ t.endpoint_call \in [Endpoints -> Optional(CallIds)]
  /\ \A e \in Endpoints : t.endpoint_call[e] # None => t.endpoint_call[e] \in t.live
  /\ t.invite_rr \subseteq t.live /\ t.terminal_done \subseteq t.live

-----------------------------------------------------------------------------
(* The empty tables agree. *)
LEMMA InitCoherent == Init => TablesInv
<1> SUFFICES ASSUME Init PROVE TablesInv
  OBVIOUS
<1>1. TablesOK
  BY DEF Init, TablesOK, Optional
<1>2. StreamsIndexed
  BY CorrelatorAssumption DEF Init, StreamsIndexed
<1>3. ReferencesLive /\ OrderListsCalls /\ BookkeepingBounded
  BY DEF Init, ReferencesLive, OrderListsCalls, BookkeepingBounded
<1> QED
  BY <1>1, <1>2, <1>3 DEF TablesInv, Coherent

(* remove_calls, forget_stream and the pruning that follows keep every     *)
(* index in agreement with its table, whatever calls and streams go.       *)
LEMMA RemoveCoherent ==
  ASSUME TablesInv, NEW t, Ready(t),
         NEW gone \in SUBSET CallIds, NEW cut, Remove(t, gone, cut)
  PROVE  TablesInv'
<1> DEFINE dropped == StreamsOf(gone) \cup cut
<1>1. /\ \A k \in Keys : owner[k] \in gone => k \in dropped
      /\ \A k \in Keys : \A c \in gone : k \notin dropped => owner[k] # c
  BY DEF TablesInv, TablesOK, Coherent, StreamsIndexed, StreamsOf
<1>2. /\ owner' = [k \in Keys |-> IF k \in dropped THEN None ELSE owner[k]]
      /\ ssrc_index' = [k \in Keys |-> IF k \in dropped THEN 0 ELSE ssrc_index[k]]
      /\ stream_index' = [c \in CallIds |-> [k \in Keys |->
           IF c \in gone \/ (k \in dropped /\ owner[k] = c)
             THEN 0 ELSE stream_index[c][k]]]
      /\ live' = t.live \ gone
      /\ order' = [c \in CallIds |-> IF c \in gone THEN 0 ELSE t.order[c]]
      /\ endpoint_call' = [e \in Endpoints |->
           IF t.endpoint_call[e] \in gone THEN None ELSE t.endpoint_call[e]]
      /\ invite_rr' = t.invite_rr \ gone
      /\ terminal_done' = t.terminal_done \ gone
  BY DEF Remove
<1> HIDE DEF dropped
<1>3. TablesOK'
  BY <1>2 DEF TablesInv, TablesOK, Ready, Optional
<1>4. StreamsIndexed'
  <2> SUFFICES ASSUME NEW k \in Keys, NEW c \in CallIds
               PROVE  /\ ssrc_index'[k] = IF owner'[k] = None THEN 0 ELSE 1
                      /\ stream_index'[c][k] = IF owner'[k] = c THEN 1 ELSE 0
    BY <1>2, CorrelatorAssumption DEF StreamsIndexed, TablesInv, Coherent
  <2>1. /\ ssrc_index[k] = IF owner[k] = None THEN 0 ELSE 1
        /\ stream_index[c][k] = IF owner[k] = c THEN 1 ELSE 0
    BY DEF TablesInv, Coherent, StreamsIndexed
  <2> QED
    BY <1>1, <1>2, <2>1, CorrelatorAssumption
<1>5. ReferencesLive'
  <2>1. \A k \in Keys : owner'[k] # None => owner'[k] \in live'
    BY <1>1, <1>2 DEF TablesInv, Coherent, ReferencesLive, Ready
  <2>2. \A e \in Endpoints : endpoint_call'[e] # None => endpoint_call'[e] \in live'
    BY <1>2 DEF Ready
  <2> QED
    BY <2>1, <2>2 DEF ReferencesLive
<1>6. OrderListsCalls'
  BY <1>2 DEF OrderListsCalls, Ready
<1>7. BookkeepingBounded'
  BY <1>2 DEF BookkeepingBounded, Ready
<1> QED
  BY <1>3, <1>4, <1>5, <1>6, <1>7 DEF TablesInv, Coherent

(* The tables between two messages are ready for Remove. *)
LEMMA TablesReady == TablesInv => Ready(Tables)
  BY DEF TablesInv, TablesOK, Coherent, ReferencesLive, OrderListsCalls,
         BookkeepingBounded, Ready, Tables

(* So are the tables a SIP message was applied to: the call is inserted    *)
(* before anything refers to it.                                           *)
LEMMA WithMessageReady ==
  ASSUME TablesInv, NEW c \in CallIds, NEW m \in Messages
  PROVE  Ready(WithMessage(c, m))
<1> DEFINE t == WithMessage(c, m)
<1>1. /\ t.live = live \cup {c}
      /\ t.order = IF c \in live THEN order ELSE [order EXCEPT ![c] = @ + 1]
      /\ t.endpoint_call = [e \in Endpoints |->
                              IF e \in m.sdp THEN c ELSE endpoint_call[e]]
      /\ t.invite_rr \subseteq invite_rr \cup {c}
      /\ t.terminal_done \subseteq terminal_done \cup {c}
  BY DEF WithMessage
<1> HIDE DEF t
<1>2. t.live \subseteq CallIds /\ live \subseteq t.live
  BY <1>1 DEF TablesInv, TablesOK
<1>3. /\ t.order \in [CallIds -> Nat]
      /\ \A d \in CallIds : t.order[d] = IF d \in t.live THEN 1 ELSE 0
  BY <1>1 DEF TablesInv, TablesOK, Coherent, OrderListsCalls
<1>4. /\ t.endpoint_call \in [Endpoints -> Optional(CallIds)]
      /\ \A e \in Endpoints : t.endpoint_call[e] # None => t.endpoint_call[e] \in t.live
  BY <1>1 DEF TablesInv, TablesOK, Coherent, ReferencesLive, Optional
<1>5. t.invite_rr \subseteq t.live /\ t.terminal_done \subseteq t.live
  BY <1>1 DEF TablesInv, Coherent, BookkeepingBounded
<1> QED
  BY <1>2, <1>3, <1>4, <1>5 DEF Ready, t

-----------------------------------------------------------------------------
(* The victims of the capacity limit are unpinned calls of the table.      *)
LEMMA VictimsUnpinned ==
  ASSUME NEW cs, NEW tab, NEW pins, NEW V \in CapacityVictims(cs, tab, pins)
  PROVE  V \subseteq cs \ pins
  BY DEF CapacityVictims, FirstOf

(* evict_if_needed keeps the indexes in agreement and every pinned call.   *)
LEMMA EvictCoherent ==
  ASSUME TablesInv, NEW t, Ready(t), NEW gone \in SUBSET CallIds, NEW pins,
         EvictIfNeeded(t, gone, pins)
  PROVE  /\ TablesInv'
         /\ (t.live \cap pins) \ gone \subseteq live'
<1>1. PICK more \in CapacityVictims(t.live \ gone, t.call, pins) :
        \E cut \in StreamVictims(Streams \ StreamsOf(gone \cup more)) :
          Remove(t, gone \cup more, cut)
  BY DEF EvictIfNeeded
<1>2. more \subseteq (t.live \ gone) \ pins
  BY VictimsUnpinned
<1>3. gone \cup more \in SUBSET CallIds
  BY <1>2 DEF Ready
<1>4. TablesInv'
  BY <1>1, <1>3, RemoveCoherent
<1>5. live' = t.live \ (gone \cup more)
  BY <1>1 DEF Remove
<1> QED
  BY <1>2, <1>4, <1>5

-----------------------------------------------------------------------------
(* Every step keeps the tables and the indexes in agreement. *)
LEMMA NextCoherent == TablesInv /\ [Next]_vars => TablesInv'
<1> SUFFICES ASSUME TablesInv, [Next]_vars PROVE TablesInv'
  OBVIOUS
<1> USE DEF calltable, media, bookkeeping
<1>1. ASSUME NEW c \in CallIds, NEW m \in Messages, IngestSip(c, m)
      PROVE  TablesInv'
  <2>1. Remove(WithMessage(c, m), {}, {})
    BY <1>1 DEF IngestSip
  <2> QED
    BY <2>1, WithMessageReady, RemoveCoherent
<1>2. ASSUME NEW c \in CallIds, NEW m \in Messages, OnCallTerminal(c, m)
      PROVE  TablesInv'
  <2>1. Ready(WithMessage(c, m))
    BY WithMessageReady
  <2>2. CASE EvictIfNeeded(WithMessage(c, m), {}, Pinned(search_matches))
    BY <2>1, <2>2, EvictCoherent
  <2>3. CASE Remove(WithMessage(c, m), {c}, {})
    BY <2>1, <2>3, RemoveCoherent
  <2> QED
    BY <1>2, <2>2, <2>3 DEF OnCallTerminal
<1>3. ASSUME NEW k \in Keys, ExistingRtp(k) \/ IngestRtcp(k.ssrc)
      PROVE  TablesInv'
  BY <1>3 DEF ExistingRtp, IngestRtcp, TablesInv, TablesOK, Coherent, StreamsIndexed,
              ReferencesLive, OrderListsCalls, BookkeepingBounded
<1>4. ASSUME NEW k \in Keys, NewRtp(k)
      PROVE  TablesInv'
  <2> DEFINE c == GetOrInsert(endpoint_call[k.src], endpoint_call[k.dst])
  <2>1. c \in live /\ c \in CallIds
    BY <1>4, CorrelatorAssumption
       DEF NewRtp, GetOrInsert, TablesInv, TablesOK, Coherent, ReferencesLive, Optional
  <2>2. /\ owner[k] = None
        /\ owner' = [owner EXCEPT ![k] = c]
        /\ stream_index' = [stream_index EXCEPT ![c][k] = @ + 1]
        /\ ssrc_index' = [ssrc_index EXCEPT ![k] = @ + 1]
        /\ UNCHANGED <<live, order, endpoint_call, invite_rr, terminal_done>>
    BY <1>4 DEF NewRtp
  <2> HIDE DEF c
  <2>3. TablesOK'
    BY <2>1, <2>2 DEF TablesInv, TablesOK, Optional
  <2>4. StreamsIndexed'
    BY <2>1, <2>2, CorrelatorAssumption
       DEF TablesInv, TablesOK, Coherent, StreamsIndexed
  <2>5. ReferencesLive'
    BY <2>1, <2>2 DEF TablesInv, TablesOK, Coherent, ReferencesLive
  <2>6. OrderListsCalls' /\ BookkeepingBounded'
    BY <2>2 DEF TablesInv, Coherent, OrderListsCalls, BookkeepingBounded
  <2> QED
    BY <2>3, <2>4, <2>5, <2>6 DEF TablesInv, Coherent
<1>5. ASSUME NEW ts, PeriodicFlush(ts)
      PROVE  TablesInv'
  <2>1. PICK matches : EvictIfNeeded(Tables, Stale(Pinned(matches), ts), Pinned(matches))
    BY <1>5 DEF PeriodicFlush
  <2>2. Stale(Pinned(matches), ts) \in SUBSET CallIds
    BY DEF Stale, TablesInv, TablesOK
  <2> QED
    BY <2>1, <2>2, TablesReady, EvictCoherent
<1>6. ASSUME Clear
      PROVE  TablesInv'
  <2>1. TablesOK'
    BY <1>6 DEF Clear, TablesOK, Optional
  <2>2. StreamsIndexed'
    BY <1>6, CorrelatorAssumption DEF Clear, StreamsIndexed
  <2>3. ReferencesLive' /\ OrderListsCalls' /\ BookkeepingBounded'
    BY <1>6 DEF Clear, ReferencesLive, OrderListsCalls, BookkeepingBounded
  <2> QED
    BY <2>1, <2>2, <2>3 DEF TablesInv, Coherent
<1>7. ASSUME UNCHANGED <<calltable, media, bookkeeping>>
      PROVE  TablesInv'
  BY <1>7 DEF TablesInv, TablesOK, Coherent, StreamsIndexed,
              ReferencesLive, OrderListsCalls, BookkeepingBounded
<1>8. ASSUME NEW ts, PrimeFlush(ts)
      PROVE  TablesInv'
  BY <1>7, <1>8 DEF PrimeFlush
<1>9. ASSUME NEW f, NEW on, SetHints(f, on)
      PROVE  TablesInv'
  BY <1>7, <1>9 DEF SetHints
<1>10. CASE Tick
  BY <1>7, <1>10 DEF Tick
<1>11. CASE UNCHANGED vars
  BY <1>7, <1>11 DEF vars
<1> QED
  BY <1>1, <1>2, <1>3, <1>4, <1>5, <1>6, <1>8, <1>9, <1>10, <1>11 DEF Next

(* In every reachable state the stream, SSRC and endpoint indexes, the     *)
(* display order and the per-call bookkeeping agree with the call and      *)
(* stream tables (registry.rs, correlate/mod.rs).                          *)
THEOREM IndexesCoherent == Spec => []Coherent
<1>1. TablesInv => Coherent
  BY DEF TablesInv
<1> QED
  BY <1>1, InitCoherent, NextCoherent, PTL DEF Spec

-----------------------------------------------------------------------------
(* No step of a recording that keeps terminated calls evicts a call that   *)
(* is focused or that the step leaves pinned.                              *)
LEMMA StepKeepsPinned ==
  ASSUME KeepTerminated = TRUE, TablesInv, [Next]_vars, ~Clear,
         NEW d \in live \cap Pinned(search_matches')
  PROVE  d \in live'
<1> USE DEF calltable
<1>1. ASSUME NEW c \in CallIds, NEW m \in Messages, IngestSip(c, m)
      PROVE  d \in live'
  BY <1>1 DEF IngestSip, Remove, WithMessage
<1>2. ASSUME NEW c \in CallIds, NEW m \in Messages, OnCallTerminal(c, m)
      PROVE  d \in live'
  <2>1. EvictIfNeeded(WithMessage(c, m), {}, Pinned(search_matches))
    BY <1>2 DEF OnCallTerminal
  <2>2. d \in WithMessage(c, m).live
    BY DEF WithMessage
  <2>3. d \in Pinned(search_matches)
    BY <1>2 DEF OnCallTerminal, hints
  <2> QED
    BY <2>1, <2>2, <2>3, WithMessageReady, EvictCoherent
<1>3. ASSUME NEW ts, PeriodicFlush(ts)
      PROVE  d \in live'
  <2>1. EvictIfNeeded(Tables, Stale(Pinned(search_matches'), ts), Pinned(search_matches'))
    BY <1>3 DEF PeriodicFlush
  <2>2. /\ Stale(Pinned(search_matches'), ts) \in SUBSET CallIds
        /\ d \notin Stale(Pinned(search_matches'), ts)
        /\ d \in Tables.live
    BY DEF Stale, Tables, TablesInv, TablesOK
  <2> QED
    BY <2>1, <2>2, TablesReady, EvictCoherent
<1>4. CASE UNCHANGED live
  BY <1>4
<1>5. ASSUME NEW k \in Keys, ExistingRtp(k) \/ IngestRtcp(k.ssrc) \/ NewRtp(k)
      PROVE  d \in live'
  BY <1>5 DEF ExistingRtp, IngestRtcp, NewRtp
<1>6. ASSUME NEW ts, PrimeFlush(ts)
      PROVE  d \in live'
  BY <1>6 DEF PrimeFlush
<1>7. ASSUME NEW f, NEW on, SetHints(f, on)
      PROVE  d \in live'
  BY <1>7 DEF SetHints
<1>8. CASE Tick \/ UNCHANGED vars
  BY <1>8 DEF Tick, vars
<1> QED
  BY <1>1, <1>2, <1>3, <1>5, <1>6, <1>7, <1>8 DEF Next

(* Due maintenance pins every match, unless there are too many.            *)
LEMMA FlushPinsMatches ==
  ASSUME TablesInv, [Next]_vars, Flushed, search, Cardinality(Matches) <= PinMax
  PROVE  Matches \subseteq Pinned(search_matches')
<1>1. PICK ts : PeriodicFlush(ts)
  <2>1. last_flush # None /\ last_flush' # None /\ last_flush' # last_flush
    BY DEF Flushed
  <2>2. ~Clear /\ \A ts : ~PrimeFlush(ts)
    BY <2>1 DEF Clear, PrimeFlush
  <2>3. /\ \A c \in CallIds, m \in Messages : ~IngestSip(c, m) /\ ~OnCallTerminal(c, m)
        /\ \A k \in Keys : ~ExistingRtp(k) /\ ~NewRtp(k) /\ ~IngestRtcp(k.ssrc)
        /\ \A f, on : ~SetHints(f, on)
        /\ ~Tick /\ ~UNCHANGED vars
    BY <2>1 DEF IngestSip, OnCallTerminal, ExistingRtp, NewRtp, IngestRtcp, SetHints,
                Tick, vars
  <2> QED
    BY <2>2, <2>3 DEF Next
<1>2. search_matches' \in SearchMatches(TRUE)
  BY <1>1 DEF PeriodicFlush
<1>3. /\ search_matches' \subseteq Matches
      /\ Cardinality(search_matches') = Lesser(PinMax, Cardinality(Matches))
  BY <1>2 DEF SearchMatches, FirstOf, Matches
<1>4. IsFiniteSet(Matches) /\ Cardinality(Matches) \in Nat
  BY FS_Subset, FS_CardinalityType, CorrelatorAssumption DEF Matches, TablesInv, TablesOK
<1>5. Cardinality(search_matches') = Cardinality(Matches)
  BY <1>3, <1>4, CorrelatorAssumption DEF Lesser
<1>6. search_matches' = Matches
  BY <1>3, <1>4, <1>5, FS_Subset
<1> QED
  BY <1>6 DEF Pinned

(* The focused calls and the matches a step leaves pinned survive TTL and  *)
(* capacity eviction (evict_stale, evict_if_needed) while terminated calls *)
(* are kept, and due maintenance removes no match of the filter at all     *)
(* while SEARCH_PIN_MAX holds them, for every capacity, time-to-live and   *)
(* set of hints.                                                           *)
THEOREM PinsHold ==
  ASSUME KeepTerminated = TRUE
  PROVE  Spec => PinnedSurvive
<1>1. TablesInv /\ [Next]_vars => Survive
  <2> SUFFICES ASSUME TablesInv, [Next]_vars, ~Clear
               PROVE  /\ live \cap Pinned(search_matches') \subseteq live'
                      /\ Flushed /\ search /\ Cardinality(Matches) <= PinMax
                           => Matches \subseteq live'
    BY DEF Survive
  <2>1. live \cap Pinned(search_matches') \subseteq live'
    BY StepKeepsPinned
  <2>2. Flushed /\ search /\ Cardinality(Matches) <= PinMax
          => Matches \subseteq Pinned(search_matches')
    BY FlushPinsMatches
  <2> QED
    BY <2>1, <2>2 DEF Matches
<1>2. TablesInv /\ [Next]_vars => [Survive]_vars
  BY <1>1
<1>3. Spec => []TablesInv
  BY InitCoherent, NextCoherent, PTL DEF Spec
<1>4. Spec => [][Survive]_vars
  BY <1>2, <1>3, PTL DEF Spec
<1> QED
  BY <1>4, PTL DEF PinnedSurvive

-----------------------------------------------------------------------------
(* Removing a subset leaves the difference of the sizes. *)
LEMMA DifferenceSize ==
  ASSUME NEW S, IsFiniteSet(S), NEW V \in SUBSET S
  PROVE  /\ IsFiniteSet(V) /\ IsFiniteSet(S \ V)
         /\ Cardinality(S) \in Nat /\ Cardinality(V) \in Nat
         /\ Cardinality(S \ V) = Cardinality(S) - Cardinality(V)
<1>1. IsFiniteSet(V) /\ IsFiniteSet(S \ V)
  BY FS_Subset
<1>2. /\ Cardinality(S) \in Nat /\ Cardinality(V) \in Nat
      /\ Cardinality(S \ V) \in Nat
  BY <1>1, FS_CardinalityType
<1>3. Cardinality(V \cup (S \ V)) =
        Cardinality(V) + Cardinality(S \ V) - Cardinality(V \cap (S \ V))
  BY <1>1, FS_Union
<1>4. V \cup (S \ V) = S /\ V \cap (S \ V) = {}
  OBVIOUS
<1>5. Cardinality({}) = 0
  BY FS_EmptySet
<1>6. Cardinality(S) = Cardinality(V) + Cardinality(S \ V) - Cardinality({})
  BY <1>3, <1>4, Zenon
<1> QED
  BY <1>1, <1>2, <1>5, <1>6

(* evict_if_needed drops enough calls, or every call it may drop. *)
LEMMA VictimsSuffice ==
  ASSUME NEW cs, IsFiniteSet(cs), NEW tab, NEW pins,
         NEW V \in CapacityVictims(cs, tab, pins)
  PROVE  Cardinality(cs \ V) <= MaxCalls \/ cs \ V \subseteq pins
<1>1. CASE Cardinality(cs) <= MaxCalls
  <2>1. cs \ V = cs
    BY <1>1 DEF CapacityVictims
  <2> QED
    BY <1>1, <2>1
<1>2. CASE ~(Cardinality(cs) <= MaxCalls)
  <2> DEFINE n == Cardinality(cs) - MaxCalls
             S == cs \ pins
  <2>1. /\ V \in SUBSET S
        /\ Cardinality(V) = IF n < Cardinality(S) THEN n ELSE Cardinality(S)
    BY <1>2 DEF CapacityVictims, FirstOf, Lesser
  <2>2. IsFiniteSet(S)
    BY FS_Subset
  <2>3. CASE n < Cardinality(S)
    <3>1. V \in SUBSET cs
      BY <2>1
    <3>2. /\ Cardinality(cs) \in Nat
          /\ Cardinality(cs \ V) = Cardinality(cs) - Cardinality(V)
      BY <3>1, DifferenceSize
    <3>3. Cardinality(V) = n
      BY <2>1, <2>3
    <3> QED
      BY <3>2, <3>3, CorrelatorAssumption
  <2>4. CASE ~(n < Cardinality(S))
    <3>1. Cardinality(S) = Cardinality(V)
      BY <2>1, <2>4
    <3>2. S = V
      BY <2>1, <2>2, <3>1, FS_Subset
    <3> QED
      BY <3>2
  <2> QED
    BY <2>3, <2>4
<1> QED
  BY <1>1, <1>2

(* The same of the stream table, where nothing is pinned. *)
LEMMA StreamVictimsSuffice ==
  ASSUME NEW ks, IsFiniteSet(ks), NEW V \in StreamVictims(ks)
  PROVE  Cardinality(ks \ V) <= MaxStreams
<1>1. CASE Cardinality(ks) <= MaxStreams
  <2>1. ks \ V = ks
    BY <1>1 DEF StreamVictims
  <2> QED
    BY <1>1, <2>1
<1>2. CASE ~(Cardinality(ks) <= MaxStreams)
  <2> DEFINE n == Cardinality(ks) - MaxStreams
  <2>1. /\ V \in SUBSET ks
        /\ Cardinality(V) = IF n < Cardinality(ks) THEN n ELSE Cardinality(ks)
    BY <1>2 DEF StreamVictims, FirstOf, Lesser
  <2>2. /\ Cardinality(ks) \in Nat /\ Cardinality(V) \in Nat
        /\ Cardinality(ks \ V) = Cardinality(ks) - Cardinality(V)
    BY <2>1, DifferenceSize
  <2> QED
    BY <1>2, <2>1, <2>2, CorrelatorAssumption
<1> QED
  BY <1>1, <1>2

(* Maintenance is the only step of a primed flush clock. *)
LEMMA FlushedIsPeriodic ==
  ASSUME [Next]_vars, Flushed
  PROVE  \E ts \in {0, now} : PeriodicFlush(ts)
<1>1. last_flush # None /\ last_flush' # None /\ last_flush' # last_flush
  BY DEF Flushed
<1>2. \A c \in CallIds, m \in Messages : ~IngestSip(c, m) /\ ~OnCallTerminal(c, m)
  BY <1>1 DEF IngestSip, OnCallTerminal
<1>3. \A k \in Keys : ~ExistingRtp(k) /\ ~NewRtp(k) /\ ~IngestRtcp(k.ssrc)
  BY <1>1 DEF ExistingRtp, NewRtp, IngestRtcp
<1>4. \A ts \in {0, now} : ~PrimeFlush(ts)
  BY <1>1 DEF PrimeFlush
<1>5. \A f \in FocusHints, on \in Filters : ~SetHints(f, on)
  BY <1>1 DEF SetHints
<1>6. ~Clear /\ ~Tick /\ ~(UNCHANGED vars)
  BY <1>1 DEF Clear, Tick, vars
<1> QED
  BY <1>2, <1>3, <1>4, <1>5, <1>6 DEF Next

(* evict_if_needed leaves both tables within their capacity, pins aside.   *)
LEMMA EvictRestores ==
  ASSUME TablesInv, NEW gone \in SUBSET CallIds, NEW pins,
         EvictIfNeeded(Tables, gone, pins)
  PROVE  /\ Cardinality(live') <= MaxCalls \/ live' \subseteq pins
         /\ Cardinality({k \in Keys : owner'[k] # None}) <= MaxStreams
<1>1. PICK more \in CapacityVictims(Tables.live \ gone, Tables.call, pins) :
        \E cut \in StreamVictims(Streams \ StreamsOf(gone \cup more)) :
          Remove(Tables, gone \cup more, cut)
  BY DEF EvictIfNeeded
<1>2. PICK cut \in StreamVictims(Streams \ StreamsOf(gone \cup more)) :
        Remove(Tables, gone \cup more, cut)
  BY <1>1
<1> DEFINE cs == live \ gone
           ks == Streams \ StreamsOf(gone \cup more)
<1>3. live' = cs \ more /\ more \in CapacityVictims(cs, call, pins)
  BY <1>2 DEF Remove, Tables
<1>4. {k \in Keys : owner'[k] # None} = ks \ cut
  BY <1>2 DEF Remove, Streams
<1>5. IsFiniteSet(cs) /\ IsFiniteSet(ks)
  BY CorrelatorAssumption, FS_Subset DEF TablesInv, TablesOK, Streams
<1>6. Cardinality(cs \ more) <= MaxCalls \/ cs \ more \subseteq pins
  BY <1>3, <1>5, VictimsSuffice
<1>7. Cardinality(ks \ cut) <= MaxStreams
  BY <1>5, StreamVictimsSuffice
<1> QED
  BY <1>3, <1>4, <1>6, <1>7

(* The periodic maintenance enforces max_calls (up to pinned calls) and    *)
(* max_streams, for every backlog that built up since the last one.        *)
THEOREM CapacityHolds == Spec => CapacityRestored
<1>1. ASSUME TablesInv, [Next]_vars
      PROVE  Restored
  <2> SUFFICES ASSUME Flushed PROVE Restored
    BY DEF Restored
  <2>1. PICK ts \in {0, now} : PeriodicFlush(ts)
    BY <1>1, FlushedIsPeriodic
  <2>2. EvictIfNeeded(Tables, Stale(Pinned(search_matches'), ts), Pinned(search_matches'))
    BY <2>1 DEF PeriodicFlush
  <2>3. Stale(Pinned(search_matches'), ts) \in SUBSET CallIds
    BY <1>1 DEF Stale, TablesInv, TablesOK
  <2> QED
    BY <1>1, <2>2, <2>3, EvictRestores DEF Restored
<1>2. TablesInv /\ [Next]_vars => [Restored]_vars
  BY <1>1
<1>3. Spec => []TablesInv
  BY InitCoherent, NextCoherent, PTL DEF Spec
<1>4. Spec => [][Restored]_vars
  BY <1>2, <1>3, PTL DEF Spec
<1> QED
  BY <1>4, PTL DEF CapacityRestored

-----------------------------------------------------------------------------
(* A record with the fields of Call::new *)
IsCall(r) == r = [f \in DOMAIN NewCall |-> r[f]]

(* q is a call that holds the hosts r holds *)
SameHosts(r, q) == IsCall(q) /\ q.active_ips = r.active_ips

LEMMA CallFields ==
  DOMAIN NewCall =
    {"state", "outcome", "invite_ts", "invite_key", "trying_ts", "ringing_ts",
     "answer_ts", "bye_ts", "end_ts", "last_ts", "pdd_ms", "setup_ms", "ring_ms",
     "hangup_by", "active_ips"}
BY DEF NewCall

(* Only an initial INVITE changes the hosts a call holds: no other request *)
(* does, and no response.                                                  *)
LEMMA RequestHosts ==
  ASSUME NEW r, IsCall(r), NEW m, ~InitialInvite(m), NEW ts
  PROVE  SameHosts(r, OnRequest(r, m, ts))
<1> USE CallFields DEF IsCall, SameHosts
<1>1. SameHosts(r, OnBye(r, m, ts))
  BY DEF OnBye
<1>2. SameHosts(r, OnCancel(r, ts))
  <2>1. CASE r.state \in {"Completed", "Failed"}
    BY <2>1 DEF OnCancel
  <2>2. CASE r.state \notin {"Completed", "Failed"}
    BY <2>2 DEF OnCancel
  <2> QED
    BY <2>1, <2>2
<1> QED
  BY <1>1, <1>2 DEF OnRequest

LEMMA ResponseHosts ==
  ASSUME NEW r, IsCall(r), NEW m, NEW ts
  PROVE  SameHosts(r, OnResponse(r, m, ts))
<1> USE CallFields DEF IsCall, SameHosts
<1>1. SameHosts(r, OnProvisional(r, m, ts))
  BY DEF OnProvisional
<1>2. SameHosts(r, Closed(r, ts)) /\ SameHosts(r, Answered(r, ts))
  BY DEF Closed, Answered
<1>3. SameHosts(r, RequestTerminated(r)) /\ SameHosts(r, Refused(r, m, ts))
  BY ZenonT(60) DEF RequestTerminated, Refused
<1>4. SameHosts(r, r)
  OBVIOUS
<1> HIDE CallFields DEF SameHosts, IsCall
<1>5. SameHosts(r, OnSuccess(r, m, ts)) /\ SameHosts(r, OnFailure(r, m, ts))
  BY <1>2, <1>3, <1>4 DEF OnSuccess, OnFailure
<1> QED
  BY <1>1, <1>4, <1>5 DEF OnResponse

(* apply_sip sets the hosts once, at the first initial INVITE, which never *)
(* ends the call.                                                          *)
LEMMA ApplyHosts ==
  ASSUME NEW r, IsCall(r), NEW m, NEW ts
  PROVE  /\ IsCall(ApplySip(r, m, ts))
         /\ ApplySip(r, m, ts).active_ips =
              IF InitialInvite(m) /\ r.active_ips = <<>> THEN <<m.src, m.dst>>
              ELSE r.active_ips
         /\ InitialInvite(m) => ApplySip(r, m, ts).state = "Dialing"
<1> DEFINE q == [r EXCEPT !.last_ts = ts]
<1>1. IsCall(q) /\ q.active_ips = r.active_ips
  BY CallFields DEF IsCall
<1> HIDE DEF q
<1>2. CASE InitialInvite(m)
  <2>1. ApplySip(r, m, ts) = OnInitialInvite(q, m, ts)
    BY <1>2 DEF ApplySip, OnRequest, InitialInvite, q
  <2> QED
    BY <1>1, <1>2, <2>1, CallFields DEF OnInitialInvite, IsCall
<1>3. CASE ~InitialInvite(m)
  <2>1. \/ ApplySip(r, m, ts) = OnRequest(q, m, ts)
        \/ ApplySip(r, m, ts) = OnResponse(q, m, ts)
    BY DEF ApplySip, q
  <2> QED
    BY <1>1, <1>3, <2>1, RequestHosts, ResponseHosts DEF SameHosts
<1> QED
  BY <1>2, <1>3

(* Every call of the table is a record that holds no host or two, and one  *)
(* that is not in the table holds none.                                    *)
HostsOK(tab, present) ==
  /\ tab = [c \in CallIds |-> tab[c]]
  /\ \A c \in CallIds : /\ IsCall(tab[c])
                        /\ tab[c].active_ips \in {<<>>} \cup (Ips \X Ips)
                        /\ c \notin present => tab[c].active_ips = <<>>

HostsInv == active \in [Ips -> Nat] /\ HostsOK(call, live)

(* ActiveCoversCalls with what makes it inductive *)
HoldInv == TablesInv /\ HostsInv /\ ActiveCoversCalls

(* The entries of a call's two hosts that are the host i *)
Entries(c, ips, i) == {h \in {c} \X {1, 2} : ips # <<>> /\ ips[h[2]] = i}

(* What is held according to the tables t *)
HoldingIn(t, i) == {h \in (t.live \ t.terminal_done) \X {1, 2} :
                      h \in Entries(h[1], t.call[h[1]].active_ips, i)}

(* Holding is what the current tables hold *)
LEMMA HoldingIsIn == \A i : Holding(i) = HoldingIn(Tables, i)
BY DEF Holding, HoldingIn, Tables, Entries

LEMMA OneElement ==
  ASSUME NEW S, NEW x, S = {x}
  PROVE  IsFiniteSet(S) /\ Cardinality(S) = 1
BY FS_Singleton, Zenon

LEMMA TwoElements ==
  ASSUME NEW S, NEW x, NEW y, x # y, S = {x, y}
  PROVE  IsFiniteSet(S) /\ Cardinality(S) = 2
<1> DEFINE T == {x}
<1>1. IsFiniteSet(T) /\ Cardinality(T) = 1
  BY OneElement
<1>2. S = T \cup {y} /\ y \notin T
  OBVIOUS
<1> HIDE DEF T
<1>3. IsFiniteSet(T \cup {y}) /\ Cardinality(T \cup {y}) = Cardinality(T) + 1
  BY <1>1, <1>2, FS_AddElement, Zenon
<1> QED
  BY <1>1, <1>2, <1>3

(* A host is counted as often as it occurs among a call's two hosts *)
LEMMA EntriesCounted ==
  ASSUME NEW c, NEW ips \in {<<>>} \cup (Ips \X Ips), NEW i
  PROVE  /\ IsFiniteSet(Entries(c, ips, i))
         /\ Cardinality(Entries(c, ips, i)) = Times(ips, i)
         /\ Times(ips, i) \in Nat
<1> DEFINE E == Entries(c, ips, i)
           T == {n \in DOMAIN ips : ips[n] = i}
<1>1. \/ E = {} /\ T = {}
      \/ E = {<<c, 1>>} /\ T = {1}
      \/ E = {<<c, 2>>} /\ T = {2}
      \/ E = {<<c, 1>>, <<c, 2>>} /\ T = {1, 2}
  <2>1. CASE ips = <<>>
    BY <2>1 DEF Entries
  <2>2. CASE ips \in Ips \X Ips
    <3>1. DOMAIN ips = {1, 2} /\ ips # <<>>
      BY <2>2
    <3>2. CASE ips[1] = i /\ ips[2] = i
      BY <3>1, <3>2 DEF Entries
    <3>3. CASE ips[1] = i /\ ips[2] # i
      BY <3>1, <3>3 DEF Entries
    <3>4. CASE ips[1] # i /\ ips[2] = i
      BY <3>1, <3>4 DEF Entries
    <3>5. CASE ips[1] # i /\ ips[2] # i
      BY <3>1, <3>5 DEF Entries
    <3> QED
      BY <3>2, <3>3, <3>4, <3>5
  <2> QED
    BY <2>1, <2>2
<1>2. <<c, 1>> # <<c, 2>> /\ 1 # 2
  OBVIOUS
<1> HIDE DEF E, T
<1>3. IsFiniteSet(E) /\ Cardinality(E) = Cardinality(T) /\ Cardinality(T) \in Nat
  <2>1. CASE E = {} /\ T = {}
    BY <2>1, FS_EmptySet
  <2>2. CASE E = {<<c, 1>>} /\ T = {1}
    <3>1. IsFiniteSet(E) /\ Cardinality(E) = 1
      BY <2>2, OneElement, Zenon
    <3>2. Cardinality(T) = 1
      BY <2>2, OneElement, Zenon
    <3> QED
      BY <3>1, <3>2
  <2>3. CASE E = {<<c, 2>>} /\ T = {2}
    <3>1. IsFiniteSet(E) /\ Cardinality(E) = 1
      BY <2>3, OneElement, Zenon
    <3>2. Cardinality(T) = 1
      BY <2>3, OneElement, Zenon
    <3> QED
      BY <3>1, <3>2
  <2>4. CASE E = {<<c, 1>>, <<c, 2>>} /\ T = {1, 2}
    <3>1. IsFiniteSet(E) /\ Cardinality(E) = 2
      BY <1>2, <2>4, TwoElements, Zenon
    <3>2. Cardinality(T) = 2
      BY <1>2, <2>4, TwoElements, Zenon
    <3> QED
      BY <3>1, <3>2
  <2> QED
    BY <1>1, <2>1, <2>2, <2>3, <2>4
<1> QED
  BY <1>3 DEF E, T, Times

(* The entries held at one time can be counted *)
LEMMA HoldingFinite ==
  ASSUME TablesInv, NEW i
  PROVE  IsFiniteSet(Holding(i)) /\ Cardinality(Holding(i)) \in Nat
<1>1. IsFiniteSet({1, 2})
  <2>1. 1 # 2
    OBVIOUS
  <2> QED
    BY <2>1, TwoElements, Zenon
<1>2. IsFiniteSet(CallIds \X {1, 2})
  BY <1>1, FS_Product, CorrelatorAssumption
<1>3. Holding(i) \in SUBSET (CallIds \X {1, 2})
  BY DEF Holding, TablesInv, TablesOK
<1> QED
  BY <1>2, <1>3, FS_Subset, FS_CardinalityType

(* Removal takes the entries of the calls that go and adds none *)
LEMMA RemoveHolds ==
  ASSUME NEW t, t.live \subseteq CallIds, HostsOK(t.call, t.live),
         NEW gone, NEW cut, Remove(t, gone, cut)
  PROVE  /\ HostsOK(call', live')
         /\ \A i : Holding(i)' \subseteq {h \in HoldingIn(t, i) : h[1] \notin gone}
<1>1. /\ live' = t.live \ gone
      /\ call' = [c \in CallIds |-> IF c \in gone THEN NewCall ELSE t.call[c]]
      /\ terminal_done' = t.terminal_done \ gone
  BY DEF Remove
<1>2. IsCall(NewCall) /\ NewCall.active_ips = <<>>
  BY DEF IsCall, NewCall
<1>3. HostsOK(call', live')
  BY <1>1, <1>2 DEF HostsOK
<1>4. ASSUME NEW i, NEW h \in Holding(i)'
      PROVE  h \in HoldingIn(t, i) /\ h[1] \notin gone
  <2>1. /\ h \in (live' \ terminal_done') \X {1, 2}
        /\ call'[h[1]].active_ips # <<>> /\ call'[h[1]].active_ips[h[2]] = i
    BY <1>4 DEF Holding
  <2>2. h[1] \in CallIds /\ h[1] \notin gone /\ call'[h[1]] = t.call[h[1]]
    BY <1>1, <2>1
  <2>3. h \in (t.live \ t.terminal_done) \X {1, 2}
    BY <1>1, <2>1
  <2>4. h \in Entries(h[1], t.call[h[1]].active_ips, i)
    BY <2>1, <2>2, <2>3 DEF Entries
  <2> QED
    BY <2>2, <2>3, <2>4 DEF HoldingIn
<1> QED
  BY <1>3, <1>4

(* A step that adds no entry and leaves the counters keeps them covering   *)
LEMMA CoverLess ==
  ASSUME HoldInv, active' = active, \A i \in Ips : Holding(i)' \subseteq Holding(i)
  PROVE  ActiveCoversCalls'
<1> SUFFICES ASSUME NEW i \in Ips PROVE active'[i] >= Cardinality(Holding(i)')
  BY DEF ActiveCoversCalls
<1>1. IsFiniteSet(Holding(i)) /\ Cardinality(Holding(i)) \in Nat
  BY HoldingFinite DEF HoldInv
<1> DEFINE H == Holding(i)
           G == Holding(i)'
<1>2. G \in SUBSET H /\ IsFiniteSet(H) /\ Cardinality(H) \in Nat
  BY <1>1
<1>3. active[i] >= Cardinality(H) /\ active[i] \in Nat
  BY DEF HoldInv, ActiveCoversCalls, HostsInv
<1>4. active'[i] = active[i]
  OBVIOUS
<1> HIDE DEF H, G
<1>5. IsFiniteSet(G) /\ Cardinality(G) <= Cardinality(H)
  BY <1>2, FS_Subset
<1>6. Cardinality(G) \in Nat
  BY <1>5, FS_CardinalityType
<1>7. active'[i] >= Cardinality(G)
  BY <1>2, <1>3, <1>4, <1>5, <1>6
<1> QED
  BY <1>7 DEF G

(* ingest_sip: what the tables hold with the message applied *)
LEMMA WithMessageHosts ==
  ASSUME HoldInv, NEW c \in CallIds, NEW m \in Messages,
         NEW t, t = WithMessage(c, m)
  PROVE  /\ t.live \subseteq CallIds /\ HostsOK(t.call, t.live)
         /\ ~InitialInvite(m) =>
              /\ t.call[c].active_ips = call[c].active_ips
              /\ \A i : HoldingIn(t, i) \subseteq Holding(i)
         /\ InitialInvite(m) =>
              \A i : HoldingIn(t, i) \subseteq
                       Holding(i) \cup Entries(c, <<m.src, m.dst>>, i)
<1> DEFINE r == ApplySip(call[c], m, now)
<1>1. /\ t.live = live \cup {c} /\ terminal_done \subseteq t.terminal_done
      /\ t.call = [call EXCEPT ![c] = r]
  BY DEF WithMessage
<1>2. /\ IsCall(r)
      /\ r.active_ips = IF InitialInvite(m) /\ call[c].active_ips = <<>>
                          THEN <<m.src, m.dst>> ELSE call[c].active_ips
  BY ApplyHosts DEF HoldInv, HostsInv, HostsOK
<1>3. <<m.src, m.dst>> \in Ips \X Ips
  BY CorrelatorAssumption
<1>4. HostsOK(call, live)
  BY DEF HoldInv, HostsInv
<1> HIDE DEF r
<1>5. t.call[c] = r /\ \A d \in CallIds : d # c => t.call[d] = call[d]
  BY <1>1, <1>4 DEF HostsOK
<1>6. t.live \subseteq CallIds
  BY <1>1 DEF HoldInv, TablesInv, TablesOK
<1>7. HostsOK(t.call, t.live)
  BY <1>1, <1>2, <1>3, <1>4, <1>5 DEF HostsOK
<1>8. ASSUME NEW i, NEW h \in HoldingIn(t, i), h \notin Holding(i)
      PROVE  InitialInvite(m) /\ h \in Entries(c, <<m.src, m.dst>>, i)
  <2>1. /\ h \in (t.live \ t.terminal_done) \X {1, 2}
        /\ t.call[h[1]].active_ips # <<>> /\ t.call[h[1]].active_ips[h[2]] = i
    BY <1>8 DEF HoldingIn, Entries
  <2>2. h[1] \in CallIds /\ h[1] \notin terminal_done
    BY <1>1, <1>6, <2>1
  <2>3. ~(call[h[1]].active_ips # <<>> /\ call[h[1]].active_ips[h[2]] = i)
    <3> SUFFICES ASSUME call[h[1]].active_ips # <<>>, call[h[1]].active_ips[h[2]] = i
                 PROVE  FALSE
      OBVIOUS
    <3>1. h[1] \in live
      BY <1>4, <2>2 DEF HostsOK
    <3>2. h \in (live \ terminal_done) \X {1, 2}
      BY <2>1, <2>2, <3>1
    <3> QED
      BY <1>8, <3>2 DEF Holding
  <2>4. h[1] = c
    BY <1>5, <2>1, <2>2, <2>3
  <2>5. InitialInvite(m) /\ r.active_ips = <<m.src, m.dst>>
    BY <1>2, <1>5, <2>1, <2>3, <2>4
  <2>6. h \in {c} \X {1, 2}
    BY <2>1, <2>4
  <2> QED
    BY <1>3, <1>5, <2>1, <2>4, <2>5, <2>6 DEF Entries
<1>9. ~InitialInvite(m) => t.call[c].active_ips = call[c].active_ips
  BY <1>2, <1>5
<1> QED
  BY <1>6, <1>7, <1>8, <1>9

(* ingest_sip adds at most the two entries of an INVITE to what is held,   *)
(* and counts both.                                                        *)
LEMMA IngestCovers ==
  ASSUME HoldInv, NEW c \in CallIds, NEW m \in Messages, IngestSip(c, m)
  PROVE  HostsInv' /\ ActiveCoversCalls'
<1>1. PICK t : t = WithMessage(c, m)
  OBVIOUS
<1>2. Remove(t, {}, {})
  BY <1>1 DEF IngestSip
<1>3. /\ t.live \subseteq CallIds /\ HostsOK(t.call, t.live)
      /\ ~InitialInvite(m) => \A i : HoldingIn(t, i) \subseteq Holding(i)
      /\ InitialInvite(m) => \A i : HoldingIn(t, i) \subseteq
                       Holding(i) \cup Entries(c, <<m.src, m.dst>>, i)
  BY <1>1, WithMessageHosts
<1>4. HostsOK(call', live') /\ \A i : Holding(i)' \subseteq HoldingIn(t, i)
  BY <1>2, <1>3, RemoveHolds
<1>5. CASE ~InitialInvite(m)
  <2>1. active' = active /\ \A i \in Ips : Holding(i)' \subseteq Holding(i)
    BY <1>3, <1>4, <1>5 DEF IngestSip
  <2> QED
    BY <1>4, <2>1, CoverLess DEF HoldInv, HostsInv
<1>6. CASE InitialInvite(m)
  <2> DEFINE ips == <<m.src, m.dst>>
  <2>1. ips \in Ips \X Ips
    BY CorrelatorAssumption
  <2>2. active' = [i \in Ips |-> active[i] + Times(ips, i)]
    BY <1>6 DEF IngestSip, Held
  <2> HIDE DEF ips
  <2>3. active' \in [Ips -> Nat]
    <3>1. \A i \in Ips : active[i] \in Nat /\ Times(ips, i) \in Nat
      BY <2>1, EntriesCounted DEF HoldInv, HostsInv
    <3> QED
      BY <2>2, <3>1
  <2>4. ASSUME NEW i \in Ips
        PROVE  active'[i] >= Cardinality(Holding(i)')
    <3> DEFINE H == Holding(i)
               E == Entries(c, ips, i)
               G == Holding(i)'
    <3>1. IsFiniteSet(H) /\ Cardinality(H) \in Nat
      BY HoldingFinite DEF HoldInv
    <3>2. IsFiniteSet(E) /\ Cardinality(E) = Times(ips, i) /\ Times(ips, i) \in Nat
      BY <2>1, EntriesCounted
    <3>3. G \in SUBSET (H \cup E)
      BY <1>3, <1>4, <1>6 DEF ips
    <3>4. active'[i] = active[i] + Times(ips, i) /\ active[i] >= Cardinality(H)
          /\ active[i] \in Nat
      BY <2>2 DEF HoldInv, HostsInv, ActiveCoversCalls
    <3> HIDE DEF H, E, G
    <3>5. /\ IsFiniteSet(H \cup E)
          /\ Cardinality(H \cup E) = Cardinality(H) + Cardinality(E) - Cardinality(H \cap E)
          /\ IsFiniteSet(H \cap E)
      BY <3>1, <3>2, FS_Union, FS_Intersection
    <3>6. Cardinality(H \cap E) \in Nat
      BY <3>5, FS_CardinalityType
    <3>7. IsFiniteSet(G) /\ Cardinality(G) <= Cardinality(H \cup E)
      BY <3>3, <3>5, FS_Subset
    <3>8. Cardinality(G) \in Nat
      BY <3>7, FS_CardinalityType
    <3>9. active'[i] >= Cardinality(G)
      BY <3>1, <3>2, <3>4, <3>5, <3>6, <3>7, <3>8
    <3> QED
      BY <3>9 DEF G
  <2> QED
    BY <1>4, <2>3, <2>4 DEF HostsInv, ActiveCoversCalls
<1> QED
  BY <1>5, <1>6

(* on_call_terminal releases exactly what the call held: its entries leave *)
(* with it, into terminal_done or out of the table.                        *)
LEMMA TerminalCovers ==
  ASSUME HoldInv, NEW c \in CallIds, NEW m \in Messages, OnCallTerminal(c, m)
  PROVE  HostsInv' /\ ActiveCoversCalls'
<1>1. PICK t : t = WithMessage(c, m)
  OBVIOUS
<1>2. PICK gone, cut : Remove(t, gone, cut)
  BY <1>1 DEF OnCallTerminal, EvictIfNeeded
<1>3. ~InitialInvite(m) /\ c \in t.terminal_done /\ c \notin terminal_done
  <2>1. IsCall(call[c])
    BY DEF HoldInv, HostsInv, HostsOK
  <2>2. IsTerminal(ApplySip(call[c], m, now)) /\ c \notin terminal_done
    BY DEF OnCallTerminal, Ends
  <2>3. "Dialing" \notin Terminal
    BY DEF Terminal
  <2> QED
    BY <1>1, <2>1, <2>2, <2>3, ApplyHosts DEF IsTerminal, WithMessage
<1>4. /\ t.live \subseteq CallIds /\ HostsOK(t.call, t.live)
      /\ t.call[c].active_ips = call[c].active_ips
      /\ \A i : HoldingIn(t, i) \subseteq Holding(i)
  BY <1>1, <1>3, WithMessageHosts
<1>5. HostsOK(call', live') /\ \A i : Holding(i)' \subseteq HoldingIn(t, i)
  BY <1>2, <1>4, RemoveHolds
<1> DEFINE ips == call[c].active_ips
<1>6. active' = [i \in Ips |-> IF active[i] < Times(ips, i)
                                THEN 0 ELSE active[i] - Times(ips, i)]
  BY <1>1, <1>4 DEF OnCallTerminal, Released
<1>7. ips \in {<<>>} \cup (Ips \X Ips) /\ (ips # <<>> => c \in live)
  BY DEF HoldInv, HostsInv, HostsOK
<1>8. \A i : Entries(c, ips, i) \subseteq Holding(i)
  BY <1>3, <1>7 DEF Entries, Holding
<1>9. \A i : Holding(i)' \subseteq Holding(i) \ Entries(c, ips, i)
  <2> SUFFICES ASSUME NEW i, NEW h \in HoldingIn(t, i) PROVE h \notin Entries(c, ips, i)
    BY <1>4, <1>5
  <2> QED
    BY <1>3 DEF HoldingIn, Entries
<1> HIDE DEF ips
<1>10. \A i \in Ips : active[i] \in Nat /\ Times(ips, i) \in Nat
  BY <1>7, EntriesCounted DEF HoldInv, HostsInv
<1>11. active' \in [Ips -> Nat]
  BY <1>6, <1>10
<1>12. ASSUME NEW i \in Ips
       PROVE  active'[i] >= Cardinality(Holding(i)')
  <2> DEFINE H == Holding(i)
             E == Entries(c, ips, i)
             G == Holding(i)'
  <2>1. IsFiniteSet(H) /\ Cardinality(H) \in Nat
    BY HoldingFinite DEF HoldInv
  <2>2. Cardinality(E) = Times(ips, i) /\ Times(ips, i) \in Nat
    BY <1>7, EntriesCounted
  <2>3. E \subseteq H /\ G \in SUBSET (H \ E)
    BY <1>8, <1>9
  <2>4. /\ active'[i] = IF active[i] < Times(ips, i) THEN 0 ELSE active[i] - Times(ips, i)
        /\ active[i] >= Cardinality(H) /\ active[i] \in Nat
    BY <1>6, <1>10 DEF HoldInv, ActiveCoversCalls
  <2> HIDE DEF H, E, G
  <2>5. H \cap E = E
    BY <2>3
  <2>6. IsFiniteSet(H \ E) /\ Cardinality(H \ E) = Cardinality(H) - Cardinality(E)
    BY <2>1, <2>5, FS_Difference
  <2>7. IsFiniteSet(G) /\ Cardinality(G) <= Cardinality(H \ E)
    BY <2>3, <2>6, FS_Subset
  <2>8. Cardinality(G) \in Nat
    BY <2>7, FS_CardinalityType
  <2>9. active'[i] >= Cardinality(G)
    BY <2>1, <2>2, <2>4, <2>6, <2>7, <2>8
  <2> QED
    BY <2>9 DEF G
<1> QED
  BY <1>5, <1>11, <1>12 DEF HostsInv, ActiveCoversCalls

(* A media packet touches last_ts of its call and nothing else of it *)
LEMMA TouchCovers ==
  ASSUME HoldInv, NEW c, call' = Touched(c), UNCHANGED <<live, terminal_done, active>>
  PROVE  HostsInv' /\ ActiveCoversCalls'
<1>1. HostsOK(call, live)
  BY DEF HoldInv, HostsInv
<1>2. ASSUME c \in live
      PROVE  /\ call' = [d \in CallIds |-> call'[d]]
             /\ \A d \in CallIds : /\ IsCall(call'[d])
                                   /\ call'[d].active_ips = call[d].active_ips
  <2>1. c \in CallIds
    BY <1>2 DEF HoldInv, TablesInv, TablesOK
  <2>2. call' = [call EXCEPT ![c] = [call[c] EXCEPT !.last_ts = now]]
    BY <1>2 DEF Touched
  <2>3. /\ IsCall([call[c] EXCEPT !.last_ts = now])
        /\ [call[c] EXCEPT !.last_ts = now].active_ips = call[c].active_ips
    BY <1>1, <2>1, CallFields DEF HostsOK, IsCall
  <2> QED
    BY <1>1, <2>1, <2>2, <2>3 DEF HostsOK
<1>3. ASSUME c \notin live
      PROVE  call' = call
  BY <1>3 DEF Touched
<1>4. HostsOK(call', live') /\ \A d \in CallIds : call'[d].active_ips = call[d].active_ips
  BY <1>1, <1>2, <1>3 DEF HostsOK
<1>5. \A i \in Ips : Holding(i)' \subseteq Holding(i)
  BY <1>4 DEF Holding, HoldInv, TablesInv, TablesOK
<1> QED
  BY <1>4, <1>5, CoverLess DEF HoldInv, HostsInv

(* Maintenance only removes: calls that go take their entries along, and   *)
(* the counters keep them.                                                 *)
LEMMA FlushCovers ==
  ASSUME HoldInv, NEW ts, PeriodicFlush(ts)
  PROVE  HostsInv' /\ ActiveCoversCalls'
<1>1. PICK gone, cut : Remove(Tables, gone, cut)
  BY DEF PeriodicFlush, EvictIfNeeded
<1>2. Tables.live \subseteq CallIds /\ HostsOK(Tables.call, Tables.live)
  BY DEF HoldInv, TablesInv, TablesOK, HostsInv, Tables
<1>3. HostsOK(call', live') /\ \A i : Holding(i)' \subseteq HoldingIn(Tables, i)
  BY <1>1, <1>2, RemoveHolds
<1>4. active' = active
  BY DEF PeriodicFlush
<1> QED
  BY <1>3, <1>4, HoldingIsIn, CoverLess DEF HoldInv, HostsInv

(* Every step keeps the counters covering *)
LEMMA NextCovers == HoldInv /\ [Next]_vars => HoldInv'
<1> SUFFICES ASSUME HoldInv, [Next]_vars PROVE HostsInv' /\ ActiveCoversCalls'
  BY NextCoherent DEF HoldInv
<1>1. ASSUME NEW c \in CallIds, NEW m \in Messages, IngestSip(c, m) \/ OnCallTerminal(c, m)
      PROVE  HostsInv' /\ ActiveCoversCalls'
  BY <1>1, IngestCovers, TerminalCovers
<1>2. ASSUME NEW k \in Keys, ExistingRtp(k) \/ NewRtp(k) \/ IngestRtcp(k.ssrc)
      PROVE  HostsInv' /\ ActiveCoversCalls'
  <2>1. /\ \E c : call' = Touched(c)
        /\ UNCHANGED <<live, terminal_done, active>>
    BY <1>2 DEF ExistingRtp, NewRtp, IngestRtcp, bookkeeping
  <2> QED
    BY <2>1, TouchCovers
<1>3. ASSUME NEW ts, PeriodicFlush(ts)
      PROVE  HostsInv' /\ ActiveCoversCalls'
  BY <1>3, FlushCovers
<1>4. ASSUME UNCHANGED <<live, call, terminal_done, active>>
      PROVE  HostsInv' /\ ActiveCoversCalls'
  <2>1. HostsInv'
    BY <1>4 DEF HoldInv, HostsInv, HostsOK
  <2>2. \A i \in Ips : Holding(i)' \subseteq Holding(i)
    BY <1>4 DEF Holding
  <2> QED
    BY <1>4, <2>1, <2>2, CoverLess
<1>5. CASE Clear
  <2>1. /\ live' = {} /\ active' = [i \in Ips |-> 0]
        /\ call' = [c \in CallIds |-> NewCall]
    BY <1>5 DEF Clear
  <2>2. HostsInv'
    BY <2>1 DEF HostsInv, HostsOK, IsCall, NewCall
  <2>3. \A i : Holding(i)' = {}
    BY <2>1 DEF Holding
  <2> QED
    BY <2>1, <2>2, <2>3, FS_EmptySet DEF ActiveCoversCalls
<1>6. ASSUME NEW ts, PrimeFlush(ts)
      PROVE  UNCHANGED <<live, call, terminal_done, active>>
  BY <1>6 DEF PrimeFlush, calltable, bookkeeping
<1>7. ASSUME NEW f, NEW on, SetHints(f, on)
      PROVE  UNCHANGED <<live, call, terminal_done, active>>
  BY <1>7 DEF SetHints, calltable, bookkeeping
<1>8. ASSUME Tick \/ UNCHANGED vars
      PROVE  UNCHANGED <<live, call, terminal_done, active>>
  BY <1>8 DEF Tick, vars, calltable, bookkeeping
<1> QED
  BY <1>1, <1>2, <1>3, <1>4, <1>5, <1>6, <1>7, <1>8 DEF Next

(* For every set of calls, hosts and messages, a host's concurrent-call    *)
(* counter is never below the number of live calls that hold it: the       *)
(* saturating decrement of active_add never hides an imbalance, whatever   *)
(* INVITEs are repeated, evicted or cleared in between.                    *)
THEOREM CountersCover == Spec => []ActiveCoversCalls
<1>1. Init => HoldInv
  <2> SUFFICES ASSUME Init PROVE HostsInv /\ ActiveCoversCalls
    BY InitCoherent DEF HoldInv
  <2>1. HostsInv
    BY DEF Init, HostsInv, HostsOK, IsCall, NewCall
  <2>2. \A i : Holding(i) = {}
    BY DEF Init, Holding
  <2>3. \A i \in Ips : active[i] = 0
    BY DEF Init
  <2> QED
    BY <2>1, <2>2, <2>3, FS_EmptySet DEF ActiveCoversCalls
<1>2. HoldInv => ActiveCoversCalls
  BY DEF HoldInv
<1> QED
  BY <1>1, <1>2, NextCovers, PTL DEF Spec
=============================================================================

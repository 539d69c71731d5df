# A TLA+ verification of sipmon

sipmon watches SIP and RTP traffic: frames are decoded, correlated into calls and
media streams, aggregated into statistics, shown in a terminal interface and
recorded in an event log. This directory holds TLA+ models of it, the TLC
configurations that check them and TLAPS proofs of the main properties of its core.
`PROJECT.json` maps every definition to source lines and lists runs, mutants,
findings, hazards and theorems.

## 1. The system

One worker thread takes frames from a capture source (live interface, pcap file,
stdin) or records from an event log and drives the correlator. Everything the
correlator owns is touched by that thread only. The terminal interface runs on the
main thread and exchanges state with the worker through mutexes and atomics in
`Shared` (snapshot, focus, filter, pause, clear, stop); a signal handler sets a flag
that the worker polls.

| Part | State | Operations | What makes it correct | Modules |
|---|---|---|---|---|
| RTP loss tracking (`analyze/media_stats.rs`) | last sequence number, 64-bit reorder bitmap, counters | one observation per packet | each missing packet is counted once, across wraps, gaps, reordering and restarts | `RtpLoss`, `RtpSequence` |
| Call state machine (`correlate/call.rs`, `model/sip.rs`) | one record per Call-ID: state, outcome, timeline, timings | `apply_sip` per message | a state is backed by its timeline; timings match it; milestones never move | `SipCall`, `CallMachine` |
| Registry tables (`store/registry.rs`) | calls, display order, streams, per-call / SSRC / endpoint indexes, pins | create, remove, capacity and TTL eviction, search refresh, clear | indexes agree with the tables; capacities are restored; pinned calls stay | `Correlator` |
| Correlator (`correlate/mod.rs`) | the registry, `invite_rr`, `terminal_done`, pending events, maintenance clocks | SIP / RTP / RTCP / STUN ingestion, teardown, periodic maintenance | one teardown per call; bookkeeping is bounded; rates, samples and warnings belong to the stream they are shown at | `Correlator`, `Ingest` |
| TCP reassembly, TURN, SDP, diagnostics (`decode/tcp_reasm.rs`, `correlate/turn.rs`, `decode/sdp.rs`, `analyze/`) | a buffer per flow; servers, allocations, relays; negotiated media; counters and a bounded ring | feed, STUN ingestion, merge, rules, pruning | messages come out whole and in order; a relay is known only through an allocation; a warning is justified | `TcpReasm`, `Turn`, `Sdp`, `Rules`, `Ingest` |
| Per-IP, SIP and heatmap statistics (`store/ipstats.rs`, `sipstats.rs`, `heatmap.rs`) | totals, rings and series of buckets | attribution, counting, pruning | nothing is attributed twice or lost; a bucket shows its own second | `IpStats`, `SipStats`, `Traffic` |
| Event log (`store/evlog.rs`) | a file of varint-framed records | write, flush, append, read | a reader recovers what reached the disk, in order | `Varint`, `Evlog`, `EvlogCodec` |
| Session statistics (`store/evstats.rs`) | accumulators and windows | one ingestion per event, live or from a log | the two reports agree, tables add up | `Evstats`, `Session` |
| Threads (`main.rs`) | `Shared`, worker loop | capture, pause, clear, publish, stop, replay | a stop ends the worker with a complete recording; requests are noticed | `Pipeline` |
| Interface (`ui/app.rs`, `ui/call_detail.rs`) | page, selections, filter editor, b-leg link; the ladder's lanes | keys | the worker is told what the operator sees; messages are drawn between the right hosts | `Console`, `Ladder` |
| Decoding (`decode/`) | none | link, IP, UDP/TCP, RTP, RTCP, STUN, choice of protocol | exactly what was sent or nothing | `Bytes`, `Frame`, `Rtcp`, `Stun`, `Demux`, `Decoding` |

Frames drive everything: a SIP message reaches `ingest_sip`, which may create a
call, learn media endpoints and reach `on_call_terminal`; an RTP packet reaches
`ingest_rtp`, which finds its stream or creates one through the endpoint index;
after each frame `maybe_periodic_flush` runs maintenance when capture time says
so; between frames `publish` copies the operator's focus and filter into the
registry and publishes a snapshot.

What is hard here: messages of a dialog arrive in any order, repeatedly, or not at
all; the tables are changed by four paths (messages, teardown, maintenance, clear)
that must keep five indexes in step; pins, hints, flush marks and snapshots are
used later than they were computed; two threads and a signal handler interleave;
sequence numbers, counters and delays are fixed-width; rings wrap under timestamps
that are late or far ahead; TCP is cut anywhere; and the recorder may die at any
byte. The `hazards` of `PROJECT.json` list these at the line where they bite.

## 2. Modules

**`RtpLoss`** (abstract) and **`RtpSequence`** (detailed). `RtpSequence` is
`observe` / `observe_sequence`: one action per branch (`FirstPacket`, `Duplicate`,
`Forward`, `SenderRestart`, `Reordered`). The bitmap is the set of the ages of its
set bits; number space, reorder window and restart threshold are constants. History
variables give the wrapped numbers unwrapped positions. `RtpLoss` says what the
tracker promises: count the positions missing from the set of those received in
time. `RtpSequence` implements it with `loss <- SnapshotLost`, the loss a snapshot
reports.

**`SipCall`** is the call record and `apply_sip` as operators, one per branch of
the code; `CallMachine`, `Correlator`, `Session` and `Ingest` all use it.
**`CallMachine`** applies them to one call; the capture may show any message at any
time, so loss, duplication, reordering and captures that start mid-call are all
behaviours. Delays are `(u64 - u64) / 1000 as u32` with both widths as constants;
timestamps come in any order from `Times`, so a clock may step back and a delay wrap.

**`Correlator`** composes `SipCall` with the tables: `IngestSip` and
`OnCallTerminal` (together `ingest_sip`), `ExistingRtp`, `NewRtp`, `IngestRtcp`,
`PrimeFlush` and `PeriodicFlush` (`maybe_periodic_flush`), `SetHints` (what
`publish` hands over), `Clear`, and `Tick` for capture time. A map is a set of
keys or a total function with a default; a `Vec` used as an index is the number
of occurrences of each key, so a stale or duplicated entry would be visible. Sort
ties are broken in any way. Time counts maintenance periods. `active` is the
per-IP concurrent-call counter. The filter is the constant set `Matching`; what it
pins is the matches of the last refresh, as in the code.

**`Ingest`** follows one call from frames: datagrams, or one TCP connection cut
into segments (**`TcpReasm`**), descriptions (**`Sdp`**), RTP and RTCP, STUN
(**`Turn`**), the rules with their counters and ring (**`Rules`**), teardown,
maintenance and clear. The correlator is one record because the messages framed by
one segment are ingested in a row. A byte of a TCP stream is a position in its
messages, so header, length and body are told apart and a false Content-Length is
possible. Keep-alives of two line ends are items of the stream; those of one (a pong)
stand before the message that follows them. Segments may be lost, or seen again or out
of order (`Repeat`), since the code ignores TCP sequence numbers; idle buffers are
pruned. For the route warning the history holds, of every INVITE since the call
entered the table, whether it carried Record-Route.

**`Traffic`** is the path into the statistics: streams accumulate, the 1 s ticker
folds what is new into both endpoints, SIP messages are counted, an answer is
credited to the sender of the INVITE, ended calls enter the heatmap at the first of
the stamps end, BYE, answer and INVITE that they have, and maintenance prunes.
**`IpStats`** and **`SipStats`** hold the rings and series as operators. Frames may be
late by `MaxSkew`, and an idle tick carries timestamp 0.

**`Evlog`** is the writer with its `BufWriter`, the disk as a sequence of bytes,
and the reader as an operator on what is on disk; the process is killed at any
point, a write is refused, and a second recording appends. **`Varint`** has the
encoding in base `Base`, scaled down so that short numbers take several bytes.
**`EvlogCodec`** lays out the body of every event type and the decoders (replay,
query, stats, old layouts).

**`Session`** is one capture session and its two reports: the live accumulator and
the scan of the log (**`Evstats`** has the accumulation as operators). The log holds
the saturated deltas of the writer, so the times scanned drift after an older event;
records may be damaged before the scan.

**`Pipeline`** splits the worker's loop at every access to a shared variable and
interleaves it with the interface thread, a signal and a clock, for capture, replay
and jsonl view and for live, file and stdin sources. The correlator is its frame
count and pending events, the log a count of events buffered and on disk. The jsonl
view publishes what was imported, again with each change of focus or filter.

**`Console`** is `run_tui` as a process: draw, wait for a key, handle it, while the
worker replaces the snapshot. Pages, selections, the filter editor, focus, Enter,
b-leg picker and clear are followed; cursors that no other operation reads are not.

**`Decoding`** puts readers against what was written: log bodies, link/IP/transport
headers (**`Frame`** over **`Bytes`**), UDP payloads (**`Demux`** with **`Rtcp`** and
**`Stun`**) and the lanes of the call ladder (**`Ladder`**). The writer's side is part
of `Decoding`, built from the formats and independent of the readers. **`Option`**
holds an optional value.

**`Sums`** has sums over finite sets, written so that they can be proved about;
`SumProofs` and the other `*Proofs` modules hold the theorems of section 4.

`MC*` modules give the constants values; `Pipeline` is checked as it stands. Definitions marked "Mutant" are wrong
versions of their neighbours; substituting one makes TLC report the property
`PROJECT.json` names, which shows that the property depends on that code.

## 3. What the runs show

| Run | Instance | What is asked |
|---|---|---|
| `rtp_sequence` | 16 sequence numbers, window 3, restart threshold 5, six packets, starts on both sides of the wrap | the bitmap means what its comment says, and the loss reported is that of a set of received positions (`PendingIsMissing`, `IInv`, `RefinesLoss`) |
| `call_machine` | every message the branches tell apart, two timestamps in any order, 2 us per ms, clocks of 16 values, delays of 4 | no order of messages yields an Active call without answer or a Completed one without end; PDD, setup and ring time are those of milestones that never move, wrapped when the clock stepped back (`StateHasEvidence`, `TimingsMatchTimeline`, `MilestonesWrittenOnce`, `TypeOK`) |
| `correlator_tables` | two calls for one slot, two streams for one slot, shared endpoints, TTL 1, any focus, one search pin | all indexes agree with the tables after any mixture of creation, eviction, removal and clear; maintenance restores the capacities, pinned calls aside; the per-IP counter never falls below the calls that hold it; a pinned call leaves only through clear (`Coherent`, `CapacityRestored`, `ActiveCoversCalls`, `PinnedSurvive`) |
| `evlog` | 3-bit groups, buffer of 6 bytes, three events, two sessions, one refused write, a kill at any byte | what is read is what was written, in order, up to the header of the second recording; what the first recording got to the disk is read; replay times are exact until an event is older than the one before (`ReadsBackInOrder`, `DurableIsRead`, `ReplayClock`) |
| `pipeline` | two frames, one focus, one query, two keys, every mode and source | no event is lost, a worker that ended left a complete recording and snapshot, no snapshot of a capture or replay shows cleared counts; a stop ends the worker; requests are noticed (`EventsConserved`, `CompleteAtExit`, `NoStaleCounts`, `StopEndsWorker`, `RequestsNoticed`) |
| `console` | two calls, two addresses, five keys, two publications | the worker is told the query and the link on the screen; Enter opens the highlighted call (`HintsFollowUi`, `OpensHighlighted`) |
| `traffic` | two streams or one dialog with INVITE, BYE, CANCEL and answers, rings of two, times 0 to 3, skew 1, three events | packets reach both endpoints once, a reported loss stays reported, rings, series and heatmap show what happened in their seconds, an answer is credited once (`PacketsAttributed`, `LossCovered`, `RingsExact`, `SipCountsSound`) |
| `session` | one dialog or two streams, four events per plane, windows two wide, one damaged record | the live report is the one scanned from the log, windows and end included until an event is older than the one before; a damaged record leaves no trace; each call is in one outcome; windows, streams and addresses add up (`ReportsAgree`, `DamageIsLocal`, `OutcomesCounted`, `TablesAddUp`) |
| `ingest` | nine scenes of one call, each stressing one subsystem; one allocation, one relay, two servers; TCP buffer of 12, segments up to 2, a segment seen again from up to 8 bytes back, pings and pongs | rates follow SDP in any order of media, offer and answer; warnings are justified; relays are known; samples are the newest; TCP is framed exactly and again soon after a fault; maintenance bounds the tables (seven properties) |
| `decoding` | every event type, every link type, every datagram kind and each of their prefixes; a bridged call of up to four messages in any order | readers recover what was written, or nothing (`BodiesRecovered`, `FramesExact`, `DatagramsDelivered`, `LadderFollowsFlow`) |
| `active_evicted_first` | two calls for one slot | refuted, see below |
| `filter_match_evicted` | two calls for one slot, a filter that matches both | refuted, see below |

**The refuted statements.** (1) The comment in `evict_if_needed` says "Rank: terminated calls evict
first"; the sort puts calls in progress first, so capacity eviction drops an active
call and keeps a terminated one. (2) The comment of `search_hint` in
`store/registry.rs` and the project's README say that calls matching the filter are
kept. Pinned are the matches of the last refresh, at most 5 s old: a call that
matches since then, or that ended since, is evicted when the next call ends.

**Exceptions inside the properties.** Where the code does less than one would like,
the property names the exception instead of leaving the case out: `PacketsAttributed`
excepts behaviours in which the stream cap evicted a stream (its tail is lost),
`ReadsBackInOrder` stops at a torn direct write, `StopEndsWorker` excepts a worker
blocked on a silent pipe, `OpensHighlighted` an Enter on a snapshot newer than the
screen, `RelaysKnown` a relay that pruning dropped, `RatesFollowSdp` a stream whose
payload type changed. Further:

* `PinnedSurvive` speaks of the focus and of the matches of the last refresh.
* `DurableIsRead` and `ReadsBackInOrder` claim the events of the recording that began
  the file: a second recording appends its header, which is read as a record.
* `NoStaleCounts` leaves out the jsonl view, which publishes the imported snapshot
  again after a clear.
* `ReportsAgree` asks for equal windows and ends only while no event was older than
  the one before it; all other fields agree always.
* In `RingsExact` a heatmap bucket behind the furthest cutoff of the pruning may begin
  again and then shows less, never more; a call rejected by a 487 without CANCEL
  counts at its INVITE.
* `RouteWarningsSound`: among several INVITEs of a call the first decides, so a warning
  is justified if any of them carried Record-Route and due if all did.
* `StreamsFramed`: a message behind a keep-alive of one line end is dropped (it begins
  with a line end and does not look like SIP), and after a fault one more message may
  be lost.
* `DatagramsDelivered`: RTP with payload type 72 to 79 and marker is taken for RTCP.
* `LadderFollowsFlow`: an address without a column is drawn by leg number; when the
  callee's dialog was captured first, its arrow may start in the other column.

**Bounds.** The sequence run lets each comparison fall on both sides (gap smaller,
equal and larger than the window and than the restart threshold, a wrap forward and
backward); six packets allow gap, partial recovery, expiry, restart and a new gap.
The call run holds one message for every branch of `apply_sip`; two timestamps whose
difference does not divide by a millisecond give equal, rising and falling stamps,
rounding, wrapped and cut delays. Two calls for one slot are the smallest instance in which
eviction chooses, and `MaxCount` lets a counter be raised twice. Symmetry on Call-IDs
is sound: nothing orders them, and no liveness is checked with it. Nor does
anything order the hosts of `traffic`, if their streams change places with them. In `evlog`, three
bits per group make a length or a delta of 8 take two bytes, the buffer holds one to
two records so both the buffered and the direct path of `BufWriter` occur, and the
header read as a record asks for a longer body than follows, as the real one does. In
`pipeline` two frames suffice for one before and one after any request, and a stdin
batch can be full or cut. In `console` five keys reach every page, the picker and the
editor, and a query of two characters can be typed, trimmed and cut back. In `traffic` a ring of two wraps within the times, a skew of one lands before
the ring's start, and the flush period is twice the attribution period. In `ingest`
`MaxStreamBuf` holds two of the longest messages and a segment (the hypothesis
of `StreamsAlwaysFramed`), so an oversized buffer arises only from a fault, as in the
code, where the cap of 1 MiB is far above a SIP message; resynchronisation is asked
behind twice the buffer after the fault, and the connections are long enough to have
such messages behind a loss, a repeated segment and a false length. A loss and a
repeated segment in one connection, which together reorder, are in no scene (too many
states); `StreamsAlwaysFramed` covers them. In `decoding` varints have up to four groups, so every field's
encoding is one to several bytes.

**Deadlock** is checked in `call_machine` and the correlator runs, where something
can always happen. The others end: at their bound (`rtp_sequence`, `evlog`,
`console`, `traffic`, `session`, `ingest`), when the process exits (`pipeline`), or
when all was read (`decoding`).

**Fairness** is assumed in `Pipeline` only: weak fairness of the worker's steps (a
runnable thread; every wait but the read of a pipe has a timeout), of the clock, of
`join` and of the headless jsonl wait. None is assumed of the operator, of signals or
of whoever writes the pipe.

## 4. What is proved

Theorems hold for every value of the constants that the named assumptions allow:
widths are positive, bounds and capacities are numbers, tables of calls and streams
are finite, `None` and `Nothing` are none of the values (`SequenceAssumption`,
`SipAssumption`, `CallAssumption`, `CorrelatorAssumption`, `PipelineAssumption`,
`TrafficAssumption` with those of `IpStats` and `SipStats`, `ConsoleAssumption`,
`IngestAssumption` with those of `Turn` and `TcpReasm`). TLC evaluates each on the
instance it checks. `IngestAssumption` also says that what a connection carries is a
sequence of bytes, since the concatenation that builds it is recursive, that a
description lists finitely many payload types, and that every scene has its fields.

* `RtpSequenceProofs`. `PendingIsMissing` alone does not fix `lost_packets`, so the
  invariant `IInv` adds `SettledLoss`: the counter holds what earlier epochs left
  plus the positions that fell behind the window without arriving. `Epoch` relates
  the history variables. The heart is `ForwardSettles`: the positions that leave
  the window in a forward step are the expired bits and the part of the gap the
  window cannot hold, all disjoint. `BitmapImplementsSet` maps each action to an
  action of `RtpLoss` or to a stutter.
* `CallMachineProofs`. `Good` says what one message does to a record: it stays well
  typed, keeps its evidence and keeps its milestones. Evidence must be
  strengthened with "a timing exists only with the milestone that wrote it"
  (`Sound`), or a second answer could rewrite a setup time. One lemma per branch of
  `apply_sip`, any timestamps. `TimingsExact` adds `Timed`: the history
  `order` names the milestones set, and each delay is there exactly if its two were set
  in that order, and is the time between their stamps. It assumes nothing of the clocks:
  with stamps that step back the delay is the wrapped difference, and a long one the
  part that fits, as `Between` spells out.
* `CorrelatorProofs`. `Coherent` with the table types is inductive. `Remove` carries
  the argument: removing any calls with the streams their index lists, and any
  further streams, keeps every index in agreement (`RemoveCoherent`); it needs
  that the tables handed to it agree (`Ready`), which holds because a call is
  inserted before anything refers to it. Victims are unpinned (`VictimsUnpinned`),
  and the matches are looked up before maintenance evicts (`FlushPinsMatches`),
  hence `PinsHold` (for recordings that keep terminated calls; a headless one has
  no operator); they are enough (`VictimsSuffice`), hence `CapacityHolds`.
  `IndexesCoherent` covers headless recordings (`KeepTerminated = FALSE`) too.
  `CountersCover` bounds a counter from below by the number of (call, side) pairs
  that hold it (`HoldInv`): a teardown releases at most its own pairs, and a
  repeated INVITE adds to the counter without adding a pair.
* `PipelineProofs`. The three safety properties rest on where the worker is when it
  looks at a flag. Events are pending only between a delivery and the drain after it
  (`PendingPlace`), so a clear, taken at the top of the loop, finds nothing pending;
  after the last flush only its own publication is left (`WoundUp`).
  `SnapshotsNotStale` is about capture and replay.
* `TrafficProofs`. The attribution tick folds over the set of streams.
  `AttributeGives` says what the fold adds to every address, by induction on that
  set; with it each step moves packets from the tails of the streams to their
  addresses (`MediaInv`). For the answer credit, `SipInv` counts the dialogs still
  waiting: answers credited plus dialogs waiting never exceed the INVITEs counted.
  `RingsAlwaysExact` compares each store with a count per time. That inner buckets
  are exact is not inductive: a bucket opened at the end is exact only if nothing was
  counted for its time before, and wide windows reach the oldest bucket, where
  packets too late for their own go. `RingsOk` therefore says of every ring that it
  is contiguous and bounded (`Shape`), that nothing was counted after its last
  bucket, that all buckets but the first are exact, and that the first holds at least
  its own traffic and, until something was dropped, all older traffic too (`Filled`).
  `bucket_mut` keeps it when it moves the ring forward (`MovedFilled`) and when it
  adds to the bucket found (`GivenFilled`); the windows (`NewestExact`,
  `NewestCovers`) and the columns (`GroupSums`) are read off it. A series shows every
  entry it holds and nothing after its last (`SeriesOk`), so a bucket past the end
  starts from zero. A heatmap cell never shows more than ended in it, and all of
  it from the furthest cutoff so far on (`HeatInv`). Hypothesis: `FineWidth = 1`, for
  `window` takes seconds as a number of buckets (one-second buckets in the code). The
  run has it.
* `ConsoleProofs`. `ConsoleInv` says what the hints must be for any state of the
  interface, and that between a draw and the next key the highlight is on the call
  in its row as long as the snapshot drawn is the current one (`Lit`). `Only`, the
  recursive filter of a list, is characterised in `SumProofs`.
* `IngestProofs`. `Recalled` relates the correlator record to the history of its
  call: the route noted is that of the first INVITE since the call entered, every flow of the call is
  among its streams until the cap or the teardown removes it, each stream holds the
  end of the samples it was given, streams have distinct ages below the next one,
  and the relays cover the allocations. It is kept by one message (`RecallStep`),
  hence by all messages a TCP segment completes, whatever the cut (`HeardRecalled`
  with `FeedCuts`), by RTP, RTCP and STUN, maintenance and clear. Without the ages
  `EvictBounds` fails: two streams of one age could both be kept by the cap.
  `RatesAlwaysFollowSdp` adds `RateInv`: the negotiated table agrees with the rates
  the history collected from offers and answers (`Agreed`), and every stream that kept
  its payload type is measured on that table's clock (`Timed`), a stated rate of 0
  counting as none. `MergedIs` carries it: `merge` keeps the entries of the first
  description and appends what only the second one has, so the first rate stated for a
  payload type is the one both sides of the relation hold. Each branch of `apply_sip`
  leaves the table alone or negotiates through `MergedIs` (the `KeepsNeg` lemmas).

  `StreamsAlwaysFramed` adds `FrameInv`. `WireLaid` gives the end of every item in the
  bytes of the connection (`EndsOf`), `CutsAt(w, p, c)` says that a frame begun after
  byte `p` ends at `c` whatever else has arrived, so the loop of `feed` is a walk from
  cut to cut (`FramedWalk`), and a true Content-Length leads from the beginning of an
  item to its end (`AlignedCut`). As long as no bytes were lost or repeated and every
  length is true, the buffer begins where an item ends and everything before it was
  heard, but for messages behind a single line end (`Met`). After a fault the beginning
  of the buffer is unknown, and "every message far behind it is heard" is not inductive:
  what has to be carried is that such a message is heard, or begins more than a buffer
  after the last byte captured, or is still ahead of a buffer that holds no fault
  (`Due`, `Waits`). A retransmitted or reordered segment counts as a fault at the
  furthest byte seen. A frame begun in the middle of an item ends in that item or takes
  the next one along (`InsideCut`), never more, so from a position at least two items
  away the walk comes to the beginning of the message, unless it comes to a line end
  left over just before it: that costs this message, after which the walk is aligned
  (`Reaches`, `NextCut`). `Due` therefore has a message `j` before the one it is about,
  which is the one that may be lost. That the buffer is free of faults by then follows
  from its size: its recent bytes are contiguous (`Recent`) and it never holds more
  than `MaxStreamBuf`. Hypothesis: for every item, twice its length and a segment are at
  most `MaxStreamBuf + 2`: a message longer than the buffer is never framed, and a frame
  begun inside a message can be nearly as long as two. The run has it.

**Induction.** The library's induction theorems take an operator and cannot be
instantiated here. `SumProofs` replaces them by `SetInduction` (a set of numbers
that has 0 and successors is `Nat`), applied to the set of the lengths or sizes for
which a table of the recursion exists and has the wanted form; sums over finite sets
(`Sums`), folds over sequences and recursive functions are all handled that way.

**Only model-checked.** Liveness (`StopEndsWorker`, `RequestsNoticed`) is out of the
prover's reach. The properties of `Evlog` and `Decoding` compare recursive encoders
with recursive decoders. The properties of `Session` relate two accumulators fed by
the same events.

## 5. Plan

Proofs still worth having: `OutcomesCounted` and `TablesAddUp` of `Session`, sums over
the accumulators.

## 6. Not modelled

Rendering, colours, masking and scrolling; floating point (jitter, MOS, RTT values,
averages and percentiles of snapshots and reports); JSON export and import; the
command line, daemonisation and configuration; the self test; the syntax of SIP
headers, of filter rules and of SDP text (their meaning is modelled); the etherparse
fallback behind the fast header parser, a library; `replay_apply`, which rebuilds
display data from log records; a keep-alive or line end cut in two by a segment.

## 7. Seen while modelling

Behaviour of the code that the models reproduce, or that bounded what a property
could say, and that no run is about.

*Calls.* A 200 to a CANCEL counts as an answer. A 401 or 407 stamps the end of the
call and tears it down, so an authenticated retry has no talk time and is reported as
failed. A retransmitted INVITE raises the per-IP counters again. A headless recording
forgets that it tore a call down. CANCEL leaves the outcome `InProgress`. Delays wrap
when timestamps run backwards.

*Statistics.* The stream cap drops a stream's un-attributed tail. The attribution mark
follows a shrinking loss down, so a loss that reappears is counted again. A 200 to a
CANCEL consumes the answer credit. `NER` may exceed 100 %. Streams shorter than a
flush period are never in a snap. A span's start and end are those of the first and
last event, not the least and greatest. A call that a 487 ends without CANCEL is entered in
the heatmap at its INVITE, whose bucket may already be pruned.

*Event log.* After an event older than its predecessor, replayed times stay ahead, so
the windows of `sipmon stats` may differ from the live ones. A recording appended to a
log writes a second header, which the reader takes for a record. A
write torn by the disk breaks the framing of all that follows. Writer errors after
opening are ignored.

*Threads.* A failing interface returns before `join`, so the log may be unflushed. A
signal in record mode ends the worker while the interface keeps running. A silent pipe
delays a stop. A clear in the jsonl view is undone by the next change of focus.

*Interface.* Enter uses the newest snapshot, not the drawn one. The b-leg picker's
primary may be stale. Leaving by `x` keeps the focus hint. In the ladder a BYE of the
callee adds a leg, and three columns may become two; an address without a column is
drawn by leg number.

*Media and TURN.* Relays do not expire with their allocations and learned servers
survive a clear; a stream that began before its relay was learned never gets a leg.
One-way media is not reported when two SSRCs flow in the same direction. A changed
payload type keeps the old clock rate. RTCP samples go to every stream of an SSRC.
RTP with marker and payload type 72 to 79 is taken for RTCP. A call's Record-Route is
that of its first INVITE, whatever later ones carry.

*TCP.* A buffer and a segment over the cap are dropped even when a whole message is
among them; a lost segment can swallow the messages behind it. A keep-alive of one
line end drops the message that follows it. Retransmitted and reordered segments are
appended as they come.

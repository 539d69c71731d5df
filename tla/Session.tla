------------------------------ MODULE Session -------------------------------
(***************************************************************************)
(* A capture session and its two reports.  The correlator emits an event   *)
(* for every SIP message, one for the teardown of a call and, every five   *)
(* seconds, one for every stream (ingest_sip, on_call_terminal and         *)
(* maybe_periodic_flush, src/src/correlate/mod.rs).  push_ev feeds each    *)
(* event to the report printed when the session ends and appends it to     *)
(* the log, which `sipmon stats` scans later.  In the log the `ts` of a    *)
(* record is the time since the record before, never negative: after an    *)
(* event older than its predecessor the times read back are ahead of the   *)
(* recorded ones.                                                          *)
(*                                                                         *)
(* Calls follow SipCall.tla, the reports Evstats.tla.  Signalling and      *)
(* media meet only in the report, so a behaviour has the frames of one     *)
(* `plane`.  Records of the log may be damaged before it is scanned.       *)
(***************************************************************************)
EXTENDS SipCall, Evstats

CONSTANTS Dialogs, Messages,      \* Call-IDs and the messages of a dialog
          Keys, CallOf, FlowOf,   \* streams: SSRC, its call and its flow
          Stamps, MaxSkew,        \* times of each plane, how far they step back
          MaxEvents, MaxDamage    \* bounds: events of each plane, damaged records

VARIABLES calls, codes,           \* Call and its hangup code
          terminal_done,
          streams,                \* packets and losses of each stream
          last_us,                \* time of the last frame
          live, log,              \* the running report, the event log
          last_ts,                \* EvlogWriter::last_ts
          plane, events, over,
          reached, restarted, cleared,  \* history
          forward                 \* history: no event was older than the one before
recorded == <<live, log, last_ts, forward>>
vars == <<calls, codes, terminal_done, streams, last_us, recorded, plane, events,
          over, reached, restarted, cleared>>

Init ==
  /\ calls = <<>> /\ codes = <<>> /\ terminal_done = {}
  /\ streams = <<>> /\ last_us = 0
  /\ live = NewStats /\ log = <<>> /\ last_ts = 0 /\ forward = TRUE
  /\ plane \in {"sip", "media"} /\ events = 0 /\ over = FALSE
  /\ reached = {} /\ restarted = {} /\ cleared = FALSE

Step(p, t) ==
  /\ ~over /\ plane = p /\ events < MaxEvents[p] /\ t + MaxSkew[p] >= last_us
  /\ events' = events + 1 /\ last_us' = t /\ UNCHANGED <<plane, over>>

(* EvlogWriter::write: the record of an event, with its delta for a time *)
Before(es, i) == IF i = 1 THEN last_ts ELSE es[i - 1].ts
Record(es, i) == [es[i] EXCEPT !.ts = Less(@, Before(es, i))] @@ [readable |-> TRUE]

(* push_ev, for a sequence of events *)
PushEv(es) ==
  /\ live' = FoldLeft(Ingest, live, es)
  /\ log' = log \o [i \in DOMAIN es |-> Record(es, i)]
  /\ last_ts' = Last(es).ts
  /\ forward' = (forward /\ \A i \in DOMAIN es : Before(es, i) <= es[i].ts)

(* EvlogReader::next_raw: the times that deltas add up to *)
Replayed(records) ==
  FoldLeft(LAMBDA seen, r :
             Append(seen, [r EXCEPT !.ts = @ + IF seen = <<>> THEN 0 ELSE Last(seen).ts]),
           <<>>, records)

(* hangup.code: the Reason of a BYE, any final response but a 2xx *)
HangupCode(old, m) ==
  IF m.req THEN (IF m.method = "BYE" /\ m.reason # None THEN m.reason ELSE old)
  ELSE IF m.code >= 300 THEN m.code ELSE old

Teardown(c, call, code, t) ==
  [kind |-> "call", ts |-> IF call.end_ts # None THEN call.end_ts ELSE t, call |-> c,
   teardown |-> TRUE, state |-> call.state, code |-> code, invite_ts |-> call.invite_ts,
   answer_ts |-> call.answer_ts, bye_ts |-> call.bye_ts, end_ts |-> call.end_ts,
   pdd_ms |-> call.pdd_ms, setup_ms |-> call.setup_ms]

(* Mutant: a terminated call is torn down again by every message *)
TearsDownAgain(c, call) == call.state \in Terminal
TearsDown(c, call) == call.state \in Terminal /\ c \notin terminal_done

(* ingest_sip: the message, then the teardown when it ends the call *)
Sip(c, m, t) ==
  /\ Step("sip", t)
  /\ LET call == ApplySip(Entry(calls, c, NewCall), m, t)
         code == HangupCode(Entry(codes, c, None), m)
         msg == [kind |-> "sip", ts |-> t, call |-> c, req |-> m.req, method |-> m.method,
                 code |-> m.code]
     IN /\ calls' = With(calls, c, call) /\ codes' = With(codes, c, code)
        /\ PushEv(IF TearsDown(c, call) THEN <<msg, Teardown(c, call, code, t)>> ELSE <<msg>>)
        /\ terminal_done' = IF call.state \in Terminal THEN terminal_done \cup {c}
                            ELSE terminal_done
        /\ reached' = IF call.state \in Terminal THEN reached \cup {c} ELSE reached
  /\ UNCHANGED <<streams, restarted, cleared>>

(* An RTP packet: a gap adds a loss, a late packet takes one back.  Its    *)
(* time is that of the frame before: only the snaps are stamped.           *)
Packet(k, dl) ==
  /\ Step("media", last_us)
  /\ LET s == Entry(streams, k, NoLoss)
     IN /\ s.lost + dl >= 0
        /\ streams' = With(streams, k, [pkts |-> s.pkts + 1, lost |-> s.lost + dl])
  /\ UNCHANGED <<calls, codes, terminal_done, recorded, reached, restarted, cleared>>

Snap(k, t) == [kind |-> "snap", ts |-> t, call |-> CallOf[k], ssrc |-> k, flow |-> FlowOf[k],
               pkts |-> streams[k].pkts, lost |-> streams[k].lost]

(* maybe_periodic_flush: a snap of every stream, in the table's order *)
Flush(t) ==
  /\ Step("media", t) /\ streams # <<>>
  /\ \E order \in SetToSeqs(DOMAIN streams) :
       PushEv([i \in DOMAIN order |-> Snap(order[i], t)])
  /\ UNCHANGED <<calls, codes, terminal_done, streams, reached, restarted, cleared>>

(* A stream is removed with its call or over the capacity; its next packet *)
(* starts another one under the same key.                                  *)
RemoveStream(k) ==
  /\ ~over /\ k \in DOMAIN streams
  /\ streams' = [j \in DOMAIN streams \ {k} |-> streams[j]]
  /\ restarted' = restarted \cup {k}
  /\ UNCHANGED <<calls, codes, terminal_done, last_us, recorded, plane, events, over,
                 reached, cleared>>

(* ingest_rtcp and add_diagnostic *)
Sample(t, rtt) ==
  /\ Step("media", t) /\ PushEv(<<[kind |-> "rtt", ts |-> t, rtt_ms |-> rtt]>>)
  /\ UNCHANGED <<calls, codes, terminal_done, streams, reached, restarted, cleared>>
Diagnose(t) ==
  /\ Step("media", t) /\ PushEv(<<[kind |-> "diag", ts |-> t]>>)
  /\ UNCHANGED <<calls, codes, terminal_done, streams, reached, restarted, cleared>>

(* Correlator::clear: the report starts again, the log goes on *)
Clear ==
  /\ ~over /\ ~cleared /\ log # <<>>
  /\ calls' = <<>> /\ codes' = <<>> /\ terminal_done' = {} /\ streams' = <<>>
  /\ live' = NewStats /\ cleared' = TRUE /\ reached' = {}
  /\ restarted' = restarted \cup DOMAIN streams
  /\ UNCHANGED <<last_us, log, last_ts, forward, plane, events, over>>

(* The session ends and its report is printed *)
Quit ==
  /\ ~over /\ over' = TRUE
  /\ UNCHANGED <<calls, codes, terminal_done, streams, last_us, recorded, plane, events,
                 reached, restarted, cleared>>

(* The body of a record is damaged on disk *)
Damaged == {i \in DOMAIN log : ~log[i].readable}
Damage(i) ==
  /\ over /\ i \in DOMAIN log /\ log[i].readable /\ Cardinality(Damaged) < MaxDamage
  /\ log' = [log EXCEPT ![i].readable = FALSE]
  /\ UNCHANGED <<calls, codes, terminal_done, streams, last_us, live, last_ts, forward,
                 plane, events, over, reached, restarted, cleared>>

Next ==
  \/ \E c \in Dialogs, m \in Messages, t \in Stamps["sip"] : Sip(c, m, t)
  \/ \E k \in Keys, dl \in {-1, 0, 1} : Packet(k, dl)
  \/ \E t \in Stamps["media"] : Flush(t) \/ Sample(t, 1) \/ Diagnose(t)
  \/ \E k \in Keys : RemoveStream(k)
  \/ Clear
  \/ Quit
  \/ \E i \in DOMAIN log : Damage(i)

Spec == Init /\ [][Next]_vars

-----------------------------------------------------------------------------
SumOver(f) == MapThenSumSet(LAMBDA x : f[x], DOMAIN f)
Scanned == Scan(Replayed(log), FALSE)
Reports == {live, Scanned}
Untimed(r) == [r EXCEPT !.windows = <<>>, !.end = Missing]

(* The report printed at the end of a session is the one `sipmon stats`    *)
(* prints for its log: the same counts, rates, outcomes, streams, address  *)
(* losses, samples and start.  Windows and the end agree as well unless an *)
(* event was older than the one before it (a late frame, or a teardown,    *)
(* which carries the end of its call); from then on the scan's clock is    *)
(* ahead, so it ends no earlier and may place events in later windows.     *)
ReportsAgree ==
  (~cleared /\ Damaged = {}) =>
    LET scanned == Scanned
    IN /\ Untimed(live) = Untimed(scanned)
       /\ live.end # Missing => scanned.end >= live.end
       /\ forward => live = scanned

(* A record that cannot be decoded is counted and otherwise leaves no      *)
(* trace, but for the time it took: the report is that of the other        *)
(* records at the times they are read at.                                  *)
DamageIsLocal ==
  LET lost == {i \in Damaged : log[i].kind \in {"sip", "call", "snap", "rtt"}}
      kept == SetToSortSeq(DOMAIN log \ lost, <)
      read == Replayed(log)
      rest == Scan([i \in DOMAIN kept |-> read[kept[i]]], FALSE)
  IN Scanned = [rest EXCEPT !.skipped = Cardinality(lost)]

(* A rate of the summary is a share of the calls: none exceeds 100 % when  *)
(* the INVITE of every ended call was seen.  (The network-effective ratio  *)
(* may: an answered call that fails afterwards counts in both its terms.)  *)
Share(rate) == rate # Missing => rate[1] <= rate[2]
SharesOf(rel) == {rel.asr, rel.ccr, rel.cancel} \cup {rel.fails[k] : k \in FailKinds}

(* Every call that ended is in exactly one outcome column, once, however   *)
(* often its final messages were repeated or contradicted each other, and  *)
(* the rates of the summary are shares of the calls.                       *)
OutcomesCounted ==
  ~cleared => /\ live.completed + live.failed + live.canceled = Cardinality(reached)
              /\ SumOver(live.fail) = live.failed
              /\ live.answered <= Cardinality(reached)
              /\ reached \subseteq live.seizures =>
                   \A x \in SharesOf(Reliability(live)) : Share(x)

(* The five-minute tables add up to the totals, at whatever times the      *)
(* events were stamped, a window begins at a multiple of its width, and    *)
(* its rates are shares of the calls that ended in it.                     *)
WindowsAddUp(r) ==
  LET Col(F(_)) == MapThenSumSet(LAMBDA w : F(r.windows[w]), DOMAIN r.windows)
  IN /\ Col(LAMBDA w : w.loss.pkts) = r.all.pkts /\ Col(LAMBDA w : w.loss.lost) = r.all.lost
     /\ Col(LAMBDA w : w.sip_msgs) = r.events["sip"]
     /\ Col(LAMBDA w : w.answered) = r.answered
     /\ Col(LAMBDA w : w.completed) = r.completed
     /\ Col(LAMBDA w : Len(w.rtt)) = Len(r.rtt)
     /\ \A k \in FailKinds : Col(LAMBDA w : w.fail[k]) = r.fail[k]
     /\ \A w \in DOMAIN r.windows :
          /\ w % WindowWidth = 0
          /\ LET acc == r.windows[w]
                 row == WindowRow(acc)
                 ended == acc.completed + acc.canceled + SumOver(acc.fail)
             IN IF ended = 0 THEN row.ccr = Missing ELSE row.ccr[2] = ended

(* Packets in the report are those of the streams' last snaps, each once;  *)
(* losses are never fewer than the last snaps say; both ends of a flow     *)
(* were given every packet of it.                                          *)
SnapsCounted(r) ==
  LET OfLast(F(_)) == MapThenSumSet(LAMBDA k : F(r.last_snap[k]), DOMAIN r.last_snap)
  IN /\ restarted = {} => r.all.pkts = OfLast(LAMBDA s : s.pkts)
     /\ r.all.pkts >= OfLast(LAMBDA s : s.pkts) /\ r.all.lost >= OfLast(LAMBDA s : s.lost)
     /\ MapThenSumSet(LAMBDA i : r.ip_loss[i].pkts, DOMAIN r.ip_loss) = 2 * r.all.pkts

(* The tables of a report add up, live and from the log: windows, streams  *)
(* and addresses account for the same packets, losses and calls.           *)
TablesAddUp == \A r \in Reports : WindowsAddUp(r) /\ SnapsCounted(r)
=============================================================================

------------------------------ MODULE Evstats -------------------------------
(***************************************************************************)
(* The session report (StatsAcc, src/src/store/evstats.rs) as operators    *)
(* over an accumulator.  It is fed in two ways: with the events of the     *)
(* correlator while they happen (ingest) and with the raw records of an    *)
(* event log (ingest_record).                                              *)
(*                                                                         *)
(* An event is a record with a `kind`, a time `ts` and what its kind       *)
(* carries.  Bytes follow packets and are left out, as are the message     *)
(* size totals, the quality averages and their percentiles; a call or a    *)
(* stream is its own interned number.                                      *)
(***************************************************************************)
EXTENDS Integers, SequencesExt

CONSTANTS WindowWidth,   \* WINDOW_US
          Missing        \* Option::None of a flow, a code or a time

ASSUME EvstatsAssumption == WindowWidth \in Nat \ {0}

EventKinds == {"sip", "txn", "call", "snap", "rtt", "health", "error", "diag"}
FailKinds == {"notfound", "reject", "busy", "timeout", "fail"}

NoLoss == [pkts |-> 0, lost |-> 0]
NoFail == [k \in FailKinds |-> 0]

(* WindowAcc::default, StatsAcc::new *)
NewWindow ==
  [loss |-> NoLoss, sip_msgs |-> 0, invites |-> {}, teardowns |-> 0, answered |-> 0,
   completed |-> 0, canceled |-> 0, fail |-> NoFail, calls |-> {}, streams |-> {}, rtt |-> <<>>]

NewStats ==
  [events |-> [k \in EventKinds |-> 0], skipped |-> 0,
   call_ids |-> {}, seizures |-> {}, invite |-> 0, bye |-> 0, cancel |-> 0,
   completed |-> 0, failed |-> 0, canceled |-> 0, fail |-> NoFail, answered |-> 0,
   class |-> [i \in 1 .. 6 |-> 0], hangup |-> <<>>,
   pdd |-> <<>>, setup |-> <<>>, talk |-> <<>>, dur |-> <<>>, rtt |-> <<>>,
   last_snap |-> <<>>, windows |-> <<>>, ip_loss |-> <<>>, all |-> NoLoss,
   start |-> Missing, end |-> Missing]

With(f, x, v) == [y \in DOMAIN f \cup {x} |-> IF y = x THEN v ELSE f[y]]
Entry(f, x, new) == IF x \in DOMAIN f THEN f[x] ELSE new
Some(v) == IF v = Missing THEN <<>> ELSE <<v>>

(* classify_fail: SIP codes and Q.850 causes *)
ClassifyFail(code) ==
  CASE code \in {404, 410, 484, 485, 604, 1} -> "notfound"
    [] code \in {486, 600, 17} -> "busy"
    [] code \in {408, 480, 504, 18, 19} -> "timeout"
    [] code \in {401, 403, 407, 433, 488, 603, 606, 607, 21} -> "reject"
    [] OTHER -> "fail"

(* note_ts and the count of the event's kind *)
Noted(a, e) ==
  [a EXCEPT !.events[e.kind] = @ + 1, !.start = IF @ = Missing THEN e.ts ELSE @, !.end = e.ts]

WindowOf(ts) == (ts \div WindowWidth) * WindowWidth
WindowAt(a, ts) == Entry(a.windows, WindowOf(ts), NewWindow)

IngestSip(a, e) ==
  LET w == WindowAt(a, e.ts)
      invite == e.req /\ e.method = "INVITE"
      b == Noted(a, e)
  IN [b EXCEPT
        !.call_ids = @ \cup {e.call},
        !.invite = @ + IF invite THEN 1 ELSE 0,
        !.seizures = IF invite THEN @ \cup {e.call} ELSE @,
        !.bye = @ + IF e.req /\ e.method = "BYE" THEN 1 ELSE 0,
        !.cancel = @ + IF e.req /\ e.method = "CANCEL" THEN 1 ELSE 0,
        !.class = [i \in 1 .. 6 |-> @[i] + IF ~e.req /\ e.code \div 100 = i THEN 1 ELSE 0],
        !.windows = With(@, WindowOf(e.ts),
           [w EXCEPT !.calls = @ \cup {e.call}, !.sip_msgs = @ + 1,
                     !.invites = IF invite THEN @ \cup {e.call} ELSE @])]

(* The length of an interval that both ends are known of and in order *)
Between(from, to) == IF from # Missing /\ to # Missing /\ to >= from THEN <<to - from>> ELSE <<>>

IngestTeardown(a, e) ==
  LET w == WindowAt(a, e.ts)
      over == IF e.end_ts # Missing THEN e.end_ts ELSE e.bye_ts
      failed == e.state = "Failed"
      Bump(f) == IF failed THEN [f EXCEPT ![ClassifyFail(e.code)] = @ + 1] ELSE f
      One(p) == IF p THEN 1 ELSE 0
  IN [a EXCEPT
        !.completed = @ + One(e.state = "Completed"),
        !.failed = @ + One(failed),
        !.canceled = @ + One(e.state = "Canceled"),
        !.fail = Bump(@),
        !.answered = @ + One(e.answer_ts # Missing),
        !.pdd = @ \o Some(e.pdd_ms), !.setup = @ \o Some(e.setup_ms),
        !.talk = @ \o Between(e.answer_ts, over), !.dur = @ \o Between(e.invite_ts, over),
        !.hangup = IF e.code = Missing THEN @ ELSE With(@, e.code, Entry(@, e.code, 0) + 1),
        !.windows = With(@, WindowOf(e.ts),
           [w EXCEPT !.teardowns = @ + 1, !.calls = @ \cup {e.call},
                     !.completed = @ + One(e.state = "Completed"),
                     !.canceled = @ + One(e.state = "Canceled"),
                     !.fail = Bump(@), !.answered = @ + One(e.answer_ts # Missing)])]

IngestCall(a, e) ==
  LET b == [Noted(a, e) EXCEPT !.call_ids = @ \cup {e.call}]
  IN IF e.teardown THEN IngestTeardown(b, e) ELSE b

Less(a, b) == IF a > b THEN a - b ELSE 0
Added(c, d) == [pkts |-> c.pkts + d.pkts, lost |-> c.lost + d.lost]

(* Mutant: the first snap of a stream is only a baseline *)
GrownSince(e, prev) ==
  IF prev = NoLoss THEN NoLoss ELSE [pkts |-> Less(e.pkts, prev.pkts), lost |-> Less(e.lost, prev.lost)]
Grown(e, prev) == [pkts |-> Less(e.pkts, prev.pkts), lost |-> Less(e.lost, prev.lost)]

(* ingest_stream_snap: what grew since the stream's previous snap *)
IngestStreamSnap(a, e) ==
  LET key == <<e.call, e.ssrc, e.flow>>
      prev == Entry(a.last_snap, key, NoLoss)
      d == Grown(e, prev)
      w == WindowAt(a, e.ts)
      At(f, i) == With(f, i, Added(Entry(f, i, NoLoss), d))
      b == Noted(a, e)
  IN [b EXCEPT
        !.call_ids = @ \cup {e.call},
        !.last_snap = With(@, key, [pkts |-> e.pkts, lost |-> e.lost]),
        !.all = Added(@, d),
        !.ip_loss = IF d # NoLoss /\ e.flow # Missing THEN At(At(@, e.flow[1]), e.flow[2]) ELSE @,
        !.windows = With(@, WindowOf(e.ts),
           [w EXCEPT !.loss = Added(@, d), !.calls = @ \cup {e.call},
                     !.streams = @ \cup {<<e.call, e.ssrc>>}])]

IngestRtcpRtt(a, e) ==
  LET w == WindowAt(a, e.ts)
      b == Noted(a, e)
  IN [b EXCEPT !.rtt = Append(@, e.rtt_ms),
               !.windows = With(@, WindowOf(e.ts), [w EXCEPT !.rtt = Append(@, e.rtt_ms)])]

Ingest(a, e) ==
  CASE e.kind = "sip" -> IngestSip(a, e)
    [] e.kind = "call" -> IngestCall(a, e)
    [] e.kind = "snap" -> IngestStreamSnap(a, e)
    [] e.kind = "rtt" -> IngestRtcpRtt(a, e)
    [] OTHER -> Noted(a, e)

(* Mutant: a record that could not be decoded moves the clock on *)
IngestRecordNoted(a, r) ==
  IF r.readable \/ r.kind \notin {"sip", "call", "snap", "rtt"} THEN Ingest(a, r)
  ELSE [a EXCEPT !.skipped = @ + 1, !.end = r.ts]

(* Mutant: the short form of a snap has no flow *)
IngestRecordNoFlow(a, r) ==
  IF r.kind = "snap" THEN IngestStreamSnap(a, [r EXCEPT !.flow = Missing]) ELSE Ingest(a, r)

(* ingest_record: the body of the other kinds is not looked at *)
IngestRecord(a, r) ==
  IF r.readable \/ r.kind \notin {"sip", "call", "snap", "rtt"} THEN Ingest(a, r)
  ELSE [a EXCEPT !.skipped = @ + 1]

(* scan: a framing error ends the log and counts as one skipped record *)
Scan(records, torn) ==
  LET a == FoldLeft(IngestRecord, NewStats, records)
  IN IF torn THEN [a EXCEPT !.skipped = @ + 1] ELSE a

-----------------------------------------------------------------------------
(* finish: a ratio is a pair, absent when its base is empty *)
Rate(n, base) == IF base = 0 THEN Missing ELSE <<n, base>>
NetworkEffective(x) == x.answered + x.fail["notfound"] + x.fail["reject"] + x.fail["busy"]

Reliability(a) ==
  LET n == Cardinality(a.seizures)
  IN [seizures |-> n, asr |-> Rate(a.answered, n), ccr |-> Rate(a.completed, n),
      cancel |-> Rate(a.canceled, n), ner |-> Rate(NetworkEffective(a), n),
      fails |-> [k \in FailKinds |-> Rate(a.fail[k], n)]]

WindowRow(w) ==
  [calls |-> Cardinality(w.calls), streams |-> Cardinality(w.streams),
   invites |-> Cardinality(w.invites), asr |-> Rate(w.answered, w.teardowns),
   ner |-> Rate(NetworkEffective(w), w.teardowns), ccr |-> Rate(w.completed, w.teardowns),
   cancel |-> Rate(w.canceled, w.teardowns),
   fails |-> [k \in FailKinds |-> Rate(w.fail[k], w.teardowns)],
   loss |-> w.loss, sip_msgs |-> w.sip_msgs]
=============================================================================

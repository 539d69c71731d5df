------------------------------ MODULE Traffic -------------------------------
(***************************************************************************)
(* How traffic reaches the statistics: RTP streams accumulate packets and  *)
(* losses, a ticker folds what is new into both endpoints (flush_stream_   *)
(* ipattr, src/src/store/registry.rs), SIP messages are counted as they    *)
(* come and an answer is credited to the sender of the INVITE, the message *)
(* that ends a call enters it into the heatmap (ingest_sip,                *)
(* record_heatmap, src/src/correlate/mod.rs), and periodic maintenance     *)
(* prunes all three.                                                       *)
(*                                                                         *)
(* Frames carry capture timestamps that may be late by up to MaxSkew.      *)
(* Signalling and media share nothing but the clock and the timers, so a   *)
(* behaviour has the frames of one `plane`.  Variables from `seen` on only *)
(* record what happened.                                                   *)
(***************************************************************************)
EXTENDS IpStats, SipStats, Sums, FiniteSets

CONSTANTS Ips, Streams, Src, Dst,   \* a stream's endpoints
          Dialogs,
          Messages,                 \* requests but the initial INVITE
          Responses,                \* <<code, method of the CSeq>>
          AttrPeriod, FlushPeriod,  \* 1 s and 5 s
          IdleAfter,                \* IPSTATS_IDLE_US
          HeatWidth, HeatRetain,
          MaxTime, MaxSkew, MaxEvents   \* bounds

ASSUME TrafficAssumption ==
  /\ Src \in [Streams -> Ips] /\ Dst \in [Streams -> Ips] /\ "all" \notin Ips
  /\ \A r \in Responses : r[1] \in Nat
  /\ HeatWidth \in Nat \ {0}
  /\ {AttrPeriod, FlushPeriod, IdleAfter, HeatRetain, MaxTime, MaxSkew, MaxEvents} \subseteq Nat

VARIABLES
  ips, sips, all, heat,        \* the stores
  streams,                     \* counters and attribution marks
  dialogs,                     \* what the SIP statistics read of a call
  last_ipattr, last_flush,     \* timers, -1 before the first flush
  plane,                       \* "rtp" or "sip" frames
  clock, frame,                \* capture clock, time of the last frame
  events,
  seen, sent, seenInv, seenAns, seenErr, ended, cut, evicted, pruned

stores == <<ips, sips, all, heat>>
timers == <<last_ipattr, last_flush, plane>>
history == <<seen, sent, seenInv, seenAns, seenErr, ended, cut, evicted, pruned>>
vars == <<stores, streams, dialogs, timers, clock, frame, events, history>>

Times == 0 .. MaxTime
All == "all"
NoStream == [pkts |-> 0, lost |-> 0, apkts |-> 0, alost |-> 0, last |-> 0]
NoDialog ==
  [invite_ts |-> -1, answer_ts |-> -1, bye_ts |-> -1, key |-> All, done |-> FALSE]
Zero == [t \in Times |-> 0]

Init ==
  /\ ips = <<>> /\ sips = <<>> /\ all = NewSip /\ heat = <<>>
  /\ streams = <<>> /\ dialogs = <<>>
  /\ last_ipattr = -1 /\ last_flush = -1 /\ plane \in {"rtp", "sip"}
  /\ clock = 0 /\ frame = 0 /\ events = 0
  /\ seen = [i \in Ips |-> [d \in Dirs |-> [k \in Kinds |-> Zero]]]
  /\ seenInv = [i \in Ips \cup {All} |-> Zero] /\ seenAns = [i \in Ips \cup {All} |-> Zero]
  /\ seenErr = 0 /\ ended = Zero /\ cut = 0 /\ evicted = FALSE
  /\ sent = [i \in Ips |-> [d \in Dirs |-> 0]] /\ pruned = {}

With(f, x, v) == [y \in DOMAIN f \cup {x} |-> IF y = x THEN v ELSE f[y]]
Without(f, S) == [y \in DOMAIN f \ S |-> f[y]]
Entry(f, x, new) == IF x \in DOMAIN f THEN f[x] ELSE new

(* A frame of the plane: later than all before, or late by a little *)
Event(p, t) ==
  /\ plane = p /\ events < MaxEvents /\ t >= clock - MaxSkew
  /\ clock' = IF t > clock THEN t ELSE clock
  /\ events' = events + 1 /\ frame' = t /\ UNCHANGED timers

-----------------------------------------------------------------------------
(* RTP: the stream's own counters only.  A gap adds a loss, a late packet  *)
(* takes one back (see RtpSequence.tla).                                   *)
Packet(s, t, dl) ==
  /\ Event("rtp", t)
  /\ LET x == Entry(streams, s, NoStream)
     IN /\ x.lost + dl >= 0
        /\ streams' = With(streams, s, [x EXCEPT !.pkts = @ + 1, !.lost = @ + dl, !.last = t])
  /\ sent' = [sent EXCEPT ![Src[s]]["tx"] = @ + 1, ![Dst[s]]["rx"] = @ + 1]
  /\ UNCHANGED <<stores, dialogs, seen, seenInv, seenAns, seenErr, ended, cut, evicted, pruned>>

(* flush_stream_ipattr: the deltas, counted at the source as sent and at   *)
(* the destination as received, at the time of the stream's last packet.   *)
Less(a, b) == IF a > b THEN a - b ELSE 0

New(s, k) == IF k = "pkts" THEN Less(streams[s].pkts, streams[s].apkts)
             ELSE Less(streams[s].lost, streams[s].alost)

At(f, s, i, d) ==
  LET t == streams[s].last
  IN With(f, i, AddLost(AddPackets(Entry(f, i, NewIp), t, New(s, "pkts"), d), t, New(s, "lost"), d))

Attribute(f, s) ==
  IF \A k \in Kinds : New(s, k) = 0 THEN f ELSE At(At(f, s, Src[s], "tx"), s, Dst[s], "rx")

(* Mutant: the mark of the loss takes the count of expected packets *)
MarkedExpected(x) == [x EXCEPT !.apkts = x.pkts, !.alost = x.pkts + x.lost]

Marked(x) == [x EXCEPT !.apkts = x.pkts, !.alost = x.lost]

(* History: what an address was given, what is to come, and what          *)
(* Attribute was called with                                               *)
EndOf(s, d) == IF d = "tx" THEN Src[s] ELSE Dst[s]
Ends(i, d) == {s \in DOMAIN streams : i = EndOf(s, d)}
Given(i, d, k) == IF i \in DOMAIN ips THEN ips[i].total[d][k] ELSE 0
Owed == [s \in DOMAIN streams |-> streams[s].pkts - streams[s].apkts]
Reported == [s \in DOMAIN streams |-> streams[s].alost]
Tails(i, d) == SumOver(Owed, Ends(i, d))

Recorded(S) ==
  [i \in Ips |-> [d \in Dirs |-> [k \in Kinds |-> [t \in Times |->
     seen[i][d][k][t] +
       SumOver([s \in S |-> New(s, k)],
               {s \in S : streams[s].last = t /\ i = EndOf(s, d)})]]]]

AttributeAll(f, S) == FoldSet(LAMBDA s, g : Attribute(g, s), f, S)

(* Mutant: the streams go without handing over their tails *)
RemoveCallSilent(S) ==
  /\ S # {} /\ S \subseteq DOMAIN streams
  /\ streams' = Without(streams, S)
  /\ UNCHANGED <<stores, dialogs, timers, clock, frame, events, history>>

(* remove_calls: the streams' tails are folded in before they go *)
RemoveCall(S) ==
  /\ S # {} /\ S \subseteq DOMAIN streams
  /\ ips' = AttributeAll(ips, S) /\ seen' = Recorded(S)
  /\ streams' = Without(streams, S)
  /\ UNCHANGED <<sips, all, heat, dialogs, timers, clock, frame, events, sent, seenInv,
                 seenAns, seenErr, ended, cut, evicted, pruned>>

(* evict_if_needed, over the stream capacity: the stream just goes *)
EvictStream(s) ==
  /\ s \in DOMAIN streams
  /\ streams' = Without(streams, {s}) /\ evicted' = TRUE
  /\ UNCHANGED <<stores, dialogs, timers, clock, frame, events, seen, sent, seenInv,
                 seenAns, seenErr, ended, cut, pruned>>

-----------------------------------------------------------------------------
(* SIP: counted for the sender and for everyone; the first 2xx to an       *)
(* INVITE is also credited to whoever sent that INVITE.  The message that  *)
(* first ends its call, a CANCEL, a refusal or the answer to a BYE, enters *)
(* it into the heatmap, at the time of that message; but a 487 sets no end *)
(* of the call (apply_sip), which is then placed at its BYE, its answer or *)
(* its INVITE, or at 0.                                                    *)
Dialog(c) == Entry(dialogs, c, NoDialog)
FirstOf(stamp, t) == IF stamp = -1 THEN t ELSE stamp
BucketOf(t) == (t \div HeatWidth) * HeatWidth
Place(x, end) == FirstOf(FirstOf(FirstOf(FirstOf(end, x.bye_ts), x.answer_ts), x.invite_ts), 0)

(* The rest of a message: x is the dialog it leaves, `end` its end_ts *)
Converse(c, x, ends, end) ==
  /\ dialogs' = With(dialogs, c, [x EXCEPT !.done = @ \/ ends])
  /\ IF ends /\ ~x.done
       THEN LET b == BucketOf(Place(x, end))
            IN /\ heat' = With(heat, b, Entry(heat, b, 0) + 1)
               /\ ended' = [ended EXCEPT ![Place(x, end)] = @ + 1]
       ELSE UNCHANGED <<heat, ended>>

SipRequest(m, c, i, t) ==
  /\ Event("sip", t)
  /\ sips' = With(sips, i, ApplyRequest(Entry(sips, i, NewSip), t, m, FALSE))
  /\ all' = ApplyRequest(all, t, m, FALSE)
  /\ LET x == Dialog(c)
     IN Converse(c, [x EXCEPT !.bye_ts = IF m = "BYE" THEN FirstOf(@, t) ELSE @], m = "CANCEL", t)
  /\ UNCHANGED <<ips, streams, seen, sent, seenInv, seenAns, seenErr, cut, evicted, pruned>>

Invite(c, i, t) ==
  /\ Event("sip", t)
  /\ sips' = With(sips, i, ApplyRequest(Entry(sips, i, NewSip), t, "INVITE", TRUE))
  /\ all' = ApplyRequest(all, t, "INVITE", TRUE)
  /\ LET x == Dialog(c)
     IN dialogs' = With(dialogs, c, [x EXCEPT !.invite_ts = FirstOf(@, t),
                                              !.key = IF x.invite_ts = -1 THEN i ELSE @])
  /\ seenInv' = [seenInv EXCEPT ![i][t] = @ + 1, ![All][t] = @ + 1]
  /\ UNCHANGED <<ips, heat, streams, seen, sent, seenAns, seenErr, ended, cut, evicted, pruned>>

(* Mutant: every 2xx is credited *)
CreditsEvery(c, code, cseq) ==
  code \in 200 .. 299 /\ cseq = "INVITE" /\ c \in DOMAIN dialogs /\ dialogs[c].invite_ts # -1

Credits(c, code, cseq) ==
  /\ code \in 200 .. 299 /\ cseq = "INVITE"
  /\ c \in DOMAIN dialogs /\ dialogs[c].invite_ts # -1 /\ dialogs[c].answer_ts = -1

SipResponse(c, i, t, code, cseq) ==
  /\ Event("sip", t)
  /\ LET d == With(sips, i, ApplyResponse(Entry(sips, i, NewSip), t, code))
         a == ApplyResponse(all, t, code)
         k == dialogs[c].key
     IN IF Credits(c, code, cseq)
          THEN /\ sips' = With(d, k, ApplyAnswer(Entry(d, k, NewSip), t))
               /\ all' = ApplyAnswer(a, t)
               /\ seenAns' = [seenAns EXCEPT ![k][t] = @ + 1, ![All][t] = @ + 1]
          ELSE sips' = d /\ all' = a /\ UNCHANGED seenAns
  /\ LET x == Dialog(c)
         accepts == code \in 200 .. 299 /\ cseq # "BYE"
         ends == code >= 300 \/ (code \in 200 .. 299 /\ cseq = "BYE")
     IN Converse(c, [x EXCEPT !.answer_ts = IF accepts THEN FirstOf(@, t) ELSE @], ends,
                 IF code = 487 /\ cseq # "BYE" THEN -1 ELSE t)
  /\ seenErr' = seenErr + IF code \in 400 .. 699 /\ code # 487 THEN 1 ELSE 0
  /\ UNCHANGED <<ips, streams, seen, sent, seenInv, cut, evicted, pruned>>

(* The call is removed: at once when it ended, if terminated calls are not *)
(* kept, or by age or by capacity                                          *)
Forget(c) ==
  /\ c \in DOMAIN dialogs
  /\ dialogs' = Without(dialogs, {c})
  /\ UNCHANGED <<stores, streams, timers, clock, frame, events, history>>

-----------------------------------------------------------------------------
(* maybe_periodic_flush with a frame's time, or with 0 after an empty batch*)
Due(last, t, period) == last # -1 /\ Less(t, last) >= period

Since(t) == Less(t, IdleAfter)
Idle(f, t) == {i \in DOMAIN f : (IF f[i].last_seen = -1 THEN 0 ELSE f[i].last_seen) < Since(t)}

(* An idle address stays while it holds calls (active_calls, whose count   *)
(* is in Correlator.tla): any of the idle ones may go.                     *)
Flush(t) ==
  /\ events > 0 /\ t \in {0, frame}
  /\ LET attr == Due(last_ipattr, t, AttrPeriod)
         due == Due(last_flush, t, FlushPeriod)
         f == IF attr THEN AttributeAll(ips, DOMAIN streams) ELSE ips
         quiet == IF due THEN {i \in DOMAIN sips : sips[i].last < Since(t)} ELSE {}
         kept == IF attr THEN Recorded(DOMAIN streams) ELSE seen
         oldest == IF due THEN Less(frame, HeatRetain) ELSE 0
     IN \E gone \in SUBSET (IF due THEN Idle(f, t) ELSE {}) :
        /\ last_ipattr' = IF attr \/ last_ipattr = -1 THEN t ELSE last_ipattr
        /\ last_flush' = IF due \/ last_flush = -1 THEN t ELSE last_flush
        /\ streams' = IF attr THEN [s \in DOMAIN streams |-> Marked(streams[s])] ELSE streams
        /\ ips' = Without(f, gone)
        /\ seen' = [i \in Ips |-> IF i \in gone THEN [d \in Dirs |-> [k \in Kinds |-> Zero]]
                                  ELSE kept[i]]
        /\ pruned' = pruned \cup gone
        /\ sent' = [i \in Ips |-> IF i \notin gone THEN sent[i]
                      ELSE [d \in Dirs |-> IF attr THEN 0 ELSE Tails(i, d)]]
        /\ sips' = Without(sips, quiet)
        /\ seenInv' = [i \in DOMAIN seenInv |-> IF i \in quiet THEN Zero ELSE seenInv[i]]
        /\ seenAns' = [i \in DOMAIN seenAns |-> IF i \in quiet THEN Zero ELSE seenAns[i]]
        /\ heat' = Without(heat, {b \in DOMAIN heat : b < oldest})
        /\ cut' = IF oldest > cut THEN oldest ELSE cut
  /\ UNCHANGED <<all, dialogs, plane, clock, frame, events, seenErr, ended, evicted>>

Next ==
  \/ \E s \in Streams, t \in Times, dl \in {-1, 0, 1} : Packet(s, t, dl)
  \/ \E S \in SUBSET Streams : RemoveCall(S)
  \/ \E s \in Streams : EvictStream(s)
  \/ \E m \in Messages, c \in Dialogs, i \in Ips, t \in Times : SipRequest(m, c, i, t)
  \/ \E c \in Dialogs, i \in Ips, t \in Times : Invite(c, i, t)
  \/ \E c \in Dialogs, i \in Ips, t \in Times, r \in Responses :
       SipResponse(c, i, t, r[1], r[2])
  \/ \E c \in Dialogs : Forget(c)
  \/ \E t \in {0, frame} : Flush(t)

Spec == Init /\ [][Next]_vars

-----------------------------------------------------------------------------
Keyed(key, width) == {t \in Times : t \div width = key}

Exact(ring, i, width, retain) ==
  /\ Len(ring) <= retain
  /\ \A j \in 2 .. Len(ring) : ring[j].key = ring[j - 1].key + 1
  /\ \A j \in 2 .. Len(ring), d \in Dirs, k \in Kinds :
       ring[j].b[d][k] = SumOver(seen[i][d][k], Keyed(ring[j].key, width))

(* A bucket shows what was attributed for its second (or minute), however  *)
(* late or far ahead the timestamps were; only the oldest one may also     *)
(* hold older traffic ("fold into the oldest").  The rings are contiguous  *)
(* and never longer than their retention.                                  *)
BucketsExact ==
  \A i \in DOMAIN ips :
    /\ Exact(ips[i].sec1, i, FineWidth, FineRetain)
    /\ Exact(ips[i].sec60, i, CoarseWidth, CoarseRetain)
    /\ \A d \in Dirs, k \in Kinds : ips[i].total[d][k] = SumOver(seen[i][d][k], Times)

(* A window of the table shows what was attributed in its seconds, counted *)
(* back from the newest bucket, and more only when it reaches the oldest   *)
(* one (window, sum_ring).                                                 *)
WindowsShown ==
  \A i \in DOMAIN ips, secs \in 1 .. CoarseRetain * CoarseWidth, d \in Dirs, k \in Kinds :
    LET fine == secs <= FineRetain * FineWidth
        width == IF fine THEN FineWidth ELSE CoarseWidth
        ring == IF fine THEN ips[i].sec1 ELSE ips[i].sec60
        n == (secs + width - 1) \div width
        due == SumOver(seen[i][d][k], {t \in Times : t \div width > ring[Len(ring)].key - n})
    IN ring # <<>> => /\ Window(ips[i], secs, d, k) >= due
                      /\ Len(ring) > n => Window(ips[i], secs, d, k) = due

(* The columns under the table leave nothing out: together they hold all   *)
(* traffic of their ring, at any span and number of columns                *)
(* (heatmap_columns).                                                      *)
ColumnsComplete ==
  \A i \in DOMAIN ips, secs \in {1, MaxTime, 10 * FineRetain + 1}, cols \in 1 .. 2, k \in Kinds :
    LET shown == HeatmapColumns(ips[i], secs, cols)
        ring == HeatmapRing(ips[i], secs)
    IN SumOver([c \in DOMAIN shown |-> shown[c][k]], DOMAIN shown)
         = SumRing(ring, Len(ring), "tx", k) + SumRing(ring, Len(ring), "rx", k)

(* What an address was given, and what its streams have yet to hand over,  *)
(* is all there was, each packet once, unless a stream was evicted.        *)
PacketsAttributed ==
  evicted \/ \A i \in Ips, d \in Dirs : Given(i, d, "pkts") + Tails(i, d) = sent[i][d]

(* A loss that a stream reported at a tick stays counted at both ends,     *)
(* also when a late packet makes the stream report less afterwards.        *)
LossCovered ==
  \A i \in Ips \ pruned, d \in Dirs :
    Given(i, d, "lost") >= SumOver(Reported, Ends(i, d))

(* A series shows exactly the INVITEs and the credited answers of each     *)
(* bucket it still has; a bucket that is gone never comes back.            *)
SeriesExactFor(s, i) ==
  \A w \in Widths : \A j \in DOMAIN s.series[w] :
    LET e == s.series[w][j]
        ts == {t \in Times : (t \div w) * w = e.key}
    IN e.inv = SumOver(seenInv[i], ts) /\ e.ans = SumOver(seenAns[i], ts)
SeriesExact ==
  /\ SeriesExactFor(all, All)
  /\ \A i \in DOMAIN sips : SeriesExactFor(sips[i], i)

(* No dialog is credited twice: there are never more answers than INVITEs, *)
(* whatever was retransmitted, evicted and seen again.                     *)
AnswersCredited == SumOver(seenAns[All], Times) <= SumOver(seenInv[All], Times)

(* The error column of the table counts the responses that refuse.         *)
ErrorsCounted == RespErrors(all) = seenErr

(* A heatmap bucket shows every call that ended in it, once: exactly, up   *)
(* to the furthest cutoff of the pruning so far.  A bucket that was pruned *)
(* may begin again with a late frame or an old call; it then shows what    *)
(* came since.  A call ends at the time of the message that ended it,      *)
(* except that a 487 without CANCEL leaves it at its BYE, its answer or    *)
(* its INVITE (record_heatmap), whose bucket may long be gone.             *)
HeatExact ==
  \A b \in {BucketOf(t) : t \in Times} :
    LET n == SumOver(ended, {t \in Times : BucketOf(t) = b})
    IN Entry(heat, b, 0) <= n /\ (b >= cut => Entry(heat, b, 0) = n)

(* Whatever the tables, charts and the heatmap still show of a second, a   *)
(* minute or a bucket is what happened in it, however late, early or far   *)
(* apart the timestamps were (for the heatmap, up to its pruning, and with *)
(* the end of a 487 as above).                                             *)
RingsExact ==
  BucketsExact /\ WindowsShown /\ ColumnsComplete /\ SeriesExact /\ HeatExact

(* The rates of the SIP page are sound: an answer is credited to a dialog  *)
(* once and a refusal is counted once.                                     *)
SipCountsSound == AnswersCredited /\ ErrorsCounted
=============================================================================

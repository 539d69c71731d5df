---------------------------- MODULE CallMachine ----------------------------
(***************************************************************************)
(* One call under the state machine of SipCall: the capture may show any   *)
(* message of the Call-ID at any time and any number of times              *)
(* (retransmissions, several hops of the same dialog, a capture that       *)
(* starts in the middle of a call).                                        *)
(***************************************************************************)
EXTENDS SipCall, Sequences

CONSTANTS Messages,  \* the messages the capture may show
          Times      \* the timestamps they may carry, in any order

ASSUME CallAssumption == Times \subseteq 0 .. (Wide - 1)

VARIABLES call,   \* the Call
          order   \* history: its stamps, in the order they were set
vars == <<call, order>>

Init == call = NewCall /\ order = <<>>

Stamped == {f \in {"invite_ts", "trying_ts", "ringing_ts", "answer_ts"} :
              call[f] = None /\ call'[f] # None}

Receive(m, ts) ==
  /\ call' = ApplySip(call, m, ts)
  /\ order' = IF Stamped = {} THEN order ELSE Append(order, CHOOSE f \in Stamped : TRUE)

Next == \E m \in Messages, ts \in Times : Receive(m, ts)

Spec == Init /\ [][Next]_vars

-----------------------------------------------------------------------------
Stamps == Times \cup {None}
Delays == (0 .. (Narrow - 1)) \cup {None}
Hosts == {m.src : m \in Messages} \cup {m.dst : m \in Messages}

CallRecord ==
  [state      : States,           outcome    : Outcomes,
   invite_ts  : Stamps,           invite_key : Hosts \cup {None},
   trying_ts  : Stamps,           ringing_ts : Stamps,
   answer_ts  : Stamps,           bye_ts     : Stamps,
   end_ts     : Stamps,           last_ts    : Times \cup {0},
   pdd_ms     : Delays,           setup_ms   : Delays,
   ring_ms    : Delays,           hangup_by  : Initiators,
   active_ips : {<<>>} \cup (Hosts \X Hosts)]

TypeOK == call \in CallRecord

(* A state is backed by the timeline: a call is only Active or Completed   *)
(* when an answer was stamped, only Ringing when a ringback was, and a     *)
(* Completed or Failed call has an end, on every path through retries,     *)
(* re-INVITEs and repeated final responses.                                *)
StateHasEvidence ==
  /\ call.state \in {"Active", "Completed"} => call.answer_ts # None
  /\ call.state = "Ringing" => call.ringing_ts # None
  /\ call.state \in {"Completed", "Failed"} => call.end_ts # None
  /\ call.outcome = "Answered" => call.answer_ts # None

(* The displayed timings are the ones the timeline implies, whatever       *)
(* arrived later: PDD runs from the INVITE to the first provisional, setup *)
(* from the INVITE to the answer, ring time from the first ringback to the *)
(* answer; each is there exactly if its two ends were seen in this order,  *)
(* and a PDD whose INVITE was captured later is zero.  A delay is the      *)
(* difference in milliseconds; one too long for its 32 bits is cut to      *)
(* them, and only when the later end carries the earlier stamp is it taken *)
(* across the wrap of the 64-bit clock (apply_sip).                        *)
Between(from, to) ==
  IF to >= from THEN ((to - from) \div PerMs) % Narrow
  ELSE ((Wide - (from - to)) \div PerMs) % Narrow

Seen(f) == \E i \in DOMAIN order : order[i] = f
InOrder(f, g) == \E i, j \in DOMAIN order : i < j /\ order[i] = f /\ order[j] = g

FirstProvisional ==
  IF Seen("trying_ts") /\ ~InOrder("ringing_ts", "trying_ts") THEN "trying_ts" ELSE "ringing_ts"

PddMatches ==
  LET p == FirstProvisional
  IN call.pdd_ms = CASE ~Seen(p)                -> None
                     [] InOrder("invite_ts", p) -> Between(call.invite_ts, call[p])
                     [] OTHER                   -> 0
DelayMatches(ms, from, to) ==
  ms = IF InOrder(from, to) THEN Between(call[from], call[to]) ELSE None

TimingsMatchTimeline ==
  /\ PddMatches
  /\ DelayMatches(call.setup_ms, "invite_ts", "answer_ts")
  /\ DelayMatches(call.ring_ms, "ringing_ts", "answer_ts")

(* What a message may never rewrite: the milestones of the timeline, the   *)
(* timings derived from them and who hung up ("PDD must not move to the    *)
(* 180 time").                                                             *)
Milestones == {"invite_ts", "invite_key", "trying_ts", "ringing_ts", "answer_ts",
               "bye_ts", "pdd_ms", "setup_ms", "ring_ms", "hangup_by"}
Untouched == \A f \in Milestones : call[f] # None => call'[f] = call[f]
MilestonesWrittenOnce == [][Untouched]_vars
=============================================================================

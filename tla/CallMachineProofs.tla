------------------------- MODULE CallMachineProofs -------------------------
(***************************************************************************)
(* Proofs about the call state machine of CallMachine, for every set of    *)
(* messages, in every order, with any timestamps: a state always has the   *)
(* timeline that justifies it, no milestone is ever rewritten, and every   *)
(* delay is the one between its milestones.                                *)
(***************************************************************************)
EXTENDS CallMachine, TLAPS

(* A delay stays within its width. *)
LEMMA ElapsedType ==
  ASSUME NEW a \in Int, NEW b \in Int
  PROVE  Elapsed(a, b) \in 0 .. (Narrow - 1)
<1> DEFINE us == (a - b) % Wide
           ms == us \div PerMs
<1>1. us \in 0 .. (Wide - 1)
  BY SipAssumption
<1> HIDE DEF us
<1>2. ms \in Int
  BY <1>1, SipAssumption
<1> HIDE DEF ms
<1>3. ms % Narrow \in 0 .. (Narrow - 1)
  BY <1>2, SipAssumption
<1> QED
  BY <1>3 DEF Elapsed, us, ms

(* An option that is filled once holds a stamp afterwards. *)
LEMMA Filled ==
  ASSUME NEW o \in Stamps, NEW ts \in Times
  PROVE  /\ GetOrInsert(o, ts) \in Times
         /\ GetOrInsert(o, ts) # None
         /\ o # None => GetOrInsert(o, ts) = o
  BY SipAssumption, CallAssumption DEF GetOrInsert, Stamps

(* A timestamp is a number *)
LEMMA TimesAre == Times \subseteq Int /\ None \notin Times
<1>1. \A x \in 0 .. (Wide - 1) : x \in Int
  BY SipAssumption
<1> QED
  BY <1>1, CallAssumption, SipAssumption

-----------------------------------------------------------------------------
(* What every message preserves: the state keeps its evidence, and a       *)
(* timing only exists with the milestone that wrote it.                    *)
Sound(c) ==
  /\ c.state \in {"Active", "Completed"} => c.answer_ts # None
  /\ c.state = "Ringing" => c.ringing_ts # None
  /\ c.state \in {"Completed", "Failed"} => c.end_ts # None
  /\ c.outcome = "Answered" => c.answer_ts # None
  /\ c.pdd_ms # None => c.trying_ts # None \/ c.ringing_ts # None
  /\ c.setup_ms # None => c.answer_ts # None
  /\ c.ring_ms # None => c.answer_ts # None

(* The milestones of c are those of d. *)
Kept(c, d) ==
  /\ c.invite_ts # None => d.invite_ts = c.invite_ts
  /\ c.invite_key # None => d.invite_key = c.invite_key
  /\ c.trying_ts # None => d.trying_ts = c.trying_ts
  /\ c.ringing_ts # None => d.ringing_ts = c.ringing_ts
  /\ c.answer_ts # None => d.answer_ts = c.answer_ts
  /\ c.bye_ts # None => d.bye_ts = c.bye_ts
  /\ c.pdd_ms # None => d.pdd_ms = c.pdd_ms
  /\ c.setup_ms # None => d.setup_ms = c.setup_ms
  /\ c.ring_ms # None => d.ring_ms = c.ring_ms
  /\ c.hangup_by # None => d.hangup_by = c.hangup_by

Good(c, d) == d \in CallRecord /\ (Sound(c) => Sound(d) /\ Kept(c, d))

(* An initial INVITE keeps the call's evidence and milestones. *)
LEMMA InviteGood ==
  ASSUME NEW c \in CallRecord, NEW m \in Messages, NEW ts \in Times
  PROVE  Good(c, OnInitialInvite(c, m, ts))
<1> DEFINE d == OnInitialInvite(c, m, ts)
           at == GetOrInsert(c.invite_ts, ts)
           key == GetOrInsert(c.invite_key, m.src)
           ips == IF c.active_ips = <<>> THEN <<m.src, m.dst>> ELSE c.active_ips
<1>1. at \in Stamps
  BY Filled DEF CallRecord, Stamps
<1>2. key \in Hosts \cup {None}
  BY DEF CallRecord, GetOrInsert, Hosts
<1>3. ips \in {<<>>} \cup (Hosts \X Hosts)
  BY DEF CallRecord, Hosts
<1>4. d = [c EXCEPT !.invite_ts = at, !.invite_key = key,
                    !.active_ips = ips, !.state = "Dialing"]
  BY DEF OnInitialInvite
<1>5. Sound(c) => Sound(d) /\ Kept(c, d)
  BY DEF OnInitialInvite, CallRecord, GetOrInsert, Sound, Kept
<1> HIDE DEF d, at, key, ips
<1>6. d \in CallRecord
  BY <1>1, <1>2, <1>3, <1>4 DEF CallRecord, States
<1> QED
  BY <1>5, <1>6 DEF Good, d

(* So does a BYE. *)
LEMMA ByeGood ==
  ASSUME NEW c \in CallRecord, NEW m \in Messages, NEW ts \in Times
  PROVE  Good(c, OnBye(c, m, ts))
<1> DEFINE d == OnBye(c, m, ts)
           at == GetOrInsert(c.bye_ts, ts)
           by == GetOrInsert(c.hangup_by, Sender(c, m))
<1>1. at \in Stamps
  BY Filled DEF CallRecord, Stamps
<1>2. by \in Initiators /\ (c.hangup_by # None => by = c.hangup_by)
  BY DEF CallRecord, Initiators, GetOrInsert, Sender
<1>3. d = [c EXCEPT !.bye_ts = at, !.hangup_by = by]
  BY DEF OnBye
<1>4. c.bye_ts # None => at = c.bye_ts
  BY DEF GetOrInsert
<1> HIDE DEF d, at, by
<1>5. d \in CallRecord
  BY <1>1, <1>2, <1>3 DEF CallRecord
<1>6. Sound(c) => Sound(d) /\ Kept(c, d)
  BY <1>2, <1>3, <1>4 DEF CallRecord, Sound, Kept
<1> QED
  BY <1>5, <1>6 DEF Good, d

(* A CANCEL leaves a completed or failed call alone and moves any other to *)
(* Canceled, which needs no evidence.                                      *)
LEMMA CancelGood ==
  ASSUME NEW c \in CallRecord, NEW ts \in Times
  PROVE  Good(c, OnCancel(c, ts))
<1> DEFINE d == OnCancel(c, ts)
           by == GetOrInsert(c.hangup_by, "Caller")
<1>1. by \in Initiators /\ (c.hangup_by # None => by = c.hangup_by)
  BY DEF CallRecord, Initiators, GetOrInsert
<1>2. \/ d = c
      \/ d = [c EXCEPT !.state = "Canceled", !.end_ts = ts, !.hangup_by = by]
  BY DEF OnCancel
<1> HIDE DEF d, by
<1>3. d \in CallRecord
  <2>1. CASE d = c
    BY <2>1
  <2>2. CASE d = [c EXCEPT !.state = "Canceled", !.end_ts = ts, !.hangup_by = by]
    <3>1. ts \in Stamps /\ "Canceled" \in States
      BY DEF Stamps, States, Terminal
    <3> QED
      BY <1>1, <2>2, <3>1 DEF CallRecord
  <2> QED
    BY <1>2, <2>1, <2>2
<1>4. CASE d = c
  BY <1>3, <1>4 DEF Good, Kept, d
<1>5. CASE d = [c EXCEPT !.state = "Canceled", !.end_ts = ts, !.hangup_by = by]
  <2>1. /\ d.state = "Canceled" /\ d.hangup_by = by /\ d.outcome = c.outcome
        /\ \A f \in {"invite_ts", "invite_key", "trying_ts", "ringing_ts", "answer_ts",
                     "bye_ts", "pdd_ms", "setup_ms", "ring_ms"} : d[f] = c[f]
    BY <1>5 DEF CallRecord
  <2>2. Sound(c) => Sound(d)
    BY <2>1 DEF Sound
  <2>3. Kept(c, d)
    BY <1>1, <2>1 DEF Kept
  <2> QED
    BY <1>3, <2>2, <2>3 DEF Good, d
<1> QED
  BY <1>2, <1>4, <1>5

(* A provisional response stamps the milestone its state needs. *)
LEMMA ProvisionalGood ==
  ASSUME NEW c \in CallRecord, NEW m \in Messages, NEW ts \in Times
  PROVE  Good(c, OnProvisional(c, m, ts))
<1> DEFINE d == OnProvisional(c, m, ts)
           first == c.trying_ts = None /\ c.ringing_ts = None
           pdd == IF first THEN Elapsed(ts, GetOrInsert(c.invite_ts, ts)) ELSE c.pdd_ms
           ring == GetOrInsert(c.ringing_ts, ts)
           try == GetOrInsert(c.trying_ts, ts)
<1>1. pdd \in Delays
  <2>1. GetOrInsert(c.invite_ts, ts) \in Times
    BY Filled DEF CallRecord
  <2>2. Elapsed(ts, GetOrInsert(c.invite_ts, ts)) \in 0 .. (Narrow - 1)
    BY <2>1, ElapsedType, TimesAre
  <2> QED
    BY <2>2 DEF CallRecord, Delays
<1>2. /\ ring \in Stamps /\ ring # None /\ (c.ringing_ts # None => ring = c.ringing_ts)
      /\ try \in Stamps /\ try # None /\ (c.trying_ts # None => try = c.trying_ts)
  BY Filled DEF CallRecord, Stamps
<1>3. c.trying_ts # None \/ c.ringing_ts # None => pdd = c.pdd_ms
  OBVIOUS
<1>4. \/ d = [[c EXCEPT !.pdd_ms = pdd] EXCEPT !.ringing_ts = ring, !.state = "Ringing"]
      \/ d = [[c EXCEPT !.pdd_ms = pdd] EXCEPT !.trying_ts = try]
  BY DEF OnProvisional, CallRecord
<1> HIDE DEF d, first, pdd, ring, try
<1>5. d \in CallRecord
  <2>1. [c EXCEPT !.pdd_ms = pdd] \in CallRecord
    BY <1>1 DEF CallRecord
  <2>2. CASE d = [[c EXCEPT !.pdd_ms = pdd] EXCEPT !.ringing_ts = ring, !.state = "Ringing"]
    BY <1>2, <2>1, <2>2 DEF CallRecord, States
  <2>3. CASE d = [[c EXCEPT !.pdd_ms = pdd] EXCEPT !.trying_ts = try]
    BY <1>2, <2>1, <2>3 DEF CallRecord
  <2> QED
    BY <1>4, <2>2, <2>3
<1>6. Sound(c) => Sound(d) /\ Kept(c, d)
  BY <1>2, <1>3, <1>4, ZenonT(60) DEF CallRecord, Sound, Kept
<1> QED
  BY <1>5, <1>6 DEF Good, d

(* Closing a call stamps its end. *)
LEMMA ClosedGood ==
  ASSUME NEW c \in CallRecord, NEW ts \in Times
  PROVE  Good(c, Closed(c, ts))
<1> DEFINE d == Closed(c, ts)
           at == GetOrInsert(c.end_ts, ts)
           st == IF c.answer_ts # None THEN "Completed" ELSE "Failed"
<1>1. at \in Stamps /\ at # None
  BY Filled DEF CallRecord, Stamps
<1>2. d = [c EXCEPT !.end_ts = at, !.state = st]
  BY DEF Closed
<1>3. st \in States /\ st # "Ringing" /\ (st \in {"Active", "Completed"} => c.answer_ts # None)
  BY DEF States, Terminal
<1> HIDE DEF d, at, st
<1>4. d \in CallRecord
  BY <1>1, <1>2, <1>3 DEF CallRecord
<1>5. Sound(c) => Sound(d) /\ Kept(c, d)
  BY <1>1, <1>2, <1>3 DEF CallRecord, Sound, Kept
<1> QED
  BY <1>4, <1>5 DEF Good, d

(* A 2xx answers once, and closes when it answers a BYE. *)
LEMMA SuccessGood ==
  ASSUME NEW c \in CallRecord, NEW m \in Messages, NEW ts \in Times
  PROVE  Good(c, OnSuccess(c, m, ts))
<1> DEFINE d == OnSuccess(c, m, ts)
           setup == IF c.invite_ts # None THEN Elapsed(ts, c.invite_ts) ELSE c.setup_ms
           ring == IF c.ringing_ts # None THEN Elapsed(ts, c.ringing_ts) ELSE c.ring_ms
<1>1. CASE m.cseq = "BYE"
  <2>1. d = Closed(c, ts)
    BY <1>1 DEF OnSuccess
  <2> QED
    BY <2>1, ClosedGood
<1>2. CASE m.cseq # "BYE" /\ c.answer_ts # None
  <2>1. d = c
    BY <1>2 DEF OnSuccess
  <2> QED
    BY <2>1 DEF Good, Sound, Kept
<1>3. CASE m.cseq # "BYE" /\ c.answer_ts = None
  <2>1. setup \in Delays /\ ring \in Delays
    <3>1. c.invite_ts # None => Elapsed(ts, c.invite_ts) \in 0 .. (Narrow - 1)
      BY ElapsedType, TimesAre DEF CallRecord, Stamps
    <3>2. c.ringing_ts # None => Elapsed(ts, c.ringing_ts) \in 0 .. (Narrow - 1)
      BY ElapsedType, TimesAre DEF CallRecord, Stamps
    <3> QED
      BY <3>1, <3>2 DEF CallRecord, Delays
  <2>2. d = [c EXCEPT !.answer_ts = ts, !.setup_ms = setup, !.ring_ms = ring,
                      !.state = "Active", !.outcome = "Answered"]
    BY <1>3 DEF OnSuccess, Answered
  <2> HIDE DEF d, setup, ring
  <2>3. d \in CallRecord
    BY <2>1, <2>2 DEF CallRecord, States, Outcomes, Stamps
  <2>4. Sound(c) => Sound(d) /\ Kept(c, d)
    BY <1>3, <2>2, TimesAre DEF CallRecord, Sound, Kept
  <2> QED
    BY <2>3, <2>4 DEF Good, d
<1> QED
  BY <1>1, <1>2, <1>3

(* A final failure ends the call with the state its timeline supports. *)
LEMMA FailureGood ==
  ASSUME NEW c \in CallRecord, NEW m \in Messages, NEW ts \in Times
  PROVE  Good(c, OnFailure(c, m, ts))
<1> DEFINE d == OnFailure(c, m, ts)
           caller == GetOrInsert(c.hangup_by, "Caller")
           reject == GetOrInsert(c.hangup_by, "Reject")
           at == GetOrInsert(c.end_ts, ts)
           out == IF m.code \in 400 .. 499 THEN "Rejected" ELSE "Failed"
<1>1. /\ caller \in Initiators /\ (c.hangup_by # None => caller = c.hangup_by)
      /\ reject \in Initiators /\ (c.hangup_by # None => reject = c.hangup_by)
  BY DEF CallRecord, Initiators, GetOrInsert
<1>2. at \in Stamps /\ at # None
  BY Filled DEF CallRecord, Stamps
<1>3. out \in Outcomes /\ out # "Answered"
  BY DEF Outcomes
<1>4. \/ d = Closed(c, ts)
      \/ d = [c EXCEPT !.state = "Canceled", !.outcome = "Canceled", !.hangup_by = caller]
      \/ d = [c EXCEPT !.state = "Failed", !.outcome = out, !.hangup_by = reject,
                       !.end_ts = at]
  BY DEF OnFailure, RequestTerminated, Refused
<1>5. CASE d = Closed(c, ts)
  BY <1>5, ClosedGood
<1> HIDE DEF d, caller, reject, at, out
<1>6. CASE d = [c EXCEPT !.state = "Canceled", !.outcome = "Canceled", !.hangup_by = caller]
  <2>1. d \in CallRecord
    BY <1>1, <1>6 DEF CallRecord, States, Terminal, Outcomes
  <2>2. Sound(c) => Sound(d) /\ Kept(c, d)
    BY <1>1, <1>6 DEF CallRecord, Sound, Kept
  <2> QED
    BY <2>1, <2>2 DEF Good, d
<1>7. CASE d = [c EXCEPT !.state = "Failed", !.outcome = out, !.hangup_by = reject,
                         !.end_ts = at]
  <2>1. d \in CallRecord
    BY <1>1, <1>2, <1>3, <1>7 DEF CallRecord, States, Terminal
  <2>2. Sound(c) => Sound(d) /\ Kept(c, d)
    BY <1>1, <1>2, <1>3, <1>7 DEF CallRecord, Sound, Kept
  <2> QED
    BY <2>1, <2>2 DEF Good, d
<1> QED
  BY <1>4, <1>5, <1>6, <1>7

-----------------------------------------------------------------------------
(* Every message, request or response. *)
LEMMA ApplyGood ==
  ASSUME NEW c \in CallRecord, NEW m \in Messages, NEW ts \in Times
  PROVE  Good(c, ApplySip(c, m, ts))
<1> DEFINE t == [c EXCEPT !.last_ts = ts]
           d == ApplySip(c, m, ts)
<1>1. t \in CallRecord
  BY DEF CallRecord
<1>2. Sound(c) => Sound(t) /\ Kept(c, t)
  BY DEF CallRecord, Sound, Kept
<1>3. \/ d = t
      \/ d = OnInitialInvite(t, m, ts) \/ d = OnBye(t, m, ts) \/ d = OnCancel(t, ts)
      \/ d = OnProvisional(t, m, ts) \/ d = OnSuccess(t, m, ts)
      \/ d = OnFailure(t, m, ts)
  BY DEF ApplySip, OnRequest, OnResponse
<1> HIDE DEF t, d
<1>4. Good(t, t)
  BY <1>1 DEF Good, Kept
<1>5. Good(t, d)
  BY <1>1, <1>3, <1>4, InviteGood, ByeGood, CancelGood, ProvisionalGood,
     SuccessGood, FailureGood
<1>6. \A f \in {"invite_ts", "invite_key", "trying_ts", "ringing_ts", "answer_ts",
                "bye_ts", "pdd_ms", "setup_ms", "ring_ms", "hangup_by"} : t[f] = c[f]
  BY DEF t, CallRecord
<1> QED
  BY <1>2, <1>5, <1>6 DEF Good, Kept, d

(* The invariant of one call: TypeOK, the evidence and the timings. *)
CallInv == call \in CallRecord /\ Sound(call)

(* A new call has no milestone and is Dialing. *)
LEMMA InitCall == Init => CallInv
<1> SUFFICES ASSUME Init PROVE CallInv
  OBVIOUS
<1>1. call \in CallRecord
  BY CallAssumption
     DEF Init, NewCall, CallRecord, States, Outcomes, Stamps, Delays, Initiators
<1>2. Sound(call)
  BY DEF Init, NewCall, Sound
<1> QED
  BY <1>1, <1>2 DEF CallInv

(* Every message keeps the invariant and every milestone. *)
LEMMA StepCall ==
  ASSUME CallInv, [Next]_vars
  PROVE  CallInv' /\ Kept(call, call')
<1>1. CASE Next
  <2>1. PICK m \in Messages, ts \in Times : Receive(m, ts)
    BY <1>1 DEF Next
  <2>2. call' = ApplySip(call, m, ts)
    BY <2>1 DEF Receive
  <2>3. Good(call, call')
    BY <2>2, ApplyGood DEF CallInv
  <2> QED
    BY <2>3 DEF Good, CallInv
<1>2. CASE UNCHANGED vars
  BY <1>2 DEF vars, CallInv, Kept
<1> QED
  BY <1>1, <1>2

(* Call records keep their shape: every state, outcome, stamp and delay    *)
(* stays in its range whatever messages apply_sip sees.                    *)
THEOREM CallTyped == Spec => []TypeOK
<1>1. CallInv /\ [Next]_vars => CallInv'
  BY StepCall
<1>2. CallInv => TypeOK
  BY DEF CallInv, TypeOK
<1> QED
  BY <1>1, <1>2, InitCall, PTL DEF Spec

(* A call shown as Active, Ringing, Completed or Failed has the timeline   *)
(* that justifies it (apply_sip), in every order of messages and           *)
(* timestamps.                                                             *)
THEOREM EvidenceHolds == Spec => []StateHasEvidence
<1>1. CallInv /\ [Next]_vars => CallInv'
  BY StepCall
<1>2. CallInv => StateHasEvidence
  BY DEF CallInv, Sound, StateHasEvidence
<1> QED
  BY <1>1, <1>2, InitCall, PTL DEF Spec

(* No message rewrites a milestone, a timing or who hung up (apply_sip):   *)
(* retransmissions and late responses cannot move them.                    *)
THEOREM MilestonesKept == Spec => MilestonesWrittenOnce
<1>1. CallInv /\ [Next]_vars => Untouched
  <2> SUFFICES ASSUME CallInv, [Next]_vars PROVE Untouched
    OBVIOUS
  <2>1. Kept(call, call')
    BY StepCall
  <2> QED
    BY <2>1 DEF Kept, Untouched, Milestones
<1>2. CallInv /\ [Next]_vars => [Untouched]_vars
  BY <1>1
<1>3. CallInv /\ [Next]_vars => CallInv'
  BY StepCall
<1> QED
  BY <1>2, <1>3, InitCall, PTL DEF Spec, MilestonesWrittenOnce

-----------------------------------------------------------------------------
(* Elapsed, whichever stamp is the earlier one *)
LEMMA ElapsedBetween ==
  ASSUME NEW from \in Times, NEW to \in Times PROVE Elapsed(to, from) = Between(from, to)
<1> DEFINE x == to - from
<1>1. from \in 0 .. (Wide - 1) /\ to \in 0 .. (Wide - 1) /\ Wide \in Nat \ {0}
  BY CallAssumption, SipAssumption
<1>2. CASE to >= from
  <2>1. x % Wide = x
    BY <1>1, <1>2
  <2> QED
    BY <1>2, <2>1 DEF Elapsed, Between
<1>3. CASE ~(to >= from)
  <2>1. x % Wide = Wide - (from - to)
    BY <1>1, <1>3
  <2> QED
    BY <1>3, <2>1 DEF Elapsed, Between
<1> QED
  BY <1>2, <1>3

(* The same stamp twice is no time *)
LEMMA NoTime == ASSUME NEW ts \in Times PROVE Elapsed(ts, ts) = 0
<1>1. ts - ts = 0
  BY CallAssumption
<1>2. 0 % Wide = 0 /\ 0 \div PerMs = 0 /\ 0 % Narrow = 0
  BY SipAssumption
<1> QED
  BY <1>1, <1>2 DEF Elapsed

(* Seen, InOrder, FirstProvisional and the timings, of a call c whose      *)
(* stamps were set in the order o                                          *)
Names == {"invite_ts", "trying_ts", "ringing_ts", "answer_ts"}
SeenIn(o, f) == \E i \in DOMAIN o : o[i] = f
OrderIn(o, f, g) == \E i, j \in DOMAIN o : i < j /\ o[i] = f /\ o[j] = g
FirstIn(o) ==
  IF SeenIn(o, "trying_ts") /\ ~OrderIn(o, "ringing_ts", "trying_ts")
    THEN "trying_ts" ELSE "ringing_ts"
PddIn(c, o) ==
  LET p == FirstIn(o)
  IN c.pdd_ms = CASE ~SeenIn(o, p)                -> None
                  [] OrderIn(o, "invite_ts", p)   -> Between(c.invite_ts, c[p])
                  [] OTHER                        -> 0
DelayIn(c, o, ms, from, to) ==
  ms = IF OrderIn(o, from, to) THEN Between(c[from], c[to]) ELSE None
Ordered(c, o) == o \in Seq(Names) /\ \A f \in Names : SeenIn(o, f) <=> c[f] # None
Timed(c, o) ==
  /\ Ordered(c, o) /\ PddIn(c, o)
  /\ DelayIn(c, o, c.setup_ms, "invite_ts", "answer_ts")
  /\ DelayIn(c, o, c.ring_ms, "ringing_ts", "answer_ts")

(* What a further stamp adds to the order *)
LEMMA FurtherStamp ==
  ASSUME NEW o \in Seq(Names), NEW f \in Names, NEW q, q = Append(o, f)
  PROVE  /\ q \in Seq(Names)
         /\ \A a : SeenIn(q, a) <=> (SeenIn(o, a) \/ a = f)
         /\ \A a, b : OrderIn(q, a, b) <=> (OrderIn(o, a, b) \/ (b = f /\ SeenIn(o, a)))
<1>1. /\ q \in Seq(Names) /\ Len(o) \in Nat /\ DOMAIN o = 1 .. Len(o)
      /\ DOMAIN q = 1 .. (Len(o) + 1)
      /\ q[Len(o) + 1] = f /\ \A i \in 1 .. Len(o) : q[i] = o[i]
  OBVIOUS
<1>2. \A a : SeenIn(q, a) <=> (SeenIn(o, a) \/ a = f)
  BY <1>1 DEF SeenIn
<1>3. ASSUME NEW a, NEW b PROVE OrderIn(q, a, b) <=> (OrderIn(o, a, b) \/ (b = f /\ SeenIn(o, a)))
  <2>1. OrderIn(o, a, b) => OrderIn(q, a, b)
    BY <1>1 DEF OrderIn
  <2>2. b = f /\ SeenIn(o, a) => OrderIn(q, a, b)
    <3> SUFFICES ASSUME b = f, NEW i \in DOMAIN o, o[i] = a PROVE OrderIn(q, a, b)
      BY DEF SeenIn
    <3>1. i \in DOMAIN q /\ Len(o) + 1 \in DOMAIN q /\ i < Len(o) + 1
      BY <1>1
    <3> QED
      BY <1>1, <3>1 DEF OrderIn
  <2>3. OrderIn(q, a, b) => OrderIn(o, a, b) \/ (b = f /\ SeenIn(o, a))
    <3> SUFFICES ASSUME NEW i \in DOMAIN q, NEW j \in DOMAIN q, i < j, q[i] = a, q[j] = b
                 PROVE  OrderIn(o, a, b) \/ (b = f /\ SeenIn(o, a))
      BY DEF OrderIn
    <3>1. i \in DOMAIN o /\ o[i] = a
      BY <1>1
    <3>2. CASE j = Len(o) + 1
      BY <1>1, <3>1, <3>2 DEF SeenIn
    <3>3. CASE j # Len(o) + 1
      <4>1. j \in DOMAIN o /\ o[j] = b
        BY <1>1, <3>3
      <4> QED
        BY <3>1, <4>1 DEF OrderIn
    <3> QED
      BY <3>2, <3>3
  <2> QED
    BY <2>1, <2>2, <2>3
<1> QED
  BY <1>1, <1>2, <1>3

LEMMA OrderSeen ==
  ASSUME NEW o, NEW a, NEW b, OrderIn(o, a, b) PROVE SeenIn(o, a) /\ SeenIn(o, b)
BY DEF OrderIn, SeenIn

(* The fields Timed is about *)
Delayed(c, d) == d.pdd_ms = c.pdd_ms /\ d.setup_ms = c.setup_ms /\ d.ring_ms = c.ring_ms
SameTimes(c, d) == Delayed(c, d) /\ \A f \in Names : d[f] = c[f]

(* What a message does to them: nothing, or one stamp and what it measures *)
StampsOne(c, d, f, ts) ==
  c[f] = None /\ d[f] = ts /\ \A g \in Names \ {f} : d[g] = c[g]
Invited(c, d, ts) == StampsOne(c, d, "invite_ts", ts) /\ Delayed(c, d)
Provided(c, d, ts) ==
  /\ \E f \in {"trying_ts", "ringing_ts"} : StampsOne(c, d, f, ts)
  /\ d.setup_ms = c.setup_ms /\ d.ring_ms = c.ring_ms
  /\ d.pdd_ms = IF c.trying_ts = None /\ c.ringing_ts = None
                  THEN Elapsed(ts, GetOrInsert(c.invite_ts, ts)) ELSE c.pdd_ms
Picked(c, d, ts) ==
  /\ StampsOne(c, d, "answer_ts", ts) /\ d.pdd_ms = c.pdd_ms
  /\ d.setup_ms = IF c.invite_ts # None THEN Elapsed(ts, c.invite_ts) ELSE c.setup_ms
  /\ d.ring_ms = IF c.ringing_ts # None THEN Elapsed(ts, c.ringing_ts) ELSE c.ring_ms
Measures(c, d, ts) == SameTimes(c, d) \/ Invited(c, d, ts) \/ Provided(c, d, ts) \/ Picked(c, d, ts)

LEMMA ApplyMeasures ==
  ASSUME NEW c \in CallRecord, NEW m, NEW ts \in Times PROVE Measures(c, ApplySip(c, m, ts), ts)
<1> DEFINE t == [c EXCEPT !.last_ts = ts]
           d == ApplySip(c, m, ts)
<1>1. t \in CallRecord /\ SameTimes(c, t)
  BY DEF CallRecord, SameTimes, Delayed, Names
<1>2. \/ d = t
      \/ d = OnInitialInvite(t, m, ts) \/ d = OnBye(t, m, ts) \/ d = OnCancel(t, ts)
      \/ d = OnProvisional(t, m, ts) \/ d = OnSuccess(t, m, ts)
      \/ d = OnFailure(t, m, ts)
  BY DEF ApplySip, OnRequest, OnResponse
<1> SUFFICES Measures(c, d, ts)
  OBVIOUS
<1> HIDE DEF t, d
<1>3. CASE d = OnBye(t, m, ts)
  BY <1>1, <1>3 DEF OnBye, CallRecord, Measures, SameTimes, Delayed, Names
<1>4. CASE d = OnCancel(t, ts)
  BY <1>1, <1>4 DEF OnCancel, CallRecord, Measures, SameTimes, Delayed, Names
<1>5. SameTimes(t, Closed(t, ts))
  BY <1>1 DEF Closed, CallRecord, SameTimes, Delayed, Names
<1>6. CASE d = OnFailure(t, m, ts)
  <2>1. SameTimes(t, RequestTerminated(t)) /\ SameTimes(t, Refused(t, m, ts))
    BY <1>1 DEF RequestTerminated, Refused, CallRecord, SameTimes, Delayed, Names
  <2>2. SameTimes(t, d)
    BY <1>5, <1>6, <2>1 DEF OnFailure
  <2> QED
    BY <1>1, <2>2 DEF Measures, SameTimes, Delayed
<1>7. CASE d = OnInitialInvite(t, m, ts)
  <2>1. /\ d.invite_ts = GetOrInsert(t.invite_ts, ts) /\ Delayed(t, d)
        /\ \A f \in Names \ {"invite_ts"} : d[f] = t[f]
    BY <1>1, <1>7 DEF OnInitialInvite, CallRecord, Delayed, Names
  <2> QED
    BY <1>1, <2>1 DEF GetOrInsert, Measures, SameTimes, Delayed, Invited, StampsOne, Names
<1>8. CASE d = OnProvisional(t, m, ts)
  <2> DEFINE pdd == IF t.trying_ts = None /\ t.ringing_ts = None
                      THEN Elapsed(ts, GetOrInsert(t.invite_ts, ts)) ELSE t.pdd_ms
  <2>1. /\ d.pdd_ms = pdd /\ d.setup_ms = t.setup_ms /\ d.ring_ms = t.ring_ms
        /\ \E f \in {"trying_ts", "ringing_ts"} :
             d[f] = GetOrInsert(t[f], ts) /\ \A g \in Names \ {f} : d[g] = t[g]
    BY <1>1, <1>8 DEF OnProvisional, CallRecord, Names
  <2> HIDE DEF pdd
  <2>2. PICK f \in {"trying_ts", "ringing_ts"} :
          d[f] = GetOrInsert(t[f], ts) /\ \A g \in Names \ {f} : d[g] = t[g]
    BY <2>1
  <2>3. CASE t[f] = None
    <3>1. StampsOne(c, d, f, ts)
      BY <1>1, <2>2, <2>3 DEF StampsOne, SameTimes, GetOrInsert, Names
    <3>2. Provided(c, d, ts)
      BY <1>1, <2>1, <3>1 DEF Provided, SameTimes, Delayed, Names, pdd
    <3> QED
      BY <3>2 DEF Measures
  <2>4. CASE t[f] # None
    <3>1. d.pdd_ms = t.pdd_ms
      BY <2>1, <2>2, <2>4 DEF pdd
    <3>2. \A g \in Names : d[g] = t[g]
      BY <2>2, <2>4 DEF GetOrInsert
    <3> QED
      BY <1>1, <2>1, <3>1, <3>2 DEF Measures, SameTimes, Delayed
  <2> QED
    BY <2>3, <2>4
<1>9. CASE d = OnSuccess(t, m, ts)
  <2>1. CASE d = t \/ d = Closed(t, ts)
    BY <1>1, <1>5, <2>1 DEF Measures, SameTimes, Delayed
  <2>2. CASE d = Answered(t, ts) /\ t.answer_ts = None
    <3>1. /\ d.answer_ts = ts /\ d.pdd_ms = t.pdd_ms
          /\ d.setup_ms = IF t.invite_ts # None THEN Elapsed(ts, t.invite_ts) ELSE t.setup_ms
          /\ d.ring_ms = IF t.ringing_ts # None THEN Elapsed(ts, t.ringing_ts) ELSE t.ring_ms
          /\ \A f \in Names \ {"answer_ts"} : d[f] = t[f]
      BY <1>1, <2>2 DEF Answered, CallRecord, Names
    <3>2. Picked(c, d, ts)
      BY <1>1, <2>2, <3>1 DEF Picked, StampsOne, SameTimes, Delayed, Names
    <3> QED
      BY <3>2 DEF Measures
  <2> QED
    BY <1>9, <2>1, <2>2 DEF OnSuccess
<1> QED
  BY <1>1, <1>2, <1>3, <1>4, <1>6, <1>7, <1>8, <1>9 DEF Measures

-----------------------------------------------------------------------------
(* A further stamp in the order and in the call *)
Further(d, o, f, q) ==
  /\ Ordered(d, q) /\ ~SeenIn(o, f)
  /\ \A a : SeenIn(q, a) <=> (SeenIn(o, a) \/ a = f)
  /\ \A a, b : OrderIn(q, a, b) <=> (OrderIn(o, a, b) \/ (b = f /\ SeenIn(o, a)))

LEMMA StampOrdered ==
  ASSUME NEW c, NEW d, NEW o, Ordered(c, o), NEW f \in Names, NEW ts \in Times, StampsOne(c, d, f, ts)
  PROVE  Further(d, o, f, Append(o, f))
<1> DEFINE q == Append(o, f)
<1>1. /\ q \in Seq(Names)
      /\ \A a : SeenIn(q, a) <=> (SeenIn(o, a) \/ a = f)
      /\ \A a, b : OrderIn(q, a, b) <=> (OrderIn(o, a, b) \/ (b = f /\ SeenIn(o, a)))
  <2>1. o \in Seq(Names)
    BY DEF Ordered
  <2> QED
    BY <2>1, FurtherStamp, Zenon
<1>2. ts # None
  BY TimesAre
<1> HIDE DEF q
<1>3. \A g \in Names : SeenIn(q, g) <=> d[g] # None
  BY <1>1, <1>2 DEF Ordered, StampsOne
<1>4. Further(d, o, f, q)
  BY <1>1, <1>3 DEF Ordered, StampsOne, Further
<1> QED
  BY <1>4 DEF q

(* An INVITE that comes after the provisional or the answer measures       *)
(* nothing.                                                                *)
LEMMA InvitedTimed ==
  ASSUME NEW c, NEW d, NEW o, Timed(c, o), NEW ts \in Times, Invited(c, d, ts)
  PROVE  Timed(d, Append(o, "invite_ts"))
<1> DEFINE q == Append(o, "invite_ts")
<1>0. Further(d, o, "invite_ts", q)
  <2>1. "invite_ts" \in Names /\ Ordered(c, o) /\ StampsOne(c, d, "invite_ts", ts)
    BY DEF Timed, Invited, Names
  <2> QED
    BY <2>1, StampOrdered
<1> HIDE DEF q
<1>1. /\ Ordered(d, q) /\ ~SeenIn(o, "invite_ts")
      /\ \A a : SeenIn(q, a) <=> (SeenIn(o, a) \/ a = "invite_ts")
      /\ \A a, b : OrderIn(q, a, b) <=> (OrderIn(o, a, b) \/ (b = "invite_ts" /\ SeenIn(o, a)))
  BY <1>0 DEF Further
<1>2. \A b : ~OrderIn(o, "invite_ts", b)
  BY <1>1, OrderSeen
<1>3. FirstIn(q) = FirstIn(o) /\ FirstIn(o) \in {"trying_ts", "ringing_ts"}
  BY <1>1 DEF FirstIn
<1>4. PddIn(d, q)
  <2>1. /\ SeenIn(q, FirstIn(o)) <=> SeenIn(o, FirstIn(o))
        /\ ~OrderIn(q, "invite_ts", FirstIn(o))
    BY <1>1, <1>2, <1>3
  <2> QED
    BY <1>2, <1>3, <2>1 DEF PddIn, Timed, Invited, Delayed
<1>5. DelayIn(d, q, d.setup_ms, "invite_ts", "answer_ts")
  BY <1>1, <1>2 DEF DelayIn, Timed, Invited, Delayed
<1>6. DelayIn(d, q, d.ring_ms, "ringing_ts", "answer_ts")
  BY <1>1 DEF DelayIn, Timed, Invited, Delayed, StampsOne, Names
<1> QED
  BY <1>1, <1>4, <1>5, <1>6 DEF Timed, q

(* The first provisional fixes the post-dial delay, a further one does not *)
(* move it.                                                                *)
LEMMA ProvidedTimed ==
  ASSUME NEW c \in CallRecord, NEW d, NEW o, Timed(c, o), NEW ts \in Times,
         NEW f \in {"trying_ts", "ringing_ts"}, StampsOne(c, d, f, ts), Provided(c, d, ts)
  PROVE  Timed(d, Append(o, f))
<1> DEFINE q == Append(o, f)
<1>0. Further(d, o, f, q)
  <2>1. f \in Names /\ Ordered(c, o)
    BY DEF Timed, Names
  <2> QED
    BY <2>1, StampOrdered
<1> HIDE DEF q
<1>1. /\ Ordered(d, q) /\ ~SeenIn(o, f)
      /\ \A a : SeenIn(q, a) <=> (SeenIn(o, a) \/ a = f)
      /\ \A a, b : OrderIn(q, a, b) <=> (OrderIn(o, a, b) \/ (b = f /\ SeenIn(o, a)))
  BY <1>0 DEF Further
<1>2. \A b : ~OrderIn(o, f, b) /\ ~OrderIn(o, b, f)
  BY <1>1, OrderSeen
<1>3. /\ \A g \in Names : SeenIn(o, g) <=> c[g] # None
      /\ \A g \in Names \ {f} : d[g] = c[g]
  BY DEF Timed, Ordered, StampsOne
<1>4. PddIn(d, q)
  <2>1. CASE c.trying_ts = None /\ c.ringing_ts = None
    <3>1. /\ ~SeenIn(o, "trying_ts") /\ ~SeenIn(o, "ringing_ts")
      BY <1>3, <2>1 DEF Names
    <3>2. FirstIn(q) = f /\ SeenIn(q, f)
      BY <1>1, <1>2, <3>1 DEF FirstIn
    <3>3. d.pdd_ms = Elapsed(ts, GetOrInsert(c.invite_ts, ts)) /\ d[f] = ts
      BY <2>1 DEF Provided, StampsOne
    <3>4. d.invite_ts = c.invite_ts
      BY <1>3 DEF Names
    <3>5. OrderIn(q, "invite_ts", f) <=> c.invite_ts # None
      BY <1>1, <1>2, <1>3 DEF Names
    <3>6. CASE c.invite_ts = None
      <4>1. d.pdd_ms = 0
        BY <3>3, <3>6, NoTime DEF GetOrInsert
      <4> QED
        BY <3>2, <3>5, <3>6, <4>1 DEF PddIn
    <3>7. CASE c.invite_ts # None
      <4>1. c.invite_ts \in Times
        BY <3>7 DEF CallRecord, Stamps
      <4>2. d.pdd_ms = Between(d.invite_ts, d[f])
        BY <3>3, <3>4, <3>7, <4>1, ElapsedBetween DEF GetOrInsert
      <4> QED
        BY <3>2, <3>5, <3>7, <4>2 DEF PddIn
    <3> QED
      BY <3>6, <3>7
  <2>2. CASE ~(c.trying_ts = None /\ c.ringing_ts = None)
    <3>1. d.pdd_ms = c.pdd_ms
      BY <2>2 DEF Provided
    <3>2. PICK g \in {"trying_ts", "ringing_ts"} : g # f /\ SeenIn(o, g)
      BY <1>1, <1>3, <2>2 DEF Names
    <3>3. FirstIn(o) = g /\ FirstIn(q) = g
      BY <1>1, <1>2, <3>2 DEF FirstIn
    <3>4. (OrderIn(q, "invite_ts", g) <=> OrderIn(o, "invite_ts", g)) /\ SeenIn(q, g)
      BY <1>1, <3>2
    <3>5. d.invite_ts = c.invite_ts /\ d[g] = c[g]
      BY <1>3, <3>2 DEF Names
    <3>6. PddIn(c, o)
      BY DEF Timed
    <3> QED
      BY <3>1, <3>2, <3>3, <3>4, <3>5, <3>6 DEF PddIn
  <2> QED
    BY <2>1, <2>2
<1>5. DelayIn(d, q, d.setup_ms, "invite_ts", "answer_ts")
  BY <1>1, <1>3 DEF DelayIn, Timed, Provided, Names
<1>6. DelayIn(d, q, d.ring_ms, "ringing_ts", "answer_ts")
  <2>1. OrderIn(q, "ringing_ts", "answer_ts") <=> OrderIn(o, "ringing_ts", "answer_ts")
    BY <1>1
  <2>2. OrderIn(o, "ringing_ts", "answer_ts") => f # "ringing_ts"
    BY <1>2
  <2> QED
    BY <1>3, <2>1, <2>2 DEF DelayIn, Timed, Provided, Names
<1> QED
  BY <1>1, <1>4, <1>5, <1>6 DEF Timed, q

(* The answer fixes the setup and the ring time *)
LEMMA PickedTimed ==
  ASSUME NEW c \in CallRecord, NEW d, NEW o, Timed(c, o), NEW ts \in Times, Picked(c, d, ts)
  PROVE  Timed(d, Append(o, "answer_ts"))
<1> DEFINE f == "answer_ts"
           q == Append(o, f)
<1>0. Further(d, o, f, q)
  <2>1. f \in Names /\ Ordered(c, o) /\ StampsOne(c, d, f, ts)
    BY DEF Timed, Picked, Names
  <2> QED
    BY <2>1, StampOrdered
<1> HIDE DEF q
<1>1. /\ Ordered(d, q) /\ ~SeenIn(o, f)
      /\ \A a : SeenIn(q, a) <=> (SeenIn(o, a) \/ a = f)
      /\ \A a, b : OrderIn(q, a, b) <=> (OrderIn(o, a, b) \/ (b = f /\ SeenIn(o, a)))
  BY <1>0 DEF Further
<1>2. /\ \A g \in Names : SeenIn(o, g) <=> c[g] # None
      /\ \A g \in Names \ {f} : d[g] = c[g]
      /\ d[f] = ts
  BY DEF Timed, Ordered, Picked, StampsOne
<1>3. PddIn(d, q)
  <2>1. FirstIn(q) = FirstIn(o) /\ FirstIn(o) \in {"trying_ts", "ringing_ts"}
    BY <1>1 DEF FirstIn
  <2>2. /\ SeenIn(q, FirstIn(o)) <=> SeenIn(o, FirstIn(o))
        /\ OrderIn(q, "invite_ts", FirstIn(o)) <=> OrderIn(o, "invite_ts", FirstIn(o))
    BY <1>1, <2>1
  <2>3. d.invite_ts = c.invite_ts /\ d[FirstIn(o)] = c[FirstIn(o)] /\ d.pdd_ms = c.pdd_ms
    BY <1>2, <2>1 DEF Names, Picked
  <2> QED
    BY <2>1, <2>2, <2>3 DEF PddIn, Timed
<1>4. \A b : ~OrderIn(o, b, f)
  BY <1>1, OrderSeen
<1>5. ASSUME NEW from \in {"invite_ts", "ringing_ts"}, NEW before, NEW ms,
             DelayIn(c, o, before, from, f),
             ms = IF c[from] # None THEN Elapsed(ts, c[from]) ELSE before
      PROVE  DelayIn(d, q, ms, from, f)
  <2>1. OrderIn(q, from, f) <=> c[from] # None
    BY <1>1, <1>2, <1>4 DEF Names
  <2>2. before = None
    BY <1>4, <1>5 DEF DelayIn
  <2>3. d[from] = c[from] /\ (c[from] # None => c[from] \in Times)
    BY <1>2 DEF Names, CallRecord, Stamps
  <2>4. c[from] # None => Elapsed(ts, c[from]) = Between(d[from], d[f])
    BY <1>2, <2>3, ElapsedBetween
  <2> HIDE DEF f
  <2> QED
    BY <1>5, <2>1, <2>2, <2>4 DEF DelayIn
<1>6. DelayIn(d, q, d.setup_ms, "invite_ts", "answer_ts")
  BY <1>5 DEF Timed, Picked
<1>7. DelayIn(d, q, d.ring_ms, "ringing_ts", "answer_ts")
  BY <1>5 DEF Timed, Picked
<1> QED
  BY <1>1, <1>3, <1>6, <1>7 DEF Timed, q

(* Without a new stamp nothing moves *)
LEMMA SameTimed ==
  ASSUME NEW c, NEW d, NEW o, SameTimes(c, d), Timed(c, o) PROVE Timed(d, o)
<1>1. Ordered(d, o)
  BY DEF SameTimes, Timed, Ordered
<1>2. PddIn(d, o)
  <2>1. FirstIn(o) \in Names
    BY DEF FirstIn, Names
  <2> QED
    BY <2>1 DEF SameTimes, Delayed, Timed, PddIn, Names
<1>3. /\ DelayIn(d, o, d.setup_ms, "invite_ts", "answer_ts")
      /\ DelayIn(d, o, d.ring_ms, "ringing_ts", "answer_ts")
  BY DEF SameTimes, Delayed, Timed, DelayIn, Names
<1> QED
  BY <1>1, <1>2, <1>3 DEF Timed

(* A message and its entry in the order *)
LEMMA ReceiveTimed ==
  ASSUME CallInv, Timed(call, order), NEW m \in Messages, NEW ts \in Times, Receive(m, ts)
  PROVE  Timed(call', order')
<1>1. call' = ApplySip(call, m, ts) /\ call \in CallRecord
  BY DEF Receive, CallInv
<1>2. Measures(call, call', ts)
  BY <1>1, ApplyMeasures
<1>3. Stamped = {f \in Names : call[f] = None /\ call'[f] # None}
  BY DEF Stamped, Names
<1>4. order' = IF Stamped = {} THEN order ELSE Append(order, CHOOSE f \in Stamped : TRUE)
  BY DEF Receive
<1>5. ts # None
  BY CallAssumption, SipAssumption
<1>6. ASSUME NEW f \in Names, StampsOne(call, call', f, ts) PROVE order' = Append(order, f)
  <2>1. Stamped = {f}
    BY <1>3, <1>5, <1>6 DEF StampsOne
  <2> QED
    BY <1>4, <2>1
<1>7. CASE SameTimes(call, call')
  <2>1. Stamped = {}
    BY <1>3, <1>7 DEF SameTimes
  <2>2. order' = order
    BY <1>4, <2>1
  <2> QED
    BY <1>7, <2>2, SameTimed
<1>8. CASE Invited(call, call', ts)
  <2>1. order' = Append(order, "invite_ts")
    BY <1>6, <1>8 DEF Invited, Names
  <2> QED
    BY <1>8, <2>1, InvitedTimed
<1>9. CASE Provided(call, call', ts)
  <2>1. PICK f \in {"trying_ts", "ringing_ts"} : StampsOne(call, call', f, ts)
    BY <1>9 DEF Provided
  <2>2. order' = Append(order, f)
    BY <1>6, <2>1 DEF Names
  <2> QED
    BY <1>1, <1>9, <2>1, <2>2, ProvidedTimed
<1>10. CASE Picked(call, call', ts)
  <2>1. order' = Append(order, "answer_ts")
    BY <1>6, <1>10 DEF Picked, Names
  <2> QED
    BY <1>1, <1>10, <2>1, PickedTimed
<1> QED
  BY <1>2, <1>7, <1>8, <1>9, <1>10 DEF Measures

(* Every delay a call shows is there exactly if its two ends were captured *)
(* in this order, and is the time between them, whatever messages arrive   *)
(* in between and afterwards, however many of each, whatever timestamps    *)
(* they carry: a clock that steps back and a call longer than the counters *)
(* are as wide change the delays as Between says and in no other way       *)
(* (apply_sip).                                                            *)
THEOREM TimingsExact == Spec => []TimingsMatchTimeline
<1> DEFINE TimedInv == CallInv /\ Timed(call, order)
<1>1. Init => TimedInv
  <2> SUFFICES ASSUME Init PROVE Timed(call, order)
    BY InitCall
  <2>1. order = <<>> /\ DOMAIN order = {} /\ call = NewCall
    BY DEF Init
  <2>2. \A a, b : ~SeenIn(order, a) /\ ~OrderIn(order, a, b)
    BY <2>1 DEF SeenIn, OrderIn
  <2>3. Ordered(call, order)
    <3>1. order \in Seq(Names)
      BY <2>1
    <3>2. \A f \in Names : call[f] = None
      BY <2>1 DEF NewCall, Names
    <3> QED
      BY <2>2, <3>1, <3>2 DEF Ordered
  <2>4. PddIn(call, order)
    BY <2>1, <2>2 DEF PddIn, NewCall
  <2>5. /\ DelayIn(call, order, call.setup_ms, "invite_ts", "answer_ts")
        /\ DelayIn(call, order, call.ring_ms, "ringing_ts", "answer_ts")
    BY <2>1, <2>2 DEF DelayIn, NewCall
  <2> QED
    BY <2>3, <2>4, <2>5 DEF Timed
<1>2. TimedInv /\ [Next]_vars => TimedInv'
  <2> SUFFICES ASSUME CallInv, Timed(call, order), [Next]_vars PROVE Timed(call, order)'
    BY StepCall
  <2>1. CASE Next
    <3>1. PICK m \in Messages, ts \in Times : Receive(m, ts)
      BY <2>1 DEF Next
    <3> QED
      BY <3>1, ReceiveTimed
  <2>2. CASE UNCHANGED vars
    BY <2>2 DEF vars
  <2> QED
    BY <2>1, <2>2
<1>3. TimedInv => TimingsMatchTimeline
  <2> SUFFICES ASSUME Timed(call, order) PROVE TimingsMatchTimeline
    OBVIOUS
  <2>1. /\ \A f : Seen(f) <=> SeenIn(order, f)
        /\ \A f, g : InOrder(f, g) <=> OrderIn(order, f, g)
    BY DEF Seen, SeenIn, InOrder, OrderIn
  <2>2. FirstProvisional = FirstIn(order)
    BY <2>1 DEF FirstProvisional, FirstIn
  <2>3. PddMatches
    BY <2>1, <2>2 DEF PddMatches, Timed, PddIn
  <2>4. /\ DelayMatches(call.setup_ms, "invite_ts", "answer_ts")
        /\ DelayMatches(call.ring_ms, "ringing_ts", "answer_ts")
    BY <2>1 DEF DelayMatches, Timed, DelayIn
  <2> QED
    BY <2>3, <2>4 DEF TimingsMatchTimeline
<1> QED
  BY <1>1, <1>2, <1>3, PTL DEF Spec
=============================================================================

------------------------------ MODULE SipCall ------------------------------
(***************************************************************************)
(* The call record (Call, src/src/model/sip.rs) and its transitions        *)
(* (apply_sip, src/src/correlate/call.rs), as operators.                   *)
(*                                                                         *)
(* A message is a record                                                   *)
(*   [req, method, tagged, code, cseq, src, dst]                           *)
(* with `tagged` for a To tag and `cseq` the CSeq method (None when it     *)
(* could not be parsed).  What is only displayed is left out: URIs,        *)
(* packet and byte counters, the ringback code, the early-media flag, the  *)
(* hangup cause and the stored message text.  Timestamps count             *)
(* microseconds in u64, delays milliseconds in u32.                        *)
(***************************************************************************)
EXTENDS Integers

CONSTANTS None,    \* Option::None
          Wide,    \* 2^64, the modulus of u64 subtraction
          Narrow,  \* 2^32, the modulus of `as u32`
          PerMs    \* microseconds per millisecond

ASSUME SipAssumption ==
  /\ None \notin Int
  /\ Wide \in Nat \ {0} /\ Narrow \in Nat \ {0} /\ PerMs \in Nat \ {0}

Terminal == {"Completed", "Failed", "Canceled"}
States == {"Dialing", "Ringing", "Active"} \cup Terminal
Outcomes == {"InProgress", "Answered", "Rejected", "Canceled", "Failed"}
Initiators == {None, "Caller", "Callee", "Reject"}

(* Call::new *)
NewCall ==
  [state      |-> "Dialing",  outcome    |-> "InProgress",
   invite_ts  |-> None,       invite_key |-> None,
   trying_ts  |-> None,       ringing_ts |-> None,
   answer_ts  |-> None,       bye_ts     |-> None,
   end_ts     |-> None,       last_ts    |-> 0,
   pdd_ms     |-> None,       setup_ms   |-> None,
   ring_ms    |-> None,       hangup_by  |-> None,
   active_ips |-> <<>>]

-----------------------------------------------------------------------------
GetOrInsert(opt, v) == IF opt = None THEN v ELSE opt

(* Mutant: delays round up *)
ElapsedUp(to, from) == ((((to - from) % Wide) + PerMs - 1) \div PerMs) % Narrow

(* ((to - from) / 1000) as u32; the release build wraps *)
Elapsed(to, from) == (((to - from) % Wide) \div PerMs) % Narrow

InitialInvite(m) == m.req /\ m.method = "INVITE" /\ ~m.tagged

OnInitialInvite(c, m, ts) ==
  [c EXCEPT !.invite_ts  = GetOrInsert(@, ts),
            !.invite_key = GetOrInsert(@, m.src),
            !.active_ips = IF @ = <<>> THEN <<m.src, m.dst>> ELSE @,
            !.state      = "Dialing"]

(* Mutant: a BYE of a call without INVITE is reported as a CANCEL *)
SenderOrCancel(c, m) ==
  IF c.invite_key = None THEN "Cancel"
  ELSE IF c.invite_key = m.src THEN "Caller" ELSE "Callee"

Sender(c, m) ==
  IF c.invite_key = None THEN None
  ELSE IF c.invite_key = m.src THEN "Caller" ELSE "Callee"

OnBye(c, m, ts) ==
  [c EXCEPT !.bye_ts    = GetOrInsert(@, ts),
            !.hangup_by = GetOrInsert(@, Sender(c, m))]

OnCancel(c, ts) ==
  IF c.state \in {"Completed", "Failed"}
    THEN c
    ELSE [c EXCEPT !.state     = "Canceled",
                   !.end_ts    = ts,
                   !.hangup_by = GetOrInsert(@, "Caller")]

(* In-dialog requests other than BYE and CANCEL change nothing. *)
OnRequest(c, m, ts) ==
  CASE InitialInvite(m)      -> OnInitialInvite(c, m, ts)
    [] m.method = "BYE"      -> OnBye(c, m, ts)
    [] m.method = "CANCEL"   -> OnCancel(c, ts)
    [] OTHER                 -> c

Ringback(code) == code \in 180 .. 189

OnProvisional(c, m, ts) ==
  LET first == c.trying_ts = None /\ c.ringing_ts = None
      timed == [c EXCEPT !.pdd_ms =
                  IF first THEN Elapsed(ts, GetOrInsert(c.invite_ts, ts)) ELSE @]
  IN IF Ringback(m.code)
       THEN [timed EXCEPT !.ringing_ts = GetOrInsert(@, ts),
                          !.state      = "Ringing"]
       ELSE [timed EXCEPT !.trying_ts = GetOrInsert(@, ts)]

(* Mutant: a closed call counts as completed, answered or not *)
AlwaysCompleted(c, ts) ==
  [c EXCEPT !.end_ts = GetOrInsert(@, ts), !.state = "Completed"]

(* The end of a call whose answer decides between Completed and Failed. *)
Closed(c, ts) ==
  [c EXCEPT !.end_ts = GetOrInsert(@, ts),
            !.state  = IF c.answer_ts # None THEN "Completed" ELSE "Failed"]

(* The first 2xx that does not close the call *)
Answered(c, ts) ==
  [c EXCEPT !.answer_ts = ts,
            !.setup_ms  = IF c.invite_ts # None THEN Elapsed(ts, c.invite_ts) ELSE @,
            !.ring_ms   = IF c.ringing_ts # None THEN Elapsed(ts, c.ringing_ts) ELSE @,
            !.state     = "Active",
            !.outcome   = "Answered"]

OnSuccess(c, m, ts) ==
  CASE m.cseq = "BYE"                          -> Closed(c, ts)
    [] m.cseq # "BYE" /\ c.answer_ts # None    -> c
    [] OTHER                                   -> Answered(c, ts)

(* Mutant: a 487 overwrites who hung up *)
TerminatedByCaller(c) ==
  [c EXCEPT !.state = "Canceled", !.outcome = "Canceled", !.hangup_by = "Caller"]

RequestTerminated(c) ==
  [c EXCEPT !.state     = "Canceled",
            !.outcome   = "Canceled",
            !.hangup_by = GetOrInsert(@, "Caller")]

Refused(c, m, ts) ==
  [c EXCEPT !.state     = "Failed",
            !.outcome   = IF m.code \in 400 .. 499 THEN "Rejected" ELSE "Failed",
            !.hangup_by = GetOrInsert(@, "Reject"),
            !.end_ts    = GetOrInsert(@, ts)]

OnFailure(c, m, ts) ==
  CASE m.cseq # "BYE" /\ m.code = 487          -> RequestTerminated(c)
    [] /\ m.cseq # "BYE" /\ m.code # 487
       /\ c.state \in {"Dialing", "Ringing"}   -> Refused(c, m, ts)
    [] OTHER                                   -> Closed(c, ts)

(* A provisional response that does not concern a ringing INVITE falls     *)
(* through every case.                                                     *)
OnResponse(c, m, ts) ==
  CASE /\ m.code \in 100 .. 199
       /\ m.cseq \in {None, "INVITE"}
       /\ c.state \in {"Dialing", "Ringing"} -> OnProvisional(c, m, ts)
    [] m.code \in 200 .. 299                 -> OnSuccess(c, m, ts)
    [] m.code >= 300                         -> OnFailure(c, m, ts)
    [] OTHER                                 -> c

ApplySip(c, m, ts) ==
  LET touched == [c EXCEPT !.last_ts = ts]
  IN IF m.req THEN OnRequest(touched, m, ts) ELSE OnResponse(touched, m, ts)
=============================================================================

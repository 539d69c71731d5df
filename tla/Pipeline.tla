------------------------------ MODULE Pipeline ------------------------------
(***************************************************************************)
(* The threads of sipmon (src/src/main.rs): the worker that pulls frames   *)
(* or log records, feeds the correlator, writes the event log and          *)
(* publishes snapshots; the main thread that runs the terminal interface   *)
(* or waits; signals.  They share the atomics and mutexes of Shared.       *)
(*                                                                         *)
(* The worker's loop is split at every access to a shared variable.  The   *)
(* correlator is its frame count and its pending events (Correlator.tla    *)
(* has the rest), the log a count of events buffered and on disk           *)
(* (Evlog.tla).  `due` is the publish timer: a clock that is always        *)
(* running sets it, a publication resets it.                               *)
(***************************************************************************)
EXTENDS Integers

CONSTANTS Modes,      \* subset of {"capture", "replay", "jsonl"}
          Sources,    \* subset of {"live", "file", "stdin"}
          Hints,      \* focus hints; None is the absent one
          Queries,    \* filter queries; None is the absent one
          None,
          Unpublished,\* last_pub_focus / last_pub_pkts before the first time
          Batch,      \* frames stdin reads before it returns
          MaxFrames,  \* bound: frames, or log records, of a source
          MaxKeys     \* bound: what the operator does

ASSUME PipelineAssumption ==
  /\ Modes \subseteq {"capture", "replay", "jsonl"}
  /\ Sources \subseteq {"live", "file", "stdin"}
  /\ None \in Hints /\ None \in Queries
  /\ Unpublished \notin Hints /\ Unpublished \notin Nat
  /\ Batch \in Nat \ {0} /\ MaxFrames \in Nat /\ MaxKeys \in Nat

VARIABLES
  mode, tui, kind,                            \* how sipmon was started
  sig, quit, pause, clear, focus, search,     \* QUIT_SIG and Shared
  pc,                                         \* the worker's place
  ret,                                        \* where publish returns to
  full,                                       \* publish's argument
  pkts, pending, hint,                        \* the correlator
  left, got, piped, exhausted,                \* the source
  emitted, buffered, durable,                 \* events: made, written, on disk
  snap, last_pub, cur, due,                   \* publication
  main,                                       \* main thread
  keys

start == <<mode, tui, kind>>
flags == <<sig, quit, pause, clear, focus, search>>
corr == <<pkts, pending, hint, emitted>>
log == <<buffered, durable>>
source == <<left, got, piped, exhausted>>
publication == <<snap, last_pub, cur, due>>
control == <<pc, ret, full>>
vars == <<start, flags, control, corr, log, source, publication, main, keys>>

NoSnapshot == [pkts |-> 0, focus |-> None, search |-> None, full |-> FALSE]

(* The snapshot a jsonl view imports, and publish_jsonl: the whole of it   *)
(* again with the detail of the focused call                               *)
Imported == [pkts |-> MaxFrames, focus |-> None, search |-> None, full |-> TRUE]
ImportedWith(f) == [Imported EXCEPT !.focus = f]

Init ==
  /\ mode \in Modes /\ tui \in BOOLEAN /\ kind \in Sources
  /\ mode # "capture" => kind = "file"
  /\ sig = FALSE /\ quit = FALSE /\ pause = FALSE /\ clear = FALSE
  /\ focus = None /\ search = None
  /\ pc = "top" /\ ret = "top" /\ full = FALSE
  /\ pkts = 0 /\ pending = 0 /\ hint = [focus |-> None, search |-> None]
  /\ left = MaxFrames /\ got = 0 /\ piped = (kind = "stdin") /\ exhausted = FALSE
  /\ emitted = 0 /\ buffered = 0 /\ durable = 0
  /\ snap = IF mode = "jsonl" THEN Imported ELSE NoSnapshot
  /\ last_pub = [pkts |-> Unpublished, focus |-> Unpublished, search |-> None]
  /\ cur = [focus |-> None, search |-> None]
  /\ due = FALSE
  /\ main = IF tui THEN "ui" ELSE "join"
  /\ keys = 0

-----------------------------------------------------------------------------
Running == main \in {"ui", "join"}
At(l) == Running /\ pc = l
Goto(l) == pc' = l /\ UNCHANGED <<ret, full>>
Publish(f, l) == pc' = "hint" /\ ret' = l /\ full' = f

(* The top of the loop: QUIT_SIG is turned into quit; only run_capture_loop*)
(* looks at it.                                                            *)
PollSignal ==
  /\ At("top")
  /\ quit' = (quit \/ (mode = "capture" /\ sig))
  /\ Goto("quit")
  /\ UNCHANGED <<start, sig, pause, clear, focus, search, corr, log, source,
                 publication, main, keys>>

(* Mutant: a paused worker does not look at quit *)
CheckQuitUnpaused ==
  /\ At("quit")
  /\ Goto(IF quit /\ ~pause THEN "final" ELSE "pause")
  /\ UNCHANGED <<start, flags, corr, log, source, publication, main, keys>>

CheckQuit ==
  /\ At("quit")
  /\ Goto(IF quit THEN "final" ELSE "pause")
  /\ UNCHANGED <<start, flags, corr, log, source, publication, main, keys>>

CheckPause ==
  /\ At("pause")
  /\ Goto(IF pause THEN "top" ELSE "clear")
  /\ UNCHANGED <<start, flags, corr, log, source, publication, main, keys>>

(* Mutant: the emptied state is left for the next publication *)
TakeClearSilent ==
  /\ At("clear")
  /\ clear' = FALSE
  /\ \/ ~clear /\ UNCHANGED <<corr, snap>>
     \/ clear /\ mode # "jsonl" /\ pkts' = 0 /\ pending' = 0 /\ UNCHANGED <<hint, emitted, snap>>
     \/ clear /\ mode = "jsonl" /\ snap' = NoSnapshot /\ UNCHANGED corr
  /\ Goto("input")
  /\ UNCHANGED <<start, sig, quit, pause, focus, search, log, source,
                 last_pub, cur, due, main, keys>>

(* clear.swap(false): Correlator::clear drops the counters and the pending *)
(* events, then the empty state is published; a jsonl view just blanks the *)
(* snapshot.                                                               *)
TakeClear ==
  /\ At("clear")
  /\ clear' = FALSE
  /\ \/ ~clear /\ Goto("input") /\ UNCHANGED <<corr, snap>>
     \/ /\ clear /\ mode # "jsonl"
        /\ pkts' = 0 /\ pending' = 0
        /\ Publish(FALSE, "input")
        /\ UNCHANGED <<hint, emitted, snap>>
     \/ /\ clear /\ mode = "jsonl"
        /\ snap' = NoSnapshot
        /\ Goto("input") /\ UNCHANGED corr
  /\ UNCHANGED <<start, sig, quit, pause, focus, search, log, source,
                 last_pub, cur, due, main, keys>>

(* publish reads the focus, then the query, then stores the snapshot *)
ReadHint ==
  /\ At("hint")
  /\ hint' = [hint EXCEPT !.focus = focus]
  /\ Goto("store")
  /\ UNCHANGED <<start, flags, pkts, pending, emitted, log, source, publication,
                 main, keys>>

StoreSnapshot ==
  /\ At("store")
  /\ hint' = [hint EXCEPT !.search = search]
  /\ snap' = [pkts |-> pkts, focus |-> hint.focus, search |-> search, full |-> full]
  /\ Goto(ret)
  /\ UNCHANGED <<start, flags, pkts, pending, emitted, log, source, last_pub, cur,
                 due, main, keys>>

-----------------------------------------------------------------------------
(* An event the correlator may make of a frame *)
Emit == \E e \in 0 .. 1 : pending' = pending + e /\ emitted' = emitted + e

(* One batch of frames, with the maintenance it triggers, which emits at   *)
(* most one event here.  An idle interface delivers an empty batch.        *)
DeliverFrames ==
  /\ At("input") /\ mode = "capture" /\ ~quit
  /\ \/ \E n \in 1 .. left :
          kind # "stdin" /\ left' = left - n /\ pkts' = pkts + n /\ Emit
     \/ kind = "live" /\ UNCHANGED <<left, pkts, pending, emitted>>
  /\ Goto("drain")
  /\ UNCHANGED <<start, flags, hint, log, got, piped, exhausted, publication, main, keys>>

(* A pipe on stdin: the stop flag is looked at once, then every frame is   *)
(* waited for until the batch is full or the pipe is closed.               *)
EnterStdin ==
  /\ At("input") /\ mode = "capture" /\ kind = "stdin" /\ ~quit
  /\ Goto("reading")
  /\ UNCHANGED <<start, flags, corr, log, source, publication, main, keys>>

StdinFrame ==
  /\ At("reading") /\ left > 0
  /\ left' = left - 1 /\ pkts' = pkts + 1 /\ Emit
  /\ got' = (got + 1) % Batch
  /\ Goto(IF got + 1 = Batch THEN "drain" ELSE "reading")
  /\ UNCHANGED <<start, flags, hint, log, piped, exhausted, publication, main, keys>>

StdinEof ==
  /\ At("reading") /\ left = 0 /\ ~piped
  /\ got' = 0
  /\ Goto(IF got > 0 THEN "drain" ELSE "eof")
  /\ UNCHANGED <<start, flags, corr, log, left, piped, exhausted, publication, main, keys>>

(* The process at the other end of the pipe *)
PipeCloses ==
  /\ Running /\ piped
  /\ piped' = FALSE
  /\ UNCHANGED <<start, flags, control, corr, log, left, got, exhausted, publication,
                 main, keys>>

(* Mutant: the periodic drain is skipped when the timer is not due *)
DrainWhenDue ==
  /\ At("drain")
  /\ IF due THEN pending' = 0 /\ buffered' = buffered + pending
            ELSE UNCHANGED <<pending, buffered>>
  /\ Goto(IF ~due THEN "top" ELSE IF tui THEN "readfocus" ELSE "flush")
  /\ UNCHANGED <<start, flags, pkts, hint, emitted, durable, source, publication, main, keys>>

(* drain_events_into and the writes; then the publish timer *)
Drain ==
  /\ At("drain")
  /\ pending' = 0 /\ buffered' = buffered + pending
  /\ Goto(IF ~due THEN "top" ELSE IF tui THEN "readfocus" ELSE "flush")
  /\ UNCHANGED <<start, flags, pkts, hint, emitted, durable, source, publication, main, keys>>

(* The source ends, or sees the stop flag.  The first time: a last flush,  *)
(* the log to disk, and a full snapshot.                                   *)
SourceEnds ==
  /\ mode = "capture"
  /\ \/ At("input") /\ (quit \/ (kind = "file" /\ left = 0))
     \/ At("eof")
  /\ exhausted' = TRUE
  /\ IF exhausted
       THEN /\ Goto(IF tui THEN "readfocus" ELSE "final")
            /\ UNCHANGED <<corr, log>>
       ELSE /\ \E e \in 0 .. 1 : /\ emitted' = emitted + e
                                 /\ durable' = durable + buffered + pending + e
            /\ pending' = 0 /\ buffered' = 0
            /\ Publish(TRUE, IF tui THEN "readfocus" ELSE "final")
            /\ UNCHANGED <<pkts, hint>>
  /\ UNCHANGED <<start, flags, left, got, piped, publication, main, keys>>

(* The hints as they are now, against the published ones *)
ReadFocus ==
  /\ At("readfocus")
  /\ cur' = [cur EXCEPT !.focus = focus]
  /\ Goto("readsearch")
  /\ UNCHANGED <<start, flags, corr, log, source, snap, last_pub, due, main, keys>>

Ended == exhausted

(* Mutant: the comparison forgets the query *)
ChangedNoQuery(q) ==
  \/ cur.focus # last_pub.focus
  \/ mode = "capture" /\ ~Ended /\ pkts # last_pub.pkts

Changed(q) ==
  \/ cur.focus # last_pub.focus
  \/ mode # "jsonl" /\ q # last_pub.search
  \/ mode = "capture" /\ ~Ended /\ pkts # last_pub.pkts

Remembered(q) ==
  [pkts |-> IF mode = "capture" /\ ~Ended THEN pkts ELSE last_pub.pkts,
   focus |-> cur.focus, search |-> IF mode = "jsonl" THEN last_pub.search ELSE q]

AfterCompare == IF mode = "capture" /\ ~Ended THEN "flush" ELSE "top"

CompareAndPublish ==
  /\ At("readsearch")
  /\ cur' = [cur EXCEPT !.search = search]
  /\ IF Changed(search)
       THEN /\ last_pub' = Remembered(search)
            /\ IF mode = "jsonl"
                 THEN snap' = ImportedWith(cur.focus) /\ Goto(AfterCompare)
                 ELSE Publish(Ended, AfterCompare) /\ UNCHANGED snap
       ELSE Goto(AfterCompare) /\ UNCHANGED <<last_pub, snap>>
  /\ UNCHANGED <<start, flags, corr, log, source, due, main, keys>>

(* flush_recorder, and the timer starts again *)
FlushRecorder ==
  /\ At("flush")
  /\ durable' = durable + buffered /\ buffered' = 0
  /\ due' = FALSE
  /\ Goto("top")
  /\ UNCHANGED <<start, flags, corr, source, snap, last_pub, cur, main, keys>>

-----------------------------------------------------------------------------
(* run_replay: a record is applied; every so often a snapshot; at the end  *)
(* of the log a full one, then only the hints matter.                      *)
ReplayRecord ==
  /\ At("input") /\ mode = "replay" /\ left > 0
  /\ left' = left - 1 /\ pkts' = pkts + 1
  /\ IF tui /\ due THEN Publish(FALSE, "top") /\ due' = FALSE
                   ELSE Goto("top") /\ UNCHANGED due
  /\ UNCHANGED <<start, flags, pending, hint, emitted, log, got, piped, exhausted, snap,
                 last_pub, cur, main, keys>>

ReplayEnds ==
  /\ At("input") /\ mode = "replay" /\ left = 0
  /\ exhausted' = TRUE
  /\ LET l == IF tui THEN "readfocus" ELSE "final"
     IN IF exhausted THEN Goto(l) ELSE Publish(TRUE, l)
  /\ UNCHANGED <<start, flags, corr, log, left, got, piped, publication, main, keys>>

(* run_jsonl_view: the imported snapshot, republished for a new focus *)
JsonlIdle ==
  /\ At("input") /\ mode = "jsonl"
  /\ Goto("readfocus")
  /\ UNCHANGED <<start, flags, corr, log, source, publication, main, keys>>

(* Mutant: the last events are written and not flushed *)
WindUpUnflushed ==
  /\ At("final")
  /\ IF mode = "capture"
       THEN /\ \E e \in 0 .. 1 : /\ emitted' = emitted + e
                                 /\ buffered' = buffered + pending + e
            /\ pending' = 0 /\ UNCHANGED durable
       ELSE UNCHANGED <<emitted, pending, log>>
  /\ IF mode = "jsonl" THEN Goto("done") ELSE Publish(TRUE, "done")
  /\ UNCHANGED <<start, flags, pkts, hint, source, publication, main, keys>>

(* After the loop: the last flush of the correlator and of the log, and a  *)
(* full snapshot; a jsonl view just ends.                                  *)
WindUp ==
  /\ At("final")
  /\ IF mode = "capture"
       THEN /\ \E e \in 0 .. 1 : /\ emitted' = emitted + e
                                 /\ durable' = durable + buffered + pending + e
            /\ pending' = 0 /\ buffered' = 0
       ELSE UNCHANGED <<emitted, pending, log>>
  /\ IF mode = "jsonl" THEN Goto("done") ELSE Publish(TRUE, "done")
  /\ UNCHANGED <<start, flags, pkts, hint, source, publication, main, keys>>

-----------------------------------------------------------------------------
(* The operator: pause, clear, focus, filter *)
Key ==
  /\ main = "ui" /\ keys < MaxKeys
  /\ keys' = keys + 1
  /\ \/ pause' = ~pause /\ UNCHANGED <<clear, focus, search>>
     \/ clear' = TRUE /\ UNCHANGED <<pause, focus, search>>
     \/ focus' \in Hints \ {focus} /\ UNCHANGED <<pause, clear, search>>
     \/ search' \in Queries \ {search} /\ UNCHANGED <<pause, clear, focus>>
  /\ UNCHANGED <<start, sig, quit, control, corr, log, source, publication, main>>

(* run_tui returns: quit is stored and the worker is joined *)
LeaveUi ==
  /\ main = "ui"
  /\ main' = "join" /\ quit' = TRUE
  /\ UNCHANGED <<start, sig, pause, clear, focus, search, control, corr, log, source,
                 publication, keys>>

(* run_tui fails: `?` returns from main at once, and the process ends      *)
(* under the worker.                                                       *)
UiFails ==
  /\ main = "ui"
  /\ main' = "aborted"
  /\ UNCHANGED <<start, flags, control, corr, log, source, publication, keys>>

(* A jsonl view without interface stops its worker at once *)
JsonlHeadless ==
  /\ main = "join" /\ mode = "jsonl" /\ ~quit
  /\ quit' = TRUE
  /\ UNCHANGED <<start, sig, pause, clear, focus, search, control, corr, log, source,
                 publication, main, keys>>

(* The join returns; reports and exports follow *)
Join ==
  /\ main = "join" /\ pc = "done"
  /\ main' = "exit"
  /\ UNCHANGED <<start, flags, control, corr, log, source, publication, keys>>

(* SIGTERM or SIGINT.  Their handler is installed by `record`. *)
Signal ==
  /\ Running /\ mode = "capture" /\ kind = "live" /\ ~sig
  /\ sig' = TRUE
  /\ UNCHANGED <<start, quit, pause, clear, focus, search, control, corr, log, source,
                 publication, main, keys>>

Clock ==
  /\ Running /\ ~due
  /\ due' = TRUE
  /\ UNCHANGED <<start, flags, control, corr, log, source, snap, last_pub, cur, main, keys>>

Worker ==
  \/ PollSignal \/ CheckQuit \/ CheckPause \/ TakeClear \/ ReadHint \/ StoreSnapshot
  \/ DeliverFrames \/ Drain
  \/ EnterStdin \/ StdinFrame \/ StdinEof \/ SourceEnds \/ ReadFocus \/ CompareAndPublish
  \/ FlushRecorder \/ ReplayRecord \/ ReplayEnds \/ JsonlIdle \/ WindUp

Next ==
  \/ Worker \/ Clock \/ Signal \/ PipeCloses
  \/ Key \/ LeaveUi \/ UiFails \/ JsonlHeadless \/ Join

(* The worker and the main thread are scheduled by the operating system    *)
(* and the clock advances; nothing makes the operator or a signal act.     *)
Fairness == WF_vars(Worker) /\ WF_vars(Clock) /\ WF_vars(Join) /\ WF_vars(JsonlHeadless)

Spec == Init /\ [][Next]_vars /\ Fairness

-----------------------------------------------------------------------------

(* No event the correlator made is lost on its way to the log, although    *)
(* clearing throws pending events away: none is pending when the clear     *)
(* flag is looked at.  ("Evlog writing is unaffected.")                    *)
EventsConserved == emitted = pending + buffered + durable

(* Once the worker is done the recording is complete and the snapshot that *)
(* reports and exports use shows everything counted.                       *)
CompleteAtExit ==
  (pc = "done" /\ mode # "jsonl")
    => durable = emitted /\ snap.full /\ snap.pkts = pkts

(* In a capture or a replay a snapshot never shows frames that were        *)
(* cleared away, except while the emptied state is on its way out.  A      *)
(* jsonl view is excepted: its clear blanks the snapshot only, and the     *)
(* next change of focus publishes everything imported again.               *)
NoStaleCounts ==
  mode # "jsonl" => snap.pkts <= pkts \/ (pc \in {"hint", "store"} /\ ret = "input")

Stopped == pc = "done" \/ ~Running

(* The worker waits for a frame on a pipe that is open and silent *)
Blocked == pc = "reading" /\ left = 0 /\ piped

Requested == quit \/ (sig /\ mode = "capture")

(* A request to stop, by the operator or by a signal, ends the worker,     *)
(* paused or not and whether or not frames arrive, unless a silent pipe    *)
(* holds it.                                                               *)
StopEndsWorker == Requested ~> (Stopped \/ Blocked)

(* While the worker runs unpaused, a request to clear is taken, and the    *)
(* operator's focus and query become the ones the worker last compared,    *)
(* unless a silent pipe holds the worker.                                  *)
RequestsNoticed ==
  []<>(\/ Stopped \/ pause \/ Blocked
       \/ /\ ~clear
          /\ tui => last_pub.focus = focus
          /\ (tui /\ mode # "jsonl") => last_pub.search = search)
=============================================================================

------------------------------- MODULE Evlog --------------------------------
(***************************************************************************)
(* The event log (src/src/store/evlog.rs): a writer that frames events     *)
(* into a buffered, append-only file, and the reader that replay, query,   *)
(* stats and export use.  The file is a sequence of bytes; a body is a     *)
(* short sequence of bytes (EvlogCodec says what it holds).  The process   *)
(* may be killed at any point, the disk may refuse a write, and the log    *)
(* may be opened again, which appends.  The reader runs on what is left.   *)
(***************************************************************************)
EXTENDS Varint, FiniteSets, SequencesExt

CONSTANTS Magic, HeaderRest,  \* the file header
          Events,             \* what may be written: records [ts, ty, body]
          BufCap,             \* capacity of the BufWriter
          MaxRecordLen,       \* MAX_RECORD_LEN
          MaxEvents,          \* bound: events handed to the writer
          MaxSessions,        \* bound: times the log is opened
          MaxFaults           \* bound: refused writes

ASSUME EvlogAssumption ==
  /\ Magic \in Seq(Nat) /\ HeaderRest \in Seq(Nat)
  /\ \A e \in Events : e.ts \in Nat /\ e.ty \in Nat /\ e.body \in Seq(Nat)
  /\ BufCap \in Nat /\ MaxRecordLen \in Nat
  /\ MaxEvents \in Nat /\ MaxSessions \in Nat /\ MaxFaults \in Nat

VARIABLES
  disk,      \* the bytes of the file
  buffer,    \* bytes accepted by the BufWriter and not yet on disk
  open,      \* a writer exists
  last_ts,   \* EvlogWriter::last_ts
  accepted,  \* history: the events write() returned Ok for, in order
  ends,      \* history: file length at which accepted[i] is complete
  framed,    \* history: the accepted events that precede the first break of
             \* the framing, a torn record or the header of a second
             \* recording; MaxEvents + 1 while unbroken
  sessions, faults,
  pos,       \* reader: the next byte, 0 before the file is opened
  read_ts,   \* EvlogReader::last_ts
  records,   \* reader: what next_raw returned, in order
  verdict    \* reader: "reading", "eof" or "bad"

file == <<disk, buffer>>
writer == <<open, last_ts, accepted, ends, framed, sessions, faults>>
reader == <<pos, read_ts, records, verdict>>
vars == <<file, writer, reader>>

Init ==
  /\ disk = <<>> /\ buffer = <<>> /\ open = FALSE /\ last_ts = 0
  /\ accepted = <<>> /\ ends = <<>> /\ framed = MaxEvents + 1 /\ sessions = 0 /\ faults = 0
  /\ pos = 0 /\ read_ts = 0 /\ records = <<>> /\ verdict = "reading"

-----------------------------------------------------------------------------
SaturatingSub(a, b) == IF a > b THEN a - b ELSE 0

(* Mutant: the length written is that of the body and its type *)
RecordLong(e, last) ==
  WriteVarint(SaturatingSub(e.ts, last)) \o <<e.ty>>
    \o WriteVarint(Len(e.body) + 1) \o e.body

(* write: delta, type, length and body *)
Record(e, last) ==
  WriteVarint(SaturatingSub(e.ts, last)) \o <<e.ty>>
    \o WriteVarint(Len(e.body)) \o e.body

(* The accepted events that are wholly in the file *)
Durable == Cardinality({i \in DOMAIN ends : ends[i] <= Len(disk)})

Lesser(a, b) == IF a < b THEN a ELSE b

(* create: open for append and write the header through to the file; the   *)
(* process may be killed with only a part of it out.  In a file that is    *)
(* not empty the reader takes the header for a record, so the framing ends *)
(* with what the file held before.                                         *)
Create ==
  /\ ~open /\ pos = 0 /\ sessions < MaxSessions
  /\ sessions' = sessions + 1
  /\ last_ts' = 0
  /\ framed' = IF disk = <<>> THEN framed ELSE Lesser(framed, Durable)
  /\ \E n \in 0 .. Len(Magic \o HeaderRest) :
       /\ disk' = disk \o SubSeq(Magic \o HeaderRest, 1, n)
       /\ open' = (n = Len(Magic \o HeaderRest))
  /\ UNCHANGED <<buffer, accepted, ends, faults, reader>>

(* write, as the BufWriter takes it: what does not fit behind the buffered *)
(* bytes pushes them out first, and a record of the buffer's size or more  *)
(* goes straight to the file.                                              *)
Overflows(rec) == Len(buffer) + Len(rec) > BufCap
Direct(rec) == Len(rec) >= BufCap

Accept(e, rec) ==
  /\ last_ts' = e.ts
  /\ accepted' = Append(accepted, e)
  /\ ends' = Append(ends, Len(disk) + Len(buffer) + Len(rec))

Write(e) ==
  LET rec == Record(e, last_ts)
      out == IF Overflows(rec) THEN buffer ELSE <<>>
  IN /\ open /\ Len(accepted) < MaxEvents
     /\ Accept(e, rec)
     /\ disk' = disk \o out \o (IF Direct(rec) THEN rec ELSE <<>>)
     /\ buffer' = (IF Overflows(rec) THEN <<>> ELSE buffer)
                    \o (IF Direct(rec) THEN <<>> ELSE rec)
     /\ UNCHANGED <<open, framed, sessions, faults, reader>>

(* Mutant: the timestamp is remembered although the write failed *)
RefuseWriteRemember(e) ==
  LET rec == Record(e, last_ts)
  IN /\ open /\ faults < MaxFaults /\ Len(accepted) < MaxEvents
     /\ Overflows(rec) /\ buffer # <<>>
     /\ \E n \in 0 .. Len(buffer) - 1 :
          /\ disk' = disk \o SubSeq(buffer, 1, n)
          /\ buffer' = SubSeq(buffer, n + 1, Len(buffer))
     /\ faults' = faults + 1
     /\ last_ts' = e.ts
     /\ UNCHANGED <<open, accepted, ends, framed, sessions, reader>>

(* write while the disk refuses: the BufWriter keeps the bytes it could    *)
(* not push out and never takes the record; the caller ignores the error.  *)
RefuseWrite(e) ==
  LET rec == Record(e, last_ts)
  IN /\ open /\ faults < MaxFaults /\ Len(accepted) < MaxEvents
     /\ Overflows(rec) /\ buffer # <<>>
     /\ \E n \in 0 .. Len(buffer) - 1 :
          /\ disk' = disk \o SubSeq(buffer, 1, n)
          /\ buffer' = SubSeq(buffer, n + 1, Len(buffer))
     /\ faults' = faults + 1
     /\ UNCHANGED <<open, last_ts, accepted, ends, framed, sessions, reader>>

(* The same for a record that bypasses the buffer: a part of it may be in  *)
(* the file, and what is written next follows that part.                   *)
TearWrite(e) ==
  LET rec == Record(e, last_ts)
  IN /\ open /\ faults < MaxFaults /\ Len(accepted) < MaxEvents
     /\ Direct(rec)
     /\ \E n \in 0 .. Len(rec) - 1 :
          /\ disk' = disk \o buffer \o SubSeq(rec, 1, n)
          /\ framed' = IF n = 0 THEN framed ELSE Lesser(framed, Len(accepted))
     /\ buffer' = <<>>
     /\ faults' = faults + 1
     /\ UNCHANGED <<open, last_ts, accepted, ends, sessions, reader>>

(* flush *)
Flush ==
  /\ open /\ buffer # <<>>
  /\ disk' = disk \o buffer /\ buffer' = <<>>
  /\ UNCHANGED <<writer, reader>>

(* The final flush_recorder, then the writer is dropped *)
Close ==
  /\ open
  /\ disk' = disk \o buffer /\ buffer' = <<>>
  /\ open' = FALSE
  /\ UNCHANGED <<last_ts, accepted, ends, framed, sessions, faults, reader>>

(* The process is killed: a prefix of the buffered bytes may be on disk *)
Kill ==
  /\ open
  /\ \E n \in 0 .. Len(buffer) : disk' = disk \o SubSeq(buffer, 1, n)
  /\ buffer' = <<>> /\ open' = FALSE
  /\ UNCHANGED <<last_ts, accepted, ends, framed, sessions, faults, reader>>

-----------------------------------------------------------------------------
(* EvlogReader::new: the header is stripped when the file starts with the  *)
(* magic (a header cut short is consumed as far as it goes); anything else *)
(* is read as records from the first byte.                                 *)
OpenReader ==
  /\ ~open /\ pos = 0 /\ sessions > 0
  /\ pos' = IF IsPrefix(Magic, disk)
              THEN 1 + (IF Len(disk) < Len(Magic \o HeaderRest)
                          THEN Len(disk) ELSE Len(Magic \o HeaderRest))
              ELSE 1
  /\ UNCHANGED <<file, writer, read_ts, records, verdict>>

Stop(v) == verdict' = v /\ UNCHANGED <<pos, records>>

(* Mutant: a body that ends with the file is taken for a torn one *)
BodyFitsInside(p, len) == p + len <= Len(disk)

BodyFits(p, len) == p + len - 1 <= Len(disk)

(* next_raw: the timestamp advances as soon as the delta is read, the rest *)
(* may still run out.                                                      *)
NextRaw ==
  /\ pos > 0 /\ verdict = "reading"
  /\ LET delta == ReadVarint(disk, pos)
         typed == delta.status = "ok" /\ delta.next <= Len(disk)
         len == ReadVarint(disk, delta.next + 1)
     IN /\ read_ts' = IF delta.status = "ok" THEN read_ts + delta.value ELSE read_ts
        /\ \/ delta.status # "ok" /\ Stop(delta.status)
           \/ delta.status = "ok" /\ ~typed /\ Stop("eof")
           \/ typed /\ len.status # "ok" /\ Stop(len.status)
           \/ typed /\ len.status = "ok" /\ len.value > MaxRecordLen /\ Stop("bad")
           \/ /\ typed /\ len.status = "ok" /\ len.value <= MaxRecordLen
              /\ ~BodyFits(len.next, len.value) /\ Stop("eof")
           \/ /\ typed /\ len.status = "ok" /\ len.value <= MaxRecordLen
              /\ BodyFits(len.next, len.value)
              /\ records' = Append(records,
                   [ts |-> read_ts + delta.value, ty |-> disk[delta.next],
                    body |-> SubSeq(disk, len.next, len.next + len.value - 1)])
              /\ pos' = len.next + len.value
              /\ UNCHANGED verdict
  /\ UNCHANGED <<file, writer>>

Next ==
  \/ Create \/ Flush \/ Close \/ Kill
  \/ \E e \in Events : Write(e) \/ RefuseWrite(e) \/ TearWrite(e)
  \/ OpenReader \/ NextRaw

Spec == Init /\ [][Next]_vars

-----------------------------------------------------------------------------
Unbroken == framed = MaxEvents + 1
Finished == verdict # "reading"

(* What next_raw returns is what write() accepted, in order and with no    *)
(* event made up, whatever kills and refused writes the file went through  *)
(* and whatever was appended to it, up to the first break of its framing:  *)
(* a record the disk tore, or the header of a second recording.            *)
ReadsBackInOrder ==
  \A i \in 1 .. Lesser(Len(records), framed) :
    /\ i <= Len(accepted)
    /\ records[i].ty = accepted[i].ty /\ records[i].body = accepted[i].body

(* The events whose bytes all reached the file before its framing broke    *)
(* are read back: a record cut short by a kill is end of file and takes    *)
(* none before it along, and neither does the header of a second recording *)
(* with whatever follows it.  Nothing is said of the events the second     *)
(* recording appends: its header is read as a record whose body is made of *)
(* them.  A file without a break is read to its end, and in full.          *)
DurableIsRead ==
  Finished => /\ Len(records) >= Lesser(framed, Durable)
              /\ Unbroken => verdict = "eof" /\ Len(records) = Durable

(* The clock of a replay is never behind the recorded one, and shows the   *)
(* recorded times exactly up to the first event that was older than its    *)
(* predecessor (write saturates the delta but remembers the older time).   *)
ReplayClock ==
  \A i \in 1 .. Lesser(Len(records), framed) :
    /\ records[i].ts >= accepted[i].ts
    /\ (\A j \in 1 .. i - 1 : accepted[j].ts <= accepted[j + 1].ts)
         => records[i].ts = accepted[i].ts
=============================================================================

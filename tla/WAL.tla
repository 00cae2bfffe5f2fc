-------------------------------- MODULE WAL --------------------------------
(***************************************************************************)
(* The write-ahead log (internal/pipeline/checkpoint.go): append, snapshot *)
(* and truncate, crash and recovery.                                       *)
(*                                                                         *)
(* Each file has two contents: what a read returns now (log, snap) and     *)
(* what stable storage is known to hold (dlog, dsnap).  A write changes    *)
(* the first, an fsync copies it to the second, and a crash leaves either  *)
(* one, or part of an unsynced append, behind.  Every system call is a     *)
(* step, so a crash can fall between any two.                              *)
(*                                                                         *)
(* A frame that does not decode (a short read or a CRC mismatch) is Torn.  *)
(* The bytes after a torn frame are never decoded: recovery stops there.   *)
(***************************************************************************)
EXTENDS Integers, Sequences, FiniteSetsExt, SequencesExt

CONSTANTS
  Payload,
  Torn, None,
  IOFaults,      \* whether a write, an fsync or a truncate may fail
  MaxSeq         \* bound on the sequence numbers a process hands out

ASSUME IOFaultsAssumption == IOFaults \in BOOLEAN
ASSUME MaxSeqAssumption == MaxSeq \in Nat

VARIABLES
  status,        \* "open", "closed" (Close was called) or "down"
  seq,           \* w.seq
  log, dlog,     \* wal.log: frames
  snap, dsnap,   \* wal.snap: a frame, or None if there is no such file
  op             \* the call that holds w.mu and where it is, or None

walVars == <<status, seq, log, dlog, snap, dsnap, op>>

Frame == [seq : Nat, payload : Payload]
Op == [pc : {"append", "rename", "syncDir", "truncate", "syncLog"},
       payload : Payload, hw : Nat]

-----------------------------------------------------------------------------
(* Recovery, as operators on the contents of the two files.                *)

\* The frames recoverLog reads before the torn tail it cuts off.
Intact(l) ==
  LET bad == {k \in DOMAIN l : l[k] = Torn}
  IN  IF bad = {} THEN l ELSE SubSeq(l, 1, Min(bad) - 1)

SnapSeq(s) == IF s = None THEN 0 ELSE s.seq
SnapPayload(s) == IF s = None THEN None ELSE s.payload

\* Fault: the record the snapshot was taken at is replayed on top of it.
NewerInclusive(f, s) == f.seq >= SnapSeq(s)

Newer(f, s) == f.seq > SnapSeq(s)

Records(l, s) ==
  LET frames == SelectSeq(Intact(l), LAMBDA f : Newer(f, s))
  IN  [k \in DOMAIN frames |-> frames[k].payload]

\* Fault: the sequence resumes from the log alone.
ResumeFromLog(l, s) == Max({0} \cup {Intact(l)[k].seq : k \in DOMAIN Intact(l)})

ResumeSeq(l, s) ==
  Max({SnapSeq(s)} \cup {Intact(l)[k].seq : k \in DOMAIN Intact(l)})

-----------------------------------------------------------------------------
Free == status # "down" /\ op = None

\* Append up to the fsync.
AppendWrite(p) ==
  /\ Free /\ status = "open" /\ seq < MaxSeq
  /\ seq' = seq + 1
  /\ log' = Append(log, [seq |-> seq + 1, payload |-> p])
  /\ op' = [pc |-> "append", payload |-> p, hw |-> seq + 1]
  /\ UNCHANGED <<status, dlog, snap, dsnap>>

\* The write fails: nothing or part of the frame is in the file.
AppendWriteFails(p) ==
  /\ Free /\ seq < MaxSeq
  /\ \/ IOFaults /\ log' \in {log, Append(log, Torn)}
     \/ status = "closed" /\ UNCHANGED log
  /\ seq' = seq + 1
  /\ UNCHANGED <<status, dlog, snap, dsnap, op>>

AppendSync ==
  /\ op # None /\ op.pc = "append"
  /\ dlog' = log
  /\ op' = None
  /\ UNCHANGED <<status, seq, log, snap, dsnap>>

\* The fsync fails: the frame may or may not be whole on the medium.
AppendSyncFails ==
  /\ IOFaults
  /\ op # None /\ op.pc = "append"
  /\ log' \in {log, [log EXCEPT ![Len(log)] = Torn]}
  /\ op' = None
  /\ UNCHANGED <<status, seq, dlog, snap, dsnap>>

\* Checkpoint: write and fsync the temporary file, rename it over the
\* snapshot, fsync the directory, truncate the log, fsync the log.
CheckpointTemp(p) ==
  /\ Free
  /\ op' = [pc |-> "rename", payload |-> p, hw |-> seq]
  /\ UNCHANGED <<status, seq, log, dlog, snap, dsnap>>

CheckpointRename ==
  /\ op # None /\ op.pc = "rename"
  /\ snap' = [seq |-> op.hw, payload |-> op.payload]
  /\ op' = [op EXCEPT !.pc = "syncDir"]
  /\ UNCHANGED <<status, seq, log, dlog, dsnap>>


CheckpointSyncDir ==
  /\ op # None /\ op.pc = "syncDir"
  /\ dsnap' = snap
  /\ op' = [op EXCEPT !.pc = "truncate"]
  /\ UNCHANGED <<status, seq, log, dlog, snap>>

CheckpointTruncate ==
  /\ op # None /\ op.pc = "truncate" /\ status = "open"
  /\ log' = << >>
  /\ op' = [op EXCEPT !.pc = "syncLog"]
  /\ UNCHANGED <<status, seq, dlog, snap, dsnap>>

CheckpointSyncLog ==
  /\ op # None /\ op.pc = "syncLog"
  /\ dlog' = log
  /\ op' = None
  /\ UNCHANGED <<status, seq, log, snap, dsnap>>

\* Any of the calls may fail; Truncate always does on a closed log.
CheckpointFails ==
  /\ op # None /\ op.pc # "append"
  /\ IOFaults \/ (status = "closed" /\ op.pc = "truncate")
  /\ op' = None
  /\ UNCHANGED <<status, seq, log, dlog, snap, dsnap>>

Close ==
  /\ Free /\ status = "open"
  /\ status' = "closed"
  /\ UNCHANGED <<seq, log, dlog, snap, dsnap, op>>

-----------------------------------------------------------------------------
(* The environment: the process or the machine stops.                      *)

\* The first n frames of the file are the ones stable storage has.
Agree(n) == SubSeq(log, 1, n) = SubSeq(dlog, 1, n)

\* What wal.log may hold after a crash: its stable content, or the current
\* one with some of what is not yet stable missing, the cut falling anywhere.
Survivors ==
  LET cuts == {n \in 0..Len(log) :
                 \A m \in (n + 1)..Len(log) : m > Len(dlog) \/ ~Agree(m)}
  IN  {dlog} \cup {SubSeq(log, 1, n) : n \in cuts}
             \cup {Append(SubSeq(log, 1, n), Torn) : n \in cuts \ {Len(log)}}

Crash ==
  /\ status # "down"
  /\ \E l \in Survivors : log' = l /\ dlog' = l
  /\ \E s \in {snap, dsnap} : snap' = s /\ dsnap' = s
  /\ status' = "down"
  /\ op' = None
  /\ UNCHANGED seq

\* OpenWAL: the torn tail is truncated, without an fsync.
OpenWAL ==
  /\ status = "down"
  /\ log' = Intact(log)
  /\ seq' = ResumeSeq(log, snap)
  /\ status' = "open"
  /\ UNCHANGED <<dlog, snap, dsnap, op>>

WALInit ==
  /\ status = "open"
  /\ seq = 0
  /\ log = << >> /\ dlog = << >>
  /\ snap = None /\ dsnap = None
  /\ op = None

-----------------------------------------------------------------------------
WALTypeOK ==
  /\ status \in {"open", "closed", "down"}
  /\ seq \in 0..MaxSeq
  /\ log \in Seq(Frame \cup {Torn}) /\ dlog \in Seq(Frame \cup {Torn})
  /\ snap \in Frame \cup {None} /\ dsnap \in Frame \cup {None}
  /\ op \in Op \cup {None}

\* What stable storage would recover to.
Abstract == INSTANCE DurableLog
  WITH base <- SnapPayload(dsnap), recs <- Records(dlog, dsnap)

\* The log with its crashes, torn tails and half-done checkpoints implements
\* the durable log: no step loses, reorders, duplicates or replays a record.
ImplementsDurableLog == Abstract!Spec
=============================================================================

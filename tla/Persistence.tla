---------------------------- MODULE Persistence ----------------------------
(***************************************************************************)
(* The coordinator's durability: persistLocked appends the scheduler's     *)
(* whole state after every mutation, checkpoint() takes a snapshot of it   *)
(* and hands it to WAL.Checkpoint, EnablePersistence restores it.          *)
(*                                                                         *)
(* A scheduler state is its version: the number of the mutation that made  *)
(* it.  A mutation holds the scheduler's mutex until its append returns.   *)
(* Snapshot takes that mutex and releases it, and only then does           *)
(* Checkpoint take the log's: the two callers of checkpoint(), the         *)
(* periodic loop and Stop, may interleave with mutations in between.       *)
(***************************************************************************)
EXTENDS WAL

CONSTANTS
  MaxVersion,    \* bound on mutations
  Overlap        \* whether mutations run between Snapshot and Checkpoint

ASSUME MaxVersionAssumption == MaxVersion \in Nat
ASSUME OverlapAssumption == Overlap \in BOOLEAN
ASSUME PayloadAssumption == Payload = 0..MaxVersion

VARIABLES
  live,          \* the version in memory
  clock,         \* the highest version ever made
  held,          \* a mutation holds the scheduler's mutex
  image,         \* image[k]: what checkpointer k read, or None
  running,       \* the checkpointer inside WAL.Checkpoint, or None
  closing,       \* Stop's checkpoint has returned
  acked,         \* history: the last version whose Append returned nil
  saved          \* history: the last version whose Checkpoint returned nil

vars == <<walVars, live, clock, held, image, running, closing, acked, saved>>

Checkpointer == {"loop", "stop"}

-----------------------------------------------------------------------------
Quiet == Overlap \/ \A k \in Checkpointer : image[k] = None

\* A handler changes the state and goes on to persistLocked.
Mutate ==
  /\ status # "down" /\ ~held /\ clock < MaxVersion
  /\ Quiet
  /\ clock' = clock + 1 /\ live' = clock + 1
  /\ held' = TRUE
  /\ UNCHANGED <<walVars, image, running, closing, acked, saved>>

PersistWrite ==
  /\ held
  /\ AppendWrite(live)
  /\ UNCHANGED <<live, clock, held, image, running, closing, acked, saved>>

PersistDone ==
  /\ AppendSync
  /\ held' = FALSE /\ acked' = live
  /\ UNCHANGED <<live, clock, image, running, closing, saved>>

\* An append that failed is logged and the handler goes on.
PersistFails ==
  /\ held
  /\ AppendWriteFails(live) \/ AppendSyncFails
  /\ held' = FALSE
  /\ UNCHANGED <<live, clock, image, running, closing, acked, saved>>

\* checkpoint(): Snapshot under the scheduler's read lock.
TakeSnapshot(k) ==
  /\ status # "down" /\ ~held /\ image[k] = None
  /\ k = "stop" => ~closing
  /\ image' = [image EXCEPT ![k] = live]
  /\ UNCHANGED <<walVars, live, clock, held, running, closing, acked, saved>>

\* Then WAL.Checkpoint, until it returns.
BeginCheckpoint(k) ==
  /\ image[k] # None
  /\ CheckpointTemp(image[k])
  /\ running' = k
  /\ UNCHANGED <<live, clock, held, image, closing, acked, saved>>

ContinueCheckpoint ==
  /\ CheckpointRename \/ CheckpointSyncDir \/ CheckpointTruncate
  /\ UNCHANGED <<live, clock, held, image, running, closing, acked, saved>>

EndCheckpoint ==
  /\ \/ CheckpointSyncLog /\ saved' = image[running]
     \/ CheckpointFails /\ UNCHANGED saved
  /\ image' = [image EXCEPT ![running] = None]
  /\ closing' = (closing \/ running = "stop")
  /\ running' = None
  /\ UNCHANGED <<live, clock, held, acked>>

\* Stop closes the log after its own checkpoint; handlers may still run.
Stop ==
  /\ closing
  /\ Close
  /\ UNCHANGED <<live, clock, held, image, running, closing, acked, saved>>

CrashProcess ==
  /\ Crash
  /\ held' = FALSE
  /\ image' = [k \in Checkpointer |-> None]
  /\ running' = None
  /\ closing' = FALSE
  /\ UNCHANGED <<live, clock, acked, saved>>

\* Fault: an empty recovery is decoded all the same.
RestoredUnchecked(base, records) == IF records # << >> THEN Last(records) ELSE base

\* Restore: the last record, else the snapshot, else an empty scheduler.
Restored(base, records) ==
  IF records # << >> THEN Last(records) ELSE IF base # None THEN base ELSE 0

EnablePersistence ==
  /\ OpenWAL
  /\ live' = Restored(SnapPayload(snap), Records(log, snap))
  /\ UNCHANGED <<clock, held, image, running, closing, acked, saved>>

Init ==
  /\ WALInit
  /\ live = 0 /\ clock = 0
  /\ held = FALSE
  /\ image = [k \in Checkpointer |-> None]
  /\ running = None
  /\ closing = FALSE
  /\ acked = 0 /\ saved = 0

Next ==
  \/ Mutate
  \/ PersistWrite
  \/ PersistDone
  \/ PersistFails
  \/ \E k \in Checkpointer : TakeSnapshot(k)
  \/ \E k \in Checkpointer : BeginCheckpoint(k)
  \/ ContinueCheckpoint
  \/ EndCheckpoint
  \/ Stop
  \/ CrashProcess
  \/ EnablePersistence

Spec == Init /\ [][Next]_vars

-----------------------------------------------------------------------------
(* Properties.                                                             *)

\* Files, versions and checkpointers keep their types.
TypeOK ==
  /\ WALTypeOK
  /\ clock \in 0..MaxVersion /\ live \in 0..clock
  /\ held \in BOOLEAN
  /\ image \in [Checkpointer -> 0..clock \cup {None}]
  /\ running \in Checkpointer \cup {None}
  /\ closing \in BOOLEAN
  /\ acked \in 0..clock /\ saved \in 0..clock

\* "a successful Append survives a crash" (checkpoint.go:88-90): whatever
\* checkpoints and crashes happened, the running scheduler is at least as
\* new as the last mutation whose append succeeded.
AckedSurvives == status # "down" => live >= acked


\* What the files recover to is in order: the snapshot is older than every
\* record replayed on it and each record is older than the next, so nothing
\* is applied twice or backwards (sequence numbers in Checkpoint, recoverLog).
ReplayOrdered ==
  LET base == SnapPayload(snap)
      records == Records(log, snap)
  IN  /\ \A k \in 2..Len(records) : records[k - 1] < records[k]
      /\ base # None => \A k \in DOMAIN records : base < records[k]
=============================================================================

----------------------------- MODULE Multipart -----------------------------
(***************************************************************************)
(* Client.MultipartUpload (internal/storage/multipart.go): the caller      *)
(* reads the input part by part into a bounded channel, Concurrency        *)
(* goroutines upload the parts and send the outcomes to two more bounded   *)
(* channels, and the caller completes or aborts the upload.                *)
(*                                                                         *)
(* A goroutine that has nothing to do and one that has uploaded a part and *)
(* waits for room in resultCh are told apart: the second holds its part.   *)
(***************************************************************************)
EXTENDS Integers, Sequences, FiniteSets

CONSTANTS
  Parts,         \* the number of parts the input splits into
  Uploader,      \* the goroutines; their number is the channels' capacity
  IOFaults,      \* whether a read, a part or the completion may fail
  None

ASSUME PartsAssumption == Parts \in Nat
ASSUME UploaderAssumption == IsFiniteSet(Uploader) /\ Uploader # {}
ASSUME IOFaultsAssumption == IOFaults \in BOOLEAN

VARIABLES
  pc,            \* where the caller is
  partNum,       \* the next part to read
  workCh,        \* parts read, not yet taken
  up,            \* up[u]: [pc, part] of a goroutine
  resultCh,      \* parts uploaded, not yet collected
  errCh,         \* the number of errors sent
  parts,         \* the parts collected
  stored,        \* S3: the parts the store holds
  upload         \* S3: "open", "completed" or "aborted"

vars == <<pc, partNum, workCh, up, resultCh, errCh, parts, stored, upload>>

concurrency == Cardinality(Uploader)


workClosed == pc # "read"
resultClosed == \A u \in Uploader : up[u].pc = "exited"

-----------------------------------------------------------------------------
(* The goroutines.                                                         *)

Take(u) ==
  /\ up[u].pc = "idle" /\ workCh # << >>
  /\ up' = [up EXCEPT ![u] = [pc |-> "uploading", part |-> Head(workCh)]]
  /\ workCh' = Tail(workCh)
  /\ UNCHANGED <<pc, partNum, resultCh, errCh, parts, stored, upload>>

UploadPart(u) ==
  /\ up[u].pc = "uploading" /\ upload = "open"
  /\ up' = [up EXCEPT ![u].pc = "sending"]
  /\ stored' = stored \cup {up[u].part}
  /\ UNCHANGED <<pc, partNum, workCh, resultCh, errCh, parts, upload>>

\* A part of an aborted upload always fails.  The goroutine exits.
UploadPartFails(u) ==
  /\ up[u].pc = "uploading"
  /\ IOFaults \/ upload # "open"
  /\ up' = [up EXCEPT ![u].pc = "exited"]
  /\ errCh' = errCh + 1
  /\ UNCHANGED <<pc, partNum, workCh, resultCh, parts, stored, upload>>

SendResult(u) ==
  /\ up[u].pc = "sending" /\ Len(resultCh) < concurrency
  /\ resultCh' = Append(resultCh, up[u].part)
  /\ up' = [up EXCEPT ![u] = [pc |-> "idle", part |-> None]]
  /\ UNCHANGED <<pc, partNum, workCh, errCh, parts, stored, upload>>

Exit(u) ==
  /\ up[u].pc = "idle" /\ workCh = << >> /\ workClosed
  /\ up' = [up EXCEPT ![u].pc = "exited"]
  /\ UNCHANGED <<pc, partNum, workCh, resultCh, errCh, parts, stored, upload>>

-----------------------------------------------------------------------------
(* The caller.                                                             *)

\* Fault: the read that finds the end of the input queues an empty part.
ReadEmptyPart ==
  /\ pc = "read" /\ partNum <= Parts + 1
  /\ Len(workCh) < concurrency
  /\ workCh' = Append(workCh, partNum)
  /\ partNum' = partNum + 1
  /\ UNCHANGED <<pc, up, resultCh, errCh, parts, stored, upload>>

ReadPart ==
  /\ pc = "read" /\ partNum <= Parts
  /\ Len(workCh) < concurrency
  /\ workCh' = Append(workCh, partNum)
  /\ partNum' = partNum + 1
  /\ UNCHANGED <<pc, up, resultCh, errCh, parts, stored, upload>>

ReadFails ==
  /\ IOFaults /\ pc = "read"
  /\ pc' = "failed" /\ upload' = "aborted"
  /\ UNCHANGED <<partNum, workCh, up, resultCh, errCh, parts, stored>>

EndOfInput ==
  /\ pc = "read" /\ partNum > Parts
  /\ pc' = "select"
  /\ UNCHANGED <<partNum, workCh, up, resultCh, errCh, parts, stored, upload>>

\* The error channel is looked at once, without waiting.
SelectError ==
  /\ pc = "select"
  /\ IF errCh > 0
     THEN pc' = "failed" /\ upload' = "aborted" /\ errCh' = errCh - 1
     ELSE pc' = "collect" /\ UNCHANGED <<upload, errCh>>
  /\ UNCHANGED <<partNum, workCh, up, resultCh, parts, stored>>

CollectPart ==
  /\ pc = "collect" /\ resultCh # << >>
  /\ parts' = parts \cup {Head(resultCh)}
  /\ resultCh' = Tail(resultCh)
  /\ UNCHANGED <<pc, partNum, workCh, up, errCh, stored, upload>>

\* Fault: the collection ends when the channel is empty.
CollectedEarly == pc = "collect" /\ resultCh = << >>

Collected == pc = "collect" /\ resultCh = << >> /\ resultClosed

Complete ==
  /\ Collected
  /\ \/ pc' = "returned" /\ upload' = "completed"
     \/ IOFaults /\ pc' = "failed" /\ upload' = "aborted"
  /\ UNCHANGED <<partNum, workCh, up, resultCh, errCh, parts, stored>>

-----------------------------------------------------------------------------
Init ==
  /\ pc = "read" /\ partNum = 1
  /\ workCh = << >> /\ resultCh = << >> /\ errCh = 0
  /\ up = [u \in Uploader |-> [pc |-> "idle", part |-> None]]
  /\ parts = {} /\ stored = {}
  /\ upload = "open"

Caller == ReadPart \/ EndOfInput \/ SelectError \/ CollectPart \/ Complete
Uploads(u) == Take(u) \/ UploadPart(u) \/ UploadPartFails(u) \/ SendResult(u) \/ Exit(u)

Next ==
  \/ Caller
  \/ ReadFails
  \/ \E u \in Uploader : Uploads(u)

Spec == Init /\ [][Next]_vars

\* Every goroutine that can run does; requests to the store return.
FairSpec == Spec /\ WF_vars(Caller) /\ \A u \in Uploader : WF_vars(Uploads(u))

-----------------------------------------------------------------------------
(* Properties.                                                             *)

\* Channels stay within their capacity; part numbers are those of the input.
TypeOK ==
  /\ pc \in {"read", "select", "collect", "returned", "failed"}
  /\ partNum \in 1..(Parts + 1)
  /\ workCh \in Seq(1..Parts) /\ Len(workCh) <= concurrency
  /\ resultCh \in Seq(1..Parts) /\ Len(resultCh) <= concurrency
  /\ errCh \in 0..concurrency
  /\ up \in [Uploader -> [pc : {"idle", "uploading", "sending", "exited"},
                          part : 1..Parts \cup {None}]]
  /\ parts \in SUBSET (1..Parts) /\ stored \in SUBSET (1..Parts)
  /\ upload \in {"open", "completed", "aborted"}

\* A completed upload lists every part the store holds: none of them is still
\* in a channel or with a goroutine (the wg.Wait closing resultCh).
NoPartLeftBehind == upload = "completed" => parts = stored


\* multipart.go:16 "Always aborts on failure": an upload one of whose parts
\* failed is not completed.
AbortsOnFailure == upload = "completed" => errCh = 0
=============================================================================

------------------------------ MODULE Scheduler ------------------------------
(***************************************************************************)
(* The coordinator's task scheduler (internal/scheduler): jobs, tasks, the *)
(* dispatch queue, work stealing by bounded leases, the four phases of a   *)
(* result report, dead-worker rebalancing and the durable state image.     *)
(*                                                                         *)
(* Every handler runs under one mutex, so it is one action.  ReportResult  *)
(* releases the mutex between its phases and is therefore three: begin     *)
(* (phase 1), abort (a failed phase 2, 3 or 3.5) and finish (phase 4).     *)
(* The clients here are unconstrained: any caller may start, renew or      *)
(* report any known task in any order.  WorkStealing.tla adds the workers. *)
(***************************************************************************)
EXTENDS Integers, Sequences, FiniteSets, SequencesExt

CONSTANTS
  JobID, TaskID,      \* identifiers the scheduler may draw (uuid.New)
  Shard, Worker,
  Call,               \* concurrent ReportResult handlers
  Priority,           \* job priorities
  ShardSize,          \* ShardSize[s]: items in the listing of shard s
  LeaseChunk,         \* items granted per lease renewal (leaseChunk)
  MaxRetries,
  None                \* an absent map entry, and the empty worker id ""

ASSUME IdAssumption == IsFiniteSet(TaskID)     \* 128-bit uuids
ASSUME SizeAssumption == ShardSize \in [Shard -> Nat]
ASSUME ChunkAssumption == LeaseChunk \in Nat \ {0}
ASSUME RetryAssumption == MaxRetries \in Nat
ASSUME PriorityAssumption == Priority \subseteq Int /\ 0 \in Priority

VARIABLES
  jobs,      \* JobID  -> job record or None
  tasks,     \* TaskID -> task record or None
  pendingQ,  \* task ids in dispatch order
  calls,     \* Call   -> a ReportResult between its locked phases, or None
  durable,   \* the last state image appended to the store
  fired      \* history: how often this process ran onJobDone for a job

vars == <<jobs, tasks, pendingQ, calls, durable, fired>>

minStealItems == 2
FiredCap == 2          \* fired counts up to this bound

TaskStatus == {"pending", "assigned", "running", "done", "failed"}
JobStatus == {"running", "completed", "failed"}

\* end = -1 is a whole-shard task whose size no worker has reported yet.
Task == [job : JobID, shard : Shard, status : TaskStatus,
         worker : Worker \cup {None}, priority : Priority,
         retries : 0..MaxRetries, start : Nat, end : Nat \cup {-1},
         frontier : Nat, granted : Nat, gen : Nat, split : BOOLEAN]

Job == [status : JobStatus, priority : Priority, shards : SUBSET Shard,
        total : Nat, done : Nat, failed : Nat]

\* What phase 1 of ReportResult reads and the later phases use.
Report == [task : TaskID, worker : Worker, err : BOOLEAN,
           start : Nat, end : Nat \cup {-1}, split : BOOLEAN, gen : Nat]

ASSUME NoneAssumption == None \notin Task /\ None \notin Job /\ None \notin Report

-----------------------------------------------------------------------------
Known(t) == tasks[t] # None
\* Fault: the status is not checked.
InFlightUnchecked(t) == Known(t)

InFlight(t) == Known(t) /\ tasks[t].status \in {"assigned", "running"}
IsPending(t) == Known(t) /\ tasks[t].status = "pending"

\* persistLocked: append the full state, as the handler leaves it.
Persist == durable' = [jobs |-> jobs', tasks |-> tasks', pendingQ |-> pendingQ']

-----------------------------------------------------------------------------
(* Leases: pure operators on a task record.                                *)

ResetLease(t) == [t EXCEPT !.frontier = t.start, !.granted = t.start]

\* Fault: the grant is not capped at the end of the range.
GrantUncapped(t) ==
  [t EXCEPT !.granted = IF @ < t.frontier + LeaseChunk THEN t.frontier + LeaseChunk
                        ELSE @]

GrantLease(t) ==
  LET g == t.frontier + LeaseChunk
      capped == IF t.end >= 0 /\ g > t.end THEN t.end ELSE g
  IN  [t EXCEPT !.granted = IF capped > t.granted THEN capped ELSE t.granted]

Assign(t, w) == GrantLease([t EXCEPT !.status = "assigned", !.worker = w])

\* RenewLease up to the grant: fix the size, then advance and clamp.
Advance(t, frontier, total) ==
  LET end == IF t.end < 0 /\ total > 0 THEN total ELSE t.end
      f == IF frontier > t.frontier THEN frontier ELSE t.frontier
  IN  [t EXCEPT !.end = end, !.frontier = IF end >= 0 /\ f > end THEN end ELSE f]

Renewed(t, frontier, total) == GrantLease(Advance(t, frontier, total))

\* Fault: one retry too many.
CanRetryOnceMore(t) == t.retries <= MaxRetries

\* The task goes back to the queue if it has retries left, else it fails.
CanRetry(t) == t.retries < MaxRetries

Requeued(t) ==
  ResetLease([t EXCEPT !.retries = @ + 1, !.status = "pending", !.worker = None])

-----------------------------------------------------------------------------
(* Job accounting.                                                         *)

TasksOf(ts, j, S) ==
  {t \in TaskID : ts[t] # None /\ ts[t].job = j /\ ts[t].status \in S}

\* Fault: an assigned task that has not started is not counted as open.
AllSettledOrAssigned(ts, j) == TasksOf(ts, j, {"pending", "running"}) = {}

AllSettled(ts, j) == TasksOf(ts, j, {"pending", "assigned", "running"}) = {}

SettledJob(job, ts, j) ==
  [job EXCEPT !.done = Cardinality(TasksOf(ts, j, {"done"})),
              !.failed = Cardinality(TasksOf(ts, j, {"failed"})),
              !.status = IF ~AllSettled(ts, j) THEN @
                         ELSE IF TasksOf(ts, j, {"failed"}) # {} THEN "failed"
                         ELSE "completed"]

\* updateJob on each job of J, the hook included.
UpdateJobs(J) ==
  /\ jobs' = [j \in JobID |-> IF j \in J THEN SettledJob(jobs[j], tasks', j)
                                         ELSE jobs[j]]
  /\ fired' = [j \in JobID |->
                 IF j \in J /\ AllSettled(tasks', j) /\ fired[j] < FiredCap
                 THEN fired[j] + 1 ELSE fired[j]]

-----------------------------------------------------------------------------
(* Handlers.                                                               *)

RootTask(j, s, p) ==
  [job |-> j, shard |-> s, status |-> "pending", worker |-> None,
   priority |-> p, retries |-> 0, start |-> 0, end |-> -1,
   frontier |-> 0, granted |-> 0, gen |-> 0, split |-> FALSE]

\* q: the fresh ids in request order; shardOf: the shard each one covers.
Submit(j, p, q, shardOf) ==
  /\ jobs[j] = None
  /\ \A t \in DOMAIN shardOf : ~Known(t)
  /\ jobs' = [jobs EXCEPT ![j] =
       [status |-> "running", priority |-> p,
        shards |-> {shardOf[t] : t \in DOMAIN shardOf},
        total |-> Len(q), done |-> 0, failed |-> 0]]
  /\ tasks' = [t \in TaskID |-> IF t \in DOMAIN shardOf
                                THEN RootTask(j, shardOf[t], p) ELSE tasks[t]]
  /\ pendingQ' = pendingQ \o q
  /\ Persist
  /\ UNCHANGED <<calls, fired>>

\* The queue positions PollTasks may choose from, and the one it chooses for
\* a worker that the ring makes the owner of the shards in local.
Candidates == {k \in DOMAIN pendingQ : IsPending(pendingQ[k])}

Picks(k, local) ==
  LET task(m) == tasks[pendingQ[m]]
      Local == {m \in Candidates : task(m).shard \in local}
  IN  IF Local # {}
      THEN k \in Local /\ \A m \in Local : k <= m
      ELSE /\ k \in Candidates
           /\ \A m \in Candidates :
                \/ task(m).priority < task(k).priority
                \/ task(m).priority = task(k).priority /\ k <= m

PollPending(w, local, k) ==
  /\ Picks(k, local)
  /\ tasks' = [tasks EXCEPT ![pendingQ[k]] = Assign(@, w)]
  /\ pendingQ' = RemoveAt(pendingQ, k)
  /\ UNCHANGED <<jobs, calls, fired>>
  /\ Persist

Ungranted(t) == tasks[t].end - tasks[t].granted
Splittable(t) == InFlight(t) /\ tasks[t].end >= 0 /\ Ungranted(t) > 0
IsVictim(v) ==
  /\ Splittable(v)
  /\ Ungranted(v) >= minStealItems
  /\ \A u \in TaskID : Splittable(u) => Ungranted(u) <= Ungranted(v)

\* Faults: the victim keeps its end, or its generation.
ShrunkKeepsEnd(t, at) == [t EXCEPT !.gen = @ + 1, !.split = TRUE]
ShrunkSameGeneration(t, at) == [t EXCEPT !.end = at, !.split = TRUE]

\* The victim keeps [start, at); the new task owns [at, end).  The stolen
\* task's priority is the zero value: stealLocked does not set it.
Shrunk(t, at) == [t EXCEPT !.end = at, !.gen = @ + 1, !.split = TRUE]
StolenTail(t, at) ==
  [t EXCEPT !.status = "pending", !.worker = None, !.priority = 0,
            !.retries = 0, !.start = at, !.frontier = at, !.granted = at,
            !.gen = 0, !.split = TRUE]

\* Fault: TotalTasks is not updated.
StolenUncounted(j) == UNCHANGED jobs

StolenCounted(j) == jobs' = [jobs EXCEPT ![j].total = @ + 1]

\* PollTasks with nothing pending: split the largest un-granted tail.
PollSteal(w, v, id) ==
  /\ Candidates = {}
  /\ IsVictim(v)
  /\ ~Known(id)
  /\ LET at == tasks[v].granted + Ungranted(v) \div 2
     IN  tasks' = [tasks EXCEPT ![v] = Shrunk(@, at),
                                ![id] = Assign(StolenTail(tasks[v], at), w)]
  /\ StolenCounted(tasks[v].job)
  /\ UNCHANGED <<pendingQ, calls, fired>>
  /\ Persist

PollNone ==
  /\ Candidates = {}
  /\ \A v \in TaskID : ~IsVictim(v)
  /\ UNCHANGED vars

\* StartTask checks neither the task's status nor who asks.
StartTask(t) ==
  /\ Known(t)
  /\ tasks' = [tasks EXCEPT ![t].status = "running"]
  /\ UNCHANGED <<jobs, pendingQ, calls, fired>>
  /\ Persist

RenewLease(t, frontier, total) ==
  /\ Known(t)
  /\ tasks' = [tasks EXCEPT ![t] = Renewed(@, frontier, total)]
  /\ UNCHANGED <<jobs, pendingQ, calls, fired>>
  /\ Persist

\* Phase 1: a done task returns at once (no step); otherwise the range and
\* the generation are read and the mutex is released.
ReportBegin(c, t, w, err) ==
  /\ calls[c] = None
  /\ Known(t) /\ tasks[t].status # "done"
  /\ calls' = [calls EXCEPT ![c] =
       [task |-> t, worker |-> w, err |-> err, start |-> tasks[t].start,
        end |-> tasks[t].end, split |-> tasks[t].split, gen |-> tasks[t].gen]]
  /\ UNCHANGED <<jobs, tasks, pendingQ, durable, fired>>

\* The commit, the decision or the side effect fails: the error is returned
\* and nothing is recorded.  An error report runs none of the three.
ReportAbort(c) ==
  /\ calls[c] # None /\ ~calls[c].err
  /\ calls' = [calls EXCEPT ![c] = None]
  /\ UNCHANGED <<jobs, tasks, pendingQ, durable, fired>>

\* Phase 4, for a success, a retry, a final failure and a late duplicate.
MarkDuplicate(t) ==
  tasks[t].status = "done" /\ UNCHANGED <<jobs, tasks, pendingQ, durable, fired>>

MarkDone(t, w) ==
  /\ tasks[t].status # "done"
  /\ tasks' = [tasks EXCEPT ![t].status = "done", ![t].worker = w]
  /\ UpdateJobs({tasks[t].job})
  /\ UNCHANGED pendingQ
  /\ Persist

\* Fault: the task is marked pending but not queued.
EnqueueLost(t) == UNCHANGED pendingQ

Enqueue(t) == pendingQ' = Append(pendingQ, t)

MarkRetry(t) ==
  /\ tasks[t].status # "done" /\ CanRetry(tasks[t])
  /\ tasks' = [tasks EXCEPT ![t] = Requeued(@)]
  /\ Enqueue(t)
  /\ UNCHANGED <<jobs, fired>>
  /\ Persist

MarkFailed(t, w) ==
  /\ tasks[t].status # "done" /\ ~CanRetry(tasks[t])
  /\ tasks' = [tasks EXCEPT ![t].status = "failed", ![t].worker = w]
  /\ UpdateJobs({tasks[t].job})
  /\ UNCHANGED pendingQ
  /\ Persist

ReportFinish(c) ==
  /\ calls[c] # None
  /\ LET r == calls[c]
     IN  \/ MarkDuplicate(r.task)
         \/ ~r.err /\ MarkDone(r.task, r.worker)
         \/ r.err /\ MarkRetry(r.task)
         \/ r.err /\ MarkFailed(r.task, r.worker)
  /\ calls' = [calls EXCEPT ![c] = None]

\* Map iteration order decides the order of the requeued ids: q is one.
\* The state is persisted only when something was requeued.
RebalanceWorker(w, q) ==
  LET Owned == {t \in TaskID : InFlight(t) /\ tasks[t].worker = w}
      Retry == {t \in Owned : CanRetry(tasks[t])}
      Fail == Owned \ Retry
  IN  /\ Owned # {}
      /\ q \in SetToSeqs(Retry)
      /\ tasks' = [t \in TaskID |->
                     IF t \in Retry THEN Requeued(tasks[t])
                     ELSE IF t \in Fail THEN [tasks[t] EXCEPT !.status = "failed"]
                     ELSE tasks[t]]
      /\ pendingQ' = pendingQ \o q
      /\ UpdateJobs({tasks[t].job : t \in Fail})
      /\ IF Retry # {} THEN Persist ELSE UNCHANGED durable
      /\ UNCHANGED calls

\* The drained tasks are assigned and granted but get no worker id.
DrainPending(n) ==
  LET Drained == {t \in TaskID : IsPending(t) /\ \E k \in 1..n : pendingQ[k] = t}
  IN  /\ n \in 1..Len(pendingQ)
      /\ tasks' = [t \in TaskID |->
                     IF t \in Drained
                     THEN GrantLease([tasks[t] EXCEPT !.status = "assigned"])
                     ELSE tasks[t]]
      /\ pendingQ' = SubSeq(pendingQ, n + 1, Len(pendingQ))
      /\ UNCHANGED <<jobs, calls, fired>>
      /\ Persist

\* Crash and Restore: handlers in flight die with the process.
Restart ==
  /\ jobs' = durable.jobs
  /\ tasks' = durable.tasks
  /\ pendingQ' = durable.pendingQ
  /\ calls' = [c \in Call |-> None]
  /\ fired' = [j \in JobID |-> 0]
  /\ UNCHANGED durable

-----------------------------------------------------------------------------
Init ==
  /\ jobs = [j \in JobID |-> None]
  /\ tasks = [t \in TaskID |-> None]
  /\ pendingQ = << >>
  /\ calls = [c \in Call |-> None]
  /\ durable = [jobs |-> jobs, tasks |-> tasks, pendingQ |-> pendingQ]
  /\ fired = [j \in JobID |-> 0]

\* A client submits a list of distinct shards.
SubmitAny ==
  \E j \in JobID, p \in Priority, T \in SUBSET TaskID \ {{}} :
    \E q \in SetToSeqs(T), shardOf \in Injection(T, Shard) :
      Submit(j, p, q, shardOf)

\* A worker renews below the end of the listing and reports its length.
RenewAny ==
  \E t \in TaskID :
    /\ Known(t)
    /\ \E f \in 0..(ShardSize[tasks[t].shard] - 1) :
         RenewLease(t, f, ShardSize[tasks[t].shard])

Next ==
  \/ SubmitAny
  \/ \E w \in Worker, local \in SUBSET Shard :
       \E k \in DOMAIN pendingQ : PollPending(w, local, k)
  \/ \E w \in Worker, v, id \in TaskID : PollSteal(w, v, id)
  \/ PollNone
  \/ \E t \in TaskID : StartTask(t)
  \/ RenewAny
  \/ \E c \in Call, t \in TaskID, w \in Worker, err \in BOOLEAN :
       ReportBegin(c, t, w, err)
  \/ \E c \in Call : ReportAbort(c)
  \/ \E c \in Call : ReportFinish(c)
  \/ \E w \in Worker, T \in SUBSET TaskID : \E q \in SetToSeqs(T) :
       RebalanceWorker(w, q)
  \/ \E n \in DOMAIN pendingQ : DrainPending(n)
  \/ Restart

Spec == Init /\ [][Next]_vars

-----------------------------------------------------------------------------
(* Properties.                                                             *)

StateOf(js, ts, q) ==
  /\ js \in [JobID -> Job \cup {None}]
  /\ ts \in [TaskID -> Task \cup {None}]
  /\ q \in Seq(TaskID)

\* Every variable holds what the Go types and the retry budget allow: the
\* live state and the durable image alike (ReportResult, RebalanceWorker).
TypeOK ==
  /\ StateOf(jobs, tasks, pendingQ)
  /\ calls \in [Call -> Report \cup {None}]
  /\ StateOf(durable.jobs, durable.tasks, durable.pendingQ)
  /\ fired \in [JobID -> 0..FiredCap]

Owns(t, j, s, i) ==
  /\ t # None
  /\ t.job = j /\ t.shard = s
  /\ t.start <= i /\ (t.end = -1 \/ i < t.end)

Tiled(js, ts) ==
  \A j \in JobID : js[j] # None =>
    \A s \in js[j].shards : \A i \in 0..(ShardSize[s] - 1) :
      \E t \in TaskID :
        /\ Owns(ts[t], j, s, i)
        /\ \A u \in TaskID : Owns(ts[u], j, s, i) => u = t

\* Ranges tile every submitted shard: each item of its listing belongs to
\* exactly one task, whatever steals, retries, late reports and restarts did
\* (stealLocked, RenewLease; assertTiles in steal_test.go).
Tiling == Tiled(jobs, tasks)

\* A pending task is always in the dispatch queue, so PollTasks can find it:
\* duplicate and stale queue entries, drains and restarts never strand one.
PendingIsQueued == \A t \in TaskID : IsPending(t) => t \in ToSet(pendingQ)

FinalResultKey(j, s, start, end, split) ==
  IF split THEN <<j, s, start, end>> ELSE <<j, s>>

\* The lease generation fences the output key: a report whose generation is
\* still current carries the key the task has now, although it read both
\* before the commit and the range may have been stolen from or sized since
\* (ReportResult phase 1 against stealLocked and RenewLease).
KeyFencedByGeneration ==
  \A c \in Call : calls[c] # None =>
    LET r == calls[c]
        t == tasks[r.task]
    IN  r.gen = t.gen =>
          FinalResultKey(t.job, t.shard, r.start, r.end, r.split)
            = FinalResultKey(t.job, t.shard, t.start, t.end, t.split)

\* A job's TotalTasks is the number of its tasks, through steals, retries and
\* restarts, and what it reports as done and failed never exceeds it
\* (Submit, stealLocked, updateJob, Restore).
JobAccounting ==
  \A j \in JobID : jobs[j] # None =>
    /\ jobs[j].total = Cardinality(TasksOf(tasks, j, TaskStatus))
    /\ jobs[j].done + jobs[j].failed <= jobs[j].total
=============================================================================

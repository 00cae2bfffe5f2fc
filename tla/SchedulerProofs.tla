--------------------------- MODULE SchedulerProofs ---------------------------
(***************************************************************************)
(* Proofs about Scheduler, for any sets of jobs, tasks, shards and workers *)
(* and any shard sizes, chunk and retry budget.                            *)
(*                                                                         *)
(* The inductive invariant Inv says of the live state and of the durable   *)
(* image alike (a restart swaps one for the other) that the ranges tile    *)
(* every shard, that leases lie in their ranges, that tasks belong to jobs *)
(* and that pending tasks are queued; and of every report in progress that *)
(* it knows its task's range up to its generation.                         *)
(*                                                                         *)
(* Three handlers change ranges (Submit, RenewLease, a stealing poll) and  *)
(* have a lemma each.  The others keep every range: each is shown to be a  *)
(* Kept step, and KeptInv does the rest once.                              *)
(***************************************************************************)
EXTENDS Scheduler, FiniteSetTheorems, TLAPS

\* The fields that say which items a task owns and under which generation.
SameRange(t, u) ==
  /\ t.job = u.job /\ t.shard = u.shard /\ t.start = u.start
  /\ t.end = u.end /\ t.gen = u.gen /\ t.split = u.split

\* grantLeaseLocked only raises Granted.
LEMMA GrantLeaseFacts ==
  ASSUME NEW t \in Task
  PROVE  /\ GrantLease(t) \in Task
         /\ SameRange(GrantLease(t), t)
         /\ GrantLease(t).status = t.status
         /\ GrantLease(t).frontier = t.frontier
         /\ GrantLease(t).granted >= t.granted
BY ChunkAssumption DEF GrantLease, Task, SameRange

\* Assigning a task (PollTasks) keeps its range and frontier.
LEMMA AssignFacts ==
  ASSUME NEW t \in Task, NEW w \in Worker
  PROVE  /\ Assign(t, w) \in Task
         /\ SameRange(Assign(t, w), t)
         /\ Assign(t, w).status = "assigned"
         /\ Assign(t, w).frontier = t.frontier
         /\ Assign(t, w).granted >= t.granted
<1> DEFINE u == [t EXCEPT !.status = "assigned", !.worker = w]
<1>1. u \in Task /\ SameRange(u, t) /\ u.status = "assigned"
      /\ u.frontier = t.frontier /\ u.granted = t.granted
  BY DEF Task, TaskStatus, SameRange
<1>2. QED
  BY <1>1, GrantLeaseFacts DEF Assign, SameRange

\* A requeued task is pending again, with its lease back at the range start.
LEMMA RequeuedFacts ==
  ASSUME NEW t \in Task, CanRetry(t)
  PROVE  /\ Requeued(t) \in Task
         /\ SameRange(Requeued(t), t)
         /\ Requeued(t).status = "pending"
         /\ Requeued(t).frontier = t.start
         /\ Requeued(t).granted = t.start
<1> DEFINE u == [t EXCEPT !.retries = @ + 1, !.status = "pending", !.worker = None]
<1>1. t.retries + 1 \in 0..MaxRetries
  BY RetryAssumption DEF CanRetry, Task
<1>2. u \in Task /\ SameRange(u, t) /\ u.status = "pending"
  BY <1>1 DEF Task, TaskStatus, SameRange
<1>3. \A v \in Task : /\ ResetLease(v) \in Task /\ SameRange(ResetLease(v), v)
                      /\ ResetLease(v).status = v.status
                      /\ ResetLease(v).frontier = v.start
                      /\ ResetLease(v).granted = v.start
  BY DEF ResetLease, Task, SameRange
<1>4. QED
  BY <1>2, <1>3 DEF Requeued, SameRange

\* Fixing the size and advancing the frontier (RenewLease) keeps all but the end;
\* a known end stays.
LEMMA AdvanceFacts ==
  ASSUME NEW t \in Task, NEW f \in Nat, NEW n \in Nat
  PROVE  /\ Advance(t, f, n) \in Task
         /\ Advance(t, f, n).status = t.status
         /\ Advance(t, f, n).granted = t.granted
         /\ SameRange(Advance(t, f, n),
                      [t EXCEPT !.end = IF t.end < 0 /\ n > 0 THEN n ELSE t.end])
<1> DEFINE e == IF t.end < 0 /\ n > 0 THEN n ELSE t.end
           g == IF f > t.frontier THEN f ELSE t.frontier
           h == IF e >= 0 /\ g > e THEN e ELSE g
<1>1. e \in Nat \cup {-1} /\ h \in Nat
  BY DEF Task
<1>2. Advance(t, f, n) = [t EXCEPT !.end = e, !.frontier = h]
  BY DEF Advance
<1> HIDE DEF e, h
<1>3. /\ Advance(t, f, n) \in Task
      /\ Advance(t, f, n).status = t.status
      /\ Advance(t, f, n).granted = t.granted
      /\ SameRange(Advance(t, f, n), [t EXCEPT !.end = e])
  BY <1>1, <1>2 DEF Task, SameRange
<1>4. QED
  BY <1>3 DEF e

\* The whole of RenewLease on a task record.
LEMMA RenewedFacts ==
  ASSUME NEW t \in Task, NEW f \in Nat, NEW n \in Nat
  PROVE  /\ Renewed(t, f, n) \in Task
         /\ Renewed(t, f, n).status = t.status
         /\ Renewed(t, f, n).granted >= t.granted
         /\ SameRange(Renewed(t, f, n),
                      [t EXCEPT !.end = IF t.end < 0 /\ n > 0 THEN n ELSE t.end])
<1> DEFINE a == Advance(t, f, n)
           g == [t EXCEPT !.end = IF t.end < 0 /\ n > 0 THEN n ELSE t.end]
<1>1. /\ a \in Task /\ a.status = t.status /\ a.granted = t.granted /\ SameRange(a, g)
      /\ Renewed(t, f, n) = GrantLease(a)
  BY AdvanceFacts DEF Renewed
<1> HIDE DEF a, g
<1>2. /\ GrantLease(a) \in Task /\ GrantLease(a).status = a.status
      /\ GrantLease(a).granted >= a.granted /\ SameRange(GrantLease(a), a)
  BY <1>1, GrantLeaseFacts
<1>3. SameRange(GrantLease(a), g)
  BY <1>1, <1>2 DEF SameRange
<1>4. QED
  BY <1>1, <1>2, <1>3 DEF g

\* The victim of a steal keeps [start, at) under a new generation.
LEMMA ShrunkFacts ==
  ASSUME NEW t \in Task, NEW at \in Nat
  PROVE  /\ Shrunk(t, at) \in Task
         /\ Shrunk(t, at).job = t.job /\ Shrunk(t, at).shard = t.shard
         /\ Shrunk(t, at).start = t.start /\ Shrunk(t, at).end = at
         /\ Shrunk(t, at).gen = t.gen + 1 /\ Shrunk(t, at).split
         /\ Shrunk(t, at).status = t.status /\ Shrunk(t, at).granted = t.granted
         /\ Shrunk(t, at).frontier = t.frontier /\ Shrunk(t, at).worker = t.worker
<1>1. t.gen + 1 \in Nat
  BY DEF Task
<1>2. QED
  BY <1>1 DEF Shrunk, Task

\* The stolen task owns [at, end) and is well formed.
LEMMA StolenTailFacts ==
  ASSUME NEW t \in Task, NEW at \in Nat
  PROVE  /\ StolenTail(t, at) \in Task
         /\ StolenTail(t, at).job = t.job /\ StolenTail(t, at).shard = t.shard
         /\ StolenTail(t, at).start = at /\ StolenTail(t, at).end = t.end
         /\ StolenTail(t, at).gen = 0 /\ StolenTail(t, at).split
         /\ StolenTail(t, at).granted = at /\ StolenTail(t, at).frontier = at
<1>1. 0 \in 0..MaxRetries /\ 0 \in Priority /\ 0 \in Nat /\ "pending" \in TaskStatus
  BY RetryAssumption, PriorityAssumption DEF TaskStatus
<1>2. QED
  BY <1>1 DEF StolenTail, Task

\* Submit creates whole-shard pending tasks.
LEMMA RootTaskFacts ==
  ASSUME NEW j \in JobID, NEW s \in Shard, NEW p \in Priority
  PROVE  /\ RootTask(j, s, p) \in Task
         /\ RootTask(j, s, p).job = j /\ RootTask(j, s, p).shard = s
         /\ RootTask(j, s, p).start = 0 /\ RootTask(j, s, p).end = -1
         /\ RootTask(j, s, p).granted = 0 /\ RootTask(j, s, p).frontier = 0
         /\ ~RootTask(j, s, p).split
<1>1. 0 \in 0..MaxRetries /\ 0 \in Nat /\ -1 \in Nat \cup {-1} /\ "pending" \in TaskStatus
  BY RetryAssumption DEF TaskStatus
<1>2. QED
  BY <1>1 DEF RootTask, Task

-----------------------------------------------------------------------------
(* Queues.                                                                 *)

\* The id t is somewhere in the queue q.
Queued(t, q) == \E k \in 1..Len(q) : q[k] = t

\* Membership in the queue, by position and by element.
LEMMA QueuedFacts ==
  ASSUME NEW q \in Seq(TaskID), NEW t
  PROVE  Queued(t, q) <=> t \in ToSet(q)
BY DEF Queued, ToSet

\* Dispatching position k removes nothing but one entry.
LEMMA RemoveAtFacts ==
  ASSUME NEW q \in Seq(TaskID), NEW k \in 1..Len(q)
  PROVE  /\ RemoveAt(q, k) \in Seq(TaskID)
         /\ \A t : Queued(t, q) /\ t # q[k] => Queued(t, RemoveAt(q, k))
<1> DEFINE l == SubSeq(q, 1, k - 1)
           r == SubSeq(q, k + 1, Len(q))
<1>1. /\ l \in Seq(TaskID) /\ Len(l) = k - 1
      /\ \A i \in 1..(k - 1) : l[i] = q[i]
  OBVIOUS
<1>2. /\ r \in Seq(TaskID) /\ Len(r) = Len(q) - k
      /\ \A i \in 1..(Len(q) - k) : r[i] = q[k + i]
  OBVIOUS
<1>3. RemoveAt(q, k) = l \o r
  BY DEF RemoveAt
<1> HIDE DEF l, r
<1>4. /\ l \o r \in Seq(TaskID) /\ Len(l \o r) = Len(q) - 1
      /\ \A i \in 1..(k - 1) : (l \o r)[i] = q[i]
      /\ \A i \in k..(Len(q) - 1) : (l \o r)[i] = q[i + 1]
  <2>1. l \o r \in Seq(TaskID) /\ Len(l \o r) = Len(q) - 1
    BY <1>1, <1>2
  <2>2. \A i \in 1..(k - 1) : (l \o r)[i] = q[i]
    BY <1>1, <1>2
  <2>3. ASSUME NEW i \in k..(Len(q) - 1)
        PROVE  (l \o r)[i] = q[i + 1]
    <3>1. (l \o r)[i] = r[i - (k - 1)]
      BY <1>1, <1>2
    <3>2. i - (k - 1) \in 1..(Len(q) - k) /\ k + (i - (k - 1)) = i + 1
      OBVIOUS
    <3>3. QED
      BY <1>2, <3>1, <3>2
  <2>4. QED
    BY <2>1, <2>2, <2>3
<1>5. ASSUME NEW m \in 1..Len(q), m # k
      PROVE  \E n \in 1..Len(l \o r) : (l \o r)[n] = q[m]
  <2>1. CASE m < k
    <3>1. m \in 1..(k - 1) /\ m \in 1..Len(l \o r)
      BY <1>4, <2>1
    <3>2. QED
      BY <1>4, <3>1
  <2>2. CASE m > k
    <3>1. m - 1 \in k..(Len(q) - 1) /\ m - 1 \in 1..Len(l \o r)
      BY <1>4, <2>2
    <3>2. (l \o r)[m - 1] = q[m]
      BY <1>4, <3>1
    <3>3. QED
      BY <3>1, <3>2
  <2>3. QED
    BY <1>5, <2>1, <2>2
<1>6. QED
  BY <1>3, <1>4, <1>5 DEF Queued

\* Any iteration order over a set of ids lists exactly those ids.
LEMMA OrderFacts ==
  ASSUME NEW T \in SUBSET TaskID, NEW q \in SetToSeqs(T)
  PROVE  /\ q \in Seq(TaskID)
         /\ Len(q) = Cardinality(T)
         /\ \A t \in T : Queued(t, q)
<1>1. IsFiniteSet(T) /\ Cardinality(T) \in Nat
  BY IdAssumption, FS_Subset, FS_CardinalityType
<1>2. /\ q \in [1..Cardinality(T) -> T]
      /\ \A i, j \in 1..Cardinality(T) : i # j => q[i] # q[j]
  BY DEF SetToSeqs
<1>3. q \in Injection(1..Cardinality(T), T)
  BY <1>2 DEF Injection, IsInjective
<1>4. Cardinality(1..Cardinality(T)) = Cardinality(T)
  BY <1>1, FS_Interval
<1>5. q \in Surjection(1..Cardinality(T), T)
  <2> DEFINE D == 1..Cardinality(T)
  <2>1. q \in Injection(D, T) /\ Cardinality(D) = Cardinality(T)
    BY <1>3, <1>4
  <2> HIDE DEF D
  <2>2. q \in Surjection(D, T)
    BY <1>1, <2>1, FS_Injection
  <2>3. QED
    BY <2>2 DEF D
<1>6. QED
  BY <1>1, <1>2, <1>5 DEF Surjection, Queued

\* Appending to the queue keeps what was in it.
LEMMA ConcatFacts ==
  ASSUME NEW q \in Seq(TaskID), NEW r \in Seq(TaskID)
  PROVE  /\ q \o r \in Seq(TaskID)
         /\ \A t : Queued(t, q) \/ Queued(t, r) => Queued(t, q \o r)
<1>1. q \o r \in Seq(TaskID) /\ Len(q \o r) = Len(q) + Len(r)
  OBVIOUS
<1>2. \A m \in 1..Len(q) : m \in 1..Len(q \o r) /\ (q \o r)[m] = q[m]
  OBVIOUS
<1>3. \A m \in 1..Len(r) :
        Len(q) + m \in 1..Len(q \o r) /\ (q \o r)[Len(q) + m] = r[m]
  OBVIOUS
<1>4. QED
  BY <1>1, <1>2, <1>3 DEF Queued

\* Draining a prefix keeps what comes after it.
LEMMA DropFacts ==
  ASSUME NEW q \in Seq(TaskID), NEW n \in 1..Len(q)
  PROVE  LET r == SubSeq(q, n + 1, Len(q))
         IN  /\ r \in Seq(TaskID)
             /\ \A t : Queued(t, q) =>
                   Queued(t, r) \/ \E k \in 1..n : q[k] = t
<1> DEFINE r == SubSeq(q, n + 1, Len(q))
<1>1. /\ r \in Seq(TaskID) /\ Len(r) = Len(q) - n
      /\ \A i \in 1..(Len(q) - n) : r[i] = q[n + i]
  OBVIOUS
<1> HIDE DEF r
<1>2. ASSUME NEW m \in 1..Len(q), m > n
      PROVE  \E i \in 1..Len(r) : r[i] = q[m]
  <2>1. m - n \in 1..(Len(q) - n)
    BY <1>2
  <2>2. r[m - n] = q[m]
    BY <1>1, <2>1
  <2>3. QED
    BY <1>1, <2>1, <2>2
<1>3. ASSUME NEW t, Queued(t, q)
      PROVE  Queued(t, r) \/ \E k \in 1..n : q[k] = t
  <2>1. PICK m \in 1..Len(q) : q[m] = t
    BY <1>3 DEF Queued
  <2>2. CASE m > n
    BY <1>2, <2>1, <2>2 DEF Queued
  <2>3. CASE ~(m > n)
    BY <2>1, <2>3
  <2>4. QED
    BY <2>2, <2>3
<1>4. QED
  BY <1>1, <1>3 DEF r

-----------------------------------------------------------------------------
(* The inductive invariant.  It holds of the live state and of the durable *)
(* image alike, since a restart turns the one into the other.              *)

\* A lease starts inside its range; a known range is not empty and lies in
\* the listing; an unknown one is the whole of a shard never split.
LeaseIn(t) ==
  /\ t.start <= t.granted
  /\ t.end = -1 => t.start = 0 /\ ~t.split
  /\ t.end # -1 => t.start < t.end /\ t.end <= ShardSize[t.shard]

LeaseOK(ts) == \A t \in TaskID : ts[t] # None => LeaseIn(ts[t])

\* Every task belongs to a job that covers its shard.
OwnerOK(js, ts) ==
  \A t \in TaskID : ts[t] # None =>
    js[ts[t].job] # None /\ ts[t].shard \in js[ts[t].job].shards

QueueOK(ts, q) ==
  \A t \in TaskID : ts[t] # None /\ ts[t].status = "pending" => Queued(t, q)

ImageOK(js, ts, q) ==
  /\ StateOf(js, ts, q)
  /\ LeaseOK(ts)
  /\ OwnerOK(js, ts)
  /\ Tiled(js, ts)
  /\ QueueOK(ts, q)

\* A report in progress knows its task as it is now or as an earlier
\* generation had it.
FenceOK(r, t) ==
  /\ t # None
  /\ r.start = t.start
  /\ r.gen <= t.gen
  /\ r.gen = t.gen => r.split = t.split /\ (r.split => r.end = t.end)

Fenced == \A c \in Call : calls[c] # None => FenceOK(calls[c], tasks[calls[c].task])

\* The inductive invariant.
Inv ==
  /\ TypeOK
  /\ ImageOK(jobs, tasks, pendingQ)
  /\ ImageOK(durable.jobs, durable.tasks, durable.pendingQ)
  /\ Fenced

\* What most handlers do: the set of tasks, their ranges and the shards of
\* every job stay as they are.
KeepsRanges(ts, us) ==
  \A t \in TaskID : /\ ts[t] = None <=> us[t] = None
                    /\ ts[t] # None => SameRange(us[t], ts[t])

KeepsShards(js, ks) ==
  \A j \in JobID : /\ js[j] = None <=> ks[j] = None
                   /\ js[j] # None => ks[j].shards = js[j].shards

\* A step that keeps ranges and shards keeps the image well formed.
LEMMA KeptImage ==
  ASSUME NEW js, NEW ts, NEW q, ImageOK(js, ts, q),
         NEW ks, NEW us, NEW p, StateOf(ks, us, p),
         KeepsRanges(ts, us), KeepsShards(js, ks),
         \A t \in TaskID : us[t] # None => us[t].start <= us[t].granted,
         QueueOK(us, p)
  PROVE  ImageOK(ks, us, p)
<1>1. \A t \in TaskID : us[t] # None => us[t] \in Task /\ ts[t] \in Task
  BY DEF KeepsRanges, ImageOK, StateOf
<1>2. LeaseOK(us)
  BY <1>1 DEF LeaseOK, LeaseIn, KeepsRanges, SameRange, ImageOK
<1>3. OwnerOK(ks, us)
  BY <1>1 DEF OwnerOK, KeepsRanges, KeepsShards, SameRange, ImageOK, Task
<1>4. \A t \in TaskID : \A j, s, i : Owns(us[t], j, s, i) <=> Owns(ts[t], j, s, i)
  BY DEF Owns, KeepsRanges, SameRange
<1>5. Tiled(ks, us)
  <2> SUFFICES ASSUME NEW j \in JobID, ks[j] # None, NEW s \in ks[j].shards,
                      NEW i \in 0..(ShardSize[s] - 1)
               PROVE  \E t \in TaskID :
                        /\ Owns(us[t], j, s, i)
                        /\ \A u \in TaskID : Owns(us[u], j, s, i) => u = t
    BY DEF Tiled
  <2>1. js[j] # None /\ s \in js[j].shards
    BY DEF KeepsShards
  <2>2. PICK t \in TaskID : /\ Owns(ts[t], j, s, i)
                            /\ \A u \in TaskID : Owns(ts[u], j, s, i) => u = t
    BY <2>1 DEF Tiled, ImageOK
  <2>3. QED
    BY <1>4, <2>2
<1>6. QED
  BY <1>2, <1>3, <1>5 DEF ImageOK

\* A step that keeps ranges keeps every report's fence.
LEMMA KeptFence ==
  ASSUME TypeOK, Fenced, StateOf(jobs', tasks', pendingQ'),
         KeepsRanges(tasks, tasks'),
         \A c \in Call : calls'[c] = None \/ calls'[c] = calls[c]
  PROVE  Fenced'
<1> SUFFICES ASSUME NEW c \in Call, calls'[c] # None
             PROVE  FenceOK(calls'[c], tasks'[calls'[c].task])
  BY DEF Fenced
<1>1. calls'[c] = calls[c] /\ calls[c] \in Report /\ calls[c].task \in TaskID
  BY DEF TypeOK, Report
<1>2. QED
  BY <1>1 DEF Fenced, FenceOK, KeepsRanges, SameRange

-----------------------------------------------------------------------------
(* Job accounting.                                                         *)

\* The counts updateJob computes are natural numbers.
LEMMA TasksOfFinite ==
  ASSUME NEW ts, NEW j, NEW S
  PROVE  IsFiniteSet(TasksOf(ts, j, S)) /\ Cardinality(TasksOf(ts, j, S)) \in Nat
<1>1. TasksOf(ts, j, S) \in SUBSET TaskID
  BY DEF TasksOf
<1>2. QED
  BY <1>1, IdAssumption, FS_Subset, FS_CardinalityType

\* updateJob yields a job and keeps its shards.
LEMMA SettledJobFacts ==
  ASSUME NEW job \in Job, NEW ts, NEW j
  PROVE  SettledJob(job, ts, j) \in Job /\ SettledJob(job, ts, j).shards = job.shards
<1> DEFINE d == Cardinality(TasksOf(ts, j, {"done"}))
           f == Cardinality(TasksOf(ts, j, {"failed"}))
           st == IF ~AllSettled(ts, j) THEN job.status
                 ELSE IF TasksOf(ts, j, {"failed"}) # {} THEN "failed" ELSE "completed"
<1>1. d \in Nat /\ f \in Nat
  BY TasksOfFinite
<1>2. st \in JobStatus
  BY DEF Job, JobStatus
<1>3. SettledJob(job, ts, j) = [job EXCEPT !.done = d, !.failed = f, !.status = st]
  BY DEF SettledJob
<1> HIDE DEF d, f, st
<1>4. QED
  BY <1>1, <1>2, <1>3 DEF Job

\* So it does when several jobs are updated, and the hook counter keeps its type.
LEMMA UpdateJobsFacts ==
  ASSUME TypeOK, NEW J \in SUBSET JobID, \A j \in J : jobs[j] # None, UpdateJobs(J)
  PROVE  /\ jobs' \in [JobID -> Job \cup {None}]
         /\ fired' \in [JobID -> 0..FiredCap]
         /\ KeepsShards(jobs, jobs')
<1>1. \A j \in J : /\ jobs[j] \in Job
                   /\ SettledJob(jobs[j], tasks', j) \in Job
                   /\ SettledJob(jobs[j], tasks', j).shards = jobs[j].shards
  BY SettledJobFacts DEF TypeOK, StateOf
<1>2. jobs' \in [JobID -> Job \cup {None}] /\ KeepsShards(jobs, jobs')
  BY <1>1, NoneAssumption DEF UpdateJobs, KeepsShards, TypeOK, StateOf
<1>3. fired' \in [JobID -> 0..FiredCap]
  BY DEF UpdateJobs, TypeOK, FiredCap
<1>4. QED
  BY <1>2, <1>3

-----------------------------------------------------------------------------
(* Handlers that keep every range.                                         *)

GrantedOK(ts) == \A t \in TaskID : ts[t] # None => ts[t].start <= ts[t].granted

Kept ==
  /\ StateOf(jobs', tasks', pendingQ')
  /\ fired' \in [JobID -> 0..FiredCap]
  /\ KeepsRanges(tasks, tasks')
  /\ KeepsShards(jobs, jobs')
  /\ GrantedOK(tasks')
  /\ QueueOK(tasks', pendingQ')

\* One task is replaced by a record with the same range.
LEMMA ReplaceOne ==
  ASSUME TypeOK, GrantedOK(tasks), NEW t \in TaskID, NEW u \in Task,
         tasks[t] # None, SameRange(u, tasks[t]), u.start <= u.granted,
         tasks' = [tasks EXCEPT ![t] = u]
  PROVE  /\ tasks' \in [TaskID -> Task \cup {None}]
         /\ KeepsRanges(tasks, tasks')
         /\ GrantedOK(tasks')
<1>1. tasks \in [TaskID -> Task \cup {None}] /\ tasks'[t] = u
      /\ \A v \in TaskID : v # t => tasks'[v] = tasks[v]
  BY DEF TypeOK, StateOf
<1>2. QED
  BY <1>1, NoneAssumption DEF KeepsRanges, GrantedOK, SameRange

\* PollTasks from the queue keeps ranges.
LEMMA PollPendingKept ==
  ASSUME Inv, NEW w \in Worker, NEW local, NEW k \in DOMAIN pendingQ,
         PollPending(w, local, k)
  PROVE  Kept
<1> DEFINE t == pendingQ[k]
           u == Assign(tasks[t], w)
<1>1. k \in 1..Len(pendingQ) /\ pendingQ \in Seq(TaskID) /\ t \in TaskID
  BY DEF Inv, TypeOK, StateOf
<1>2. IsPending(t)
  BY DEF PollPending, Picks, Candidates
<1>3. tasks[t] # None /\ tasks[t] \in Task
  BY <1>1, <1>2 DEF IsPending, Known, Inv, TypeOK, StateOf
<1>4. GrantedOK(tasks)
  BY DEF Inv, ImageOK, LeaseOK, LeaseIn, GrantedOK
<1>5. u \in Task /\ SameRange(u, tasks[t]) /\ u.start <= u.granted /\ u.status = "assigned"
  BY <1>1, <1>3, <1>4, AssignFacts DEF SameRange, GrantedOK, Task
<1>6. tasks' = [tasks EXCEPT ![t] = u]
  BY DEF PollPending
<1> HIDE DEF u
<1>7. /\ tasks' \in [TaskID -> Task \cup {None}]
      /\ KeepsRanges(tasks, tasks')
      /\ GrantedOK(tasks')
  BY <1>1, <1>3, <1>4, <1>5, <1>6, ReplaceOne DEF Inv
<1>8. /\ pendingQ' \in Seq(TaskID)
      /\ \A v : Queued(v, pendingQ) /\ v # t => Queued(v, pendingQ')
  BY <1>1, RemoveAtFacts DEF PollPending
<1>9. QueueOK(tasks', pendingQ')
  BY <1>1, <1>5, <1>6, <1>8 DEF QueueOK, Inv, ImageOK, TypeOK, StateOf
<1>10. QED
  BY <1>7, <1>8, <1>9 DEF Kept, PollPending, KeepsShards, Inv, TypeOK, StateOf

\* StartTask keeps ranges.
LEMMA StartTaskKept ==
  ASSUME Inv, NEW t \in TaskID, StartTask(t)
  PROVE  Kept
<1> DEFINE u == [tasks[t] EXCEPT !.status = "running"]
<1>1. tasks[t] # None /\ tasks[t] \in Task
  BY DEF StartTask, Known, Inv, TypeOK, StateOf
<1>2. GrantedOK(tasks)
  BY DEF Inv, ImageOK, LeaseOK, LeaseIn, GrantedOK
<1>3. u \in Task /\ SameRange(u, tasks[t]) /\ u.start <= u.granted /\ u.status = "running"
  BY <1>1, <1>2 DEF SameRange, GrantedOK, Task, TaskStatus
<1>4. tasks' = [tasks EXCEPT ![t] = u]
  BY DEF StartTask
<1> HIDE DEF u
<1>5. /\ tasks' \in [TaskID -> Task \cup {None}]
      /\ KeepsRanges(tasks, tasks')
      /\ GrantedOK(tasks')
  BY <1>1, <1>2, <1>3, <1>4, ReplaceOne DEF Inv
<1>6. QueueOK(tasks', pendingQ')
  BY <1>3, <1>4 DEF QueueOK, Inv, ImageOK, TypeOK, StateOf, StartTask
<1>7. QED
  BY <1>5, <1>6 DEF Kept, StartTask, KeepsShards, Inv, TypeOK, StateOf

\* A report settles its task: done or finally failed.
LEMMA SettleKept ==
  ASSUME Inv, NEW t \in TaskID, tasks[t] # None, NEW w \in Worker,
         NEW st \in {"done", "failed"},
         tasks' = [tasks EXCEPT ![t].status = st, ![t].worker = w],
         UpdateJobs({tasks[t].job}), UNCHANGED pendingQ
  PROVE  Kept
<1> DEFINE u == [tasks[t] EXCEPT !.status = st, !.worker = w]
<1>1. tasks[t] \in Task /\ tasks[t].job \in JobID /\ jobs[tasks[t].job] # None
  BY DEF Inv, TypeOK, StateOf, Task, ImageOK, OwnerOK
<1>2. GrantedOK(tasks)
  BY DEF Inv, ImageOK, LeaseOK, LeaseIn, GrantedOK
<1>3. u \in Task /\ SameRange(u, tasks[t]) /\ u.start <= u.granted /\ u.status = st
  BY <1>1, <1>2 DEF SameRange, GrantedOK, Task, TaskStatus
<1>4. tasks' = [tasks EXCEPT ![t] = u]
  BY <1>1 DEF Inv, TypeOK, StateOf
<1> HIDE DEF u
<1>5. /\ tasks' \in [TaskID -> Task \cup {None}]
      /\ KeepsRanges(tasks, tasks')
      /\ GrantedOK(tasks')
  BY <1>1, <1>2, <1>3, <1>4, ReplaceOne DEF Inv
<1>6. QueueOK(tasks', pendingQ')
  BY <1>3, <1>4 DEF QueueOK, Inv, ImageOK, TypeOK, StateOf
<1>7. /\ jobs' \in [JobID -> Job \cup {None}]
      /\ fired' \in [JobID -> 0..FiredCap]
      /\ KeepsShards(jobs, jobs')
  BY <1>1, UpdateJobsFacts DEF Inv
<1>8. QED
  BY <1>5, <1>6, <1>7 DEF Kept, Inv, TypeOK, StateOf

\* A failed attempt with retries left keeps ranges.
LEMMA MarkRetryKept ==
  ASSUME Inv, NEW t \in TaskID, tasks[t] # None, MarkRetry(t)
  PROVE  Kept
<1> DEFINE u == Requeued(tasks[t])
<1>1. tasks[t] \in Task /\ CanRetry(tasks[t])
  BY DEF Inv, TypeOK, StateOf, MarkRetry
<1>2. GrantedOK(tasks)
  BY DEF Inv, ImageOK, LeaseOK, LeaseIn, GrantedOK
<1>3. u \in Task /\ SameRange(u, tasks[t]) /\ u.start <= u.granted
  BY <1>1, RequeuedFacts DEF SameRange, Task
<1>4. tasks' = [tasks EXCEPT ![t] = u]
  BY DEF MarkRetry
<1> HIDE DEF u
<1>5. /\ tasks' \in [TaskID -> Task \cup {None}]
      /\ KeepsRanges(tasks, tasks')
      /\ GrantedOK(tasks')
  BY <1>1, <1>2, <1>3, <1>4, ReplaceOne DEF Inv
<1>6. /\ pendingQ \in Seq(TaskID) /\ pendingQ' = pendingQ \o <<t>>
      /\ <<t>> \in Seq(TaskID) /\ Queued(t, <<t>>)
  BY DEF Inv, TypeOK, StateOf, MarkRetry, Enqueue, Queued
<1>7. /\ pendingQ' \in Seq(TaskID) /\ Queued(t, pendingQ')
      /\ \A v : Queued(v, pendingQ) => Queued(v, pendingQ')
  BY <1>6, ConcatFacts
<1>8. QueueOK(tasks', pendingQ')
  BY <1>4, <1>7 DEF QueueOK, Inv, ImageOK, TypeOK, StateOf
<1>9. QED
  BY <1>5, <1>7, <1>8 DEF Kept, MarkRetry, KeepsShards, Inv, TypeOK, StateOf

\* A step that leaves the three parts of the state alone.
LEMMA UnchangedKept ==
  ASSUME Inv, UNCHANGED <<jobs, tasks, pendingQ, fired>>
  PROVE  Kept
<1>1. GrantedOK(tasks)
  BY DEF Inv, ImageOK, LeaseOK, LeaseIn, GrantedOK
<1>2. QED
  BY <1>1 DEF Kept, Inv, TypeOK, ImageOK, KeepsRanges, KeepsShards, SameRange,
              StateOf, GrantedOK, QueueOK

\* Phase 4 of ReportResult keeps ranges.
LEMMA ReportFinishKept ==
  ASSUME Inv, NEW c \in Call, ReportFinish(c)
  PROVE  Kept
<1> DEFINE t == calls[c].task
           w == calls[c].worker
<1>1. t \in TaskID /\ w \in Worker /\ tasks[t] # None
  BY DEF ReportFinish, Inv, TypeOK, Report, Fenced, FenceOK
<1>2. CASE MarkDuplicate(t)
  BY <1>2, UnchangedKept DEF MarkDuplicate
<1>3. CASE MarkDone(t, w)
  BY <1>1, <1>3, SettleKept DEF MarkDone
<1>4. CASE MarkRetry(t)
  BY <1>1, <1>4, MarkRetryKept
<1>5. CASE MarkFailed(t, w)
  BY <1>1, <1>5, SettleKept DEF MarkFailed
<1>6. QED
  BY <1>2, <1>3, <1>4, <1>5 DEF ReportFinish

\* RebalanceWorker keeps ranges, whatever order it requeues in.
LEMMA RebalanceWorkerKept ==
  ASSUME Inv, NEW w \in Worker, NEW q, RebalanceWorker(w, q)
  PROVE  Kept
<1> DEFINE Owned == {t \in TaskID : InFlight(t) /\ tasks[t].worker = w}
           Retry == {t \in Owned : CanRetry(tasks[t])}
           Fail == Owned \ Retry
<1>1. /\ q \in SetToSeqs(Retry)
      /\ tasks' = [t \in TaskID |->
                     IF t \in Retry THEN Requeued(tasks[t])
                     ELSE IF t \in Fail THEN [tasks[t] EXCEPT !.status = "failed"]
                     ELSE tasks[t]]
      /\ pendingQ' = pendingQ \o q
      /\ UpdateJobs({tasks[t].job : t \in Fail})
  BY DEF RebalanceWorker
<1>2. \A t \in Owned : t \in TaskID /\ tasks[t] # None /\ tasks[t] \in Task
  BY DEF InFlight, Known, Inv, TypeOK, StateOf
<1>3. GrantedOK(tasks)
  BY DEF Inv, ImageOK, LeaseOK, LeaseIn, GrantedOK
<1>4. \A t \in Retry : /\ tasks'[t] \in Task /\ SameRange(tasks'[t], tasks[t])
                        /\ tasks'[t].start <= tasks'[t].granted
  BY <1>1, <1>2, RequeuedFacts DEF SameRange, Task
<1>5. \A t \in Fail : /\ tasks'[t] \in Task /\ SameRange(tasks'[t], tasks[t])
                       /\ tasks'[t].start <= tasks'[t].granted
                       /\ tasks'[t].status = "failed"
  <2> SUFFICES ASSUME NEW t \in Fail
               PROVE  /\ tasks'[t] \in Task /\ SameRange(tasks'[t], tasks[t])
                      /\ tasks'[t].start <= tasks'[t].granted
                      /\ tasks'[t].status = "failed"
    OBVIOUS
  <2>1. tasks'[t] = [tasks[t] EXCEPT !.status = "failed"]
    BY <1>1, <1>2
  <2>2. tasks[t] \in Task /\ tasks[t].start <= tasks[t].granted
    BY <1>2, <1>3 DEF GrantedOK
  <2>3. QED
    BY <2>1, <2>2 DEF SameRange, Task, TaskStatus
<1>6. \A t \in TaskID : t \notin Owned => tasks'[t] = tasks[t]
  BY <1>1
<1>7. Retry \in SUBSET TaskID /\ DOMAIN tasks' = TaskID
      /\ \A t \in TaskID : t \in Retry \/ t \in Fail \/ t \notin Owned
  BY <1>1
<1>8. {tasks[t].job : t \in Fail} \in SUBSET JobID
      /\ \A j \in {tasks[t].job : t \in Fail} : jobs[j] # None
  BY <1>2 DEF Task, Inv, ImageOK, OwnerOK
<1>9. /\ jobs' \in [JobID -> Job \cup {None}]
      /\ fired' \in [JobID -> 0..FiredCap]
      /\ KeepsShards(jobs, jobs')
  BY <1>1, <1>8, UpdateJobsFacts DEF Inv
<1>10. /\ pendingQ' \in Seq(TaskID)
       /\ \A t \in Retry : Queued(t, pendingQ')
       /\ \A t : Queued(t, pendingQ) => Queued(t, pendingQ')
  <2>1. q \in Seq(TaskID) /\ \A t \in Retry : Queued(t, q)
    BY <1>1, <1>7, OrderFacts
  <2>2. pendingQ \in Seq(TaskID)
    BY DEF Inv, TypeOK, StateOf
  <2>3. QED
    BY <1>1, <2>1, <2>2, ConcatFacts
<1> HIDE DEF Owned, Retry, Fail
<1>11. tasks' \in [TaskID -> Task \cup {None}]
  <2>1. \A t \in TaskID : tasks'[t] \in Task \cup {None}
    BY <1>4, <1>5, <1>6, <1>7 DEF Inv, TypeOK, StateOf
  <2>2. QED
    BY <1>1, <2>1
<1>12. KeepsRanges(tasks, tasks') /\ GrantedOK(tasks')
  BY <1>2, <1>3, <1>4, <1>5, <1>6, <1>7, NoneAssumption
     DEF KeepsRanges, GrantedOK, SameRange, Fail, Retry
<1>13. QueueOK(tasks', pendingQ')
  BY <1>5, <1>6, <1>7, <1>10 DEF QueueOK, Inv, ImageOK
<1>14. QED
  BY <1>9, <1>10, <1>11, <1>12, <1>13 DEF Kept, StateOf

\* DrainPending keeps ranges.
LEMMA DrainPendingKept ==
  ASSUME Inv, NEW n, DrainPending(n)
  PROVE  Kept
<1> DEFINE Drained == {t \in TaskID : IsPending(t) /\ \E k \in 1..n : pendingQ[k] = t}
<1>1. /\ n \in 1..Len(pendingQ)
      /\ tasks' = [t \in TaskID |->
                     IF t \in Drained
                     THEN GrantLease([tasks[t] EXCEPT !.status = "assigned"])
                     ELSE tasks[t]]
      /\ pendingQ' = SubSeq(pendingQ, n + 1, Len(pendingQ))
      /\ UNCHANGED <<jobs, fired>>
  BY DEF DrainPending
<1>2. GrantedOK(tasks)
  BY DEF Inv, ImageOK, LeaseOK, LeaseIn, GrantedOK
<1>3. ASSUME NEW t \in Drained
      PROVE  /\ tasks[t] # None /\ tasks'[t] \in Task /\ SameRange(tasks'[t], tasks[t])
             /\ tasks'[t].start <= tasks'[t].granted
             /\ tasks'[t].status = "assigned"
  <2> DEFINE u == [tasks[t] EXCEPT !.status = "assigned"]
  <2>1. tasks[t] # None /\ tasks[t] \in Task /\ tasks[t].start <= tasks[t].granted
    BY <1>2 DEF IsPending, Known, Inv, TypeOK, StateOf, GrantedOK
  <2>2. u \in Task /\ SameRange(u, tasks[t]) /\ u.status = "assigned"
        /\ u.granted = tasks[t].granted
    BY <2>1 DEF SameRange, Task, TaskStatus
  <2>3. tasks'[t] = GrantLease(u)
    BY <1>1
  <2> HIDE DEF u
  <2>4. QED
    BY <2>1, <2>2, <2>3, GrantLeaseFacts DEF SameRange, Task
<1>4. \A t \in TaskID : t \notin Drained => tasks'[t] = tasks[t]
  BY <1>1
<1>5. pendingQ \in Seq(TaskID)
  BY DEF Inv, TypeOK, StateOf
<1>6. /\ pendingQ' \in Seq(TaskID)
      /\ \A t : Queued(t, pendingQ) => Queued(t, pendingQ') \/ \E k \in 1..n : pendingQ[k] = t
  BY <1>1, <1>5, DropFacts
<1>7. \A t \in TaskID : IsPending(t) /\ t \notin Drained => Queued(t, pendingQ')
  BY <1>6 DEF Inv, ImageOK, QueueOK, IsPending, Known
<1> HIDE DEF Drained
<1>8. tasks' \in [TaskID -> Task \cup {None}]
  <2>1. \A t \in TaskID : tasks'[t] \in Task \cup {None}
    BY <1>3, <1>4 DEF Inv, TypeOK, StateOf
  <2>2. QED
    BY <1>1, <2>1
<1>9. KeepsRanges(tasks, tasks') /\ GrantedOK(tasks')
  BY <1>2, <1>3, <1>4, NoneAssumption DEF KeepsRanges, GrantedOK, SameRange
<1>10. QueueOK(tasks', pendingQ')
  BY <1>3, <1>4, <1>7 DEF QueueOK, IsPending, Known
<1>11. QED
  BY <1>1, <1>6, <1>8, <1>9, <1>10 DEF Kept, KeepsShards, Inv, TypeOK, StateOf

-----------------------------------------------------------------------------
(* Handlers that change a range.                                           *)

\* The first renewal of a whole-shard task fixes its end at the length of the
\* listing, so it owns the items it owned before.
LEMMA RenewLeaseStep ==
  ASSUME Inv, NEW t \in TaskID, tasks[t] # None, NEW f \in Nat,
         RenewLease(t, f, ShardSize[tasks[t].shard]), ShardSize[tasks[t].shard] > 0
  PROVE  ImageOK(jobs', tasks', pendingQ') /\ Fenced'
<1> DEFINE n == ShardSize[tasks[t].shard]
           e == IF tasks[t].end < 0 /\ n > 0 THEN n ELSE tasks[t].end
           u == Renewed(tasks[t], f, n)
<1>1. tasks[t] \in Task /\ n \in Nat /\ n > 0
  BY SizeAssumption DEF Inv, TypeOK, StateOf, Task
<1>2. /\ u \in Task /\ u.status = tasks[t].status /\ u.granted >= tasks[t].granted
      /\ u.job = tasks[t].job /\ u.shard = tasks[t].shard /\ u.start = tasks[t].start
      /\ u.gen = tasks[t].gen /\ u.split = tasks[t].split /\ u.end = e
  <2>1. /\ u \in Task /\ u.status = tasks[t].status /\ u.granted >= tasks[t].granted
        /\ SameRange(u, [tasks[t] EXCEPT !.end = e])
    BY <1>1, RenewedFacts
  <2> HIDE DEF u, e
  <2>2. QED
    BY <1>1, <2>1 DEF SameRange, Task
<1>3. tasks' = [tasks EXCEPT ![t] = u] /\ UNCHANGED <<jobs, pendingQ, calls>>
  BY DEF RenewLease
<1> HIDE DEF u
<1>4. /\ tasks \in [TaskID -> Task \cup {None}] /\ tasks'[t] = u /\ u # None
      /\ \A v \in TaskID : v # t => tasks'[v] = tasks[v]
      /\ tasks' \in [TaskID -> Task \cup {None}]
  BY <1>2, <1>3, NoneAssumption DEF Inv, TypeOK, StateOf
<1>5. /\ tasks[t].start <= tasks[t].granted
      /\ tasks[t].end = -1 => tasks[t].start = 0 /\ ~tasks[t].split
      /\ tasks[t].end # -1 => tasks[t].start < tasks[t].end /\ tasks[t].end <= n
  BY DEF Inv, ImageOK, LeaseOK, LeaseIn
<1>6. LeaseIn(u)
  <2>1. /\ tasks[t].start \in Nat /\ tasks[t].granted \in Nat /\ u.granted \in Nat
        /\ tasks[t].end \in Nat \cup {-1}
    BY <1>1, <1>2 DEF Task
  <2>2. e # -1 /\ tasks[t].start < e /\ e <= n
    BY <1>1, <1>5, <2>1
  <2> HIDE DEF e
  <2>3. u.start <= u.granted
    BY <1>2, <1>5, <2>1
  <2>4. u.end # -1 /\ u.start < u.end /\ u.end <= ShardSize[u.shard]
    BY <1>2, <2>2
  <2>5. QED
    BY <2>3, <2>4 DEF LeaseIn
<1>7. LeaseOK(tasks')
  BY <1>4, <1>6 DEF LeaseOK, Inv, ImageOK
<1>8. OwnerOK(jobs', tasks')
  BY <1>2, <1>3, <1>4 DEF OwnerOK, Inv, ImageOK
<1>9. QueueOK(tasks', pendingQ')
  BY <1>2, <1>3, <1>4 DEF QueueOK, Inv, ImageOK
<1>10. ASSUME NEW v \in TaskID, NEW j, NEW s \in Shard, NEW i \in 0..(ShardSize[s] - 1)
       PROVE  Owns(tasks'[v], j, s, i) <=> Owns(tasks[v], j, s, i)
  <2>1. CASE v # t
    BY <1>4, <2>1
  <2>2. CASE v = t /\ tasks[t].shard = s
    BY <1>1, <1>2, <1>4, <2>2 DEF Owns, Task
  <2>3. CASE v = t /\ tasks[t].shard # s
    BY <1>2, <1>4, <2>3 DEF Owns
  <2>4. QED
    BY <2>1, <2>2, <2>3
<1>11. Tiled(jobs', tasks')
  <2> SUFFICES ASSUME NEW j \in JobID, jobs[j] # None, NEW s \in jobs[j].shards,
                      NEW i \in 0..(ShardSize[s] - 1)
               PROVE  \E v \in TaskID :
                        /\ Owns(tasks'[v], j, s, i)
                        /\ \A x \in TaskID : Owns(tasks'[x], j, s, i) => x = v
    BY <1>3 DEF Tiled
  <2>1. s \in Shard
    BY DEF Inv, TypeOK, StateOf, Job
  <2>2. PICK v \in TaskID : /\ Owns(tasks[v], j, s, i)
                            /\ \A x \in TaskID : Owns(tasks[x], j, s, i) => x = v
    BY DEF Inv, ImageOK, Tiled
  <2>3. QED
    BY <1>10, <2>1, <2>2
<1>12. Fenced'
  <2> SUFFICES ASSUME NEW c \in Call, calls[c] # None
               PROVE  FenceOK(calls[c], tasks'[calls[c].task])
    BY <1>3 DEF Fenced
  <2>1. calls[c].task \in TaskID
    BY DEF Inv, TypeOK, Report
  <2>2. CASE calls[c].task # t
    BY <1>4, <2>1, <2>2 DEF Inv, Fenced
  <2>3. CASE calls[c].task = t
    <3>1. tasks[t].split => e = tasks[t].end
      BY <1>1, <1>5 DEF Task
    <3>2. QED
      BY <1>2, <1>4, <2>3, <3>1 DEF Inv, Fenced, FenceOK
  <2>4. QED
    BY <2>2, <2>3
<1>13. QED
  BY <1>3, <1>4, <1>7, <1>8, <1>9, <1>11, <1>12 DEF ImageOK, StateOf, Inv, TypeOK

\* The split point of a steal lies strictly inside the un-granted tail.
LEMMA SplitPoint ==
  ASSUME NEW g \in Nat, NEW e \in Nat, e - g >= minStealItems
  PROVE  g + (e - g) \div 2 \in Nat /\ g < g + (e - g) \div 2 /\ g + (e - g) \div 2 < e
BY DEF minStealItems

\* A steal splits the victim's range past what was granted: of the items the
\* victim owned, it keeps those below the split point and the new task owns
\* the rest.
LEMMA PollStealStep ==
  ASSUME Inv, NEW w \in Worker, NEW v \in TaskID, NEW id \in TaskID, PollSteal(w, v, id)
  PROVE  ImageOK(jobs', tasks', pendingQ') /\ Fenced'
<1> DEFINE at == tasks[v].granted + Ungranted(v) \div 2
           x == Shrunk(tasks[v], at)
           y == StolenTail(tasks[v], at)
           z == Assign(y, w)
<1>1. /\ tasks[v] \in Task /\ tasks[v] # None /\ tasks[id] = None /\ v # id
      /\ tasks[v].end \in Nat /\ tasks[v].end - tasks[v].granted >= minStealItems
  <2>1. IsVictim(v) /\ tasks[id] = None
    BY DEF PollSteal, Known
  <2>2. /\ tasks[v] # None /\ tasks[v].end >= 0
        /\ tasks[v].end - tasks[v].granted >= minStealItems
    BY <2>1 DEF IsVictim, Splittable, InFlight, Known, Ungranted
  <2>3. tasks[v] \in Task
    BY <2>2 DEF Inv, TypeOK, StateOf
  <2>4. tasks[v].end \in Nat
    BY <2>2, <2>3 DEF Task
  <2>5. QED
    BY <2>1, <2>2, <2>3, <2>4
<1>2. at \in Nat /\ tasks[v].granted < at /\ at < tasks[v].end
  BY <1>1, SplitPoint DEF Ungranted, Task
<1>3. tasks' = [tasks EXCEPT ![v] = x, ![id] = z]
      /\ jobs' = [jobs EXCEPT ![tasks[v].job].total = @ + 1]
      /\ UNCHANGED <<pendingQ, calls>>
  BY DEF PollSteal, StolenCounted
<1>4. /\ tasks[v].start <= tasks[v].granted
      /\ tasks[v].end <= ShardSize[tasks[v].shard]
      /\ jobs[tasks[v].job] # None /\ tasks[v].shard \in jobs[tasks[v].job].shards
      /\ tasks[v].job \in JobID
  <2>1. tasks[v].job \in JobID
    BY <1>1 DEF Task
  <2>2. /\ tasks[v].start <= tasks[v].granted
        /\ tasks[v].end # -1 => tasks[v].end <= ShardSize[tasks[v].shard]
    BY <1>1 DEF Inv, ImageOK, LeaseOK, LeaseIn
  <2>3. tasks[v].end # -1
    BY <1>1
  <2>4. jobs[tasks[v].job] # None /\ tasks[v].shard \in jobs[tasks[v].job].shards
    BY <1>1 DEF Inv, ImageOK, OwnerOK
  <2>5. QED
    BY <2>1, <2>2, <2>3, <2>4
<1> HIDE DEF at
<1>5. /\ x \in Task /\ x.job = tasks[v].job /\ x.shard = tasks[v].shard
      /\ x.start = tasks[v].start /\ x.end = at /\ x.gen = tasks[v].gen + 1
      /\ x.split /\ x.status = tasks[v].status /\ x.granted = tasks[v].granted
  BY <1>1, <1>2, ShrunkFacts
<1>6. /\ y \in Task /\ y.job = tasks[v].job /\ y.shard = tasks[v].shard
      /\ y.start = at /\ y.end = tasks[v].end /\ y.gen = 0
      /\ y.split /\ y.granted = at
  BY <1>1, <1>2, StolenTailFacts
<1> HIDE DEF y
<1>7. /\ z \in Task /\ z.job = tasks[v].job /\ z.shard = tasks[v].shard
      /\ z.start = at /\ z.end = tasks[v].end /\ z.gen = 0
      /\ z.split /\ z.granted >= at /\ z.status = "assigned"
  BY <1>6, AssignFacts DEF SameRange
<1> HIDE DEF x, z
<1>8. /\ tasks'[v] = x /\ tasks'[id] = z /\ x # None /\ z # None
      /\ \A t \in TaskID : t # v /\ t # id => tasks'[t] = tasks[t]
      /\ tasks' \in [TaskID -> Task \cup {None}]
  BY <1>1, <1>3, <1>5, <1>7, NoneAssumption DEF Inv, TypeOK, StateOf
<1>9. jobs' \in [JobID -> Job \cup {None}] /\ KeepsShards(jobs, jobs')
  <2> DEFINE j == tasks[v].job
             b == [jobs[j] EXCEPT !.total = @ + 1]
  <2>1. jobs[j] \in Job
    BY <1>4 DEF Inv, TypeOK, StateOf
  <2>2. b \in Job /\ b.shards = jobs[j].shards
    BY <2>1 DEF Job
  <2>3. jobs' = [jobs EXCEPT ![j] = b]
    BY <1>3
  <2> HIDE DEF b
  <2>4. QED
    BY <1>4, <2>1, <2>2, <2>3, NoneAssumption DEF KeepsShards, Inv, TypeOK, StateOf
<1>10. LeaseOK(tasks')
  <2>1. LeaseIn(x)
    <3>1. /\ x.start = tasks[v].start /\ x.granted = tasks[v].granted
          /\ x.end = at /\ x.shard = tasks[v].shard
      BY <1>5
    <3>2. /\ tasks[v].start \in Nat /\ tasks[v].granted \in Nat /\ tasks[v].end \in Nat
          /\ ShardSize[tasks[v].shard] \in Nat
      BY <1>1, SizeAssumption DEF Task
    <3>3. QED
      BY <1>2, <1>4, <3>1, <3>2 DEF LeaseIn
  <2>2. LeaseIn(z)
    <3>1. z.start = at /\ z.granted >= at /\ z.end = tasks[v].end /\ z.shard = tasks[v].shard
      BY <1>7
    <3>2. /\ at \in Nat /\ tasks[v].end \in Nat /\ at < tasks[v].end
          /\ tasks[v].end <= ShardSize[tasks[v].shard]
      BY <1>1, <1>2, <1>4
    <3>3. QED
      BY SMTT(30), <3>1, <3>2 DEF LeaseIn
  <2>3. QED
    BY <1>8, <2>1, <2>2 DEF LeaseOK, Inv, ImageOK
<1>11. OwnerOK(jobs', tasks')
  <2> SUFFICES ASSUME NEW t \in TaskID, tasks'[t] # None
               PROVE  jobs'[tasks'[t].job] # None /\ tasks'[t].shard \in jobs'[tasks'[t].job].shards
    BY DEF OwnerOK
  <2>1. CASE t = v \/ t = id
    BY SMTT(30), <1>4, <1>5, <1>7, <1>8, <1>9, <2>1 DEF KeepsShards
  <2>2. CASE t # v /\ t # id
    <3>1. tasks'[t] = tasks[t] /\ tasks[t].job \in JobID
      BY <1>8, <2>2 DEF Inv, TypeOK, StateOf, Task
    <3>2. jobs[tasks[t].job] # None /\ tasks[t].shard \in jobs[tasks[t].job].shards
      BY <3>1 DEF Inv, ImageOK, OwnerOK
    <3>3. QED
      BY <1>9, <3>1, <3>2 DEF KeepsShards
  <2>3. QED
    BY <2>1, <2>2
<1>12. QueueOK(tasks', pendingQ')
  BY <1>1, <1>3, <1>5, <1>7, <1>8 DEF QueueOK, Inv, ImageOK
<1>13. ASSUME NEW j, NEW s, NEW i \in Nat
       PROVE  /\ Owns(x, j, s, i) => Owns(tasks[v], j, s, i) /\ i < at
              /\ Owns(z, j, s, i) => Owns(tasks[v], j, s, i) /\ at <= i
              /\ Owns(tasks[v], j, s, i) => IF i < at THEN Owns(x, j, s, i)
                                            ELSE Owns(z, j, s, i)
  <2>1. /\ x # None /\ x.job = tasks[v].job /\ x.shard = tasks[v].shard
        /\ x.start = tasks[v].start /\ x.end = at
    BY <1>5, <1>8
  <2>2. /\ z # None /\ z.job = tasks[v].job /\ z.shard = tasks[v].shard
        /\ z.start = at /\ z.end = tasks[v].end
    BY <1>7, <1>8
  <2>3. /\ tasks[v] # None /\ tasks[v].start \in Nat /\ tasks[v].granted \in Nat
        /\ tasks[v].end \in Nat
    BY <1>1 DEF Task
  <2>4. at \in Nat /\ tasks[v].start <= at /\ at < tasks[v].end
    BY <1>2, <1>4, <2>3
  <2>5. QED
    BY <2>1, <2>2, <2>3, <2>4 DEF Owns
<1>14. Tiled(jobs', tasks')
  <2> SUFFICES ASSUME NEW j \in JobID, jobs'[j] # None, NEW s \in jobs'[j].shards,
                      NEW i \in 0..(ShardSize[s] - 1)
               PROVE  \E t \in TaskID :
                        /\ Owns(tasks'[t], j, s, i)
                        /\ \A u \in TaskID : Owns(tasks'[u], j, s, i) => u = t
    BY DEF Tiled
  <2>1. jobs[j] # None /\ s \in jobs[j].shards /\ i \in Nat
    BY <1>9 DEF KeepsShards
  <2>2. PICK o \in TaskID : /\ Owns(tasks[o], j, s, i)
                            /\ \A u \in TaskID : Owns(tasks[u], j, s, i) => u = o
    BY <2>1 DEF Inv, ImageOK, Tiled
  <2>3. o # id
    BY <1>1, <2>2 DEF Owns
  <2>4. CASE o # v
    BY <1>8, <1>13, <2>1, <2>2, <2>3, <2>4
  <2>5. CASE o = v /\ i < at
    <3>1. Owns(tasks'[v], j, s, i)
      BY <1>8, <1>13, <2>1, <2>2, <2>5
    <3>2. ASSUME NEW u \in TaskID, Owns(tasks'[u], j, s, i)
          PROVE  u = v
      BY <1>2, <1>8, <1>13, <2>1, <2>2, <2>5, <3>2
    <3>3. QED
      BY <3>1, <3>2
  <2>6. CASE o = v /\ ~(i < at)
    <3>1. Owns(tasks'[id], j, s, i)
      BY <1>8, <1>13, <2>1, <2>2, <2>6
    <3>2. ASSUME NEW u \in TaskID, Owns(tasks'[u], j, s, i)
          PROVE  u = id
      BY <1>2, <1>8, <1>13, <2>1, <2>2, <2>6, <3>2
    <3>3. QED
      BY <3>1, <3>2
  <2>7. QED
    BY <2>4, <2>5, <2>6
<1>15. Fenced'
  <2> SUFFICES ASSUME NEW c \in Call, calls[c] # None
               PROVE  FenceOK(calls[c], tasks'[calls[c].task])
    BY <1>3 DEF Fenced
  <2>1. calls[c].task \in TaskID /\ calls[c].gen \in Nat
    BY DEF Inv, TypeOK, Report
  <2>2. calls[c].task # id
    BY <1>1 DEF Inv, Fenced, FenceOK
  <2>3. CASE calls[c].task # v
    BY <1>8, <2>1, <2>2, <2>3 DEF Inv, Fenced
  <2>4. CASE calls[c].task = v
    <3>1. calls[c].start = tasks[v].start /\ calls[c].gen <= tasks[v].gen /\ tasks[v].gen \in Nat
      BY <1>1, <2>4 DEF Inv, Fenced, FenceOK, Task
    <3>2. tasks'[v] = x /\ x # None /\ x.start = tasks[v].start /\ x.gen = tasks[v].gen + 1
      BY <1>5, <1>8
    <3>3. calls[c].gen \in Nat
      BY DEF Inv, TypeOK, Report
    <3>4. QED
      BY <2>4, <3>1, <3>2, <3>3 DEF FenceOK
  <2>5. QED
    BY <2>3, <2>4
<1>16. QED
  BY <1>3, <1>8, <1>9, <1>10, <1>11, <1>12, <1>14, <1>15
     DEF ImageOK, StateOf, Inv, TypeOK

\* A submission adds a job that did not exist, with one whole-shard task for
\* each of its shards.
LEMMA SubmitStep ==
  ASSUME Inv, NEW j \in JobID, NEW p \in Priority, NEW T \in SUBSET TaskID,
         NEW q \in SetToSeqs(T), NEW shardOf \in Injection(T, Shard),
         Submit(j, p, q, shardOf)
  PROVE  ImageOK(jobs', tasks', pendingQ') /\ Fenced'
<1> DEFINE b == [status |-> "running", priority |-> p,
                 shards |-> {shardOf[t] : t \in DOMAIN shardOf},
                 total |-> Len(q), done |-> 0, failed |-> 0]
<1>1. /\ DOMAIN shardOf = T /\ \A t \in T : shardOf[t] \in Shard
      /\ \A t, u \in T : shardOf[t] = shardOf[u] => t = u
  BY DEF Injection, IsInjective
<1>2. /\ jobs[j] = None /\ \A t \in T : tasks[t] = None
      /\ jobs' = [jobs EXCEPT ![j] = b]
      /\ tasks' = [t \in TaskID |-> IF t \in T THEN RootTask(j, shardOf[t], p) ELSE tasks[t]]
      /\ pendingQ' = pendingQ \o q /\ UNCHANGED calls
  BY <1>1 DEF Submit, Known
<1>3. q \in Seq(TaskID) /\ Len(q) \in Nat /\ \A t \in T : Queued(t, q)
  BY OrderFacts
<1>4. /\ pendingQ' \in Seq(TaskID)
      /\ \A t : Queued(t, pendingQ) \/ Queued(t, q) => Queued(t, pendingQ')
  BY <1>2, <1>3, ConcatFacts DEF Inv, TypeOK, StateOf
<1>5. b \in Job /\ b.shards = {shardOf[t] : t \in T}
  <2> DEFINE S == {shardOf[t] : t \in DOMAIN shardOf}
  <2>1. S \in SUBSET Shard /\ S = {shardOf[t] : t \in T}
    BY <1>1
  <2>2. "running" \in JobStatus /\ 0 \in Nat
    BY DEF JobStatus
  <2>3. b.shards = S
    OBVIOUS
  <2> HIDE DEF S
  <2>4. b = [status |-> "running", priority |-> p, shards |-> S,
             total |-> Len(q), done |-> 0, failed |-> 0]
    BY DEF S
  <2> HIDE DEF b
  <2>5. b \in Job
    BY <1>3, <2>1, <2>2, <2>4 DEF Job
  <2>6. QED
    BY <2>1, <2>3, <2>5
<1> HIDE DEF b
<1>6. /\ jobs' \in [JobID -> Job \cup {None}] /\ jobs'[j] = b /\ b # None
      /\ \A k \in JobID : k # j => jobs'[k] = jobs[k]
  BY <1>2, <1>5, NoneAssumption DEF Inv, TypeOK, StateOf
<1>7. ASSUME NEW t \in T
      PROVE  /\ tasks'[t] \in Task /\ tasks'[t] # None /\ tasks'[t].job = j
             /\ tasks'[t].shard = shardOf[t] /\ tasks'[t].start = 0 /\ tasks'[t].end = -1
             /\ tasks'[t].granted = 0 /\ ~tasks'[t].split
  <2>1. tasks'[t] = RootTask(j, shardOf[t], p) /\ shardOf[t] \in Shard
    BY <1>1, <1>2
  <2> DEFINE x == RootTask(j, shardOf[t], p)
  <2>2. /\ x \in Task /\ x.job = j /\ x.shard = shardOf[t] /\ x.start = 0 /\ x.end = -1
        /\ x.granted = 0 /\ ~x.split
    BY <2>1, RootTaskFacts
  <2>3. tasks'[t] = x
    BY <2>1
  <2> HIDE DEF x
  <2>4. x # None
    BY <2>2, NoneAssumption
  <2>5. QED
    BY <2>2, <2>3, <2>4
<1>8. \A t \in TaskID : t \notin T => tasks'[t] = tasks[t]
  BY <1>2
<1>9. tasks' \in [TaskID -> Task \cup {None}]
  <2>1. \A t \in TaskID : tasks'[t] \in Task \cup {None}
    BY <1>7, <1>8 DEF Inv, TypeOK, StateOf
  <2>2. QED
    BY <1>2, <2>1
<1>10. LeaseOK(tasks')
  <2> SUFFICES ASSUME NEW t \in TaskID, tasks'[t] # None
               PROVE  LeaseIn(tasks'[t])
    BY DEF LeaseOK
  <2>1. CASE t \in T
    BY <1>7, <2>1 DEF LeaseIn
  <2>2. CASE t \notin T
    <3>1. tasks'[t] = tasks[t]
      BY <1>8, <2>2
    <3>2. QED
      BY <3>1 DEF Inv, ImageOK, LeaseOK
  <2>3. QED
    BY <2>1, <2>2
<1>11. \A t \in TaskID : tasks[t] # None => tasks[t].job # j
  BY <1>2 DEF Inv, ImageOK, OwnerOK
<1>12. OwnerOK(jobs', tasks')
  <2> SUFFICES ASSUME NEW t \in TaskID, tasks'[t] # None
               PROVE  jobs'[tasks'[t].job] # None /\ tasks'[t].shard \in jobs'[tasks'[t].job].shards
    BY DEF OwnerOK
  <2>1. CASE t \in T
    BY <1>5, <1>6, <1>7, <2>1
  <2>2. CASE t \notin T
    <3>1. tasks'[t] = tasks[t] /\ tasks[t].job \in JobID /\ tasks[t].job # j
      BY <1>8, <1>11, <2>2 DEF Inv, TypeOK, StateOf, Task
    <3>2. QED
      BY <1>6, <3>1 DEF Inv, ImageOK, OwnerOK
  <2>3. QED
    BY <2>1, <2>2
<1>13. QueueOK(tasks', pendingQ')
  BY <1>3, <1>4, <1>8 DEF QueueOK, Inv, ImageOK
<1>14. Tiled(jobs', tasks')
  <2> SUFFICES ASSUME NEW k \in JobID, jobs'[k] # None, NEW s \in jobs'[k].shards,
                      NEW i \in 0..(ShardSize[s] - 1)
               PROVE  \E t \in TaskID :
                        /\ Owns(tasks'[t], k, s, i)
                        /\ \A u \in TaskID : Owns(tasks'[u], k, s, i) => u = t
    BY DEF Tiled
  <2>1. CASE k = j
    <3>1. PICK t \in T : shardOf[t] = s
      BY <1>5, <1>6, <2>1
    <3> i \in Nat
      BY <1>1, <3>1, SizeAssumption
    <3>2. Owns(tasks'[t], k, s, i)
      <4>1. /\ tasks'[t] # None /\ tasks'[t].job = j /\ tasks'[t].shard = shardOf[t]
            /\ tasks'[t].start = 0 /\ tasks'[t].end = -1
        BY <1>7
      <4>2. QED
        BY <2>1, <3>1, <4>1 DEF Owns
    <3>3. ASSUME NEW u \in TaskID, Owns(tasks'[u], k, s, i)
          PROVE  u = t
      <4>1. u \in T
        BY <1>8, <1>11, <2>1, <3>3 DEF Owns
      <4>2. QED
        BY <1>1, <1>7, <3>1, <3>3, <4>1 DEF Owns
    <3>4. QED
      BY <3>2, <3>3
  <2>2. CASE k # j
    <3>1. jobs[k] # None /\ s \in jobs[k].shards
      BY <1>6, <2>2
    <3>2. PICK t \in TaskID : /\ Owns(tasks[t], k, s, i)
                              /\ \A u \in TaskID : Owns(tasks[u], k, s, i) => u = t
      BY <3>1 DEF Inv, ImageOK, Tiled
    <3>3. \A u \in TaskID : Owns(tasks'[u], k, s, i) <=> Owns(tasks[u], k, s, i)
      BY <1>2, <1>7, <1>8, <2>2 DEF Owns
    <3>4. QED
      BY <3>2, <3>3
  <2>3. QED
    BY <2>1, <2>2
<1>15. Fenced'
  <2>0. calls' = calls
    BY <1>2
  <2> SUFFICES ASSUME NEW c \in Call, calls[c] # None
               PROVE  FenceOK(calls[c], tasks'[calls[c].task])
    BY <2>0 DEF Fenced
  <2>1. calls[c].task \in TaskID /\ tasks[calls[c].task] # None
    BY DEF Inv, TypeOK, Report, Fenced, FenceOK
  <2>2. tasks'[calls[c].task] = tasks[calls[c].task]
    BY <1>2, <1>8, <2>1
  <2>3. QED
    BY <2>1, <2>2 DEF Inv, Fenced
<1>16. QED
  BY <1>4, <1>6, <1>9, <1>10, <1>12, <1>13, <1>14, <1>15 DEF ImageOK, StateOf

-----------------------------------------------------------------------------
(* The invariant is inductive.                                             *)

\* persistLocked copies the live state.
LEMMA PersistImage ==
  ASSUME ImageOK(jobs', tasks', pendingQ'), Persist
  PROVE  ImageOK(durable'.jobs, durable'.tasks, durable'.pendingQ)
BY DEF Persist

\* A Kept step that persists, or leaves the durable image alone, keeps Inv.
LEMMA KeptInv ==
  ASSUME Inv, Kept, Persist \/ UNCHANGED durable,
         \A c \in Call : calls'[c] = None \/ calls'[c] = calls[c],
         calls' \in [Call -> Report \cup {None}]
  PROVE  Inv'
<1>1. ImageOK(jobs', tasks', pendingQ')
  BY KeptImage DEF Inv, Kept, GrantedOK
<1>2. Fenced'
  BY KeptFence DEF Inv, Kept
<1>3. ImageOK(durable'.jobs, durable'.tasks, durable'.pendingQ)
  BY <1>1, PersistImage DEF Inv
<1>4. QED
  BY <1>1, <1>2, <1>3 DEF Inv, TypeOK, ImageOK, Kept

\* The empty scheduler satisfies Inv.
LEMMA InvInit == Init => Inv
<1> SUFFICES ASSUME Init PROVE Inv
  OBVIOUS
<1>1. StateOf(jobs, tasks, pendingQ)
  BY DEF Init, StateOf
<1>2. ImageOK(jobs, tasks, pendingQ)
  BY <1>1 DEF Init, ImageOK, LeaseOK, OwnerOK, Tiled, QueueOK
<1>3. /\ durable.jobs = jobs /\ durable.tasks = tasks /\ durable.pendingQ = pendingQ
      /\ calls \in [Call -> Report \cup {None}] /\ fired \in [JobID -> 0..FiredCap]
  BY DEF Init, FiredCap
<1>4. Fenced
  BY DEF Init, Fenced
<1>5. QED
  BY <1>1, <1>2, <1>3, <1>4 DEF Inv, TypeOK

\* The first half of ReportResult remembers its task as it is.
LEMMA ReportBeginStep ==
  ASSUME Inv, NEW c \in Call, NEW t \in TaskID, NEW w \in Worker, NEW err \in BOOLEAN,
         ReportBegin(c, t, w, err)
  PROVE  Inv'
<1> DEFINE r == [task |-> t, worker |-> w, err |-> err, start |-> tasks[t].start,
                 end |-> tasks[t].end, split |-> tasks[t].split, gen |-> tasks[t].gen]
<1>1. tasks[t] # None /\ tasks[t] \in Task
  BY DEF ReportBegin, Known, Inv, TypeOK, StateOf
<1>2. r \in Report
  BY <1>1 DEF Report, Task
<1>3. calls' = [calls EXCEPT ![c] = r] /\ UNCHANGED <<jobs, tasks, pendingQ, durable, fired>>
  BY DEF ReportBegin
<1>4. r.task = t /\ r.start = tasks[t].start /\ r.gen = tasks[t].gen /\ r.gen \in Nat
      /\ r.split = tasks[t].split /\ r.end = tasks[t].end
  BY <1>1 DEF Task
<1> HIDE DEF r
<1>5. /\ calls' \in [Call -> Report \cup {None}] /\ calls'[c] = r
      /\ \A d \in Call : d # c => calls'[d] = calls[d]
  BY <1>2, <1>3 DEF Inv, TypeOK
<1>6. Fenced'
  <2>1. tasks' = tasks
    BY <1>3
  <2> SUFFICES ASSUME NEW d \in Call, calls'[d] # None
               PROVE  FenceOK(calls'[d], tasks[calls'[d].task])
    BY <2>1 DEF Fenced
  <2>2. CASE d = c
    <3>1. calls'[d] = r /\ tasks[r.task] = tasks[t]
      BY <1>4, <1>5, <2>2
    <3>2. FenceOK(r, tasks[t])
      BY <1>1, <1>4 DEF FenceOK
    <3>3. QED
      BY <3>1, <3>2
  <2>3. CASE d # c
    BY <1>5, <2>3 DEF Inv, Fenced
  <2>4. QED
    BY <2>2, <2>3
<1>7. ImageOK(jobs', tasks', pendingQ')
  <2>1. jobs' = jobs /\ tasks' = tasks /\ pendingQ' = pendingQ
    BY <1>3
  <2>2. QED
    BY <2>1 DEF Inv
<1>8. ImageOK(durable.jobs, durable.tasks, durable.pendingQ)'
  <2>1. durable' = durable
    BY <1>3
  <2>2. QED
    BY <2>1 DEF Inv
<1>9. TypeOK'
  BY <1>3, <1>5 DEF Inv, TypeOK, StateOf
<1>10. QED
  BY <1>6, <1>7, <1>8, <1>9 DEF Inv

\* Every handler preserves Inv: one step per action of Next.
LEMMA InvNext == Inv /\ [Next]_vars => Inv'
<1> SUFFICES ASSUME Inv, [Next]_vars PROVE Inv'
  OBVIOUS
<1> USE DEF Inv
<1>1. CASE SubmitAny
  <2>1. PICK j \in JobID, p \in Priority, T \in SUBSET TaskID \ {{}} :
          \E q \in SetToSeqs(T), shardOf \in Injection(T, Shard) : Submit(j, p, q, shardOf)
    BY <1>1 DEF SubmitAny
  <2>2. PICK q \in SetToSeqs(T), shardOf \in Injection(T, Shard) : Submit(j, p, q, shardOf)
    BY <2>1
  <2>3. ImageOK(jobs', tasks', pendingQ') /\ Fenced'
    BY <2>2, SubmitStep
  <2>4. Persist /\ UNCHANGED <<calls, fired>>
    BY <2>2 DEF Submit
  <2>5. QED
    BY <2>3, <2>4, PersistImage DEF TypeOK, ImageOK
<1>2. ASSUME NEW w \in Worker, NEW local \in SUBSET Shard, NEW k \in DOMAIN pendingQ,
             PollPending(w, local, k)
      PROVE  Inv'
  <2>1. Kept
    BY <1>2, PollPendingKept
  <2>2. Persist /\ UNCHANGED calls
    BY <1>2 DEF PollPending
  <2>3. QED
    BY <2>1, <2>2, KeptInv DEF TypeOK
<1>3. ASSUME NEW w \in Worker, NEW v \in TaskID, NEW id \in TaskID, PollSteal(w, v, id)
      PROVE  Inv'
  <2>1. ImageOK(jobs', tasks', pendingQ') /\ Fenced'
    BY <1>3, PollStealStep
  <2>2. Persist /\ UNCHANGED <<calls, fired>>
    BY <1>3 DEF PollSteal
  <2>3. QED
    BY <2>1, <2>2, PersistImage DEF TypeOK, ImageOK
<1>4. CASE UNCHANGED vars
  <2>1. Kept
    BY <1>4, UnchangedKept DEF vars
  <2>2. QED
    BY <1>4, <2>1, KeptInv DEF vars, TypeOK
<1>5. ASSUME NEW t \in TaskID, StartTask(t)
      PROVE  Inv'
  <2>1. Kept
    BY <1>5, StartTaskKept
  <2>2. Persist /\ UNCHANGED calls
    BY <1>5 DEF StartTask
  <2>3. QED
    BY <2>1, <2>2, KeptInv DEF TypeOK
<1>6. CASE RenewAny
  <2>1. PICK t \in TaskID : /\ Known(t)
                            /\ \E f \in 0..(ShardSize[tasks[t].shard] - 1) :
                                 RenewLease(t, f, ShardSize[tasks[t].shard])
    BY <1>6 DEF RenewAny
  <2>2. PICK f \in 0..(ShardSize[tasks[t].shard] - 1) :
          RenewLease(t, f, ShardSize[tasks[t].shard])
    BY <2>1
  <2>3. tasks[t] # None /\ ShardSize[tasks[t].shard] \in Nat
    BY <2>1, SizeAssumption DEF Known, TypeOK, StateOf, Task
  <2>4. f \in Nat /\ ShardSize[tasks[t].shard] > 0
    BY <2>3
  <2>5. ImageOK(jobs', tasks', pendingQ') /\ Fenced'
    BY <2>2, <2>3, <2>4, RenewLeaseStep
  <2>6. Persist /\ UNCHANGED <<calls, fired>>
    BY <2>2 DEF RenewLease
  <2>7. QED
    BY <2>5, <2>6, PersistImage DEF TypeOK, ImageOK
<1>7. ASSUME NEW c \in Call, NEW t \in TaskID, NEW w \in Worker, NEW err \in BOOLEAN,
             ReportBegin(c, t, w, err)
      PROVE  Inv'
  BY <1>7, ReportBeginStep
<1>8. ASSUME NEW c \in Call, ReportAbort(c)
      PROVE  Inv'
  <2>1. /\ UNCHANGED <<jobs, tasks, pendingQ, fired, durable>>
        /\ calls' = [calls EXCEPT ![c] = None]
    BY <1>8 DEF ReportAbort
  <2>2. Kept
    BY <2>1, UnchangedKept
  <2>3. QED
    BY <2>1, <2>2, KeptInv DEF TypeOK
<1>9. ASSUME NEW c \in Call, ReportFinish(c)
      PROVE  Inv'
  <2>1. Kept
    BY <1>9, ReportFinishKept
  <2>2. calls' = [calls EXCEPT ![c] = None] /\ (Persist \/ UNCHANGED durable)
    BY <1>9 DEF ReportFinish, MarkDuplicate, MarkDone, MarkRetry, MarkFailed
  <2>3. QED
    BY <2>1, <2>2, KeptInv DEF TypeOK
<1>10. ASSUME NEW w \in Worker, NEW q, RebalanceWorker(w, q)
       PROVE  Inv'
  <2>1. Kept
    BY <1>10, RebalanceWorkerKept
  <2>2. UNCHANGED calls /\ (Persist \/ UNCHANGED durable)
    BY <1>10 DEF RebalanceWorker
  <2>3. QED
    BY <2>1, <2>2, KeptInv DEF TypeOK
<1>11. ASSUME NEW n, DrainPending(n)
       PROVE  Inv'
  <2>1. Kept
    BY <1>11, DrainPendingKept
  <2>2. Persist /\ UNCHANGED calls
    BY <1>11 DEF DrainPending
  <2>3. QED
    BY <2>1, <2>2, KeptInv DEF TypeOK
<1>12. CASE Restart
  <2>1. ImageOK(jobs', tasks', pendingQ') /\ UNCHANGED durable
    BY <1>12 DEF Restart
  <2>2. ImageOK(durable'.jobs, durable'.tasks, durable'.pendingQ)
    BY <2>1
  <2>3. calls' \in [Call -> Report \cup {None}] /\ fired' \in [JobID -> 0..FiredCap] /\ Fenced'
    <3>1. calls' = [d \in Call |-> None] /\ fired' = [j \in JobID |-> 0]
      BY <1>12 DEF Restart
    <3>2. \A d \in Call : calls'[d] = None
      BY <3>1
    <3>3. Fenced'
      BY <3>2 DEF Fenced
    <3>4. QED
      BY <3>1, <3>3 DEF FiredCap
  <2>4. QED
    BY <2>1, <2>2, <2>3 DEF TypeOK, ImageOK
<1>13. QED
  BY <1>1, <1>2, <1>3, <1>4, <1>5, <1>6, <1>7, <1>8, <1>9, <1>10, <1>11, <1>12
     DEF Next, PollNone

\* Inv holds in every reachable state, through any interleaving of handlers.
THEOREM InvCorrect == Spec => []Inv
BY InvInit, InvNext, PTL DEF Spec

-----------------------------------------------------------------------------
(* The properties.                                                         *)

\* Whatever clients do, the scheduler's variables and its durable image keep
\* their types and the retry budget (every handler of scheduler.go).
THEOREM TypeCorrect == Spec => []TypeOK
<1>1. Inv => TypeOK
  BY DEF Inv
<1>2. QED
  BY <1>1, InvCorrect, PTL

\* Every item of a submitted shard belongs to exactly one task, for every
\* number of tasks, shard size, chunk and interleaving (stealLocked).
THEOREM TilingCorrect == Spec => []Tiling
<1>1. Inv => Tiling
  BY DEF Inv, ImageOK, Tiling
<1>2. QED
  BY <1>1, InvCorrect, PTL

\* A pending task is always in the queue (PollTasks, DrainPending, requeues).
THEOREM PendingIsQueuedCorrect == Spec => []PendingIsQueued
<1>1. Inv => PendingIsQueued
  BY QueuedFacts DEF Inv, ImageOK, QueueOK, PendingIsQueued, IsPending, Known, TypeOK, StateOf
<1>2. QED
  BY <1>1, InvCorrect, PTL

\* A report whose generation is current names the task's current output key.
THEOREM KeyFencedCorrect == Spec => []KeyFencedByGeneration
<1>1. Inv => KeyFencedByGeneration
  BY DEF Inv, Fenced, FenceOK, KeyFencedByGeneration, FinalResultKey
<1>2. QED
  BY <1>1, InvCorrect, PTL
=============================================================================

---------------------------- MODULE WorkStealing ----------------------------
(***************************************************************************)
(* The workers (internal/worker) driving the scheduler: polling, the       *)
(* concurrency semaphore, the lease-bounded item loop, staging and the     *)
(* result post, together with worker crashes, dead-worker rebalancing and  *)
(* coordinator restarts.                                                   *)
(*                                                                         *)
(* An attempt is one executeTask goroutine; it owns the ReportResult call  *)
(* with the same identity, so Call bounds how many exist at once.          *)
(* Faults names what the environment does beyond crashing a worker:        *)
(*   suspicion    a worker is declared dead while it still runs            *)
(*   lost         a poll's reply, a start or a result post is lost         *)
(*   renewLost    a renewal fails, before or after it reached the scheduler*)
(*   abort        a commit, decision or side effect of a report fails      *)
(*   coordinator  the coordinator crashes and restores its durable state   *)
(*   error        a listing or a staging write fails                       *)
(***************************************************************************)
EXTENDS Scheduler

CONSTANTS
  Faults,
  Concurrency,   \* capacity of the worker's semaphore
  MaxFailures    \* worker crashes, coordinator crashes and aborts together

FaultKinds == {"suspicion", "lost", "renewLost", "abort", "coordinator", "error"}

ASSUME FaultsAssumption == Faults \subseteq FaultKinds
ASSUME ConcurrencyAssumption == Concurrency \in Nat \ {0}
ASSUME MaxFailuresAssumption == MaxFailures \in Nat

VARIABLES
  att,       \* Call -> a worker's attempt at a task, or None
  dead,      \* the workers that have crashed; a replacement has a new id
  result,    \* TaskID -> the window of items in its recorded result, or None
  failures   \* failures so far, at most MaxFailures

workerVars == <<att, dead, result, failures>>
sysVars == <<vars, att, dead, result, failures>>

\* queued: waiting for the semaphore; loop: in the item loop; stage: the loop
\* is over; post: staged or failed, about to report; posted: the report is
\* in the coordinator; orphan: posted by a worker that has since crashed.
Phase == {"queued", "loop", "stage", "post", "posted", "orphan"}

Attempt == [worker : Worker, task : TaskID, pc : Phase, start : Nat,
            end : Nat \cup {-1}, bound : Nat, gen : Nat, i : Nat, err : BOOLEAN]

Window == [lo : Nat, hi : Nat]

Live(a) == att[a] # None
Holds(w, a) == Live(a) /\ att[a].worker = w /\ att[a].pc # "orphan"
Failing == failures < MaxFailures /\ failures' = failures + 1

-----------------------------------------------------------------------------
(* Worker steps.                                                           *)

\* assignmentFor, read from the task as the poll leaves it.
Assignment(w, t) ==
  [worker |-> w, task |-> t, pc |-> "queued", start |-> tasks'[t].start,
   end |-> tasks'[t].end, bound |-> tasks'[t].granted, gen |-> tasks'[t].gen,
   i |-> tasks'[t].start, err |-> FALSE]

FreeSlot(a) == ~Live(a) /\ calls[a] = None

\* The count pollLoop compares with the concurrency before it polls; nothing
\* is ever put in activeTasks.
ActiveTaskCount(w) == 0

\* poll, with the reply delivered: a goroutine is spawned for the task.
Poll(w, a) ==
  /\ w \notin dead /\ FreeSlot(a)
  /\ ActiveTaskCount(w) < Concurrency
  /\ \/ \E local \in SUBSET Shard, k \in DOMAIN pendingQ :
          /\ PollPending(w, local, k)
          /\ att' = [att EXCEPT ![a] = Assignment(w, pendingQ[k])]
     \/ \E v, id \in TaskID :
          /\ PollSteal(w, v, id)
          /\ att' = [att EXCEPT ![a] = Assignment(w, id)]
  /\ UNCHANGED <<dead, result, failures>>

\* The reply is lost: the task is assigned to a worker that does not know.
PollLost(w) ==
  /\ "lost" \in Faults
  /\ w \notin dead /\ ActiveTaskCount(w) < Concurrency
  /\ \/ \E local \in SUBSET Shard, k \in DOMAIN pendingQ : PollPending(w, local, k)
     \/ \E v, id \in TaskID : PollSteal(w, v, id)
  /\ UNCHANGED workerVars

PollIdle == PollNone /\ UNCHANGED workerVars

\* executeTask up to the loop: take the semaphore, post /start, list the
\* shard.  The listing is the same for everyone, so it needs no step.
Busy(w) == {a \in Call : Holds(w, a) /\ att[a].pc # "queued"}

Begin(a, listed) ==
  /\ Live(a) /\ att[a].pc = "queued"
  /\ Cardinality(Busy(att[a].worker)) < Concurrency
  /\ listed \/ "error" \in Faults
  /\ StartTask(att[a].task) \/ ("lost" \in Faults /\ UNCHANGED vars)
  /\ LET total == ShardSize[tasks[att[a].task].shard]
         e == att[a].end
     IN  att' = [att EXCEPT ![a].pc = IF listed THEN "loop" ELSE "post",
                            ![a].err = ~listed,
                            ![a].end = IF e >= 0 /\ e < total THEN e ELSE total]
  /\ UNCHANGED <<dead, result, failures>>

InLoop(a) == Live(a) /\ att[a].pc = "loop" /\ att[a].i < att[a].end

ProcessItem(a) ==
  /\ InLoop(a) /\ att[a].i < att[a].bound
  /\ att' = [att EXCEPT ![a].i = @ + 1]
  /\ UNCHANGED <<vars, dead, result, failures>>

\* At the bound the worker renews; it leaves the loop if it got no further.
Renew(a) ==
  /\ InLoop(a) /\ att[a].i >= att[a].bound
  /\ LET t == att[a].task
     IN  /\ RenewLease(t, att[a].i, ShardSize[tasks[t].shard])
         /\ att' = [att EXCEPT
              ![a].gen = tasks'[t].gen, ![a].bound = tasks'[t].granted,
              ![a].pc = IF tasks'[t].granted <= att[a].i THEN "stage" ELSE "loop"]
  /\ UNCHANGED <<dead, result, failures>>

\* A failed renewal also ends the loop, and the attempt still succeeds.
RenewFails(a) ==
  /\ "renewLost" \in Faults
  /\ InLoop(a) /\ att[a].i >= att[a].bound
  /\ LET t == att[a].task
     IN  RenewLease(t, att[a].i, ShardSize[tasks[t].shard]) \/ UNCHANGED vars
  /\ att' = [att EXCEPT ![a].pc = "stage"]
  /\ UNCHANGED <<dead, result, failures>>

Stage(a, stored) ==
  /\ Live(a)
  /\ att[a].pc = "stage" \/ (att[a].pc = "loop" /\ att[a].i >= att[a].end)
  /\ stored \/ "error" \in Faults
  /\ att' = [att EXCEPT ![a].pc = "post", ![a].err = ~stored]
  /\ UNCHANGED <<vars, dead, result, failures>>

\* The result post reaches the scheduler; a done task answers at once.
Post(a) ==
  /\ Live(a) /\ att[a].pc = "post"
  /\ IF tasks[att[a].task].status = "done"
     THEN att' = [att EXCEPT ![a] = None] /\ UNCHANGED vars
     ELSE /\ ReportBegin(a, att[a].task, att[a].worker, att[a].err)
          /\ att' = [att EXCEPT ![a].pc = "posted"]
  /\ UNCHANGED <<dead, result, failures>>

\* The post fails: executeTask logs it and gives up.
PostLost(a) ==
  /\ "lost" \in Faults
  /\ Live(a) /\ att[a].pc = "post"
  /\ att' = [att EXCEPT ![a] = None]
  /\ UNCHANGED <<vars, dead, result, failures>>

-----------------------------------------------------------------------------
(* Coordinator steps.                                                      *)

\* The handler finishes; a success it records makes the attempt's window the
\* task's result.
Finish(a) ==
  /\ ReportFinish(a)
  /\ LET t == calls[a].task
     IN  result' = IF ~calls[a].err /\ tasks[t].status # "done"
                   THEN [result EXCEPT ![t] = [lo |-> att[a].start, hi |-> att[a].i]]
                   ELSE result
  /\ att' = [att EXCEPT ![a] = None]
  /\ UNCHANGED <<dead, failures>>

\* The handler returns an error; executeTask logs it and gives up.
Abort(a) ==
  /\ "abort" \in Faults
  /\ ReportAbort(a)
  /\ att' = [att EXCEPT ![a] = None]
  /\ Failing
  /\ UNCHANGED <<dead, result>>

\* failureEventLoop on a Dead event.  Without suspicion the detector is
\* right: the worker has stopped and nothing it sent is still in progress.
Stopped(w) == w \in dead /\ \A a \in Call : Live(a) => att[a].worker # w

Rebalance(w) ==
  /\ "suspicion" \in Faults \/ Stopped(w)
  /\ \E T \in SUBSET TaskID : \E q \in SetToSeqs(T) : RebalanceWorker(w, q)
  /\ UNCHANGED workerVars

\* One worker always survives.
CrashWorker(w) ==
  /\ w \notin dead /\ dead \cup {w} # Worker
  /\ dead' = dead \cup {w}
  /\ att' = [a \in Call |->
               IF ~Holds(w, a) THEN att[a]
               ELSE IF att[a].pc = "posted" THEN [att[a] EXCEPT !.pc = "orphan"]
               ELSE None]
  /\ Failing
  /\ UNCHANGED <<vars, result>>

\* Workers outlive the coordinator; their reports in progress are lost.
RestartCoordinator ==
  /\ "coordinator" \in Faults
  /\ Restart
  /\ att' = [a \in Call |-> IF calls[a] # None THEN None ELSE att[a]]
  /\ Failing
  /\ UNCHANGED <<dead, result>>

-----------------------------------------------------------------------------
SysInit ==
  /\ Init
  /\ att = [a \in Call |-> None]
  /\ dead = {}
  /\ result = [t \in TaskID |-> None]
  /\ failures = 0

SysNext ==
  \/ SubmitAny /\ UNCHANGED workerVars
  \/ PollIdle
  \/ \E w \in Worker, a \in Call : Poll(w, a)
  \/ \E w \in Worker : PollLost(w)
  \/ \E a \in Call, ok \in BOOLEAN : Begin(a, ok)
  \/ \E a \in Call : ProcessItem(a)
  \/ \E a \in Call : Renew(a)
  \/ \E a \in Call : RenewFails(a)
  \/ \E a \in Call, ok \in BOOLEAN : Stage(a, ok)
  \/ \E a \in Call : Post(a)
  \/ \E a \in Call : PostLost(a)
  \/ \E a \in Call : Finish(a)
  \/ \E a \in Call : Abort(a)
  \/ \E w \in Worker : Rebalance(w)
  \/ \E w \in Worker : CrashWorker(w)
  \/ RestartCoordinator

SysSpec == SysInit /\ [][SysNext]_sysVars

\* Live workers poll on a ticker and run their goroutines, handlers return,
\* and the detector declares a stopped worker dead.
Fairness ==
  /\ \A w \in Worker : WF_sysVars(\E a \in Call : Poll(w, a))
  /\ \A w \in Worker : WF_sysVars(Rebalance(w))
  /\ \A a \in Call :
       /\ WF_sysVars(Begin(a, TRUE))
       /\ WF_sysVars(ProcessItem(a))
       /\ WF_sysVars(Renew(a))
       /\ WF_sysVars(Stage(a, TRUE))
       /\ WF_sysVars(Post(a))
       /\ WF_sysVars(Finish(a))

FairSysSpec == SysSpec /\ Fairness

-----------------------------------------------------------------------------
(* Properties.                                                             *)


\* The ordering checkLeaseInvariant asserts under diagnostics: RangeStart <=
\* Frontier <= Granted <= RangeEnd, for every task at all times.
LeaseOrder ==
  \A t \in TaskID : Known(t) =>
    /\ tasks[t].start <= tasks[t].frontier
    /\ tasks[t].frontier <= tasks[t].granted
    /\ tasks[t].end >= 0 => tasks[t].granted <= tasks[t].end

\* The items an attempt in its loop may still touch without renewing.
MayTouch(a) ==
  {i \in att[a].i..(att[a].end - 1) : i < att[a].bound}

\* No item a running attempt may still touch belongs to another task: what a
\* steal hands out is out of every other worker's reach (stealLocked).
LeaseExclusive ==
  \A a \in Call : Live(a) /\ att[a].pc = "loop" =>
    \A i \in MayTouch(a) :
      LET t == tasks[att[a].task] IN Owns(t, t.job, t.shard, i)

SameShard(t, u) == tasks[t].job = tasks[u].job /\ tasks[t].shard = tasks[u].shard

\* No item is in the recorded results of two tasks (no double-processing).
ResultsDisjoint ==
  \A t, u \in TaskID :
    (t # u /\ result[t] # None /\ result[u] # None /\ SameShard(t, u)) =>
      result[t].hi <= result[u].lo \/ result[u].hi <= result[t].lo

\* When a job is completed every item of its shards is in the recorded result
\* of one of its tasks (no gap).
CompletedCovers ==
  \A j \in JobID : (jobs[j] # None /\ jobs[j].status = "completed") =>
    \A s \in jobs[j].shards : \A i \in 0..(ShardSize[s] - 1) :
      \E t \in TaskID :
        /\ Known(t) /\ tasks[t].job = j /\ tasks[t].shard = s
        /\ result[t] # None /\ result[t].lo <= i /\ i < result[t].hi

\* The job hook runs at most once in the life of the process (updateJob).
HookOnce == \A j \in JobID : fired[j] <= 1

\* A task whose result is recorded stays done: it is never reopened, queued or
\* dispatched again (StartTask, ReportResult, RebalanceWorker, Restore).
CommittedIsFinal ==
  [][\A t \in TaskID : result[t] # None =>
       tasks'[t].status = "done" /\ result'[t] = result[t]]_sysVars

\* Every submitted job reaches a terminal state.
JobTerminates ==
  \A j \in JobID :
    jobs[j] # None ~> (jobs[j] # None /\ jobs[j].status # "running")

-----------------------------------------------------------------------------
(* What comments and documents of the repository say, and the code does not *)
(* always do.                                                               *)

\* README.md:82 "every scheduler mutation is appended": the durable image is
\* the live state whenever no handler runs (RebalanceWorker, persistLocked).
DurableIsCurrent ==
  durable = [jobs |-> jobs, tasks |-> tasks, pendingQ |-> pendingQ]

\* job.go:50: a task's priority is "inherited from the job" (stealLocked).
PriorityInherited ==
  \A t \in TaskID : Known(t) => tasks[t].priority = jobs[tasks[t].job].priority

\* scheduler.go:582: PendingCount is "the number of tasks waiting to be
\* dispatched"; it is the length of the queue.
PendingCountExact ==
  Len(pendingQ) = Cardinality({t \in TaskID : IsPending(t)})

\* design.md:176 "A busy worker simply doesn't poll, so it never gets
\* over-assigned" (pollLoop, executeTask's semaphore).
NotOverAssigned ==
  \A w \in Worker : Cardinality({a \in Call : Holds(w, a)}) <= Concurrency
=============================================================================

---------------------------- MODULE ResultCommit ----------------------------
(***************************************************************************)
(* How one task's result becomes visible: the worker stages its output,    *)
(* and ReportResult copies it to the final key, has the commit agreed in   *)
(* the Raft log, fires the completion event through the idempotency ledger *)
(* and marks the task done (scheduler.go, commit.go, coordinator.go,       *)
(* effect.go, raft.go, consensus/commit_fsm.go).                           *)
(*                                                                         *)
(* The scheduler is reduced to the task's lease generation.  Every steal   *)
(* shrinks the range and increments it, and FinalResultKey and             *)
(* SideEffectKey name the range, so a generation stands for a range and    *)
(* for both keys; an output is the generation whose range was processed.   *)
(* Faults names what the environment does:                                 *)
(*   copy     the object store fails          decide   no agreement in time *)
(*   emit     the event's receiver fails      crash    the coordinator does *)
(*   late     a new attempt starts while an older one still runs            *)
(***************************************************************************)
EXTENDS Integers, FiniteSets

CONSTANTS
  Attempt,       \* the attempts at the task, at most one of each
  MaxGen,        \* bound on steals
  Faults,
  None

ASSUME MaxGenAssumption == MaxGen \in Nat
ASSUME FaultsAssumption == Faults \subseteq {"copy", "decide", "emit", "crash", "late"}

VARIABLES
  status,        \* "open" (any status that accepts a report) or "done"
  gen,           \* the task's lease generation
  cur,           \* the attempt that holds the lease
  att,           \* Attempt -> the attempt and its report
  staging,       \* the object at StagingResultKey, or None
  final,         \* Generation -> the object at its FinalResultKey, or None
  proposed,      \* generations proposed to Raft; an entry may repeat
  decided,       \* CommitFSM's record for the task, or None
  seen,          \* the ledger: keys claimed
  emits          \* Generation -> history: events emitted under its key since
                 \* the coordinator started

vars == <<status, gen, cur, att, staging, final, proposed, decided, seen, emits>>

Generation == 0..MaxGen
EmitCap == 2     \* emits counts up to this bound

Phase == {"new", "run", "post", "copy", "decide", "await", "effect", "mark", "over"}
At(a, p) == att[a].pc = p
Goto(a, p) == att' = [att EXCEPT ![a].pc = p]

-----------------------------------------------------------------------------
(* The task and its attempts.                                              *)

\* Fault: a dispatch starts the generations again.
StartResetsGeneration(a) ==
  /\ status = "open" /\ At(a, "new")
  /\ "late" \in Faults \/ \A b \in Attempt : att[b].pc \in {"new", "over"}
  /\ cur' = a /\ gen' = 0
  /\ att' = [att EXCEPT ![a] = [pc |-> "run", from |-> 0, gen |-> 0]]
  /\ UNCHANGED <<status, staging, final, proposed, decided, seen, emits>>

\* A dispatch.  Unless late, the last attempt is over: its worker has died
\* or has reported.
Start(a) ==
  /\ status = "open" /\ At(a, "new")
  /\ "late" \in Faults \/ \A b \in Attempt : att[b].pc \in {"new", "over"}
  /\ cur' = a
  /\ att' = [att EXCEPT ![a] = [pc |-> "run", from |-> gen, gen |-> gen]]
  /\ UNCHANGED <<status, gen, staging, final, proposed, decided, seen, emits>>

\* stealLocked: only while the holder has not been granted its whole range.
Steal ==
  /\ cur # None /\ At(cur, "run") /\ gen < MaxGen
  /\ gen' = gen + 1
  /\ UNCHANGED <<status, cur, att, staging, final, proposed, decided, seen, emits>>

\* The worker stages what it processed: the holder has followed the steals,
\* an attempt that lost the lease may have stopped following them.
StageOutput(a) ==
  /\ At(a, "run")
  /\ \E out \in att[a].from..gen : (a = cur => out = gen) /\ staging' = out
  /\ Goto(a, "post")
  /\ UNCHANGED <<status, gen, cur, final, proposed, decided, seen, emits>>

WorkerDies(a) ==
  /\ att[a].pc \in {"run", "post"}
  /\ Goto(a, "over")
  /\ UNCHANGED <<status, gen, cur, staging, final, proposed, decided, seen, emits>>

-----------------------------------------------------------------------------
(* ReportResult.                                                           *)

\* Phase 1: a done task answers at once.
ReportBegin(a) ==
  /\ At(a, "post")
  /\ IF status = "done" THEN Goto(a, "over")
     ELSE att' = [att EXCEPT ![a].pc = "copy", ![a].gen = gen]
  /\ UNCHANGED <<status, gen, cur, staging, final, proposed, decided, seen, emits>>

\* Any later phase may return an error, and the worker does not report again.
ReturnError(a) == Goto(a, "over")

\* Phase 2: storeCommitter copies, then deletes; a failed delete is ignored.
Commit(a) ==
  /\ At(a, "copy") /\ staging # None
  /\ final' = [final EXCEPT ![att[a].gen] = staging]
  /\ staging' = None \/ ("copy" \in Faults /\ UNCHANGED staging)
  /\ Goto(a, "decide")
  /\ UNCHANGED <<status, gen, cur, proposed, decided, seen, emits>>

CommitFails(a) ==
  /\ At(a, "copy")
  /\ staging = None \/ "copy" \in Faults
  /\ ReturnError(a)
  /\ UNCHANGED <<status, gen, cur, staging, final, proposed, decided, seen, emits>>

\* Phase 3, Decide: return an existing record, or propose and wait for one.
Agreed(a) == decided # None /\ decided >= att[a].gen

\* Fault: the decision is taken as made once it is proposed.
ProposeWithoutWait(a) ==
  /\ At(a, "decide")
  /\ proposed' = proposed \cup {att[a].gen}
  /\ Goto(a, "effect")
  /\ UNCHANGED <<status, gen, cur, staging, final, decided, seen, emits>>

Propose(a) ==
  /\ At(a, "decide")
  /\ IF Agreed(a) THEN Goto(a, "effect") /\ UNCHANGED proposed
     ELSE Goto(a, "await") /\ proposed' = proposed \cup {att[a].gen}
  /\ UNCHANGED <<status, gen, cur, staging, final, decided, seen, emits>>

Decide(a) ==
  /\ At(a, "await") /\ Agreed(a)
  /\ Goto(a, "effect")
  /\ UNCHANGED <<status, gen, cur, staging, final, proposed, decided, seen, emits>>

\* Not the leader, or the deadline passes; a proposal may still be applied.
DecideFails(a) ==
  /\ "decide" \in Faults
  /\ att[a].pc \in {"decide", "await"}
  /\ ReturnError(a)
  /\ UNCHANGED <<status, gen, cur, staging, final, proposed, decided, seen, emits>>


\* CommitFSM.Apply of a committed entry; the log may hold it several times.
Apply(g) == decided' = IF decided # None /\ g <= decided THEN decided ELSE g

ApplyCommitted(g) ==
  /\ g \in proposed
  /\ Apply(g)
  /\ UNCHANGED <<status, gen, cur, att, staging, final, proposed, seen, emits>>


\* Ledger.Claim by the first delivery of a key.
Claim(key) == key \notin seen /\ seen' = seen \cup {key}

\* Phase 3.5, completionSink.Apply, with the key of phase 1.
FireEffect(a) ==
  /\ At(a, "effect")
  /\ Claim(att[a].gen)
  /\ \/ /\ emits' = [emits EXCEPT ![att[a].gen] = IF @ < EmitCap THEN @ + 1 ELSE @]
        /\ Goto(a, "mark")
     \/ "emit" \in Faults /\ ReturnError(a) /\ UNCHANGED emits
  /\ UNCHANGED <<status, gen, cur, staging, final, proposed, decided>>

SkipEffect(a) ==
  /\ At(a, "effect") /\ att[a].gen \in seen
  /\ Goto(a, "mark")
  /\ UNCHANGED <<status, gen, cur, staging, final, proposed, decided, seen, emits>>

\* Phase 4, a duplicate included.
MarkDone(a) ==
  /\ At(a, "mark")
  /\ status' = "done"
  /\ Goto(a, "over")
  /\ UNCHANGED <<gen, cur, staging, final, proposed, decided, seen, emits>>

\* Reports in progress and the in-memory ledger are lost.
CrashCoordinator ==
  /\ "crash" \in Faults
  /\ \E a \in Attempt : att[a].pc \notin {"new", "run", "post", "over"}
  /\ att' = [a \in Attempt |->
               IF att[a].pc \in {"new", "run", "post"} THEN att[a]
               ELSE [att[a] EXCEPT !.pc = "over"]]
  /\ seen' = {} /\ emits' = [g \in Generation |-> 0]
  /\ UNCHANGED <<status, gen, cur, staging, final, proposed, decided>>

-----------------------------------------------------------------------------
Init ==
  /\ status = "open" /\ gen = 0 /\ cur = None
  /\ att = [a \in Attempt |-> [pc |-> "new", from |-> 0, gen |-> 0]]
  /\ staging = None /\ final = [g \in Generation |-> None]
  /\ proposed = {} /\ decided = None
  /\ seen = {} /\ emits = [g \in Generation |-> 0]

Report(a) ==
  \/ ReportBegin(a)
  \/ Commit(a) \/ CommitFails(a)
  \/ Propose(a) \/ Decide(a) \/ DecideFails(a)
  \/ FireEffect(a) \/ SkipEffect(a)
  \/ MarkDone(a)

Next ==
  \/ \E a \in Attempt : Start(a)
  \/ Steal
  \/ \E a \in Attempt : StageOutput(a)
  \/ \E a \in Attempt : WorkerDies(a)
  \/ \E a \in Attempt : Report(a)
  \/ \E g \in Generation : ApplyCommitted(g)
  \/ CrashCoordinator

Spec == Init /\ [][Next]_vars

-----------------------------------------------------------------------------
(* Properties.                                                             *)

\* Objects, records and keys are those of a generation the task has had.
TypeOK ==
  LET Had == 0..gen
  IN  /\ status \in {"open", "done"} /\ gen \in Generation
      /\ cur \in Attempt \cup {None}
      /\ att \in [Attempt -> [pc : Phase, from : Had, gen : Had]]
      /\ staging \in Had \cup {None}
      /\ final \in [Generation -> Had \cup {None}]
      /\ proposed \in SUBSET Had /\ decided \in Had \cup {None}
      /\ seen \in SUBSET Had /\ emits \in [Generation -> 0..EmitCap]

\* A done task has an agreed record, and the record's key holds an object
\* (ReportResult's order of phases).
DoneIsVisible ==
  status = "done" => decided # None /\ final[decided] # None


\* scheduler.go:347: an event "never fires for a task that isn't truly
\* committed": its key's output is in place and a decision at least as new
\* as its own is recorded.
EffectAfterCommit ==
  \A g \in Generation : emits[g] > 0 =>
    final[g] # None /\ decided # None /\ decided >= g


-----------------------------------------------------------------------------
(* What comments and documents of the repository say, and the code does not *)
(* always do.                                                               *)

\* commit.go:115 "a concurrent late attempt can only overwrite it with
\* identical bytes": what is copied to a key is the output for its range.
FinalMatchesKey == \A g \in Generation : final[g] \in {g, None}

\* commit.go:18 "every one of those reports must leave exactly one final
\* object": a task never has two.
OneFinalObject == Cardinality({g \in Generation : final[g] # None}) <= 1

\* effect.go:11 "emitted once per committed task": a task that is done has
\* had its event.
EventForDone == status = "done" => \E g \in Generation : emits[g] > 0

\* commit.go:16 "Commit MUST be idempotent": a report whose task was copied
\* by another report can still be copied.
CommitRepeats == \A a \in Attempt : At(a, "copy") => staging # None
=============================================================================

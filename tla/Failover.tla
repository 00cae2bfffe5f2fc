------------------------------ MODULE Failover ------------------------------
(***************************************************************************)
(* From a worker's crash to the rebalancing of its tasks: the worker       *)
(* process registers and sends heartbeats, the coordinator's tickLoop runs *)
(* the detector and its failureEventLoop rebalances the nodes declared     *)
(* dead.  The scheduler is reduced to the workers that hold tasks.         *)
(***************************************************************************)
EXTENDS Membership

CONSTANTS
  MaxCrashes,    \* bound on worker crashes
  KeepsId,       \* whether a restarted worker has its old id (worker.id)
  Timely         \* whether running workers' heartbeats arrive in time

ASSUME MaxCrashesAssumption == MaxCrashes \in Nat
ASSUME KeepsIdAssumption == KeepsId \in BOOLEAN
ASSUME TimelyAssumption == Timely \in BOOLEAN

VARIABLES
  up,            \* the worker processes that run
  busy,          \* the ids that hold tasks of their running process
  orphaned,      \* the ids that hold tasks of a process that has crashed
  crashes

vars == <<memberVars, up, busy, orphaned, crashes>>

Unused(n) == nodes[n] = None

-----------------------------------------------------------------------------
\* Worker.Start: register, then run the loops.
StartWorker(n) ==
  /\ n \notin up /\ (Unused(n) \/ KeepsId)
  /\ Register(n)
  /\ up' = up \cup {n}
  /\ UNCHANGED <<busy, orphaned, crashes>>

\* heartbeatLoop; unless Timely, a heartbeat may come late or not at all.
SendHeartbeat(n) ==
  /\ n \in up
  /\ Heartbeat(n)
  /\ UNCHANGED <<up, busy, orphaned, crashes>>

\* poll: the scheduler hands out tasks without asking the detector.
TakeWork(n) ==
  /\ n \in up
  /\ busy' = busy \cup {n}
  /\ UNCHANGED <<memberVars, up, orphaned, crashes>>

CrashWorker(n) ==
  /\ n \in up /\ crashes < MaxCrashes
  /\ up' = up \ {n}
  /\ busy' = busy \ {n}
  /\ orphaned' = IF n \in busy THEN orphaned \cup {n} ELSE orphaned
  /\ crashes' = crashes + 1
  /\ UNCHANGED memberVars

\* tickLoop.
TickLoop == Tick /\ UNCHANGED <<up, busy, orphaned, crashes>>

TimePasses ==
  /\ Timely => \A n \in up : nodes[n].age < SuspectTimeout
  /\ Pass
  /\ UNCHANGED <<up, busy, orphaned, crashes>>

\* failureEventLoop: RebalanceWorker takes back every task under the id.
HandleEvent ==
  /\ events # << >>
  /\ events' = Tail(events)
  /\ LET e == Head(events)
     IN  IF e.new = "dead"
         THEN busy' = busy \ {e.node} /\ orphaned' = orphaned \ {e.node}
         ELSE UNCHANGED <<busy, orphaned>>
  /\ UNCHANGED <<nodes, ring, up, crashes>>

Init ==
  /\ MemberInit
  /\ up = {} /\ busy = {} /\ orphaned = {}
  /\ crashes = 0

Next ==
  \/ \E n \in Node : StartWorker(n)
  \/ \E n \in Node : SendHeartbeat(n)
  \/ \E n \in Node : TakeWork(n)
  \/ \E n \in Node : CrashWorker(n)
  \/ TickLoop
  \/ TimePasses
  \/ HandleEvent

Spec == Init /\ [][Next]_vars

\* The ticker fires, time passes and the event loop runs; running workers
\* keep sending heartbeats.
Fairness ==
  /\ WF_vars(TickLoop) /\ SF_vars(TimePasses) /\ WF_vars(HandleEvent)
  /\ \A n \in Node : WF_vars(SendHeartbeat(n))

FairSpec == Spec /\ Fairness

-----------------------------------------------------------------------------
(* Properties.                                                             *)

\* Detector state and the sets of workers keep their types.
TypeOK ==
  /\ MemberTypeOK
  /\ up \in SUBSET Node /\ busy \in SUBSET up /\ orphaned \in SUBSET Node
  /\ crashes \in 0..MaxCrashes

\* A node is dead only while its silence exceeds both timeouts, and then it
\* is off the ring, so no shard prefers it (Tick, Heartbeat, Register).
DeadIsSilentAndOffRing ==
  \A n \in Registered : nodes[n].state = "dead" =>
    /\ nodes[n].age > SuspectTimeout /\ nodes[n].age > DeadTimeout
    /\ n \notin ring

\* The tasks of a crashed worker are taken back (Tick, emit,
\* failureEventLoop): README.md:56 "automatic rebalancing when a worker dies".
OrphansRebalanced == \A n \in Node : n \in orphaned ~> n \notin orphaned

\* README.md:54 "recovery on any heartbeat": a node whose heartbeat was
\* accepted is on the ring (Heartbeat, after Register).
HeartbeatRestoresRing ==
  [][\A n \in Node : SendHeartbeat(n) => n \in ring']_vars
=============================================================================

----------------------------- MODULE Membership -----------------------------
(***************************************************************************)
(* The two-stage failure detector (internal/cluster/membership.go): node   *)
(* states, the set of nodes on the hash ring and the bounded channel of    *)
(* failure events.  Every operation holds m.mu and is one action.          *)
(*                                                                         *)
(* LastSeen is an age in ticks, advanced by Pass; AgeCap names the bound   *)
(* beyond which ages are not told apart.                                   *)
(***************************************************************************)
EXTENDS Integers, Sequences, FiniteSets, SequencesExt

CONSTANTS
  Node,
  SuspectTimeout, DeadTimeout,
  EventCap,      \* capacity of the events channel (128 in the code)
  None

ASSUME TimeoutAssumption == SuspectTimeout \in Nat /\ DeadTimeout \in Nat
ASSUME EventCapAssumption == EventCap \in Nat \ {0}

VARIABLES
  nodes,         \* Node -> [state, age], or None before it registers
  ring,          \* the nodes that have their virtual nodes on the ring
  events         \* the events channel

memberVars == <<nodes, ring, events>>

NodeState == {"active", "suspect", "dead"}
AgeCap == 1 + IF SuspectTimeout > DeadTimeout THEN SuspectTimeout ELSE DeadTimeout
Event == [node : Node, old : NodeState, new : NodeState]

Fresh == [state |-> "active", age |-> 0]
Registered == {n \in Node : nodes[n] # None}

-----------------------------------------------------------------------------
\* Faults: the channel has no bound, or the capacity of one event.
EmitUnbounded(q) == events' = events \o q
EmitSingle(q) == events' = IF events = << >> /\ q # << >> THEN <<Head(q)>> ELSE events

\* emit, once per event of q: what does not fit is dropped.
Emit(q) ==
  LET room == EventCap - Len(events)
  IN  events' = events \o SubSeq(q, 1, IF Len(q) < room THEN Len(q) ELSE room)

\* A known node becomes active again with no ring.Add and no event.
Register(n) ==
  /\ nodes' = [nodes EXCEPT ![n] = Fresh]
  /\ ring' = IF nodes[n] = None THEN ring \cup {n} ELSE ring
  /\ UNCHANGED events

\* A heartbeat from an unknown node is refused.
Heartbeat(n) ==
  /\ nodes[n] # None
  /\ nodes' = [nodes EXCEPT ![n] = Fresh]
  /\ IF nodes[n].state = "active"
     THEN UNCHANGED <<ring, events>>
     ELSE /\ ring' = ring \cup {n}
          /\ Emit(<<[node |-> n, old |-> nodes[n].state, new |-> "active"]>>)

\* Tick moves each overdue node one stage on.
Suspected == {n \in Registered : nodes[n].state = "active" /\ nodes[n].age > SuspectTimeout}

\* Fault: the second stage compares with the first stage's timeout.
DiedEarly == {n \in Registered : nodes[n].state = "suspect" /\ nodes[n].age > SuspectTimeout}

Died == {n \in Registered : nodes[n].state = "suspect" /\ nodes[n].age > DeadTimeout}

Moved(n) == IF n \in Died THEN "dead" ELSE "suspect"

Tick ==
  /\ nodes' = [n \in Node |-> IF n \in Suspected \cup Died
                              THEN [nodes[n] EXCEPT !.state = Moved(n)] ELSE nodes[n]]
  /\ ring' = ring \ Died
  /\ \E q \in SetToSeqs(Suspected \cup Died) :        \* map iteration order
       Emit([k \in DOMAIN q |->
               [node |-> q[k], old |-> nodes[q[k]].state, new |-> Moved(q[k])]])

\* Time passes.
Pass ==
  /\ nodes' = [n \in Node |->
                 IF n \in Registered /\ nodes[n].age < AgeCap
                 THEN [nodes[n] EXCEPT !.age = @ + 1] ELSE nodes[n]]
  /\ UNCHANGED <<ring, events>>

MemberInit ==
  /\ nodes = [n \in Node |-> None]
  /\ ring = {}
  /\ events = << >>

-----------------------------------------------------------------------------
MemberTypeOK ==
  /\ nodes \in [Node -> [state : NodeState, age : 0..AgeCap] \cup {None}]
  /\ ring \in SUBSET Node
  /\ events \in Seq(Event) /\ Len(events) <= EventCap
=============================================================================

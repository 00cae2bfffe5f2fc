----------------------------- MODULE Admission -----------------------------
(***************************************************************************)
(* Admission control (internal/admission) in front of job submission: the  *)
(* controller's weighted shares, handleJobs' admit-submit-track sequence   *)
(* and the job-done hook that gives the slot back.                         *)
(*                                                                         *)
(* A submission names its request, the ticket it was given and the job it  *)
(* created.  handleJobs holds no lock between Admit, Submit and            *)
(* trackTicket, so each is a step and other requests, the workers that     *)
(* finish jobs and a coordinator crash fall in between.                    *)
(***************************************************************************)
EXTENDS Integers, FiniteSets, FiniteSetsExt

CONSTANTS
  Tenant, Submission,
  MaxInFlight,
  Weight,        \* weights SetClass is called with
  InitialClass,  \* Tenant -> the weight configured at start, 0 if none
  Reconfigures,  \* whether SetClass is called while jobs run
  Direct,        \* whether jobs also arrive over gRPC
  Early,         \* whether a job may finish before its ticket is tracked
  MaxRestarts,   \* bound on coordinator restarts
  None

ASSUME CapAssumption == MaxInFlight \in Nat \ {0}
ASSUME WeightAssumption == Weight \subseteq Nat \ {0}
ASSUME ClassAssumption == InitialClass \in [Tenant -> Weight \cup {0}]
ASSUME FlagAssumption == Reconfigures \in BOOLEAN /\ Direct \in BOOLEAN /\ Early \in BOOLEAN
ASSUME RestartAssumption == MaxRestarts \in Nat

VARIABLES
  class,         \* Tenant -> weight, 0 if the tenant has no class
  inflight,      \* Tenant -> slots in use
  total,
  tickets,       \* the submissions whose ticket is in c.tickets
  held,          \* the tickets whose Release has not run
  pc,            \* Submission -> where handleJobs is
  tenant,        \* Submission -> its tenant
  job,           \* Submission -> "none", "running" or "terminal"
  restarts

vars == <<class, inflight, total, tickets, held, pc, tenant, job, restarts>>

-----------------------------------------------------------------------------
(* The controller.                                                         *)

totalWeight == MapThenSumSet(LAMBDA t : class[t], Tenant)

\* Integer division, floored at one slot.
Share(t) ==
  LET s == (MaxInFlight * class[t]) \div totalWeight
  IN  IF s < 1 THEN 1 ELSE s

\* Faults: the cap lets one job too many in; the share is not checked.
AdmissibleAtCap(t) == class[t] > 0 /\ inflight[t] <= Share(t) /\ total <= MaxInFlight
AdmissibleUnshared(t) == class[t] > 0 /\ total + 1 <= MaxInFlight

Admissible(t) ==
  class[t] > 0 /\ inflight[t] + 1 <= Share(t) /\ total + 1 <= MaxInFlight

\* Fault: only the tenant's counter is decremented.
ReleaseTenantOnly(r) ==
  /\ held' = held \ {r}
  /\ inflight' = [inflight EXCEPT ![tenant[r]] = @ - 1]
  /\ UNCHANGED total

\* Ticket.Release.
Release(r) ==
  /\ held' = held \ {r}
  /\ IF r \in held /\ inflight[tenant[r]] > 0
     THEN inflight' = [inflight EXCEPT ![tenant[r]] = @ - 1] /\ total' = total - 1
     ELSE UNCHANGED <<inflight, total>>

SetClass(t, w) ==
  /\ Reconfigures /\ class[t] # w
  /\ class' = [class EXCEPT ![t] = w]
  /\ UNCHANGED <<inflight, total, tickets, held, pc, tenant, job, restarts>>

-----------------------------------------------------------------------------
(* handleJobs.                                                             *)

Admit(r, t) ==
  /\ pc[r] = "new"
  /\ Admissible(t)
  /\ inflight' = [inflight EXCEPT ![t] = @ + 1] /\ total' = total + 1
  /\ held' = held \cup {r}
  /\ pc' = [pc EXCEPT ![r] = "admitted"]
  /\ tenant' = [tenant EXCEPT ![r] = t]
  /\ UNCHANGED <<class, tickets, job, restarts>>

\* 429, or 500 never: every refusal wraps ErrRejected.
Shed(r, t) ==
  /\ pc[r] = "new"
  /\ ~Admissible(t)
  /\ pc' = [pc EXCEPT ![r] = "over"]
  /\ tenant' = [tenant EXCEPT ![r] = t]
  /\ UNCHANGED <<class, inflight, total, tickets, held, job, restarts>>

Submit(r) ==
  /\ pc[r] = "admitted"
  /\ pc' = [pc EXCEPT ![r] = "submitted"]
  /\ job' = [job EXCEPT ![r] = "running"]
  /\ UNCHANGED <<class, inflight, total, tickets, held, tenant, restarts>>


SubmitFails(r) ==
  /\ pc[r] = "admitted"
  /\ Release(r)
  /\ pc' = [pc EXCEPT ![r] = "over"]
  /\ UNCHANGED <<class, tickets, tenant, job, restarts>>

TrackTicket(r) ==
  /\ pc[r] = "submitted"
  /\ tickets' = tickets \cup {r}
  /\ pc' = [pc EXCEPT ![r] = "over"]
  /\ UNCHANGED <<class, inflight, total, held, tenant, job, restarts>>

\* SubmitJob over gRPC goes to the scheduler without the controller.
SubmitDirect(r) ==
  /\ Direct /\ pc[r] = "new"
  /\ pc' = [pc EXCEPT ![r] = "over"]
  /\ job' = [job EXCEPT ![r] = "running"]
  /\ UNCHANGED <<class, inflight, total, tickets, held, tenant, restarts>>

\* The scheduler's hook, releaseTicket; it may run more than once for a job.
JobDone(r) ==
  /\ job[r] # "none"
  /\ Early \/ pc[r] # "submitted"
  /\ job' = [job EXCEPT ![r] = "terminal"]
  /\ tickets' = tickets \ {r}
  /\ IF r \in tickets THEN Release(r) ELSE UNCHANGED <<inflight, total, held>>
  /\ UNCHANGED <<class, pc, tenant, restarts>>

\* The scheduler restores its jobs; the controller starts empty.
Restart ==
  /\ restarts < MaxRestarts
  /\ restarts' = restarts + 1
  /\ class' = InitialClass
  /\ inflight' = [t \in Tenant |-> 0] /\ total' = 0
  /\ tickets' = {} /\ held' = {}
  /\ pc' = [r \in Submission |-> IF pc[r] = "new" THEN "new" ELSE "over"]
  /\ UNCHANGED <<tenant, job>>

-----------------------------------------------------------------------------
Init ==
  /\ class = InitialClass
  /\ inflight = [t \in Tenant |-> 0] /\ total = 0
  /\ tickets = {} /\ held = {}
  /\ pc = [r \in Submission |-> "new"]
  /\ tenant = [r \in Submission |-> None]
  /\ job = [r \in Submission |-> "none"]
  /\ restarts = 0

Next ==
  \/ \E t \in Tenant, w \in Weight : SetClass(t, w)
  \/ \E r \in Submission, t \in Tenant : Admit(r, t)
  \/ \E r \in Submission, t \in Tenant : Shed(r, t)
  \/ \E r \in Submission : Submit(r)
  \/ \E r \in Submission : SubmitFails(r)
  \/ \E r \in Submission : TrackTicket(r)
  \/ \E r \in Submission : SubmitDirect(r)
  \/ \E r \in Submission : JobDone(r)
  \/ Restart

Spec == Init /\ [][Next]_vars

-----------------------------------------------------------------------------
(* Properties.                                                             *)

\* Counters stay within the cap and every ticket has a tenant.
TypeOK ==
  /\ class \in [Tenant -> Weight \cup {0}]
  /\ inflight \in [Tenant -> 0..MaxInFlight] /\ total \in 0..MaxInFlight
  /\ tickets \in SUBSET Submission /\ held \in SUBSET Submission
  /\ pc \in [Submission -> {"new", "admitted", "submitted", "over"}]
  /\ tenant \in [Submission -> Tenant \cup {None}]
  /\ job \in [Submission -> {"none", "running", "terminal"}]
  /\ restarts \in 0..MaxRestarts

\* The two counters agree with the tickets out, per tenant and in all,
\* through refusals, repeated hooks, re-weighting and restarts (Admit, Release).
SlotsAccounted ==
  /\ total = Cardinality(held)
  /\ \A t \in Tenant : inflight[t] = Cardinality({r \in held : tenant[r] = t})


\* config.go:75 "global ceiling on concurrently in-flight jobs": no more jobs
\* run than the cap allows, although Admit, Submit and the hook are separate.
RunningBounded ==
  Cardinality({r \in Submission : job[r] = "running"}) <= MaxInFlight

\* controller.go:78 "every configured tenant keeps at least a one-slot
\* guarantee": a tenant below its share is not refused for the others' load.
SliceGuaranteed ==
  \A t \in Tenant : (class[t] > 0 /\ inflight[t] < Share(t)) => total < MaxInFlight
=============================================================================

------------------------------- MODULE Ledger -------------------------------
(***************************************************************************)
(* The Controller's durable store: configuration and change plans, the     *)
(* instance table that is the capacity ledger, the Nodes' last reports,    *)
(* and the GitHub demand of each Pool.  Every action is one transaction of *)
(* internal/core/store.go, runtime.go or task.go; Store.transaction takes  *)
(* SQLite's writer lock before it reads, so a transaction is one step.     *)
(*                                                                         *)
(* Time is abstracted to what a transaction asks of it: whether a report   *)
(* is still fresh, and whether a plan has expired.                         *)
(***************************************************************************)
EXTENDS ClusterConfig, Sequences

CONSTANTS
    Requests,           \* request IDs; the UNIQUE column that names an instance
    PlanIds,
    MessageIds,         \* (session, message ID) pairs of the scale-set queue
    Submissions,        \* configurations an administrator may plan
    Enrollments,        \* [name, ceiling] of the enrolments that may be approved
    Drainable,          \* Nodes an administrator may drain
    Observations,       \* what a Node's report may say about the Node itself
    ReportStates,       \* what a Node's report may say about a VM
    EventBatches,       \* what runner events a message may carry
    MaxDesired,         \* bound on the demand a message states
    MaxRevision         \* bound on configuration revisions

VMStates == {"Running", "Stopped", "Deleted", "Failed", "Unknown"}

ObservationTypes == [ready : BOOLEAN, isolation : BOOLEAN, ceiling : Resources,
                     freeDisk : Nat, digests : SUBSET Digests]

EventTypes == [instance : Requests, state : {"Busy", "Complete"}]

ASSUME RequestsAreFinite == IsFiniteSet(Requests)
ASSUME InputTypes ==
    /\ \A c \in Submissions : IsConfig(c)
    /\ Enrollments \subseteq [name : Nodes, ceiling : Resources]
    /\ Drainable \subseteq Nodes
    /\ Observations \subseteq ObservationTypes
    /\ ReportStates \subseteq VMStates
    /\ EventBatches \subseteq Seq(EventTypes)
    /\ MaxDesired \in Nat
    /\ MaxRevision \in Nat

VARIABLES
    config,             \* the applied configuration
    revision,           \* its revision; 0 before the first Apply
    plans,              \* table of change plans
    identities,         \* Nodes whose enrolment was approved
    instances,          \* table of instances, tombstones included
    reports,            \* table of the last accepted report of each Node
    drained,            \* Nodes an administrator drained
    demand,             \* table of the Pools' GitHub demand
    inbox               \* messages already persisted

configVars == <<config, revision, plans, identities>>
nodeVars   == <<reports, drained>>
demandVars == <<demand, inbox>>
vars       == <<configVars, instances, nodeVars, demandVars>>

-----------------------------------------------------------------------------
(* Types.                                                                  *)

InstanceStates == {"Reserved", "Provisioning", "Idle", "Busy",
                   "Stopping", "Deleting", "Deleted"}

Instances == [node : Nodes, pool : Pools, charge : Resources, image : Digests,
              task : BOOLEAN, state : InstanceStates,
              reservation : Reservations \cup {NoReservation},
              held : Resources, result : BOOLEAN, ready : BOOLEAN]

IsPlan(plan) ==
    /\ plan = [base |-> plan.base, config |-> plan.config,
               expired |-> plan.expired, applied |-> plan.applied]
    /\ plan.base \in Nat
    /\ IsConfig(plan.config)
    /\ plan.expired \in BOOLEAN
    /\ plan.applied \in BOOLEAN

Reports == [fresh : BOOLEAN, said : ObservationTypes]

Demands == [desired : Nat, barrier : BOOLEAN, intake : BOOLEAN]

\* The store's tables keep their types.
TypeOK ==
    /\ IsConfig(config)
    /\ revision \in Nat
    /\ DOMAIN plans \subseteq PlanIds
    /\ plans = [id \in DOMAIN plans |-> plans[id]]
    /\ \A id \in DOMAIN plans : IsPlan(plans[id])
    /\ identities \subseteq Nodes
    /\ IsTable(instances, Requests, Instances)
    /\ IsTable(reports, Nodes, Reports)
    /\ drained \subseteq Nodes
    /\ IsTable(demand, Pools, Demands)
    /\ inbox \subseteq MessageIds

\* OpenStore on an empty directory.
Init ==
    /\ config = NoConfig
    /\ revision = 0
    /\ plans = Empty
    /\ identities = {}
    /\ instances = Empty
    /\ reports = Empty
    /\ drained = {}
    /\ demand = Empty
    /\ inbox = {}

\* The store some time later: c is applied, n is enrolled and has reported.
Established(c, n, said) ==
    /\ config = c
    /\ revision = 1
    /\ plans = Empty
    /\ identities = {n}
    /\ instances = Empty
    /\ reports = Put(Empty, n, [fresh |-> TRUE, said |-> said])
    /\ drained = {}
    /\ demand = Empty
    /\ inbox = {}

-----------------------------------------------------------------------------
(* Configuration.                                                          *)

\* Store.Plan: the merged result is stored against the revision it was made at.
Plan(id, c) ==
    LET merged == MergeConfig(config, c) IN
    /\ id \notin DOMAIN plans
    /\ Valid(c)
    /\ Valid(merged)
    /\ plans' = Put(plans, id, [base |-> revision, config |-> merged,
                                expired |-> FALSE, applied |-> FALSE])
    /\ UNCHANGED <<config, revision, identities, instances, nodeVars, demandVars>>

\* Ten minutes pass; only a plan not applied yet can still be asked its age.
PlanExpires(id) ==
    /\ id \in DOMAIN plans
    /\ ~plans[id].applied
    /\ plans' = [plans EXCEPT ![id].expired = TRUE]
    /\ UNCHANGED <<config, revision, identities, instances, nodeVars, demandVars>>

\* Mutant: a plan is applied whatever happened since it was made.
AnyRevision(plan) == TRUE

\* REVISION_CONFLICT otherwise.
MadeAtThisRevision(plan) == plan.base = revision

\* Store.Apply
Apply(id) ==
    /\ id \in DOMAIN plans
    /\ LET plan == plans[id] IN
       /\ ~plan.applied
       /\ ~plan.expired
       /\ MadeAtThisRevision(plan)
       /\ Valid(plan.config)
       /\ CapacityUpdateOK(plan.config, instances)
       /\ IF plan.config = config
          THEN UNCHANGED <<config, revision>>
          ELSE /\ revision < MaxRevision
               /\ revision' = revision + 1
               /\ config' = plan.config
    /\ plans' = [plans EXCEPT ![id].applied = TRUE]
    /\ UNCHANGED <<identities, instances, nodeVars, demandVars>>

\* Store.Approve: a Node the configuration does not list joins with its whole
\* ceiling as budget, open to every Pool that fits and takes no tasks.
JoiningNode(e) ==
    [budget |-> e.ceiling, localCeiling |-> e.ceiling, labels |-> {},
     allowedPools |-> {p \in DOMAIN config.pools :
                          /\ Fits(config.pools[p].charge, e.ceiling)
                          /\ ~config.pools[p].tasks}]

Approve(e) ==
    LET listed == e.name \in DOMAIN config.nodes
        joined == IF listed THEN config
                  ELSE [config EXCEPT !.nodes = Put(@, e.name, JoiningNode(e))]
    IN
    /\ revision > 0
    /\ e.name \notin identities
    /\ listed => Fits(config.nodes[e.name].budget, e.ceiling)
    /\ Valid(joined)
    /\ revision < MaxRevision
    /\ config' = joined
    /\ revision' = revision + 1
    /\ identities' = identities \cup {e.name}
    /\ UNCHANGED <<plans, instances, nodeVars, demandVars>>

-----------------------------------------------------------------------------
(* Placement: candidates, placeTx and its two callers.                     *)

DiskMargin == 2         \* GiB of free disk no placement may use

\* Reservations of p on n with a slot no instance uses.
OwnReservations(p, n) ==
    {r \in ReservationsOn(config, n) :
        config.reservations[r].pool = p /\ FreeSlots(config, instances, r) > 0}

Consistent(n) ==
    /\ OwnersAgree(config, instances)
    /\ \A r \in ReservationsOn(config, n) : ReservationAgrees(config, instances, r)

NodeReady(p, n) ==
    /\ n \in DOMAIN reports
    /\ reports[n].fresh
    /\ n \notin drained
    /\ reports[n].said.ready
    /\ reports[n].said.isolation
    /\ Fits(config.nodes[n].budget, reports[n].said.ceiling)
    /\ config.images[config.pools[p].image] \in reports[n].said.digests

PoolOpen(p) ==
    /\ config.pools[p].enabled
    /\ Cardinality(RunnersOf(instances, p)) < config.pools[p].maxRunners

\* The budget left on n for one instance of p: a free slot of its own
\* reservation lends it the charge that slot protects.
Lent(p, n, d) ==
    IF OwnReservations(p, n) = {} THEN 0 ELSE config.pools[p].charge[d]

Available(p, n, d) ==
    config.nodes[n].budget[d] - Committed(config, instances, n, d) + Lent(p, n, d)

\* Mutant: unused reservations are lent to any job.
HasBudgetBesideHeld(p, n) == \A d \in Dims :
    config.pools[p].charge[d]
        <= config.nodes[n].budget[d] - HeldBy(instances, On(instances, n), d)

HasBudget(p, n) == \A d \in Dims : config.pools[p].charge[d] <= Available(p, n, d)

\* Mutant: the reported free disk is taken as it is.
HasDiskReported(p, n) ==
    config.pools[p].charge["disk"] <= reports[n].said.freeDisk - DiskMargin

HasDisk(p, n) ==
    config.pools[p].charge["disk"]
        <= reports[n].said.freeDisk - DiskMargin
             - Committed(config, instances, n, "disk") + Lent(p, n, "disk")

Admissible(p, n) ==
    /\ Consistent(n)
    /\ PoolOpen(p)
    /\ Eligible(config, p, n)
    /\ NodeReady(p, n)
    /\ HasBudget(p, n)
    /\ HasDisk(p, n)

Candidates(p) == {n \in DOMAIN config.nodes : Admissible(p, n)}

\* n sorts no later than m: own reservation first, then best fit in memory.
\* The last key, the Node's name, is left open.
NoLater(p, n, m) ==
    LET reserved(x) == OwnReservations(p, x) # {} IN
    IF reserved(n) # reserved(m) THEN reserved(n)
    ELSE Available(p, n, "memory") <= Available(p, m, "memory")

\* What a placement on n can be charged to: a reservation of p, if one is free.
SlotsFor(p, n) ==
    IF OwnReservations(p, n) = {} THEN {NoReservation} ELSE OwnReservations(p, n)

NewInstance(n, p, s, r) ==
    [node |-> n, pool |-> p, charge |-> config.pools[p].charge,
     image |-> config.images[config.pools[p].image],
     task |-> config.pools[p].tasks, state |-> s, reservation |-> r,
     held |-> config.pools[p].charge, result |-> FALSE, ready |-> s = "Provisioning"]

\* placeTx, with the state its caller stores the instance in.
Place(i, p, s) == \E n \in Candidates(p) :
    /\ \A m \in Candidates(p) : NoLater(p, n, m)
    /\ \E r \in SlotsFor(p, n) :
          instances' = Put(instances, i, NewInstance(n, p, s, r))

\* Store.Allocate, of a request the table does not hold yet.
Allocate(i, p) ==
    /\ i \notin DOMAIN instances
    /\ p \in DOMAIN config.pools
    /\ ~config.pools[p].tasks
    /\ Place(i, p, "Reserved")
    /\ UNCHANGED <<configVars, nodeVars, demandVars>>

\* dispatchTx: the request is the task's own ID, and its payload is ready.
Dispatch(i, p) ==
    /\ i \notin DOMAIN instances
    /\ p \in DOMAIN config.pools
    /\ config.pools[p].tasks
    /\ Place(i, p, "Provisioning")
    /\ UNCHANGED <<configVars, nodeVars, demandVars>>

-----------------------------------------------------------------------------
(* The life of an instance.                                                *)

\* Store.SetJIT; a second delivery for a ready instance changes nothing.
SetJIT(i) ==
    /\ i \in DOMAIN instances
    /\ ~instances[i].ready
    /\ instances[i].state = "Reserved"
    /\ instances' = [instances EXCEPT ![i].ready = TRUE, ![i].state = "Provisioning"]
    /\ UNCHANGED <<configVars, nodeVars, demandVars>>

\* Store.StopInstance, and what CancelTask and RevokeClient do to an instance.
StopInstance(i) ==
    /\ i \in DOMAIN instances
    /\ instances[i].state \notin {"Deleting", "Deleted"}
    /\ instances' = [instances EXCEPT ![i].state = "Stopping"]
    /\ UNCHANGED <<configVars, nodeVars, demandVars>>

\* The instances a report of n speaks about.
Live(n) == {i \in On(instances, n) : instances[i].state # "Deleted"}

\* A VM that is seen to have stopped still has its disk.
PoweredOff(held) == [held EXCEPT !["cpu"] = 0, !["memory"] = 0]

\* Mutant: every Stopped report subtracts the charge again.
AfterReportSubtracting(a, report) ==
    IF report # "Stopped" THEN a
    ELSE [a EXCEPT !.state = "Deleting", !.held["cpu"] = @ - a.charge["cpu"]]

\* Mutant: a VM that stopped gives everything back.
AfterReportReleasing(a, report) ==
    CASE report = "Running" /\ a.state = "Provisioning" -> [a EXCEPT !.state = "Idle"]
      [] report = "Stopped" -> [a EXCEPT !.state = "Deleting", !.held = Nothing]
      [] report = "Deleted" -> [a EXCEPT !.state = "Deleted", !.held = Nothing]
      [] OTHER -> a

\* One instance after what its Node reports; "none" when the report omits it.
AfterReport(a, report) ==
    CASE report = "Running" /\ a.state = "Provisioning" -> [a EXCEPT !.state = "Idle"]
      [] report = "Stopped" -> [a EXCEPT !.state = "Deleting", !.held = PoweredOff(@)]
      [] report = "Deleted" -> [a EXCEPT !.state = "Deleted", !.held = Nothing]
      [] report = "Failed"  -> [a EXCEPT !.state = "Stopping"]
      [] OTHER -> a

\* A GitHub runner that shut down before its completion was seen: the demand
\* that asked for it may be stale.
StoppedEarly(a, report) ==
    report = "Stopped" /\ ~a.result /\ a.held["cpu"] > 0 /\ ~a.task

\* Store.Sync, of a report that is newer than the last one (module Lifecycle
\* has the sequence numbers).  A deletion nobody asked for rejects the report.
Sync(n, said, vms) ==
    /\ n \in identities
    /\ n \in DOMAIN config.nodes
    /\ Fits(config.nodes[n].budget, said.ceiling)
    /\ \A i \in Live(n) : vms[i] = "Deleted" => instances[i].state = "Deleting"
    /\ reports' = Put(reports, n, [fresh |-> TRUE, said |-> said])
    /\ instances' = [i \in DOMAIN instances |->
                        IF i \in Live(n) THEN AfterReport(instances[i], vms[i])
                        ELSE instances[i]]
    /\ demand' = [p \in DOMAIN demand |->
                     [demand[p] EXCEPT !.barrier =
                        @ \/ \E i \in Live(n) : /\ instances[i].pool = p
                                                /\ StoppedEarly(instances[i], vms[i])]]
    /\ UNCHANGED <<configVars, drained, inbox>>

\* Forty-five seconds without a report.
ReportAges(n) ==
    /\ n \in DOMAIN reports
    /\ reports' = [reports EXCEPT ![n].fresh = FALSE]
    /\ UNCHANGED <<configVars, instances, drained, demandVars>>

\* Store.Drain
Drain(n, on) ==
    /\ n \in DOMAIN reports
    /\ drained' = IF on THEN drained \cup {n} ELSE drained \ {n}
    /\ UNCHANGED <<configVars, instances, reports, demandVars>>

-----------------------------------------------------------------------------
(* GitHub demand.                                                          *)

\* Mutant: any instance can become busy.
AfterEventAlways(a, event) ==
    IF event = "Complete" THEN [a EXCEPT !.result = TRUE] ELSE [a EXCEPT !.state = "Busy"]

\* A completion is recorded whatever the state; a job that started only as long
\* as the instance is not being deleted.
AfterEvent(a, event) ==
    IF event = "Complete" THEN [a EXCEPT !.result = TRUE]
    ELSE IF a.state \notin {"Deleting", "Deleted"} THEN [a EXCEPT !.state = "Busy"]
    ELSE a

EventsOf(events, i) == {k \in DOMAIN events : events[k].instance = i}

LastOf(events, i) ==
    events[CHOOSE k \in EventsOf(events, i) : \A l \in EventsOf(events, i) : l <= k]

Fenced(p) == p \in DOMAIN demand /\ demand[p].intake

\* Store.PersistMessage applies each event to the instance as it was before the
\* message, so of several events of one runner the last one is what remains.
PersistMessage(m, p, desired, events, holdIntake) ==
    /\ m \notin inbox
    /\ instances' = [i \in DOMAIN instances |->
                        IF instances[i].pool = p /\ EventsOf(events, i) # {}
                        THEN AfterEvent(instances[i], LastOf(events, i).state)
                        ELSE instances[i]]
    /\ demand' = Put(demand, p, [desired |-> desired, barrier |-> FALSE,
                                 intake |-> holdIntake \/ Fenced(p)])
    /\ inbox' = inbox \cup {m}
    /\ UNCHANGED <<configVars, nodeVars>>

\* Mutant: a new snapshot opens a Pool whose jobs are being acquired.
RefreshUnfences(p, desired) ==
    /\ demand' = Put(demand, p, [desired |-> desired, barrier |-> FALSE, intake |-> FALSE])
    /\ UNCHANGED <<configVars, instances, nodeVars, inbox>>

\* Store.RefreshDemand
RefreshDemand(p, desired) ==
    /\ demand' = Put(demand, p, [desired |-> desired, barrier |-> FALSE,
                                 intake |-> Fenced(p)])
    /\ UNCHANGED <<configVars, instances, nodeVars, inbox>>

\* Store.SetIntakeFence
SetIntakeFence(p, on) ==
    /\ p \in DOMAIN demand
    /\ demand' = [demand EXCEPT ![p].intake = on]
    /\ UNCHANGED <<configVars, instances, nodeVars, inbox>>

-----------------------------------------------------------------------------
Administration ==
    \/ \E id \in PlanIds, c \in Submissions : Plan(id, c)
    \/ \E id \in PlanIds : PlanExpires(id) \/ Apply(id)
    \/ \E e \in Enrollments : Approve(e)
    \/ \E n \in Drainable, on \in BOOLEAN : Drain(n, on)

Placement == \E i \in Requests, p \in Pools : Allocate(i, p) \/ Dispatch(i, p)

Progress ==
    \/ \E i \in Requests : SetJIT(i) \/ StopInstance(i)
    \/ \E n \in Nodes, said \in Observations :
          \E vms \in [Live(n) -> ReportStates \cup {"none"}] : Sync(n, said, vms)
    \/ \E n \in Nodes : ReportAges(n)

\* GitHub speaks of runners whose JIT configuration a VM may have got.
Plausible(events) == \A k \in DOMAIN events :
    /\ events[k].instance \in DOMAIN instances
    /\ instances[events[k].instance].ready
    /\ ~instances[events[k].instance].task

\* Scale-set queues serve the Pools that are configured and take no tasks.
GitHubDemand == \E p \in DOMAIN config.pools :
    /\ ~config.pools[p].tasks
    /\ \/ \E m \in MessageIds, desired \in 0 .. MaxDesired,
             events \in EventBatches, holdIntake \in BOOLEAN :
             Plausible(events) /\ PersistMessage(m, p, desired, events, holdIntake)
       \/ \E desired \in 0 .. MaxDesired : RefreshDemand(p, desired)
       \/ \E on \in BOOLEAN : SetIntakeFence(p, on)

Next == Administration \/ Placement \/ Progress \/ GitHubDemand

Spec == Init /\ [][Next]_vars

-----------------------------------------------------------------------------
(* Properties.                                                             *)

\* No Node ever owes more than its budget: what instances hold (candidates,
\* placeTx, Sync) together with what reservations still protect.
NodeWithinBudget == \A n \in DOMAIN config.nodes : WithinBudget(config, instances, n)

\* A Pool never has more runners holding resources than maxRunners, whichever
\* of Allocate, Dispatch and Apply comes last.
PoolWithinLimit == \A p \in DOMAIN config.pools : WithinLimit(config, instances, p)

\* Placement is never refused for RESERVATION_INCONSISTENT: users of a
\* reservation stay on its Node and Pool, within its slots and its size.
ReservationsAgree ==
    /\ OwnersAgree(config, instances)
    /\ \A r \in DOMAIN config.reservations : ReservationAgrees(config, instances, r)

\* A hard reservation can be honoured at any moment: its unused slots fit
\* beside everything its Node's instances hold, so general jobs never borrow
\* them, and a slot that is being cleaned up is not counted twice.
ReservationDeliverable == \A r \in DOMAIN config.reservations, d \in Dims :
    LET v == config.reservations[r] IN
    HeldBy(instances, On(instances, v.node), d)
        + FreeSlots(config, instances, r) * config.pools[v.pool].charge[d]
    <= config.nodes[v.node].budget[d]

\* While an instance holds anything, its Pool keeps the size, image and kind
\* the instance was placed with (POOL_IN_USE in checkCapacityUpdate).
HeldPoolsUnchanged == \A i \in DOMAIN instances :
    Holds(instances[i]) => PoolKept(config, instances[i])

\* What every new instance leaves of its Node's reported free disk.
NewInstanceFitsDisk(i) ==
    Committed(config, instances', instances'[i].node, "disk") + DiskMargin
        <= reports[instances'[i].node].said.freeDisk

NewInstancesFitDisk ==
    \A i \in DOMAIN instances' \ DOMAIN instances : NewInstanceFitsDisk(i)

\* Every placement leaves the Node's reported free disk above the outstanding
\* disk commitments and the margin, lent reservation slots included.
PlacementFitsDisk == [][NewInstancesFitDisk]_vars

\* What a step may make of an instance.
StaysReleased(i) ==
    /\ i \in DOMAIN instances'
    /\ Fits(instances'[i].held, instances[i].held)
    /\ instances[i].state = "Deleting" => instances'[i].state \in {"Deleting", "Deleted"}
    /\ instances[i].state = "Deleted" => instances'[i].state = "Deleted"

ReleasedStay == \A i \in DOMAIN instances : StaysReleased(i)

\* What an instance gave back it never holds again, the table never loses a
\* row, and nothing (report, event, stop) leads back from Deleting or Deleted.
ReleaseIsFinal == [][ReleasedStay]_vars

\* No name drops out of the configuration.
NamesStay ==
    /\ DOMAIN config.nodes \subseteq DOMAIN config'.nodes
    /\ DOMAIN config.pools \subseteq DOMAIN config'.pools
    /\ DOMAIN config.reservations \subseteq DOMAIN config'.reservations

\* A plan made before another change never undoes it: no Node, Pool or
\* reservation drops out of the configuration (mergeConfig, REVISION_CONFLICT).
NothingForgotten == [][NamesStay]_vars
=============================================================================

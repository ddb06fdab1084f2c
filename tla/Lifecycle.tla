------------------------------ MODULE Lifecycle ------------------------------
(***************************************************************************)
(* The life of the instances placed on one Node: the Controller's ledger   *)
(* (module Ledger), the Node's Agent (internal/agent/agent.go) with its    *)
(* libvirt provider (module HostVM), and the sync protocol between them.   *)
(*                                                                         *)
(* Agent.Step takes the inventory, sends it as a numbered report, waits    *)
(* for the reply and executes its commands one by one.  Store.Sync applies *)
(* a report and answers it with the commands it leaves to do.  Requests    *)
(* and replies are lost and delayed, both sides' states move on meanwhile, *)
(* and the Agent and its host crash.                                       *)
(*                                                                         *)
(* A sequence number is persisted before its report is sent and a report   *)
(* that was overtaken is refused, so the reports that may still arrive are *)
(* kept in the order they were sent, without their numbers.                *)
(***************************************************************************)
EXTENDS Ledger

CONSTANTS
    worker,             \* the Node
    Installed,          \* the configuration, applied before the first report
    Health,             \* what the Node reports about itself
    PoolOf,             \* the Pool each request asks for
    CommandLimit,       \* commands in one reply
    FlightLimit,        \* bound on the reports on their way
    NoVM, LateStarts,   \* see HostVM
    Recoverable,        \* the VMs that an administrator may recover by hand,
    Unasked,            \* and whether before the Controller asks for it
    FaultLimit          \* bound on the faults of a behaviour

ASSUME IdsAreOrdered == Requests \subseteq Nat
ASSUME LifecycleInputs ==
    /\ IsConfig(Installed) /\ Valid(Installed)
    /\ worker \in DOMAIN Installed.nodes
    /\ Health \in ObservationTypes
    /\ PoolOf \in [Requests -> DOMAIN Installed.pools]
    /\ NoVM \notin Requests /\ LateStarts \in BOOLEAN
    /\ CommandLimit \in Nat \ {0}
    /\ FlightLimit \in Nat \ {0}
    /\ FaultLimit \in Nat
    /\ Recoverable \subseteq Requests /\ Unasked \in BOOLEAN

VARIABLES
    phase, domain, disks, pending, op, boots,       \* see HostVM
    expired,            \* instances whose deadline has passed
    flight,             \* reports sent and not yet overtaken, oldest first
    waiting,            \* whether the Agent waits for the reply to the last one
    queue,              \* commands of the last reply still to be executed
    faults              \* faults so far

\* Pool.Charge() of each request's Pool, which the command `ensure' carries.
Charge == [i \in Requests |-> Installed.pools[PoolOf[i]].charge]

Host == INSTANCE HostVM WITH VMs <- Requests, Ceiling <- Health.ceiling

hostVars      == <<phase, domain, disks, pending, op, boots>>
agentVars     == <<flight, waiting, queue>>
lifecycleVars == <<vars, hostVars, expired, agentVars, faults>>

Actions == {"ensure", "stop", "delete"}

Orders == [vm : Requests, action : Actions]

Answers == {"none", "Unknown", "Running", "Stopped", "Deleted"}

\* The types of the ledger, the provider and what travels between them.
LifecycleTypeOK ==
    /\ TypeOK
    /\ Host!HostTypeOK
    /\ expired \subseteq Requests
    /\ flight \in Seq([Requests -> Answers])
    /\ waiting \in BOOLEAN
    /\ queue \in Seq(Orders)
    /\ faults \in 0 .. FaultLimit

LifecycleInit ==
    /\ Established(Installed, worker, Health)
    /\ Host!HostInit
    /\ expired = {}
    /\ flight = <<>>
    /\ waiting = FALSE
    /\ queue = <<>>
    /\ faults = 0

Fault == faults < FaultLimit /\ faults' = faults + 1

-----------------------------------------------------------------------------
(* The Agent.                                                              *)

\* Agent.Step up to the request: inventory, next sequence number, report.
Report == \E lost \in SUBSET Requests :
    /\ ~waiting
    /\ queue = <<>>
    /\ Len(flight) < FlightLimit
    /\ Host!Inventory(lost)
    /\ flight' = Append(flight, [i \in Requests |-> Host!Said(i, lost)])
    /\ waiting' = TRUE
    /\ IF lost = {} THEN UNCHANGED faults ELSE Fault
    /\ UNCHANGED <<vars, expired, queue>>

\* No reply within 45 seconds, or an error: the Step ends, and the request may
\* still reach the Controller.  (The loss that left no report was the fault.)
GiveUp ==
    /\ waiting
    /\ IF flight = <<>> THEN UNCHANGED faults ELSE Fault
    /\ waiting' = FALSE
    /\ UNCHANGED <<vars, hostVars, expired, flight, queue>>

\* The provider call of a command; a call that finds nothing to do, or that
\* refuses, does nothing.
Ensure(i) ==
    \/ i \notin expired /\ Host!Prepare(i)
    \/ Host!EnsureAgain(i)

\* Agent.Step makes sure of the manifest before it stops the VM.
StopVM(i) == Host!EnsureStopIntent(i) \/ Host!Stop(i)

Run(order) ==
    CASE order.action = "ensure" -> Ensure(order.vm)
      [] order.action = "stop" -> StopVM(order.vm)
      [] order.action = "delete" -> Host!Delete(order.vm)

Possible(order) ==
    LET i == order.vm IN
    CASE order.action = "ensure" ->
            \/ Host!Preparable(i) /\ i \notin expired /\ Host!WithinCeiling(i)
            \/ phase[i] \in {"start-issued", "running"}
      [] order.action = "stop" ->
            \/ phase[i] = "none" /\ domain[i] = "absent" /\ i \notin disks
            \/ phase[i] \notin {"none", "deleted"}
      [] order.action = "delete" -> Host!Deletable(i)

\* The command stays first in the queue while EnsureStopIntent is followed by
\* Stop.
Execute ==
    /\ op = Host!Idle
    /\ queue # <<>>
    /\ Run(Head(queue))
    /\ queue' = IF Head(queue).action = "stop" /\ phase[Head(queue).vm] = "none"
                THEN queue ELSE Tail(queue)
    /\ UNCHANGED <<vars, expired, flight, waiting, faults>>

\* A command there is nothing to do for, or one that the provider refuses
\* because of the network, the image or the storage (a fault).
Skip ==
    /\ op = Host!Idle
    /\ queue # <<>>
    /\ IF Possible(Head(queue)) THEN Fault ELSE UNCHANGED faults
    /\ queue' = Tail(queue)
    /\ UNCHANGED <<vars, hostVars, expired, flight, waiting>>

\* The steps of the operation under way.
Operate ==
    /\ \E i \in Requests : Host!Step(i)
    /\ UNCHANGED <<vars, expired, agentVars, faults>>

\* The domain is not what it was when the operation looked at it.
Overtaken ==
    \/ op.at = "define" /\ Host!Runs(op.vm)
    \/ op.at = "destroy" /\ ~Host!Runs(op.vm)
    \/ op.at \in {"start", "undefine"} /\ domain[op.vm] # "off"

\* A step fails; the Agent logs it and turns to the next command.
StepFails ==
    /\ Host!Abort
    /\ IF Overtaken THEN UNCHANGED faults ELSE Fault
    /\ UNCHANGED <<vars, expired, agentVars>>

\* The Agent's process dies and is started again.
AgentCrash ==
    /\ Fault
    /\ op' = Host!Idle
    /\ waiting' = FALSE
    /\ queue' = <<>>
    /\ UNCHANGED <<vars, phase, domain, disks, pending, boots, expired, flight>>

\* `vm recover': an administrator stops the Agent, has the provider delete a VM
\* that is off, and starts the Agent again.
Recover(i) ==
    /\ op = Host!Idle
    /\ i \in DOMAIN instances
    /\ Unasked \/ instances[i].state = "Deleting"
    /\ Host!Delete(i)
    /\ waiting' = FALSE
    /\ queue' = <<>>
    /\ UNCHANGED <<vars, expired, flight, faults>>

HostCrash ==
    /\ Fault
    /\ Host!HostReboot
    /\ waiting' = FALSE
    /\ queue' = <<>>
    /\ UNCHANGED <<vars, expired, flight>>

Environment ==
    /\ \E i \in Requests : Host!GuestShutdown(i) \/ Host!LateStart(i)
    /\ UNCHANGED <<vars, expired, agentVars, faults>>

-----------------------------------------------------------------------------
(* The Controller's answer to a report: the second half of Store.Sync.     *)

\* Mutant: the deadline is forgotten.
OrderWithoutDeadline(i, a, said) ==
    CASE a.state = "Deleted" -> {}
      [] a.state = "Deleting" -> {[vm |-> i, action |-> "delete"]}
      [] a.state = "Stopping" -> {[vm |-> i, action |-> "stop"]}
      [] a.state \notin {"Stopping", "Deleting", "Deleted"} ->
            IF a.ready /\ said \notin {"Running", "Unknown"}
            THEN {[vm |-> i, action |-> "ensure"]} ELSE {}

\* What is left to do for the instance i = a, of which the report said `said'.
OrderFor(i, a, said) ==
    CASE a.state = "Deleted" -> {}
      [] a.state = "Deleting" -> {[vm |-> i, action |-> "delete"]}
      [] (a.state = "Stopping" \/ i \in expired) /\ a.state \notin {"Deleting", "Deleted"} ->
            {[vm |-> i, action |-> "stop"]}
      [] a.state \notin {"Stopping", "Deleting", "Deleted"} /\ i \notin expired ->
            IF a.ready /\ said \notin {"Running", "Unknown"}
            THEN {[vm |-> i, action |-> "ensure"]} ELSE {}

Rank(order) == CASE order.action = "delete" -> 0
                 [] order.action = "stop" -> 1
                 [] order.action = "ensure" -> 2

Before(o, c) ==
    \/ Rank(o) < Rank(c)
    \/ Rank(o) = Rank(c) /\ o.vm < c.vm

Sorted(orders) == [k \in 1 .. Cardinality(orders) |->
    CHOOSE c \in orders : Cardinality({o \in orders : Before(o, c)}) = k - 1]

\* The first of the commands, at most CommandLimit; the others wait for the
\* next report.  The reply's size limit is not modelled.
Reply(runs, said) ==
    LET due == UNION {OrderFor(i, runs[i], said[i]) : i \in On(runs, worker)}
        sent == IF Cardinality(due) < CommandLimit THEN Cardinality(due) ELSE CommandLimit
    IN  SubSeq(Sorted(due), 1, sent)

\* Report k arrives, later than any that was sent after it and is lost; those
\* before it would be refused as STALE_REPORT.  The reply is lost when the
\* Agent no longer waits for it.
Deliver(k) ==
    /\ k \in DOMAIN flight
    /\ Sync(worker, Health, [i \in Live(worker) |-> flight[k][i]])
    /\ flight' = SubSeq(flight, k + 1, Len(flight))
    /\ IF waiting /\ k = Len(flight)
       THEN \/ /\ waiting' = FALSE
               /\ queue' = Reply(instances', flight[k])
               /\ UNCHANGED faults
            \/ Fault /\ UNCHANGED <<waiting, queue>>        \* the reply is lost
       ELSE UNCHANGED <<waiting, queue, faults>>
    /\ UNCHANGED <<hostVars, expired>>

\* A request is lost, or it is refused because its sender is refused.
Lose(k) ==
    /\ k \in DOMAIN flight
    /\ Fault
    /\ flight' = SubSeq(flight, 1, k - 1) \o SubSeq(flight, k + 1, Len(flight))
    /\ UNCHANGED <<vars, hostVars, expired, waiting, queue>>

-----------------------------------------------------------------------------
(* The Controller's other transactions.                                    *)

Expire(i) ==
    /\ i \in DOMAIN instances
    /\ instances[i].state # "Deleted"
    /\ expired' = expired \cup {i}
    /\ UNCHANGED <<vars, hostVars, agentVars, faults>>

Decide ==
    /\ \/ \E i \in Requests : Allocate(i, PoolOf[i]) \/ Dispatch(i, PoolOf[i])
       \/ \E i \in Requests : SetJIT(i) \/ StopInstance(i)
       \/ \E m \in MessageIds, p \in DOMAIN config.pools, events \in EventBatches :
             Plausible(events) /\ PersistMessage(m, p, 0, events, FALSE)
    /\ UNCHANGED <<hostVars, expired, agentVars, faults>>

LifecycleNext ==
    \/ Report \/ GiveUp \/ Execute \/ Skip \/ Operate \/ StepFails
    \/ AgentCrash \/ HostCrash \/ Environment
    \/ \E k \in 1 .. FlightLimit : Deliver(k) \/ Lose(k)
    \/ \E i \in Requests : Expire(i)
    \/ \E i \in Recoverable : Recover(i)
    \/ Decide

LifecycleSpec == LifecycleInit /\ [][LifecycleNext]_lifecycleVars

\* The Agent loops every few seconds and the host carries out what it is asked
\* (faults are finitely many); requests that are not lost arrive; clocks reach
\* every deadline.  Guests, GitHub and administrators owe nothing.
Fairness ==
    /\ WF_lifecycleVars(Report)
    /\ WF_lifecycleVars(waiting /\ flight = <<>> /\ GiveUp)
    /\ WF_lifecycleVars(Execute)
    /\ WF_lifecycleVars(Skip)
    /\ WF_lifecycleVars(Operate)
    /\ WF_lifecycleVars(StepFails)
    /\ WF_lifecycleVars(\E k \in 1 .. FlightLimit : Deliver(k))
    /\ \A i \in Requests : WF_lifecycleVars(Expire(i))

FairSpec == LifecycleSpec /\ Fairness

-----------------------------------------------------------------------------
(* Properties.                                                             *)

\* The two ledgers agree the safe way round: whatever the Node's manifests
\* still count (provider.go, ensure), the Controller still holds, so the Node
\* never refuses for capacity what the Controller placed within its ceiling.
HostWithinLedger == \A i \in Requests, d \in Dims :
    Host!Kept(i, d) > 0 =>
        i \in DOMAIN instances /\ Host!Kept(i, d) <= instances[i].held[d]

\* No report is ever refused as UNEXPECTED_DELETION, which would cut the Node
\* off: what a report on its way calls deleted the Controller is deleting, and
\* takes for the confirmation (`vm recover' says that it will).
DeletionsExpected == \A k \in DOMAIN flight, i \in Requests :
    flight[k][i] = "Deleted" =>
        i \in DOMAIN instances /\ instances[i].state \in {"Deleting", "Deleted"}

\* What the ledger holds for a request, and what that amounts to as a lease.
Held(i) == IF i \in DOMAIN instances THEN instances[i].held ELSE Nothing

LeaseOf(i) ==
    CASE i \notin DOMAIN instances -> "none"
      [] Held(i)["cpu"] > 0 -> "all"
      [] Held(i)["cpu"] = 0 /\ Held(i)["disk"] > 0 -> "disk"
      [] i \in DOMAIN instances /\ Held(i) = Nothing -> "over"

Contract == INSTANCE Lease WITH
    VMs <- Requests,
    lease <- [i \in Requests |-> LeaseOf(i)],
    stored <- disks,
    started <- {i \in Requests : boots[i] > 0},
    running <- {i \in Requests : Host!Runs(i)}

\* docs/ARCHITECTURE.md, "Runner lifecycle", kept by Controller and Node
\* together: every step of theirs is one that module Lease allows.
LeaseKept == Contract!LeaseSpec

\* Every instance ends: whatever the guest, GitHub or an administrator does,
\* its deadline leads to stop, release and deletion, although a reply carries
\* few commands and some of them fail.
AllReleased == \A i \in Requests :
    i \in DOMAIN instances ~> (i \in DOMAIN instances /\ ~Holds(instances[i]))
=============================================================================

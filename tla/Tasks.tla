-------------------------------- MODULE Tasks --------------------------------
(***************************************************************************)
(* Agent tasks, internal/core/task.go: what clients submit, the queue of   *)
(* each task Pool, the payload that is erased when nobody needs it, and    *)
(* the result a Node reports once (internal/agent/agent.go reportTasks,    *)
(* internal/host/task.go).  A task runs in an instance of module Ledger;   *)
(* the instance of task i has i as its request.                            *)
(*                                                                         *)
(* A transaction is a step, except DispatchTasks, which goes through the   *)
(* queue: while it does, it holds the writer lock, and only Nodes, guests  *)
(* and clocks move (Quiet).  The Node is reduced to the phases a task can  *)
(* tell apart; modules Lifecycle and HostVM have the rest.                 *)
(***************************************************************************)
EXTENDS Ledger

CONSTANTS
    Clients,            \* names of task clients
    Submitter,          \* the client of each task
    TaskPool,           \* the Pool of each task
    ClientLimit,        \* maxClientTasks
    worker,             \* the Node
    Installed, Health,  \* see Lifecycle
    FaultLimit          \* bound on the faults of a behaviour

ASSUME TaskInputs ==
    /\ Submitter \in [Requests -> Clients]
    /\ TaskPool \in [Requests -> Pools]
    /\ ClientLimit \in Nat
    /\ IsConfig(Installed)
    /\ worker \in DOMAIN Installed.nodes
    /\ \A i \in Requests : TaskPool[i] \in DOMAIN Installed.pools
                             /\ Installed.pools[TaskPool[i]].tasks
    /\ Health \in ObservationTypes
    /\ FaultLimit \in Nat

VARIABLES
    tasks,              \* table of tasks
    submitted,          \* their order of submission
    authorized,         \* submissions past authentication, not yet stored
    revoked,            \* revoked clients
    dispatch,           \* DispatchTasks: tasks still to look at, Pools to wait for
    vm,                 \* each task's VM
    ensured,            \* VMs whose manifest says they run a task
    printed,            \* tasks whose VM printed a result on its console
    cleared,            \* tasks whose serial log was removed
    marked,             \* tasks whose result the Node marked as sent
    orders,             \* commands of the last reply still to be executed
    overdue,            \* tasks whose instance is past its deadline
    faults              \* faults so far

storeVars == <<tasks, submitted, revoked, dispatch>>
nodeSide  == <<vm, ensured, printed, cleared, marked, orders>>
taskVars  == <<vars, storeVars, authorized, nodeSide, overdue, faults>>

Results == {"none", "succeeded", "failed", "no-result"}

\* secret: the payload is stored.  stale: the task's time is up, an hour in the
\* queue or, once placed, collectingGrace after its VM's deletion.
TaskRows == [secret : BOOLEAN, cancelled : BOOLEAN, expired : BOOLEAN,
             result : Results, stale : BOOLEAN]

VMPhases == {"none", "prepared", "running", "halted", "stopped", "deleted"}

TaskOrders == [task : Requests, action : {"ensure", "stop", "delete"}]

\* The task table, the Node's side and the ledger keep their types.
TasksTypeOK ==
    /\ TypeOK
    /\ IsTable(tasks, Requests, TaskRows)
    /\ submitted \in Seq(Requests)
    /\ authorized \subseteq Requests
    /\ revoked \subseteq Clients
    /\ dispatch \in [left : SUBSET Requests, blocked : SUBSET Pools]
    /\ vm \in [Requests -> VMPhases]
    /\ ensured \subseteq Requests /\ printed \in [Requests -> Results]
    /\ cleared \subseteq Requests /\ marked \subseteq Requests
    /\ orders \subseteq TaskOrders
    /\ overdue \subseteq Requests
    /\ faults \in 0 .. FaultLimit

Idle == [left |-> {}, blocked |-> {}]

TasksInit ==
    /\ Established(Installed, worker, Health)
    /\ tasks = Empty /\ submitted = <<>> /\ authorized = {}
    /\ revoked = {}
    /\ dispatch = Idle
    /\ vm = [i \in Requests |-> "none"]
    /\ printed = [i \in Requests |-> "none"]
    /\ ensured = {} /\ cleared = {} /\ marked = {} /\ orders = {}
    /\ overdue = {}
    /\ faults = 0

Fault == faults < FaultLimit /\ faults' = faults + 1

Quiet == dispatch.left = {}

Ended(i) == instances[i].state \in {"Deleting", "Deleted"}

-----------------------------------------------------------------------------
(* Submission and placement.                                               *)

Open(i) == i \in DOMAIN tasks /\ tasks[i].secret

Queued(i) ==
    /\ Open(i)
    /\ i \notin DOMAIN instances
    /\ ~tasks[i].cancelled
    /\ ~tasks[i].expired

\* queuedTasks
Queue == {i \in Requests : Queued(i)}

\* Task i was submitted before j.
Before(i, j) == \E k, l \in DOMAIN submitted : k < l /\ submitted[k] = i /\ submitted[l] = j

\* server.go authenticates a request before it stores anything.
Authorize(i) ==
    /\ i \notin DOMAIN tasks
    /\ Submitter[i] \notin revoked
    /\ authorized' = authorized \cup {i}
    /\ UNCHANGED <<vars, storeVars, nodeSide, overdue, faults>>

\* dispatchTx: NO_CAPACITY, or a Pool that was disabled, leaves it queued.
TryPlace(i) ==
    IF Candidates(TaskPool[i]) = {} THEN UNCHANGED vars ELSE Dispatch(i, TaskPool[i])

\* Mutant: a new task is placed at once when there is room.
MayOvertake(i) == TRUE

\* No older task of its Pool waits.
GoesFirst(i) == \A j \in Requests : Queued(j) => TaskPool[j] # TaskPool[i]

\* Store.SubmitTask
Submit(i) ==
    LET c == Submitter[i] IN
    /\ Quiet
    /\ i \in authorized
    /\ config.pools[TaskPool[i]].enabled
    /\ Cardinality({j \in Requests : Open(j) /\ Submitter[j] = c}) < ClientLimit
    /\ tasks' = Put(tasks, i, [secret |-> TRUE, cancelled |-> FALSE, expired |-> FALSE,
                               result |-> "none", stale |-> FALSE])
    /\ submitted' = Append(submitted, i)
    /\ authorized' = authorized \ {i}
    /\ IF GoesFirst(i) THEN TryPlace(i) ELSE UNCHANGED vars
    /\ UNCHANGED <<revoked, dispatch, nodeSide, overdue, faults>>

\* Store.DispatchTasks, every three seconds.
StartDispatch ==
    /\ Quiet
    /\ Queue # {}
    /\ dispatch' = [left |-> Queue, blocked |-> {}]
    /\ UNCHANGED <<vars, tasks, submitted, revoked, authorized, nodeSide, overdue, faults>>

\* The loop comes to i when everything before it is looked at.
IsNext(i) == i \in dispatch.left /\ \A j \in dispatch.left : ~Before(j, i)

Expire(i) ==
    /\ tasks[i].stale
    /\ tasks' = [tasks EXCEPT ![i].expired = TRUE, ![i].secret = FALSE]
    /\ dispatch' = [dispatch EXCEPT !.left = @ \ {i}]
    /\ UNCHANGED vars

\* A task of a Pool without room holds up the younger ones of its Pool.
PlaceQueued(i) ==
    LET p == TaskPool[i] IN
    /\ ~tasks[i].stale
    /\ \/ p \in dispatch.blocked /\ UNCHANGED vars
       \/ p \notin dispatch.blocked /\ TryPlace(i)
    /\ dispatch' = [left |-> dispatch.left \ {i}, blocked |->
           dispatch.blocked \cup IF Candidates(p) = {} THEN {p} ELSE {}]
    /\ UNCHANGED tasks

\* One iteration of it.
DispatchNext == \E i \in dispatch.left :
    /\ IsNext(i)
    /\ Expire(i) \/ PlaceQueued(i)
    /\ UNCHANGED <<submitted, revoked, authorized, nodeSide, overdue, faults>>

-----------------------------------------------------------------------------
(* Cancellation and revocation.                                            *)

Stopped(S) == [i \in DOMAIN instances |->
    IF i \in S THEN [instances[i] EXCEPT !.state = "Stopping"] ELSE instances[i]]

\* Store.CancelTask; a finished VM keeps its outcome.
Cancel(i) ==
    /\ Quiet
    /\ i \in DOMAIN tasks
    /\ ~tasks[i].cancelled /\ ~tasks[i].expired /\ tasks[i].result = "none"
    /\ i \in DOMAIN instances => ~Ended(i)
    /\ tasks' = [tasks EXCEPT ![i].cancelled = TRUE,
                              ![i].secret = @ /\ i \in DOMAIN instances]
    /\ instances' = Stopped({i} \cap DOMAIN instances)
    /\ UNCHANGED <<configVars, nodeVars, demandVars, submitted, revoked, dispatch,
                   authorized, nodeSide, overdue, faults>>

\* Mutant: a task that ended is cancelled as well.
LiveOfAll(c) == {i \in DOMAIN tasks :
    Submitter[i] = c /\ tasks[i].secret /\ ~tasks[i].cancelled /\ ~tasks[i].expired}

\* The tasks of c that RevokeClient cancels.
LiveOf(c) == {i \in DOMAIN tasks :
    /\ Submitter[i] = c
    /\ tasks[i].secret /\ ~tasks[i].cancelled /\ ~tasks[i].expired
    /\ i \in DOMAIN instances => ~Ended(i)}

\* Store.RevokeClient; an administrator may repeat it.
RevokeClient(c) ==
    /\ Quiet
    /\ revoked' = revoked \cup {c}
    /\ tasks' = [i \in DOMAIN tasks |->
          IF i \in LiveOf(c)
          THEN [tasks[i] EXCEPT !.cancelled = TRUE, !.secret = i \in DOMAIN instances]
          ELSE tasks[i]]
    /\ instances' = Stopped(LiveOf(c) \cap DOMAIN instances)
    /\ UNCHANGED <<configVars, nodeVars, demandVars, submitted, dispatch,
                   authorized, nodeSide, overdue, faults>>

-----------------------------------------------------------------------------
(* Sync: Store.Sync with Agent.Step around it.                             *)

Says(phase) == CASE phase = "none" -> "none"
                 [] phase = "prepared" -> "Unknown"
                 [] phase = "running" -> "Running"
                 [] phase \in {"halted", "stopped"} -> "Stopped"
                 [] phase = "deleted" -> "Deleted"

\* Mutant: the payload goes out as long as it is stored.
DeliverableStored(i) == tasks[i].secret

\* taskPayloadTx
Deliverable(i) ==
    /\ tasks[i].secret
    /\ ~tasks[i].cancelled /\ ~tasks[i].expired
    /\ Submitter[i] \notin revoked

\* Mutant: the deadline is forgotten.
DueWithoutDeadline(i, a) ==
    CASE a.state = "Deleted" -> {}
      [] a.state = "Deleting" -> {"delete"}
      [] a.state = "Stopping" -> {"stop"}
      [] a.state \in {"Provisioning", "Idle"} ->
            IF Says(vm[i]) \notin {"Running", "Unknown"} /\ Deliverable(i)
            THEN {"ensure"} ELSE {}

\* What Store.Sync leaves to do for an instance it has just updated to a.
Due(i, a) ==
    CASE a.state = "Deleted" -> {}
      [] a.state = "Deleting" -> {"delete"}
      [] a.state = "Stopping" -> {"stop"}
      [] a.state \in {"Provisioning", "Idle"} /\ i \in overdue -> {"stop"}
      [] a.state \in {"Provisioning", "Idle"} /\ i \notin overdue ->
            IF Says(vm[i]) \notin {"Running", "Unknown"} /\ Deliverable(i)
            THEN {"ensure"} ELSE {}

\* Mutant: the payload is erased as soon as the VM has stopped.
ErasedWhenStopped(a) == a.state \in {"Deleting", "Deleted"}

\* The report that erases the payload.
Erases(a) == a.state = "Deleted"

\* One Step's inventory, report and reply; a reply lost leaves no commands.
\* At most four VMs are modelled, so a reply has room for every command.
SyncStep ==
    /\ Quiet
    /\ orders = {}
    /\ vm' = [i \in Requests |-> IF vm[i] = "halted" THEN "stopped" ELSE vm[i]]
    /\ Sync(worker, Health, [i \in Live(worker) |-> Says(vm[i])])
    /\ tasks' = [i \in DOMAIN tasks |->
          [tasks[i] EXCEPT !.secret = @ /\ ~(i \in DOMAIN instances /\ Erases(instances'[i]))]]
    /\ \/ /\ orders' = UNION {{[task |-> i, action |-> x] : x \in Due(i, instances'[i])}
                                  : i \in DOMAIN instances}
          /\ UNCHANGED faults
       \/ orders' = {} /\ Fault
    /\ UNCHANGED <<submitted, revoked, dispatch, authorized, ensured, printed, cleared,
                   marked, overdue>>

\* EnsureTask prepares the VM and boots it, or fails somewhere on the way.
EnsureTask(i) ==
    /\ vm[i] = "none"
    /\ i \notin overdue
    /\ \/ vm' = [vm EXCEPT ![i] = "running"] /\ UNCHANGED faults
       \/ vm' \in {[vm EXCEPT ![i] = "prepared"], [vm EXCEPT ![i] = "halted"]} /\ Fault
    /\ ensured' = ensured \cup {i}

\* The VM is off when the command is done; EnsureStopIntent makes the manifest
\* of one that was never there.
StopTask(i) ==
    /\ vm[i] \in {"none", "prepared", "running", "halted"}
    /\ vm' = [vm EXCEPT ![i] = "stopped"]
    /\ UNCHANGED <<ensured, faults>>

DeleteTask(i) ==
    /\ vm[i] = "stopped"
    /\ vm' = [vm EXCEPT ![i] = "deleted"]
    /\ UNCHANGED <<ensured, faults>>

Execute(o) ==
    /\ o \in orders
    /\ orders' = orders \ {o}
    /\ CASE o.action = "ensure" -> EnsureTask(o.task)
         [] o.action = "stop" -> StopTask(o.task)
         [] o.action = "delete" -> DeleteTask(o.task)
    /\ UNCHANGED <<vars, storeVars, authorized, printed, cleared, marked, overdue>>

Possible(o) ==
    CASE o.action = "ensure" -> vm[o.task] = "none" /\ o.task \notin overdue
      [] o.action = "stop" -> vm[o.task] \in {"none", "prepared", "running", "halted"}
      [] o.action = "delete" -> vm[o.task] = "stopped"

\* A command there is nothing to do for, or one that fails at once.
Skip(o) ==
    /\ o \in orders
    /\ orders' = orders \ {o}
    /\ IF Possible(o) THEN Fault ELSE UNCHANGED faults
    /\ UNCHANGED <<vars, storeVars, authorized, vm, ensured, printed, cleared, marked,
                   overdue>>

\* The Agent's process dies, and the commands of its Step with it.
AgentCrash ==
    /\ orders # {}
    /\ Fault
    /\ orders' = {}
    /\ UNCHANGED <<vars, storeVars, authorized, vm, ensured, printed, cleared, marked,
                   overdue>>

-----------------------------------------------------------------------------
(* Results.                                                                *)

\* What the Node makes of the serial log: the last intact copy of the result.
Parsed(i) == IF printed[i] # "none" /\ i \notin cleared THEN printed[i] ELSE "no-result"

\* Store.ReportTask keeps the first result.
Recorded(i) == IF tasks[i].result = "none"
               THEN tasks' = [tasks EXCEPT ![i].result = Parsed(i)]
               ELSE UNCHANGED tasks

\* TaskReports has a result to send.
Reportable(i) == vm[i] \in {"stopped", "deleted"}

\* TASK_STILL_RUNNING otherwise.
Accepts(i) == Ended(i)

\* One upload of reportTasks, which follows the commands of a Step; it has room
\* for four.  The upload or its answer may be lost.  What reportTasks marks
\* although it is refused for good is another Node's: no row is ever removed,
\* and the provider sends no result the Controller would not take.
Upload(i) ==
    /\ Quiet
    /\ orders = {}
    /\ i \in ensured /\ i \notin marked
    /\ Reportable(i)
    /\ Accepts(i)
    /\ \/ Recorded(i) /\ marked' = marked \cup {i} /\ UNCHANGED faults
       \/ Recorded(i) /\ UNCHANGED marked /\ Fault
       \/ UNCHANGED <<tasks, marked>> /\ Fault
    /\ UNCHANGED <<vars, submitted, revoked, dispatch, authorized, vm, ensured, printed,
                   cleared, orders, overdue>>

\* Mutant: the log goes with the VM.
UselessOnceDeleted(i) == vm[i] = "deleted"

\* The VM is deleted and its result is sent.
Useless(i) == vm[i] = "deleted" /\ i \in marked

\* TaskReports removes a log of no further use.
RemoveLog(i) ==
    /\ Useless(i)
    /\ cleared' = cleared \cup {i}
    /\ UNCHANGED <<vars, storeVars, authorized, vm, ensured, printed, marked, orders,
                   overdue, faults>>

\* The guest prints a result, and powers off, or powers off without one.
Guest(i) ==
    /\ vm[i] = "running"
    /\ \/ /\ printed[i] = "none"
          /\ \E r \in {"succeeded", "failed"} : printed' = [printed EXCEPT ![i] = r]
          /\ UNCHANGED vm
       \/ /\ vm' = [vm EXCEPT ![i] = "halted"]
          /\ UNCHANGED printed
    /\ UNCHANGED <<vars, storeVars, authorized, ensured, cleared, marked, orders,
                   overdue, faults>>

-----------------------------------------------------------------------------
(* Clocks.                                                                 *)

\* TaskQueueLifetime passes, for older tasks first.
Ages(i) ==
    /\ Queued(i) /\ ~tasks[i].stale
    /\ \A j \in Requests : Queued(j) /\ j # i /\ ~tasks[j].stale => Before(i, j)
    /\ tasks' = [tasks EXCEPT ![i].stale = TRUE]
    /\ UNCHANGED <<vars, submitted, revoked, dispatch, authorized, nodeSide, overdue, faults>>

\* collectingGrace passes without a result; nothing writes a Deleted row, so it
\* runs from the deletion.
GraceEnds(i) ==
    /\ i \in DOMAIN instances /\ instances[i].state = "Deleted"
    /\ tasks[i].result = "none" /\ ~tasks[i].stale
    /\ tasks' = [tasks EXCEPT ![i].stale = TRUE]
    /\ UNCHANGED <<vars, submitted, revoked, dispatch, authorized, nodeSide, overdue, faults>>

TimeIsUp(i) == Ages(i) \/ GraceEnds(i)

\* The instance's deadline.
Deadline(i) ==
    /\ i \in DOMAIN instances /\ ~Ended(i)
    /\ overdue' = overdue \cup {i}
    /\ UNCHANGED <<vars, storeVars, authorized, nodeSide, faults>>

\* The Node has not reported for a while.
NodeSilent ==
    /\ ReportAges(worker)
    /\ Fault
    /\ UNCHANGED <<storeVars, authorized, nodeSide, overdue>>

Users == \E i \in Requests : Authorize(i) \/ Submit(i) \/ Cancel(i)

Node ==
    \/ SyncStep \/ AgentCrash
    \/ \E o \in orders : Execute(o) \/ Skip(o)
    \/ \E i \in Requests : Upload(i) \/ RemoveLog(i) \/ Guest(i)

Clocks == NodeSilent \/ \E i \in Requests : TimeIsUp(i) \/ Deadline(i)

TasksNext ==
    \/ Users \/ Node \/ Clocks
    \/ StartDispatch \/ DispatchNext
    \/ \E c \in Clients : RevokeClient(c)

TasksSpec == TasksInit /\ [][TasksNext]_taskVars

\* The Agent's and the dispatcher's loops go on, clocks advance; guests and
\* users owe nothing.
FairTasks ==
    /\ TasksSpec
    /\ WF_taskVars(SyncStep \/ \E o \in orders : Execute(o) \/ Skip(o))
    /\ WF_taskVars(\E i \in Requests : Upload(i))
    /\ WF_taskVars(\E i \in Requests : Ages(i) \/ Deadline(i))
    /\ WF_taskVars(StartDispatch \/ DispatchNext)

-----------------------------------------------------------------------------
(* What clients see, and properties.                                       *)

\* deriveTaskState
Shown(i) ==
    LET t == tasks[i] r == t.result placed == i \in DOMAIN instances
        gone == placed /\ instances[i].state = "Deleted"
    IN
    CASE t.expired -> "Expired"
      [] ~t.expired /\ r # "none" /\ placed /\ Ended(i) ->
            IF r = "succeeded" THEN "Succeeded" ELSE IF t.cancelled THEN "Cancelled" ELSE "Failed"
      [] ~t.expired /\ ~placed -> IF t.cancelled THEN "Cancelled" ELSE "Queued"
      [] ~t.expired /\ placed /\ ~Ended(i) ->
            IF t.cancelled \/ i \in overdue \/ instances[i].state = "Stopping" THEN "Stopping"
            ELSE IF instances[i].state \in {"Idle", "Busy"} THEN "Running" ELSE "Starting"
      [] ~t.expired /\ r = "none" /\ gone ->
            IF t.cancelled THEN "Cancelled" ELSE IF t.stale THEN "Finished" ELSE "Collecting"
      [] ~t.expired /\ r = "none" /\ placed /\ instances[i].state = "Deleting" -> "Collecting"

\* DispatchTasks, "first-in first-out per Pool": however submissions, releases
\* and dispatches interleave, no task gets a VM while an older one of its Pool
\* still waits for its own.
FirstInFirstOut == [][
    \A j \in DOMAIN instances' \ DOMAIN instances :
        ~\E i \in Requests : Before(i, j)' /\ TaskPool[i] = TaskPool[j] /\ Queued(i)]_taskVars

\* A payload stays in the store exactly as long as it may still be needed: it
\* is erased in the same transaction that expires, cancels or revokes a queued
\* task or learns of a VM's deletion, and never before.
SecretKept == \A i \in DOMAIN tasks :
    tasks[i].secret <=>
        /\ ~tasks[i].expired
        /\ i \notin DOMAIN instances => ~tasks[i].cancelled
        /\ i \in DOMAIN instances => instances[i].state # "Deleted"

\* Credentials never leave the Controller after revocation (taskPayloadTx): a
\* task that RevokeClient did not see, because it was authorized before and
\* stored after it, never runs, although it may be placed.
RevokedNeverRuns == \A i \in DOMAIN tasks :
    Submitter[i] \in revoked /\ ~tasks[i].cancelled => vm[i] # "running"

\* A recorded result is the truth about a VM that is off: what its guest printed,
\* and "no-result" only when it printed none, although the Node forgets the log,
\* reports twice and the VM is gone when the report arrives.
ResultIsTrue == \A i \in DOMAIN tasks : tasks[i].result # "none" =>
    /\ vm[i] \notin {"prepared", "running", "halted"}
    /\ tasks[i].result = IF printed[i] = "none" THEN "no-result" ELSE printed[i]

\* Task.Terminal
Terminal == {"Succeeded", "Failed", "Cancelled", "Expired", "Finished"}

\* ReportTask still takes the result of a VM that the client was told had left
\* none, and of a cancelled task's VM: it shows once, as what the guest printed.
\* A cancelled task only ever shows a success.
LateResult(i) ==
    /\ Shown(i) \in {"Finished", "Cancelled"} /\ tasks[i].result = "none"
    /\ tasks'[i].result = IF printed[i] = "none" THEN "no-result" ELSE printed[i]
    /\ \/ tasks'[i].result = "succeeded" /\ Shown(i)' = "Succeeded"
       \/ tasks'[i].result # "succeeded" /\ Shown(i) = "Finished" /\ Shown(i)' = "Failed"

\* What a client may rely on once Terminal says that no change is expected.
OutcomeStays == \A i \in DOMAIN tasks :
    Shown(i) \in Terminal => Shown(i)' = Shown(i) \/ LateResult(i)

\* Task.Terminal: no report, cancellation, expiry, revocation or clock changes a
\* terminal state that a client has seen, except that the late result of a VM
\* turns Finished, or Cancelled when it succeeded, into what it says.
OutcomeIsFinal == [][OutcomeStays]_taskVars

\* What is still to be done about task i.
Unsettled(i) ==
    Open(i) \/ (printed[i] # "none" /\ i \in DOMAIN tasks /\ tasks[i].result = "none")

\* Every task comes to rest with its payload erased and what its guest printed
\* on record, although replies, commands and uploads get lost, the VM is
\* deleted meanwhile, users cancel, and a client's task is stored after its
\* revocation.
TasksSettle == \A i \in Requests : Unsettled(i) ~> ~Unsettled(i)
===============================================================================

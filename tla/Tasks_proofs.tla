----------------------------- MODULE Tasks_proofs -----------------------------
(***************************************************************************)
(* Proofs about agent tasks (module Tasks), for any number of clients,     *)
(* Pools and tasks, any configuration and any number of faults.            *)
(*                                                                         *)
(* The first part proves the types, on top of those of the ledger.  The    *)
(* second says field by field what a step does to the payloads.  The third *)
(* proves TaskInv, which relates four tables that no transaction sees      *)
(* together: the payloads, the ledger, the Node's VMs and the commands on  *)
(* their way there.  The last derives the properties of the runs.          *)
(***************************************************************************)
EXTENDS Tasks, Ledger_proofs

USE TaskInputs

-----------------------------------------------------------------------------
(* What the transactions do to the ledger.                                 *)

\* dispatchTx adds the task's own row, or finds no room and adds nothing.
LEMMA PlacedRow ==
    ASSUME TypeOK, NEW i \in Requests, TryPlace(i)
    PROVE  /\ TypeOK' /\ UNCHANGED <<configVars, nodeVars, demandVars>>
           /\ \/ Candidates(TaskPool[i]) = {} /\ UNCHANGED instances
              \/ /\ i \notin DOMAIN instances
                 /\ DOMAIN instances' = DOMAIN instances \cup {i}
                 /\ instances'[i].state = "Provisioning"
                 /\ \A j \in DOMAIN instances : instances'[j] = instances[j]
<1>1. CASE Candidates(TaskPool[i]) = {} /\ UNCHANGED vars
  BY <1>1, TypeStep DEF vars
<1>2. CASE Dispatch(i, TaskPool[i])
  <2>1. TypeOK'
    BY <1>2, TypeStep DEF Next, Placement
  <2>2. PICK row : instances' = Put(instances, i, row) /\ row.state = "Provisioning"
    BY <1>2 DEF Dispatch, Place, NewInstance
  <2> QED
    BY <1>2, <2>1, <2>2 DEF Dispatch, Put
<1> QED
  BY <1>1, <1>2 DEF TryPlace

\* CancelTask and RevokeClient stop instances.
LEMMA StoppedRows ==
    ASSUME TypeOK, NEW S, instances' = Stopped(S), UNCHANGED <<configVars, nodeVars, demandVars>>
    PROVE  /\ TypeOK'
           /\ DOMAIN instances' = DOMAIN instances
           /\ \A j \in DOMAIN instances :
                 instances'[j].state = IF j \in S THEN "Stopping" ELSE instances[j].state
<1>1. IsTable(instances, Requests, Instances)
  BY DEF TypeOK
<1>2. \A j \in DOMAIN instances : /\ [instances[j] EXCEPT !.state = "Stopping"] \in Instances
                                  /\ [instances[j] EXCEPT !.state = "Stopping"].state = "Stopping"
  BY <1>1 DEF IsTable, Instances, InstanceStates
<1>3. IsTable(instances', Requests, Instances)
  BY <1>1, <1>2 DEF IsTable, Stopped
<1> QED
  BY <1>2, <1>3 DEF TypeOK, Stopped, configVars, nodeVars, demandVars

\* A report: what the Node says of a VM decides what becomes of its row.
LEMMA ReportedRows ==
    ASSUME TypeOK, vm \in [Requests -> VMPhases],
           Sync(worker, Health, [i \in Live(worker) |-> Says(vm[i])])
    PROVE  /\ TypeOK'
           /\ DOMAIN instances' = DOMAIN instances
           /\ \A j \in DOMAIN instances :
                 \/ instances'[j].state = instances[j].state
                 \/ instances[j].state = "Provisioning" /\ instances'[j].state = "Idle"
                 \/ /\ instances[j].state # "Deleted" /\ instances'[j].state = "Deleting"
                    /\ vm[j] \in {"halted", "stopped"}
                 \/ /\ instances[j].state = "Deleting" /\ instances'[j].state = "Deleted"
                    /\ vm[j] = "deleted"
<1>1. IsTable(instances, Requests, Instances) /\ worker \in Nodes
  BY DEF TypeOK, IsTable, IsConfig
<1>2. IsTable(instances', Requests, Instances)
  BY <1>1, AfterReportType DEF Sync, IsTable
<1>3. IsTable(reports', Nodes, Reports)
  <2>1. [fresh |-> TRUE, said |-> Health] \in Reports
    BY DEF Reports
  <2> QED
    BY <1>1, <2>1, PutTable DEF Sync, TypeOK
<1>4. IsTable(demand', Pools, Demands)
  BY DEF Sync, TypeOK, IsTable, Demands
<1>5. TypeOK'
  BY <1>2, <1>3, <1>4 DEF Sync, TypeOK, configVars
<1>6. DOMAIN instances' = DOMAIN instances
  BY DEF Sync
<1>7. ASSUME NEW j \in DOMAIN instances
      PROVE  \/ instances'[j].state = instances[j].state
             \/ instances[j].state = "Provisioning" /\ instances'[j].state = "Idle"
             \/ /\ instances[j].state # "Deleted" /\ instances'[j].state = "Deleting"
                /\ vm[j] \in {"halted", "stopped"}
             \/ /\ instances[j].state = "Deleting" /\ instances'[j].state = "Deleted"
                /\ vm[j] = "deleted"
  <2>1. CASE j \notin Live(worker)
    BY <2>1 DEF Sync
  <2>2. CASE j \in Live(worker)
    <3>1. /\ instances'[j] = AfterReport(instances[j], Says(vm[j]))
          /\ Says(vm[j]) = "Deleted" => instances[j].state = "Deleting"
          /\ instances[j].state # "Deleted"
      BY <2>2 DEF Sync, Live
    <3>2. instances[j] \in Instances /\ vm[j] \in VMPhases
      BY <1>1 DEF IsTable
    <3> QED
      BY <3>1, <3>2 DEF AfterReport, Instances, Says, VMPhases
  <2> QED
    BY <2>1, <2>2
<1> QED
  BY <1>5, <1>6, <1>7

-----------------------------------------------------------------------------
(* Types.                                                                  *)

\* A row of the task table stays one when its fields are set.
LEMMA RowTypes ==
    ASSUME NEW t \in TaskRows, NEW b \in BOOLEAN, NEW r \in Results
    PROVE  /\ [t EXCEPT !.secret = b] \in TaskRows
           /\ [t EXCEPT !.cancelled = TRUE, !.secret = b] \in TaskRows
           /\ [t EXCEPT !.expired = TRUE, !.secret = FALSE] \in TaskRows
           /\ [t EXCEPT !.result = r] \in TaskRows
           /\ [t EXCEPT !.stale = TRUE] \in TaskRows
BY DEF TaskRows

\* The instance of a task is placed with its payload, and has no runner.
TaskStates == \A i \in DOMAIN instances : instances[i].state \notin {"Reserved", "Busy"}

ShapesOK == TasksTypeOK /\ TaskStates

\* A store with an installation and no task has the types.
LEMMA TasksTypesInit ==
    ASSUME TasksInit PROVE ShapesOK
<1>1. TypeOK
  <2>1. IsTable(reports, Nodes, Reports)
    <3>1. [fresh |-> TRUE, said |-> Health] \in Reports /\ worker \in Nodes
      BY DEF Reports, IsConfig, IsTable
    <3> QED
      BY <3>1, PutTable DEF TasksInit, Established, Empty, IsTable
  <2> QED
    BY <2>1 DEF TasksInit, Established, TypeOK, Empty, IsTable, IsConfig
<1> QED
  BY <1>1 DEF TasksInit, TasksTypeOK, IsTable, Empty, Idle, VMPhases, Results, ShapesOK,
              TaskStates, Established

TaskTable == IsTable(tasks, Requests, TaskRows)

\* What a step leaves of the types when it writes no task.
LEMMA TasksTypesKept ==
    ASSUME TasksTypeOK, [TasksNext]_taskVars, TypeOK', TaskTable', TaskStates'
    PROVE  TasksTypeOK'
<1> USE DEF TasksTypeOK, TaskTable, Fault, nodeSide, storeVars, Idle
<1>1. ASSUME NEW i \in Requests, Authorize(i) \/ Submit(i) \/ Cancel(i) PROVE TasksTypeOK'
  <2>1. Append(submitted, i) \in Seq(Requests)
    OBVIOUS
  <2> QED
    BY <1>1, <2>1 DEF Authorize, Submit, Cancel
<1>2. CASE SyncStep
  <2>1. vm' \in [Requests -> VMPhases]
    BY <1>2 DEF SyncStep, VMPhases
  <2>2. orders' \subseteq TaskOrders
    <3>1. DOMAIN instances \subseteq Requests
      BY DEF TypeOK, IsTable
    <3>2. \A i \in DOMAIN instances' : instances'[i].state \in InstanceStates
      BY DEF TypeOK, IsTable, Instances
    <3>3. \A i \in DOMAIN instances' : Due(i, instances'[i]) \subseteq {"ensure", "stop", "delete"}
      BY <3>2 DEF Due, TaskStates, InstanceStates
    <3>4. DOMAIN instances' = DOMAIN instances
      BY <1>2 DEF SyncStep, Sync
    <3> QED
      BY <1>2, <3>1, <3>3, <3>4 DEF SyncStep, TaskOrders
  <2> QED
    BY <1>2, <2>1, <2>2 DEF SyncStep
<1>3. CASE AgentCrash
  BY <1>3 DEF AgentCrash
<1>4. ASSUME NEW o \in orders, Execute(o) \/ Skip(o) PROVE TasksTypeOK'
  <2>1. o.task \in Requests /\ o.action \in {"ensure", "stop", "delete"}
    BY DEF TaskOrders
  <2>2. CASE Execute(o)
    <3>1. EnsureTask(o.task) \/ StopTask(o.task) \/ DeleteTask(o.task)
      BY <2>1, <2>2 DEF Execute
    <3>2. vm' \in [Requests -> VMPhases]
      BY <2>1, <3>1 DEF EnsureTask, StopTask, DeleteTask, VMPhases
    <3>3. ensured' \subseteq Requests /\ faults' \in 0 .. FaultLimit
      BY <2>1, <3>1 DEF EnsureTask, StopTask, DeleteTask
    <3> QED
      BY <2>2, <3>2, <3>3 DEF Execute
  <2>3. CASE Skip(o)
    BY <2>3 DEF Skip
  <2> QED
    BY <1>4, <2>2, <2>3
<1>5. CASE \E i \in Requests : Upload(i) \/ RemoveLog(i) \/ Guest(i)
  BY <1>5 DEF Upload, RemoveLog, Guest, VMPhases, Results
<1>6. CASE Clocks
  BY <1>6 DEF Clocks, NodeSilent, TimeIsUp, Ages, GraceEnds, Deadline
<1>7. CASE StartDispatch
  BY <1>7 DEF StartDispatch, Queue
<1>8. CASE DispatchNext
  BY <1>8 DEF DispatchNext, Expire, PlaceQueued
<1>9. CASE \E c \in Clients : RevokeClient(c)
  BY <1>9 DEF RevokeClient
<1>10. CASE UNCHANGED taskVars
  BY <1>10 DEF taskVars
<1> QED
  BY <1>1, <1>2, <1>3, <1>4, <1>5, <1>6, <1>7, <1>8, <1>9, <1>10
  DEF TasksNext, Users, Node

LedgerKept == TypeOK /\ TaskStates

\* Every step keeps the ledger's types.
LEMMA LedgerTypesKept ==
    ASSUME ShapesOK, [TasksNext]_taskVars PROVE LedgerKept'
<1> USE DEF ShapesOK, TasksTypeOK, TaskStates, LedgerKept
<1>1. CASE UNCHANGED vars
  BY <1>1, TypeStep DEF vars
<1>2. ASSUME NEW i \in Requests, Submit(i) PROVE LedgerKept'
  BY <1>1, <1>2, PlacedRow DEF Submit
<1>3. ASSUME NEW i \in Requests, Cancel(i) PROVE LedgerKept'
  BY <1>3, StoppedRows DEF Cancel
<1>4. CASE SyncStep
  BY <1>4, ReportedRows DEF SyncStep
<1>5. CASE NodeSilent
  <2>1. worker \in Nodes
    BY DEF IsConfig, IsTable
  <2> QED
    BY <1>5, <2>1, TypeStep DEF NodeSilent, ReportAges, Next, Progress
<1>6. CASE DispatchNext
  BY <1>1, <1>6, PlacedRow DEF DispatchNext, Expire, PlaceQueued
<1>7. ASSUME NEW c \in Clients, RevokeClient(c) PROVE LedgerKept'
  BY <1>7, StoppedRows DEF RevokeClient
<1>8. CASE \E i \in Requests : \/ Authorize(i) \/ Upload(i) \/ RemoveLog(i) \/ Guest(i)
                               \/ TimeIsUp(i) \/ Deadline(i)
  BY <1>1, <1>8 DEF Authorize, Upload, RemoveLog, Guest, TimeIsUp, Ages, GraceEnds, Deadline
<1>9. CASE AgentCrash \/ StartDispatch \/ \E o \in orders : Execute(o) \/ Skip(o)
  BY <1>1, <1>9 DEF AgentCrash, StartDispatch, Execute, Skip
<1>10. CASE UNCHANGED taskVars
  BY <1>1, <1>10 DEF taskVars
<1> QED
  BY <1>2, <1>3, <1>4, <1>5, <1>6, <1>7, <1>8, <1>9, <1>10
  DEF TasksNext, Users, Node, Clocks

\* The table of tasks stays one.
LEMMA TaskTableKept ==
    ASSUME TasksTypeOK, [TasksNext]_taskVars PROVE TaskTable'
<1> USE DEF TasksTypeOK, TaskTable
<1>1. CASE UNCHANGED tasks
  BY <1>1
<1>2. ASSUME NEW i \in Requests, Submit(i) PROVE TaskTable'
  <2>1. [secret |-> TRUE, cancelled |-> FALSE, expired |-> FALSE, result |-> "none",
         stale |-> FALSE] \in TaskRows
    BY DEF TaskRows, Results
  <2> QED
    BY <1>2, <2>1, PutTable DEF Submit
<1>3. ASSUME NEW i \in Requests, Cancel(i) PROVE TaskTable'
  <2> DEFINE b == tasks[i].secret /\ i \in DOMAIN instances
  <2>1. i \in DOMAIN tasks /\ tasks[i] \in TaskRows
    BY <1>3 DEF Cancel, IsTable
  <2>2. tasks' = [tasks EXCEPT ![i] = [@ EXCEPT !.cancelled = TRUE, !.secret = b]]
    BY <1>3, <2>1 DEF Cancel, TaskRows
  <2>3. [tasks[i] EXCEPT !.cancelled = TRUE, !.secret = b] \in TaskRows
    <3>1. b \in BOOLEAN
      OBVIOUS
    <3> HIDE DEF b
    <3> QED
      BY <2>1, <3>1, RowTypes DEF TaskRows
  <2> HIDE DEF b
  <2> QED
    BY <2>1, <2>2, <2>3 DEF IsTable
<1>4. CASE SyncStep
  <2> DEFINE b(i) == tasks[i].secret /\ ~(i \in DOMAIN instances /\ Erases(instances'[i]))
  <2>1. ASSUME NEW i \in DOMAIN tasks PROVE [tasks[i] EXCEPT !.secret = b(i)] \in TaskRows
    <3>1. b(i) \in BOOLEAN /\ tasks[i] \in TaskRows
      BY DEF IsTable
    <3> HIDE DEF b
    <3> QED
      BY <3>1 DEF TaskRows
  <2>2. tasks' = [i \in DOMAIN tasks |-> [tasks[i] EXCEPT !.secret = b(i)]]
    BY <1>4 DEF SyncStep
  <2> HIDE DEF b
  <2> QED
    BY <2>1, <2>2 DEF IsTable
<1>5. ASSUME NEW i \in Requests, Upload(i) PROVE TaskTable'
  <2>1. Parsed(i) \in Results
    BY DEF Parsed, Results
  <2>2. ASSUME NEW r \in Results PROVE IsTable([tasks EXCEPT ![i].result = r], Requests, TaskRows)
    BY DEF IsTable, TaskRows
  <2> QED
    BY <1>1, <1>5, <2>1, <2>2 DEF Upload, Recorded
<1>6. ASSUME NEW i \in Requests, TimeIsUp(i) PROVE TaskTable'
  <2>1. tasks' = [tasks EXCEPT ![i].stale = TRUE]
    BY <1>6 DEF TimeIsUp, Ages, GraceEnds
  <2> QED
    BY <2>1 DEF IsTable, TaskRows
<1>7. CASE DispatchNext
  <2>1. ASSUME NEW i \in Requests, Expire(i) PROVE TaskTable'
    BY <2>1 DEF Expire, IsTable, TaskRows
  <2> QED
    BY <1>1, <1>7, <2>1 DEF DispatchNext, PlaceQueued
<1>8. ASSUME NEW c \in Clients, RevokeClient(c) PROVE TaskTable'
  <2>1. ASSUME NEW i \in DOMAIN tasks
        PROVE  [tasks[i] EXCEPT !.cancelled = TRUE, !.secret = i \in DOMAIN instances] \in TaskRows
    <3>1. tasks[i] \in TaskRows /\ (i \in DOMAIN instances) \in BOOLEAN
      BY DEF IsTable
    <3> QED
      BY <3>1 DEF TaskRows
  <2> QED
    BY <1>8, <2>1 DEF RevokeClient, IsTable
<1>9. CASE \E i \in Requests : Authorize(i) \/ RemoveLog(i) \/ Guest(i) \/ Deadline(i)
  BY <1>1, <1>9 DEF Authorize, RemoveLog, Guest, Deadline, storeVars
<1>10. CASE AgentCrash \/ StartDispatch \/ NodeSilent \/ \E o \in orders : Execute(o) \/ Skip(o)
  BY <1>1, <1>10 DEF AgentCrash, StartDispatch, NodeSilent, Execute, Skip, storeVars
<1>11. CASE UNCHANGED taskVars
  BY <1>1, <1>11 DEF taskVars, storeVars
<1> QED
  BY <1>2, <1>3, <1>4, <1>5, <1>6, <1>7, <1>8, <1>9, <1>10, <1>11
  DEF TasksNext, Users, Node, Clocks

-----------------------------------------------------------------------------
(* What the steps do to the payloads, field by field.                      *)

\* Nodes, guests and clocks leave the store alone, but for reports, results and ages.
StoreStill == UNCHANGED <<tasks, instances, submitted, authorized, revoked, dispatch>>

\* None of these steps writes to a table of the store but reports.
LEMMA StillSteps ==
    ASSUME \/ AgentCrash \/ NodeSilent \/ UNCHANGED taskVars
           \/ \E o \in orders : Execute(o) \/ Skip(o)
           \/ \E i \in Requests : RemoveLog(i) \/ Guest(i) \/ Deadline(i)
    PROVE  StoreStill
BY DEF StoreStill, AgentCrash, NodeSilent, ReportAges, Execute, Skip, RemoveLog, Guest, Deadline,
       taskVars, storeVars, vars

\* Clients and the dispatcher leave the Node's side alone.
LEMMA StillNode ==
    ASSUME \/ \E i \in Requests : Authorize(i) \/ Submit(i) \/ Cancel(i) \/ TimeIsUp(i)
           \/ StartDispatch \/ DispatchNext
           \/ \E c \in Clients : RevokeClient(c)
    PROVE  UNCHANGED <<vm, ensured, printed, cleared, marked, orders>>
BY DEF Authorize, Submit, Cancel, TimeIsUp, Ages, GraceEnds, StartDispatch, DispatchNext, RevokeClient, nodeSide

\* Cancellation, by its user or with its client, of the tasks of S.
CancelledRows(S) ==
    /\ DOMAIN tasks' = DOMAIN tasks /\ DOMAIN instances' = DOMAIN instances
    /\ \A i \in DOMAIN tasks \ S : tasks'[i] = tasks[i]
    /\ \A i \in S : /\ tasks'[i].cancelled
                    /\ tasks'[i].secret <=> tasks[i].secret /\ i \in DOMAIN instances
                    /\ tasks'[i].expired = tasks[i].expired
                    /\ tasks'[i].result = tasks[i].result
                    /\ tasks'[i].stale = tasks[i].stale
    /\ \A i \in DOMAIN instances :
          instances'[i].state = IF i \in S THEN "Stopping" ELSE instances[i].state
    /\ UNCHANGED <<authorized, submitted, dispatch>>

\* Store.CancelTask, field by field.
LEMMA CancelRows ==
    ASSUME ShapesOK, NEW i \in Requests, Cancel(i)
    PROVE  CancelledRows({i}) /\ UNCHANGED revoked
<1>1. i \in DOMAIN tasks /\ tasks[i] \in TaskRows
  BY DEF Cancel, ShapesOK, TasksTypeOK, IsTable
<1>2. tasks'[i] = [tasks[i] EXCEPT !.cancelled = TRUE,
                                   !.secret = tasks[i].secret /\ i \in DOMAIN instances]
  BY <1>1 DEF Cancel, TaskRows
<1>3. DOMAIN instances' = DOMAIN instances
  BY DEF Cancel, Stopped
<1>4. \A j \in DOMAIN instances :
         instances'[j].state = IF j \in {i} THEN "Stopping" ELSE instances[j].state
  <2>1. \A j \in DOMAIN instances : instances'[j].state =
           IF j \in {i} \cap DOMAIN instances THEN "Stopping" ELSE instances[j].state
    BY StoppedRows DEF Cancel, ShapesOK, TasksTypeOK
  <2> QED
    BY <2>1
<1> QED
  BY <1>1, <1>2, <1>3, <1>4 DEF Cancel, CancelledRows, TaskRows

\* Store.RevokeClient cancels the tasks of LiveOf and no other.
LEMMA RevokeRows ==
    ASSUME ShapesOK, NEW c \in Clients, RevokeClient(c)
    PROVE  CancelledRows(LiveOf(c)) /\ revoked' = revoked \cup {c}
<1>1. ASSUME NEW i \in LiveOf(c)
      PROVE  i \in DOMAIN tasks /\ tasks[i] \in TaskRows /\ tasks[i].secret
  BY DEF LiveOf, ShapesOK, TasksTypeOK, IsTable
<1>2. ASSUME NEW i \in LiveOf(c)
      PROVE  tasks'[i] = [tasks[i] EXCEPT !.cancelled = TRUE, !.secret = i \in DOMAIN instances]
  BY <1>1 DEF RevokeClient
<1>3. DOMAIN instances' = DOMAIN instances
  BY DEF RevokeClient, Stopped
<1>4. \A j \in DOMAIN instances :
         instances'[j].state = IF j \in LiveOf(c) THEN "Stopping" ELSE instances[j].state
  <2>1. \A j \in DOMAIN instances : instances'[j].state =
           IF j \in LiveOf(c) \cap DOMAIN instances THEN "Stopping" ELSE instances[j].state
    BY StoppedRows DEF RevokeClient, ShapesOK, TasksTypeOK
  <2> QED
    BY <2>1
<1> HIDE DEF LiveOf
<1>5. \A i \in DOMAIN tasks \ LiveOf(c) : tasks'[i] = tasks[i]
  BY DEF RevokeClient
<1>6. ASSUME NEW i \in LiveOf(c)
      PROVE  /\ tasks'[i].cancelled
             /\ tasks'[i].secret <=> tasks[i].secret /\ i \in DOMAIN instances
             /\ tasks'[i].expired = tasks[i].expired
             /\ tasks'[i].result = tasks[i].result
             /\ tasks'[i].stale = tasks[i].stale
  BY <1>1, <1>2 DEF TaskRows
<1> QED
  BY <1>3, <1>4, <1>5, <1>6 DEF RevokeClient, CancelledRows

\* A report erases the payloads of deleted VMs.
LEMMA SyncRows ==
    ASSUME ShapesOK, SyncStep
    PROVE  /\ DOMAIN tasks' = DOMAIN tasks
           /\ \A i \in DOMAIN tasks :
                 /\ tasks'[i].secret <=>
                       tasks[i].secret /\ ~(i \in DOMAIN instances /\ Erases(instances'[i]))
                 /\ tasks'[i].cancelled = tasks[i].cancelled
                 /\ tasks'[i].expired = tasks[i].expired
                 /\ tasks'[i].result = tasks[i].result
                 /\ tasks'[i].stale = tasks[i].stale
           /\ UNCHANGED <<authorized, submitted, revoked, dispatch>> /\ dispatch.left = {}
<1>1. \A i \in DOMAIN tasks : tasks[i] \in TaskRows
  BY DEF ShapesOK, TasksTypeOK, IsTable
<1> DEFINE b(i) == tasks[i].secret /\ ~(i \in DOMAIN instances /\ Erases(instances'[i]))
<1>2. tasks' = [i \in DOMAIN tasks |-> [tasks[i] EXCEPT !.secret = b(i)]]
  BY DEF SyncStep
<1>3. \A i \in DOMAIN tasks : b(i) \in BOOLEAN
  OBVIOUS
<1>4. ASSUME NEW i \in DOMAIN tasks
      PROVE  /\ tasks'[i].secret = b(i)
             /\ tasks'[i].cancelled = tasks[i].cancelled
             /\ tasks'[i].expired = tasks[i].expired
             /\ tasks'[i].result = tasks[i].result
             /\ tasks'[i].stale = tasks[i].stale
  <2> HIDE DEF b
  <2> QED
    BY <1>1, <1>2, <1>3 DEF TaskRows
<1>5. DOMAIN tasks' = DOMAIN tasks
  BY DEF SyncStep
<1>6. UNCHANGED <<authorized, submitted, revoked, dispatch>> /\ dispatch.left = {}
  BY DEF SyncStep, Quiet
<1> QED
  BY <1>4, <1>5, <1>6

\* The instance of task i is new, or nothing is.
Placed(i) ==
    /\ DOMAIN instances \subseteq DOMAIN instances'
    /\ DOMAIN instances' \subseteq DOMAIN instances \cup {i}
    /\ i \notin DOMAIN instances /\ i \in DOMAIN instances' => instances'[i].state = "Provisioning"
    /\ \A j \in DOMAIN instances : instances'[j] = instances[j]

\* dispatchTx adds at most the row of its task.
LEMMA TryPlaceRows ==
    ASSUME TypeOK, NEW i \in Requests, TryPlace(i) \/ UNCHANGED vars
    PROVE  Placed(i)
<1>1. CASE TryPlace(i)
  <2>1. CASE UNCHANGED instances
    BY <2>1 DEF Placed
  <2> QED
    BY <1>1, <2>1, PlacedRow DEF Placed
<1>2. CASE UNCHANGED vars
  BY <1>2 DEF Placed, vars
<1> QED
  BY <1>1, <1>2

\* Store.SubmitTask, field by field.
LEMMA SubmitRows ==
    ASSUME ShapesOK, NEW i \in Requests, Submit(i)
    PROVE  /\ Placed(i)
           /\ DOMAIN tasks' = DOMAIN tasks \cup {i}
           /\ tasks'[i].secret /\ ~tasks'[i].cancelled /\ ~tasks'[i].expired
           /\ tasks'[i].result = "none"
           /\ \A j \in DOMAIN tasks \ {i} : tasks'[j] = tasks[j]
           /\ i \in authorized /\ authorized' = authorized \ {i}
           /\ dispatch.left = {} /\ UNCHANGED <<revoked, dispatch>>
<1>1. Placed(i)
  BY TryPlaceRows DEF Submit, ShapesOK, TasksTypeOK
<1> QED
  BY <1>1 DEF Submit, Put, Quiet

\* Store.ReportTask writes a result where there is none, and nothing else.
LEMMA UploadRows ==
    ASSUME ShapesOK, NEW i \in Requests, Upload(i)
    PROVE  /\ DOMAIN tasks' = DOMAIN tasks
           /\ \A j \in DOMAIN tasks :
                 /\ tasks'[j].secret = tasks[j].secret
                 /\ tasks'[j].cancelled = tasks[j].cancelled
                 /\ tasks'[j].expired = tasks[j].expired
                 /\ tasks'[j].stale = tasks[j].stale
                 /\ \/ tasks'[j].result = tasks[j].result
                    \/ /\ j = i /\ tasks[j].result = "none" /\ tasks'[j].result = Parsed(i)
           /\ UNCHANGED <<instances, authorized, revoked, dispatch>> /\ dispatch.left = {}
<1>1. CASE UNCHANGED tasks
  BY <1>1 DEF Upload, vars, Quiet
<1>2. CASE Recorded(i) /\ ~UNCHANGED tasks
  <2>1. tasks' = [tasks EXCEPT ![i].result = Parsed(i)] /\ tasks[i].result = "none"
    BY <1>2 DEF Recorded
  <2>2. \A j \in DOMAIN tasks : tasks[j] \in TaskRows
    BY DEF ShapesOK, TasksTypeOK, IsTable
  <2> QED
    BY <2>1, <2>2 DEF Upload, vars, Quiet, TaskRows
<1> QED
  BY <1>1, <1>2 DEF Upload

\* A clock changes nothing but stale.
LEMMA TimeRows ==
    ASSUME ShapesOK, NEW i \in Requests, TimeIsUp(i)
    PROVE  /\ DOMAIN tasks' = DOMAIN tasks
           /\ \A j \in DOMAIN tasks : /\ tasks'[j].secret = tasks[j].secret
                                      /\ tasks'[j].cancelled = tasks[j].cancelled
                                      /\ tasks'[j].expired = tasks[j].expired
                                      /\ tasks'[j].result = tasks[j].result
                                      /\ tasks[j].stale => tasks'[j].stale
           /\ UNCHANGED <<instances, authorized, submitted, revoked, dispatch>>
<1>1. \A j \in DOMAIN tasks : tasks[j] \in TaskRows
  BY DEF ShapesOK, TasksTypeOK, IsTable
<1> QED
  BY <1>1 DEF TimeIsUp, Ages, GraceEnds, vars, TaskRows

\* One iteration of DispatchTasks, which looks at task i.
LooksAt(i) ==
    /\ i \in dispatch.left /\ IsNext(i)
    /\ dispatch'.left = dispatch.left \ {i}
    /\ dispatch.blocked \subseteq dispatch'.blocked
    /\ DOMAIN tasks' = DOMAIN tasks
    /\ \A j \in DOMAIN tasks \ {i} : tasks'[j] = tasks[j]
    /\ \/ /\ UNCHANGED instances
          /\ tasks'[i].expired /\ ~tasks'[i].secret /\ tasks'[i].result = tasks[i].result
          /\ tasks'[i].cancelled = tasks[i].cancelled
          /\ tasks'[i].stale = tasks[i].stale
       \/ /\ Placed(i) /\ UNCHANGED tasks
          /\ UNCHANGED instances => TaskPool[i] \in dispatch'.blocked
          /\ ~UNCHANGED instances =>
                /\ TaskPool[i] \notin dispatch.blocked
                /\ i \in DOMAIN instances'
    /\ UNCHANGED <<revoked, authorized, submitted>>

\* Every iteration of DispatchTasks looks at one task of its queue.
LEMMA DispatchRows ==
    ASSUME ShapesOK, DispatchNext, \A i \in dispatch.left : i \in DOMAIN tasks
    PROVE  \E i \in dispatch.left : LooksAt(i)
<1>1. PICK i \in dispatch.left : IsNext(i) /\ (Expire(i) \/ PlaceQueued(i))
  BY DEF DispatchNext
<1>2. i \in Requests /\ i \in DOMAIN tasks /\ tasks[i] \in TaskRows
  BY DEF ShapesOK, TasksTypeOK, IsTable
<1>3. CASE Expire(i)
  <2>1. tasks' = [tasks EXCEPT ![i].expired = TRUE, ![i].secret = FALSE]
    BY <1>3 DEF Expire
  <2>2. /\ tasks'[i].expired /\ ~tasks'[i].secret /\ tasks'[i].result = tasks[i].result
        /\ tasks'[i].cancelled = tasks[i].cancelled
        /\ tasks'[i].stale = tasks[i].stale
        /\ DOMAIN tasks' = DOMAIN tasks
        /\ \A j \in DOMAIN tasks \ {i} : tasks'[j] = tasks[j]
    BY <1>2, <2>1 DEF TaskRows
  <2>3. dispatch'.left = dispatch.left \ {i} /\ dispatch'.blocked = dispatch.blocked
    BY <1>3 DEF Expire, ShapesOK, TasksTypeOK
  <2>4. UNCHANGED <<instances, revoked, authorized, submitted>>
    BY <1>3 DEF Expire, vars, DispatchNext
  <2> QED
    BY <1>1, <2>2, <2>3, <2>4 DEF LooksAt
<1>4. CASE PlaceQueued(i)
  <2>1. Placed(i)
    BY <1>2, <1>4, TryPlaceRows DEF PlaceQueued, ShapesOK, TasksTypeOK
  <2>2. /\ dispatch'.left = dispatch.left \ {i}
        /\ dispatch'.blocked = dispatch.blocked \cup
              IF Candidates(TaskPool[i]) = {} THEN {TaskPool[i]} ELSE {}
        /\ UNCHANGED tasks
    BY <1>4 DEF PlaceQueued
  <2>3. CASE TaskPool[i] \in dispatch.blocked /\ UNCHANGED vars
    BY <1>1, <2>1, <2>2, <2>3 DEF LooksAt, vars, DispatchNext
  <2>4. CASE TaskPool[i] \notin dispatch.blocked /\ TryPlace(i)
    <3>1. \/ Candidates(TaskPool[i]) = {} /\ UNCHANGED instances
          \/ i \notin DOMAIN instances /\ i \in DOMAIN instances'
      BY <1>2, <2>4, PlacedRow DEF ShapesOK, TasksTypeOK
    <3> QED
      BY <1>1, <2>1, <2>2, <2>4, <3>1 DEF LooksAt, DispatchNext
  <2> QED
    BY <1>4, <2>3, <2>4 DEF PlaceQueued
<1> QED
  BY <1>1, <1>3, <1>4

-----------------------------------------------------------------------------
(* The invariant: what the store, the Node and the commands between them    *)
(* know of each other.                                                     *)

\* A VM is of a task that is stored; one that is only authorized is not yet.
Known == DOMAIN instances \subseteq DOMAIN tasks /\ authorized \cap DOMAIN tasks = {}

\* While DispatchTasks runs, what it has yet to look at is queued, and what it
\* has looked at and left in the queue is of a Pool it will not look at again.
Waiting ==
    /\ \A i \in dispatch.left : Queued(i)
    /\ dispatch.left # {} =>
          \A i \in Requests : Queued(i) =>
              i \in dispatch.left \/ TaskPool[i] \in dispatch.blocked

PlacedInTime == \A i \in DOMAIN instances : ~tasks[i].expired

EndedIsOff == \A i \in DOMAIN instances : Ended(i) => vm[i] \in {"stopped", "deleted"}

OnlyPlacedRun == \A i \in Requests : vm[i] # "none" => i \in DOMAIN instances

\* A command outlives the state it was computed from: the task may be cancelled
\* and its client revoked, but the VM has not ended.
OrdersFit == \A o \in orders :
    /\ o.task \in DOMAIN instances
    /\ o.action = "ensure" => /\ ~Ended(o.task)
                              /\ tasks[o.task].cancelled \/ Submitter[o.task] \notin revoked

LogsKept == cleared \subseteq marked

ResultOfOff == \A i \in DOMAIN tasks :
    tasks[i].result # "none" => vm[i] \in {"stopped", "deleted"}

TaskInv ==
    /\ Known /\ Waiting /\ PlacedInTime
    /\ EndedIsOff /\ OnlyPlacedRun /\ OrdersFit
    /\ LogsKept /\ ResultOfOff
    /\ SecretKept /\ RevokedNeverRuns /\ ResultIsTrue

\* The invariant holds before there is any task.
LEMMA TaskInvInit ==
    ASSUME TasksInit PROVE TaskInv
BY DEF TasksInit, Established, Empty, Idle, TaskInv, Known, Waiting, PlacedInTime, EndedIsOff,
       OnlyPlacedRun, OrdersFit, LogsKept, ResultOfOff, SecretKept, RevokedNeverRuns, ResultIsTrue

\* No step stores an instance without its task, or authorizes a stored task.
LEMMA KnownKept ==
    ASSUME ShapesOK, TaskInv, [TasksNext]_taskVars PROVE Known'
<1> USE DEF Known, TaskInv
<1>1. ASSUME StoreStill PROVE Known'
  BY <1>1 DEF StoreStill
<1>2. ASSUME NEW i \in Requests, Authorize(i) PROVE Known'
  BY <1>2 DEF Authorize, storeVars, vars
<1>3. ASSUME NEW i \in Requests, Submit(i) PROVE Known'
  BY <1>3, SubmitRows DEF Placed
<1>4. ASSUME NEW i \in Requests, Cancel(i) PROVE Known'
  BY <1>4, CancelRows DEF CancelledRows
<1>5. ASSUME NEW c \in Clients, RevokeClient(c) PROVE Known'
  BY <1>5, RevokeRows DEF CancelledRows
<1>6. CASE SyncStep
  <2>1. DOMAIN instances' = DOMAIN instances
    BY <1>6 DEF SyncStep, Sync
  <2> QED
    BY <1>6, <2>1, SyncRows
<1>7. ASSUME NEW i \in Requests, Upload(i) PROVE Known'
  BY <1>7, UploadRows
<1>8. ASSUME NEW i \in Requests, TimeIsUp(i) PROVE Known'
  BY <1>8, TimeRows
<1>9. CASE StartDispatch
  BY <1>9 DEF StartDispatch, vars
<1>10. CASE DispatchNext
  <2>1. PICK i \in dispatch.left : LooksAt(i)
    BY <1>10, DispatchRows DEF Waiting, Queued, Open
  <2>2. i \in DOMAIN tasks
    BY DEF Waiting, Queued, Open
  <2> QED
    BY <2>1, <2>2 DEF LooksAt, Placed
<1> QED
  BY <1>1, <1>2, <1>3, <1>4, <1>5, <1>6, <1>7, <1>8, <1>9, <1>10, StillSteps
  DEF TasksNext, Users, Node, Clocks

\* No step takes a task out of the queue, or puts one into it, behind the
\* dispatcher's back.
LEMMA WaitingKept ==
    ASSUME ShapesOK, TaskInv, [TasksNext]_taskVars PROVE Waiting'
<1> USE DEF TaskInv, Waiting, Queued, Open
<1>1. ASSUME StoreStill PROVE Waiting'
  BY <1>1 DEF StoreStill
<1>2. ASSUME NEW i \in Requests, Authorize(i) PROVE Waiting'
  BY <1>2 DEF Authorize, storeVars, vars
<1>3. ASSUME NEW i \in Requests, Submit(i) PROVE Waiting'
  BY <1>3, SubmitRows
<1>4. ASSUME NEW i \in Requests, Cancel(i) PROVE Waiting'
  BY <1>4 DEF Cancel, Quiet
<1>5. ASSUME NEW c \in Clients, RevokeClient(c) PROVE Waiting'
  BY <1>5 DEF RevokeClient, Quiet
<1>6. CASE SyncStep
  BY <1>6, SyncRows
<1>7. ASSUME NEW i \in Requests, Upload(i) PROVE Waiting'
  BY <1>7, UploadRows
<1>8. ASSUME NEW i \in Requests, TimeIsUp(i) PROVE Waiting'
  BY <1>8, TimeRows
<1>9. CASE StartDispatch
  BY <1>9 DEF StartDispatch, vars, Queue
<1>10. CASE DispatchNext
  <2>1. PICK i \in dispatch.left : LooksAt(i)
    BY <1>10, DispatchRows
  <2>2. i \in DOMAIN tasks /\ Queued(i)
    OBVIOUS
  <2>3. ~Queued(i)' \/ TaskPool[i] \in dispatch'.blocked
    BY <2>1, <2>2 DEF LooksAt
  <2>4. ASSUME NEW j \in Requests, j # i PROVE Queued(j)' <=> Queued(j)
    BY <2>1, <2>2, <2>4 DEF LooksAt, Placed
  <2>5. \A j \in dispatch'.left : Queued(j)'
    BY <2>1, <2>4 DEF LooksAt, ShapesOK, TasksTypeOK
  <2>6. ASSUME NEW j \in Requests, Queued(j)'
        PROVE  j \in dispatch'.left \/ TaskPool[j] \in dispatch'.blocked
    <3>1. CASE j = i
      BY <2>3, <2>6, <3>1
    <3>2. CASE j # i
      <4>1. Queued(j)
        BY <2>4, <2>6, <3>2
      <4>2. j \in dispatch.left \/ TaskPool[j] \in dispatch.blocked
        BY <4>1
      <4> QED
        BY <2>1, <3>2, <4>2 DEF LooksAt
    <3> QED
      BY <3>1, <3>2
  <2> QED
    BY <2>5, <2>6
<1> QED
  BY <1>1, <1>2, <1>3, <1>4, <1>5, <1>6, <1>7, <1>8, <1>9, <1>10, StillSteps
  DEF TasksNext, Users, Node, Clocks

\* No step expires a task that has an instance, or places one that expired.
LEMMA PlacedInTimeKept ==
    ASSUME ShapesOK, TaskInv, [TasksNext]_taskVars PROVE PlacedInTime'
<1> USE DEF TaskInv, PlacedInTime, Known
<1>1. ASSUME StoreStill PROVE PlacedInTime'
  BY <1>1 DEF StoreStill
<1>2. ASSUME NEW i \in Requests, Authorize(i) PROVE PlacedInTime'
  BY <1>2 DEF Authorize, storeVars, vars
<1>3. ASSUME NEW i \in Requests, Submit(i) PROVE PlacedInTime'
  <2>1. i \notin DOMAIN tasks /\ i \notin DOMAIN instances
    BY <1>3 DEF Submit
  <2> QED
    BY <1>3, <2>1, SubmitRows DEF Placed
<1>4. ASSUME NEW i \in Requests, Cancel(i) PROVE PlacedInTime'
  BY <1>4, CancelRows DEF CancelledRows
<1>5. ASSUME NEW c \in Clients, RevokeClient(c) PROVE PlacedInTime'
  BY <1>5, RevokeRows DEF CancelledRows
<1>6. CASE SyncStep
  <2>1. DOMAIN instances' = DOMAIN instances
    BY <1>6 DEF SyncStep, Sync
  <2> QED
    BY <1>6, <2>1, SyncRows
<1>7. ASSUME NEW i \in Requests, Upload(i) PROVE PlacedInTime'
  BY <1>7, UploadRows
<1>8. ASSUME NEW i \in Requests, TimeIsUp(i) PROVE PlacedInTime'
  BY <1>8, TimeRows
<1>9. CASE StartDispatch
  BY <1>9 DEF StartDispatch, vars
<1>10. CASE DispatchNext
  <2>1. PICK i \in dispatch.left : LooksAt(i)
    BY <1>10, DispatchRows DEF Waiting, Queued, Open
  <2>2. i \in DOMAIN tasks /\ ~tasks[i].expired /\ i \notin DOMAIN instances
    BY DEF Waiting, Queued, Open
  <2> QED
    BY <2>1, <2>2 DEF LooksAt, Placed
<1> QED
  BY <1>1, <1>2, <1>3, <1>4, <1>5, <1>6, <1>7, <1>8, <1>9, <1>10, StillSteps
  DEF TasksNext, Users, Node, Clocks

\* Every step erases the payloads that nobody needs any longer, and no other.
LEMMA SecretStaysKept ==
    ASSUME ShapesOK, TaskInv, [TasksNext]_taskVars PROVE SecretKept'
<1> USE DEF TaskInv, SecretKept, Known
<1>1. ASSUME StoreStill PROVE SecretKept'
  BY <1>1 DEF StoreStill
<1>2. ASSUME NEW i \in Requests, Authorize(i) PROVE SecretKept'
  BY <1>2 DEF Authorize, storeVars, vars
<1>3. ASSUME NEW i \in Requests, Submit(i) PROVE SecretKept'
  <2>1. i \notin DOMAIN tasks /\ i \notin DOMAIN instances
    BY <1>3 DEF Submit
  <2>2. Placed(i) /\ DOMAIN tasks' = DOMAIN tasks \cup {i} /\ ~tasks'[i].cancelled
    BY <1>3, SubmitRows
  <2>3. tasks'[i].secret /\ ~tasks'[i].expired /\ \A j \in DOMAIN tasks : tasks'[j] = tasks[j]
    BY <1>3, <2>1, SubmitRows
  <2>4. i \in DOMAIN instances' => instances'[i].state # "Deleted"
    BY <2>1, <2>2 DEF Placed
  <2>5. \A j \in DOMAIN tasks : /\ j \in DOMAIN instances' <=> j \in DOMAIN instances
                                /\ j \in DOMAIN instances => instances'[j] = instances[j]
    BY <2>1, <2>2 DEF Placed
  <2> QED
    BY <2>2, <2>3, <2>4, <2>5
<1>4. ASSUME NEW i \in Requests, Cancel(i) PROVE SecretKept'
  <2>1. i \in DOMAIN instances => instances[i].state # "Deleted"
    BY <1>4 DEF Cancel, Ended
  <2> QED
    BY <1>4, <2>1, CancelRows DEF CancelledRows
<1>5. ASSUME NEW c \in Clients, RevokeClient(c) PROVE SecretKept'
  <2>1. \A i \in LiveOf(c) : i \in DOMAIN tasks /\ (i \in DOMAIN instances => instances[i].state # "Deleted")
    BY DEF LiveOf, Ended
  <2> HIDE DEF LiveOf
  <2> QED
    BY <1>5, <2>1, RevokeRows DEF CancelledRows
<1>6. CASE SyncStep
  <2>1. DOMAIN instances' = DOMAIN instances
    BY <1>6 DEF SyncStep, Sync
  <2>2. \A i \in DOMAIN instances : instances[i].state = "Deleted" => instances'[i].state = "Deleted"
    BY <1>6, ReportedRows DEF SyncStep, ShapesOK, TasksTypeOK
  <2> QED
    BY <1>6, <2>1, <2>2, SyncRows DEF Erases
<1>7. ASSUME NEW i \in Requests, Upload(i) PROVE SecretKept'
  BY <1>7, UploadRows
<1>8. ASSUME NEW i \in Requests, TimeIsUp(i) PROVE SecretKept'
  BY <1>8, TimeRows
<1>9. CASE StartDispatch
  BY <1>9 DEF StartDispatch, vars
<1>10. CASE DispatchNext
  <2>1. PICK i \in dispatch.left : LooksAt(i)
    BY <1>10, DispatchRows DEF Waiting, Queued, Open
  <2>2. /\ i \in DOMAIN tasks /\ ~tasks[i].expired /\ ~tasks[i].cancelled /\ tasks[i].secret
        /\ i \notin DOMAIN instances
    BY DEF Waiting, Queued, Open
  <2> QED
    BY <2>1, <2>2 DEF LooksAt, Placed
<1> QED
  BY <1>1, <1>2, <1>3, <1>4, <1>5, <1>6, <1>7, <1>8, <1>9, <1>10, StillSteps
  DEF TasksNext, Users, Node, Clocks

\* What a transaction of a client or of the dispatcher can do to a task with a
\* VM: nothing ends it, nothing of its outcome is undone, and its client is not
\* revoked without it.
ByStore ==
    /\ UNCHANGED <<vm, printed, cleared, marked, orders>>
    /\ DOMAIN instances \subseteq DOMAIN instances' /\ DOMAIN tasks \subseteq DOMAIN tasks'
    /\ \A i \in DOMAIN instances : Ended(i)' <=> Ended(i)
    /\ \A i \in DOMAIN instances' \ DOMAIN instances : ~Ended(i)'
    /\ \A i \in DOMAIN tasks : /\ tasks'[i].result = tasks[i].result
                               /\ tasks[i].cancelled => tasks'[i].cancelled
    /\ \A i \in DOMAIN tasks' \ DOMAIN tasks : tasks'[i].result = "none"
    /\ \A i \in DOMAIN instances : Submitter[i] \in revoked' \ revoked =>
          Ended(i) \/ tasks'[i].cancelled

\* Every transaction of a client or of the dispatcher is ByStore.
LEMMA StoreSteps ==
    ASSUME ShapesOK, TaskInv,
           \/ \E i \in Requests : Authorize(i) \/ Submit(i) \/ Cancel(i) \/ TimeIsUp(i)
           \/ StartDispatch \/ DispatchNext
           \/ \E c \in Clients : RevokeClient(c)
    PROVE  ByStore
<1> USE DEF TaskInv, ByStore, Known
<1>0. UNCHANGED <<vm, printed, cleared, marked, orders>>
  BY StillNode
<1>1. CASE StartDispatch \/ \E i \in Requests : Authorize(i)
  BY <1>0, <1>1 DEF StartDispatch, Authorize, storeVars, vars, Ended
<1>2. ASSUME NEW i \in Requests, Submit(i) PROVE ByStore
  <2>1. i \notin DOMAIN tasks /\ i \notin DOMAIN instances
    BY <1>2 DEF Submit
  <2>2. Placed(i) /\ DOMAIN tasks' = DOMAIN tasks \cup {i} /\ UNCHANGED revoked
    BY <1>2, SubmitRows
  <2>3. tasks'[i].result = "none" /\ \A j \in DOMAIN tasks : tasks'[j] = tasks[j]
    BY <1>2, <2>1, SubmitRows
  <2> QED
    BY <1>0, <2>1, <2>2, <2>3 DEF Placed, Ended
<1>3. ASSUME NEW i \in Requests, Cancel(i) PROVE ByStore
  <2>1. CancelledRows({i}) /\ UNCHANGED revoked
    BY <1>3, CancelRows
  <2>2. i \in DOMAIN tasks /\ (i \in DOMAIN instances => ~Ended(i))
    BY <1>3 DEF Cancel
  <2> QED
    BY <1>0, <2>1, <2>2 DEF CancelledRows, Ended
<1>4. ASSUME NEW i \in Requests, TimeIsUp(i) PROVE ByStore
  BY <1>0, <1>4, TimeRows DEF Ended
<1>5. CASE DispatchNext
  <2>1. PICK i \in dispatch.left : LooksAt(i)
    BY <1>5, DispatchRows DEF Waiting, Queued, Open
  <2>2. i \in DOMAIN tasks /\ i \notin DOMAIN instances
    BY DEF Waiting, Queued, Open
  <2> QED
    BY <1>0, <2>1, <2>2 DEF LooksAt, Placed, Ended
<1>6. ASSUME NEW c \in Clients, RevokeClient(c) PROVE ByStore
  <2>1. CancelledRows(LiveOf(c)) /\ revoked' = revoked \cup {c}
    BY <1>6, RevokeRows
  <2>2. \A i \in LiveOf(c) : i \in DOMAIN tasks /\ (i \in DOMAIN instances => ~Ended(i))
    BY DEF LiveOf
  <2>3. ASSUME NEW i \in DOMAIN instances, Submitter[i] \in revoked' \ revoked
        PROVE  Ended(i) \/ tasks'[i].cancelled
    <3>1. Submitter[i] = c /\ i \in DOMAIN tasks
      BY <2>1, <2>3
    <3>2. CASE i \in LiveOf(c)
      BY <2>1, <3>2 DEF CancelledRows
    <3>3. CASE i \notin LiveOf(c)
      <4>1. ~tasks[i].secret \/ tasks[i].cancelled \/ tasks[i].expired \/ Ended(i)
        BY <3>1, <3>3 DEF LiveOf
      <4>2. ~tasks[i].secret => Ended(i)
        BY <3>1 DEF SecretKept, PlacedInTime, Ended
      <4>3. tasks'[i] = tasks[i]
        BY <2>1, <3>1, <3>3 DEF CancelledRows
      <4> QED
        BY <4>1, <4>2, <4>3 DEF PlacedInTime
    <3> QED
      BY <3>2, <3>3
  <2>4. \A i \in DOMAIN instances : Ended(i)' <=> Ended(i)
    BY <2>1, <2>2 DEF CancelledRows, Ended
  <2> HIDE DEF LiveOf
  <2> QED
    BY <1>0, <2>1, <2>2, <2>3, <2>4 DEF CancelledRows
<1> QED
  BY <1>1, <1>2, <1>3, <1>4, <1>5, <1>6

\* The part of TaskInv that is about the Node's side.
NodeFacts ==
    /\ EndedIsOff /\ OnlyPlacedRun /\ OrdersFit
    /\ LogsKept /\ ResultOfOff
    /\ RevokedNeverRuns /\ ResultIsTrue

\* A transaction that knows nothing of the VMs keeps what relates them to the
\* store.
LEMMA FactsAfterStore ==
    ASSUME ShapesOK, TaskInv, ByStore, TaskTable' PROVE NodeFacts'
<1> USE DEF TaskInv, ByStore, Known
<1>1. \A i \in DOMAIN tasks' \ DOMAIN tasks : i \notin DOMAIN instances
  OBVIOUS
<1>2. EndedIsOff' /\ OnlyPlacedRun' /\ LogsKept'
  BY DEF EndedIsOff, OnlyPlacedRun, LogsKept
<1>3. ResultOfOff' /\ ResultIsTrue'
  BY DEF ResultOfOff, ResultIsTrue
<1>4. OrdersFit'
  BY DEF OrdersFit
<1>5. ASSUME NEW i \in DOMAIN tasks', Submitter[i] \in revoked', ~tasks'[i].cancelled
      PROVE  vm[i] # "running"
  <2>1. CASE i \notin DOMAIN instances
    <3>1. i \in Requests
      BY <1>5 DEF TaskTable, IsTable
    <3> QED
      BY <2>1, <3>1 DEF OnlyPlacedRun
  <2>2. CASE i \in DOMAIN instances
    BY <1>5, <2>2 DEF RevokedNeverRuns, EndedIsOff
  <2> QED
    BY <2>1, <2>2
<1> QED
  BY <1>2, <1>3, <1>4, <1>5 DEF NodeFacts, RevokedNeverRuns

\* Failures, clocks and the removal of logs keep it as well.
LEMMA FactsAfterStill ==
    ASSUME ShapesOK, TaskInv,
           \/ AgentCrash \/ NodeSilent \/ UNCHANGED taskVars
           \/ \E o \in orders : Skip(o)
           \/ \E i \in Requests : RemoveLog(i) \/ Deadline(i)
    PROVE  NodeFacts'
<1>1. StoreStill
  BY StillSteps
<1>2. UNCHANGED <<vm, printed, marked>> /\ orders' \subseteq orders
  BY DEF AgentCrash, NodeSilent, Skip, RemoveLog, Deadline, taskVars, nodeSide
<1>3. LogsKept'
  BY DEF TaskInv, LogsKept, AgentCrash, NodeSilent, Skip, RemoveLog, Useless, Deadline, taskVars,
         nodeSide
<1> QED
  BY <1>1, <1>2, <1>3
  DEF StoreStill, TaskInv, NodeFacts, EndedIsOff, Ended, OnlyPlacedRun, OrdersFit, ResultOfOff,
      RevokedNeverRuns, ResultIsTrue

\* A command acts on its task's VM only, and never on one that has ended but to
\* delete it.
LEMMA FactsAfterExecute ==
    ASSUME ShapesOK, TaskInv, NEW o \in orders, Execute(o) PROVE NodeFacts'
<1> USE DEF TaskInv
<1>1. StoreStill
  BY StillSteps
<1>2. UNCHANGED <<printed, cleared, marked>> /\ orders' \subseteq orders
  BY DEF Execute
<1>3. /\ o.task \in Requests /\ o.task \in DOMAIN instances
      /\ o.action \in {"ensure", "stop", "delete"}
  BY DEF OrdersFit, ShapesOK, TasksTypeOK, TaskOrders
<1>4. /\ vm \in [Requests -> VMPhases]
      /\ \/ o.action = "ensure" /\ EnsureTask(o.task)
         \/ StopTask(o.task) \/ DeleteTask(o.task)
  BY <1>3 DEF Execute, ShapesOK, TasksTypeOK
<1>5. /\ \A i \in Requests \ {o.task} : vm'[i] = vm[i]
      /\ \/ o.action = "ensure" /\ vm[o.task] = "none"
         \/ vm'[o.task] \in {"stopped", "deleted"}
  BY <1>3, <1>4 DEF EnsureTask, StopTask, DeleteTask
<1>6. \A i \in DOMAIN tasks : i \in Requests
  BY DEF ShapesOK, TasksTypeOK, IsTable
<1>7. \A i \in DOMAIN instances : i \in Requests
  BY DEF ShapesOK, TasksTypeOK, TypeOK, IsTable
<1>8. EndedIsOff' /\ OnlyPlacedRun'
  BY <1>1, <1>3, <1>5, <1>7 DEF StoreStill, EndedIsOff, OnlyPlacedRun, Ended, OrdersFit
<1>9. OrdersFit' /\ LogsKept'
  BY <1>1, <1>2 DEF StoreStill, OrdersFit, Ended, LogsKept
<1>10. ResultOfOff' /\ ResultIsTrue'
  BY <1>1, <1>2, <1>5, <1>6 DEF StoreStill, ResultOfOff, ResultIsTrue
<1>11. RevokedNeverRuns'
  BY <1>1, <1>5, <1>6 DEF StoreStill, RevokedNeverRuns, OrdersFit
<1> QED
  BY <1>8, <1>9, <1>10, <1>11 DEF NodeFacts

\* The guest of a VM that is off does nothing.
LEMMA FactsAfterGuest ==
    ASSUME ShapesOK, TaskInv, NEW i \in Requests, Guest(i) PROVE NodeFacts'
<1> USE DEF TaskInv
<1>1. StoreStill
  BY StillSteps
<1>2. UNCHANGED <<cleared, marked, orders>> /\ vm[i] = "running"
  BY DEF Guest
<1>3. /\ \A j \in DOMAIN vm \ {i} : vm'[j] = vm[j]
      /\ \A j \in DOMAIN printed \ {i} : printed'[j] = printed[j]
      /\ vm'[i] \in {"running", "halted"}
  BY <1>2 DEF Guest, ShapesOK, TasksTypeOK
<1>4. DOMAIN vm = Requests /\ DOMAIN printed = Requests
  BY DEF ShapesOK, TasksTypeOK
<1>5. \A j \in DOMAIN tasks : j \in Requests
  BY DEF ShapesOK, TasksTypeOK, IsTable
<1>6. \A j \in DOMAIN instances : j \in Requests
  BY DEF ShapesOK, TasksTypeOK, TypeOK, IsTable
<1>7. EndedIsOff' /\ OnlyPlacedRun'
  BY <1>1, <1>2, <1>3, <1>4, <1>6 DEF StoreStill, EndedIsOff, OnlyPlacedRun, Ended
<1>8. OrdersFit' /\ LogsKept'
  BY <1>1, <1>2 DEF StoreStill, OrdersFit, Ended, LogsKept
<1>9. ResultOfOff' /\ ResultIsTrue'
  BY <1>1, <1>2, <1>3, <1>4, <1>5 DEF StoreStill, ResultOfOff, ResultIsTrue
<1>10. RevokedNeverRuns'
  BY <1>1, <1>2, <1>3, <1>4, <1>5 DEF StoreStill, RevokedNeverRuns
<1> QED
  BY <1>7, <1>8, <1>9, <1>10 DEF NodeFacts

\* A report ends an instance only once its VM is off.
LEMMA FactsAfterSync ==
    ASSUME ShapesOK, TaskInv, SyncStep PROVE NodeFacts'
<1> USE DEF TaskInv
<1>1. /\ DOMAIN instances' = DOMAIN instances
      /\ \A j \in DOMAIN instances :
            \/ instances'[j].state = instances[j].state
            \/ instances[j].state = "Provisioning" /\ instances'[j].state = "Idle"
            \/ /\ instances[j].state # "Deleted" /\ instances'[j].state = "Deleting"
               /\ vm[j] \in {"halted", "stopped"}
            \/ /\ instances[j].state = "Deleting" /\ instances'[j].state = "Deleted"
               /\ vm[j] = "deleted"
  BY ReportedRows DEF SyncStep, ShapesOK, TasksTypeOK
<1>2. vm' = [i \in Requests |-> IF vm[i] = "halted" THEN "stopped" ELSE vm[i]]
  BY DEF SyncStep
<1>3. UNCHANGED <<printed, cleared, marked>>
  BY DEF SyncStep
<1>4. \A i \in DOMAIN tasks : i \in Requests
  BY DEF ShapesOK, TasksTypeOK, IsTable
<1>5. \A i \in DOMAIN instances : i \in Requests /\ i \in DOMAIN tasks
  BY DEF ShapesOK, TasksTypeOK, TypeOK, IsTable, Known
<1>6. /\ DOMAIN tasks' = DOMAIN tasks /\ UNCHANGED revoked
      /\ \A i \in DOMAIN tasks : /\ tasks'[i].cancelled = tasks[i].cancelled
                                 /\ tasks'[i].result = tasks[i].result
  BY SyncRows
<1>7. EndedIsOff' /\ OnlyPlacedRun'
  BY <1>1, <1>2, <1>5 DEF EndedIsOff, OnlyPlacedRun, Ended
<1>8. OrdersFit'
  <2>1. CASE orders' = {}
    BY <2>1 DEF OrdersFit
  <2>2. CASE orders' = UNION {{[task |-> i, action |-> x] : x \in Due(i, instances'[i])}
                                : i \in DOMAIN instances}
    <3>1. ASSUME NEW o \in orders'
          PROVE  o.task \in DOMAIN instances /\ o.action \in Due(o.task, instances'[o.task])
      BY <2>2, <3>1
    <3>2. ASSUME NEW i \in DOMAIN instances, "ensure" \in Due(i, instances'[i])
          PROVE  instances'[i].state \in {"Provisioning", "Idle"} /\ Submitter[i] \notin revoked
      <4>1. instances'[i].state \in InstanceStates /\ instances'[i].state \notin {"Reserved", "Busy"}
        BY <1>1, LedgerTypesKept DEF LedgerKept, TaskStates, TypeOK, IsTable, Instances, TasksNext, Node
      <4> QED
        BY <3>2, <4>1 DEF Due, Deliverable, InstanceStates
    <3> QED
      BY <1>1, <1>6, <3>1, <3>2 DEF OrdersFit, Ended
  <2> QED
    BY <2>1, <2>2 DEF SyncStep
<1>9. ResultOfOff' /\ ResultIsTrue' /\ LogsKept'
  BY <1>2, <1>3, <1>4, <1>6 DEF ResultOfOff, ResultIsTrue, LogsKept
<1>10. RevokedNeverRuns'
  BY <1>2, <1>4, <1>6 DEF RevokedNeverRuns
<1> QED
  BY <1>7, <1>8, <1>9, <1>10 DEF NodeFacts

\* A result is read off a log that is still there, of a VM that is off.
LEMMA FactsAfterUpload ==
    ASSUME ShapesOK, TaskInv, NEW i \in Requests, Upload(i) PROVE NodeFacts'
<1> USE DEF TaskInv
<1>1. /\ DOMAIN tasks' = DOMAIN tasks /\ UNCHANGED <<instances, revoked>>
      /\ \A j \in DOMAIN tasks :
            /\ tasks'[j].cancelled = tasks[j].cancelled
            /\ \/ tasks'[j].result = tasks[j].result
               \/ j = i /\ tasks[j].result = "none" /\ tasks'[j].result = Parsed(i)
  BY UploadRows
<1>2. /\ UNCHANGED <<vm, printed, cleared, orders>> /\ marked \subseteq marked'
      /\ i \notin marked /\ vm[i] \in {"stopped", "deleted"}
  BY DEF Upload, Reportable
<1>3. EndedIsOff' /\ OnlyPlacedRun' /\ LogsKept' /\ RevokedNeverRuns'
  BY <1>1, <1>2 DEF EndedIsOff, OnlyPlacedRun, LogsKept, RevokedNeverRuns, Ended
<1>4. OrdersFit'
  BY <1>1, <1>2 DEF OrdersFit, Ended, Known
<1>5. Parsed(i) = IF printed[i] = "none" THEN "no-result" ELSE printed[i]
  BY <1>2 DEF Parsed, LogsKept
<1>6. ResultOfOff' /\ ResultIsTrue'
  BY <1>1, <1>2, <1>5 DEF ResultOfOff, ResultIsTrue
<1> QED
  BY <1>3, <1>4, <1>6 DEF NodeFacts

\* Every step keeps TaskInv.
LEMMA TaskInvKept ==
    ASSUME ShapesOK, ShapesOK', TaskInv, [TasksNext]_taskVars PROVE TaskInv'
<1>1. Known' /\ Waiting' /\ PlacedInTime' /\ SecretKept'
  BY KnownKept, WaitingKept, PlacedInTimeKept, SecretStaysKept
<1>2. NodeFacts'
  <2>1. CASE \/ \E i \in Requests : Authorize(i) \/ Submit(i) \/ Cancel(i) \/ TimeIsUp(i)
             \/ StartDispatch \/ DispatchNext
             \/ \E c \in Clients : RevokeClient(c)
    BY <2>1, StoreSteps, FactsAfterStore DEF ShapesOK, TasksTypeOK, TaskTable
  <2>2. CASE \/ AgentCrash \/ NodeSilent \/ UNCHANGED taskVars
             \/ \E o \in orders : Skip(o)
             \/ \E i \in Requests : RemoveLog(i) \/ Deadline(i)
    BY <2>2, FactsAfterStill
  <2>3. CASE SyncStep \/ (\E o \in orders : Execute(o))
             \/ \E i \in Requests : Upload(i) \/ Guest(i)
    BY <2>3, FactsAfterSync, FactsAfterExecute, FactsAfterUpload, FactsAfterGuest
  <2> QED
    BY <2>1, <2>2, <2>3 DEF TasksNext, Users, Node, Clocks
<1> QED
  BY <1>1, <1>2 DEF TaskInv, NodeFacts

-----------------------------------------------------------------------------
(* The theorems.                                                           *)

\* Every step keeps the types.
LEMMA ShapesKept ==
    ASSUME ShapesOK, [TasksNext]_taskVars PROVE ShapesOK'
<1>1. TypeOK' /\ TaskStates' /\ TaskTable'
  BY LedgerTypesKept, TaskTableKept DEF LedgerKept, ShapesOK
<1> QED
  BY <1>1, TasksTypesKept DEF ShapesOK

IInvTasks == ShapesOK /\ TaskInv

\* Types and TaskInv together are inductive.
LEMMA TasksInvariant == TasksSpec => []IInvTasks
<1>1. TasksInit => IInvTasks
  BY TasksTypesInit, TaskInvInit DEF IInvTasks
<1>2. IInvTasks /\ [TasksNext]_taskVars => IInvTasks'
  BY ShapesKept, TaskInvKept DEF IInvTasks
<1> QED
  BY <1>1, <1>2, PTL DEF TasksSpec

\* The task table, the Node's side and the ledger under them keep their types.
THEOREM TasksTypes == TasksSpec => []TasksTypeOK
<1>1. IInvTasks => TasksTypeOK
  BY DEF IInvTasks, ShapesOK
<1> QED
  BY <1>1, TasksInvariant, PTL

\* A payload is stored exactly as long as it may still be needed, whatever the
\* order in which a task is placed, cancelled, revoked, expired and deleted.
THEOREM SecretsKept == TasksSpec => []SecretKept
<1>1. IInvTasks => SecretKept
  BY DEF IInvTasks, TaskInv
<1> QED
  BY <1>1, TasksInvariant, PTL

\* No VM of a task that its client's revocation did not cancel runs.
THEOREM RevokedStaysOff == TasksSpec => []RevokedNeverRuns
<1>1. IInvTasks => RevokedNeverRuns
  BY DEF IInvTasks, TaskInv
<1> QED
  BY <1>1, TasksInvariant, PTL

\* Every result on record is what the guest printed.
THEOREM ResultsTrue == TasksSpec => []ResultIsTrue
<1>1. IInvTasks => ResultIsTrue
  BY DEF IInvTasks, TaskInv
<1> QED
  BY <1>1, TasksInvariant, PTL

\* No step gives j a VM while i, submitted before it, waits for the same Pool.
LEMMA OrderKept ==
    ASSUME ShapesOK, TaskInv, [TasksNext]_taskVars,
           NEW j \in DOMAIN instances' \ DOMAIN instances,
           NEW i \in Requests, Before(i, j)', TaskPool[i] = TaskPool[j], Queued(i)
    PROVE  FALSE
<1> USE DEF TaskInv
<1>1. ASSUME StoreStill PROVE FALSE
  BY <1>1 DEF StoreStill
<1>2. ASSUME NEW k \in Requests, Authorize(k) PROVE FALSE
  BY <1>2 DEF Authorize, vars
<1>3. ASSUME NEW k \in Requests, Submit(k) PROVE FALSE
  <2>1. Placed(k)
    BY <1>3, SubmitRows
  <2>2. j = k
    BY <2>1 DEF Placed
  <2>3. ~GoesFirst(k)
    BY <2>2 DEF GoesFirst
  <2> QED
    BY <1>3, <2>3 DEF Submit, vars
<1>4. ASSUME NEW k \in Requests, Cancel(k) PROVE FALSE
  BY <1>4, CancelRows DEF CancelledRows
<1>5. ASSUME NEW c \in Clients, RevokeClient(c) PROVE FALSE
  BY <1>5, RevokeRows DEF CancelledRows
<1>6. CASE SyncStep
  BY <1>6 DEF SyncStep, Sync
<1>7. ASSUME NEW k \in Requests, Upload(k) PROVE FALSE
  BY <1>7, UploadRows
<1>8. ASSUME NEW k \in Requests, TimeIsUp(k) PROVE FALSE
  BY <1>8, TimeRows
<1>9. CASE StartDispatch
  BY <1>9 DEF StartDispatch, vars
<1>10. CASE DispatchNext
  <2>1. PICK k \in dispatch.left : LooksAt(k)
    BY <1>10, DispatchRows DEF Waiting, Queued, Open
  <2>2. Placed(k) /\ TaskPool[k] \notin dispatch.blocked /\ j = k /\ UNCHANGED submitted
    BY <2>1 DEF LooksAt, Placed
  <2>3. i \in dispatch.left
    BY <2>2 DEF Waiting
  <2>4. Before(i, k)
    BY <2>2 DEF Before
  <2> QED
    BY <2>1, <2>3, <2>4 DEF LooksAt, IsNext
<1> QED
  BY <1>1, <1>2, <1>3, <1>4, <1>5, <1>6, <1>7, <1>8, <1>9, <1>10, StillSteps
  DEF TasksNext, Users, Node, Clocks

\* No task gets a VM while an older one of its Pool waits for its own.
THEOREM QueueInOrder == TasksSpec => FirstInFirstOut
<1>1. IInvTasks /\ [TasksNext]_taskVars =>
         [\A j \in DOMAIN instances' \ DOMAIN instances :
             ~\E i \in Requests : Before(i, j)' /\ TaskPool[i] = TaskPool[j] /\ Queued(i)]_taskVars
  BY OrderKept DEF IInvTasks
<1> QED
  BY <1>1, TasksInvariant, PTL DEF TasksSpec, FirstInFirstOut

\* The VM of task i is deleted, and left no result so far.
Gone(i) ==
    /\ i \in DOMAIN instances /\ instances[i].state = "Deleted"
    /\ tasks[i].result = "none"

\* The outcome of task i is on record.
Settled(i) == i \in DOMAIN instances /\ Ended(i) /\ tasks[i].result # "none"

\* What the terminal states stand for.
Because(i) ==
    \/ Shown(i) = "Expired" /\ tasks[i].expired
    \/ /\ ~tasks[i].expired /\ Settled(i)
       /\ Shown(i) = IF tasks[i].result = "succeeded" THEN "Succeeded"
                     ELSE IF tasks[i].cancelled THEN "Cancelled" ELSE "Failed"
    \/ /\ ~tasks[i].expired /\ i \notin DOMAIN instances
       /\ tasks[i].cancelled /\ Shown(i) = "Cancelled"
    \/ /\ ~tasks[i].expired /\ Gone(i)
       /\ \/ tasks[i].cancelled /\ Shown(i) = "Cancelled"
          \/ ~tasks[i].cancelled /\ tasks[i].stale /\ Shown(i) = "Finished"

\* Why a task shows a terminal state.
LEMMA ShownBecause ==
    ASSUME ShapesOK, NEW i \in DOMAIN tasks, Shown(i) \in Terminal
    PROVE  Because(i)
<1> USE DEF Because, Terminal
<1>1. tasks[i] \in TaskRows
  BY DEF ShapesOK, TasksTypeOK, IsTable
<1>2. CASE tasks[i].expired
  BY <1>2 DEF Shown
<1>3. CASE ~tasks[i].expired /\ i \notin DOMAIN instances
  BY <1>3 DEF Shown
<1>4. CASE ~tasks[i].expired /\ i \in DOMAIN instances /\ ~Ended(i)
  BY <1>4 DEF Shown, Ended
<1>5. CASE ~tasks[i].expired /\ i \in DOMAIN instances /\ Ended(i) /\ tasks[i].result # "none"
  BY <1>5 DEF Shown, Ended, Settled
<1>6. CASE ~tasks[i].expired /\ i \in DOMAIN instances /\ Ended(i) /\ tasks[i].result = "none"
  <2>1. CASE instances[i].state = "Deleted"
    BY <1>1, <1>6, <2>1 DEF Shown, Ended, Gone, TaskRows
  <2>2. CASE instances[i].state = "Deleting"
    BY <1>1, <1>6, <2>2 DEF Shown, Ended, TaskRows
  <2> QED
    BY <1>6, <2>1, <2>2 DEF Ended
<1> QED
  BY <1>2, <1>3, <1>4, <1>5, <1>6

\* What a recorded result of task i would be.
Truth(i) == IF printed[i] = "none" THEN "no-result" ELSE printed[i]

\* What no step takes back.
Lasts(i) ==
    /\ i \in DOMAIN tasks'
    /\ tasks[i].expired => tasks'[i].expired
    /\ tasks[i].stale => tasks'[i].stale
    /\ tasks[i].cancelled => tasks'[i].cancelled
    /\ tasks[i].cancelled /\ i \notin DOMAIN instances /\ ~tasks[i].expired =>
          i \notin DOMAIN instances' /\ ~tasks'[i].expired
    /\ i \in DOMAIN instances /\ Ended(i) =>
          /\ i \in DOMAIN instances' /\ Ended(i)'
          /\ tasks'[i].cancelled <=> tasks[i].cancelled
          /\ instances[i].state = "Deleted" => instances'[i].state = "Deleted"
          /\ \/ tasks'[i].result = tasks[i].result
             \/ tasks[i].result = "none" /\ tasks'[i].result = Truth(i)

\* Every step keeps the outcome of every task, and what leads to it.
LEMMA OutcomeLasts ==
    ASSUME ShapesOK, TaskInv, [TasksNext]_taskVars, NEW i \in DOMAIN tasks
    PROVE  Lasts(i)
<1> USE DEF TaskInv, Known, Lasts, Ended
<1>1. ASSUME StoreStill PROVE Lasts(i)
  BY <1>1 DEF StoreStill
<1>2. ASSUME NEW k \in Requests, Authorize(k) PROVE Lasts(i)
  BY <1>2 DEF Authorize, storeVars, vars
<1>3. ASSUME NEW k \in Requests, Submit(k) PROVE Lasts(i)
  <2>1. k # i
    BY <1>3 DEF Submit
  <2>2. tasks'[i] = tasks[i] /\ i \in DOMAIN tasks' /\ Placed(k)
    BY <1>3, <2>1, SubmitRows
  <2> QED
    BY <2>1, <2>2 DEF Placed
<1>4. ASSUME NEW k \in Requests, Cancel(k) PROVE Lasts(i)
  <2>1. CancelledRows({k}) /\ (k \in DOMAIN instances => ~Ended(k))
    BY <1>4, CancelRows DEF Cancel
  <2>2. CASE k = i
    BY <2>1, <2>2 DEF CancelledRows
  <2>3. CASE k # i
    BY <2>1, <2>3 DEF CancelledRows
  <2> QED
    BY <2>2, <2>3
<1>5. ASSUME NEW c \in Clients, RevokeClient(c) PROVE Lasts(i)
  <2>1. CancelledRows(LiveOf(c)) /\ (i \in LiveOf(c) => (i \in DOMAIN instances => ~Ended(i)))
    BY <1>5, RevokeRows DEF LiveOf
  <2> HIDE DEF LiveOf
  <2>2. CASE i \in LiveOf(c)
    BY <2>1, <2>2 DEF CancelledRows
  <2>3. CASE i \notin LiveOf(c)
    BY <2>1, <2>3 DEF CancelledRows
  <2> QED
    BY <2>2, <2>3
<1>6. CASE SyncStep
  <2>1. /\ DOMAIN instances' = DOMAIN instances
        /\ i \in DOMAIN instances /\ Ended(i) => Ended(i)'
        /\ i \in DOMAIN instances /\ instances[i].state = "Deleted" =>
              instances'[i].state = "Deleted"
    BY <1>6, ReportedRows DEF SyncStep, ShapesOK, TasksTypeOK
  <2> QED
    BY <1>6, <2>1, SyncRows
<1>7. ASSUME NEW k \in Requests, Upload(k) PROVE Lasts(i)
  <2>1. Parsed(k) = Truth(k)
    BY <1>7 DEF Upload, Parsed, LogsKept, Truth
  <2> QED
    BY <1>7, <2>1, UploadRows
<1>8. ASSUME NEW k \in Requests, TimeIsUp(k) PROVE Lasts(i)
  BY <1>8, TimeRows
<1>9. CASE StartDispatch
  BY <1>9 DEF StartDispatch, vars
<1>10. CASE DispatchNext
  <2>1. PICK k \in dispatch.left : LooksAt(k)
    BY <1>10, DispatchRows DEF Waiting, Queued, Open
  <2>2. k \notin DOMAIN instances /\ ~tasks[k].cancelled
    BY DEF Waiting, Queued
  <2>3. CASE k = i
    BY <2>1, <2>2, <2>3 DEF LooksAt
  <2>4. CASE k # i
    BY <2>1, <2>4 DEF LooksAt, Placed
  <2> QED
    BY <2>3, <2>4
<1> QED
  BY <1>1, <1>2, <1>3, <1>4, <1>5, <1>6, <1>7, <1>8, <1>9, <1>10, StillSteps
  DEF TasksNext, Users, Node, Clocks

\* A terminal state that a client has seen changes only once, by the late
\* result of a VM that was said to have left none or of a cancelled task.
THEOREM OutcomesFinal == TasksSpec => OutcomeIsFinal
<1>1. ASSUME ShapesOK, TaskInv, ShapesOK', TaskInv', [TasksNext]_taskVars,
             NEW i \in DOMAIN tasks, Shown(i) \in Terminal
      PROVE  Shown(i)' = Shown(i) \/ LateResult(i)
  <2>1. Lasts(i)
    BY <1>1, OutcomeLasts
  <2>2. /\ i \in DOMAIN tasks' /\ tasks'[i] \in TaskRows /\ tasks[i] \in TaskRows
        /\ i \in DOMAIN instances' => ~tasks'[i].expired
        /\ Truth(i) # "none"
    BY <1>1, <2>1 DEF TaskInv, PlacedInTime, Lasts, ShapesOK, TasksTypeOK, IsTable, Truth
  <2>3. CASE Shown(i) = "Expired" /\ tasks[i].expired
    <3>1. tasks'[i].expired
      BY <2>1, <2>3 DEF Lasts
    <3> QED
      BY <2>3, <3>1 DEF Shown
  <2>4. ASSUME ~tasks[i].expired, Settled(i),
               Shown(i) = IF tasks[i].result = "succeeded" THEN "Succeeded"
                          ELSE IF tasks[i].cancelled THEN "Cancelled" ELSE "Failed"
        PROVE  Shown(i)' = Shown(i)
    <3>1. /\ i \in DOMAIN instances' /\ Ended(i)' /\ tasks'[i].result # "none"
          /\ tasks'[i].result = tasks[i].result
          /\ tasks'[i].cancelled <=> tasks[i].cancelled
      BY <2>1, <2>4 DEF Lasts, Settled
    <3> QED
      BY <2>2, <2>4, <3>1 DEF Shown, Ended
  <2>5. ASSUME ~tasks[i].expired, i \notin DOMAIN instances,
               tasks[i].cancelled, Shown(i) = "Cancelled"
        PROVE  Shown(i)' = Shown(i)
    <3>1. i \notin DOMAIN instances' /\ ~tasks'[i].expired /\ tasks'[i].cancelled
      BY <2>1, <2>5 DEF Lasts
    <3> QED
      BY <2>5, <3>1 DEF Shown
  <2>6. ASSUME ~tasks[i].expired, Gone(i),
               \/ tasks[i].cancelled /\ Shown(i) = "Cancelled"
               \/ ~tasks[i].cancelled /\ tasks[i].stale /\ Shown(i) = "Finished"
        PROVE  Shown(i)' = Shown(i) \/ LateResult(i)
    <3>1. /\ i \in DOMAIN instances' /\ instances'[i].state = "Deleted"
          /\ tasks'[i].cancelled <=> tasks[i].cancelled
          /\ tasks[i].stale => tasks'[i].stale
          /\ tasks'[i].result \in {"none", Truth(i)}
      BY <2>1, <2>6 DEF Lasts, Gone, Ended
    <3>2. CASE tasks'[i].result = "none"
      BY <2>2, <2>6, <3>1, <3>2 DEF Shown, Ended
    <3>3. CASE tasks'[i].result = Truth(i)
      <4>1. Shown(i)' = IF tasks'[i].result = "succeeded" THEN "Succeeded"
                        ELSE IF tasks'[i].cancelled THEN "Cancelled" ELSE "Failed"
        BY <2>2, <3>1, <3>3 DEF Shown, Ended
      <4> QED
        BY <2>6, <3>1, <3>3, <4>1 DEF LateResult, Truth, Gone
    <3> QED
      BY <3>1, <3>2, <3>3
  <2> QED
    BY <1>1, <2>3, <2>4, <2>5, <2>6, ShownBecause DEF Because
<1>2. IInvTasks /\ IInvTasks' /\ [TasksNext]_taskVars => [OutcomeStays]_taskVars
  BY <1>1 DEF IInvTasks, OutcomeStays
<1> QED
  BY <1>2, TasksInvariant, PTL DEF TasksSpec, OutcomeIsFinal
===============================================================================

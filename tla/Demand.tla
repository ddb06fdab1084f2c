-------------------------------- MODULE Demand --------------------------------
(***************************************************************************)
(* One Pool's GitHub side, internal/github/provider.go: the listener that  *)
(* persists scale-set messages, acquires jobs and acknowledges, and the    *)
(* manager's loop that refreshes the demand and provisions runners.  Both  *)
(* work on the store of module Ledger in transactions of their own, and    *)
(* everything else goes on in between: GitHub, the guests, reports, stops. *)
(*                                                                         *)
(* GitHub is external, and modelled by what the code relies on: a message  *)
(* is delivered again until it is deleted and does not change once it was  *)
(* handed out; acquiring a job twice is harmless; a JIT runner takes one   *)
(* job.  The VM of an instance is reduced to what reports tell of it;      *)
(* module Lifecycle has the rest.                                          *)
(***************************************************************************)
EXTENDS Ledger

CONSTANTS
    worker,             \* the Node
    served,             \* the Pool
    Installed, Health,  \* see Lifecycle
    Jobs,               \* workflow jobs
    NoJob,              \* the job of a runner that has none
    FaultLimit          \* bound on the faults of a behaviour

ASSUME DemandInputs ==
    /\ IsConfig(Installed)
    /\ worker \in DOMAIN Installed.nodes
    /\ served \in DOMAIN Installed.pools /\ ~Installed.pools[served].tasks
    /\ Health \in ObservationTypes
    /\ IsFiniteSet(Jobs)
    /\ NoJob \notin Jobs
    /\ FaultLimit \in Nat

\* A session for every fault and one more; at most four messages about a job.
ASSUME MessageKeys ==
    (1 .. FaultLimit + 1) \X (0 .. 4 * Cardinality(Jobs)) \subseteq MessageIds

VARIABLES
    jobs,               \* where each job is, at GitHub
    queue,              \* messages GitHub has not been told to delete
    sent,               \* number of messages so far, the ID of the last one
    registered,         \* the registration of each runner at GitHub; 0 without
    issued,             \* number of registrations so far
    taken,              \* the job each runner took
    ended,              \* runners whose completion GitHub has sent
    vm,                 \* the VM of each instance
    listener,           \* what the listener does next
    session,            \* its session
    manager,            \* what the manager's loop does next
    snapshot,           \* statistics one of its processes has fetched
    short,              \* whether Reconcile found too few runners
    awaiting,           \* runners Reconcile has yet to provide for
    stored,             \* the registration whose JIT configuration is stored
    stops,              \* how often a runner stopped before its completion
    basis,              \* the value of stops when the stored demand was counted
    faults              \* faults so far

githubVars   == <<jobs, queue, sent, registered, issued, taken, ended>>
listenerVars == <<listener, session>>
managerVars  == <<manager, short, awaiting>>
countVars    == <<snapshot, basis>>
nodeSideVars == <<vm, stops>>
demandSystem == <<vars, githubVars, listenerVars, managerVars, countVars,
                  nodeSideVars, stored, faults>>

JobStates == {"planned", "available", "assigned", "running", "done"}

Counts == [desired : Nat, at : Nat]

Messages == [id : Nat, count : Counts, available : SUBSET Jobs,
             started : Seq(Requests), completed : Seq(Requests)]

\* The types of the store, of GitHub's side and of the two loops.
DemandTypeOK ==
    /\ TypeOK
    /\ jobs \in [Jobs -> JobStates]
    /\ queue \in Seq(Messages)
    /\ sent \in Nat /\ issued \in Nat
    /\ registered \in [Requests -> 0 .. issued]
    /\ stored \in [Requests -> 0 .. issued]
    /\ taken \in [Requests -> Jobs \cup {NoJob}]
    /\ ended \subseteq Requests
    /\ vm \in [Requests -> {"none", "on", "off", "gone"}]
    /\ listener \in {"connect", "open", "poll", "acquire", "ack", "raise", "lower"}
    /\ session \in 0 .. FaultLimit + 1
    /\ manager \in {"tick", "refresh", "read", "list", "allocate",
                   "provide", "register", "store"}
    /\ snapshot \in [{"listener", "manager"} -> Counts]
    /\ short \in BOOLEAN
    /\ awaiting \in Seq(Requests)
    /\ stops \in Nat /\ basis \in Nat
    /\ faults \in 0 .. FaultLimit

NoCount == [desired |-> 0, at |-> 0]

DemandInit ==
    /\ Established(Installed, worker, Health)
    /\ jobs = [j \in Jobs |-> "planned"]
    /\ queue = <<>> /\ sent = 0
    /\ registered = [i \in Requests |-> 0] /\ issued = 0
    /\ taken = [i \in Requests |-> NoJob]
    /\ ended = {}
    /\ vm = [i \in Requests |-> "none"]
    /\ listener = "connect" /\ session = 0
    /\ manager = "tick" /\ short = FALSE /\ awaiting = <<>>
    /\ snapshot = [who \in {"listener", "manager"} |-> NoCount]
    /\ stored = [i \in Requests |-> 0]
    /\ stops = 0 /\ basis = 0
    /\ faults = 0

\* A process has used what it had fetched.
Used(who) == snapshot' = [snapshot EXCEPT ![who] = NoCount]

Fault == faults < FaultLimit /\ faults' = faults + 1

-----------------------------------------------------------------------------
(* GitHub.                                                                 *)

\* TotalAssignedJobs, when the jobs are at js.
CountOf(js) == [desired |-> Cardinality({j \in Jobs : js[j] \in {"assigned", "running"}}),
                at |-> stops]

\* The last message, as long as nobody has got it.
Unseen == queue # <<>> /\ \A key \in inbox : key[2] # queue[Len(queue)].id

\* GitHub tells of an event, in a message of its own or in one not handed out.
Tell(js, available, started, completed) ==
    LET last == queue[Len(queue)] IN
    \/ /\ sent' = sent + 1
       /\ queue' = Append(queue, [id |-> sent + 1, count |-> CountOf(js),
                                  available |-> available, started |-> started,
                                  completed |-> completed])
    \/ /\ Unseen
       /\ queue' = [queue EXCEPT ![Len(queue)] =
                       [id |-> last.id, count |-> CountOf(js),
                        available |-> last.available \cup available,
                        started |-> last.started \o started,
                        completed |-> last.completed \o completed]]
       /\ UNCHANGED sent

JobQueued(j) ==
    /\ jobs[j] = "planned"
    /\ jobs' = [jobs EXCEPT ![j] = "available"]
    /\ Tell(jobs', {j}, <<>>, <<>>)
    /\ UNCHANGED <<registered, issued, taken, ended>>

\* A runner that has come up with the registration GitHub knows takes a job.
JobStarts(j, i) ==
    /\ jobs[j] = "assigned"
    /\ vm[i] = "on"
    /\ registered[i] = stored[i]
    /\ registered[i] # 0
    /\ taken[i] = NoJob
    /\ jobs' = [jobs EXCEPT ![j] = "running"]
    /\ taken' = [taken EXCEPT ![i] = j]
    /\ Tell(jobs', {}, <<i>>, <<>>)
    /\ UNCHANGED <<registered, issued, ended>>

\* The job ends, or GitHub misses its runner for too long; a JIT runner's
\* registration ends with its job.
JobEnds(j, i) ==
    /\ taken[i] = j
    /\ jobs[j] = "running"
    /\ jobs' = [jobs EXCEPT ![j] = "done"]
    /\ registered' = [registered EXCEPT ![i] = 0]
    /\ ended' = ended \cup {i}
    /\ Tell(jobs', {}, <<>>, <<i>>)
    /\ UNCHANGED <<issued, taken>>

GitHubActs ==
    /\ \E j \in Jobs : JobQueued(j) \/ \E i \in Requests : JobStarts(j, i) \/ JobEnds(j, i)
    /\ UNCHANGED <<vars, listenerVars, managerVars, countVars, nodeSideVars, stored, faults>>

-----------------------------------------------------------------------------
(* The listener: listen and PersistThenAcknowledge.                        *)

Listen(step) == listener' = step /\ UNCHANGED session

\* A new session starts with the statistics of its moment.
Connect ==
    /\ listener = "connect"
    /\ session' = session + 1
    /\ listener' = "open"
    /\ snapshot' = [snapshot EXCEPT !["listener"] = CountOf(jobs)]
    /\ UNCHANGED <<vars, githubVars, managerVars, basis, nodeSideVars, stored, faults>>

\* They are persisted as message 0, which holds no jobs.
Open ==
    /\ listener = "open"
    /\ PersistMessage(<<session, 0>>, served, snapshot["listener"].desired, <<>>, FALSE)
    /\ basis' = snapshot["listener"].at
    /\ Used("listener")
    /\ Listen("poll")
    /\ UNCHANGED <<githubVars, managerVars, nodeSideVars, stored, faults>>

StartedEvents(m) ==
    [k \in DOMAIN m.started |-> [instance |-> m.started[k], state |-> "Busy"]]

CompletedEvents(m) ==
    [k \in DOMAIN m.completed |-> [instance |-> m.completed[k], state |-> "Complete"]]

\* Mutant: completions come first.
EventsBackwards(m) == CompletedEvents(m) \o StartedEvents(m)

Events(m) == StartedEvents(m) \o CompletedEvents(m)

\* A message that offers jobs fences the Pool until they are acquired.
HoldsIntake(m) == m.available # {}

\* Store.PersistMessage; the inbox knows a message that is delivered again.
Persist(m) ==
    IF <<session, m.id>> \in inbox THEN UNCHANGED <<vars, basis>>
    ELSE /\ PersistMessage(<<session, m.id>>, served, m.count.desired, Events(m), HoldsIntake(m))
         /\ basis' = m.count.at

\* What follows when the message is persisted.
\* Mutant: a message is acknowledged before its jobs are acquired.
AckBeforeAcquire(m) == "ack"

AfterPersist(m) == IF m.available = {} THEN "ack" ELSE "acquire"

Receive ==
    /\ listener = "poll"
    /\ queue # <<>>
    /\ Persist(Head(queue))
    /\ Listen(AfterPersist(Head(queue)))
    /\ UNCHANGED <<githubVars, managerVars, snapshot, nodeSideVars, stored, faults>>

\* GitHub assigns the jobs A, and tells of the new statistics.
Assign(A) ==
    LET new == {j \in A : jobs[j] = "available"} IN
    IF new = {} THEN UNCHANGED <<jobs, queue, sent>>
    ELSE /\ jobs' = [j \in Jobs |-> IF j \in new THEN "assigned" ELSE jobs[j]]
         /\ Tell(jobs', {}, <<>>, <<>>)

Acquire ==
    /\ listener = "acquire"
    /\ \/ /\ Assign(Head(queue).available)
          /\ Listen("ack")
          /\ UNCHANGED faults
       \/ /\ \E A \in SUBSET Head(queue).available : Assign(A)  \* failed or incomplete
          /\ Listen("raise")
          /\ Fault
    /\ UNCHANGED <<vars, registered, issued, taken, ended, managerVars, countVars,
                   nodeSideVars, stored>>

\* What follows an acknowledgement that failed.
AfterFailedAck(m) == IF m.available = {} THEN "poll" ELSE "raise"

AfterAck(m) == IF m.available = {} THEN "poll" ELSE "lower"

Acknowledge ==
    /\ listener = "ack"
    /\ \/ /\ queue' = Tail(queue)
          /\ Listen(AfterAck(Head(queue)))
          /\ UNCHANGED faults
       \/ /\ queue' \in {queue, Tail(queue)}                    \* with or without effect
          /\ Listen(AfterFailedAck(Head(queue)))
          /\ Fault
    /\ UNCHANGED <<vars, jobs, sent, registered, issued, taken, ended, managerVars,
                   countVars, nodeSideVars, stored>>

SetFence ==
    /\ listener \in {"raise", "lower"}
    /\ SetIntakeFence(served, listener = "raise")
    /\ Listen("poll")
    /\ UNCHANGED <<githubVars, managerVars, countVars, nodeSideVars, stored, faults>>

\* "scale-set polling interrupted": the session is closed, a new one opened.
Disconnect ==
    /\ listener \in {"open", "poll"}
    /\ Fault
    /\ Used("listener")
    /\ Listen("connect")
    /\ UNCHANGED <<vars, githubVars, managerVars, basis, nodeSideVars, stored>>

-----------------------------------------------------------------------------
(* The manager's loop: refresh, then Reconcile.                            *)

Manage(step) == manager' = step /\ UNCHANGED <<short, awaiting>>

\* Reconcile is over, and forgets what it had read.
Provided == manager' = "tick" /\ awaiting' = <<>> /\ short' = FALSE

\* Every thirty seconds the statistics are fetched first; not every answer is one.
Tick ==
    /\ manager = "tick"
    /\ \/ /\ snapshot' = [snapshot EXCEPT !["manager"] = CountOf(jobs)]
          /\ Manage("refresh")
       \/ Manage("read") /\ UNCHANGED snapshot
    /\ UNCHANGED <<vars, githubVars, listenerVars, basis, nodeSideVars, stored, faults>>

Refresh ==
    /\ manager = "refresh"
    /\ RefreshDemand(served, snapshot["manager"].desired)
    /\ basis' = snapshot["manager"].at
    /\ Used("manager")
    /\ Manage("read")
    /\ UNCHANGED <<githubVars, listenerVars, nodeSideVars, stored, faults>>

Blocked == demand[served].barrier \/ demand[served].intake

\* Reconcile reads the demand; without one, or one that is 90 seconds old or
\* blocked, it is over.
ReadDemand ==
    /\ manager = "read"
    /\ \/ /\ served \in DOMAIN demand /\ ~Blocked
          /\ snapshot' = [snapshot EXCEPT !["manager"].desired = demand[served].desired]
          /\ Manage("list")
       \/ Manage("tick") /\ UNCHANGED snapshot
    /\ UNCHANGED <<vars, githubVars, listenerVars, basis, nodeSideVars, stored, faults>>

Target == LET wanted == snapshot["manager"].desired + config.pools[served].warmIdle IN
    IF wanted < config.pools[served].maxRunners THEN wanted ELSE config.pools[served].maxRunners

\* Mutant: instances that are already provisioned are provided for again.
AwaitsAnything(a) == a.pool = served /\ a.state \in {"Reserved", "Provisioning"}

AwaitsRunner(a) == a.pool = served /\ a.state = "Reserved" /\ ~a.ready

\* Reconcile reads the instances, in a transaction of its own.
List ==
    /\ manager = "list"
    /\ short' = (/\ config.pools[served].enabled
                 /\ Cardinality(RunnersOf(instances, served)) < Target)
    /\ \E order \in [1 .. Cardinality({i \in DOMAIN instances : AwaitsRunner(instances[i])})
                        -> DOMAIN instances] :
          /\ {order[k] : k \in DOMAIN order} =
                {i \in DOMAIN instances : AwaitsRunner(instances[i])}
          /\ awaiting' = order
    /\ manager' = "allocate"
    /\ Used("manager")
    /\ UNCHANGED <<vars, githubVars, listenerVars, basis, nodeSideVars, stored, faults>>

\* One more instance when there are too few; NO_CAPACITY ends this Reconcile,
\* as does the bound on Requests.
AllocateOne ==
    /\ manager = "allocate"
    /\ \/ /\ ~short
          /\ Manage("provide")
          /\ UNCHANGED vars
       \/ /\ short
          /\ ~Requests \subseteq DOMAIN instances
          /\ LET i == CHOOSE i \in Requests : i \notin DOMAIN instances IN
                /\ Allocate(i, served)
                /\ awaiting' = Append(awaiting, i)
          /\ manager' = "provide" /\ short' = FALSE
       \/ /\ short
          /\ Candidates(served) = {} \/ Requests \subseteq DOMAIN instances
          /\ Provided
          /\ UNCHANGED vars
    /\ UNCHANGED <<githubVars, listenerVars, countVars, nodeSideVars, stored, faults>>

\* The next runner that waits: its deadline has passed and it is stopped, or an
\* old registration of its name is removed.
Provide ==
    /\ manager = "provide"
    /\ awaiting # <<>>
    /\ LET i == Head(awaiting) IN
       \/ /\ IF instances[i].state \in {"Deleting", "Deleted"} THEN UNCHANGED vars
             ELSE StopInstance(i)
          /\ manager' = "provide" /\ awaiting' = Tail(awaiting) /\ UNCHANGED short
          /\ UNCHANGED <<registered, faults>>
       \/ /\ registered' = [registered EXCEPT ![i] = 0]
          /\ Manage("register")
          /\ UNCHANGED <<vars, faults>>
       \/ /\ Fault                    \* GitHub's API fails, with or without effect
          /\ registered' \in {registered, [registered EXCEPT ![i] = 0]}
          /\ Provided
          /\ UNCHANGED vars
    /\ UNCHANGED <<jobs, queue, sent, issued, taken, ended, listenerVars, countVars,
                   nodeSideVars, stored>>

\* A new registration is generated; its answer may be lost, or come to nothing.
Register ==
    /\ manager = "register"
    /\ \/ /\ registered' = [registered EXCEPT ![Head(awaiting)] = issued + 1]
          /\ issued' = issued + 1
          /\ \/ Manage("store") /\ UNCHANGED faults
             \/ Provided /\ Fault
       \/ /\ Provided /\ Fault
          /\ UNCHANGED <<registered, issued>>
    /\ UNCHANGED <<vars, jobs, queue, sent, taken, ended, listenerVars, countVars,
                   nodeSideVars, stored>>

AllProvided ==
    /\ manager = "provide"
    /\ awaiting = <<>>
    /\ Provided
    /\ UNCHANGED <<vars, githubVars, listenerVars, countVars, nodeSideVars, stored, faults>>

\* SetJIT, and discardJIT when the store refuses it or its transaction fails;
\* the registration may be removed or not, and nobody asks.
StoreJIT ==
    /\ manager = "store"
    /\ LET i == Head(awaiting)
           removed == [registered EXCEPT ![i] = 0]
       IN
       \/ /\ SetJIT(i)
          /\ stored' = [stored EXCEPT ![i] = registered[i]]
          /\ manager' = "provide" /\ awaiting' = Tail(awaiting) /\ UNCHANGED short
          /\ UNCHANGED <<registered, faults>>
       \/ /\ \/ instances[i].state # "Reserved" /\ registered' = removed /\ UNCHANGED faults
             \/ Fault /\ registered' \in {registered, removed}
          /\ Provided
          /\ UNCHANGED <<vars, stored>>
    /\ UNCHANGED <<jobs, queue, sent, issued, taken, ended, listenerVars, countVars,
                   nodeSideVars>>

\* The Controller dies and is started again.
ControllerCrash ==
    /\ Fault
    /\ Listen("connect")
    /\ Provided
    /\ snapshot' = [who \in DOMAIN snapshot |-> NoCount]
    /\ UNCHANGED <<vars, githubVars, basis, nodeSideVars, stored>>

-----------------------------------------------------------------------------
(* The Node and the administrator.                                         *)

\* What becomes of a VM, and what the Controller has it become; it is also
\* stopped, prepared or not, when the deadline of its instance passes.
VMChanges(i) ==
    \/ /\ vm[i] = "none" /\ instances[i].ready
       /\ instances[i].state \in {"Provisioning", "Idle", "Busy"}
       /\ vm' = [vm EXCEPT ![i] = "on"]
    \/ /\ vm[i] \in {"none", "on"}
       /\ vm' = [vm EXCEPT ![i] = "off"]
    \/ /\ vm[i] = "off" /\ instances[i].state = "Deleting"
       /\ vm' = [vm EXCEPT ![i] = "gone"]

Says(i) == CASE vm[i] = "none" -> "none" [] vm[i] = "on" -> "Running"
             [] vm[i] = "off" -> "Stopped" [] vm[i] = "gone" -> "Deleted"

ReportArrives ==
    /\ Sync(worker, Health, [i \in Live(worker) |-> Says(i)])
    /\ stops' = IF \E i \in Live(worker) : StoppedEarly(instances[i], Says(i))
                THEN stops + 1 ELSE stops
    /\ UNCHANGED vm

NodeActs ==
    /\ \/ /\ \E i \in DOMAIN instances : VMChanges(i)
          /\ UNCHANGED <<vars, stops>>
       \/ ReportArrives
       \/ /\ \E i \in Requests : StopInstance(i)
          /\ UNCHANGED nodeSideVars
    /\ UNCHANGED <<githubVars, listenerVars, managerVars, countVars, stored, faults>>

-----------------------------------------------------------------------------
Listener == Connect \/ Open \/ Receive \/ Acquire \/ Acknowledge \/ SetFence

Manager == Tick \/ Refresh \/ ReadDemand \/ List \/ AllocateOne \/ Provide
              \/ AllProvided \/ Register \/ StoreJIT

DemandNext ==
    \/ GitHubActs \/ NodeActs \/ Listener \/ Manager
    \/ Disconnect \/ ControllerCrash

DemandSpec == DemandInit /\ [][DemandNext]_demandSystem

\* Both loops go on; guests, Nodes, GitHub's jobs and administrators owe nothing.
FairDemand ==
    /\ DemandSpec
    /\ WF_demandSystem(Listener)
    /\ WF_demandSystem(Manager)

-----------------------------------------------------------------------------
(* Properties.                                                             *)

\* "fence demand until every job request ID is acquired", CHANGELOG.md: while
\* jobs of a persisted message may not all be acquired or acknowledged, the
\* Pool stays fenced, through crashes, new sessions and refreshes.
FenceCoversAcquisition == \A k \in DOMAIN queue :
    (queue[k].available # {} /\ \E key \in inbox : key[2] = queue[k].id) => Fenced(served)

\* "No ACK is sent until durable demand/events have been committed": what
\* GitHub said of a completion and need not say again is on record.
AcknowledgedIsRecorded == \A i \in ended :
    \/ instances[i].result
    \/ \E k \in DOMAIN queue : \E l \in DOMAIN queue[k].completed : queue[k].completed[l] = i

\* A stored JIT configuration stays good: GitHub still knows its registration
\* when the VM comes up and until its job is over (Reconcile, discardJIT).
StoredIsRegistered == \A i \in Requests :
    stored[i] # 0 /\ i \notin ended => registered[i] = stored[i]

\* No job is lost on the way in: what GitHub offers is acquired in the end,
\* although acquisitions fail, sessions end and the Controller crashes
\* (PersistThenAcknowledge, "do not ACK a partial acquire").
JobsAcquired == \A j \in Jobs : jobs[j] = "available" ~> jobs[j] # "available"

\* CHANGELOG.md: "fence demand until every job request ID is acquired", so the
\* fence ends when all jobs are acquired.
FenceEnds ==
    (Fenced(served) /\ \A j \in Jobs : jobs[j] # "available") ~> ~Fenced(served)

\* docs/ARCHITECTURE.md, "GitHub message handling": after a runner stopped
\* before its completion, "a barrier requires a fresh server-side demand
\* snapshot before replacement".
ReplacementIsFresh == [][
    \A i \in DOMAIN instances' \ DOMAIN instances : basis = stops]_demandSystem
===============================================================================

# TLA+ models of RunnerLoom

These modules model how RunnerLoom places disposable VMs on Nodes, keeps account
of what they hold, creates and deletes them through libvirt, and gives their
resources back; how agent tasks are queued, run and reported; how Images reach the
Nodes and are removed; and how Nodes and clients get and keep their certificates -
with concurrent administrators, GitHub messages, delayed and lost reports, crashes
and failing host commands. TLC checks the models on small
instances; TLAPS proves the central safety properties for every value of the
constants.

    tlc  -workers 2 -config MC_LedgerCapacity.cfg MC_Ledger.tla   # one run
    tlapm Ledger_proofs.tla                                       # one proof module

`PROJECT.json` lists the components, the runs, a seeded bug (mutant) for every
property of every run, the source lines behind every definition, the hazards of
the code and the theorems.

## 1. The system

A **Controller** stores the cluster's configuration, the table of instances and
the GitHub demand in one SQLite database, serves an mTLS API and listens to GitHub's
scale-set queues. On every **Node** a root **Agent** reports what its VMs do and
executes the typed commands it gets as an answer: ensure, stop, delete. Guests run
one job and power off.

| Component (source) | State it keeps | Operations | What makes it correct |
|---|---|---|---|
| Controller store (`internal/core/store.go`, `reservations.go`, `model.go`, `runtime.go`) | configuration and revision, plans, instances with what each holds, last report of each Node, drained Nodes | Plan, Apply, Allocate, SetJIT, StopInstance, Sync, Drain | no Node or Pool over its limits; reservations always deliverable; what is released stays released; no concurrent plan undoes another |
| GitHub demand (`store.go`, `runtime.go`, `internal/github/`) | demand, barrier and fence of each Pool; inbox of messages; scale-set bindings | PersistMessage, RefreshDemand, SetIntakeFence, listener, Reconcile | a message counts once; no completion is lost; stale demand makes no VM |
| Agent tasks (`internal/core/task.go`, `internal/host/task.go`) | task rows, encrypted payloads, results; on the Node console logs and markers | SubmitTask, DispatchTasks, CancelTask, ReportTask, RevokeClient, TaskReports | first in, first out; one true outcome per task; payload erased in the end |
| Identity (`internal/core/identity.go`, `task.go`, `internal/tasks/client.go`) | CA, invitations, enrolments, certificate hashes of Nodes and clients, files of the machines | Invite, Join, Approve, ApproveClient, Install, renewal, Revoke | one machine per name; renewals lock nobody out; who is revoked stays out |
| Node Agent (`internal/agent/agent.go`) | sequence number, catalog, certificate | Step: inventory, report, execute the reply, report tasks, download one Image; Enroll; renew | the host and the ledger agree the safe way round |
| Host provider (`internal/host/provider.go`) | one manifest per VM, domains, disk directories | Ensure, EnsureStopIntent, Stop, Delete, Inventory | at most one start; tombstones are true; local ceiling |
| Image cache (`internal/host/images.go`, `download.go`, `cache.go`) | published, partial and set aside files on the Controller and on each Node, VM bases | Import, Download, Verify, quarantine, prune, seed | only verified bytes are published, nothing in use is removed, Images arrive |
| Network, files, CLI, MCP, discovery | none that interacts | see `PROJECT.json` | - |

**How they interact.** The listener, the reconciler, the HTTP handlers and the
administrator's commands run concurrently and meet only in the store's transactions;
`Store.transaction` takes SQLite's writer lock before it reads, so a transaction is
atomic, but what a caller read in an earlier one may be stale. A Node's report and
the reply to it are the only messages between Controller and Agent; a report is
numbered, an older one is refused. Inside the Agent one mutex (`Libvirt.mu`)
serialises the provider's operations, but each is a sequence of external effects and
manifest writes, and a crash can fall between any two.

**What is hard.**
(1) Two ledgers, the Controller's and the Node's manifests, are updated at different
times and must err on the safe side. (2) A hard reservation protects its unused slots,
one of which may be half released: the VM stopped, its disk is still there. (3) A
configuration change races placement. (4) A crash around `virsh start` must not start a
job twice. (5) A deletion is believed only if it was ordered; a wrong one would cut
the Node off. (6) GitHub's events come late, several at once, or for an instance that
is already being stopped. (7) A command or a download that keeps failing holds up those behind it. (8) A result is uploaded until
it is acknowledged while the VM, its log and the task's payload go away. (9) A base that disks
hang on is a hard link to a cache file that downloads replace and administrators prune.
(10) A renewed certificate counts from when the Controller records it, not from when the
machine has it.
The full list, each at its line and with the properties that cover it, is under
"hazards" in `PROJECT.json`.

## 2. The modules

| Module | Models | Uses |
|---|---|---|
| `ResourceUnits` | vectors of processors, memory and disk; sums | - |
| `ClusterConfig` | `Config.Validate`, `mergeConfig`, eligibility, `reservations.go`, `checkCapacityUpdate` | `ResourceUnits` |
| `Ledger` | the store: one action per transaction | `ClusterConfig` |
| `HostVM` | the libvirt provider: one action per external effect or manifest write | `ResourceUnits` |
| `Lifecycle` | Controller, Agent and host of one Node, and the sync protocol | EXTENDS `Ledger`, INSTANCE `HostVM`, INSTANCE `Lease` |
| `Demand` | one Pool's GitHub side: listener, refresh, Reconcile | EXTENDS `Ledger` |
| `Tasks` | `task.go` and the Node's task reports: queue, payload, result | EXTENDS `Ledger` |
| `ImageCache` | Controller's and Node's cache, Agent's downloads, base links and overlays | - |
| `Certificates` | invitations, joins, approvals, renewals and revocation of one name | - |
| `Lease` | abstract: what is promised about the resources of each VM | - |
| `*_proofs` | theorems and lemmas of the module they are named after (those of `ClusterConfig` are in `Ledger_proofs`) | that module |
| `MC_*` | small instances for TLC | |

**Ledger.** `config`, `revision` and `plans` are the config and plans tables;
`instances` is the instances table with its tombstones, and `held` the columns
of what is still charged; `reports` is nodes.last_report with a flag for the 45-second freshness window;
`drained`, `demand`, `inbox` the columns and tables of those names. `Plan`, `Apply`,
`Approve`, `Allocate`, `Dispatch`, `SetJIT`, `StopInstance`, `Sync`, `Drain`,
`PersistMessage`, `RefreshDemand`, `SetIntakeFence` are the transactions; `ReportAges`
and `PlanExpires` are time. `Candidates` is the candidates loop with each of its
reasons as a conjunct, `NoLater` its sorting; `HasBudget` and `HasDisk` use
`Committed`, what instances hold and unused reservation slots protect, and `Lent`,
the slot a job of the reserved Pool gets back. A repeated call that changes nothing
(the same request allocated again, a message delivered twice) is a stutter and has no action.

**HostVM.** `phase` is the manifest, `domain` and `disks` what libvirt and the file
system hold, `op` the operation in progress and its next step. Ensure is Prepare,
Build, Define, SaveIntent, Start, SaveRunning (or EnsureAgain when the start was
already issued); Stop is Stop, Destroy, SaveStopped; Delete is Delete, Undefine, Erase,
SaveDeleted. `Abort` ends an operation anywhere: an error return and a crash leave the
same state. `boots` counts starts and belongs to the model alone.

**Lifecycle.** Report, Execute, Skip, Operate are `Agent.Step`; Deliver is
`Store.Sync`'s application of the report (`Ledger!Sync`) followed by its choice of
commands (`OrderFor`, `Reply`); `flight` are requests the network has not delivered, and
GiveUp, Lose, the lost reply in Deliver, AgentCrash, HostCrash and StepFails are what
goes wrong. `PoolOf` says which Pool each request ID asks for, as the caller chose it, and `Charge` what
its VM therefore holds. `Expire` is a deadline, `Recover` is `vm recover` while the Agent is stopped.

**Lease** is stated without reports, phases or commands: all resources are promised
before files are made, a VM starts at most once and only with all of them promised,
processors are given back only when it does not run, disk only when its files are
gone. `LeaseKept` says that `Lifecycle` implements it, by the mapping in `Contract`:
`lease` is read off what the Controller's row still holds, while `stored`, `started`
and `running` are facts of the host.

**Demand.** Two loops around the store's transactions. `listener` is where `listen` and
`PersistThenAcknowledge` are: Connect and Open start a session, Receive gets and persists
a message, then Acquire, Acknowledge and SetFence. `manager` is where the ticker of
`Manager.Run` is: Tick fetches statistics, Refresh stores them, ReadDemand, List and
AllocateOne are the first half of `Reconcile`, and Provide, Register and StoreJIT provide for
one waiting runner after the other; a GitHub call that fails and a `SetJIT` that fails, and the
`RemoveRunner` that answers it, may each have had its effect or not. `snapshot`, `short` and `awaiting` are what
these processes read in one step and use in a later one. GitHub is external: `jobs`, the
message `queue` (delivered again until deleted), `registered` runners; the Node is
reduced to what it reports. `stops` and `basis` belong to the model alone: the number
of early stops so far, and how many of them the stored demand knows of.

**Tasks.** `tasks` are the rows of that table, a task's instance is the one with the same
identifier, `submitted` is the order of creation. A submission is authorized in one step and
stored in another (`Submit` places at once when `GoesFirst`); `StartDispatch` and
`DispatchNext` are one transaction that goes through the queue, during which only Nodes and
clocks move: `dispatch.left` is what it has yet to look at, `IsNext` the oldest of it. On the Node, `vm`, `ensured`, `printed`, `cleared` and `marked` are the VM,
its manifest, console log and marker file; `SyncStep` is a round with its reply, which `Execute` and
`Skip` work off; `Upload` is `reportTasks`, whose answer may be lost.
`Shown` is `deriveTaskState`, what a client sees, with "Finished" once the two minutes of
`collectingGrace` are over (`GraceEnds`); `Terminal` is `Task.Terminal`, `LateResult` the one way out of it.

**ImageCache.** A file is an inode; `store`, `cache`, `base` and `spare` are its names on the Controller,
in the Node's cache, beside the VM disks and as a seed's leftover, so that link counts and
`SameFile` are what the code sees. `doomed` are the links a prune has decided on and still
removes one by one, under locks that keep the Agent (or Controller) from running but not a
`config apply`, an import or bits from rotting. `Verified` is `Images.Verify` with what it
remembers; `Download` is one round's attempt, cut anywhere, with `partial` what it leaves. A source
that has gone bad may be shorter or longer than the Image: a partial of more bytes than the source has is answered
416 and stays until it is pruned. `quarantine` counts what lies aside of each digest, leftovers of an
import that was cut off included; `Begin`, `LinkBase`,
`MakeOverlay` are the part of `ensure` that builds on the cache. A single host's seed
makes the Controller's and the Node's file the same inode.

**Certificates.** One name, a Node's or a client's (`kind`), and the machines that want it. `owner`
says whose key each certificate signed has; `row` is the name's row in `identities` or
`clients`; `disk` and `memory` are a machine's file and what each of its processes presents. A renewal is a member of
`requests` and moves from sent to authorized, recorded and answered; the process may be gone
at any point (`GiveUp`) and the Controller goes on. `Age` is the passing of months, `GraceEnds` of the
seven days of `clientRenewalGrace`. `Install` may be cut off before it writes the configuration, and `InstallAgain` repeats it.
`contested` and `disturbed` are history: they record that an approval overtook another machine's renewal, or met
one that was past its authorization, and no guard reads them.

### Abstractions

* Names, digests, labels and payloads are model values; a label selector is a subset test.
* A VM's size is one vector of three dimensions, with the overheads of
  `Pool.Charge()` added. The disk margin (`DiskMargin`) is 2 scaled units, as it is
  2 GiB in the code.
* Ledger: the last sorting key of candidates, a Node's name, is nondeterministic. Of
  reports that omit an instance nothing follows ("none").
* A transaction that returns an error has changed nothing, and each is one write to SQLite: that a
  COMMIT takes effect and reports an error is not modelled. (`SetJIT` may fail so at any time.)
* `Apply` compares configurations as values; the fingerprint of the code also tells the order of lists apart, and so
  refuses more.
* HostVM: the file and XML work between two effects is one step; checks of network, image,
  deadline and free space are nondeterministic refusals.
* `Inventory` is one step although it examines the VMs one after the other: each VM's
  entry depends on that VM alone.
* Demand: GitHub may put several events in one message as long as it has not been handed
  out, and statistics are counted when a message is made. The 90 seconds a demand is good for
  and the deadline of an instance may be over at any time. Scale-set bindings are constant.
* Tasks: a payload is present or absent, a result one of succeeded, failed and no-result; the
  Node's VM has only the phases a task can tell apart. An hour in the queue and a deadline may be over at any time.
  Inventory, report and reply are one step. `Upload` has no refusal for good: `boundResult` makes every result one that is
  accepted, and rows are never removed, so only a task of another Node is refused, which `Tasks` has not.
* ImageCache: the content of a file is right or not; sizes are units of a transfer, from 1 to one more than the
  Image's; what is too young to be pruned is a choice made for each file. A file gone bad counts with the Image's size against the limit. Free space of the file system is not told from the cache's limit.
* Certificates: X.509 contents are the owner of the key; a certificate is due for renewal when months have passed.
* Sequence numbers are replaced by the order of `flight`: a report's number is
  persisted before it is sent, so delivered reports are a subsequence of those sent.

## 3. The runs

| Run | Instance | Asks |
|---|---|---|
| `ledger_capacity` | one Node of 3-3-4 units, a reserved slot of 2 for agent tasks, three requests, two readings of free disk, runner events alone or two in a message | do held and protected resources ever exceed the budget, is every reservation deliverable, does each placement leave the disk margin, is what was released ever held again? |
| `ledger_change` | a Node that joins, two plans out of six configurations (no Node, smaller budget, resized Pool, lower limit, moved reservation), two requests | do `checkCapacityUpdate` and the revision check hold what placement relies on? |
| `host_commands` | three VMs of one unit on a Node with room for two, any commands in any order | are tombstones true, is what runs recorded, does the ceiling hold through crashes? |
| `host_late_start` | two VMs whose failed starts may take effect at any later time | is a VM still started once, and never revived? |
| `lifecycle` | one Node with processors for one VM and disk for two, two requests, two faults, recovery by hand once deletion was ordered | does the whole implement `Lease`; does the Node's ledger stay within the Controller's; is every deletion expected; does every instance's claim end? |
| `demand` | one job, one runner, one failing call or crash anywhere | does the fence cover every acquisition, is what was acknowledged on record, does a stored JIT configuration stay valid, is every job offered acquired in the end? |
| `tasks` | two tasks of one client in a Pool with room for one VM, one fault | order of the queue, payload kept as long as needed and no longer, a true result, revocation, every task settled in the end |
| `images` | one Image, one VM, room for two copies of the Image on the Node, transfers of two units, three faults | does every disk keep its base, is only the right content published, does the Controller keep what a live VM needs, does the Image arrive whenever it could be had? |
| `certificates` | two machines, one of them with two processes, two invitations, four certificates, two faults | is only one machine accepted at a time; does the machine that has the name keep access? |
| `recover_refused` | as `lifecycle`, recovery by hand at any time | does `vm recover` give the Controller a confirmation, as it says? It does not, see below |
| `stale_replacement` | as `demand`, with two runners | is a runner that stopped early replaced only on fresh statistics, as documented? It is not, see below |
| `fence_left` | as `demand` | does the fence end when all jobs are acquired? It does not, see below |

**Bounds.** Two or three requests are enough for a VM, its successor in the same place and
one to compete with them: every capacity argument is about one more instance beside the
others. `PlanIds` has two members in `ledger_change`, because the hazard is one plan
applied between the making and the applying of another; `MaxRevision` 3 and 4 leave room
for enrolment and both plans. `MessageIds` has one member: the inbox refuses a second
delivery, and a message of two events covers the order inside one. `FlightLimit` 2 lets a
report be overtaken; `FaultLimit` 2 lets a fault hit the recovery from another.
In `Demand` one job has up to four messages, two sessions and a replay of each step; a second
runner is what replaces the first; the number of sessions is one more than that of faults.
`CommandLimit` is 1 where the code has 4, so that two VMs already compete for a reply as
five would. In `tasks` the second task is the one that waits, overtakes or is stored after the
revocation; one fault is a reply, command or upload lost, or an Agent that dies. In `images` room for
two copies lets a file set aside or the leftover of an import and its replacement exist together, and a third is refused; three faults let a
file go bad, its replacement be cut and the Agent stop in between. Partials and bad sources of one unit more than the Image are
what the code answers with 416. In `certificates` four
certificates are an approval, a renewal, one of another process or machine, and one more. Symmetry is used
for requests and plans only in the safety runs of `Ledger` and for VMs in those of `HostVM`, where no
constant orders them.

**Deadlock** is not checked for `Ledger`, `images` and `certificates`: requests, plan IDs,
revisions, faults and certificates are finite, and when they are used up on an idle system nothing
may be left to do. In the other runs it is checked.

**Fairness.** `lifecycle`: the Agent's loop runs every few seconds, whatever the
last step returned, so Report, Execute, Skip, Operate and StepFails (for a step that cannot
succeed any more) are weakly fair; a request that is not lost arrives (Deliver) or the
Agent's 45-second timeout ends the wait (GiveUp); clocks reach deadlines (Expire). Faults
are finitely many. Nothing is assumed of guests, GitHub or administrators: a job may hang
for ever, a stop may never be asked for.

`demand`, `fence_left`: only the Controller's two loops are weakly fair: both go
round as long as the process lives, and after a crash it is started again.

`tasks`: the Agent's rounds, its uploads, the dispatcher's ticker and the clocks are weakly
fair; users and guests owe nothing.

`images`: the steps of a build and of a prune that has begun are weakly fair; starting the Agent,
its rounds and its downloads are strongly fair, because administrators may stop the Agent or the Controller
for a prune again and again. A prune takes seconds and removes only what is at least a day old, so between two
of them that find anything the loop of seconds has its turn; service managers
restart what was stopped.

**The disagreements found.** (1) `runnerloom vm recover` tells the administrator that the Agent
will return the confirmation of deletion to the Controller when it is started again (`operations.go:173`,
`docs/OPERATIONS.ja.md:235`). `Store.Sync` believes a deletion only of an instance it has made Deleting
(`store.go:801`), which it becomes by a report that the VM is off. When the VM stopped since the last
report, as in `recover_refused`, the first report after the recovery already says Deleted and is refused, and because a tombstone
stays in every report, so are all later ones: the Node is cut off. With recovery only after the Controller
has ordered the deletion, `lifecycle` keeps `DeletionsExpected`, and `NoUnexpectedDeletion` proves it.

(2) `docs/ARCHITECTURE.md` says that after an early stop "a barrier requires a fresh
server-side demand snapshot before replacement". `Reconcile` reads the barrier with the
demand and allocates in a later transaction (`provider.go:494`) that does not look at it: a
report in between sets a barrier that stops nobody (`stale_replacement`). A
listener that persists a message made before the stop, or a refresh whose statistics were
fetched before it, also clears the barrier with an old count.

(3) `CHANGELOG.md` says "fence demand until every job request ID is acquired". The
fence is lowered by the call that acknowledged, so a crash right after the acknowledgement,
or one that takes effect although its answer is lost, leaves it up (`fence_left`): neither
a new session nor a refresh lowers it, and the Pool gets no runner until another job
message happens to arrive.

**What the models showed besides.** With `LateStarts = TRUE`, `BootsOnce` and
`StoppedForGood` still hold, but `CeilingKept`, `RunningIsRecorded` and `DeletedIsGone` do
not: a `virsh start` that is killed after its three minutes and takes effect after an inventory saw the
domain off runs on processors that were given back. They are therefore claimed, checked
and proved for `~LateStarts`. An ensure interrupted before its domain
is defined is reported Unknown, for which the Controller orders no further ensure: the
job waits for its deadline, and only then its resources come back. `PersistMessage` turns Stopping back into Busy
when a job-started event is persisted after `StopInstance`, so the stop is forgotten until the deadline; all
invariants hold and the resources come back. A Node's renewal has no grace: when the answer to
`/v1/renew` is lost, its certificate on disk is refused and `Approve` does not take its name again
(`KeepsAccess` therefore allows a Node no fault and a client one). A client renewal that was authorized before
`client approve --replace` and recorded after it gives the name back to the replaced key: `OneMachine` holds
unless `contested`, and shows that this is the only order in which two machines are accepted, and that it is over when
`clientRenewalGrace` is or when the name is approved again. It does not say which machine is left: until the next approval it is the replaced one.

An Agent tries only the first missing Image of its catalog, so `ImagesArrive` is about Nodes all of whose
Images can be had. A partial that is longer than the Image, left by a source that had gone bad, is offered again in every
round and answered 416, so the Image does not arrive before somebody prunes it; `ImagesArrive` excepts it
(`Obtainable`). `Task.Terminal` says that no further change is expected, and `deriveTaskState` that after two
minutes no result will arrive, but `ReportTask` accepts a result at any time: Finished becomes Succeeded or Failed, and
Cancelled becomes Succeeded. `OutcomeIsFinal` covers all five terminal states and allows exactly this change.

Commands are sorted by kind and VM ID and the first four make the reply, without rotation: four that fail for ever would keep
the others back. In `Lifecycle` two VMs compete for a reply of one command, but faults are finitely many, so every command
succeeds in the end and this is not covered.

## 4. The theorems

Proved for all finite sets of Nodes, Pools, requests, VMs and jobs, all clients, Images and machines, all
inputs of the right type, without any bound on revisions, plans, messages, reports, faults or
certificates other than the constants' being what they are. The assumptions on the constants are
their types and that names for "none" are nobody's (`NamesAreFinite`, `AbsentNames`, `RequestsAreFinite`, `InputTypes`,
`HostAssumption`, `LifecycleInputs`, `DemandInputs`, `TaskInputs`, `CacheInputs`, `CertificateInputs`), and three that
give the models room: identifiers can be compared (`IdsAreOrdered`, as `Sync` sorts commands by VM ID), there is a key for
every message the jobs can lead to (`MessageKeys`), and a file that has no name yet (`NewFile`). TLC evaluates all of them in the runs.

*Sums* (`ResourceUnits_proofs`). `Total(S, f)` is the number of units in S, one pair
<<i, k>> for each unit k of f[i], so that no recursion is needed: disjoint parts of a sum
are disjoint sets, and monotonicity, splitting, adding and exchanging sums follow from
the library's facts about cardinality.

*Reservations* (`Ledger_proofs`, first part). What `reservations.go` protects is expressed by
what is held: `Committed` after placing one more instance is at most what it was, plus the
charge, minus what was lent; it never grows when an instance gives something back; and a
configuration that passes `checkCapacityUpdate` commits no more than the new budget.

*Ledger* (`Ledger_proofs`). `TypeCorrect` first. The capacity properties are not
inductive each on its own: that a placement keeps the budget needs the users of a
reservation to agree with it, and that needs Pools in use not to change; that Approve
keeps a configuration's promises needs it to be valid, and that a plan forgets nothing needs plans to
contain the configuration they were made at. So

    IInv == TypeOK /\ Valid(config) /\ PlansGrow /\ CapacityInv

where `CapacityInv` is the conjunction of `NodeWithinBudget`, `PoolWithinLimit`,
`ReservationsAgree` and `HeldPoolsUnchanged`. One step per action; Allocate and
Dispatch share a lemma, and all actions that only change states or give
back share another. From `IInv` follow
`BudgetKept`, `LimitKept`, `ReservationsConsistent`, `PoolsKept`,
`ReservationsDeliverable`, and the action properties `NothingIsForgotten`, `DiskKept`.
`ReleasedForGood` is about single rows, under the assumption that no Node reports "Failed",
which no code in `src/` does and which would turn Deleting back into Stopping.

*Host* (`HostVM_proofs`). `StartedAtMostOnce` and `StoppedStays` hold for any
`LateStarts`, from `OnceInv`: a VM whose manifest is before start-issued was never
started, and one that may yet start late was not either. Without late starts
`CertainInv` says what each phase tells of domain and disks, and what the operation in progress has
seen: `TombstoneIsProof` and `NothingRunsUnknown`. For the ceiling (`CeilingNeverExceeded`) what
is spent is at most what `Hold` counts - the whole charge from the prepared manifest until the VM
was seen to stop, and the disk as long as its directory exists - and the sum of that stays within
`Ceiling` (`HoldInv`), because Prepare compares it before it writes.

*Lifecycle* (`Lifecycle_proofs`). Every step of the whole is a step of the Node's provider or leaves the provider alone
(`NodeIsProvider`), so that the theorems of `HostVM_proofs` hold of the composition. `StoreInv` adds the types of
what travels, for which the reply must be a sequence of commands: `Sorted` finds the k-th command as the one that k - 1
others come before, and `SortedMember` shows that it exists. Neither `HostWithinLedger` nor
`DeletionsExpected` is inductive: what the Controller gives back rests on a report that may be old, and what a Node
deletes on a command that may be. So

    LedgerInv == HeldFollows /\ LedgerBehindNode /\ ReportsStayTrue /\ CommandsStayDue

says that what a row holds follows from its state; that no manifest exists without a row, and no row ends before
its manifest did; that what a report on its way says of an end is still true when it arrives; and that a command
waiting on the Node is for a row, a delete for one that is ending. Each step is classified once, by what it does to rows (`RowsMove`) and to
manifests (`PhasesMove`, `DeletionsBegin`), and each conjunct follows from these. `LedgersAgree` needs no more, with late starts too.
`NoUnexpectedDeletion` adds that what is being erased is asked for, and assumes that nobody recovers a VM unasked (`~Unasked`): `recover_refused`
is the counterexample otherwise. `LeaseRefinement` assumes `~LateStarts`, without which processors are given back that still run something:
the initial state maps to one of `Lease`, a step of the Node to what its VM did, a step of the Controller to the moves of the rows, and
all else to a stutter.

*Demand* (`Demand_proofs`). The inductive invariant is

    DemandInv == Configured /\ Sessions /\ Runners /\ QueueInv /\ ProvidingInv

besides the types. `QueueInv` is about GitHub's messages: they are numbered without gaps and of the queue only the first
can have been persisted (`Numbered`), so GitHub changes no message that the Controller has seen; the listener works on that first one and lowers the fence
only when nothing that is still queued was persisted (`Handed`); and the completions in a persisted message are on record (`Recorded`), because
a completion is the last a message tells of its runner and `AfterEvent` forgets none. `FenceCovers` and `AcknowledgedKept`
are its last two conjuncts. `ProvidingInv` is about `Reconcile`: the runners it has yet to provide for are distinct instances that are not
ready (`Provisioning`), and nothing is stored for those, so a registration anew under such a name invalidates no stored
configuration: `StoredKept`. The lemmas come in two layers, what each transaction of the store leaves alone
(`Transaction`) and what each of GitHub's events does to the queue (`QueueTold`). `DemandTypes` needs that no more messages are sent than the jobs lead to, which is
a sum over jobs. `ReplacementIsFresh` is no theorem: `stale_replacement` shows it violated.

*Tasks* (`Tasks_proofs`). The types rest on those of the ledger. No property is inductive alone:
that a revoked client's task never runs needs every VM of a task that is not cancelled to have a
payload, unless it has ended, and that the commands on their way were due when they were computed; that a result is true needs a
log to be removed only after the upload. So `TaskInv` relates the tasks to the ledger (`Known`, `PlacedInTime`, `SecretKept`),
the ledger to the VMs (`EndedIsOff`, `OnlyPlacedRun`), the commands to all of them
(`OrdersFit`), the Node's log to its marker (`LogsKept`), and says what an unfinished
`DispatchTasks` has already looked at (`Waiting`). From `TaskInv` follow `SecretsKept`,
`ResultsTrue` and `RevokedStaysOff`, and for single steps `QueueInOrder` and
`OutcomesFinal`: a task in any terminal state stays as it was shown, or its result has come late and is what the guest printed. The proofs go by what a transaction can do to a row (`ByStore`, `LooksAt`,
`CancelledRows`), so that the Node's half of the invariant is proved once for all transactions.

*Image cache* (`ImageCache_proofs`). `CacheInv` adds to `BackingIsCached` the types of the tables,
that whoever holds the host's lock is alone (`Alone`), and that what a prune has decided on and
not yet removed is still in no use (`PruneIsSafe`), although an import or a `config apply` came after
the decision: the decision of a scan is safe when it is carried out because nobody who could
invalidate it runs meanwhile. From it follow `BackingKept`, `LiveImagesServed` and `PublishedRight`.
That no more files lie aside than went bad or were left by a cut import (`CacheTypes`) is not inductive, since a file goes bad long before it is
set aside: `SetAside` counts the bad files that still may be with those that were, and both together are within the faults.

*Certificates* (`Certificates_proofs`). `OwnersInv` says of every copy of a certificate - on disk,
in memory, in a request, a bundle or a row - whose key it has; `OneOwner` that what a row
accepts, the current and the previous, and what an authorized renewal will put there, is one machine's as long
as the name is not `contested`. When it is, the renewal of the replaced machine makes the row two machines',
until the previous certificate counts no more or the next approval clears it. `OneMachineKept` follows from both.
For `AccessKept` it takes what `AccessInv` says: a machine has one renewal under way, and one more that nobody waits for after
a fault (`OneAtATime`); what is on disk is never older than what a process presents (`NewestOnDisk`); and the disk, or the answer that is
about to be written to it, has the row's certificate or its previous one (`Followed`). That the previous one is enough is the grace
period, so the property ends with it once an answer was lost. The Node's case, in which no fault is tolerated,
is the same argument without a previous certificate.

*Model-checked only:* `AllReleased`, `JobsAcquired`, `TasksSettle` and `ImagesArrive`, which are liveness under fairness and
out of the prover's reach. Every other property of a passing run has a theorem.

## 5. Not modelled, and the plan

Left out for good: formatting, parsing, file permissions, network documents, user
interfaces and the MCP server (pure input and output or a single sequential process).
In what is modelled: the byte limit of a reply, the limit of 10,000 VMs in a report,
the state "Finishing" and `SetDemandBarrier` (nothing in `src/` produces or calls
them), the database's backup, and the audit log. In `Lifecycle` a Node's ceiling and the
configuration are constant; `Ledger` changes them. Scale-set bindings (`bind`, `Adopt`), GitHub
credentials and HTTP retries; the VM of `smoke-vm` (its import is in `ImageCache`); a report that is authorized before its Node is revoked
and applied after; the 10,001st tombstone of a Node, whose report and all later ones are refused (`store.go:718`);
Images whose files are empty.

What is left, in this order:

1. `Demand` with scale-set bindings (`bind`, `Adopt`) and the registrations that no VM serves.
2. `ImageCache` with two Images, for the order of the catalog; composed with `Lifecycle` where an
   ensure needs its Image.
3. Revocation of a Node against a report under way, in a composition of `Certificates` and `Ledger`.

------------------------------- MODULE HostVM -------------------------------
(***************************************************************************)
(* One Node's libvirt provider, internal/host/provider.go: the manifests   *)
(* the Agent persists, the domains and disks it makes from them, and the   *)
(* operations Ensure, EnsureStopIntent, Stop, Delete and Inventory.        *)
(*                                                                         *)
(* An operation is a sequence of steps with an external effect or a write  *)
(* of the manifest in each; Libvirt.mu lets one operation run at a time,   *)
(* so `op' is the step it is at.  Any step may fail or be the last one of  *)
(* a crashed Agent (Abort): what it already did stays.  Any command may    *)
(* come at any time, so whatever Controller the Node has, the properties   *)
(* below hold; module Lifecycle has the commands this Controller sends.    *)
(*                                                                         *)
(* libvirt is the environment: a guest may power itself off, a `virsh      *)
(* start' that is reported as failed may have taken effect, and when       *)
(* LateStarts is TRUE it may also take effect at any later time.           *)
(***************************************************************************)
EXTENDS ResourceUnits

CONSTANTS
    VMs,                \* instance IDs
    Charge,             \* Pool.Charge() of each VM
    Ceiling,            \* the ceiling the administrator approved on this Node
    NoVM,               \* the VM no operation is about
    LateStarts          \* whether a failed `virsh start' may take effect later

ASSUME HostAssumption ==
    /\ IsFiniteSet(VMs)
    /\ Charge \in [VMs -> Resources]
    /\ Ceiling \in Resources
    /\ NoVM \notin VMs
    /\ LateStarts \in BOOLEAN

VARIABLES
    phase,              \* the phase in each VM's manifest; "none" without one
    domain,             \* the libvirt domain of each VM
    disks,              \* VMs whose disk directory exists
    pending,            \* VMs whose `virsh start' may yet take effect
    op,                 \* the operation that holds Libvirt.mu, and its next step
    boots               \* how often each VM was started, which no code counts

hostVars == <<phase, domain, disks, pending, op, boots>>

Phases == {"none", "prepared", "start-issued", "running", "stopped", "deleted"}

\* A transient domain runs, and leaves no definition behind when it stops.
DomainStates == {"absent", "off", "on", "transient"}

Steps == {"build", "define", "intent", "start", "started",      \* Ensure
          "destroy", "halted",                                  \* Stop
          "undefine", "erase", "erased"}                        \* Delete

Idle == [at |-> "idle", vm |-> NoVM]

\* The provider's state keeps its types.
HostTypeOK ==
    /\ phase \in [VMs -> Phases]
    /\ domain \in [VMs -> DomainStates]
    /\ disks \subseteq VMs
    /\ pending \subseteq VMs
    /\ op \in [at : Steps \cup {"idle"}, vm : VMs \cup {NoVM}]
    /\ boots \in [VMs -> Nat]

HostInit ==
    /\ phase = [v \in VMs |-> "none"]
    /\ domain = [v \in VMs |-> "absent"]
    /\ disks = {}
    /\ pending = {}
    /\ op = Idle
    /\ boots = [v \in VMs |-> 0]

Runs(v) == domain[v] \in {"on", "transient"}

\* The domain of a VM that runs, once it does not.
PoweredDown(v) == IF domain[v] = "on" THEN "off" ELSE "absent"

At(v, step) == op.at = step /\ op.vm = v

Go(v, step) == op' = [at |-> step, vm |-> v]

Done == op' = Idle

-----------------------------------------------------------------------------
(* Ensure.                                                                 *)

\* What a manifest takes out of the local ceiling: a stopped VM still its disk.
\* Mutant: a stopped VM takes nothing.
KeptUntilStopped(v, d) ==
    IF phase[v] \in {"prepared", "start-issued", "running"} THEN Charge[v][d] ELSE 0

Kept(v, d) ==
    CASE phase[v] \in {"none", "deleted"} -> 0
      [] phase[v] = "stopped" /\ d # "disk" -> 0
      [] OTHER -> Charge[v][d]

WithinCeiling(v) == \A d \in Dims :
    Total(VMs \ {v}, [u \in VMs \ {v} |-> Kept(u, d)]) + Charge[v][d] <= Ceiling[d]

\* Mutant: the early return for a stopped VM is forgotten.
PreparableAgain(v) == phase[v] \in {"none", "prepared", "stopped"}

\* Ensure makes a VM only as long as no start was issued for it.
Preparable(v) == phase[v] \in {"none", "prepared"}

\* The checks pass (those of deadline, network, image and free space are left
\* to chance), and the manifest is written before anything is made.
Prepare(v) ==
    /\ op = Idle
    /\ Preparable(v)
    /\ WithinCeiling(v)
    /\ phase' = [phase EXCEPT ![v] = "prepared"]
    /\ Go(v, "build")
    /\ UNCHANGED <<domain, disks, pending, boots>>

\* Overlay, scratch disk, seed and console.
Build(v) ==
    /\ At(v, "build")
    /\ disks' = disks \cup {v}
    /\ Go(v, "define")
    /\ UNCHANGED <<phase, domain, pending, boots>>

Define(v) ==
    /\ At(v, "define")
    /\ ~Runs(v)
    /\ domain' = [domain EXCEPT ![v] = "off"]
    /\ Go(v, "intent")
    /\ UNCHANGED <<phase, disks, pending, boots>>

\* Mutant: the intent is not persisted before the start.
SaveNothing(v) ==
    /\ At(v, "intent")
    /\ Go(v, "start")
    /\ UNCHANGED <<phase, domain, disks, pending, boots>>

SaveIntent(v) ==
    /\ At(v, "intent")
    /\ phase' = [phase EXCEPT ![v] = "start-issued"]
    /\ Go(v, "start")
    /\ UNCHANGED <<domain, disks, pending, boots>>

\* libvirt starts a defined domain.
Boot(v) ==
    /\ domain[v] = "off"
    /\ domain' = [domain EXCEPT ![v] = "on"]
    /\ boots' = [boots EXCEPT ![v] = @ + 1]

Start(v) ==
    /\ At(v, "start")
    /\ Boot(v)
    /\ Go(v, "started")
    /\ UNCHANGED <<phase, disks, pending>>

StartUnanswered(v) ==
    /\ LateStarts
    /\ At(v, "start")
    /\ pending' = pending \cup {v}
    /\ Done
    /\ UNCHANGED <<phase, domain, disks, boots>>

SaveRunning(v) ==
    /\ At(v, "started")
    /\ phase' = [phase EXCEPT ![v] = "running"]
    /\ Done
    /\ UNCHANGED <<domain, disks, pending, boots>>

\* Ensure of a VM whose start was issued: it is only looked at.
\* Mutant: the reported state is stored for the phase.
SettledAsReported(v) == IF Runs(v) THEN "Running" ELSE "Stopped"

Settled(v) == IF Runs(v) THEN "running" ELSE "stopped"

EnsureAgain(v) ==
    /\ op = Idle
    /\ phase[v] \in {"start-issued", "running"}
    /\ phase' = [phase EXCEPT ![v] = Settled(v)]
    /\ UNCHANGED <<domain, disks, pending, op, boots>>

-----------------------------------------------------------------------------
(* Stop and Delete.                                                        *)

\* Nothing was ever made of a request that is to be stopped.
EnsureStopIntent(v) ==
    /\ op = Idle
    /\ phase[v] = "none"
    /\ domain[v] = "absent"
    /\ v \notin disks
    /\ phase' = [phase EXCEPT ![v] = "stopped"]
    /\ UNCHANGED <<domain, disks, pending, op, boots>>

Stop(v) ==
    /\ op = Idle
    /\ phase[v] \notin {"none", "deleted"}
    /\ Go(v, IF Runs(v) THEN "destroy" ELSE "halted")
    /\ UNCHANGED <<phase, domain, disks, pending, boots>>

Destroy(v) ==
    /\ At(v, "destroy")
    /\ Runs(v)
    /\ domain' = [domain EXCEPT ![v] = PoweredDown(v)]
    /\ Go(v, "halted")
    /\ UNCHANGED <<phase, disks, pending, boots>>

SaveStopped(v) ==
    /\ At(v, "halted")
    /\ phase' = [phase EXCEPT ![v] = "stopped"]
    /\ Done
    /\ UNCHANGED <<domain, disks, pending, boots>>

\* Mutant: disks are deleted whatever the domain does.
DeletableAlways(v) == phase[v] \notin {"none", "deleted"}

\* "refusing to delete disks before confirmed shutdown"
Deletable(v) == phase[v] \notin {"none", "deleted"} /\ ~Runs(v)

Delete(v) ==
    /\ op = Idle
    /\ Deletable(v)
    /\ Go(v, IF domain[v] = "off" THEN "undefine" ELSE "erase")
    /\ UNCHANGED <<phase, domain, disks, pending, boots>>

Undefine(v) ==
    /\ At(v, "undefine")
    /\ domain[v] \in {"off", "on"}
    /\ domain' = [domain EXCEPT ![v] = IF @ = "on" THEN "transient" ELSE "absent"]
    /\ Go(v, "erase")
    /\ UNCHANGED <<phase, disks, pending, boots>>

Erase(v) ==
    /\ At(v, "erase")
    /\ disks' = disks \ {v}
    /\ Go(v, "erased")
    /\ UNCHANGED <<phase, domain, pending, boots>>

SaveDeleted(v) ==
    /\ At(v, "erased")
    /\ phase' = [phase EXCEPT ![v] = "deleted"]
    /\ Done
    /\ UNCHANGED <<domain, disks, pending, boots>>

-----------------------------------------------------------------------------
(* Inventory, and what goes wrong.                                         *)

\* Mutant: a VM that libvirt does not speak of counts as stopped.
SaidStopped(v, lost) ==
    CASE phase[v] = "none" -> "none"
      [] phase[v] = "deleted" -> "Deleted"
      [] phase[v] \notin {"none", "deleted"} -> IF Runs(v) /\ v \notin lost THEN "Running" ELSE "Stopped"

\* What a report says of v, when virsh does not answer for the VMs in lost.
Said(v, lost) ==
    CASE phase[v] = "none" -> "none"
      [] phase[v] = "deleted" -> "Deleted"
      [] phase[v] \notin {"none", "deleted"} /\ v \in lost -> "Unknown"
      [] phase[v] \notin {"none", "deleted"} /\ v \notin lost ->
            IF Runs(v) THEN "Running"
            ELSE IF domain[v] = "absent" /\ phase[v] = "prepared" THEN "Unknown"
            ELSE "Stopped"

\* Each manifest is examined and saved on its own, and the next one does not
\* depend on it: the loop is one step.
Inventory(lost) ==
    /\ op = Idle
    /\ phase' = [v \in VMs |-> IF Said(v, lost) = "Stopped" THEN "stopped" ELSE phase[v]]
    /\ UNCHANGED <<domain, disks, pending, op, boots>>

\* The next step fails, the last one failed although it had its effect, or
\* the Agent dies in between: nothing more of the operation happens.
Abort ==
    /\ op # Idle
    /\ Done
    /\ UNCHANGED <<phase, domain, disks, pending, boots>>

-----------------------------------------------------------------------------
(* libvirt and the guests.                                                 *)

\* on_poweroff, on_reboot and on_crash are all "destroy".
GuestShutdown(v) ==
    /\ Runs(v)
    /\ domain' = [domain EXCEPT ![v] = PoweredDown(v)]
    /\ UNCHANGED <<phase, disks, pending, op, boots>>

\* No domain starts by itself when the host comes up again.
HostReboot ==
    /\ domain' = [v \in VMs |-> IF Runs(v) THEN PoweredDown(v) ELSE domain[v]]
    /\ pending' = {}
    /\ Done
    /\ UNCHANGED <<phase, disks, boots>>

LateStart(v) ==
    /\ v \in pending
    /\ Boot(v)
    /\ pending' = pending \ {v}
    /\ UNCHANGED <<phase, disks, op>>

-----------------------------------------------------------------------------
Command(v) ==
    \/ Prepare(v) \/ EnsureAgain(v)
    \/ EnsureStopIntent(v) \/ Stop(v) \/ Delete(v)

Step(v) ==
    \/ Build(v) \/ Define(v) \/ SaveIntent(v) \/ Start(v) \/ StartUnanswered(v)
    \/ SaveRunning(v) \/ Destroy(v) \/ SaveStopped(v)
    \/ Undefine(v) \/ Erase(v) \/ SaveDeleted(v)

Environment ==
    \/ \E v \in VMs : GuestShutdown(v) \/ LateStart(v)
    \/ HostReboot

HostNext ==
    \/ \E v \in VMs : Command(v) \/ Step(v)
    \/ \E lost \in SUBSET VMs : Inventory(lost)
    \/ Abort
    \/ Environment

HostSpec == HostInit /\ [][HostNext]_hostVars

-----------------------------------------------------------------------------
(* Properties.                                                             *)

\* "after an ambiguous response, NEVER start again": no crash, failure, retry
\* or late answer makes one VM run its job twice.
BootsOnce == \A v \in VMs : boots[v] <= 1

\* The phases a step may not lead back from.
NoRevival == \A v \in VMs :
    /\ phase[v] = "stopped" => phase'[v] \in {"stopped", "deleted"}
    /\ phase[v] = "deleted" => phase'[v] = "deleted"

\* A command delivered again, late or out of order leaves a stopped VM stopped
\* and a tombstone a tombstone (the phases of the manifest).
StoppedForGood == [][NoRevival]_hostVars

\* A tombstone is proof of deletion: no domain and no disk are left, so the
\* Controller may release the disk when it is reported.
DeletedIsGone == \A v \in VMs :
    phase[v] = "deleted" => domain[v] = "absent" /\ v \notin disks

\* A running VM is accounted for: its disks are there, and its manifest says
\* it was started, so that Stop, Delete and the local ledger know of it.
RunningIsRecorded == \A v \in VMs :
    Runs(v) => v \in disks /\ phase[v] \in {"start-issued", "running"}

\* Processors and memory are spent by what runs, disk by all that has disks.
SpentBy(d) == IF d = "disk" THEN disks ELSE {v \in VMs : Runs(v)}

\* The host never spends more than the ceiling approved on it, whatever the
\* Controller commands (the ledger that ensure keeps in the manifests).
CeilingKept == \A d \in Dims :
    Total(SpentBy(d), [v \in SpentBy(d) |-> Charge[v][d]]) <= Ceiling[d]
=============================================================================

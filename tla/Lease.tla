-------------------------------- MODULE Lease --------------------------------
(***************************************************************************)
(* What RunnerLoom promises about the resources of each job's VM,          *)
(* docs/ARCHITECTURE.md, "Runner lifecycle": resources are promised before *)
(* anything is made, the VM runs at most once and only on processors and   *)
(* memory that are promised to it, these are given back only after it was  *)
(* seen to have stopped, and the disk only once its files are gone.        *)
(*                                                                         *)
(* One report can settle several VMs and a reboot stops them all, so any   *)
(* number of VMs may take a step of their own at once.                     *)
(***************************************************************************)
CONSTANT VMs

VARIABLES
    lease,              \* what is promised to each VM: "none", "all", "disk", "over"
    stored,             \* VMs that have disk files
    started,            \* VMs that were ever started
    running             \* VMs that run

leaseVars == <<lease, stored, started, running>>

LeaseInit ==
    /\ lease = [v \in VMs |-> "none"]
    /\ stored = {} /\ started = {} /\ running = {}

SameLease(v)   == lease'[v] = lease[v]
SameStored(v)  == v \in stored' <=> v \in stored
SameMachine(v) == (v \in running' <=> v \in running) /\ (v \in started' <=> v \in started)

Grant(v) ==
    /\ lease[v] = "none" /\ lease'[v] = "all"
    /\ SameStored(v) /\ SameMachine(v)

MakeDisk(v) ==
    /\ lease[v] = "all" /\ v \in stored'
    /\ SameLease(v) /\ SameMachine(v)

PowerOn(v) ==
    /\ lease[v] = "all" /\ v \in stored /\ v \notin started
    /\ v \in started' /\ v \in running'
    /\ SameLease(v) /\ SameStored(v)

PowerOff(v) ==
    /\ v \in running /\ v \notin running'
    /\ v \in started' <=> v \in started
    /\ SameLease(v) /\ SameStored(v)

ReleaseCompute(v) ==
    /\ lease[v] = "all" /\ v \notin running /\ lease'[v] = "disk"
    /\ SameStored(v) /\ SameMachine(v)

RemoveDisk(v) ==
    /\ v \notin running /\ v \notin stored'
    /\ SameLease(v) /\ SameMachine(v)

ReleaseDisk(v) ==
    /\ lease[v] = "disk" /\ v \notin stored /\ lease'[v] = "over"
    /\ SameStored(v) /\ SameMachine(v)

Rest(v) == SameLease(v) /\ SameStored(v) /\ SameMachine(v)

LeaseNext == \A v \in VMs :
    \/ Grant(v) \/ MakeDisk(v) \/ PowerOn(v) \/ PowerOff(v)
    \/ ReleaseCompute(v) \/ RemoveDisk(v) \/ ReleaseDisk(v)
    \/ Rest(v)

LeaseSpec == LeaseInit /\ [][LeaseNext]_leaseVars
=============================================================================

---------------------------- MODULE HostVM_proofs ----------------------------
(***************************************************************************)
(* Proofs about one Node's provider (module HostVM), for any number of     *)
(* VMs, any charges and any ceiling.                                       *)
(*                                                                         *)
(* OnceInv strengthens BootsOnce and holds whether or not a failed start   *)
(* may take effect late: a start is issued only after the phase            *)
(* "start-issued" was written, and no step leads from there, "stopped" or  *)
(* "deleted" back to "none" or "prepared".                                 *)
(*                                                                         *)
(* CertainInv needs starts that take effect at once or not at all: then    *)
(* what an operation saw of its domain stays true until its next step, but *)
(* for a guest that powers itself off.                                     *)
(***************************************************************************)
EXTENDS HostVM, ResourceUnits_proofs

USE HostAssumption

-----------------------------------------------------------------------------
\* The variables of the provider keep their types.
THEOREM HostTypes == HostSpec => []HostTypeOK
<1>1. HostInit => HostTypeOK
  BY DEF HostInit, HostTypeOK, Phases, DomainStates, Idle
<1>2. HostTypeOK /\ [HostNext]_hostVars => HostTypeOK'
  <2> SUFFICES ASSUME HostTypeOK, [HostNext]_hostVars PROVE HostTypeOK'
    OBVIOUS
  <2> USE DEF Runs, PoweredDown, HostTypeOK, Phases, DomainStates, Steps, Idle, At, Go, Done
  <2>1. ASSUME NEW v \in VMs, Command(v) PROVE HostTypeOK'
    BY <2>1 DEF Command, Prepare, Preparable, EnsureAgain, EnsureStopIntent, Stop, Delete, Settled
  <2>2. ASSUME NEW v \in VMs, Step(v) PROVE HostTypeOK'
    BY <2>2 DEF Step, Build, Define, SaveIntent, Start, StartUnanswered, SaveRunning,
                Destroy, SaveStopped, Undefine, Erase, SaveDeleted, Boot
  <2>3. ASSUME NEW lost \in SUBSET VMs, Inventory(lost) PROVE HostTypeOK'
    BY <2>3 DEF Inventory
  <2>4. CASE Abort
    BY <2>4 DEF Abort
  <2>5. CASE Environment
    BY <2>5 DEF Environment, GuestShutdown, LateStart, HostReboot, Boot
  <2>6. CASE UNCHANGED hostVars
    BY <2>6 DEF hostVars
  <2> QED
    BY <2>1, <2>2, <2>3, <2>4, <2>5, <2>6 DEF HostNext
<1> QED
  BY <1>1, <1>2, PTL DEF HostSpec
-----------------------------------------------------------------------------
(* At most one boot, also when a failed start takes effect late.           *)

Unstarted(v) == boots[v] = 0 /\ v \notin pending

\* What the step an operation is at says about its VM's manifest.
ManifestFollows ==
    /\ \A v \in VMs : At(v, "build") \/ At(v, "define") \/ At(v, "intent")
                         => phase[v] = "prepared"
    /\ \A v \in VMs : At(v, "start") \/ At(v, "started") => phase[v] = "start-issued"
    /\ \A v \in VMs : At(v, "destroy") \/ At(v, "halted") \/ At(v, "undefine")
                            \/ At(v, "erase") \/ At(v, "erased")
                         => phase[v] \notin {"none", "deleted"}

StartedOnce == \A v \in VMs :
    /\ boots[v] <= 1
    /\ v \in pending => boots[v] = 0
    /\ phase[v] \in {"none", "prepared"} => Unstarted(v)
    /\ At(v, "start") => Unstarted(v)

OnceInv == HostTypeOK /\ ManifestFollows /\ StartedOnce

\* The strengthening of BootsOnce is inductive: no step of any operation, of
\* libvirt or of a guest makes a second boot possible.
LEMMA OnceInvariant == HostSpec => []OnceInv
<1>1. HostInit => OnceInv
  BY DEF HostInit, OnceInv, HostTypeOK, ManifestFollows, StartedOnce, Unstarted, At,
         Phases, DomainStates, Idle
<1>2. HostTypeOK /\ HostTypeOK' /\ OnceInv /\ [HostNext]_hostVars => OnceInv'
  <2> SUFFICES ASSUME HostTypeOK, HostTypeOK', ManifestFollows, StartedOnce,
                      [HostNext]_hostVars
               PROVE  ManifestFollows' /\ StartedOnce'
    BY DEF OnceInv
  <2> USE DEF HostTypeOK, ManifestFollows, StartedOnce, Unstarted, Phases, DomainStates,
              Steps, Idle, At, Go, Done
  <2>1. ASSUME NEW v \in VMs, Command(v) PROVE ManifestFollows' /\ StartedOnce'
    <3>1. CASE Prepare(v)
      BY <3>1 DEF Prepare, Preparable
    <3>2. CASE EnsureAgain(v)
      BY <3>2 DEF EnsureAgain, Settled
    <3>3. CASE EnsureStopIntent(v)
      BY <3>3 DEF EnsureStopIntent
    <3>4. CASE Stop(v)
      BY <3>4 DEF Stop
    <3>5. CASE Delete(v)
      BY <3>5 DEF Delete, Deletable
    <3> QED
      BY <2>1, <3>1, <3>2, <3>3, <3>4, <3>5 DEF Command
  <2>2. ASSUME NEW v \in VMs, Step(v) PROVE ManifestFollows' /\ StartedOnce'
    <3>1. CASE Build(v) \/ Define(v)
      BY <3>1 DEF Build, Define
    <3>2. CASE SaveIntent(v)
      BY <3>2 DEF SaveIntent
    <3>3. CASE Start(v)
      BY <3>3 DEF Start, Boot
    <3>4. CASE StartUnanswered(v)
      BY <3>4 DEF StartUnanswered
    <3>5. CASE SaveRunning(v)
      BY <3>5 DEF SaveRunning
    <3>6. CASE Destroy(v)
      BY <3>6 DEF Destroy
    <3>7. CASE SaveStopped(v)
      BY <3>7 DEF SaveStopped
    <3>8. CASE Undefine(v) \/ Erase(v)
      BY <3>8 DEF Undefine, Erase
    <3>9. CASE SaveDeleted(v)
      BY <3>9 DEF SaveDeleted
    <3> QED
      BY <2>2, <3>1, <3>2, <3>3, <3>4, <3>5, <3>6, <3>7, <3>8, <3>9 DEF Step
  <2>3. ASSUME NEW lost \in SUBSET VMs, Inventory(lost)
        PROVE  ManifestFollows' /\ StartedOnce'
    BY <2>3 DEF Inventory
  <2>4. CASE Abort
    BY <2>4 DEF Abort
  <2>5. CASE Environment
    <3>1. ASSUME NEW v \in VMs, GuestShutdown(v) PROVE ManifestFollows' /\ StartedOnce'
      BY <3>1 DEF GuestShutdown
    <3>2. ASSUME NEW v \in VMs, LateStart(v) PROVE ManifestFollows' /\ StartedOnce'
      BY <3>2 DEF LateStart, Boot
    <3>3. CASE HostReboot
      BY <3>3 DEF HostReboot
    <3> QED
      BY <2>5, <3>1, <3>2, <3>3 DEF Environment
  <2>6. CASE UNCHANGED hostVars
    BY <2>6 DEF hostVars
  <2> QED
    BY <2>1, <2>2, <2>3, <2>4, <2>5, <2>6 DEF HostNext
<1> QED
  BY <1>1, <1>2, HostTypes, PTL DEF HostSpec, OnceInv

\* No VM is started twice, whatever fails, crashes or answers late.
THEOREM StartedAtMostOnce == HostSpec => []BootsOnce
<1>1. OnceInv => BootsOnce
  BY DEF OnceInv, StartedOnce, BootsOnce
<1> QED
  BY <1>1, OnceInvariant, PTL

\* No command, retry or inventory revives a stopped VM or a tombstone.
THEOREM StoppedStays == HostSpec => StoppedForGood
<1>1. OnceInv /\ [HostNext]_hostVars => [NoRevival]_hostVars
  <2> SUFFICES ASSUME OnceInv, HostNext PROVE NoRevival
    OBVIOUS
  <2> USE DEF OnceInv, HostTypeOK, ManifestFollows, NoRevival, Phases, At, Go, Done, Idle
  <2>1. ASSUME NEW v \in VMs, Command(v) PROVE NoRevival
    BY <2>1 DEF Command, Prepare, Preparable, EnsureAgain, EnsureStopIntent, Stop, Delete
  <2>2. ASSUME NEW v \in VMs, Step(v) PROVE NoRevival
    BY <2>2 DEF Step, Build, Define, SaveIntent, Start, StartUnanswered, SaveRunning,
                Destroy, SaveStopped, Undefine, Erase, SaveDeleted
  <2>3. ASSUME NEW lost \in SUBSET VMs, Inventory(lost) PROVE NoRevival
    BY <2>3 DEF Inventory, Said
  <2>4. CASE Abort
    BY <2>4 DEF Abort
  <2>5. CASE Environment
    BY <2>5 DEF Environment, GuestShutdown, LateStart, HostReboot
  <2> QED
    BY <2>1, <2>2, <2>3, <2>4, <2>5 DEF HostNext
<1> QED
  BY <1>1, OnceInvariant, PTL DEF HostSpec, StoppedForGood

-----------------------------------------------------------------------------
(* Domains and disks, when no failed start takes effect late.              *)

\* What the manifest of a VM says about its domain and its disks.
ManifestTells == \A v \in VMs :
    /\ domain[v] # "transient"
    /\ Runs(v) => v \in disks /\ phase[v] \in {"start-issued", "running"}
    /\ phase[v] \in {"none", "deleted"} => domain[v] = "absent" /\ v \notin disks

\* What the step an operation is at says about them.
StepTells == \A v \in VMs :
    /\ At(v, "define") \/ At(v, "intent") \/ At(v, "start") => v \in disks
    /\ At(v, "intent") \/ At(v, "start") \/ At(v, "undefine") => domain[v] = "off"
    /\ At(v, "halted") => ~Runs(v)
    /\ At(v, "erase") \/ At(v, "erased") => domain[v] = "absent"
    /\ At(v, "erased") => v \notin disks

CertainInv == pending = {} /\ ManifestTells /\ StepTells

\* What is known of domains and disks is inductive: no other operation, crash
\* or guest comes between what an operation saw and what it does with it.
LEMMA CertainInvariant ==
    ASSUME ~LateStarts
    PROVE  HostSpec => []CertainInv
<1>1. HostInit => CertainInv
  BY DEF HostInit, CertainInv, ManifestTells, StepTells, At, Runs, Idle
<1>2. HostTypeOK /\ HostTypeOK' /\ OnceInv /\ CertainInv /\ [HostNext]_hostVars => CertainInv'
  <2> SUFFICES ASSUME HostTypeOK, HostTypeOK', ManifestFollows, CertainInv,
                      [HostNext]_hostVars
               PROVE  CertainInv'
    BY DEF OnceInv
  <2> USE DEF HostTypeOK, ManifestFollows, CertainInv, ManifestTells, StepTells, Runs,
              Phases, DomainStates, Steps, Idle, At, Go, Done
  <2>1. ASSUME NEW v \in VMs, Command(v) PROVE CertainInv'
    <3>1. CASE Prepare(v)
      BY <3>1 DEF Prepare, Preparable
    <3>2. CASE EnsureAgain(v)
      BY <3>2 DEF EnsureAgain, Settled
    <3>3. CASE EnsureStopIntent(v)
      BY <3>3 DEF EnsureStopIntent
    <3>4. CASE Stop(v)
      BY <3>4 DEF Stop
    <3>5. CASE Delete(v)
      BY <3>5 DEF Delete, Deletable
    <3> QED
      BY <2>1, <3>1, <3>2, <3>3, <3>4, <3>5 DEF Command
  <2>2. ASSUME NEW v \in VMs, Step(v) PROVE CertainInv'
    <3>1. CASE Build(v)
      BY <3>1 DEF Build
    <3>2. CASE Define(v)
      BY <3>2 DEF Define
    <3>3. CASE SaveIntent(v)
      BY <3>3 DEF SaveIntent
    <3>4. CASE Start(v)
      BY <3>4 DEF Start, Boot
    <3>5. CASE SaveRunning(v)
      BY <3>5 DEF SaveRunning
    <3>6. CASE Destroy(v)
      BY <3>6 DEF Destroy, PoweredDown
    <3>7. CASE SaveStopped(v)
      BY <3>7 DEF SaveStopped
    <3>8. CASE Undefine(v)
      BY <3>8 DEF Undefine
    <3>9. CASE Erase(v)
      BY <3>9 DEF Erase
    <3>10. CASE SaveDeleted(v)
      BY <3>10 DEF SaveDeleted
    <3> QED
      BY <2>2, <3>1, <3>2, <3>3, <3>4, <3>5, <3>6, <3>7, <3>8, <3>9, <3>10
      DEF Step, StartUnanswered
  <2>3. ASSUME NEW lost \in SUBSET VMs, Inventory(lost) PROVE CertainInv'
    BY <2>3 DEF Inventory, Said
  <2>4. CASE Abort
    BY <2>4 DEF Abort
  <2>5. CASE Environment
    <3>1. ASSUME NEW v \in VMs, GuestShutdown(v) PROVE CertainInv'
      BY <3>1 DEF GuestShutdown, PoweredDown
    <3>2. CASE HostReboot
      BY <3>2 DEF HostReboot, PoweredDown
    <3> QED
      BY <2>5, <3>1, <3>2 DEF Environment, LateStart
  <2>6. CASE UNCHANGED hostVars
    BY <2>6 DEF hostVars
  <2> QED
    BY <2>1, <2>2, <2>3, <2>4, <2>5, <2>6 DEF HostNext
<1> QED
  BY <1>1, <1>2, HostTypes, OnceInvariant, PTL DEF HostSpec

\* A tombstone is proof that neither domain nor disk is left.
THEOREM TombstoneIsProof ==
    ASSUME ~LateStarts
    PROVE  HostSpec => []DeletedIsGone
<1>1. CertainInv => DeletedIsGone
  BY DEF CertainInv, ManifestTells, DeletedIsGone
<1> QED
  BY <1>1, CertainInvariant, PTL

\* Whatever runs on the Node is in a manifest as started, with its disks.
THEOREM NothingRunsUnknown ==
    ASSUME ~LateStarts
    PROVE  HostSpec => []RunningIsRecorded
<1>1. CertainInv => RunningIsRecorded
  BY DEF CertainInv, ManifestTells, RunningIsRecorded
<1> QED
  BY <1>1, CertainInvariant, PTL

-----------------------------------------------------------------------------
(* The local ceiling.                                                      *)

\* What of dimension d the manifest and the disks of v hold on to.  It is at
\* most what Ensure counts (Kept), and at least what v spends (SpentBy).
Hold(v, d) ==
    IF phase[v] \in {"prepared", "start-issued", "running"} \/ (d = "disk" /\ v \in disks)
    THEN Charge[v][d] ELSE 0

HoldInv == \A d \in Dims : Total(VMs, [v \in VMs |-> Hold(v, d)]) <= Ceiling[d]

\* Every VM holds nothing or its charge.
LEMMA HoldValue ==
    ASSUME NEW v \in VMs, NEW d \in Dims
    PROVE  /\ Charge[v][d] \in Nat
           /\ Ceiling[d] \in Nat
           /\ Hold(v, d) \in Nat /\ Hold(v, d) <= Charge[v][d]
           /\ Hold(v, d)' \in Nat /\ Hold(v, d)' <= Charge[v][d]
<1>1. Charge[v][d] \in Nat /\ Ceiling[d] \in Nat
  BY DEF Resources
<1> QED
  BY <1>1 DEF Hold

\* A step that lets no VM hold more keeps the sum within the ceiling.
LEMMA HoldShrinks ==
    ASSUME HoldInv, \A v \in VMs, d \in Dims : Hold(v, d)' <= Hold(v, d)
    PROVE  HoldInv'
<1> SUFFICES ASSUME NEW d \in Dims
             PROVE  Total(VMs, [v \in VMs |-> Hold(v, d)']) <= Ceiling[d]
  BY DEF HoldInv
<1> DEFINE f == [v \in VMs |-> Hold(v, d)]
           g == [v \in VMs |-> Hold(v, d)']
<1>1. \A v \in VMs : f[v] \in Nat /\ g[v] \in Nat /\ g[v] <= f[v]
  BY HoldValue
<1> HIDE DEF f, g
<1>2. Total(VMs, g) <= Total(VMs, f)
  BY <1>1, TotalMonotone
<1>3. Total(VMs, f) \in Nat /\ Total(VMs, g) \in Nat
  BY <1>1, TotalType
<1>4. Total(VMs, f) <= Ceiling[d]
  BY DEF f, HoldInv
<1>5. Ceiling[d] \in Nat
  BY DEF Resources
<1>6. Total(VMs, g) <= Ceiling[d]
  BY <1>2, <1>3, <1>4, <1>5
<1> QED
  BY <1>6 DEF g

\* Ensure's own check is enough: what it counts covers all the others hold.
LEMMA PrepareFits ==
    ASSUME HostTypeOK, CertainInv, NEW v \in VMs, Prepare(v)
    PROVE  HoldInv'
<1> SUFFICES ASSUME NEW d \in Dims
             PROVE  Total(VMs, [u \in VMs |-> Hold(u, d)']) <= Ceiling[d]
  BY DEF HoldInv
<1> DEFINE g == [u \in VMs |-> Hold(u, d)']
           k == [u \in VMs \ {v} |-> Kept(u, d)]
<1>1. \A u \in VMs : g[u] \in Nat
  BY HoldValue
<1>2. \A u \in VMs \ {v} : k[u] \in Nat /\ g[u] <= k[u]
  <2> SUFFICES ASSUME NEW u \in VMs \ {v}
               PROVE  Kept(u, d) \in Nat /\ Hold(u, d)' <= Kept(u, d)
    OBVIOUS
  <2>1. Charge[u][d] \in Nat
    BY HoldValue
  <2>2. Hold(u, d)' = Hold(u, d)
    BY DEF Prepare, Preparable, Hold, HostTypeOK
  <2>3. CASE phase[u] \in {"none", "deleted"}
    BY <2>1, <2>2, <2>3 DEF Hold, Kept, CertainInv, ManifestTells
  <2>4. CASE phase[u] = "stopped"
    BY <2>1, <2>2, <2>4 DEF Hold, Kept
  <2>5. CASE phase[u] \in {"prepared", "start-issued", "running"}
    BY <2>1, <2>2, <2>5 DEF Hold, Kept
  <2> QED
    BY <2>3, <2>4, <2>5 DEF HostTypeOK, Phases
<1>3. Total(VMs \ {v}, k) + Charge[v][d] <= Ceiling[d]
  BY DEF Prepare, WithinCeiling
<1>4. g[v] <= Charge[v][d] /\ Charge[v][d] \in Nat /\ Ceiling[d] \in Nat
  BY HoldValue
<1> HIDE DEF g, k
<1>5. IsFiniteSet(VMs \ {v})
  BY FS_RemoveElement
<1>6. Total(VMs \ {v}, g) <= Total(VMs \ {v}, k)
  BY <1>1, <1>2, <1>5, TotalMonotone
<1>7. Total(VMs \ {v}, g) \in Nat /\ Total(VMs \ {v}, k) \in Nat
  BY <1>1, <1>2, <1>5, TotalType
<1>8. Total(VMs, g) = g[v] + Total(VMs \ {v}, g)
  BY <1>1, TotalSplit
<1>9. Total(VMs, g) <= Ceiling[d]
  BY <1>1, <1>3, <1>4, <1>6, <1>7, <1>8
<1> QED
  BY <1>9 DEF g

\* Only Prepare lets a VM hold more than before.
LEMMA OthersHoldNoMore ==
    ASSUME HostTypeOK, ManifestFollows, CertainInv, [HostNext]_hostVars,
           \A v \in VMs : ~Prepare(v)
    PROVE  \A v \in VMs, d \in Dims : Hold(v, d)' <= Hold(v, d)
<1> DEFINE holds(v) == phase[v] \in {"prepared", "start-issued", "running"}
           NoMore == \A v \in VMs :
                        /\ holds(v)' => holds(v)
                        /\ (v \in disks)' => v \in disks \/ holds(v)
<1>1. NoMore
  <2> USE DEF HostTypeOK, ManifestFollows, Phases, Steps, At, Go, Done
  <2>1. ASSUME NEW v \in VMs, Command(v) PROVE NoMore
    BY <2>1 DEF Command, EnsureAgain, EnsureStopIntent, Stop, Delete, Settled
  <2>2. ASSUME NEW v \in VMs, Step(v) PROVE NoMore
    BY <2>2 DEF Step, Build, Define, SaveIntent, Start, StartUnanswered, SaveRunning,
                Destroy, SaveStopped, Undefine, Erase, SaveDeleted
  <2>3. ASSUME NEW lost \in SUBSET VMs, Inventory(lost) PROVE NoMore
    BY <2>3 DEF Inventory
  <2>4. CASE Abort
    BY <2>4 DEF Abort
  <2>5. CASE Environment
    BY <2>5 DEF Environment, GuestShutdown, LateStart, HostReboot
  <2>6. CASE UNCHANGED hostVars
    BY <2>6 DEF hostVars
  <2> QED
    BY <2>1, <2>2, <2>3, <2>4, <2>5, <2>6 DEF HostNext
<1>2. ASSUME NEW v \in VMs, NEW d \in Dims PROVE Hold(v, d)' <= Hold(v, d)
  <2>1. Charge[v][d] \in Nat
    BY HoldValue
  <2>2. CASE holds(v)
    BY <2>1, <2>2, HoldValue DEF Hold
  <2>3. CASE ~holds(v) /\ v \in disks
    BY <2>1, <2>3, <1>1 DEF Hold
  <2>4. CASE ~holds(v) /\ v \notin disks
    BY <2>1, <2>4, <1>1 DEF Hold
  <2> QED
    BY <2>2, <2>3, <2>4
<1> QED
  BY <1>2

\* The Node never spends more than the ceiling approved on it, whatever the
\* Controller commands, as long as failed starts take no effect late.
THEOREM CeilingNeverExceeded ==
    ASSUME ~LateStarts
    PROVE  HostSpec => []CeilingKept
<1>1. HostInit => HoldInv
  <2> SUFFICES ASSUME HostInit, NEW d \in Dims
               PROVE  Total(VMs, [v \in VMs |-> Hold(v, d)]) <= Ceiling[d]
    BY DEF HoldInv
  <2> DEFINE f == [v \in VMs |-> Hold(v, d)]
  <2>1. \A v \in VMs : f[v] \in Nat /\ f[v] <= 0
    BY DEF HostInit, Hold
  <2> HIDE DEF f
  <2>2. Total(VMs, f) <= Cardinality(VMs) * 0
    BY <2>1, TotalBound
  <2>3. Cardinality(VMs) \in Nat
    BY FS_CardinalityType
  <2>4. Total(VMs, f) \in Nat /\ Ceiling[d] \in Nat
    BY <2>1, TotalType DEF Resources
  <2>5. Total(VMs, f) <= Ceiling[d]
    BY <2>2, <2>3, <2>4
  <2> QED
    BY <2>5 DEF f
<1>2. HostTypeOK /\ OnceInv /\ CertainInv /\ HoldInv /\ [HostNext]_hostVars => HoldInv'
  <2> SUFFICES ASSUME HostTypeOK, OnceInv, CertainInv, HoldInv, [HostNext]_hostVars
               PROVE  HoldInv'
    OBVIOUS
  <2>1. CASE \E v \in VMs : Prepare(v)
    BY <2>1, PrepareFits
  <2>2. CASE \A v \in VMs : ~Prepare(v)
    BY <2>2, OthersHoldNoMore, HoldShrinks DEF OnceInv
  <2> QED
    BY <2>1, <2>2
<1>3. HostTypeOK /\ CertainInv /\ HoldInv => CeilingKept
  <2> SUFFICES ASSUME HostTypeOK, CertainInv, HoldInv, NEW d \in Dims
               PROVE  Total(SpentBy(d), [v \in SpentBy(d) |-> Charge[v][d]]) <= Ceiling[d]
    BY DEF CeilingKept
  <2> DEFINE f == [v \in SpentBy(d) |-> Charge[v][d]]
             g == [v \in VMs |-> Hold(v, d)]
  <2>1. SpentBy(d) \in SUBSET VMs
    BY DEF SpentBy, HostTypeOK
  <2>2. \A v \in SpentBy(d) : Hold(v, d) = Charge[v][d]
    BY DEF SpentBy, Hold, CertainInv, ManifestTells
  <2>3. \A v \in VMs : g[v] \in Nat
    BY HoldValue
  <2>4. \A v \in SpentBy(d) : f[v] \in Nat /\ f[v] <= g[v]
    BY <2>1, <2>2, HoldValue
  <2>5. Total(VMs, g) <= Ceiling[d]
    BY DEF HoldInv
  <2> HIDE DEF f, g
  <2>6. Total(SpentBy(d), f) <= Total(VMs, g)
    BY <2>1, <2>3, <2>4, TotalMonotone
  <2>7. IsFiniteSet(SpentBy(d))
    BY <2>1, FS_Subset
  <2>8. Total(SpentBy(d), f) \in Nat /\ Total(VMs, g) \in Nat /\ Ceiling[d] \in Nat
    BY <2>3, <2>4, <2>7, TotalType DEF Resources
  <2>9. Total(SpentBy(d), f) <= Ceiling[d]
    BY <2>5, <2>6, <2>8
  <2> QED
    BY <2>9 DEF f
<1> QED
  BY <1>1, <1>2, <1>3, HostTypes, OnceInvariant, CertainInvariant, PTL DEF HostSpec

-----------------------------------------------------------------------------
(* What one step does to one VM's disks and machine.                       *)

SameDisks(v) == v \in disks' <=> v \in disks

SamePower(v) == (Runs(v)' <=> Runs(v)) /\ boots'[v] = boots[v]

\* Disks are made of a prepared VM, which is then started once; what ends a run
\* starts nothing, and disks are removed only of what does not run.
MachineMoves(v) ==
    \/ SameDisks(v) /\ SamePower(v)
    \/ phase[v] = "prepared" /\ v \in disks' /\ SamePower(v)
    \/ /\ phase[v] = "start-issued" /\ v \in disks /\ boots[v] = 0
       /\ Runs(v)' /\ boots'[v] = 1 /\ SameDisks(v)
    \/ Runs(v) /\ ~Runs(v)' /\ boots'[v] = boots[v] /\ SameDisks(v)
    \/ ~Runs(v) /\ v \notin disks' /\ SamePower(v)

\* Every step moves every VM in one of these ways.
LEMMA MachineStep ==
    ASSUME ~LateStarts, OnceInv, CertainInv, [HostNext]_hostVars, NEW v \in VMs
    PROVE  MachineMoves(v)
<1> USE DEF OnceInv, HostTypeOK, CertainInv, MachineMoves, SameDisks, SamePower
<1>1. ASSUME UNCHANGED <<domain, disks, boots>> PROVE MachineMoves(v)
  BY <1>1 DEF Runs
<1>2. ASSUME NEW u \in VMs, Command(u) PROVE MachineMoves(v)
  BY <1>1, <1>2 DEF Command, Prepare, EnsureAgain, EnsureStopIntent, Stop, Delete
<1>3. ASSUME NEW u \in VMs, Step(u) PROVE MachineMoves(v)
  <2>1. CASE Build(u)
    BY <2>1 DEF Build, ManifestFollows, Runs
  <2>2. CASE Define(u)
    BY <2>2 DEF Define, Runs
  <2>3. CASE Start(u)
    BY <2>3 DEF Start, Boot, Runs, ManifestFollows, StepTells, StartedOnce, Unstarted
  <2>4. CASE Destroy(u)
    BY <2>4 DEF Destroy, PoweredDown, Runs
  <2>5. CASE Undefine(u)
    <3>1. domain[u] = "off" /\ domain' = [domain EXCEPT ![u] = "absent"]
      BY <2>5 DEF Undefine, StepTells
    <3> QED
      BY <2>5, <3>1 DEF Undefine, Runs
  <2>6. CASE Erase(u)
    BY <2>6 DEF Erase, StepTells, Runs
  <2>7. CASE SaveIntent(u) \/ StartUnanswered(u) \/ SaveRunning(u) \/ SaveStopped(u)
             \/ SaveDeleted(u)
    BY <1>1, <2>7 DEF SaveIntent, StartUnanswered, SaveRunning, SaveStopped, SaveDeleted
  <2> QED
    BY <1>3, <2>1, <2>2, <2>3, <2>4, <2>5, <2>6, <2>7 DEF Step
<1>4. ASSUME NEW lost, Inventory(lost) PROVE MachineMoves(v)
  BY <1>1, <1>4 DEF Inventory
<1>5. CASE Abort
  BY <1>1, <1>5 DEF Abort
<1>6. CASE Environment
  BY <1>6 DEF Environment, GuestShutdown, LateStart, HostReboot, PoweredDown, Runs
<1>7. CASE UNCHANGED hostVars
  BY <1>1, <1>7 DEF hostVars
<1> QED
  BY <1>2, <1>3, <1>4, <1>5, <1>6, <1>7 DEF HostNext
=============================================================================

------------------------------ MODULE MC_HostVM ------------------------------
(***************************************************************************)
(* Small instances of HostVM: three VMs of one unit each on a Node whose   *)
(* ceiling has room for two.                                               *)
(***************************************************************************)
EXTENDS HostVM, TLC

UnitCharge == [v \in VMs |-> [cpu |-> 1, memory |-> 1, disk |-> 1]]
TwoUnits   == [cpu |-> 2, memory |-> 2, disk |-> 2]

Permutation == Permutations(VMs)
=============================================================================

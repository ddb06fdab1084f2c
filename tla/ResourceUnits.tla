--------------------------- MODULE ResourceUnits ---------------------------
(***************************************************************************)
(* The arithmetic of the capacity ledger: resource vectors and the sums    *)
(* the Controller takes over instances and reservations.                   *)
(*                                                                         *)
(* A sum over a finite set is stated without recursion, as the number of   *)
(* units it counts: Units(S, f) holds one pair <<i, k>> for every unit k   *)
(* of f[i].  Two parts of a sum are then disjoint sets of units, which is  *)
(* what the proofs of ResourceUnits_proofs use.                            *)
(***************************************************************************)
EXTENDS Integers, FiniteSets

Dims == {"cpu", "memory", "disk"}

Resources == [Dims -> Nat]

Nothing == [d \in Dims |-> 0]

\* (Resources) Fits: every component non-negative and within the other's.
Fits(r, s) == \A d \in Dims : 0 <= r[d] /\ r[d] <= s[d]

Units(S, f) == UNION {{i} \X (1 .. f[i]) : i \in S}

\* The sum of f[i] over the members i of a finite set S, for natural f[i].
Total(S, f) == Cardinality(Units(S, f))
=============================================================================

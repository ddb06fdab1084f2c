--------------------------- MODULE Ledger_proofs ---------------------------
(***************************************************************************)
(* Theorems of the Controller's store, for every set of Nodes, Pools,      *)
(* requests, submissions and messages.                                     *)
(*                                                                         *)
(* The first part is about how Committed, the figure the Controller        *)
(* compares with a Node's budget, changes with the instance table.  The    *)
(* code subtracts what instances hold and what reservations still protect; *)
(* CommittedSplit shows this is the full size of the Node's reservations   *)
(* plus what instances outside them hold, and both of these are easy to    *)
(* follow through a step.                                                  *)
(*                                                                         *)
(* The second part proves the type invariant; the third strengthens the    *)
(* capacity invariants to IInv, which every step preserves, and derives    *)
(* the others from it.                                                     *)
(***************************************************************************)
EXTENDS Ledger, ResourceUnits_proofs

-----------------------------------------------------------------------------
(* What is committed on a Node.                                            *)

\* What the lemmas ask of an instance table.
Accounted(runs) ==
    /\ IsFiniteSet(DOMAIN runs)
    /\ \A i \in DOMAIN runs : runs[i].held \in Resources

\* Instances on n outside its reservations.
General(c, runs, n) ==
    {i \in On(runs, n) : \A r \in ReservationsOn(c, n) : i \notin UsersOf(runs, r)}

AgreeOn(c, runs, n) == \A r \in ReservationsOn(c, n) : ReservationAgrees(c, runs, r)

-----------------------------------------------------------------------------
\* A configuration's entries have the types their tables say.
LEMMA ConfigTypes ==
    ASSUME NEW c, IsConfig(c)
    PROVE  /\ IsFiniteSet(DOMAIN c.reservations)
           /\ DOMAIN c.nodes \subseteq Nodes
           /\ DOMAIN c.pools \subseteq Pools
           /\ \A n \in DOMAIN c.nodes : c.nodes[n] \in NodeConfigs
           /\ \A p \in DOMAIN c.pools : c.pools[p] \in PoolConfigs
           /\ \A r \in DOMAIN c.reservations : c.reservations[r] \in ReservationConfigs
           /\ \A m \in DOMAIN c.images : c.images[m] \in Digests
<1>1. IsFiniteSet(DOMAIN c.reservations)
  <2>1. DOMAIN c.reservations \subseteq Reservations
    BY DEF IsConfig, IsTable
  <2> QED
    BY <2>1, NamesAreFinite, FS_Subset
<1>2. /\ DOMAIN c.nodes \subseteq Nodes
      /\ DOMAIN c.pools \subseteq Pools
  BY DEF IsConfig, IsTable
<1>3. \A n \in DOMAIN c.nodes : c.nodes[n] \in NodeConfigs
  BY DEF IsConfig, IsTable
<1>4. \A p \in DOMAIN c.pools : c.pools[p] \in PoolConfigs
  BY DEF IsConfig, IsTable
<1>5. \A r \in DOMAIN c.reservations : c.reservations[r] \in ReservationConfigs
  BY DEF IsConfig, IsTable
<1>6. \A m \in DOMAIN c.images : c.images[m] \in Digests
  BY DEF IsConfig, IsTable
<1> QED
  BY <1>1, <1>2, <1>3, <1>4, <1>5, <1>6

\* A part of the table holds a natural amount, and it is the same sum whether
\* taken over that part's rows or over the rows of the whole table.
LEMMA HeldByTotal ==
    ASSUME NEW runs, Accounted(runs), NEW S \in SUBSET DOMAIN runs, NEW d \in Dims
    PROVE  /\ IsFiniteSet(S)
           /\ \A i \in DOMAIN runs : runs[i].held[d] \in Nat
           /\ HeldBy(runs, S, d) = Total(S, [i \in DOMAIN runs |-> runs[i].held[d]])
           /\ HeldBy(runs, S, d) \in Nat
<1> DEFINE f == [i \in DOMAIN runs |-> runs[i].held[d]]
           g == [i \in S |-> runs[i].held[d]]
<1>1. IsFiniteSet(S)
  BY FS_Subset DEF Accounted
<1>2. \A i \in DOMAIN runs : runs[i].held[d] \in Nat
  BY DEF Accounted, Resources
<1>3. Total(S, g) = Total(S, f)
  BY TotalCongruence
<1>4. Total(S, g) \in Nat
  BY <1>1, <1>2, TotalType
<1> QED
  BY <1>1, <1>2, <1>3, <1>4 DEF HeldBy

\* The slots of a consistent reservation that are free fit in what it protects.
LEMMA ProtectedCoversFree ==
    ASSUME NEW c, IsConfig(c), NEW runs, Accounted(runs),
           NEW r \in DOMAIN c.reservations, ReservationAgrees(c, runs, r),
           NEW d \in Dims
    PROVE  /\ c.pools[c.reservations[r].pool].charge[d] \in Nat
           /\ c.reservations[r].slots * c.pools[c.reservations[r].pool].charge[d] \in Nat
           /\ HeldBy(runs, UsersOf(runs, r), d) \in Nat
           /\ FreeSlots(c, runs, r) \in Nat
           /\ FreeSlots(c, runs, r) * c.pools[c.reservations[r].pool].charge[d]
                <= Protected(c, runs, r, d)
           /\ Protected(c, runs, r, d) \in Nat
<1> DEFINE size == c.pools[c.reservations[r].pool].charge[d]
           slots == c.reservations[r].slots
           users == UsersOf(runs, r)
           f == [i \in users |-> runs[i].held[d]]
<1>1. slots \in Nat
  BY ConfigTypes DEF ReservationConfigs
<1>2. c.reservations[r].pool \in DOMAIN c.pools
  BY DEF ReservationAgrees
<1>3. size \in Nat
  BY <1>2, ConfigTypes DEF PoolConfigs, Resources
<1>4. users \in SUBSET DOMAIN runs
  BY DEF UsersOf
<1>5. /\ IsFiniteSet(users)
      /\ Cardinality(users) \in Nat
      /\ HeldBy(runs, users, d) \in Nat
  BY <1>4, HeldByTotal, FS_CardinalityType
<1>6. \A i \in users : f[i] \in Nat /\ f[i] <= size
  <2> TAKE i \in users
  <2>1. runs[i].held[d] \in Nat
    BY <1>4, HeldByTotal
  <2>2. Fits(runs[i].held, c.pools[c.reservations[r].pool].charge)
    BY DEF ReservationAgrees
  <2> QED
    BY <2>1, <2>2 DEF Fits
<1> HIDE DEF size, slots, users
<1>7. HeldBy(runs, users, d) <= Cardinality(users) * size
  BY <1>3, <1>5, <1>6, TotalBound DEF HeldBy
<1>8. Cardinality(users) <= slots
  BY DEF ReservationAgrees, users, slots
<1>9. /\ slots - Cardinality(users) \in Nat
      /\ slots * size \in Nat
      /\ Cardinality(users) * size \in Nat
  BY <1>1, <1>3, <1>5, <1>8
<1>10. (slots - Cardinality(users)) * size = slots * size - Cardinality(users) * size
  BY <1>1, <1>3, <1>5
<1>11. (slots - Cardinality(users)) * size \in Nat
  BY <1>3, <1>9
<1>12. (slots - Cardinality(users)) * size <= slots * size - HeldBy(runs, users, d)
  BY <1>5, <1>7, <1>9, <1>10
<1>13. slots * size - HeldBy(runs, users, d) \in Nat
  BY <1>5, <1>9, <1>11, <1>12
<1> QED
  BY <1>3, <1>5, <1>9, <1>12, <1>13
     DEF FreeSlots, Protected, size, slots, users

\* A Node is committed to its reservations in full and to what the instances
\* outside them hold, whatever their users hold or have given back.
LEMMA CommittedSplit ==
    ASSUME NEW c, IsConfig(c), NEW runs, Accounted(runs), NEW n,
           AgreeOn(c, runs, n), NEW d \in Dims
    PROVE  /\ Committed(c, runs, n, d)
                = Reserved(c, ReservationsOn(c, n), d)
                    + HeldBy(runs, General(c, runs, n), d)
           /\ Reserved(c, ReservationsOn(c, n), d) \in Nat
           /\ HeldBy(runs, General(c, runs, n), d) \in Nat
           /\ HeldBy(runs, On(runs, n), d) \in Nat
           /\ UnusedOn(c, runs, n, d) \in Nat
<1> DEFINE R == ReservationsOn(c, n)
           part == [r \in R |-> UsersOf(runs, r)]
           used == UNION {part[r] : r \in R}
           f == [i \in DOMAIN runs |-> runs[i].held[d]]
           prot == [r \in R |-> Protected(c, runs, r, d)]
           taken == [r \in R |-> Total(part[r], f)]
           full == [r \in R |-> c.reservations[r].slots
                                  * c.pools[c.reservations[r].pool].charge[d]]
<1>1. R \in SUBSET DOMAIN c.reservations /\ IsFiniteSet(R)
  BY ConfigTypes, FS_Subset DEF ReservationsOn
<1>2. \A r \in R : /\ prot[r] \in Nat
                   /\ taken[r] \in Nat
                   /\ full[r] = prot[r] + taken[r]
                   /\ full[r] \in Nat
  <2> SUFFICES ASSUME NEW r \in R
               PROVE  /\ prot[r] \in Nat
                      /\ taken[r] \in Nat
                      /\ full[r] = prot[r] + taken[r]
                      /\ full[r] \in Nat
    OBVIOUS
  <2>1. ReservationAgrees(c, runs, r)
    BY DEF AgreeOn
  <2>2. UsersOf(runs, r) \in SUBSET DOMAIN runs
    BY DEF UsersOf
  <2>3. taken[r] = HeldBy(runs, UsersOf(runs, r), d) /\ taken[r] \in Nat
    BY <2>2, HeldByTotal
  <2>4. full[r] \in Nat /\ Protected(c, runs, r, d) \in Nat
    BY <1>1, <2>1, ProtectedCoversFree
  <2>5. Protected(c, runs, r, d) = full[r] - HeldBy(runs, UsersOf(runs, r), d)
    BY DEF Protected
  <2>6. prot[r] = Protected(c, runs, r, d)
    OBVIOUS
  <2> HIDE DEF prot, taken, full
  <2>7. full[r] = prot[r] + taken[r]
    BY <2>3, <2>4, <2>5, <2>6
  <2> QED
    BY <2>3, <2>4, <2>6, <2>7
<1>3. \A r \in R : part[r] \subseteq DOMAIN runs
  BY DEF UsersOf
<1>4. \A r \in R, q \in R : r # q => part[r] \cap part[q] = {}
  BY DEF UsersOf
<1>5. IsFiniteSet(DOMAIN runs) /\ \A i \in DOMAIN runs : f[i] \in Nat
  BY HeldByTotal DEF Accounted
<1>6. Total(R, taken) = Total(used, f)
  <2> HIDE DEF R, part, f
  <2> QED
    BY <1>1, <1>3, <1>4, <1>5, TotalOfTotals
<1>7. Total(R, full) = Total(R, prot) + Total(R, taken)
  <2> HIDE DEF R, prot, taken, full
  <2>1. Total(R, [r \in R |-> prot[r] + taken[r]]) = Total(R, prot) + Total(R, taken)
    BY <1>1, <1>2, TotalSum
  <2>2. Total(R, full) = Total(R, [r \in R |-> prot[r] + taken[r]])
    BY <1>2, TotalCongruence
  <2> QED
    BY <2>1, <2>2
<1>8. used \subseteq On(runs, n)
  <2> SUFFICES ASSUME NEW r \in R, NEW i \in UsersOf(runs, r) PROVE i \in On(runs, n)
    OBVIOUS
  <2>1. c.reservations[r].node = n
    BY DEF ReservationsOn
  <2>2. ReservationAgrees(c, runs, r)
    BY DEF AgreeOn
  <2>3. runs[i].node = c.reservations[r].node
    BY <2>2 DEF ReservationAgrees
  <2> QED
    BY <2>1, <2>3 DEF On, UsersOf
<1>9. /\ On(runs, n) = General(c, runs, n) \cup used
      /\ General(c, runs, n) \cap used = {}
  BY <1>8 DEF General
<1>10. On(runs, n) \in SUBSET DOMAIN runs /\ General(c, runs, n) \in SUBSET DOMAIN runs
  BY DEF On, General
<1>11. used \in SUBSET DOMAIN runs
  BY <1>8, <1>10
<1>12. /\ IsFiniteSet(General(c, runs, n)) /\ IsFiniteSet(used)
       /\ HeldBy(runs, On(runs, n), d) = Total(On(runs, n), f)
       /\ HeldBy(runs, On(runs, n), d) \in Nat
       /\ HeldBy(runs, General(c, runs, n), d) = Total(General(c, runs, n), f)
       /\ HeldBy(runs, General(c, runs, n), d) \in Nat
  BY <1>10, <1>11, HeldByTotal
<1>13. Total(General(c, runs, n) \cup used, f)
         = Total(General(c, runs, n), f) + Total(used, f)
  BY <1>5, <1>10, <1>11, <1>12, TotalDisjoint, <1>9
<1>14. Total(R, prot) \in Nat /\ Total(R, taken) \in Nat /\ Total(R, full) \in Nat
  BY <1>1, <1>2, TotalType
<1>15. UnusedOn(c, runs, n, d) = Total(R, prot) /\ Reserved(c, R, d) = Total(R, full)
  BY DEF UnusedOn, Reserved
<1> HIDE DEF R, used, prot, taken, full, f
<1>16. Total(On(runs, n), f) = Total(General(c, runs, n), f) + Total(used, f)
  BY <1>9, <1>13
<1>17. Committed(c, runs, n, d) = Reserved(c, R, d) + HeldBy(runs, General(c, runs, n), d)
  BY <1>6, <1>7, <1>12, <1>14, <1>15, <1>16 DEF Committed
<1> QED
  BY <1>12, <1>14, <1>15, <1>17 DEF R
-----------------------------------------------------------------------------
(* Steps in which instances stay where they are and give resources back.   *)

Shrinks(runs, next) ==
    /\ DOMAIN next = DOMAIN runs
    /\ \A i \in DOMAIN runs :
          /\ next[i].node = runs[i].node
          /\ next[i].pool = runs[i].pool
          /\ next[i].reservation = runs[i].reservation
          /\ Fits(next[i].held, runs[i].held)

\* What holds something after such a step held something before it.
LEMMA HoldersShrink ==
    ASSUME NEW runs, Accounted(runs), NEW next, Accounted(next), Shrinks(runs, next)
    PROVE  /\ \A i \in DOMAIN runs : Holds(next[i]) => Holds(runs[i])
           /\ \A n : On(next, n) = On(runs, n)
           /\ \A r : UsersOf(next, r) \subseteq UsersOf(runs, r)
           /\ \A p : RunnersOf(next, p) \subseteq RunnersOf(runs, p)
<1>1. \A i \in DOMAIN runs : Holds(next[i]) => Holds(runs[i])
  <2> SUFFICES ASSUME NEW i \in DOMAIN runs, runs[i].held = Nothing
               PROVE  next[i].held = Nothing
    BY DEF Holds
  <2>1. next[i].held \in Resources
    BY DEF Accounted, Shrinks
  <2>2. \A d \in Dims : next[i].held[d] = 0
    BY <2>1 DEF Shrinks, Fits, Nothing, Resources
  <2> QED
    BY <2>1, <2>2 DEF Nothing, Resources
<1>2. \A n : On(next, n) = On(runs, n)
  BY DEF On, Shrinks
<1>3. \A r : UsersOf(next, r) \subseteq UsersOf(runs, r)
  BY <1>1 DEF UsersOf, Shrinks
<1>4. \A p : RunnersOf(next, p) \subseteq RunnersOf(runs, p)
  BY <1>1 DEF RunnersOf, Shrinks
<1> QED
  BY <1>1, <1>2, <1>3, <1>4

\* Reservations stay consistent, and their owners with them.
LEMMA AgreementShrinks ==
    ASSUME NEW c, IsConfig(c), NEW runs, Accounted(runs), NEW next, Accounted(next),
           Shrinks(runs, next)
    PROVE  /\ OwnersAgree(c, runs) => OwnersAgree(c, next)
           /\ \A r \in DOMAIN c.reservations :
                 ReservationAgrees(c, runs, r) => ReservationAgrees(c, next, r)
<1>1. ASSUME OwnersAgree(c, runs) PROVE OwnersAgree(c, next)
  BY <1>1, HoldersShrink DEF OwnersAgree, Shrinks
<1>2. ASSUME NEW r \in DOMAIN c.reservations, ReservationAgrees(c, runs, r)
      PROVE  ReservationAgrees(c, next, r)
  <2> DEFINE v == c.reservations[r]
  <2>1. UsersOf(next, r) \subseteq UsersOf(runs, r)
    BY HoldersShrink
  <2>2. ASSUME NEW i \in UsersOf(next, r)
        PROVE  /\ next[i].node = v.node
               /\ next[i].pool = v.pool
               /\ Fits(next[i].held, c.pools[v.pool].charge)
    <3>1. i \in UsersOf(runs, r) /\ i \in DOMAIN runs
      BY <2>1 DEF UsersOf
    <3>2. /\ runs[i].node = v.node
          /\ runs[i].pool = v.pool
          /\ Fits(runs[i].held, c.pools[v.pool].charge)
      BY <1>2, <3>1 DEF ReservationAgrees
    <3>3. v.pool \in DOMAIN c.pools /\ c.pools[v.pool].charge \in Resources
      BY <1>2, ConfigTypes DEF ReservationAgrees, PoolConfigs
    <3>4. next[i].held \in Resources /\ runs[i].held \in Resources
      BY <3>1 DEF Accounted, Shrinks
    <3>5. Fits(next[i].held, runs[i].held)
      BY <3>1 DEF Shrinks
    <3>6. Fits(next[i].held, c.pools[v.pool].charge)
      BY <3>2, <3>3, <3>4, <3>5 DEF Fits, Resources
    <3> QED
      BY <3>1, <3>2, <3>6 DEF Shrinks
  <2>3. Cardinality(UsersOf(next, r)) <= v.slots
    <3>1. UsersOf(runs, r) \in SUBSET DOMAIN runs
      BY DEF UsersOf
    <3>2. /\ IsFiniteSet(UsersOf(runs, r))
          /\ Cardinality(UsersOf(next, r)) <= Cardinality(UsersOf(runs, r))
          /\ Cardinality(UsersOf(next, r)) \in Nat
          /\ Cardinality(UsersOf(runs, r)) \in Nat
      BY <2>1, <3>1, FS_Subset, FS_CardinalityType DEF Accounted
    <3>3. v.slots \in Nat
      BY ConfigTypes DEF ReservationConfigs
    <3> QED
      BY <1>2, <3>2, <3>3 DEF ReservationAgrees
  <2> QED
    BY <1>2, <2>2, <2>3 DEF ReservationAgrees
<1> QED
  BY <1>1, <1>2

\* No limit is passed: runners only stop counting.
LEMMA LimitShrinks ==
    ASSUME NEW c, IsConfig(c), NEW runs, Accounted(runs), NEW next, Accounted(next),
           Shrinks(runs, next), NEW p \in DOMAIN c.pools, WithinLimit(c, runs, p)
    PROVE  WithinLimit(c, next, p)
<1>1. RunnersOf(next, p) \subseteq RunnersOf(runs, p)
  BY HoldersShrink
<1>2. RunnersOf(runs, p) \in SUBSET DOMAIN runs
  BY DEF RunnersOf
<1>3. /\ Cardinality(RunnersOf(next, p)) <= Cardinality(RunnersOf(runs, p))
      /\ Cardinality(RunnersOf(next, p)) \in Nat
      /\ Cardinality(RunnersOf(runs, p)) \in Nat
  BY <1>1, <1>2, FS_Subset, FS_CardinalityType DEF Accounted
<1>4. c.pools[p].maxRunners \in Nat
  BY ConfigTypes DEF PoolConfigs
<1> QED
  BY <1>3, <1>4 DEF WithinLimit

\* Nor does a Node come to owe more: an instance outside the reservations owes
\* less, and what a user of one gives back the reservation protects again.
LEMMA CommittedShrinks ==
    ASSUME NEW c, IsConfig(c), NEW runs, Accounted(runs), NEW next, Accounted(next),
           Shrinks(runs, next), NEW n, AgreeOn(c, runs, n), NEW d \in Dims
    PROVE  Committed(c, next, n, d) <= Committed(c, runs, n, d)
<1>1. AgreeOn(c, next, n)
  BY AgreementShrinks DEF AgreeOn, ReservationsOn
<1> DEFINE G == General(c, runs, n)
           H == General(c, next, n)
           f == [i \in DOMAIN runs |-> runs[i].held[d]]
           g == [i \in DOMAIN next |-> next[i].held[d]]
<1>2. G \in SUBSET DOMAIN runs /\ H \in SUBSET DOMAIN next
  BY DEF General, On
<1>3. /\ \A i \in DOMAIN runs : f[i] \in Nat /\ g[i] \in Nat /\ g[i] <= f[i]
      /\ HeldBy(runs, G, d) = Total(G, f)
      /\ HeldBy(next, H, d) = Total(H, g)
      /\ HeldBy(runs, G, d) \in Nat
      /\ HeldBy(next, H, d) \in Nat
      /\ IsFiniteSet(G)
      /\ IsFiniteSet(H)
  BY <1>2, HeldByTotal DEF Shrinks, Fits
<1>4. \A i \in H \ G : g[i] = 0
  <2> SUFFICES ASSUME NEW i \in H, i \notin G PROVE g[i] = 0
    OBVIOUS
  <2>1. i \in DOMAIN next /\ i \in On(runs, n) /\ i \in On(next, n)
    BY <1>2, HoldersShrink DEF General
  <2>2. PICK r \in ReservationsOn(c, n) : i \in UsersOf(runs, r)
    BY <2>1 DEF General
  <2>3. i \notin UsersOf(next, r)
    BY <2>2 DEF General
  <2>4. ~Holds(next[i])
    BY <2>1, <2>2, <2>3 DEF UsersOf, Shrinks
  <2> QED
    BY <2>1, <2>4 DEF Holds, Nothing
<1>5. H = (H \cap G) \cup (H \ G) /\ (H \cap G) \cap (H \ G) = {}
  OBVIOUS
<1>6. IsFiniteSet(H \cap G) /\ IsFiniteSet(H \ G)
  BY <1>3, FS_Intersection, FS_Difference
<1>7. H \cap G \in SUBSET G /\ \A i \in H : g[i] \in Nat
  BY <1>2, <1>3 DEF Shrinks
<1>8. Total(H, g) = Total(H \cap G, g) + Total(H \ G, g)
  <2> HIDE DEF G, H, f, g
  <2> QED
    BY <1>5, <1>6, <1>7, TotalDisjoint
<1>9. Total(H \cap G, g) <= Total(G, f) /\ Total(H \cap G, g) \in Nat
  <2>1. \A i \in G : f[i] \in Nat
    BY <1>2, <1>3
  <2>2. \A i \in H \cap G : g[i] \in Nat /\ g[i] <= f[i]
    BY <1>2, <1>3
  <2> HIDE DEF G, H, f, g
  <2> QED
    BY <1>3, <1>6, <1>7, <2>1, <2>2, TotalMonotone, TotalType
<1>10. Total(H \ G, g) = 0
  <2>1. Total(H \ G, g) <= Cardinality(H \ G) * 0
    <3> HIDE DEF G, H, f, g
    <3> QED
      BY <1>4, <1>6, TotalBound
  <2>2. Cardinality(H \ G) \in Nat /\ Total(H \ G, g) \in Nat
    <3> HIDE DEF G, H, f, g
    <3> QED
      BY <1>4, <1>6, FS_CardinalityType, TotalType
  <2>3. Cardinality(H \ G) * 0 = 0
    BY <2>2
  <2> HIDE DEF G, H, f, g
  <2> QED
    BY <2>1, <2>2, <2>3
<1>11. HeldBy(next, H, d) <= HeldBy(runs, G, d)
  <2> HIDE DEF G, H, f, g
  <2> QED
    BY <1>3, <1>8, <1>9, <1>10
<1>12. /\ Committed(c, runs, n, d)
            = Reserved(c, ReservationsOn(c, n), d) + HeldBy(runs, G, d)
       /\ Committed(c, next, n, d)
            = Reserved(c, ReservationsOn(c, n), d) + HeldBy(next, H, d)
       /\ Reserved(c, ReservationsOn(c, n), d) \in Nat
  BY <1>1, CommittedSplit
<1> HIDE DEF G, H, f, g
<1> QED
  BY <1>3, <1>11, <1>12
-----------------------------------------------------------------------------
(* Steps that place an instance.                                           *)

\* A new row that holds something: outside every reservation, or in a free
\* slot of one of its own Node and Pool.
Adds(c, runs, next, i, a) ==
    /\ i \notin DOMAIN runs
    /\ next = Put(runs, i, a)
    /\ a.held \in Resources
    /\ Holds(a)
    /\ a.reservation # NoReservation =>
          /\ a.reservation \in DOMAIN c.reservations
          /\ c.reservations[a.reservation].node = a.node
          /\ c.reservations[a.reservation].pool = a.pool
          /\ a.pool \in DOMAIN c.pools
          /\ Fits(a.held, c.pools[a.pool].charge)
          /\ FreeSlots(c, runs, a.reservation) > 0

\* next is runs with the row a for i, and the groupings follow.
Grown(runs, next, i, a) ==
    /\ DOMAIN next = DOMAIN runs \cup {i}
    /\ next[i] = a
    /\ \A j \in DOMAIN runs : next[j] = runs[j]
    /\ \A n : On(next, n) = On(runs, n) \cup {j \in {i} : n = a.node}
    /\ \A r : UsersOf(next, r) = UsersOf(runs, r) \cup {j \in {i} : r = a.reservation}
    /\ \A p : RunnersOf(next, p) = RunnersOf(runs, p) \cup {j \in {i} : p = a.pool}

\* A table with one row more holds what the old table held and the row's amount.
LEMMA RowsAdded ==
    ASSUME NEW c, NEW runs, Accounted(runs), NEW next, NEW i, NEW a,
           Adds(c, runs, next, i, a)
    PROVE  Grown(runs, next, i, a) /\ Accounted(next)
<1>1. /\ DOMAIN next = DOMAIN runs \cup {i}
      /\ next[i] = a
      /\ i \notin DOMAIN runs
      /\ \A j \in DOMAIN runs : next[j] = runs[j]
      /\ a.held \in Resources
      /\ Holds(a)
  BY DEF Adds, Put
<1>2. Accounted(next)
  BY <1>1, FS_AddElement DEF Accounted
<1>3. \A n : On(next, n) = On(runs, n) \cup {j \in {i} : n = a.node}
  BY <1>1 DEF On
<1>4. \A r : UsersOf(next, r) = UsersOf(runs, r) \cup {j \in {i} : r = a.reservation}
  BY <1>1 DEF UsersOf
<1>5. \A p : RunnersOf(next, p) = RunnersOf(runs, p) \cup {j \in {i} : p = a.pool}
  BY <1>1 DEF RunnersOf
<1> QED
  BY <1>1, <1>2, <1>3, <1>4, <1>5 DEF Grown

\* Reservations stay consistent: the new user fits the slot it takes.
LEMMA AgreementAdds ==
    ASSUME NEW c, IsConfig(c), NEW runs, Accounted(runs), NEW next, NEW i, NEW a,
           Adds(c, runs, next, i, a)
    PROVE  /\ OwnersAgree(c, runs) => OwnersAgree(c, next)
           /\ \A r \in DOMAIN c.reservations :
                 ReservationAgrees(c, runs, r) => ReservationAgrees(c, next, r)
<1>0. Grown(runs, next, i, a) /\ Accounted(next)
  BY RowsAdded
<1>1. ASSUME OwnersAgree(c, runs) PROVE OwnersAgree(c, next)
  BY <1>1, <1>0 DEF OwnersAgree, Adds, Grown
<1>2. ASSUME NEW r \in DOMAIN c.reservations, ReservationAgrees(c, runs, r)
      PROVE  ReservationAgrees(c, next, r)
  <2> DEFINE v == c.reservations[r]
  <2>1. v.pool \in DOMAIN c.pools
    BY <1>2 DEF ReservationAgrees
  <2>2. ASSUME NEW j \in UsersOf(runs, r)
        PROVE  /\ next[j].node = v.node
               /\ next[j].pool = v.pool
               /\ Fits(next[j].held, c.pools[v.pool].charge)
    <3>1. j \in DOMAIN runs
      BY DEF UsersOf
    <3> QED
      BY <1>2, <3>1, <1>0 DEF ReservationAgrees, Grown
  <2>3. UsersOf(runs, r) \in SUBSET DOMAIN runs
    BY DEF UsersOf
  <2>4. /\ IsFiniteSet(UsersOf(runs, r))
        /\ Cardinality(UsersOf(runs, r)) \in Nat
        /\ Cardinality(UsersOf(runs, r)) <= v.slots
        /\ v.slots \in Nat
    BY <1>2, <2>3, HeldByTotal, FS_Subset, FS_CardinalityType, ConfigTypes
       DEF Accounted, ReservationAgrees, ReservationConfigs
  <2>5. CASE r # a.reservation
    <3>1. UsersOf(next, r) = UsersOf(runs, r)
      BY <2>5, <1>0 DEF Grown
    <3> QED
      BY <2>1, <2>2, <2>4, <3>1 DEF ReservationAgrees
  <2>6. CASE r = a.reservation
    <3>1. UsersOf(next, r) = UsersOf(runs, r) \cup {i}
      BY <2>6, <1>0 DEF Grown
    <3>2. r # NoReservation
      <4>1. DOMAIN c.reservations \subseteq Reservations
        BY DEF IsConfig, IsTable
      <4> QED
        BY <4>1, AbsentNames
    <3>3. /\ v.node = a.node
          /\ v.pool = a.pool
          /\ Fits(a.held, c.pools[v.pool].charge)
          /\ FreeSlots(c, runs, r) > 0
      BY <2>6, <3>2 DEF Adds
    <3>4. i \notin UsersOf(runs, r)
      BY <2>3 DEF Adds
    <3>5. Cardinality(UsersOf(next, r)) = Cardinality(UsersOf(runs, r)) + 1
      BY <2>4, <3>1, <3>4, FS_AddElement
    <3>6. Cardinality(UsersOf(next, r)) <= v.slots
      BY <2>4, <3>3, <3>5 DEF FreeSlots
    <3>7. next[i] = a
      BY <1>0 DEF Grown
    <3>8. \A j \in UsersOf(next, r) :
             /\ next[j].node = v.node
             /\ next[j].pool = v.pool
             /\ Fits(next[j].held, c.pools[v.pool].charge)
      BY <2>2, <3>1, <3>3, <3>7
    <3> QED
      BY <2>1, <3>6, <3>8 DEF ReservationAgrees
  <2> QED
    BY <2>5, <2>6
<1> QED
  BY <1>1, <1>2

\* A Pool below its limit has room for one more.
LEMMA LimitAdds ==
    ASSUME NEW c, IsConfig(c), NEW runs, Accounted(runs), NEW next, NEW i, NEW a,
           Adds(c, runs, next, i, a), NEW p \in DOMAIN c.pools,
           WithinLimit(c, runs, p),
           p = a.pool => Cardinality(RunnersOf(runs, p)) < c.pools[p].maxRunners
    PROVE  WithinLimit(c, next, p)
<1>0. Grown(runs, next, i, a) /\ Accounted(next)
  BY RowsAdded
<1>1. RunnersOf(runs, p) \in SUBSET DOMAIN runs
  BY DEF RunnersOf
<1>2. /\ IsFiniteSet(RunnersOf(runs, p))
      /\ Cardinality(RunnersOf(runs, p)) \in Nat
      /\ c.pools[p].maxRunners \in Nat
  BY <1>1, FS_Subset, FS_CardinalityType, ConfigTypes DEF Accounted, PoolConfigs
<1>3. CASE p # a.pool
  <2>1. RunnersOf(next, p) = RunnersOf(runs, p)
    BY <1>3, <1>0 DEF Grown
  <2> QED
    BY <2>1 DEF WithinLimit
<1>4. CASE p = a.pool
  <2>1. RunnersOf(next, p) = RunnersOf(runs, p) \cup {i}
    BY <1>4, <1>0 DEF Grown
  <2>2. i \notin RunnersOf(runs, p)
    BY <1>1 DEF Adds
  <2>3. Cardinality(RunnersOf(next, p)) = Cardinality(RunnersOf(runs, p)) + 1
    BY <1>2, <2>1, <2>2, FS_AddElement
  <2> QED
    BY <1>2, <1>4, <2>3 DEF WithinLimit
<1> QED
  BY <1>3, <1>4

\* Only an instance outside the reservations adds to what its Node owes.
LEMMA CommittedAdds ==
    ASSUME NEW c, IsConfig(c), NEW runs, Accounted(runs), NEW next, NEW i, NEW a,
           Adds(c, runs, next, i, a), NEW n, AgreeOn(c, runs, n), NEW d \in Dims
    PROVE  Committed(c, next, n, d) =
              Committed(c, runs, n, d)
                + (IF n = a.node /\ a.reservation = NoReservation
                   THEN a.held[d] ELSE 0)
<1>0. Grown(runs, next, i, a) /\ Accounted(next)
  BY RowsAdded
<1> DEFINE G == General(c, runs, n)
           H == General(c, next, n)
           g == [j \in DOMAIN next |-> next[j].held[d]]
           f == [j \in DOMAIN runs |-> runs[j].held[d]]
           R == Reserved(c, ReservationsOn(c, n), d)
<1>1. AgreeOn(c, next, n)
  BY AgreementAdds DEF AgreeOn, ReservationsOn
<1>2. Accounted(next)
  BY <1>0 DEF Grown
<1>3. G \in SUBSET DOMAIN runs /\ H \in SUBSET DOMAIN next
  BY DEF General, On
<1>4. G \in SUBSET DOMAIN next /\ i \in DOMAIN next /\ i \notin G
  BY <1>3, <1>0 DEF Adds, Grown
<1>5. /\ HeldBy(runs, G, d) = Total(G, f)
      /\ HeldBy(next, H, d) = Total(H, g)
      /\ HeldBy(runs, G, d) \in Nat
      /\ IsFiniteSet(G)
  BY <1>2, <1>3, HeldByTotal
<1>6. Total(G, f) = Total(G, g)
  <2>1. \A j \in G : f[j] = g[j]
    BY <1>3, <1>4, <1>0 DEF Grown
  <2> HIDE DEF f, g, G
  <2> QED
    BY <2>1, TotalCongruence
<1>7. \A j \in DOMAIN next : g[j] \in Nat
  BY <1>2, HeldByTotal
<1>8. /\ Committed(c, runs, n, d) = R + HeldBy(runs, G, d)
      /\ Committed(c, next, n, d) = R + HeldBy(next, H, d)
      /\ R \in Nat
  BY <1>1, <1>2, CommittedSplit
<1>9. CASE n = a.node /\ a.reservation = NoReservation
  <2>1. H = G \cup {i}
    <3>1. \A r \in ReservationsOn(c, n) : r # NoReservation
      BY AbsentNames DEF ReservationsOn, IsConfig, IsTable
    <3>2. \A r \in ReservationsOn(c, n) : UsersOf(next, r) = UsersOf(runs, r)
      BY <1>9, <3>1, <1>0 DEF Grown
    <3>3. \A r \in ReservationsOn(c, n) : i \notin UsersOf(runs, r)
      BY DEF UsersOf, Adds
    <3>4. On(next, n) = On(runs, n) \cup {i}
      BY <1>9, <1>0 DEF Grown
    <3> QED
      BY <3>2, <3>3, <3>4 DEF General
  <2>2. g[i] = a.held[d] /\ g[i] \in Nat
    BY <1>4, <1>7, <1>0 DEF Grown
  <2>3. Total(G \cup {i}, g) = Total(G, g) + Total({i}, g)
    <3>1. IsFiniteSet({i}) /\ G \cap {i} = {}
      BY <1>4, FS_Singleton
    <3>2. \A j \in G \cup {i} : g[j] \in Nat
      BY <1>4, <1>7
    <3> HIDE DEF g, G
    <3> QED
      BY <1>5, <3>1, <3>2, TotalDisjoint
  <2>4. Total({i}, g) = g[i]
    <3> HIDE DEF g
    <3> QED
      BY <2>2, TotalSingleton
  <2> HIDE DEF f, g, G, H, R
  <2> QED
    BY <1>5, <1>6, <1>8, <1>9, <2>1, <2>2, <2>3, <2>4
<1>10. CASE ~(n = a.node /\ a.reservation = NoReservation)
  <2>1. H = G
    <3>1. CASE n # a.node
      <4>1. On(next, n) = On(runs, n)
        BY <3>1, <1>0 DEF Grown
      <4>2. i \notin On(runs, n)
        BY DEF On, Adds
      <4>3. \A r, j : j # i => (j \in UsersOf(next, r) <=> j \in UsersOf(runs, r))
        BY <1>0 DEF Grown
      <4> QED
        BY <4>1, <4>2, <4>3 DEF General
    <3>2. CASE n = a.node /\ a.reservation # NoReservation
      <4>1. a.reservation \in ReservationsOn(c, n)
        BY <3>2 DEF Adds, ReservationsOn
      <4>2. i \in UsersOf(next, a.reservation)
        BY <1>0 DEF Grown
      <4>3. On(next, n) = On(runs, n) \cup {i}
        BY <3>2, <1>0 DEF Grown
      <4>4. i \notin On(runs, n)
        BY DEF On, Adds
      <4>5. \A r, j : j # i => (j \in UsersOf(next, r) <=> j \in UsersOf(runs, r))
        BY <1>0 DEF Grown
      <4> QED
        BY <4>1, <4>2, <4>3, <4>4, <4>5 DEF General
    <3> QED
      BY <1>10, <3>1, <3>2
  <2> HIDE DEF f, g, G, H, R
  <2> QED
    BY <1>5, <1>6, <1>8, <1>10, <2>1
<1> QED
  BY <1>9, <1>10

-----------------------------------------------------------------------------
(* The type invariant.                                                     *)

\* A table stays a table of its kind when a row of that kind is put into it.
LEMMA PutTable ==
    ASSUME NEW K, NEW V, NEW t, IsTable(t, K, V), NEW k \in K, NEW v \in V
    PROVE  IsTable(Put(t, k, v), K, V)
BY DEF IsTable, Put

\* One table laid over another of the same kind is a table of that kind.
LEMMA OverrideTable ==
    ASSUME NEW K, NEW V, NEW t, IsTable(t, K, V), NEW u, IsTable(u, K, V)
    PROVE  IsTable(Override(t, u), K, V)
BY DEF IsTable, Override

\* Store.Plan stores a configuration of the right shape.
LEMMA MergeConfigType ==
    ASSUME NEW old, IsConfig(old), NEW next, IsConfig(next)
    PROVE  IsConfig(MergeConfig(old, next))
<1> DEFINE c == MergeConfig(old, next)
<1>1. c = [nodes |-> c.nodes, pools |-> c.pools, images |-> c.images,
           reservations |-> c.reservations]
  BY DEF MergeConfig
<1>2. IsTable(c.nodes, Nodes, NodeConfigs)
  BY OverrideTable DEF IsConfig, MergeConfig
<1>3. IsTable(c.pools, Pools, PoolConfigs)
  BY OverrideTable DEF IsConfig, MergeConfig
<1>4. IsTable(c.images, ImageNames, Digests)
  BY OverrideTable DEF IsConfig, MergeConfig
<1>5. IsTable(c.reservations, Reservations, ReservationConfigs)
  BY OverrideTable DEF IsConfig, MergeConfig
<1> QED
  BY <1>1, <1>2, <1>3, <1>4, <1>5 DEF IsConfig

\* Store.Approve adds a Node of the right shape and changes nothing else.
LEMMA JoinType ==
    ASSUME TypeOK, NEW e \in Enrollments
    PROVE  LET c == [config EXCEPT !.nodes = Put(@, e.name, JoiningNode(e))] IN
           /\ IsConfig(c)
           /\ c.nodes = Put(config.nodes, e.name, JoiningNode(e))
           /\ c.pools = config.pools
           /\ c.images = config.images
           /\ c.reservations = config.reservations
<1> DEFINE c == [config EXCEPT !.nodes = Put(@, e.name, JoiningNode(e))]
<1>1. IsConfig(config)
  BY DEF TypeOK
<1>2. e \in [name : Nodes, ceiling : Resources]
  BY InputTypes
<1>3. JoiningNode(e) \in NodeConfigs
  <2>1. DOMAIN config.pools \subseteq Pools
    BY <1>1, ConfigTypes
  <2> QED
    BY <1>2, <2>1 DEF JoiningNode, NodeConfigs
<1>4. config = [nodes |-> config.nodes, pools |-> config.pools,
                images |-> config.images, reservations |-> config.reservations]
  BY <1>1 DEF IsConfig
<1>5. /\ c.nodes = Put(config.nodes, e.name, JoiningNode(e))
      /\ c.pools = config.pools
      /\ c.images = config.images
      /\ c.reservations = config.reservations
      /\ c = [nodes |-> c.nodes, pools |-> c.pools, images |-> c.images,
              reservations |-> c.reservations]
  BY <1>4
<1>6. IsTable(c.nodes, Nodes, NodeConfigs)
  BY <1>1, <1>2, <1>3, <1>5, PutTable DEF IsConfig
<1> QED
  BY <1>1, <1>5, <1>6 DEF IsConfig

\* An instance row keeps its type through every handler that rewrites it.
LEMMA AfterReportType ==
    ASSUME NEW a \in Instances, NEW report
    PROVE  AfterReport(a, report) \in Instances
<1>1. PoweredOff(a.held) \in Resources /\ Nothing \in Resources
  BY DEF PoweredOff, Instances, Resources, Dims, Nothing
<1>2. [a EXCEPT !.state = "Idle"] \in Instances
  BY DEF Instances, InstanceStates
<1>3. [a EXCEPT !.state = "Deleting", !.held = PoweredOff(@)] \in Instances
  BY <1>1 DEF Instances, InstanceStates
<1>4. [a EXCEPT !.state = "Deleted", !.held = Nothing] \in Instances
  BY <1>1 DEF Instances, InstanceStates
<1>5. [a EXCEPT !.state = "Stopping"] \in Instances
  BY DEF Instances, InstanceStates
<1> QED
  BY <1>2, <1>3, <1>4, <1>5 DEF AfterReport

\* A runner event leaves an instance an instance.
LEMMA AfterEventType ==
    ASSUME NEW a \in Instances, NEW event
    PROVE  AfterEvent(a, event) \in Instances
BY DEF AfterEvent, Instances, InstanceStates

\* placeTx stores a row whose image digest the chosen Node reported.
LEMMA PlaceType ==
    ASSUME TypeOK, NEW i \in Requests, NEW p \in DOMAIN config.pools,
           NEW s \in InstanceStates, Place(i, p, s)
    PROVE  IsTable(instances', Requests, Instances)
<1>1. IsConfig(config) /\ IsTable(instances, Requests, Instances)
  BY DEF TypeOK
<1>2. PICK n \in Candidates(p) : \E r \in SlotsFor(p, n) :
        instances' = Put(instances, i, NewInstance(n, p, s, r))
  BY DEF Place
<1>2a. PICK r \in SlotsFor(p, n) :
         instances' = Put(instances, i, NewInstance(n, p, s, r))
  BY <1>2
<1>3. n \in Nodes
  BY <1>1, ConfigTypes DEF Candidates
<1>4. r \in Reservations \cup {NoReservation}
  <2>1. DOMAIN config.reservations \subseteq Reservations
    BY <1>1 DEF IsConfig, IsTable
  <2> QED
    BY <2>1 DEF SlotsFor, OwnReservations, ReservationsOn
<1>5. /\ p \in Pools
      /\ config.pools[p].charge \in Resources
      /\ config.pools[p].tasks \in BOOLEAN
  BY <1>1, ConfigTypes DEF PoolConfigs
<1>6. config.images[config.pools[p].image] \in Digests
  <2>1. NodeReady(p, n)
    BY DEF Candidates, Admissible
  <2>2. reports[n].said \in ObservationTypes
    BY <2>1 DEF NodeReady, TypeOK, IsTable, Reports
  <2> QED
    BY <2>1, <2>2 DEF NodeReady, ObservationTypes
<1>7. (s = "Provisioning") \in BOOLEAN
  OBVIOUS
<1>8. NewInstance(n, p, s, r) \in Instances
  BY <1>3, <1>4, <1>5, <1>6, <1>7 DEF NewInstance, Instances
<1> QED
  BY <1>1, <1>2a, <1>8, PutTable

\* A function on the fields of a plan is the record of its values.
LEMMA PlanFields ==
    ASSUME NEW q, q = [x \in {"base", "config", "expired", "applied"} |-> q[x]]
    PROVE  q = [base |-> q.base, config |-> q.config,
                expired |-> q.expired, applied |-> q.applied]
OBVIOUS

\* A plan stays a plan when it expires or is applied.
LEMMA PlanUpdateType ==
    ASSUME NEW plan, IsPlan(plan)
    PROVE  IsPlan([plan EXCEPT !.expired = TRUE]) /\ IsPlan([plan EXCEPT !.applied = TRUE])
<1> DEFINE expired == [plan EXCEPT !.expired = TRUE]
           applied == [plan EXCEPT !.applied = TRUE]
<1>1. DOMAIN plan = {"base", "config", "expired", "applied"}
  <2>1. plan = [base |-> plan.base, config |-> plan.config,
                expired |-> plan.expired, applied |-> plan.applied]
    BY DEF IsPlan
  <2>2. DOMAIN [base |-> plan.base, config |-> plan.config,
                expired |-> plan.expired, applied |-> plan.applied]
          = {"base", "config", "expired", "applied"}
    OBVIOUS
  <2> QED
    BY <2>1, <2>2, Zenon
<1>2. /\ expired.base = plan.base /\ expired.config = plan.config
      /\ expired.expired = TRUE /\ expired.applied = plan.applied
  BY <1>1
<1>3. /\ applied.base = plan.base /\ applied.config = plan.config
      /\ applied.expired = plan.expired /\ applied.applied = TRUE
  BY <1>1
<1>4. expired = [base |-> expired.base, config |-> expired.config,
                 expired |-> expired.expired, applied |-> expired.applied]
  <2>1. expired = [x \in {"base", "config", "expired", "applied"} |-> expired[x]]
    BY <1>1
  <2> HIDE DEF expired
  <2> QED
    BY <2>1, PlanFields
<1>5. applied = [base |-> applied.base, config |-> applied.config,
                 expired |-> applied.expired, applied |-> applied.applied]
  <2>1. applied = [x \in {"base", "config", "expired", "applied"} |-> applied[x]]
    BY <1>1
  <2> HIDE DEF applied
  <2> QED
    BY <2>1, PlanFields
<1> HIDE DEF expired, applied
<1>6. IsPlan(expired)
  BY <1>2, <1>4 DEF IsPlan
<1>7. IsPlan(applied)
  BY <1>3, <1>5 DEF IsPlan
<1> QED
  BY <1>6, <1>7 DEF expired, applied

\* An accepted report leaves the store well typed.
LEMMA SyncType ==
    ASSUME TypeOK, NEW n \in Nodes, NEW said \in ObservationTypes, NEW vms, Sync(n, said, vms)
    PROVE  TypeOK'
<1> USE DEF TypeOK
<1>1. IsTable(instances', Requests, Instances)
  BY AfterReportType DEF Sync, IsTable
<1>2. IsTable(reports', Nodes, Reports)
  <2>1. [fresh |-> TRUE, said |-> said] \in Reports
    BY DEF Reports
  <2> QED
    BY <2>1, PutTable DEF Sync
<1>3. IsTable(demand', Pools, Demands)
  BY DEF Sync, IsTable, Demands
<1> QED
  BY <1>1, <1>2, <1>3 DEF Sync, configVars

\* A persisted message leaves the store well typed.
LEMMA MessageType ==
    ASSUME TypeOK, NEW p \in DOMAIN config.pools, NEW m \in MessageIds,
           NEW desired \in Nat, NEW events, NEW holdIntake \in BOOLEAN,
           PersistMessage(m, p, desired, events, holdIntake)
    PROVE  TypeOK'
<1> USE DEF TypeOK
<1>1. IsTable(instances', Requests, Instances)
  BY AfterEventType DEF PersistMessage, IsTable
<1>2. p \in Pools
  BY ConfigTypes
<1>3. Fenced(p) \in BOOLEAN
  BY DEF Fenced, IsTable, Demands
<1>4. [desired |-> desired, barrier |-> FALSE,
       intake |-> holdIntake \/ Fenced(p)] \in Demands
  BY <1>3 DEF Demands
<1>5. IsTable(demand', Pools, Demands)
  BY <1>2, <1>4, PutTable DEF PersistMessage
<1> QED
  BY <1>1, <1>5 DEF PersistMessage, configVars, nodeVars

\* Every transaction preserves the type invariant.
LEMMA TypeStep ==
    ASSUME TypeOK, [Next]_vars
    PROVE  TypeOK'
<1> USE DEF TypeOK
<1>1. ASSUME NEW id \in PlanIds, NEW c \in Submissions, Plan(id, c) PROVE TypeOK'
  <2>1. IsConfig(MergeConfig(config, c))
    BY InputTypes, MergeConfigType
  <2>2. IsPlan([base |-> revision, config |-> MergeConfig(config, c),
                expired |-> FALSE, applied |-> FALSE])
    BY <2>1 DEF IsPlan
  <2> QED
    BY <1>1, <2>2 DEF Plan, Put, nodeVars, demandVars
<1>2. ASSUME NEW id \in PlanIds, PlanExpires(id) PROVE TypeOK'
  <2>1. IsPlan([plans[id] EXCEPT !.expired = TRUE])
    BY <1>2, PlanUpdateType DEF PlanExpires
  <2> QED
    BY <1>2, <2>1 DEF PlanExpires, nodeVars, demandVars
<1>3. ASSUME NEW id \in PlanIds, Apply(id) PROVE TypeOK'
  <2>1. IsPlan([plans[id] EXCEPT !.applied = TRUE])
    BY <1>3, PlanUpdateType DEF Apply
  <2>2. IsConfig(config') /\ revision' \in Nat
    BY <1>3 DEF Apply, IsPlan
  <2> QED
    BY <1>3, <2>1, <2>2 DEF Apply, nodeVars, demandVars
<1>4. ASSUME NEW e \in Enrollments, Approve(e) PROVE TypeOK'
  <2>1. IsConfig(config')
    BY <1>4, JoinType DEF Approve
  <2>2. e.name \in Nodes
    BY InputTypes
  <2> QED
    BY <1>4, <2>1, <2>2 DEF Approve, nodeVars, demandVars
<1>5. ASSUME NEW n \in Drainable, NEW on \in BOOLEAN, Drain(n, on) PROVE TypeOK'
  BY <1>5, InputTypes DEF Drain, configVars, demandVars
<1>6. ASSUME NEW i \in Requests, NEW p \in Pools, Allocate(i, p) PROVE TypeOK'
  <2>1. IsTable(instances', Requests, Instances)
    BY <1>6, PlaceType DEF Allocate, InstanceStates
  <2> QED
    BY <1>6, <2>1 DEF Allocate, configVars, nodeVars, demandVars
<1>7. ASSUME NEW i \in Requests, NEW p \in Pools, Dispatch(i, p) PROVE TypeOK'
  <2>1. IsTable(instances', Requests, Instances)
    BY <1>7, PlaceType DEF Dispatch, InstanceStates
  <2> QED
    BY <1>7, <2>1 DEF Dispatch, configVars, nodeVars, demandVars
<1>8. ASSUME NEW i \in Requests, SetJIT(i) PROVE TypeOK'
  <2>1. i \in DOMAIN instances /\ instances[i] \in Instances
    BY <1>8 DEF SetJIT, IsTable
  <2>2. [instances[i] EXCEPT !.ready = TRUE, !.state = "Provisioning"] \in Instances
    BY <2>1 DEF Instances, InstanceStates
  <2>3. instances' = [instances EXCEPT
                         ![i] = [@ EXCEPT !.ready = TRUE, !.state = "Provisioning"]]
    BY <1>8, <2>1 DEF SetJIT
  <2>4. IsTable(instances', Requests, Instances)
    BY <2>2, <2>3 DEF IsTable
  <2> QED
    BY <1>8, <2>4 DEF SetJIT, configVars, nodeVars, demandVars
<1>9. ASSUME NEW i \in Requests, StopInstance(i) PROVE TypeOK'
  <2>1. IsTable(instances', Requests, Instances)
    BY <1>9 DEF StopInstance, IsTable, Instances, InstanceStates
  <2> QED
    BY <1>9, <2>1 DEF StopInstance, configVars, nodeVars, demandVars
<1>10. ASSUME NEW n \in Nodes, NEW said \in Observations,
              NEW vms \in [Live(n) -> ReportStates \cup {"none"}], Sync(n, said, vms)
       PROVE  TypeOK'
  BY <1>10, SyncType, InputTypes
<1>11. ASSUME NEW n \in Nodes, ReportAges(n) PROVE TypeOK'
  <2>1. IsTable(reports', Nodes, Reports)
    BY <1>11 DEF ReportAges, IsTable, Reports
  <2> QED
    BY <1>11, <2>1 DEF ReportAges, configVars, demandVars
<1>12. ASSUME NEW p \in DOMAIN config.pools, NEW m \in MessageIds,
              NEW desired \in 0 .. MaxDesired, NEW events \in EventBatches,
              NEW holdIntake \in BOOLEAN, PersistMessage(m, p, desired, events, holdIntake)
       PROVE  TypeOK'
  BY <1>12, MessageType, InputTypes
<1>13. ASSUME NEW p \in DOMAIN config.pools, NEW desired \in 0 .. MaxDesired,
              RefreshDemand(p, desired)
       PROVE  TypeOK'
  <2>1. p \in Pools /\ desired \in Nat
    BY ConfigTypes, InputTypes
  <2>2. Fenced(p) \in BOOLEAN
    BY DEF Fenced, IsTable, Demands
  <2>3. [desired |-> desired, barrier |-> FALSE, intake |-> Fenced(p)] \in Demands
    BY <2>1, <2>2 DEF Demands
  <2>4. IsTable(demand', Pools, Demands)
    BY <1>13, <2>1, <2>3, PutTable DEF RefreshDemand
  <2> QED
    BY <1>13, <2>4 DEF RefreshDemand, configVars, nodeVars
<1>14. ASSUME NEW p \in DOMAIN config.pools, NEW on \in BOOLEAN, SetIntakeFence(p, on)
       PROVE  TypeOK'
  <2>1. IsTable(demand', Pools, Demands)
    BY <1>14 DEF SetIntakeFence, IsTable, Demands
  <2> QED
    BY <1>14, <2>1 DEF SetIntakeFence, configVars, nodeVars
<1>15. CASE UNCHANGED vars
  BY <1>15 DEF vars, configVars, nodeVars, demandVars
<1> QED
  BY <1>1, <1>2, <1>3, <1>4, <1>5, <1>6, <1>7, <1>8, <1>9, <1>10, <1>11, <1>12,
     <1>13, <1>14, <1>15
     DEF Next, Administration, Placement, Progress, GitHubDemand

\* OpenStore's empty database is well typed.
LEMMA TypeInit ==
    ASSUME Init
    PROVE  TypeOK
BY DEF Init, TypeOK, Empty, NoConfig, IsConfig, IsTable

\* The store is always well typed: OpenStore's empty database is, and every
\* transaction keeps it so.
THEOREM TypeCorrect == Spec => []TypeOK
<1>1. Init => TypeOK
  BY TypeInit
<1>2. TypeOK /\ [Next]_vars => TypeOK'
  BY TypeStep
<1> QED
  BY <1>1, <1>2, PTL DEF Spec

-----------------------------------------------------------------------------
(* The inductive invariant.                                                *)

\* Instances sit on Nodes the configuration knows.
InstancesPlaced == \A i \in DOMAIN instances : instances[i].node \in DOMAIN config.nodes

\* A plan that could still be applied names everything the configuration does.
PlansGrow == \A id \in DOMAIN plans :
    /\ plans[id].base <= revision
    /\ plans[id].base = revision =>
          /\ DOMAIN config.nodes \subseteq DOMAIN plans[id].config.nodes
          /\ DOMAIN config.pools \subseteq DOMAIN plans[id].config.pools
          /\ DOMAIN config.reservations \subseteq DOMAIN plans[id].config.reservations

CapacityInv ==
    /\ InstancesPlaced
    /\ ReservationsAgree
    /\ HeldPoolsUnchanged
    /\ PoolWithinLimit
    /\ NodeWithinBudget

IInv == TypeOK /\ Valid(config) /\ PlansGrow /\ CapacityInv

\* The store's table is one the lemmas about Committed speak of.
LEMMA StoreAccounted ==
    ASSUME TypeOK
    PROVE  IsConfig(config) /\ Accounted(instances)
<1>1. IsConfig(config)
  BY DEF TypeOK
<1>2. DOMAIN instances \subseteq Requests /\ \A i \in DOMAIN instances : instances[i] \in Instances
  BY DEF TypeOK, IsTable
<1>3. IsFiniteSet(Requests)
  BY RequestsAreFinite
<1> QED
  BY <1>1, <1>2, <1>3, FS_Subset DEF Accounted, Instances

\* A transaction that only lets instances give back resources keeps CapacityInv.
LEMMA CapacityKept ==
    ASSUME TypeOK, TypeOK', CapacityInv, config' = config,
           Shrinks(instances, instances'),
           \A i \in DOMAIN instances : /\ instances'[i].charge = instances[i].charge
                                       /\ instances'[i].image = instances[i].image
                                       /\ instances'[i].task = instances[i].task
    PROVE  CapacityInv'
<1>1. IsConfig(config) /\ Accounted(instances)
  BY StoreAccounted
<1>2. Accounted(instances')
  <2>1. DOMAIN instances' = DOMAIN instances
    BY DEF Shrinks
  <2>2. \A i \in DOMAIN instances' : instances'[i] \in Instances
    BY DEF TypeOK, IsTable
  <2> QED
    BY <1>1, <2>1, <2>2 DEF Accounted, Instances
<1>3. InstancesPlaced'
  BY DEF CapacityInv, InstancesPlaced, Shrinks
<1>4. ReservationsAgree'
  BY <1>1, <1>2, AgreementShrinks DEF CapacityInv, ReservationsAgree
<1>5. HeldPoolsUnchanged'
  <2> SUFFICES ASSUME NEW i \in DOMAIN instances, Holds(instances'[i])
               PROVE  PoolKept(config, instances'[i])
    BY DEF HeldPoolsUnchanged, Shrinks
  <2>1. PoolKept(config, instances[i])
    BY <1>1, <1>2, HoldersShrink DEF CapacityInv, HeldPoolsUnchanged
  <2> QED
    BY <2>1 DEF PoolKept, Shrinks
<1>6. PoolWithinLimit'
  BY <1>1, <1>2, LimitShrinks DEF CapacityInv, PoolWithinLimit
<1>7. NodeWithinBudget'
  <2> SUFFICES ASSUME NEW n \in DOMAIN config.nodes, NEW d \in Dims
               PROVE  Committed(config, instances', n, d) <= config.nodes[n].budget[d]
    BY DEF NodeWithinBudget, WithinBudget
  <2>1. AgreeOn(config, instances, n) /\ AgreeOn(config, instances', n)
    BY <1>4 DEF CapacityInv, ReservationsAgree, AgreeOn, ReservationsOn
  <2>2. Committed(config, instances', n, d) <= Committed(config, instances, n, d)
    BY <1>1, <1>2, <2>1, CommittedShrinks
  <2>3. Committed(config, instances, n, d) <= config.nodes[n].budget[d]
    BY DEF CapacityInv, NodeWithinBudget, WithinBudget
  <2>4. /\ Committed(config, instances, n, d) \in Nat
        /\ Committed(config, instances', n, d) \in Nat
    BY <1>1, <1>2, <2>1, CommittedSplit
  <2>5. config.nodes[n].budget[d] \in Nat
    BY <1>1, ConfigTypes DEF NodeConfigs, Resources
  <2> QED
    BY <2>2, <2>3, <2>4, <2>5
<1> QED
  BY <1>3, <1>4, <1>5, <1>6, <1>7 DEF CapacityInv

\* What placeTx stores is a new row in a free slot of its own, or in none.
LEMMA PlaceAdds ==
    ASSUME TypeOK, Valid(config), NEW i, i \notin DOMAIN instances,
           NEW p \in DOMAIN config.pools, NEW s, Place(i, p, s)
    PROVE  \E n \in Candidates(p) : \E r \in SlotsFor(p, n) :
              Adds(config, instances, instances', i, NewInstance(n, p, s, r))
<1>1. PICK n \in Candidates(p) : \E r \in SlotsFor(p, n) :
        instances' = Put(instances, i, NewInstance(n, p, s, r))
  BY DEF Place
<1>2. PICK r \in SlotsFor(p, n) :
        instances' = Put(instances, i, NewInstance(n, p, s, r))
  BY <1>1
<1> DEFINE a == NewInstance(n, p, s, r)
<1>3. /\ a.node = n /\ a.pool = p /\ a.reservation = r
      /\ a.held = config.pools[p].charge
  BY DEF NewInstance
<1>4. a.held \in Resources
  BY <1>3, StoreAccounted, ConfigTypes DEF PoolConfigs
<1>5. Holds(a)
  <2>1. a.held["cpu"] > 0
    BY <1>3 DEF Valid, ValidPools, Dims
  <2>2. Nothing["cpu"] = 0
    BY DEF Nothing, Dims
  <2>3. a.held # Nothing
    BY <1>4, <2>1, <2>2 DEF Resources, Dims
  <2> QED
    BY <2>3 DEF Holds
<1>6. a.reservation # NoReservation =>
        /\ a.reservation \in DOMAIN config.reservations
        /\ config.reservations[a.reservation].node = a.node
        /\ config.reservations[a.reservation].pool = a.pool
        /\ a.pool \in DOMAIN config.pools
        /\ Fits(a.held, config.pools[a.pool].charge)
        /\ FreeSlots(config, instances, a.reservation) > 0
  <2>1. Fits(a.held, config.pools[p].charge)
    BY <1>3, <1>4 DEF Fits, Resources
  <2> HIDE DEF a
  <2> QED
    BY <1>3, <2>1 DEF SlotsFor, OwnReservations, ReservationsOn
<1> HIDE DEF a
<1>7. Adds(config, instances, instances', i, a)
  BY <1>2, <1>4, <1>5, <1>6 DEF Adds, a
<1> QED
  BY <1>7 DEF a

\* A placement keeps CapacityInv: what PoolOpen and HasBudget ask is enough.
LEMMA CapacityPlaced ==
    ASSUME TypeOK, Valid(config), CapacityInv, config' = config,
           NEW i, i \notin DOMAIN instances,
           NEW p \in DOMAIN config.pools, NEW s, Place(i, p, s)
    PROVE  CapacityInv'
<1>1. PICK n \in Candidates(p) : \E r \in SlotsFor(p, n) :
        Adds(config, instances, instances', i, NewInstance(n, p, s, r))
  BY PlaceAdds
<1>2. PICK r \in SlotsFor(p, n) :
        Adds(config, instances, instances', i, NewInstance(n, p, s, r))
  BY <1>1
<1> DEFINE a == NewInstance(n, p, s, r)
<1>3. /\ a.node = n /\ a.pool = p /\ a.reservation = r
      /\ a.held = config.pools[p].charge
      /\ a.charge = config.pools[p].charge
      /\ a.image = config.images[config.pools[p].image]
      /\ a.task = config.pools[p].tasks
  BY DEF NewInstance
<1>4. Adds(config, instances, instances', i, a)
  BY <1>2
<1> HIDE DEF a
<1>5. IsConfig(config) /\ Accounted(instances)
  BY StoreAccounted
<1>6. Grown(instances, instances', i, a) /\ Accounted(instances')
  BY <1>4, <1>5, RowsAdded
<1>7. n \in DOMAIN config.nodes /\ Admissible(p, n)
  BY DEF Candidates
<1>8. InstancesPlaced'
  BY <1>3, <1>6, <1>7 DEF CapacityInv, InstancesPlaced, Grown
<1>9. ReservationsAgree'
  BY <1>4, <1>5, AgreementAdds DEF CapacityInv, ReservationsAgree
<1>10. HeldPoolsUnchanged'
  BY <1>3, <1>6 DEF CapacityInv, HeldPoolsUnchanged, PoolKept, Grown
<1>11. PoolWithinLimit'
  <2> SUFFICES ASSUME NEW q \in DOMAIN config.pools
               PROVE  WithinLimit(config, instances', q)
    BY DEF PoolWithinLimit
  <2>1. WithinLimit(config, instances, q)
    BY DEF CapacityInv, PoolWithinLimit
  <2>2. q = a.pool => Cardinality(RunnersOf(instances, q)) < config.pools[q].maxRunners
    BY <1>3, <1>7 DEF Admissible, PoolOpen
  <2> QED
    BY <1>4, <1>5, <2>1, <2>2, LimitAdds
<1>12. NodeWithinBudget'
  <2> SUFFICES ASSUME NEW m \in DOMAIN config.nodes, NEW d \in Dims
               PROVE  Committed(config, instances', m, d) <= config.nodes[m].budget[d]
    BY DEF NodeWithinBudget, WithinBudget
  <2>1. AgreeOn(config, instances, m)
    BY DEF CapacityInv, ReservationsAgree, AgreeOn, ReservationsOn
  <2>2. Committed(config, instances', m, d) =
          Committed(config, instances, m, d)
            + (IF m = a.node /\ a.reservation = NoReservation THEN a.held[d] ELSE 0)
    BY <1>4, <1>5, <2>1, CommittedAdds
  <2>3. /\ Committed(config, instances, m, d) \in Nat
        /\ config.nodes[m].budget[d] \in Nat
        /\ Committed(config, instances, m, d) <= config.nodes[m].budget[d]
    BY <1>5, <2>1, CommittedSplit, ConfigTypes
       DEF NodeConfigs, Resources, CapacityInv, NodeWithinBudget, WithinBudget
  <2>4. CASE m = n /\ r = NoReservation
    <3>1. OwnReservations(p, n) = {}
      <4>1. NoReservation \notin DOMAIN config.reservations
        BY <1>5, AbsentNames DEF IsConfig, IsTable
      <4> QED
        BY <2>4, <4>1 DEF SlotsFor, OwnReservations, ReservationsOn
    <3>2. config.pools[p].charge[d] <=
            config.nodes[n].budget[d] - Committed(config, instances, n, d) + 0
      BY <1>7, <3>1 DEF Admissible, HasBudget, Available, Lent
    <3>3. config.pools[p].charge[d] \in Nat
      BY <1>5, ConfigTypes DEF PoolConfigs, Resources
    <3> QED
      BY <1>3, <2>2, <2>3, <2>4, <3>2, <3>3
  <2>5. CASE ~(m = n /\ r = NoReservation)
    BY <1>3, <2>2, <2>3, <2>5
  <2> QED
    BY <2>4, <2>5
<1> QED
  BY <1>8, <1>9, <1>10, <1>11, <1>12 DEF CapacityInv

\* checkCapacityUpdate is what Apply needs, for a plan that names every Node.
LEMMA CapacityApplied ==
    ASSUME TypeOK, PlansGrow, CapacityInv, NEW id \in PlanIds, Apply(id)
    PROVE  CapacityInv'
<1> DEFINE c == plans[id].config
<1>1. /\ id \in DOMAIN plans
      /\ plans[id].base = revision
      /\ Valid(c)
      /\ CapacityUpdateOK(c, instances)
      /\ config' = c
      /\ instances' = instances
  BY DEF Apply, MadeAtThisRevision
<1> HIDE DEF c
<1>2. DOMAIN config.nodes \subseteq DOMAIN c.nodes
  BY <1>1 DEF PlansGrow, c
<1>3. \A i \in DOMAIN instances : instances[i].node \in DOMAIN c.nodes
  BY <1>2 DEF CapacityInv, InstancesPlaced
<1>4. \A r \in DOMAIN c.reservations : ReservationAgrees(c, instances, r)
  <2> TAKE r \in DOMAIN c.reservations
  <2>1. c.reservations[r].node \in DOMAIN c.nodes
    BY <1>1 DEF Valid, ValidReservations
  <2> QED
    BY <1>1, <2>1 DEF CapacityUpdateOK, ReservationsOn
<1>5. \A i \in DOMAIN instances : Holds(instances[i]) => PoolKept(c, instances[i])
  BY <1>1, <1>3 DEF CapacityUpdateOK, On
<1> QED
  BY <1>1, <1>3, <1>4, <1>5
     DEF CapacityInv, InstancesPlaced, ReservationsAgree, HeldPoolsUnchanged,
         PoolWithinLimit, NodeWithinBudget, CapacityUpdateOK

\* What a Node is committed to depends on the Pools and reservations alone.
LEMMA CommittedSame ==
    ASSUME NEW c, NEW k, k.pools = c.pools, k.reservations = c.reservations,
           NEW runs, NEW n, NEW d
    PROVE  Committed(k, runs, n, d) = Committed(c, runs, n, d)
<1>1. \A r : Protected(k, runs, r, d) = Protected(c, runs, r, d)
  BY DEF Protected
<1>2. ReservationsOn(k, n) = ReservationsOn(c, n)
  BY DEF ReservationsOn
<1>3. Total(ReservationsOn(c, n),
            [r \in ReservationsOn(c, n) |-> Protected(k, runs, r, d)])
        = Total(ReservationsOn(c, n),
                [r \in ReservationsOn(c, n) |-> Protected(c, runs, r, d)])
  BY <1>1, TotalCongruence
<1>4. UnusedOn(k, runs, n, d) = UnusedOn(c, runs, n, d)
  BY <1>2, <1>3 DEF UnusedOn
<1> QED
  BY <1>4 DEF Committed

\* A Node that joins brings its budget and owes nothing yet.
LEMMA CapacityJoined ==
    ASSUME TypeOK, Valid(config), CapacityInv, NEW e \in Enrollments, Approve(e),
           e.name \notin DOMAIN config.nodes
    PROVE  CapacityInv'
<1>1. /\ config'.nodes = Put(config.nodes, e.name, JoiningNode(e))
      /\ config'.pools = config.pools
      /\ config'.images = config.images
      /\ config'.reservations = config.reservations
      /\ IsConfig(config')
      /\ instances' = instances
  BY JoinType DEF Approve
<1>2. /\ DOMAIN config'.nodes = DOMAIN config.nodes \cup {e.name}
      /\ \A n \in DOMAIN config.nodes : config'.nodes[n] = config.nodes[n]
  BY <1>1 DEF Put
<1>3. InstancesPlaced'
  BY <1>1, <1>2 DEF CapacityInv, InstancesPlaced
<1>4. ReservationsAgree'
  <2>1. OwnersAgree(config', instances)
    BY <1>1 DEF CapacityInv, ReservationsAgree, OwnersAgree
  <2>2. \A r \in DOMAIN config.reservations : ReservationAgrees(config', instances, r)
    BY <1>1 DEF CapacityInv, ReservationsAgree, ReservationAgrees
  <2> QED
    BY <1>1, <2>1, <2>2 DEF ReservationsAgree
<1>5. HeldPoolsUnchanged'
  BY <1>1 DEF CapacityInv, HeldPoolsUnchanged, PoolKept
<1>6. PoolWithinLimit'
  BY <1>1 DEF CapacityInv, PoolWithinLimit, WithinLimit
<1>7. NodeWithinBudget'
  <2> SUFFICES ASSUME NEW n \in DOMAIN config'.nodes, NEW d \in Dims
               PROVE  Committed(config', instances, n, d) <= config'.nodes[n].budget[d]
    BY <1>1 DEF NodeWithinBudget, WithinBudget
  <2>1. Committed(config', instances, n, d) = Committed(config, instances, n, d)
    BY <1>1, CommittedSame
  <2>2. CASE n \in DOMAIN config.nodes
    BY <1>2, <2>1, <2>2 DEF CapacityInv, NodeWithinBudget, WithinBudget
  <2>3. CASE n \notin DOMAIN config.nodes
    <3>1. On(instances, n) = {}
      BY <2>3 DEF On, CapacityInv, InstancesPlaced
    <3>2. ReservationsOn(config, n) = {}
      BY <2>3 DEF ReservationsOn, Valid, ValidReservations
    <3>3. HeldBy(instances, On(instances, n), d) = 0
      BY <3>1, TotalEmpty DEF HeldBy
    <3>4. UnusedOn(config, instances, n, d) = 0
      BY <3>2, TotalEmpty DEF UnusedOn
    <3>5. config'.nodes[n].budget[d] \in Nat
      BY <1>1, ConfigTypes DEF NodeConfigs, Resources
    <3> QED
      BY <2>1, <3>3, <3>4, <3>5 DEF Committed
  <2> QED
    BY <2>2, <2>3
<1> QED
  BY <1>3, <1>4, <1>5, <1>6, <1>7 DEF CapacityInv

\* The handlers that rewrite rows only give resources back.
KeepsRow(a, b) ==
    /\ b.node = a.node /\ b.pool = a.pool /\ b.reservation = a.reservation
    /\ b.charge = a.charge /\ b.image = a.image /\ b.task = a.task
    /\ Fits(b.held, a.held)

\* No report, event, JIT delivery or stop enlarges what an instance holds or
\* changes the Pool it was placed in.
LEMMA RowsKept ==
    ASSUME NEW a \in Instances
    PROVE  /\ KeepsRow(a, a)
           /\ \A report : KeepsRow(a, AfterReport(a, report))
           /\ \A event : KeepsRow(a, AfterEvent(a, event))
           /\ KeepsRow(a, [a EXCEPT !.ready = TRUE, !.state = "Provisioning"])
           /\ KeepsRow(a, [a EXCEPT !.state = "Stopping"])
<1>1. a.held \in Resources
  BY DEF Instances
<1>2. /\ Fits(a.held, a.held)
      /\ Fits(PoweredOff(a.held), a.held)
      /\ Fits(Nothing, a.held)
  BY <1>1 DEF Fits, Resources, PoweredOff, Nothing, Dims
<1>3. KeepsRow(a, a)
  BY <1>2 DEF KeepsRow
<1>4. KeepsRow(a, [a EXCEPT !.state = "Idle"])
  BY <1>2 DEF KeepsRow, Instances
<1>5. KeepsRow(a, [a EXCEPT !.state = "Deleting", !.held = PoweredOff(@)])
  BY <1>2 DEF KeepsRow, Instances
<1>6. KeepsRow(a, [a EXCEPT !.state = "Deleted", !.held = Nothing])
  BY <1>2 DEF KeepsRow, Instances
<1>7. KeepsRow(a, [a EXCEPT !.state = "Stopping"])
  BY <1>2 DEF KeepsRow, Instances
<1>8. KeepsRow(a, [a EXCEPT !.ready = TRUE, !.state = "Provisioning"])
  BY <1>2 DEF KeepsRow, Instances
<1>9. \A report : KeepsRow(a, AfterReport(a, report))
  BY <1>3, <1>4, <1>5, <1>6, <1>7 DEF AfterReport
<1>10. \A event : KeepsRow(a, AfterEvent(a, event))
  <2>1. KeepsRow(a, [a EXCEPT !.result = TRUE])
    BY <1>2 DEF KeepsRow, Instances
  <2>2. KeepsRow(a, [a EXCEPT !.state = "Busy"])
    BY <1>2 DEF KeepsRow, Instances
  <2> QED
    BY <1>3, <2>1, <2>2 DEF AfterEvent
<1> QED
  BY <1>3, <1>7, <1>8, <1>9, <1>10

\* Rewriting rows that all keep their identity keeps CapacityInv.
LEMMA CapacityRewritten ==
    ASSUME TypeOK, TypeOK', CapacityInv, config' = config,
           DOMAIN instances' = DOMAIN instances,
           \A i \in DOMAIN instances : KeepsRow(instances[i], instances'[i])
    PROVE  CapacityInv'
<1>1. Shrinks(instances, instances')
  BY DEF Shrinks, KeepsRow
<1> QED
  BY <1>1, CapacityKept DEF KeepsRow

\* Expiry and application leave what a plan says.
LEMMA PlanRest ==
    ASSUME NEW plan, IsPlan(plan)
    PROVE  /\ [plan EXCEPT !.expired = TRUE].base = plan.base
           /\ [plan EXCEPT !.expired = TRUE].config = plan.config
           /\ [plan EXCEPT !.applied = TRUE].base = plan.base
           /\ [plan EXCEPT !.applied = TRUE].config = plan.config
<1>1. "base" \in DOMAIN plan /\ "config" \in DOMAIN plan
  <2>1. plan = [base |-> plan.base, config |-> plan.config,
                expired |-> plan.expired, applied |-> plan.applied]
    BY DEF IsPlan
  <2>2. \A b, c, x, y :
           /\ "base" \in DOMAIN [base |-> b, config |-> c, expired |-> x, applied |-> y]
           /\ "config" \in DOMAIN [base |-> b, config |-> c, expired |-> x, applied |-> y]
    OBVIOUS
  <2> QED
    BY <2>1, <2>2, Zenon
<1> QED
  BY <1>1

\* The inductive invariant holds of the empty database.
LEMMA InvInit ==
    ASSUME Init
    PROVE  IInv
<1>1. TypeOK
  BY TypeInit
<1>2. DOMAIN Empty = {}
  BY DEF Empty
<1>3. Valid(config)
  <2>1. /\ DOMAIN config.nodes = {} /\ DOMAIN config.pools = {}
        /\ DOMAIN config.reservations = {}
    BY <1>2 DEF Init, NoConfig
  <2> QED
    BY <2>1 DEF Valid, ValidNodes, ValidPools, ValidReservations
<1>4. PlansGrow
  BY <1>2 DEF Init, PlansGrow
<1>5. CapacityInv
  BY <1>2 DEF Init, NoConfig, CapacityInv, InstancesPlaced, ReservationsAgree, OwnersAgree,
              HeldPoolsUnchanged, PoolWithinLimit, NodeWithinBudget
<1> QED
  BY <1>1, <1>3, <1>4, <1>5 DEF IInv

\* A transaction that leaves configuration and plans alone and lets instances
\* only give resources back.
LEMMA Rewritten ==
    ASSUME IInv, TypeOK', config' = config, revision' = revision, plans' = plans,
           DOMAIN instances' = DOMAIN instances,
           \A j \in DOMAIN instances : KeepsRow(instances[j], instances'[j])
    PROVE  IInv'
<1>1. CapacityInv'
  BY CapacityRewritten DEF IInv
<1> QED
  BY <1>1 DEF IInv, PlansGrow

\* Every transaction preserves the inductive invariant.
LEMMA InvStep ==
    ASSUME IInv, [Next]_vars
    PROVE  IInv'
<1>0. TypeOK'
  BY TypeStep DEF IInv
<1>a. \A j \in DOMAIN instances : instances[j] \in Instances /\ KeepsRow(instances[j], instances[j])
  BY RowsKept DEF IInv, TypeOK, IsTable
<1>1. ASSUME NEW id \in PlanIds, NEW c \in Submissions, Plan(id, c) PROVE IInv'
  <2>1. /\ DOMAIN config.nodes \subseteq DOMAIN MergeConfig(config, c).nodes
        /\ DOMAIN config.pools \subseteq DOMAIN MergeConfig(config, c).pools
        /\ DOMAIN config.reservations \subseteq DOMAIN MergeConfig(config, c).reservations
    BY DEF MergeConfig, Override
  <2>2. config' = config /\ revision' = revision /\ instances' = instances
    BY <1>1 DEF Plan
  <2>3. PlansGrow'
    <3>1. revision \in Nat
      BY DEF IInv, TypeOK
    <3> QED
      BY <1>1, <2>1, <2>2, <3>1 DEF IInv, PlansGrow, Plan, Put
  <2>4. CapacityInv'
    BY <1>0, <1>a, <2>2, CapacityRewritten DEF IInv
  <2> QED
    BY <1>0, <2>2, <2>3, <2>4 DEF IInv
<1>2. ASSUME NEW id \in PlanIds, PlanExpires(id) PROVE IInv'
  <2>1. config' = config /\ revision' = revision /\ instances' = instances
    BY <1>2 DEF PlanExpires
  <2>2. PlansGrow'
    BY <1>2, <2>1, PlanRest DEF IInv, TypeOK, PlansGrow, PlanExpires
  <2>3. CapacityInv'
    BY <1>0, <1>a, <2>1, CapacityRewritten DEF IInv
  <2> QED
    BY <1>0, <2>1, <2>2, <2>3 DEF IInv
<1>3. ASSUME NEW id \in PlanIds, Apply(id) PROVE IInv'
  <2>1. CapacityInv'
    BY <1>3, CapacityApplied DEF IInv
  <2>2. Valid(config')
    BY <1>3 DEF Apply
  <2>3. \A k \in DOMAIN plans : /\ plans'[k].base = plans[k].base
                                /\ plans'[k].config = plans[k].config
    BY <1>3, PlanRest DEF Apply, IInv, TypeOK
  <2>4. PlansGrow'
    <3>1. DOMAIN plans' = DOMAIN plans
      BY <1>3 DEF Apply
    <3>2. \A k \in DOMAIN plans : plans[k].base \in Nat /\ plans[k].base <= revision
      BY DEF IInv, TypeOK, IsPlan, PlansGrow
    <3>3. revision \in Nat
      BY DEF IInv, TypeOK
    <3>4. CASE plans[id].config = config
      BY <1>3, <2>3, <3>1, <3>4 DEF Apply, IInv, PlansGrow
    <3>5. CASE plans[id].config # config
      <4>1. revision' = revision + 1
        BY <1>3, <3>5 DEF Apply
      <4> QED
        BY <2>3, <3>1, <3>2, <3>3, <4>1 DEF PlansGrow
    <3> QED
      BY <3>4, <3>5
  <2> QED
    BY <1>0, <2>1, <2>2, <2>4 DEF IInv
<1>4. ASSUME NEW e \in Enrollments, Approve(e) PROVE IInv'
  <2>1. Valid(config') /\ plans' = plans /\ instances' = instances /\ revision' = revision + 1
    BY <1>4 DEF Approve
  <2>2. PlansGrow'
    <3>1. \A k \in DOMAIN plans : plans[k].base \in Nat /\ plans[k].base <= revision
      BY DEF IInv, TypeOK, IsPlan, PlansGrow
    <3>2. revision \in Nat
      BY DEF IInv, TypeOK
    <3> QED
      BY <2>1, <3>1, <3>2 DEF PlansGrow
  <2>3. CapacityInv'
    <3>1. CASE e.name \in DOMAIN config.nodes
      <4>1. config' = config
        BY <1>4, <3>1 DEF Approve
      <4> QED
        BY <1>0, <1>a, <2>1, <4>1, CapacityRewritten DEF IInv
    <3>2. CASE e.name \notin DOMAIN config.nodes
      BY <1>4, <3>2, CapacityJoined DEF IInv
    <3> QED
      BY <3>1, <3>2
  <2> QED
    BY <1>0, <2>1, <2>2, <2>3 DEF IInv
<1>5. ASSUME NEW n \in Drainable, NEW on \in BOOLEAN, Drain(n, on) PROVE IInv'
  <2>1. /\ config' = config /\ revision' = revision /\ plans' = plans
        /\ DOMAIN instances' = DOMAIN instances
        /\ \A j \in DOMAIN instances : KeepsRow(instances[j], instances'[j])
    BY <1>5, <1>a DEF Drain, configVars
  <2> QED
    BY <1>0, <2>1, Rewritten
<1>6. ASSUME NEW i \in Requests, NEW p \in Pools, Allocate(i, p) PROVE IInv'
  <2>1. config' = config /\ revision' = revision /\ plans' = plans
    BY <1>6 DEF Allocate, configVars
  <2>2. CapacityInv'
    BY <1>6, <2>1, CapacityPlaced DEF Allocate, IInv
  <2> QED
    BY <1>0, <2>1, <2>2 DEF IInv, PlansGrow
<1>7. ASSUME NEW i \in Requests, NEW p \in Pools, Dispatch(i, p) PROVE IInv'
  <2>1. config' = config /\ revision' = revision /\ plans' = plans
    BY <1>7 DEF Dispatch, configVars
  <2>2. CapacityInv'
    BY <1>7, <2>1, CapacityPlaced DEF Dispatch, IInv
  <2> QED
    BY <1>0, <2>1, <2>2 DEF IInv, PlansGrow
<1>8. ASSUME NEW i \in Requests, SetJIT(i) PROVE IInv'
  <2>1. i \in DOMAIN instances /\ DOMAIN instances' = DOMAIN instances
    BY <1>8 DEF SetJIT
  <2>2. instances'[i] = [instances[i] EXCEPT !.ready = TRUE, !.state = "Provisioning"]
    BY <1>8, <1>a, <2>1 DEF SetJIT
  <2>3. KeepsRow(instances[i], instances'[i])
    BY <1>a, <2>1, <2>2, RowsKept
  <2>4. \A j \in DOMAIN instances : j # i => instances'[j] = instances[j]
    BY <1>8 DEF SetJIT
  <2>5. \A j \in DOMAIN instances : KeepsRow(instances[j], instances'[j])
    BY <1>a, <2>3, <2>4
  <2>6. config' = config /\ revision' = revision /\ plans' = plans
    BY <1>8 DEF SetJIT, configVars
  <2> QED
    BY <1>0, <2>1, <2>5, <2>6, Rewritten
<1>9. ASSUME NEW i \in Requests, StopInstance(i) PROVE IInv'
  <2>1. /\ config' = config /\ revision' = revision /\ plans' = plans
        /\ DOMAIN instances' = DOMAIN instances
        /\ \A j \in DOMAIN instances : KeepsRow(instances[j], instances'[j])
    BY <1>9, <1>a, RowsKept DEF StopInstance, configVars
  <2> QED
    BY <1>0, <2>1, Rewritten
<1>10. ASSUME NEW n \in Nodes, NEW said \in Observations,
              NEW vms \in [Live(n) -> ReportStates \cup {"none"}], Sync(n, said, vms)
       PROVE  IInv'
  <2>1. /\ config' = config /\ revision' = revision /\ plans' = plans
        /\ DOMAIN instances' = DOMAIN instances
        /\ \A j \in DOMAIN instances : KeepsRow(instances[j], instances'[j])
    BY <1>10, <1>a, RowsKept DEF Sync, configVars
  <2> QED
    BY <1>0, <2>1, Rewritten
<1>11. ASSUME NEW n \in Nodes, ReportAges(n) PROVE IInv'
  <2>1. /\ config' = config /\ revision' = revision /\ plans' = plans
        /\ DOMAIN instances' = DOMAIN instances
        /\ \A j \in DOMAIN instances : KeepsRow(instances[j], instances'[j])
    BY <1>11, <1>a DEF ReportAges, configVars
  <2> QED
    BY <1>0, <2>1, Rewritten
<1>12. ASSUME NEW p \in DOMAIN config.pools, NEW m \in MessageIds,
              NEW desired \in 0 .. MaxDesired, NEW events \in EventBatches,
              NEW holdIntake \in BOOLEAN, PersistMessage(m, p, desired, events, holdIntake)
       PROVE  IInv'
  <2>1. /\ config' = config /\ revision' = revision /\ plans' = plans
        /\ DOMAIN instances' = DOMAIN instances
        /\ \A j \in DOMAIN instances : KeepsRow(instances[j], instances'[j])
    BY <1>12, <1>a, RowsKept DEF PersistMessage, configVars
  <2> QED
    BY <1>0, <2>1, Rewritten
<1>13. ASSUME NEW p \in DOMAIN config.pools, NEW desired \in 0 .. MaxDesired,
              RefreshDemand(p, desired)
       PROVE  IInv'
  <2>1. /\ config' = config /\ revision' = revision /\ plans' = plans
        /\ DOMAIN instances' = DOMAIN instances
        /\ \A j \in DOMAIN instances : KeepsRow(instances[j], instances'[j])
    BY <1>13, <1>a DEF RefreshDemand, configVars
  <2> QED
    BY <1>0, <2>1, Rewritten
<1>14. ASSUME NEW p \in DOMAIN config.pools, NEW on \in BOOLEAN, SetIntakeFence(p, on)
       PROVE  IInv'
  <2>1. /\ config' = config /\ revision' = revision /\ plans' = plans
        /\ DOMAIN instances' = DOMAIN instances
        /\ \A j \in DOMAIN instances : KeepsRow(instances[j], instances'[j])
    BY <1>14, <1>a DEF SetIntakeFence, configVars
  <2> QED
    BY <1>0, <2>1, Rewritten
<1>15. CASE UNCHANGED vars
  <2>1. /\ config' = config /\ revision' = revision /\ plans' = plans
        /\ DOMAIN instances' = DOMAIN instances
        /\ \A j \in DOMAIN instances : KeepsRow(instances[j], instances'[j])
    BY <1>15, <1>a DEF vars, configVars
  <2> QED
    BY <1>0, <2>1, Rewritten
<1> QED
  BY <1>1, <1>2, <1>3, <1>4, <1>5, <1>6, <1>7, <1>8, <1>9, <1>10, <1>11, <1>12,
     <1>13, <1>14, <1>15
     DEF Next, Administration, Placement, Progress, GitHubDemand

\* Every transaction preserves the inductive invariant.
LEMMA Invariant == Spec => []IInv
<1>1. Init => IInv
  BY InvInit
<1>2. IInv /\ [Next]_vars => IInv'
  BY InvStep
<1> QED
  BY <1>1, <1>2, PTL DEF Spec

-----------------------------------------------------------------------------
(* The theorems.                                                           *)

\* No Node owes more than its budget, whatever the interleaving of placement,
\* release, configuration changes and enrolment.
THEOREM BudgetKept == Spec => []NodeWithinBudget
<1>1. IInv => NodeWithinBudget
  BY DEF IInv, CapacityInv
<1> QED
  BY <1>1, Invariant, PTL

\* No Pool runs more than maxRunners instances.
THEOREM LimitKept == Spec => []PoolWithinLimit
<1>1. IInv => PoolWithinLimit
  BY DEF IInv, CapacityInv
<1> QED
  BY <1>1, Invariant, PTL

\* The instance table never contradicts the reservations, so placement is
\* never refused for RESERVATION_INCONSISTENT.
THEOREM ReservationsConsistent == Spec => []ReservationsAgree
<1>1. IInv => ReservationsAgree
  BY DEF IInv, CapacityInv
<1> QED
  BY <1>1, Invariant, PTL

\* A Pool in use keeps the size, image and kind its instances were placed with.
THEOREM PoolsKept == Spec => []HeldPoolsUnchanged
<1>1. IInv => HeldPoolsUnchanged
  BY DEF IInv, CapacityInv
<1> QED
  BY <1>1, Invariant, PTL

\* Every reservation's free slots fit on its Node at any moment.
THEOREM ReservationsDeliverable == Spec => []ReservationDeliverable
<1>1. ASSUME IInv PROVE ReservationDeliverable
  <2> SUFFICES ASSUME NEW r \in DOMAIN config.reservations, NEW d \in Dims
               PROVE  HeldBy(instances, On(instances, config.reservations[r].node), d)
                        + FreeSlots(config, instances, r)
                            * config.pools[config.reservations[r].pool].charge[d]
                      <= config.nodes[config.reservations[r].node].budget[d]
    BY DEF ReservationDeliverable
  <2> DEFINE n == config.reservations[r].node
             free == FreeSlots(config, instances, r)
                       * config.pools[config.reservations[r].pool].charge[d]
             R == ReservationsOn(config, n)
             prot == [q \in R |-> Protected(config, instances, q, d)]
  <2>1. IsConfig(config) /\ Accounted(instances)
    BY <1>1, StoreAccounted DEF IInv
  <2>2. AgreeOn(config, instances, n)
    BY <1>1 DEF IInv, CapacityInv, ReservationsAgree, AgreeOn, ReservationsOn
  <2>3. r \in R /\ IsFiniteSet(R) /\ R \subseteq DOMAIN config.reservations
    BY <2>1, ConfigTypes, FS_Subset DEF ReservationsOn
  <2>4. \A q \in R : prot[q] \in Nat
    BY <2>1, <2>2, <2>3, ProtectedCoversFree DEF AgreeOn
  <2>5. free <= prot[r] /\ free \in Nat
    <3>1. /\ FreeSlots(config, instances, r) \in Nat
          /\ config.pools[config.reservations[r].pool].charge[d] \in Nat
          /\ free <= Protected(config, instances, r, d)
      BY <2>1, <2>2, <2>3, ProtectedCoversFree DEF AgreeOn
    <3> QED
      BY <2>3, <3>1
  <2>6. prot[r] <= Total(R, prot)
    <3>1. Total(R, prot) = prot[r] + Total(R \ {r}, prot)
      <4> HIDE DEF R, prot
      <4> QED
        BY <2>3, <2>4, TotalSplit
    <3>2. Total(R \ {r}, prot) \in Nat
      <4>1. IsFiniteSet(R \ {r}) /\ \A q \in R \ {r} : prot[q] \in Nat
        BY <2>3, <2>4, FS_RemoveElement
      <4> HIDE DEF R, prot
      <4> QED
        BY <4>1, TotalType
    <3> HIDE DEF R, prot
    <3> QED
      BY <2>3, <2>4, <3>1, <3>2
  <2>7. Total(R, prot) = UnusedOn(config, instances, n, d)
    BY DEF UnusedOn
  <2>8. /\ HeldBy(instances, On(instances, n), d) \in Nat
        /\ UnusedOn(config, instances, n, d) \in Nat
    BY <2>1, <2>2, CommittedSplit
  <2>9. n \in DOMAIN config.nodes /\ config.nodes[n].budget[d] \in Nat
    BY <1>1, <2>1, ConfigTypes DEF IInv, Valid, ValidReservations, NodeConfigs, Resources
  <2>10. Committed(config, instances, n, d) <= config.nodes[n].budget[d]
    BY <1>1, <2>9 DEF IInv, CapacityInv, NodeWithinBudget, WithinBudget
  <2> HIDE DEF free, prot
  <2>11. HeldBy(instances, On(instances, n), d) + free <= config.nodes[n].budget[d]
    BY <2>3, <2>4, <2>5, <2>6, <2>7, <2>8, <2>9, <2>10 DEF Committed
  <2> QED
    BY <2>11 DEF free
<1> QED
  BY <1>1, Invariant, PTL

\* A plan never undoes another change.
THEOREM NothingIsForgotten == Spec => NothingForgotten
<1>1. ASSUME IInv, [Next]_vars PROVE [NamesStay]_vars
  <2>1. ASSUME NEW id \in PlanIds, Apply(id) PROVE NamesStay
    <3>1. id \in DOMAIN plans /\ plans[id].base = revision /\ config' = plans[id].config
      BY <2>1 DEF Apply, MadeAtThisRevision
    <3> QED
      BY <1>1, <3>1 DEF IInv, PlansGrow, NamesStay
  <2>2. ASSUME NEW e \in Enrollments, Approve(e) PROVE NamesStay
    <3>1. CASE e.name \in DOMAIN config.nodes
      BY <2>2, <3>1 DEF Approve, NamesStay
    <3>2. CASE e.name \notin DOMAIN config.nodes
      <4>1. config' = [config EXCEPT !.nodes = Put(@, e.name, JoiningNode(e))]
        BY <2>2, <3>2 DEF Approve
      <4>2. /\ config'.nodes = Put(config.nodes, e.name, JoiningNode(e))
            /\ config'.pools = config.pools
            /\ config'.reservations = config.reservations
        BY <1>1, <4>1, JoinType DEF IInv
      <4> QED
        BY <4>2 DEF Put, NamesStay
    <3> QED
      BY <3>1, <3>2
  <2>3. ASSUME config' = config PROVE NamesStay
    BY <2>3 DEF NamesStay
  <2>4. ASSUME Next, ~(\E id \in PlanIds : Apply(id)), ~(\E e \in Enrollments : Approve(e))
        PROVE  config' = config
    BY <2>4 DEF Next, Administration, Placement, Progress, GitHubDemand, Plan, PlanExpires,
                Drain, Allocate, Dispatch, SetJIT, StopInstance, Sync, ReportAges,
                PersistMessage, RefreshDemand, SetIntakeFence, configVars
  <2> QED
    BY <1>1, <2>1, <2>2, <2>3, <2>4
<1> QED
  BY <1>1, Invariant, PTL DEF Spec, NothingForgotten

\* Disk is never promised beyond what the Node reported free.
THEOREM DiskKept == Spec => PlacementFitsDisk
<1>1. ASSUME IInv, NEW i, i \notin DOMAIN instances, NEW p \in DOMAIN config.pools,
             NEW s, Place(i, p, s)
      PROVE  DOMAIN instances' \ DOMAIN instances \subseteq {i} /\ NewInstanceFitsDisk(i)
  <2>1. IsConfig(config) /\ Accounted(instances)
    BY <1>1, StoreAccounted DEF IInv
  <2>2. PICK n \in Candidates(p) : \E r \in SlotsFor(p, n) :
          Adds(config, instances, instances', i, NewInstance(n, p, s, r))
    BY <1>1, PlaceAdds DEF IInv
  <2>3. PICK r \in SlotsFor(p, n) :
          Adds(config, instances, instances', i, NewInstance(n, p, s, r))
    BY <2>2
  <2> DEFINE a == NewInstance(n, p, s, r)
  <2>4. a.node = n /\ a.reservation = r /\ a.held = config.pools[p].charge
    BY DEF NewInstance
  <2>5. Adds(config, instances, instances', i, a)
    BY <2>3
  <2> HIDE DEF a
  <2>6. Grown(instances, instances', i, a)
    BY <2>1, <2>5, RowsAdded
  <2>7. AgreeOn(config, instances, n)
    BY <1>1 DEF IInv, CapacityInv, ReservationsAgree, AgreeOn, ReservationsOn
  <2>8. Committed(config, instances', n, "disk") =
          Committed(config, instances, n, "disk")
            + (IF r = NoReservation THEN config.pools[p].charge["disk"] ELSE 0)
    <3>1. "disk" \in Dims
      BY DEF Dims
    <3> QED
      BY <2>1, <2>4, <2>5, <2>7, <3>1, CommittedAdds
  <2>9. Committed(config, instances, n, "disk") \in Nat
    BY <2>1, <2>7, CommittedSplit DEF Dims
  <2>10. config.pools[p].charge["disk"] \in Nat
    BY <2>1, ConfigTypes DEF PoolConfigs, Resources, Dims
  <2>11. HasDisk(p, n) /\ reports[n].said.freeDisk \in Nat
    BY <1>1 DEF Candidates, Admissible, NodeReady, IInv, TypeOK, IsTable, Reports,
                ObservationTypes
  <2>12. Lent(p, n, "disk") = IF r = NoReservation THEN 0 ELSE config.pools[p].charge["disk"]
    <3>1. NoReservation \notin DOMAIN config.reservations
      BY <2>1, AbsentNames DEF IsConfig, IsTable
    <3> QED
      BY <3>1 DEF Lent, SlotsFor, OwnReservations, ReservationsOn
  <2>13. Committed(config, instances', n, "disk") + DiskMargin <= reports[n].said.freeDisk
    BY <2>8, <2>9, <2>10, <2>11, <2>12 DEF HasDisk, DiskMargin
  <2>14. instances'[i].node = n
    BY <2>4, <2>6 DEF Grown
  <2> QED
    BY <2>6, <2>13, <2>14 DEF Grown, NewInstanceFitsDisk
<1>2. ASSUME IInv, [Next]_vars, NEW i \in DOMAIN instances' \ DOMAIN instances
      PROVE  NewInstanceFitsDisk(i)
  <2>1. ASSUME NEW j \in Requests, NEW p \in Pools, Allocate(j, p) PROVE NewInstanceFitsDisk(i)
    BY <1>1, <1>2, <2>1 DEF Allocate
  <2>2. ASSUME NEW j \in Requests, NEW p \in Pools, Dispatch(j, p) PROVE NewInstanceFitsDisk(i)
    BY <1>1, <1>2, <2>2 DEF Dispatch
  <2>3. ASSUME Next, ~(\E j \in Requests, p \in Pools : Allocate(j, p) \/ Dispatch(j, p))
        PROVE  DOMAIN instances' = DOMAIN instances
    BY <2>3 DEF Next, Administration, Placement, Progress, GitHubDemand, Plan, PlanExpires,
                Apply, Approve, Drain, SetJIT, StopInstance, Sync, ReportAges,
                PersistMessage, RefreshDemand, SetIntakeFence, configVars
  <2>4. ASSUME UNCHANGED vars PROVE FALSE
    BY <1>2, <2>4 DEF vars
  <2> QED
    BY <1>2, <2>1, <2>2, <2>3, <2>4
<1>3. ASSUME IInv, [Next]_vars
      PROVE  [NewInstancesFitDisk]_vars
  BY <1>2, <1>3 DEF NewInstancesFitDisk
<1> QED
  BY <1>3, Invariant, PTL DEF Spec, PlacementFitsDisk

\* What a handler may make of a row without undoing a release.
LEMMA RowsReleased ==
    ASSUME NEW a \in Instances
    PROVE  /\ \A report : report # "Failed" /\ a.state = "Deleting" =>
                  AfterReport(a, report).state \in {"Deleting", "Deleted"}
           /\ \A event : a.state \in {"Deleting", "Deleted"} =>
                  AfterEvent(a, event).state = a.state
<1>1. /\ [a EXCEPT !.state = "Deleting", !.held = PoweredOff(@)].state = "Deleting"
      /\ [a EXCEPT !.state = "Deleted", !.held = Nothing].state = "Deleted"
      /\ [a EXCEPT !.result = TRUE].state = a.state
  BY DEF Instances
<1> QED
  BY <1>1 DEF AfterReport, AfterEvent

\* Releases are final, on hosts that never report Failed (none in src/ does).
THEOREM ReleasedForGood ==
    ASSUME "Failed" \notin ReportStates
    PROVE  Spec => ReleaseIsFinal
<1>1. ASSUME IInv, [Next]_vars PROVE [ReleasedStay]_vars
  <2>0. \A j \in DOMAIN instances : /\ instances[j] \in Instances
                                    /\ KeepsRow(instances[j], instances[j])
    BY <1>1, RowsKept DEF IInv, TypeOK, IsTable
  <2>1. ASSUME instances' = instances PROVE ReleasedStay
    BY <2>0, <2>1 DEF ReleasedStay, StaysReleased, KeepsRow
  <2>2. ASSUME NEW i, i \notin DOMAIN instances, NEW a, instances' = Put(instances, i, a)
        PROVE  ReleasedStay
    BY <2>0, <2>2 DEF ReleasedStay, StaysReleased, KeepsRow, Put
  <2>3. ASSUME NEW i \in Requests, NEW p \in Pools, Allocate(i, p) PROVE ReleasedStay
    BY <2>2, <2>3 DEF Allocate, Place
  <2>4. ASSUME NEW i \in Requests, NEW p \in Pools, Dispatch(i, p) PROVE ReleasedStay
    BY <2>2, <2>4 DEF Dispatch, Place
  <2>5. ASSUME NEW i \in Requests, SetJIT(i) PROVE ReleasedStay
    <3>1. i \in DOMAIN instances /\ instances[i].state = "Reserved"
      BY <2>5 DEF SetJIT
    <3>2. instances'[i] = [instances[i] EXCEPT !.ready = TRUE, !.state = "Provisioning"]
      BY <2>0, <2>5, <3>1 DEF SetJIT
    <3>3. KeepsRow(instances[i], instances'[i])
      BY <2>0, <3>1, <3>2, RowsKept
    <3>4. \A j \in DOMAIN instances : j \in DOMAIN instances' /\
             (j # i => instances'[j] = instances[j])
      BY <2>5 DEF SetJIT
    <3> QED
      BY <2>0, <3>1, <3>3, <3>4 DEF ReleasedStay, StaysReleased, KeepsRow
  <2>6. ASSUME NEW i \in Requests, StopInstance(i) PROVE ReleasedStay
    <3>1. i \in DOMAIN instances /\ instances[i].state \notin {"Deleting", "Deleted"}
      BY <2>6 DEF StopInstance
    <3>2. KeepsRow(instances[i], instances'[i])
      BY <2>0, <2>6, <3>1, RowsKept DEF StopInstance
    <3>3. \A j \in DOMAIN instances : j \in DOMAIN instances' /\
             (j # i => instances'[j] = instances[j])
      BY <2>6 DEF StopInstance
    <3> QED
      BY <2>0, <3>1, <3>2, <3>3 DEF ReleasedStay, StaysReleased, KeepsRow
  <2>7. ASSUME NEW n \in Nodes, NEW said \in Observations,
               NEW vms \in [Live(n) -> ReportStates \cup {"none"}], Sync(n, said, vms)
        PROVE  ReleasedStay
    <3> SUFFICES ASSUME NEW i \in DOMAIN instances PROVE StaysReleased(i)
      BY DEF ReleasedStay
    <3>1. CASE i \in Live(n)
      <4>1. vms[i] # "Failed" /\ instances[i].state # "Deleted"
        BY <3>1 DEF Live
      <4>2. i \in DOMAIN instances' /\ instances'[i] = AfterReport(instances[i], vms[i])
        BY <2>7, <3>1 DEF Sync
      <4>3. KeepsRow(instances[i], instances'[i])
        BY <2>0, <4>2, RowsKept
      <4>4. instances[i].state = "Deleting" => instances'[i].state \in {"Deleting", "Deleted"}
        BY <2>0, <4>1, <4>2, RowsReleased
      <4> QED
        BY <4>1, <4>2, <4>3, <4>4 DEF StaysReleased, KeepsRow
    <3>2. CASE i \notin Live(n)
      <4>1. i \in DOMAIN instances' /\ instances'[i] = instances[i]
        BY <2>7, <3>2 DEF Sync
      <4> QED
        BY <2>0, <4>1 DEF StaysReleased, KeepsRow
    <3> QED
      BY <3>1, <3>2
  <2>8. ASSUME NEW p \in DOMAIN config.pools, NEW m \in MessageIds,
               NEW desired \in 0 .. MaxDesired, NEW events \in EventBatches,
               NEW holdIntake \in BOOLEAN,
               PersistMessage(m, p, desired, events, holdIntake)
        PROVE  ReleasedStay
    <3> SUFFICES ASSUME NEW i \in DOMAIN instances PROVE StaysReleased(i)
      BY DEF ReleasedStay
    <3>1. i \in DOMAIN instances'
      BY <2>8 DEF PersistMessage
    <3>2. PICK event : instances'[i] \in {instances[i], AfterEvent(instances[i], event)}
      BY <2>8 DEF PersistMessage
    <3>3. KeepsRow(instances[i], instances'[i])
      BY <2>0, <3>2, RowsKept
    <3>4. instances[i].state \in {"Deleting", "Deleted"} => instances'[i].state = instances[i].state
      BY <2>0, <3>2, RowsReleased
    <3> QED
      BY <3>1, <3>3, <3>4 DEF StaysReleased, KeepsRow
  <2>9. CASE UNCHANGED vars
    BY <2>1, <2>9 DEF vars
  <2>10. ASSUME Next,
                ~(\E i \in Requests, p \in Pools : Allocate(i, p) \/ Dispatch(i, p)),
                ~(\E i \in Requests : SetJIT(i) \/ StopInstance(i)),
                ~(\E n \in Nodes, said \in Observations :
                     \E vms \in [Live(n) -> ReportStates \cup {"none"}] : Sync(n, said, vms)),
                ~(\E p \in DOMAIN config.pools : \E m \in MessageIds,
                     desired \in 0 .. MaxDesired, events \in EventBatches,
                     holdIntake \in BOOLEAN :
                        PersistMessage(m, p, desired, events, holdIntake))
         PROVE  instances' = instances
    BY <2>10 DEF Next, Administration, Placement, Progress, GitHubDemand, Plan, PlanExpires,
                 Apply, Approve, Drain, ReportAges, RefreshDemand, SetIntakeFence
  <2> QED
    BY <1>1, <2>1, <2>3, <2>4, <2>5, <2>6, <2>7, <2>8, <2>9, <2>10
<1> QED
  BY <1>1, Invariant, PTL DEF Spec, ReleaseIsFinal
=============================================================================

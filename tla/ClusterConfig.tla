--------------------------- MODULE ClusterConfig ---------------------------
(***************************************************************************)
(* The declarative cluster configuration of internal/core/model.go, and    *)
(* the questions the Controller asks of it together with the instance      *)
(* table: which Pool may run where, what the reservations still protect,   *)
(* and whether a new configuration leaves room for what is already held.   *)
(*                                                                         *)
(* Everything here is a pure operator.  A name of the configuration is a   *)
(* member of a constant set; a list of named entries is a table, a         *)
(* function whose domain is the set of names present.  `runs' is the       *)
(* instance table of the Controller's store (module Ledger).               *)
(***************************************************************************)
EXTENDS ResourceUnits

CONSTANTS
    Nodes,              \* names a Node can have
    Pools,              \* names a Pool can have
    ImageNames,         \* names an Image can have
    Digests,            \* image digests
    Reservations,       \* names a Reservation can have
    Labels,             \* key=value pairs of Node labels and Pool selectors
    NoNode,             \* a Pool with no nodeName
    NoReservation       \* an instance outside every reservation

ASSUME NamesAreFinite ==
    /\ IsFiniteSet(Nodes)
    /\ IsFiniteSet(Pools)
    /\ IsFiniteSet(Reservations)
ASSUME AbsentNames ==
    /\ NoNode \notin Nodes
    /\ NoReservation \notin Reservations

-----------------------------------------------------------------------------
(* Types.                                                                  *)

IsTable(t, K, V) == DOMAIN t \subseteq K /\ t \in [DOMAIN t -> V]

Empty == [x \in {} |-> x]

\* t with the row k replaced or added.
Put(t, k, v) == [x \in DOMAIN t \cup {k} |-> IF x = k THEN v ELSE t[x]]

\* The rows of next, and those of old that next does not name.
Override(next, old) ==
    [x \in DOMAIN next \cup DOMAIN old |-> IF x \in DOMAIN next THEN next[x] ELSE old[x]]

NodeConfigs == [budget : Resources, localCeiling : Resources,
                labels : SUBSET Labels, allowedPools : SUBSET Pools]

\* charge is Pool.Charge(): the VM's size with the management overheads added.
PoolConfigs == [charge : Resources, image : ImageNames, maxRunners : Nat,
                warmIdle : Nat, nodeSelector : SUBSET Labels,
                nodeName : Nodes \cup {NoNode}, enabled : BOOLEAN,
                tasks : BOOLEAN]

ReservationConfigs == [node : Nodes, pool : Pools, slots : Nat]

IsConfig(c) ==
    /\ c = [nodes |-> c.nodes, pools |-> c.pools, images |-> c.images,
            reservations |-> c.reservations]
    /\ IsTable(c.nodes, Nodes, NodeConfigs)
    /\ IsTable(c.pools, Pools, PoolConfigs)
    /\ IsTable(c.images, ImageNames, Digests)
    /\ IsTable(c.reservations, Reservations, ReservationConfigs)

NoConfig == [nodes |-> Empty, pools |-> Empty, images |-> Empty, reservations |-> Empty]

-----------------------------------------------------------------------------
(* Validity and merging.                                                   *)

Eligible(c, p, n) ==
    /\ c.pools[p].nodeName \in {NoNode, n}
    /\ p \in c.nodes[n].allowedPools
    /\ c.pools[p].nodeSelector \subseteq c.nodes[n].labels

\* Config.Validate, for what the ledger depends on: the referenced names
\* exist, sizes are positive, and each promise could be kept on its own.
ValidNodes(c) == \A n \in DOMAIN c.nodes :
    /\ \A d \in Dims : c.nodes[n].budget[d] > 0
    /\ Fits(c.nodes[n].budget, c.nodes[n].localCeiling)
    /\ c.nodes[n].allowedPools \subseteq DOMAIN c.pools

ValidPools(c) == \A p \in DOMAIN c.pools :
    LET pool == c.pools[p] IN
    /\ pool.image \in DOMAIN c.images
    /\ \A d \in Dims : pool.charge[d] > 0
    /\ pool.maxRunners >= 1
    /\ pool.warmIdle <= pool.maxRunners
    /\ pool.tasks => pool.warmIdle = 0
    /\ pool.nodeName \in DOMAIN c.nodes \cup {NoNode}
    /\ pool.enabled => \E n \in DOMAIN c.nodes :
                          Eligible(c, p, n) /\ Fits(pool.charge, c.nodes[n].budget)

\* The sum over the reservations in S of the dimension d of what they reserve.
Reserved(c, S, d) ==
    Total(S, [r \in S |-> c.reservations[r].slots
                            * c.pools[c.reservations[r].pool].charge[d]])

ValidReservations(c) ==
    LET R == DOMAIN c.reservations IN
    /\ \A r \in R :
          LET v == c.reservations[r] IN
          /\ v.pool \in DOMAIN c.pools
          /\ v.node \in DOMAIN c.nodes
          /\ Eligible(c, v.pool, v.node)
          /\ v.slots >= 1
    /\ \A n \in DOMAIN c.nodes, d \in Dims :
          Reserved(c, {r \in R : c.reservations[r].node = n}, d)
              <= c.nodes[n].budget[d]
    /\ \A p \in DOMAIN c.pools :
          LET mine == {r \in R : c.reservations[r].pool = p} IN
          Total(mine, [r \in mine |-> c.reservations[r].slots])
              <= c.pools[p].maxRunners

Valid(c) == ValidNodes(c) /\ ValidPools(c) /\ ValidReservations(c)

\* A submitted configuration overrides entries by name and keeps the others.
MergeConfig(old, next) ==
    [nodes |-> Override(next.nodes, old.nodes),
     pools |-> Override(next.pools, old.pools),
     images |-> Override(next.images, old.images),
     reservations |-> Override(next.reservations, old.reservations)]

-----------------------------------------------------------------------------
(* What the instances hold, and what the reservations still protect.       *)

Holds(a) == a.held # Nothing

On(runs, n) == {i \in DOMAIN runs : runs[i].node = n}

HeldBy(runs, S, d) == Total(S, [i \in S |-> runs[i].held[d]])

UsersOf(runs, r) == {i \in DOMAIN runs : runs[i].reservation = r /\ Holds(runs[i])}

RunnersOf(runs, p) == {i \in DOMAIN runs : runs[i].pool = p /\ Holds(runs[i])}

\* validateReservationOwners
OwnersAgree(c, runs) == \A i \in DOMAIN runs :
    runs[i].reservation # NoReservation /\ Holds(runs[i]) =>
        /\ runs[i].reservation \in DOMAIN c.reservations
        /\ c.reservations[runs[i].reservation].node = runs[i].node
        /\ c.reservations[runs[i].reservation].pool = runs[i].pool

\* reservationProtection succeeds.
ReservationAgrees(c, runs, r) ==
    LET v == c.reservations[r] IN
    /\ v.pool \in DOMAIN c.pools
    /\ \A i \in UsersOf(runs, r) :
          /\ runs[i].node = v.node
          /\ runs[i].pool = v.pool
          /\ Fits(runs[i].held, c.pools[v.pool].charge)
    /\ Cardinality(UsersOf(runs, r)) <= v.slots

FreeSlots(c, runs, r) == c.reservations[r].slots - Cardinality(UsersOf(runs, r))

\* Mutant: a slot protects nothing until its user is gone altogether.
ProtectedWhenFree(c, runs, r, d) ==
    FreeSlots(c, runs, r) * c.pools[c.reservations[r].pool].charge[d]

\* The reserved resources not already accounted for in what its users hold.
Protected(c, runs, r, d) ==
    c.reservations[r].slots * c.pools[c.reservations[r].pool].charge[d]
        - HeldBy(runs, UsersOf(runs, r), d)

ReservationsOn(c, n) == {r \in DOMAIN c.reservations : c.reservations[r].node = n}

UnusedOn(c, runs, n, d) ==
    Total(ReservationsOn(c, n),
          [r \in ReservationsOn(c, n) |-> Protected(c, runs, r, d)])

\* Everything the Node's budget has to cover.
Committed(c, runs, n, d) == HeldBy(runs, On(runs, n), d) + UnusedOn(c, runs, n, d)

WithinLimit(c, runs, p) == Cardinality(RunnersOf(runs, p)) <= c.pools[p].maxRunners

WithinBudget(c, runs, n) ==
    \A d \in Dims : Committed(c, runs, n, d) <= c.nodes[n].budget[d]

\* The Pool an instance was placed in still has its size, image and kind.
PoolKept(c, a) ==
    /\ a.pool \in DOMAIN c.pools
    /\ c.pools[a.pool].charge = a.charge
    /\ c.images[c.pools[a.pool].image] = a.image
    /\ c.pools[a.pool].tasks = a.task

\* Mutants: one check of checkCapacityUpdate forgotten.
CapacityUpdateAnyBudget(c, runs) ==
    /\ OwnersAgree(c, runs)
    /\ \A p \in DOMAIN c.pools : WithinLimit(c, runs, p)
    /\ \A i \in DOMAIN runs : Holds(runs[i]) => PoolKept(c, runs[i])

CapacityUpdateAnyOwner(c, runs) ==
    /\ \A p \in DOMAIN c.pools : WithinLimit(c, runs, p)
    /\ \A n \in DOMAIN c.nodes : WithinBudget(c, runs, n)

CapacityUpdateAnyLimit(c, runs) ==
    \A n \in DOMAIN c.nodes : WithinBudget(c, runs, n)

\* checkCapacityUpdate
CapacityUpdateOK(c, runs) ==
    /\ OwnersAgree(c, runs)
    /\ \A p \in DOMAIN c.pools : WithinLimit(c, runs, p)
    /\ \A n \in DOMAIN c.nodes :
          /\ \A i \in On(runs, n) : Holds(runs[i]) => PoolKept(c, runs[i])
          /\ \A r \in ReservationsOn(c, n) : ReservationAgrees(c, runs, r)
          /\ WithinBudget(c, runs, n)
=============================================================================

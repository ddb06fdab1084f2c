----------------------------- MODULE MC_Ledger -----------------------------
(***************************************************************************)
(* Small instances of Ledger.  Resources are scaled down: one unit of each *)
(* dimension is one small VM's share.                                      *)
(***************************************************************************)
EXTENDS Ledger, TLC

CONSTANTS n1, n2, lite, heavy, img, d1, d2, res

Vector(c, m, k) == [cpu |-> c, memory |-> m, disk |-> k]

MCNodes == {n1, n2}
MCPools == {lite, heavy}
MCImages == {img}
MCDigests == {d1, d2}
MCReservations == {res}
MCLabels == {}

Small == Vector(1, 1, 1)
Big   == Vector(2, 2, 2)

NodeOf(budget, allowed) ==
    [budget |-> budget, localCeiling |-> budget, labels |-> {}, allowedPools |-> allowed]

PoolOf(charge, max, tasks) ==
    [charge |-> charge, image |-> img, maxRunners |-> max, warmIdle |-> 0,
     nodeSelector |-> {}, nodeName |-> NoNode, enabled |-> TRUE, tasks |-> tasks]

\* A three-unit Node with general jobs of one unit and one reserved slot of two.
Base == [nodes |-> n1 :> NodeOf(Vector(3, 3, 4), {lite, heavy}),
         pools |-> (lite :> PoolOf(Small, 3, FALSE)) @@ (heavy :> PoolOf(Big, 2, FALSE)),
         images |-> img :> d1,
         reservations |-> res :> [node |-> n1, pool |-> heavy, slots |-> 1]]

\* The reserved slot is for agent tasks.
ForTasks == [Base EXCEPT !.pools = heavy :> PoolOf(Big, 2, TRUE) @@ Base.pools]

\* No Node yet, so no Pool is enabled.
Bare == [Base EXCEPT
    !.nodes = Empty,
    !.pools = [p \in {lite, heavy} |-> [Base.pools[p] EXCEPT !.enabled = FALSE]],
    !.reservations = Empty]

\* A smaller budget.
Shrunk == [Base EXCEPT !.nodes = n1 :> NodeOf(Vector(2, 2, 4), {lite, heavy})]

\* The reserved Pool shrinks to a unit, and its reservation grows.
Resized == [Base EXCEPT !.pools = heavy :> PoolOf(Small, 2, FALSE)
                                    @@ Base.pools,
                        !.reservations =
                            res :> [node |-> n1, pool |-> heavy, slots |-> 2]]

\* Fewer general runners, and no word of the reservation.
Fewer == [Base EXCEPT !.pools = lite :> PoolOf(Small, 1, FALSE) @@ Base.pools,
                      !.reservations = Empty]

\* The reservation moves to the other Pool.
Moved == [Base EXCEPT
             !.reservations = res :> [node |-> n1, pool |-> lite, slots |-> 1]]

JoinN1 == [name |-> n1, ceiling |-> Vector(4, 4, 4)]

Healthy == [ready |-> TRUE, isolation |-> TRUE, ceiling |-> Vector(4, 4, 4),
            freeDisk |-> 6, digests |-> {d1}]
Tight   == [Healthy EXCEPT !.freeDisk = 5]

Permutation == Permutations(Requests) \cup Permutations(PlanIds)

\* Inputs of the runs.
CapacitySubmissions == {ForTasks}
CapacityEnrollments == {JoinN1}
CapacityObservations == {Healthy, Tight}
Releases == {"Running", "Stopped", "Deleted"}
NoEvents == {<<>>}

ChangeSubmissions == {Bare, Base, Fewer, Shrunk, Resized, Moved}
ChangeObservations == {Healthy}
ChangeReports == {"Stopped"}

SomeEvents == {<<>>} \cup [1 .. 1 -> EventTypes]
    \cup {<<[instance |-> i, state |-> "Busy"], [instance |-> i, state |-> "Complete"]>> :
              i \in Requests}
=============================================================================

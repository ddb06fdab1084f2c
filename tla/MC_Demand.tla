------------------------------- MODULE MC_Demand -------------------------------
(***************************************************************************)
(* Small instances of Demand: one Node with processors and memory for one  *)
(* VM and disk for two, so that a runner can be replaced once it stopped.  *)
(***************************************************************************)
EXTENDS Demand

CONSTANTS n1, lite, img, d1

Small == [cpu |-> 1, memory |-> 1, disk |-> 1]
Room  == [cpu |-> 1, memory |-> 1, disk |-> 2]

OnePool == [
    nodes |-> [n \in {n1} |-> [budget |-> Room, localCeiling |-> Room, labels |-> {},
                               allowedPools |-> {lite}]],
    pools |-> [p \in {lite} |-> [charge |-> Small, image |-> img, maxRunners |-> 2,
                                 warmIdle |-> 0, nodeSelector |-> {}, nodeName |-> NoNode,
                                 enabled |-> TRUE, tasks |-> FALSE]],
    images |-> [x \in {img} |-> d1],
    reservations |-> Empty]

Healthy == [ready |-> TRUE, isolation |-> TRUE, ceiling |-> Room, freeDisk |-> 5,
            digests |-> {d1}]

\* A session for every fault and one more; at most four messages about a job.
Received == (1 .. FaultLimit + 1) \X (0 .. 4 * Cardinality(Jobs))

NoEvents == {}
=============================================================================

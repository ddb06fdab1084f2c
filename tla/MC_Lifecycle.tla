----------------------------- MODULE MC_Lifecycle -----------------------------
(***************************************************************************)
(* Small instances of Lifecycle: a Node with processors and memory for one *)
(* VM and disk for two, so that the second is placed as soon as the first  *)
(* has stopped, while its disk is still being deleted.                     *)
(***************************************************************************)
EXTENDS Lifecycle, TLC

CONSTANTS n1, lite, img, d1

Small == [cpu |-> 1, memory |-> 1, disk |-> 1]
Room  == [cpu |-> 1, memory |-> 1, disk |-> 2]

OneNode == [
    nodes |-> n1 :> [budget |-> Room, localCeiling |-> Room, labels |-> {},
                     allowedPools |-> {lite}],
    pools |-> lite :> [charge |-> Small, image |-> img, maxRunners |-> 2,
                       warmIdle |-> 0, nodeSelector |-> {}, nodeName |-> NoNode,
                       enabled |-> TRUE, tasks |-> FALSE],
    images |-> img :> d1,
    reservations |-> Empty]

Healthy == [ready |-> TRUE, isolation |-> TRUE, ceiling |-> Room, freeDisk |-> 5,
            digests |-> {d1}]

OnePool == [i \in Requests |-> lite]

Started == [i \in Requests |-> <<[instance |-> i, state |-> "Busy"]>>]
Ended   == [i \in Requests |-> <<[instance |-> i, state |-> "Complete"]>>]
OneEvent == {Started[i] : i \in Requests} \cup {Ended[i] : i \in Requests}
NoEvents == {}
=============================================================================

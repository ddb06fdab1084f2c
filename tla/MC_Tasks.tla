------------------------------- MODULE MC_Tasks -------------------------------
(***************************************************************************)
(* Small instances of Tasks: a Node with processors and memory for one VM  *)
(* and disk for two, so that a task waits until another's VM has stopped.  *)
(***************************************************************************)
EXTENDS Tasks, TLC

CONSTANTS n1, quick, img, d1, c1

Share == [cpu |-> 1, memory |-> 1, disk |-> 1]
Space == [cpu |-> 1, memory |-> 1, disk |-> 2]

AgentPool == [charge |-> Share, image |-> img, maxRunners |-> 2, warmIdle |-> 0,
              nodeSelector |-> {}, nodeName |-> NoNode, enabled |-> TRUE, tasks |-> TRUE]

AgentPools == [
    nodes |-> n1 :> [budget |-> Space, localCeiling |-> Space, labels |-> {},
                     allowedPools |-> {quick}],
    pools |-> quick :> AgentPool,
    images |-> img :> d1,
    reservations |-> Empty]

Well == [ready |-> TRUE, isolation |-> TRUE, ceiling |-> Space, freeDisk |-> 6,
         digests |-> {d1}]

OneClient == [i \in Requests |-> c1]
OnePoolOnly == [i \in Requests |-> quick]
NoBatches == {}
===============================================================================

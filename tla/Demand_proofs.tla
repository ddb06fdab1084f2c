---------------------------- MODULE Demand_proofs ----------------------------
(***************************************************************************)
(* Theorems about one Pool's GitHub side (module Demand), for any number   *)
(* of jobs, runners, messages, sessions and faults.                        *)
(*                                                                         *)
(* What the listener and the manager's loop rely on is mostly about what   *)
(* the other actors cannot have done between two of their transactions:    *)
(* the messages of the queue are numbered without gaps and none behind the *)
(* first was persisted (Numbered, Handed); a message that was persisted    *)
(* does not change any more, and its completions are on record (Recorded); *)
(* and runners that Reconcile has yet to provide for are not ready, so     *)
(* that nothing is stored for them (Provisioning).                         *)
(***************************************************************************)
EXTENDS Demand, Ledger_proofs, SequenceTheorems, WellFoundedInduction

-----------------------------------------------------------------------------
(* The parts of the invariant.                                             *)

\* A message was persisted, in this session or an earlier one.
Seen(m) == \E key \in inbox : key[2] = m.id

\* The runners a message tells the completion of.
CompletedBy(m) == Range(m.completed)

\* How many messages a job may have led to.
Told == [planned |-> 0, available |-> 1, assigned |-> 2, running |-> 3, done |-> 4]
MessagesOf(js) == [j \in Jobs |-> Told[js[j]]]

\* The configuration does not change, and all instances are the served Pool's.
Configured ==
    /\ config = Installed
    /\ \A i \in DOMAIN instances : instances[i].pool = served

\* Each session after the first follows a fault.
Sessions ==
    /\ listener = "connect" => session <= faults
    /\ listener # "connect" => session \in 1 .. faults + 1

\* Messages are numbered without gaps, no more of them than jobs lead to, and
\* of the queue only the first may have been persisted.
Numbered ==
    /\ Len(queue) <= sent /\ sent <= Total(Jobs, MessagesOf(jobs))
    /\ \A k \in DOMAIN queue : queue[k].id = sent - Len(queue) + k
    /\ \A key \in inbox : key[2] \in Nat /\ key[2] <= sent /\ key[2] <= sent - Len(queue) + 1

\* The listener works on the first message of the queue, and lowers the fence
\* when nothing in the queue was persisted.
Handed ==
    /\ listener \in {"acquire", "ack"} => queue # <<>> /\ Seen(queue[1])
    /\ listener = "lower" => \A key \in inbox : key[2] <= sent - Len(queue)

\* Runners that came up or took a job are instances.
Runners == \A i \in Requests :
    vm[i] # "none" \/ taken[i] # NoJob => i \in DOMAIN instances

\* So are those that completed, and messages tell of no others.
Completed ==
    /\ ended \subseteq DOMAIN instances
    /\ \A k \in DOMAIN queue : CompletedBy(queue[k]) \subseteq ended

\* The completions that a persisted message tells of are on record.
Recorded == \A k \in DOMAIN queue :
    Seen(queue[k]) => \A i \in CompletedBy(queue[k]) : instances[i].result

\* Reconcile provides once for each runner that has no JIT configuration.
Provisioning ==
    /\ \A k \in DOMAIN awaiting :
          awaiting[k] \in DOMAIN instances /\ ~instances[awaiting[k]].ready
    /\ \A k, l \in DOMAIN awaiting : awaiting[k] = awaiting[l] => k = l
    /\ manager \in {"register", "store"} => awaiting # <<>>
    /\ \A i \in Requests : stored[i] # 0 => i \in DOMAIN instances /\ instances[i].ready

\* What is between GitHub's messages and the store.
QueueInv ==
    /\ Numbered /\ Handed /\ Completed /\ Recorded
    /\ FenceCoversAcquisition /\ AcknowledgedIsRecorded

-----------------------------------------------------------------------------
(* The transactions of the store.                                          *)

\* The rows go on as they are for GitHub's side: those in F may become ready.
RowsGoOn(F) ==
    /\ \A i \in DOMAIN instances :
          /\ i \in DOMAIN instances'
          /\ instances'[i].pool = instances[i].pool
          /\ instances[i].result => instances'[i].result
          /\ instances[i].ready => instances'[i].ready
          /\ i \notin F => instances'[i].ready = instances[i].ready
    /\ \A i \in DOMAIN instances' \ DOMAIN instances :
          instances'[i].pool = served /\ ~instances'[i].ready

\* A transaction that persists no message and does not move the fence.
Transaction(F) ==
    /\ TypeOK' /\ config' = config /\ inbox' = inbox
    /\ RowsGoOn(F)
    /\ Fenced(served)' <=> Fenced(served)

\* The Pool, its Node and what it reports are configured.
LEMMA Served ==
    ASSUME Configured
    PROVE  /\ served \in DOMAIN config.pools /\ served \in Pools
           /\ ~config.pools[served].tasks /\ worker \in Nodes
           /\ config.pools[served].warmIdle \in Nat /\ config.pools[served].maxRunners \in Nat
<1>1. /\ DOMAIN Installed.pools \subseteq Pools /\ DOMAIN Installed.nodes \subseteq Nodes
      /\ Installed.pools \in [DOMAIN Installed.pools -> PoolConfigs]
  BY DemandInputs DEF IsConfig, IsTable
<1>2. Installed.pools[served] \in PoolConfigs
  BY <1>1, DemandInputs
<1> QED
  BY <1>1, <1>2, DemandInputs DEF Configured, PoolConfigs

\* Nothing happens in the store.
LEMMA NoTransaction ==
    ASSUME TypeOK, UNCHANGED vars
    PROVE  Transaction({}) /\ instances' = instances
<1>1. TypeOK'
  BY DEF TypeOK, vars, configVars, nodeVars, demandVars
<1>2. config' = config /\ inbox' = inbox /\ instances' = instances /\ demand' = demand
  BY DEF vars, configVars, nodeVars, demandVars
<1>3. RowsGoOn({})
  BY <1>2 DEF RowsGoOn
<1> QED
  BY <1>1, <1>2, <1>3 DEF Transaction, Fenced

\* Store.StopInstance
LEMMA StopTransaction ==
    ASSUME TypeOK, NEW i \in Requests, StopInstance(i)
    PROVE  Transaction({}) /\ DOMAIN instances' = DOMAIN instances
<1>1. IsTable(instances', Requests, Instances)
  BY DEF StopInstance, TypeOK, IsTable, Instances, InstanceStates
<1>2. TypeOK'
  BY <1>1 DEF StopInstance, TypeOK, configVars, nodeVars, demandVars
<1>3. config' = config /\ inbox' = inbox /\ demand' = demand
  BY DEF StopInstance, configVars, demandVars
<1>4. /\ DOMAIN instances' = DOMAIN instances
      /\ \A j \in DOMAIN instances :
            /\ instances'[j].pool = instances[j].pool
            /\ instances'[j].result = instances[j].result
            /\ instances'[j].ready = instances[j].ready
  BY DEF StopInstance, TypeOK, IsTable, Instances
<1>5. RowsGoOn({})
  BY <1>4 DEF RowsGoOn
<1> QED
  BY <1>2, <1>3, <1>4, <1>5 DEF Transaction, Fenced

\* Store.SetJIT
LEMMA JITTransaction ==
    ASSUME TypeOK, NEW i \in Requests, SetJIT(i)
    PROVE  /\ Transaction({i}) /\ DOMAIN instances' = DOMAIN instances
           /\ i \in DOMAIN instances /\ instances'[i].ready
<1>1. i \in DOMAIN instances /\ instances[i] \in Instances
  BY DEF SetJIT, TypeOK, IsTable
<1>2. instances' = [instances EXCEPT
                       ![i] = [@ EXCEPT !.ready = TRUE, !.state = "Provisioning"]]
  BY <1>1 DEF SetJIT
<1>3. IsTable(instances', Requests, Instances)
  <2>1. [instances[i] EXCEPT !.ready = TRUE, !.state = "Provisioning"] \in Instances
    BY <1>1 DEF Instances, InstanceStates
  <2> QED
    BY <1>2, <2>1 DEF TypeOK, IsTable
<1>4. TypeOK'
  BY <1>3 DEF SetJIT, TypeOK, configVars, nodeVars, demandVars
<1>5. config' = config /\ inbox' = inbox /\ demand' = demand
  BY DEF SetJIT, configVars, demandVars
<1>6. /\ DOMAIN instances' = DOMAIN instances
      /\ instances'[i].ready
      /\ \A j \in DOMAIN instances :
            /\ instances'[j].pool = instances[j].pool
            /\ instances'[j].result = instances[j].result
            /\ j # i => instances'[j] = instances[j]
  BY <1>1, <1>2 DEF TypeOK, IsTable, Instances
<1>7. RowsGoOn({i})
  BY <1>6 DEF RowsGoOn
<1> QED
  BY <1>1, <1>4, <1>5, <1>6, <1>7 DEF Transaction, Fenced

\* Store.Allocate
LEMMA AllocateTransaction ==
    ASSUME TypeOK, Configured, NEW i \in Requests, Allocate(i, served)
    PROVE  /\ Transaction({}) /\ i \notin DOMAIN instances
           /\ DOMAIN instances' = DOMAIN instances \cup {i} /\ ~instances'[i].ready
<1>1. IsTable(instances', Requests, Instances)
  BY Served, PlaceType DEF Allocate, InstanceStates
<1>2. TypeOK'
  BY <1>1 DEF Allocate, TypeOK, configVars, nodeVars, demandVars
<1>3. config' = config /\ inbox' = inbox /\ demand' = demand /\ i \notin DOMAIN instances
  BY DEF Allocate, configVars, demandVars
<1>4. PICK n, r : instances' = Put(instances, i, NewInstance(n, served, "Reserved", r))
  BY DEF Allocate, Place
<1>5. /\ DOMAIN instances' = DOMAIN instances \cup {i}
      /\ \A j \in DOMAIN instances : instances'[j] = instances[j]
      /\ instances'[i].pool = served /\ ~instances'[i].ready
  BY <1>3, <1>4 DEF Put, NewInstance
<1>6. RowsGoOn({})
  BY <1>5 DEF RowsGoOn
<1> QED
  BY <1>2, <1>3, <1>5, <1>6 DEF Transaction, Fenced

\* Store.Sync
LEMMA SyncTransaction ==
    ASSUME TypeOK, Configured, NEW vms, Sync(worker, Health, vms)
    PROVE  Transaction({}) /\ DOMAIN instances' = DOMAIN instances
<1>1. TypeOK'
  BY Served, SyncType, DemandInputs
<1>2. config' = config /\ inbox' = inbox
  BY DEF Sync, configVars
<1>3. ASSUME NEW a \in Instances, NEW report
      PROVE  LET b == AfterReport(a, report) IN
             b.pool = a.pool /\ b.result = a.result /\ b.ready = a.ready
  BY DEF AfterReport, Instances
<1>4. \A i \in DOMAIN instances : instances[i] \in Instances
  BY DEF TypeOK, IsTable
<1>5. DOMAIN instances' = DOMAIN instances
  BY DEF Sync
<1>6. \A i \in DOMAIN instances :
         /\ instances'[i].pool = instances[i].pool
         /\ instances'[i].result = instances[i].result
         /\ instances'[i].ready = instances[i].ready
  BY <1>3, <1>4 DEF Sync
<1>7. RowsGoOn({})
  BY <1>5, <1>6 DEF RowsGoOn
<1>8. Fenced(served)' <=> Fenced(served)
  <2>1. DOMAIN demand' = DOMAIN demand
    BY DEF Sync
  <2>2. ASSUME served \in DOMAIN demand PROVE demand'[served].intake = demand[served].intake
    BY <2>2 DEF Sync, TypeOK, IsTable, Demands
  <2> QED
    BY <2>1, <2>2 DEF Fenced
<1> QED
  BY <1>1, <1>2, <1>5, <1>7, <1>8 DEF Transaction

\* Store.RefreshDemand
LEMMA RefreshTransaction ==
    ASSUME TypeOK, Configured, NEW desired \in Nat, RefreshDemand(served, desired)
    PROVE  Transaction({}) /\ instances' = instances
<1>1. Fenced(served) \in BOOLEAN
  BY DEF Fenced, TypeOK, IsTable, Demands
<1>2. [desired |-> desired, barrier |-> FALSE, intake |-> Fenced(served)] \in Demands
  BY <1>1 DEF Demands
<1>3. IsTable(demand', Pools, Demands)
  BY <1>2, Served, PutTable DEF RefreshDemand, TypeOK
<1>4. TypeOK'
  BY <1>3 DEF RefreshDemand, TypeOK, configVars, nodeVars
<1>5. config' = config /\ inbox' = inbox /\ instances' = instances
  BY DEF RefreshDemand, configVars
<1>6. served \in DOMAIN demand' /\ demand'[served].intake = Fenced(served)
  BY DEF RefreshDemand, Put
<1>7. RowsGoOn({})
  BY <1>5 DEF RowsGoOn
<1> QED
  BY <1>4, <1>5, <1>6, <1>7 DEF Transaction, Fenced

\* Store.SetIntakeFence
LEMMA FenceTransaction ==
    ASSUME TypeOK, NEW on \in BOOLEAN, SetIntakeFence(served, on)
    PROVE  /\ TypeOK' /\ config' = config /\ inbox' = inbox
           /\ RowsGoOn({}) /\ instances' = instances
           /\ Fenced(served)' <=> on
<1>1. IsTable(demand', Pools, Demands)
  BY DEF SetIntakeFence, TypeOK, IsTable, Demands
<1>2. TypeOK'
  BY <1>1 DEF SetIntakeFence, TypeOK, configVars, nodeVars
<1>3. config' = config /\ inbox' = inbox /\ instances' = instances
  BY DEF SetIntakeFence, configVars
<1>4. served \in DOMAIN demand' /\ demand'[served].intake = on
  BY DEF SetIntakeFence, TypeOK, IsTable, Demands
<1>5. RowsGoOn({})
  BY <1>3 DEF RowsGoOn
<1> QED
  BY <1>2, <1>3, <1>4, <1>5 DEF Fenced

\* Store.PersistMessage
LEMMA MessageTransaction ==
    ASSUME TypeOK, Configured, NEW m \in MessageIds, NEW desired \in Nat, NEW events,
           NEW holdIntake \in BOOLEAN, PersistMessage(m, served, desired, events, holdIntake)
    PROVE  /\ TypeOK' /\ config' = config /\ inbox' = inbox \cup {m}
           /\ RowsGoOn({}) /\ DOMAIN instances' = DOMAIN instances
           /\ \A i \in DOMAIN instances :
                 EventsOf(events, i) # {} /\ LastOf(events, i).state = "Complete"
                     => instances'[i].result
           /\ Fenced(served)' <=> holdIntake \/ Fenced(served)
<1>1. TypeOK'
  BY Served, MessageType
<1>2. config' = config /\ inbox' = inbox \cup {m} /\ DOMAIN instances' = DOMAIN instances
  BY DEF PersistMessage, configVars
<1>3. ASSUME NEW a \in Instances, NEW event
      PROVE  LET b == AfterEvent(a, event) IN
             /\ b.pool = a.pool /\ b.ready = a.ready
             /\ a.result => b.result
             /\ event = "Complete" => b.result
  BY DEF AfterEvent, Instances
<1>4. \A i \in DOMAIN instances : instances[i] \in Instances /\ instances[i].pool = served
  BY DEF TypeOK, IsTable, Configured
<1>5. \A i \in DOMAIN instances :
         instances'[i] = IF EventsOf(events, i) # {}
                         THEN AfterEvent(instances[i], LastOf(events, i).state)
                         ELSE instances[i]
  BY <1>4 DEF PersistMessage
<1>6. RowsGoOn({})
  BY <1>2, <1>3, <1>4, <1>5 DEF RowsGoOn
<1>7. \A i \in DOMAIN instances :
         EventsOf(events, i) # {} /\ LastOf(events, i).state = "Complete" => instances'[i].result
  BY <1>3, <1>4, <1>5
<1>8. served \in DOMAIN demand' /\ demand'[served].intake = (holdIntake \/ Fenced(served))
  BY DEF PersistMessage, Put
<1> QED
  BY <1>1, <1>2, <1>6, <1>7, <1>8 DEF Fenced

-----------------------------------------------------------------------------
(* The queue.                                                              *)

\* What a step that tells of the completions `new' makes of the queue.
QueueTold(new) ==
    /\ queue' \in Seq(Messages) /\ sent' \in {sent, sent + 1}
    /\ Len(queue') - Len(queue) = sent' - sent
    /\ \A k \in DOMAIN queue' : queue'[k].id = sent' - Len(queue') + k
    /\ \A k \in DOMAIN queue' : Seen(queue'[k]) => k \in DOMAIN queue /\ queue'[k] = queue[k]
    /\ \A k \in DOMAIN queue' : \A i \in CompletedBy(queue'[k]) :
          i \in new \/ (k \in DOMAIN queue /\ i \in CompletedBy(queue[k]))
    /\ \A k \in DOMAIN queue : k \in DOMAIN queue' /\ CompletedBy(queue[k]) \subseteq CompletedBy(queue'[k])
    /\ \A i \in new : \E k \in DOMAIN queue' : i \in CompletedBy(queue'[k])

\* GitHub tells of an event in a message that was not persisted.
LEMMA TellStep ==
    ASSUME queue \in Seq(Messages), sent \in Nat, Numbered,
           NEW js, CountOf(js) \in Counts, NEW available \in SUBSET Jobs,
           NEW started \in Seq(Requests), NEW completed \in Seq(Requests),
           Tell(js, available, started, completed)
    PROVE  QueueTold(Range(completed))
<1> DEFINE new == Range(completed)
<1>1. Len(queue) \in Nat /\ DOMAIN queue = 1 .. Len(queue) /\ \A k \in DOMAIN queue : queue[k] \in Messages
  BY LenProperties, ElementOfSeq
<1>2. CASE /\ sent' = sent + 1
           /\ queue' = Append(queue, [id |-> sent + 1, count |-> CountOf(js),
                                      available |-> available, started |-> started,
                                      completed |-> completed])
  <2> DEFINE m == [id |-> sent + 1, count |-> CountOf(js), available |-> available,
                   started |-> started, completed |-> completed]
  <2>1. m \in Messages /\ m.id = sent + 1 /\ m.completed = completed
    BY DEF Messages
  <2> HIDE DEF m
  <2>2. queue' = Append(queue, m)
    BY <1>2 DEF m
  <2>3. /\ queue' \in Seq(Messages) /\ Len(queue') = Len(queue) + 1
        /\ \A k \in 1 .. Len(queue) : queue'[k] = queue[k]
        /\ queue'[Len(queue) + 1] = m
    BY <2>1, <2>2, AppendProperties
  <2>4. DOMAIN queue' = 1 .. Len(queue) + 1
    BY <2>3, LenProperties
  <2>5. ~Seen(m)
    BY <2>1 DEF Numbered, Seen
  <2>6. CompletedBy(m) = new
    BY <2>1 DEF CompletedBy
  <2>7. ASSUME NEW k \in DOMAIN queue'
        PROVE  (k \in DOMAIN queue /\ queue'[k] = queue[k]) \/ (k = Len(queue) + 1 /\ queue'[k] = m)
    BY <1>1, <2>3, <2>4
  <2>8. \A k \in DOMAIN queue' : queue'[k].id = sent' - Len(queue') + k
    BY <1>1, <1>2, <2>1, <2>3, <2>7 DEF Numbered
  <2>9. Len(queue) + 1 \in DOMAIN queue' /\ DOMAIN queue \subseteq DOMAIN queue'
    BY <1>1, <2>4
  <2> HIDE DEF new
  <2>10. /\ \A k \in DOMAIN queue' : Seen(queue'[k]) => k \in DOMAIN queue /\ queue'[k] = queue[k]
         /\ \A k \in DOMAIN queue' : \A i \in CompletedBy(queue'[k]) :
               i \in new \/ (k \in DOMAIN queue /\ i \in CompletedBy(queue[k]))
    BY <2>5, <2>6, <2>7
  <2>11. \A k \in DOMAIN queue : k \in DOMAIN queue' /\ CompletedBy(queue[k]) \subseteq CompletedBy(queue'[k])
    BY <1>1, <2>3, <2>9
  <2>12. \A i \in new : \E k \in DOMAIN queue' : i \in CompletedBy(queue'[k])
    BY <2>3, <2>6, <2>9
  <2>13. Len(queue') - Len(queue) = sent' - sent
    BY <1>1, <1>2, <2>3
  <2>14. QueueTold(new)
    BY <1>2, <2>3, <2>8, <2>10, <2>11, <2>12, <2>13 DEF QueueTold
  <2> QED
    BY <2>14 DEF new
<1>3. CASE /\ Unseen /\ sent' = sent
           /\ queue' = [queue EXCEPT ![Len(queue)] =
                           [id |-> queue[Len(queue)].id, count |-> CountOf(js),
                            available |-> queue[Len(queue)].available \cup available,
                            started |-> queue[Len(queue)].started \o started,
                            completed |-> queue[Len(queue)].completed \o completed]]
  <2> DEFINE n == Len(queue)
             last == queue[n]
             m == [id |-> last.id, count |-> CountOf(js), available |-> last.available \cup available,
                   started |-> last.started \o started, completed |-> last.completed \o completed]
  <2>1. n \in 1 .. Len(queue) /\ last \in Messages
    <3>1. queue # <<>>
      BY <1>3 DEF Unseen
    <3>2. Len(queue) \in Nat \ {0}
      BY <3>1, EmptySeq
    <3> QED
      BY <1>1, <3>2
  <2>2. /\ last.started \o started \in Seq(Requests) /\ last.completed \o completed \in Seq(Requests)
    BY <2>1, ConcatProperties DEF Messages
  <2>3. m \in Messages /\ m.id = last.id /\ m.completed = last.completed \o completed
    BY <2>1, <2>2 DEF Messages
  <2>4. CompletedBy(m) = CompletedBy(last) \cup new
    BY <2>1, <2>3, RangeConcatenation DEF Messages, CompletedBy
  <2> HIDE DEF m
  <2>5. queue' = [queue EXCEPT ![n] = m]
    BY <1>3 DEF m
  <2>6. /\ queue' \in Seq(Messages) /\ Len(queue') = Len(queue)
        /\ \A k \in 1 .. Len(queue) : queue'[k] = IF k = n THEN m ELSE queue[k]
    BY <2>1, <2>3, <2>5, ExceptSeq
  <2>7. DOMAIN queue' = DOMAIN queue
    BY <2>6, LenProperties
  <2>8. ~Seen(m)
    BY <1>3, <2>3 DEF Unseen, Seen
  <2>9. \A k \in DOMAIN queue' : queue'[k].id = sent' - Len(queue') + k
    BY <1>1, <1>3, <2>1, <2>3, <2>6, <2>7 DEF Numbered
  <2>10. n \in DOMAIN queue' /\ queue'[n] = m
    BY <1>1, <2>1, <2>6, <2>7
  <2>11. ASSUME NEW k \in DOMAIN queue' PROVE k \in DOMAIN queue /\ (queue'[k] = queue[k] \/ (k = n /\ queue'[k] = m))
    BY <1>1, <2>6, <2>7
  <2>12. Len(queue') - Len(queue) = sent' - sent
    BY <1>1, <1>3, <2>6
  <2> HIDE DEF new
  <2>13. \A k \in DOMAIN queue' : Seen(queue'[k]) => k \in DOMAIN queue /\ queue'[k] = queue[k]
    BY <2>8, <2>11
  <2>14. \A k \in DOMAIN queue' : \A i \in CompletedBy(queue'[k]) :
               i \in new \/ (k \in DOMAIN queue /\ i \in CompletedBy(queue[k]))
    BY <2>4, <2>11
  <2>15. \A k \in DOMAIN queue : k \in DOMAIN queue' /\ CompletedBy(queue[k]) \subseteq CompletedBy(queue'[k])
    BY <2>4, <2>7, <2>11
  <2>16. \A i \in new : \E k \in DOMAIN queue' : i \in CompletedBy(queue'[k])
    BY <2>4, <2>10
  <2>17. QueueTold(new)
    BY <1>3, <2>6, <2>9, <2>12, <2>13, <2>14, <2>15, <2>16 DEF QueueTold
  <2> QED
    BY <2>17 DEF new
<1> QED
  BY <1>2, <1>3 DEF Tell

\* The first message is acknowledged and leaves the queue.
LEMMA Popped ==
    ASSUME queue \in Seq(Messages), queue # <<>>, sent \in Nat, Numbered,
           queue' = Tail(queue), sent' = sent
    PROVE  /\ queue' \in Seq(Messages) /\ Len(queue') = Len(queue) - 1
           /\ \A k \in DOMAIN queue' :
                 /\ k + 1 \in DOMAIN queue /\ queue'[k] = queue[k + 1]
                 /\ queue'[k].id = sent' - Len(queue') + k
           /\ \A k \in DOMAIN queue : k = 1 \/ (k - 1 \in DOMAIN queue' /\ queue'[k - 1] = queue[k])
<1>1. Len(queue) \in Nat /\ DOMAIN queue = 1 .. Len(queue)
  BY LenProperties
<1>2. /\ queue' \in Seq(Messages) /\ Len(queue') = Len(queue) - 1
      /\ \A k \in 1 .. Len(queue') : queue'[k] = queue[k + 1]
  BY HeadTailProperties
<1>3. DOMAIN queue' = 1 .. Len(queue) - 1
  BY <1>2, LenProperties
<1>4. \A k \in DOMAIN queue' : k \in Int /\ k + 1 \in DOMAIN queue /\ queue'[k] = queue[k + 1]
  BY <1>1, <1>2, <1>3
<1>5. \A k \in DOMAIN queue' : queue'[k].id = sent' - Len(queue') + k
  BY <1>1, <1>2, <1>4 DEF Numbered
<1>6. ASSUME NEW k \in DOMAIN queue, k # 1
      PROVE  k - 1 \in DOMAIN queue' /\ queue'[k - 1] = queue[k]
  <2>1. k - 1 \in DOMAIN queue' /\ k - 1 + 1 = k
    BY <1>1, <1>3, <1>6
  <2> QED
    BY <1>4, <2>1
<1> QED
  BY <1>2, <1>4, <1>5, <1>6

\* Of some positions in a sequence one is the last.
LEMMA Greatest ==
    ASSUME NEW n \in Nat, NEW T \in SUBSET (1 .. n), T # {}
    PROVE  \E k \in T : \A l \in T : l <= k
<1> DEFINE R == {ss \in Nat \X Nat : ss[1] < ss[2]}
           U == {n - k : k \in T}
<1>1. U \in SUBSET Nat /\ U # {}
  <2>1. \A k \in T : n - k \in Nat
    OBVIOUS
  <2> QED
    BY <2>1
<1>2. IsWellFoundedOn(R, Nat)
  BY NatLessThanWellFounded DEF OpToRel
<1>3. PICK x \in U : \A y \in U : <<y, x>> \notin R
  <2> HIDE DEF R, U
  <2> QED
    BY <1>1, <1>2, WFMin
<1>4. ASSUME NEW y \in U PROVE x <= y
  <2>1. ~(y < x)
    BY <1>1, <1>3
  <2> QED
    BY <1>1, <2>1
<1>5. PICK k \in T : x = n - k
  OBVIOUS
<1>6. ASSUME NEW l \in T PROVE l <= k
  <2>1. x <= n - l
    BY <1>4
  <2> QED
    BY <1>5, <2>1
<1> QED
  BY <1>6

\* The completion is the last that a message tells of a runner.
LEMMA CompletionIsLast ==
    ASSUME NEW m \in Messages, NEW i \in CompletedBy(m)
    PROVE  EventsOf(Events(m), i) # {} /\ LastOf(Events(m), i).state = "Complete"
<1> DEFINE s == StartedEvents(m)
           t == CompletedEvents(m)
           u == Events(m)
           last == CHOOSE k \in EventsOf(u, i) : \A l \in EventsOf(u, i) : l <= k
<1>1. m.started \in Seq(Requests) /\ m.completed \in Seq(Requests)
  BY DEF Messages
<1>2. /\ Len(m.started) \in Nat /\ DOMAIN m.started = 1 .. Len(m.started)
      /\ Len(m.completed) \in Nat /\ DOMAIN m.completed = 1 .. Len(m.completed)
      /\ \A k \in DOMAIN m.started : m.started[k] \in Requests
      /\ \A k \in DOMAIN m.completed : m.completed[k] \in Requests
  BY <1>1, LenProperties, ElementOfSeq
<1>3. s \in Seq(EventTypes) /\ Len(s) = Len(m.started)
  <2>1. s \in [1 .. Len(m.started) -> EventTypes]
    BY <1>2 DEF StartedEvents, EventTypes
  <2> QED
    BY <1>2, <2>1, SeqDef
<1>4. t \in Seq(EventTypes) /\ Len(t) = Len(m.completed)
  <2>1. t \in [1 .. Len(m.completed) -> EventTypes]
    BY <1>2 DEF CompletedEvents, EventTypes
  <2> QED
    BY <1>2, <2>1, SeqDef
<1>5. /\ u \in Seq(EventTypes) /\ Len(u) = Len(s) + Len(t)
      /\ \A k \in 1 .. Len(s) + Len(t) : u[k] = IF k <= Len(s) THEN s[k] ELSE t[k - Len(s)]
  <2>1. u = s \o t
    BY DEF Events
  <2> HIDE DEF s, t, u
  <2> QED
    BY <1>3, <1>4, <2>1, ConcatProperties
<1>6. DOMAIN u = 1 .. Len(s) + Len(t)
  <2> HIDE DEF s, t, u
  <2> QED
    BY <1>5, LenProperties
<1>7. PICK l \in DOMAIN m.completed : m.completed[l] = i
  BY DEF CompletedBy, Range
<1>8. \A k \in DOMAIN m.completed : t[k].instance = m.completed[k] /\ t[k].state = "Complete"
  BY DEF CompletedEvents
<1> HIDE DEF s, t, u
<1>9. Len(s) \in Nat /\ Len(t) \in Nat /\ DOMAIN m.completed = 1 .. Len(t)
  BY <1>2, <1>3, <1>4
<1>10. Len(s) + l \in EventsOf(u, i)
  <2>1. /\ l \in 1 .. Len(t) /\ Len(s) + l \in 1 .. Len(s) + Len(t)
        /\ ~(Len(s) + l <= Len(s)) /\ Len(s) + l - Len(s) = l
    BY <1>9
  <2>2. Len(s) + l \in DOMAIN u /\ u[Len(s) + l] = t[l]
    BY <1>5, <1>6, <2>1
  <2> QED
    BY <1>7, <1>8, <2>2 DEF EventsOf
<1>11. last \in EventsOf(u, i) /\ \A k \in EventsOf(u, i) : k <= last
  <2>1. EventsOf(u, i) \in SUBSET (1 .. Len(s) + Len(t)) /\ Len(s) + Len(t) \in Nat
    BY <1>6, <1>9 DEF EventsOf
  <2> QED
    BY <1>10, <2>1, Greatest
<1>12. last - Len(s) \in DOMAIN m.completed /\ u[last] = t[last - Len(s)]
  <2>1. last \in 1 .. Len(s) + Len(t) /\ last >= Len(s) + l
    BY <1>6, <1>10, <1>11 DEF EventsOf
  <2> HIDE DEF last
  <2>2. last - Len(s) \in 1 .. Len(t) /\ ~(last <= Len(s))
    BY <1>9, <2>1
  <2> QED
    BY <1>5, <1>9, <2>1, <2>2
<1>13. LastOf(u, i) = u[last]
  BY DEF LastOf
<1> HIDE DEF last
<1> QED
  BY <1>8, <1>10, <1>12, <1>13 DEF u

\* The messages that jobs may lead to become one more when a job goes on.
LEMMA OneMoreTold ==
    ASSUME jobs \in [Jobs -> JobStates], NEW js \in [Jobs -> JobStates],
           NEW j \in Jobs, Told[js[j]] > Told[jobs[j]],
           \A q \in Jobs : Told[js[q]] >= Told[jobs[q]]
    PROVE  Total(Jobs, MessagesOf(js)) >= Total(Jobs, MessagesOf(jobs)) + 1
<1> DEFINE f == MessagesOf(jobs)
           g == MessagesOf(js)
<1>1. \A q \in Jobs : f[q] \in Nat /\ g[q] \in Nat /\ f[q] <= g[q]
  BY DEF MessagesOf, Told, JobStates
<1>2. f[j] + 1 <= g[j]
  BY <1>1 DEF MessagesOf
<1> HIDE DEF f, g
<1>3. IsFiniteSet(Jobs) /\ IsFiniteSet(Jobs \ {j})
  BY DemandInputs, FS_RemoveElement
<1>4. Total(Jobs, f) = f[j] + Total(Jobs \ {j}, f) /\ Total(Jobs, g) = g[j] + Total(Jobs \ {j}, g)
  BY <1>1, <1>3, TotalSplit
<1>5. Total(Jobs \ {j}, f) <= Total(Jobs \ {j}, g)
  BY <1>1, <1>3, TotalMonotone
<1>6. Total(Jobs \ {j}, f) \in Nat /\ Total(Jobs \ {j}, g) \in Nat
  BY <1>1, <1>3, TotalType
<1> QED
  BY <1>1, <1>2, <1>4, <1>5, <1>6 DEF f, g

\* No more than four for each job.
LEMMA ToldBound ==
    ASSUME jobs \in [Jobs -> JobStates]
    PROVE  /\ Total(Jobs, MessagesOf(jobs)) \in Nat
           /\ Total(Jobs, MessagesOf(jobs)) <= 4 * Cardinality(Jobs)
<1>1. \A q \in Jobs : MessagesOf(jobs)[q] \in Nat /\ MessagesOf(jobs)[q] <= 4
  BY DEF MessagesOf, Told, JobStates
<1>2. IsFiniteSet(Jobs) /\ Cardinality(Jobs) \in Nat
  BY DemandInputs, FS_CardinalityType
<1>3. Total(Jobs, MessagesOf(jobs)) <= Cardinality(Jobs) * 4
  BY <1>1, <1>2, TotalBound
<1>4. Total(Jobs, MessagesOf(jobs)) \in Nat
  BY <1>1, <1>2, TotalType
<1> QED
  BY <1>2, <1>3, <1>4

-----------------------------------------------------------------------------
(* Each kind of step keeps what is between the messages and the store.     *)

\* The queue and its numbers as they are when they have their types.
LEMMA QueueTypes ==
    ASSUME DemandTypeOK
    PROVE  /\ Len(queue) \in Nat /\ DOMAIN queue = 1 .. Len(queue) /\ sent \in Nat
           /\ \A k \in DOMAIN queue : queue[k] \in Messages
BY LenProperties, ElementOfSeq DEF DemandTypeOK

\* A step that touches neither the messages nor the fence.
LEMMA QueueKept ==
    ASSUME DemandTypeOK, QueueInv, NEW F, Transaction(F), UNCHANGED <<jobs, queue, sent, ended>>,
           listener' \in {"acquire", "ack", "lower"} => listener' = listener
    PROVE  QueueInv'
<1>1. /\ inbox' = inbox /\ jobs' = jobs /\ queue' = queue /\ sent' = sent /\ ended' = ended
      /\ RowsGoOn(F) /\ (Fenced(served)' <=> Fenced(served))
  BY DEF Transaction
<1>2. Numbered'
  BY <1>1 DEF QueueInv, Numbered
<1>3. Handed'
  BY <1>1 DEF QueueInv, Handed, Seen
<1>4. \A i \in ended : i \in DOMAIN instances /\ i \in DOMAIN instances'
  BY <1>1 DEF QueueInv, Completed, RowsGoOn
<1>5. Completed'
  BY <1>1, <1>4 DEF QueueInv, Completed
<1>6. \A i \in ended : instances[i].result => instances'[i].result
  BY <1>1, <1>4 DEF RowsGoOn
<1>7. Recorded'
  BY <1>1, <1>6 DEF QueueInv, Recorded, Completed, Seen
<1>8. FenceCoversAcquisition'
  BY <1>1 DEF QueueInv, FenceCoversAcquisition
<1>9. AcknowledgedIsRecorded'
  BY <1>1, <1>6 DEF QueueInv, AcknowledgedIsRecorded
<1> QED
  BY <1>2, <1>3, <1>5, <1>7, <1>8, <1>9 DEF QueueInv

\* GitHub tells that the runners `new' completed.
LEMMA QueueTells ==
    ASSUME DemandTypeOK, QueueInv, NEW new, new \subseteq DOMAIN instances, QueueTold(new),
           ended' = ended \cup new, sent' <= Total(Jobs, MessagesOf(jobs')),
           UNCHANGED vars,
           listener' \in {"acquire", "ack", "lower"} =>
               listener' = listener \/ (listener = "acquire" /\ listener' = "ack")
    PROVE  QueueInv'
<1>1. inbox' = inbox /\ instances' = instances /\ demand' = demand
  BY DEF vars, demandVars
<1>2. /\ sent' \in Nat /\ Len(queue') \in Nat /\ DOMAIN queue' = 1 .. Len(queue')
      /\ sent' - Len(queue') = sent - Len(queue) /\ sent <= sent'
  <2>1. sent' \in Nat /\ sent <= sent'
    BY QueueTypes DEF QueueTold
  <2>2. Len(queue') \in Nat /\ DOMAIN queue' = 1 .. Len(queue')
    BY LenProperties DEF QueueTold
  <2> QED
    BY <2>1, <2>2, QueueTypes DEF QueueTold
<1>3. /\ \A k \in DOMAIN queue' : Seen(queue'[k]) => k \in DOMAIN queue /\ queue'[k] = queue[k]
      /\ \A k \in DOMAIN queue' : \A i \in CompletedBy(queue'[k]) :
            i \in new \/ (k \in DOMAIN queue /\ i \in CompletedBy(queue[k]))
      /\ \A k \in DOMAIN queue : k \in DOMAIN queue' /\ CompletedBy(queue[k]) \subseteq CompletedBy(queue'[k])
      /\ \A i \in new : \E k \in DOMAIN queue' : i \in CompletedBy(queue'[k])
  BY DEF QueueTold
<1>4. \A k \in DOMAIN queue : queue'[k].id = queue[k].id
  BY <1>2, <1>3, QueueTypes DEF QueueInv, Numbered, QueueTold
<1>5. Numbered'
  <2>1. Len(queue') <= sent'
    BY <1>2, QueueTypes DEF QueueInv, Numbered
  <2>2. \A k \in DOMAIN queue' : queue'[k].id = sent' - Len(queue') + k
    BY DEF QueueTold
  <2>3. \A key \in inbox' : key[2] \in Nat /\ key[2] <= sent' /\ key[2] <= sent' - Len(queue') + 1
    BY <1>1, <1>2, QueueTypes DEF QueueInv, Numbered
  <2> QED
    BY <2>1, <2>2, <2>3 DEF Numbered
<1>6. Handed'
  <2>1. listener' \in {"acquire", "ack"} => queue' # <<>> /\ \E key \in inbox' : key[2] = queue'[1].id
    <3> SUFFICES ASSUME listener' \in {"acquire", "ack"} PROVE queue' # <<>> /\ \E key \in inbox' : key[2] = queue'[1].id
      OBVIOUS
    <3>1. queue # <<>> /\ Seen(queue[1])
      BY DEF QueueInv, Handed
    <3>2. 1 \in DOMAIN queue
      BY <3>1, EmptySeq DEF DemandTypeOK
    <3>3. 1 \in DOMAIN queue' /\ queue'[1].id = queue[1].id
      BY <1>3, <1>4, <3>2
    <3> QED
      BY <1>1, <3>1, <3>3 DEF Seen
  <2>2. listener' = "lower" => \A key \in inbox' : key[2] <= sent' - Len(queue')
    BY <1>1, <1>2 DEF QueueInv, Handed
  <2> QED
    BY <2>1, <2>2 DEF Handed, Seen
<1>7. Completed'
  BY <1>1, <1>3 DEF QueueInv, Completed
<1>8. Recorded'
  <2> SUFFICES ASSUME NEW k \in DOMAIN queue', NEW i \in CompletedBy(queue'[k]),
                      \E key \in inbox' : key[2] = queue'[k].id
               PROVE  instances'[i].result
    BY DEF Recorded, CompletedBy, Seen
  <2>1. Seen(queue'[k])
    BY <1>1 DEF Seen
  <2> QED
    BY <1>1, <1>3, <2>1 DEF QueueInv, Recorded
<1>9. FenceCoversAcquisition'
  <2> SUFFICES ASSUME NEW k \in DOMAIN queue', queue'[k].available # {},
                      \E key \in inbox' : key[2] = queue'[k].id
               PROVE  Fenced(served)'
    BY DEF FenceCoversAcquisition
  <2>1. k \in DOMAIN queue /\ queue'[k] = queue[k]
    BY <1>1, <1>3 DEF Seen
  <2>2. Fenced(served)
    BY <1>1, <2>1 DEF QueueInv, FenceCoversAcquisition
  <2> QED
    BY <1>1, <2>2 DEF Fenced
<1>10. AcknowledgedIsRecorded'
  <2> SUFFICES ASSUME NEW i \in ended', ~instances'[i].result
               PROVE  \E k \in DOMAIN queue' : i \in CompletedBy(queue'[k])
    BY DEF AcknowledgedIsRecorded, CompletedBy, Range
  <2>1. CASE i \in new
    BY <1>3, <2>1
  <2>2. CASE i \in ended
    <3>1. \E k \in DOMAIN queue : i \in CompletedBy(queue[k])
      BY <1>1, <2>2 DEF QueueInv, AcknowledgedIsRecorded, CompletedBy, Range
    <3> QED
      BY <1>3, <3>1
  <2> QED
    BY <2>1, <2>2
<1> QED
  BY <1>5, <1>6, <1>7, <1>8, <1>9, <1>10 DEF QueueInv

\* The listener persists a message of the queue, or the statistics of a session.
LEMMA QueuePersisted ==
    ASSUME DemandTypeOK, QueueInv, UNCHANGED <<jobs, queue, sent, ended>>, RowsGoOn({}),
           NEW key, inbox' = inbox \cup {key},
           key[2] \in Nat, key[2] <= sent, key[2] <= sent - Len(queue) + 1,
           \A k \in DOMAIN queue : queue[k].id = key[2] =>
               /\ queue[k].available # {} => Fenced(served)'
               /\ \A i \in CompletedBy(queue[k]) : instances'[i].result,
           Fenced(served) => Fenced(served)',
           listener' \in {"acquire", "ack"} => queue # <<>> /\ key[2] = queue[1].id,
           listener' # "lower"
    PROVE  QueueInv'
<1>1. jobs' = jobs /\ queue' = queue /\ sent' = sent /\ ended' = ended
  OBVIOUS
<1>2. Numbered'
  BY <1>1 DEF QueueInv, Numbered
<1>3. Handed'
  BY <1>1 DEF Handed, Seen
<1>4. \A i \in ended : i \in DOMAIN instances /\ i \in DOMAIN instances'
  BY DEF QueueInv, Completed, RowsGoOn
<1>5. Completed'
  BY <1>1, <1>4 DEF QueueInv, Completed
<1>6. \A i \in ended : instances[i].result => instances'[i].result
  BY <1>4 DEF RowsGoOn
<1>7. Recorded'
  <2> SUFFICES ASSUME NEW k \in DOMAIN queue, NEW i \in CompletedBy(queue[k]),
                      \E old \in inbox' : old[2] = queue[k].id
               PROVE  instances'[i].result
    BY <1>1 DEF Recorded, CompletedBy, Seen
  <2>1. CASE queue[k].id = key[2]
    BY <2>1
  <2>2. CASE queue[k].id # key[2]
    <3>1. Seen(queue[k])
      BY <2>2 DEF Seen
    <3> QED
      BY <1>6, <3>1 DEF QueueInv, Recorded, Completed
  <2> QED
    BY <2>1, <2>2
<1>8. FenceCoversAcquisition'
  <2> SUFFICES ASSUME NEW k \in DOMAIN queue, queue[k].available # {},
                      \E old \in inbox' : old[2] = queue[k].id
               PROVE  Fenced(served)'
    BY <1>1 DEF FenceCoversAcquisition
  <2> QED
    BY DEF QueueInv, FenceCoversAcquisition
<1>9. AcknowledgedIsRecorded'
  BY <1>1, <1>6 DEF QueueInv, AcknowledgedIsRecorded
<1> QED
  BY <1>2, <1>3, <1>5, <1>7, <1>8, <1>9 DEF QueueInv

\* GitHub deletes the first message, which was persisted.
LEMMA QueueAcknowledged ==
    ASSUME DemandTypeOK, QueueInv, queue # <<>>, Seen(queue[1]), queue' = Tail(queue),
           UNCHANGED <<vars, jobs, sent, ended>>, listener' \notin {"acquire", "ack"}
    PROVE  QueueInv'
<1>1. inbox' = inbox /\ instances' = instances /\ demand' = demand
  BY DEF vars, demandVars
<1>2. /\ queue' \in Seq(Messages) /\ Len(queue') = Len(queue) - 1
      /\ \A k \in DOMAIN queue' :
            /\ k + 1 \in DOMAIN queue /\ queue'[k] = queue[k + 1]
            /\ queue'[k].id = sent' - Len(queue') + k
      /\ \A k \in DOMAIN queue : k = 1 \/ (k - 1 \in DOMAIN queue' /\ queue'[k - 1] = queue[k])
  BY QueueTypes, Popped DEF DemandTypeOK, QueueInv
<1>3. Numbered'
  <2>1. Len(queue') <= sent' /\ sent' <= Total(Jobs, MessagesOf(jobs'))
    BY <1>2, QueueTypes DEF QueueInv, Numbered
  <2>2. \A key \in inbox' : key[2] \in Nat /\ key[2] <= sent' /\ key[2] <= sent' - Len(queue') + 1
    BY <1>1, <1>2, QueueTypes DEF QueueInv, Numbered
  <2> QED
    BY <1>2, <2>1, <2>2 DEF Numbered
<1>4. Handed'
  <2>1. \A key \in inbox' : key[2] <= sent' - Len(queue')
    BY <1>1, <1>2, QueueTypes DEF QueueInv, Numbered
  <2> QED
    BY <2>1 DEF Handed
<1>5. Completed'
  BY <1>1, <1>2 DEF QueueInv, Completed
<1>6. Recorded'
  BY <1>1, <1>2 DEF QueueInv, Recorded, Seen
<1>7. FenceCoversAcquisition'
  BY <1>1, <1>2 DEF QueueInv, FenceCoversAcquisition, Fenced
<1>8. AcknowledgedIsRecorded'
  <2> SUFFICES ASSUME NEW i \in ended, ~instances[i].result
               PROVE  \E k \in DOMAIN queue' : i \in CompletedBy(queue'[k])
    BY <1>1 DEF AcknowledgedIsRecorded, CompletedBy, Range
  <2>1. PICK k \in DOMAIN queue : i \in CompletedBy(queue[k])
    BY DEF QueueInv, AcknowledgedIsRecorded, CompletedBy, Range
  <2>2. k # 1
    BY <2>1 DEF QueueInv, Recorded
  <2> QED
    BY <1>2, <2>1, <2>2
<1> QED
  BY <1>3, <1>4, <1>5, <1>6, <1>7, <1>8 DEF QueueInv

\* The listener raises the fence, or lowers it when no message waits.
LEMMA QueueFenced ==
    ASSUME DemandTypeOK, QueueInv, SetFence
    PROVE  QueueInv' /\ TypeOK' /\ config' = config /\ RowsGoOn({})
<1>1. /\ TypeOK' /\ config' = config /\ inbox' = inbox /\ instances' = instances /\ RowsGoOn({})
      /\ Fenced(served)' <=> (listener = "raise")
  BY FenceTransaction DEF SetFence, DemandTypeOK
<1>2. jobs' = jobs /\ queue' = queue /\ sent' = sent /\ ended' = ended /\ listener' = "poll"
  BY DEF SetFence, githubVars, Listen
<1>3. Numbered' /\ Handed'
  BY <1>1, <1>2 DEF QueueInv, Numbered, Handed
<1>4. Completed'
  BY <1>1, <1>2 DEF QueueInv, Completed
<1>5. Recorded'
  BY <1>1, <1>2 DEF QueueInv, Recorded, Seen
<1>6. FenceCoversAcquisition'
  <2>1. CASE listener = "raise"
    BY <1>1, <2>1 DEF FenceCoversAcquisition
  <2>2. CASE listener = "lower"
    <3>1. \A key \in inbox, k \in DOMAIN queue : key[2] # queue[k].id
      <4> TAKE key \in inbox, k \in DOMAIN queue
      <4>1. key[2] \in Nat /\ key[2] <= sent - Len(queue) /\ queue[k].id = sent - Len(queue) + k
        BY <2>2 DEF QueueInv, Handed, Numbered
      <4> QED
        BY <4>1, QueueTypes
    <3> QED
      BY <1>1, <1>2, <3>1 DEF FenceCoversAcquisition
  <2> QED
    BY <2>1, <2>2 DEF SetFence
<1>7. AcknowledgedIsRecorded'
  BY <1>1, <1>2 DEF QueueInv, AcknowledgedIsRecorded
<1> QED
  BY <1>1, <1>3, <1>4, <1>5, <1>6, <1>7 DEF QueueInv

-----------------------------------------------------------------------------
(* The steps.                                                              *)

\* GitHub's statistics at some moment.
LEMMA CountType ==
    ASSUME DemandTypeOK, NEW js
    PROVE  CountOf(js) \in Counts
<1>1. Cardinality({j \in Jobs : js[j] \in {"assigned", "running"}}) \in Nat
  <2>1. IsFiniteSet({j \in Jobs : js[j] \in {"assigned", "running"}})
    BY DemandInputs, FS_Subset
  <2> QED
    BY <2>1, FS_CardinalityType
<1> QED
  BY <1>1 DEF CountOf, Counts, DemandTypeOK

\* A job goes on and GitHub tells of it.
LEMMA JobTold ==
    ASSUME DemandTypeOK, QueueInv, jobs' \in [Jobs -> JobStates],
           NEW j \in Jobs, Told[jobs'[j]] > Told[jobs[j]],
           \A q \in Jobs : Told[jobs'[q]] >= Told[jobs[q]],
           NEW available \in SUBSET Jobs, NEW started \in Seq(Requests),
           NEW completed \in Seq(Requests), Tell(jobs', available, started, completed)
    PROVE  QueueTold(Range(completed)) /\ sent' <= Total(Jobs, MessagesOf(jobs'))
<1>1. QueueTold(Range(completed))
  BY CountType, TellStep DEF DemandTypeOK, QueueInv
<1>2. Total(Jobs, MessagesOf(jobs')) >= Total(Jobs, MessagesOf(jobs)) + 1
  BY OneMoreTold DEF DemandTypeOK
<1>3. Total(Jobs, MessagesOf(jobs)) \in Nat
  BY ToldBound DEF DemandTypeOK
<1>4. Total(Jobs, MessagesOf(jobs')) \in Int
  <2>1. \A q \in Jobs : MessagesOf(jobs')[q] \in Nat
    BY DEF MessagesOf, Told, JobStates
  <2> QED
    BY <2>1, DemandInputs, TotalType
<1>5. sent' \in {sent, sent + 1} /\ sent <= Total(Jobs, MessagesOf(jobs)) /\ sent \in Nat
  BY <1>1, QueueTypes DEF QueueTold, QueueInv, Numbered
<1> QED
  BY <1>1, <1>2, <1>3, <1>4, <1>5

\* What GitHub's own steps change.
LEMMA GitHubStep ==
    ASSUME DemandTypeOK, QueueInv, Runners, GitHubActs
    PROVE  /\ QueueInv' /\ jobs' \in [Jobs -> JobStates]
           /\ queue' \in Seq(Messages) /\ sent' \in Nat
           /\ ended' \subseteq Requests
<1>1. jobs \in [Jobs -> JobStates] /\ NoJob \notin Jobs
  BY DemandInputs DEF DemandTypeOK
<1>2. UNCHANGED vars /\ listener' = listener
  BY DEF GitHubActs, listenerVars
<1>3. \E new \in SUBSET DOMAIN instances :
         /\ QueueTold(new) /\ ended' = ended \cup new
         /\ sent' <= Total(Jobs, MessagesOf(jobs')) /\ jobs' \in [Jobs -> JobStates]
  <2>1. ASSUME NEW j \in Jobs, JobQueued(j)
        PROVE  \E new \in SUBSET DOMAIN instances :
                  /\ QueueTold(new) /\ ended' = ended \cup new
                  /\ sent' <= Total(Jobs, MessagesOf(jobs')) /\ jobs' \in [Jobs -> JobStates]
    <3>1. /\ jobs[j] = "planned" /\ jobs' = [jobs EXCEPT ![j] = "available"] /\ ended' = ended
          /\ Tell(jobs', {j}, <<>>, <<>>)
      BY <2>1 DEF JobQueued
    <3>2. jobs' \in [Jobs -> JobStates]
      BY <1>1, <3>1 DEF JobStates
    <3>3. Told[jobs'[j]] > Told[jobs[j]] /\ \A q \in Jobs : Told[jobs'[q]] >= Told[jobs[q]]
      BY <1>1, <3>1 DEF Told, JobStates
    <3>4. QueueTold(Range(<<>>)) /\ sent' <= Total(Jobs, MessagesOf(jobs'))
      BY <3>1, <3>2, <3>3, EmptySeq, JobTold
    <3>5. Range(<<>>) = {}
      BY DEF Range
    <3> QED
      BY <3>1, <3>2, <3>4, <3>5
  <2>2. ASSUME NEW j \in Jobs, NEW i \in Requests, JobStarts(j, i)
        PROVE  \E new \in SUBSET DOMAIN instances :
                  /\ QueueTold(new) /\ ended' = ended \cup new
                  /\ sent' <= Total(Jobs, MessagesOf(jobs')) /\ jobs' \in [Jobs -> JobStates]
    <3>1. /\ jobs[j] = "assigned" /\ jobs' = [jobs EXCEPT ![j] = "running"] /\ ended' = ended
          /\ Tell(jobs', {}, <<i>>, <<>>)
      BY <2>2 DEF JobStarts
    <3>2. jobs' \in [Jobs -> JobStates]
      BY <1>1, <3>1 DEF JobStates
    <3>3. Told[jobs'[j]] > Told[jobs[j]] /\ \A q \in Jobs : Told[jobs'[q]] >= Told[jobs[q]]
      BY <1>1, <3>1 DEF Told, JobStates
    <3>4. <<i>> \in Seq(Requests)
      OBVIOUS
    <3>5. QueueTold(Range(<<>>)) /\ sent' <= Total(Jobs, MessagesOf(jobs'))
      BY <3>1, <3>2, <3>3, <3>4, EmptySeq, JobTold
    <3>6. Range(<<>>) = {}
      BY DEF Range
    <3> QED
      BY <3>1, <3>2, <3>5, <3>6
  <2>3. ASSUME NEW j \in Jobs, NEW i \in Requests, JobEnds(j, i)
        PROVE  \E new \in SUBSET DOMAIN instances :
                  /\ QueueTold(new) /\ ended' = ended \cup new
                  /\ sent' <= Total(Jobs, MessagesOf(jobs')) /\ jobs' \in [Jobs -> JobStates]
    <3>1. /\ jobs[j] = "running" /\ jobs' = [jobs EXCEPT ![j] = "done"] /\ ended' = ended \cup {i}
          /\ Tell(jobs', {}, <<>>, <<i>>) /\ taken[i] = j
      BY <2>3 DEF JobEnds
    <3>2. jobs' \in [Jobs -> JobStates]
      BY <1>1, <3>1 DEF JobStates
    <3>3. Told[jobs'[j]] > Told[jobs[j]] /\ \A q \in Jobs : Told[jobs'[q]] >= Told[jobs[q]]
      BY <1>1, <3>1 DEF Told, JobStates
    <3>4. <<i>> \in Seq(Requests)
      OBVIOUS
    <3>5. QueueTold(Range(<<i>>)) /\ sent' <= Total(Jobs, MessagesOf(jobs'))
      BY <3>1, <3>2, <3>3, <3>4, EmptySeq, JobTold
    <3>6. Range(<<i>>) = {i}
      BY DEF Range
    <3>7. i \in DOMAIN instances
      BY <1>1, <3>1 DEF Runners
    <3> QED
      BY <3>1, <3>2, <3>5, <3>6, <3>7
  <2> QED
    BY <2>1, <2>2, <2>3 DEF GitHubActs
<1>4. PICK new \in SUBSET DOMAIN instances :
         /\ QueueTold(new) /\ ended' = ended \cup new
         /\ sent' <= Total(Jobs, MessagesOf(jobs')) /\ jobs' \in [Jobs -> JobStates]
  BY <1>3
<1>5. QueueInv'
  BY <1>2, <1>4, QueueTells
<1>6. DOMAIN instances \subseteq Requests
  BY DEF DemandTypeOK, TypeOK, IsTable
<1>7. sent' \in Nat /\ queue' \in Seq(Messages)
  BY <1>4, QueueTypes DEF QueueTold
<1> QED
  BY <1>4, <1>5, <1>6, <1>7 DEF DemandTypeOK

\* Nothing is told.
LEMMA NothingTold ==
    ASSUME DemandTypeOK, QueueInv, UNCHANGED <<queue, sent>>
    PROVE  QueueTold({})
BY DEF DemandTypeOK, QueueInv, Numbered, QueueTold

\* The listener acquires the jobs of the first message, or some of them.
LEMMA AcquireStep ==
    ASSUME DemandTypeOK, QueueInv, Acquire
    PROVE  /\ QueueInv' /\ jobs' \in [Jobs -> JobStates]
           /\ queue' \in Seq(Messages) /\ sent' \in Nat
<1>1. jobs \in [Jobs -> JobStates]
  BY DEF DemandTypeOK
<1>2. /\ UNCHANGED vars /\ ended' = ended /\ listener = "acquire" /\ listener' \in {"ack", "raise"}
  BY DEF Acquire, Listen
<1>3. PICK A \in SUBSET Jobs : Assign(A)
  <2>1. Head(queue).available \in SUBSET Jobs
    <3>1. queue # <<>>
      BY <1>2 DEF QueueInv, Handed
    <3>2. Head(queue) \in Messages
      BY <3>1, HeadTailProperties DEF DemandTypeOK
    <3> QED
      BY <3>2 DEF Messages
  <2>2. \E A \in SUBSET Head(queue).available : Assign(A)
    BY DEF Acquire
  <2> QED
    BY <2>1, <2>2
<1>4. /\ QueueTold({}) /\ sent' <= Total(Jobs, MessagesOf(jobs')) /\ jobs' \in [Jobs -> JobStates]
  <2> DEFINE new == {j \in A : jobs[j] = "available"}
  <2>1. CASE new = {}
    <3>1. jobs' = jobs /\ queue' = queue /\ sent' = sent
      BY <1>3, <2>1 DEF Assign
    <3> QED
      BY <1>1, <3>1, NothingTold DEF QueueInv, Numbered
  <2>2. CASE new # {}
    <3>1. /\ jobs' = [j \in Jobs |-> IF j \in new THEN "assigned" ELSE jobs[j]]
          /\ Tell(jobs', {}, <<>>, <<>>)
      BY <1>3, <2>2 DEF Assign
    <3>2. jobs' \in [Jobs -> JobStates]
      BY <1>1, <3>1 DEF JobStates
    <3>3. PICK j \in Jobs : jobs[j] = "available" /\ jobs'[j] = "assigned"
      BY <2>2, <3>1
    <3>4. \A q \in Jobs : jobs'[q] = jobs[q] \/ (jobs[q] = "available" /\ jobs'[q] = "assigned")
      BY <3>1
    <3>5. Told[jobs'[j]] > Told[jobs[j]] /\ \A q \in Jobs : Told[jobs'[q]] >= Told[jobs[q]]
      <4>1. Told["assigned"] = 2 /\ Told["available"] = 1 /\ \A q \in Jobs : Told[jobs[q]] \in Nat
        BY <1>1 DEF Told, JobStates
      <4> QED
        BY <3>3, <3>4, <4>1
    <3>6. QueueTold(Range(<<>>)) /\ sent' <= Total(Jobs, MessagesOf(jobs'))
      BY <3>1, <3>2, <3>3, <3>5, EmptySeq, JobTold
    <3>7. Range(<<>>) = {}
      BY DEF Range
    <3> QED
      BY <3>2, <3>6, <3>7
  <2> QED
    BY <2>1, <2>2
<1>5. QueueInv'
  BY <1>2, <1>4, QueueTells
<1> QED
  BY <1>4, <1>5, QueueTypes DEF QueueTold

\* The inbox has room for what the listener persists.
LEMMA KeyKnown ==
    ASSUME DemandTypeOK, Sessions, QueueInv, listener # "connect", NEW id \in 0 .. sent
    PROVE  <<session, id>> \in MessageIds
<1>1. session \in 1 .. FaultLimit + 1
  BY DemandInputs DEF DemandTypeOK, Sessions
<1>2. id \in 0 .. 4 * Cardinality(Jobs)
  <2>1. /\ sent <= Total(Jobs, MessagesOf(jobs)) /\ Total(Jobs, MessagesOf(jobs)) \in Nat
        /\ Total(Jobs, MessagesOf(jobs)) <= 4 * Cardinality(Jobs)
    BY ToldBound DEF DemandTypeOK, QueueInv, Numbered
  <2>2. Cardinality(Jobs) \in Nat
    BY DemandInputs, FS_CardinalityType
  <2> QED
    BY <2>1, <2>2, QueueTypes
<1> QED
  BY <1>1, <1>2, MessageKeys

\* A new session's statistics are persisted.
LEMMA OpenStep ==
    ASSUME DemandTypeOK, Configured, Sessions, QueueInv, Open
    PROVE  QueueInv' /\ TypeOK' /\ config' = config /\ RowsGoOn({})
<1>1. <<session, 0>> \in MessageIds
  BY QueueTypes, KeyKnown DEF Open
<1>2. snapshot["listener"].desired \in Nat
  BY DEF DemandTypeOK, Counts
<1>3. PersistMessage(<<session, 0>>, served, snapshot["listener"].desired, <<>>, FALSE)
  BY DEF Open
<1>4. /\ TypeOK' /\ config' = config /\ inbox' = inbox \cup {<<session, 0>>} /\ RowsGoOn({})
      /\ Fenced(served)' <=> (FALSE \/ Fenced(served))
  BY <1>1, <1>2, <1>3, MessageTransaction DEF DemandTypeOK
<1>5. /\ jobs' = jobs /\ queue' = queue /\ sent' = sent /\ ended' = ended /\ listener' = "poll"
  BY DEF Open, githubVars, Listen
<1>6. \A k \in DOMAIN queue : queue[k].id # 0
  BY QueueTypes DEF QueueInv, Numbered
<1>7. <<session, 0>>[2] = 0 /\ 0 <= sent /\ 0 <= sent - Len(queue) + 1
  BY QueueTypes DEF QueueInv, Numbered
<1>8. QueueInv'
  BY <1>4, <1>5, <1>6, <1>7, QueuePersisted
<1> QED
  BY <1>4, <1>8

\* The first message of the queue is persisted, or was already.
LEMMA ReceiveStep ==
    ASSUME DemandTypeOK, Configured, Sessions, QueueInv, Receive
    PROVE  QueueInv' /\ TypeOK' /\ config' = config /\ RowsGoOn({})
<1> DEFINE m == queue[1]
           key == <<session, m.id>>
<1>1. queue # <<>> /\ 1 \in DOMAIN queue /\ Len(queue) >= 1 /\ m \in Messages /\ Head(queue) = m
  <2>1. queue # <<>> /\ Head(queue) = queue[1]
    BY DEF Receive
  <2>2. Len(queue) \in Nat \ {0}
    BY <2>1, EmptySeq DEF DemandTypeOK
  <2> QED
    BY <2>1, <2>2, QueueTypes
<1>2. Persist(m) /\ listener' \notin {"lower"}
  BY <1>1 DEF Receive, Listen, AfterPersist
<1>3. jobs' = jobs /\ queue' = queue /\ sent' = sent /\ ended' = ended
  BY DEF Receive, githubVars
<1>4. /\ m.id \in 1 .. sent /\ m.id = sent - Len(queue) + 1
      /\ \A k \in DOMAIN queue : queue[k].id = m.id => k = 1
  BY <1>1, QueueTypes DEF QueueInv, Numbered
<1>5. key[2] = m.id /\ key \in MessageIds
  BY <1>4, KeyKnown DEF Receive
<1>6. /\ TypeOK' /\ config' = config /\ RowsGoOn({}) /\ inbox' = inbox \cup {key}
      /\ Fenced(served) => Fenced(served)'
      /\ m.available # {} => Fenced(served)'
      /\ \A i \in CompletedBy(m) : instances'[i].result
  <2>1. CASE key \in inbox
    <3>1. UNCHANGED vars
      BY <1>2, <2>1 DEF Persist
    <3>2. Transaction({}) /\ instances' = instances
      BY <3>1, NoTransaction DEF DemandTypeOK
    <3>3. Seen(m)
      BY <1>5, <2>1 DEF Seen
    <3>4. m.available # {} => Fenced(served)
      BY <1>1, <1>5, <2>1 DEF QueueInv, FenceCoversAcquisition
    <3>5. \A i \in CompletedBy(m) : instances[i].result
      BY <1>1, <3>3 DEF QueueInv, Recorded
    <3> QED
      BY <2>1, <3>2, <3>4, <3>5 DEF Transaction
  <2>2. CASE key \notin inbox
    <3>1. PersistMessage(key, served, m.count.desired, Events(m), HoldsIntake(m))
      BY <1>2, <2>2 DEF Persist
    <3>2. m.count.desired \in Nat /\ HoldsIntake(m) \in BOOLEAN
      BY <1>1 DEF Messages, Counts, HoldsIntake
    <3>3. /\ TypeOK' /\ config' = config /\ inbox' = inbox \cup {key}
          /\ RowsGoOn({})
          /\ \A i \in DOMAIN instances :
                EventsOf(Events(m), i) # {} /\ LastOf(Events(m), i).state = "Complete"
                    => instances'[i].result
          /\ Fenced(served)' <=> HoldsIntake(m) \/ Fenced(served)
      <4> HIDE DEF m, key
      <4> QED
        BY <1>5, <3>1, <3>2, MessageTransaction DEF DemandTypeOK
    <3>4. \A i \in CompletedBy(m) : i \in DOMAIN instances
      BY <1>1 DEF QueueInv, Completed
    <3>5. \A i \in CompletedBy(m) : EventsOf(Events(m), i) # {} /\ LastOf(Events(m), i).state = "Complete"
      <4> HIDE DEF m
      <4> QED
        BY <1>1, CompletionIsLast
    <3> QED
      BY <3>3, <3>4, <3>5 DEF HoldsIntake
  <2> QED
    BY <2>1, <2>2
<1>7. QueueInv'
  <2>1. \A k \in DOMAIN queue : queue[k].id = key[2] =>
           /\ queue[k].available # {} => Fenced(served)'
           /\ \A i \in CompletedBy(queue[k]) : instances'[i].result
    BY <1>4, <1>5, <1>6
  <2>2. key[2] \in Nat /\ key[2] <= sent /\ key[2] <= sent - Len(queue) + 1 /\ key[2] = queue[1].id
    BY <1>4, <1>5, QueueTypes
  <2> HIDE DEF key, m
  <2> QED
    BY <1>1, <1>2, <1>3, <1>6, <2>1, <2>2, QueuePersisted
<1> QED
  BY <1>6, <1>7

\* The first message is acknowledged, or the acknowledgement is lost.
LEMMA AcknowledgeStep ==
    ASSUME DemandTypeOK, QueueInv, Acknowledge
    PROVE  QueueInv' /\ queue' \in Seq(Messages) /\ sent' = sent
<1>1. /\ UNCHANGED vars /\ jobs' = jobs /\ sent' = sent /\ ended' = ended
      /\ listener = "ack" /\ listener' \in {"poll", "lower", "raise"}
      /\ queue' \in {queue, Tail(queue)}
      /\ queue' = Tail(queue) \/ listener' # "lower"
  BY DEF Acknowledge, Listen, AfterAck, AfterFailedAck
<1>2. queue # <<>> /\ Seen(queue[1]) /\ queue \in Seq(Messages)
  BY <1>1 DEF QueueInv, Handed, DemandTypeOK
<1>3. CASE queue' = Tail(queue)
  <2>1. QueueInv'
    BY <1>1, <1>2, <1>3, QueueAcknowledged
  <2> QED
    BY <1>1, <1>2, <1>3, <2>1, HeadTailProperties
<1>4. CASE queue' = queue /\ queue' # Tail(queue)
  <2>1. Transaction({})
    BY <1>1, NoTransaction DEF DemandTypeOK
  <2>2. QueueInv'
    BY <1>1, <1>4, <2>1, QueueKept
  <2> QED
    BY <1>1, <1>2, <1>4, <2>2
<1> QED
  BY <1>1, <1>3, <1>4

\* The first of the runners that wait.
LEMMA FirstAwaiting ==
    ASSUME DemandTypeOK, awaiting # <<>>
    PROVE  /\ Head(awaiting) = awaiting[1] /\ 1 \in DOMAIN awaiting /\ Head(awaiting) \in Requests
           /\ Tail(awaiting) \in Seq(Requests)
           /\ \A k \in DOMAIN Tail(awaiting) : k + 1 \in DOMAIN awaiting /\ k + 1 # 1
                                               /\ Tail(awaiting)[k] = awaiting[k + 1]
<1>1. awaiting \in Seq(Requests)
  BY DEF DemandTypeOK
<1>2. Len(awaiting) \in Nat \ {0} /\ DOMAIN awaiting = 1 .. Len(awaiting)
  BY <1>1, EmptySeq, LenProperties
<1>3. /\ Head(awaiting) \in Requests /\ Tail(awaiting) \in Seq(Requests)
      /\ Len(Tail(awaiting)) = Len(awaiting) - 1
      /\ \A k \in 1 .. Len(Tail(awaiting)) : Tail(awaiting)[k] = awaiting[k + 1]
  BY <1>1, HeadTailProperties
<1>4. DOMAIN Tail(awaiting) = 1 .. Len(awaiting) - 1
  BY <1>3, LenProperties
<1>5. Head(awaiting) = awaiting[1]
  BY <1>1
<1> QED
  BY <1>2, <1>3, <1>4, <1>5

\* Reports and stops persist no message, and neither does a refresh.
LEMMA NodeStep ==
    ASSUME DemandTypeOK, Configured, NodeActs \/ Refresh
    PROVE  Transaction({})
<1>1. ASSUME NEW i \in Requests, StopInstance(i) PROVE Transaction({})
  BY <1>1, StopTransaction DEF DemandTypeOK
<1>2. CASE ReportArrives
  <2>1. PICK vms : Sync(worker, Health, vms)
    BY <1>2 DEF ReportArrives
  <2> QED
    BY <2>1, SyncTransaction DEF DemandTypeOK
<1>3. CASE Refresh
  <2>1. snapshot["manager"].desired \in Nat
    BY DEF DemandTypeOK, Counts
  <2> QED
    BY <1>3, <2>1, RefreshTransaction DEF Refresh, DemandTypeOK
<1> QED
  BY <1>1, <1>2, <1>3, NoTransaction DEF NodeActs, DemandTypeOK

\* The manager's loop, the Node and a crash leave GitHub and the fence alone.
LEMMA OtherSteps ==
    ASSUME DemandTypeOK, Configured, Provisioning,
           NodeActs \/ Manager \/ Connect \/ Disconnect \/ ControllerCrash
    PROVE  /\ \E F : Transaction(F)
           /\ UNCHANGED <<jobs, queue, sent, ended>>
           /\ listener' \in {"acquire", "ack", "lower"} => listener' = listener
<1>1. /\ UNCHANGED <<jobs, queue, sent, ended>>
      /\ listener' \in {"acquire", "ack", "lower"} => listener' = listener
  BY DEF NodeActs, Manager, Connect, Disconnect, ControllerCrash, Tick, Refresh, ReadDemand, List,
         AllocateOne, Provide, AllProvided, Register, StoreJIT, githubVars, listenerVars, Listen
<1>2. UNCHANGED vars => \E F : Transaction(F)
  BY NoTransaction DEF DemandTypeOK
<1>3. NodeActs \/ Refresh => \E F : Transaction(F)
  BY NodeStep
<1>4. Tick \/ ReadDemand \/ List \/ AllProvided \/ Register \/ Connect \/ Disconnect \/ ControllerCrash
         => \E F : Transaction(F)
  BY <1>2 DEF Tick, ReadDemand, List, AllProvided, Register, Connect, Disconnect, ControllerCrash
<1>5. ASSUME AllocateOne PROVE \E F : Transaction(F)
  <2>1. ASSUME ~Requests \subseteq DOMAIN instances,
               Allocate(CHOOSE i \in Requests : i \notin DOMAIN instances, served)
        PROVE  \E F : Transaction(F)
    <3>1. (CHOOSE i \in Requests : i \notin DOMAIN instances) \in Requests
      BY <2>1
    <3> QED
      BY <2>1, <3>1, AllocateTransaction DEF DemandTypeOK
  <2> QED
    BY <1>2, <1>5, <2>1 DEF AllocateOne
<1>6. ASSUME Provide PROVE \E F : Transaction(F)
  <2>1. Head(awaiting) \in Requests
    BY <1>6, FirstAwaiting DEF Provide
  <2>2. StopInstance(Head(awaiting)) => \E F : Transaction(F)
    BY <2>1, StopTransaction DEF DemandTypeOK
  <2> QED
    BY <1>2, <1>6, <2>2 DEF Provide
<1>7. ASSUME StoreJIT PROVE \E F : Transaction(F)
  <2>1. Head(awaiting) \in Requests
    BY <1>7, FirstAwaiting DEF StoreJIT, Provisioning
  <2>2. SetJIT(Head(awaiting)) => \E F : Transaction(F)
    BY <2>1, JITTransaction DEF DemandTypeOK
  <2> QED
    BY <1>2, <1>7, <2>2 DEF StoreJIT
<1> QED
  BY <1>1, <1>3, <1>4, <1>5, <1>6, <1>7 DEF Manager

-----------------------------------------------------------------------------
(* Runners, and what Reconcile provides for them.                          *)

\* What Reconcile relies on, and what a stored JIT configuration is good for.
ProvidingInv == Provisioning /\ StoredIsRegistered

\* Steps of others leave what Reconcile has read good.
LEMMA ProvidingKept ==
    ASSUME DemandTypeOK, ProvidingInv, RowsGoOn({}), UNCHANGED <<awaiting, stored>>,
           ended \subseteq ended',
           \A i \in Requests : registered'[i] = registered[i] \/ i \in ended',
           manager' \in {"register", "store"} => manager' = manager
    PROVE  ProvidingInv'
<1>1. \A k \in DOMAIN awaiting : awaiting[k] \in DOMAIN instances' /\ ~instances'[awaiting[k]].ready
  BY DEF ProvidingInv, Provisioning, RowsGoOn
<1>2. \A i \in Requests : stored[i] # 0 => i \in DOMAIN instances' /\ instances'[i].ready
  BY DEF ProvidingInv, Provisioning, RowsGoOn
<1>3. Provisioning'
  BY <1>1, <1>2 DEF ProvidingInv, Provisioning
<1>4. StoredIsRegistered'
  BY DEF ProvidingInv, StoredIsRegistered
<1> QED
  BY <1>3, <1>4 DEF ProvidingInv

\* Reconcile goes on, and only what is registered for runners that are not
\* ready changes.
LEMMA ProvidingGoesOn ==
    ASSUME DemandTypeOK, ProvidingInv, RowsGoOn({}), UNCHANGED <<stored, ended>>,
           \A i \in Requests : registered'[i] = registered[i] \/ stored[i] = 0,
           \A k \in DOMAIN awaiting' :
               awaiting'[k] \in DOMAIN instances' /\ ~instances'[awaiting'[k]].ready,
           \A k, l \in DOMAIN awaiting' : awaiting'[k] = awaiting'[l] => k = l,
           manager' \in {"register", "store"} => awaiting' # <<>>
    PROVE  ProvidingInv'
<1>1. \A i \in Requests : stored[i] # 0 => i \in DOMAIN instances' /\ instances'[i].ready
  BY DEF ProvidingInv, Provisioning, RowsGoOn
<1>2. Provisioning'
  BY <1>1 DEF Provisioning
<1>3. StoredIsRegistered'
  BY DEF ProvidingInv, StoredIsRegistered
<1> QED
  BY <1>2, <1>3 DEF ProvidingInv

\* Reconcile is over.
LEMMA ProvidingEnds ==
    ASSUME DemandTypeOK, ProvidingInv, UNCHANGED vars, UNCHANGED <<stored, ended>>, Provided,
           \A i \in Requests : registered'[i] = registered[i] \/ stored[i] = 0
    PROVE  ProvidingInv'
<1>1. RowsGoOn({})
  BY NoTransaction DEF Transaction, DemandTypeOK
<1>2. awaiting' = <<>> /\ manager' = "tick" /\ DOMAIN awaiting' = {}
  BY DEF Provided
<1> QED
  BY <1>1, <1>2, ProvidingGoesOn

\* Nothing is stored for the runner that is next.
LEMMA FirstUnstored ==
    ASSUME DemandTypeOK, ProvidingInv, awaiting # <<>>
    PROVE  /\ Head(awaiting) \in Requests /\ Head(awaiting) \in DOMAIN instances
           /\ ~instances[Head(awaiting)].ready /\ stored[Head(awaiting)] = 0
BY FirstAwaiting DEF ProvidingInv, Provisioning

\* When one runner is provided for, the others still wait.
LEMMA OthersAwait ==
    ASSUME DemandTypeOK, ProvidingInv, awaiting # <<>>, RowsGoOn({Head(awaiting)}),
           awaiting' = Tail(awaiting)
    PROVE  /\ \A k \in DOMAIN awaiting' :
                 awaiting'[k] \in DOMAIN instances' /\ ~instances'[awaiting'[k]].ready
           /\ \A k, l \in DOMAIN awaiting' : awaiting'[k] = awaiting'[l] => k = l
<1>1. DOMAIN awaiting \subseteq Nat
  BY LenProperties DEF DemandTypeOK
<1>2. \A k \in DOMAIN awaiting' :
         /\ k \in Int /\ k + 1 \in DOMAIN awaiting /\ k + 1 # 1 /\ awaiting'[k] = awaiting[k + 1]
  <2>1. DOMAIN Tail(awaiting) \subseteq Int
    BY FirstAwaiting, LenProperties
  <2> QED
    BY <2>1, FirstAwaiting
<1>3. Head(awaiting) = awaiting[1] /\ 1 \in DOMAIN awaiting
  BY FirstAwaiting
<1>4. \A k, l \in DOMAIN awaiting' : awaiting'[k] = awaiting'[l] => k = l
  BY <1>2 DEF ProvidingInv, Provisioning
<1>5. ASSUME NEW k \in DOMAIN awaiting'
      PROVE  awaiting'[k] \in DOMAIN instances' /\ ~instances'[awaiting'[k]].ready
  <2>1. awaiting'[k] # Head(awaiting)
    BY <1>2, <1>3 DEF ProvidingInv, Provisioning
  <2>2. awaiting'[k] \in DOMAIN instances /\ ~instances[awaiting'[k]].ready
    BY <1>2 DEF ProvidingInv, Provisioning
  <2> QED
    BY <2>1, <2>2 DEF RowsGoOn
<1> QED
  BY <1>4, <1>5

\* Reconcile lists the runners that wait, each once.
LEMMA ListStep ==
    ASSUME DemandTypeOK, ProvidingInv, List
    PROVE  ProvidingInv' /\ awaiting' \in Seq(Requests)
<1> DEFINE S == {i \in DOMAIN instances : AwaitsRunner(instances[i])}
<1>1. PICK order \in [1 .. Cardinality(S) -> DOMAIN instances] :
         {order[k] : k \in DOMAIN order} = S /\ awaiting' = order
  BY DEF List
<1>2. /\ UNCHANGED vars /\ UNCHANGED <<stored, ended, registered>> /\ manager' = "allocate"
  BY DEF List, githubVars
<1>3. DOMAIN instances \subseteq Requests /\ IsFiniteSet(S) /\ Cardinality(S) \in Nat
  <2>1. DOMAIN instances \subseteq Requests
    BY DEF DemandTypeOK, TypeOK, IsTable
  <2>2. IsFiniteSet(S)
    BY <2>1, RequestsAreFinite, FS_Subset
  <2> QED
    BY <2>1, <2>2, FS_CardinalityType
<1>4. \A i \in S : ~instances[i].ready
  BY DEF AwaitsRunner
<1> HIDE DEF S
<1>5. awaiting' \in Seq(Requests) /\ DOMAIN awaiting' = 1 .. Cardinality(S)
  BY <1>1, <1>3, SeqDef
<1>6. \A k, l \in DOMAIN awaiting' : awaiting'[k] = awaiting'[l] => k = l
  <2>1. order \in Surjection(1 .. Cardinality(S), S)
    BY <1>1 DEF Surjection
  <2>2. IsFiniteSet(1 .. Cardinality(S)) /\ Cardinality(1 .. Cardinality(S)) = Cardinality(S)
    BY <1>3, FS_Interval
  <2>3. order \in Injection(1 .. Cardinality(S), S)
    BY <2>1, <2>2, FS_SurjSameCardinalityImpliesInj
  <2> QED
    BY <1>1, <1>5, <2>3 DEF Injection, IsInjective
<1>7. \A k \in DOMAIN awaiting' : awaiting'[k] \in S /\ awaiting'[k] \in DOMAIN instances
  BY <1>1
<1>8. RowsGoOn({}) /\ instances' = instances
  BY <1>2, NoTransaction DEF Transaction, DemandTypeOK
<1>9. ProvidingInv'
  BY <1>2, <1>4, <1>6, <1>7, <1>8, ProvidingGoesOn
<1> QED
  BY <1>5, <1>9

\* A new instance joins those that wait.
LEMMA AllocateOneStep ==
    ASSUME DemandTypeOK, Configured, ProvidingInv, AllocateOne
    PROVE  ProvidingInv' /\ awaiting' \in Seq(Requests)
<1> DEFINE i == CHOOSE i \in Requests : i \notin DOMAIN instances
<1>1. awaiting \in Seq(Requests) /\ Len(awaiting) \in Nat /\ DOMAIN awaiting = 1 .. Len(awaiting)
  BY LenProperties DEF DemandTypeOK
<1>2. UNCHANGED <<stored, ended, registered>>
  BY DEF AllocateOne, githubVars
<1>3. CASE UNCHANGED vars /\ Manage("provide")
  <2>1. awaiting' = awaiting /\ manager' = "provide"
    BY <1>3 DEF Manage
  <2>2. RowsGoOn({})
    BY <1>3, NoTransaction DEF Transaction, DemandTypeOK
  <2> QED
    BY <1>1, <1>2, <2>1, <2>2, ProvidingKept
<1>4. CASE ~Requests \subseteq DOMAIN instances /\ Allocate(i, served) /\ awaiting' = Append(awaiting, i)
           /\ manager' = "provide"
  <2>1. i \in Requests
    BY <1>4
  <2> HIDE DEF i
  <2>2. /\ RowsGoOn({}) /\ i \notin DOMAIN instances
        /\ DOMAIN instances' = DOMAIN instances \cup {i} /\ ~instances'[i].ready
    BY <1>4, <2>1, AllocateTransaction DEF Transaction, DemandTypeOK
  <2>3. /\ awaiting' \in Seq(Requests) /\ Len(awaiting') = Len(awaiting) + 1
        /\ \A k \in 1 .. Len(awaiting) : awaiting'[k] = awaiting[k]
        /\ awaiting'[Len(awaiting) + 1] = i
    BY <1>1, <1>4, <2>1, AppendProperties
  <2>4. DOMAIN awaiting' = 1 .. Len(awaiting) + 1
    BY <2>3, LenProperties
  <2>5. \A k \in DOMAIN awaiting' : \/ k \in DOMAIN awaiting /\ awaiting'[k] = awaiting[k]
                                    \/ k = Len(awaiting) + 1 /\ awaiting'[k] = i
    BY <1>1, <2>3, <2>4
  <2>6. \A k \in DOMAIN awaiting : /\ awaiting[k] \in DOMAIN instances /\ awaiting[k] # i
                                   /\ awaiting[k] \in DOMAIN instances'
                                   /\ ~instances'[awaiting[k]].ready
    BY <2>2 DEF ProvidingInv, Provisioning, RowsGoOn
  <2>7. \A k \in DOMAIN awaiting' :
           awaiting'[k] \in DOMAIN instances' /\ ~instances'[awaiting'[k]].ready
    BY <2>2, <2>5, <2>6
  <2>8. \A k, l \in DOMAIN awaiting' : awaiting'[k] = awaiting'[l] => k = l
    BY <2>5, <2>6 DEF ProvidingInv, Provisioning
  <2>9. ProvidingInv'
    BY <1>2, <1>4, <2>2, <2>7, <2>8, ProvidingGoesOn
  <2> QED
    BY <2>3, <2>9
<1>5. CASE UNCHANGED vars /\ Provided
  BY <1>2, <1>5, EmptySeq, ProvidingEnds DEF Provided
<1> QED
  BY <1>3, <1>4, <1>5 DEF AllocateOne

\* Reconcile stops the runner that is next, or removes an old registration.
LEMMA ProvideStep ==
    ASSUME DemandTypeOK, ProvidingInv, Provide
    PROVE  /\ ProvidingInv' /\ awaiting' \in Seq(Requests)
           /\ registered' \in [Requests -> 0 .. issued]
<1> DEFINE i == Head(awaiting)
<1>1. /\ awaiting # <<>> /\ awaiting \in Seq(Requests) /\ Tail(awaiting) \in Seq(Requests)
      /\ i \in Requests /\ stored[i] = 0
  BY FirstAwaiting, FirstUnstored DEF Provide, DemandTypeOK
<1>2. UNCHANGED <<stored, ended>>
  BY DEF Provide
<1>3. registered \in [Requests -> 0 .. issued] /\ issued \in Nat
  BY DEF DemandTypeOK
<1>4. CASE /\ UNCHANGED vars \/ StopInstance(i)
           /\ manager' = "provide" /\ awaiting' = Tail(awaiting) /\ registered' = registered
  <2>1. RowsGoOn({})
    BY <1>1, <1>4, NoTransaction, StopTransaction DEF Transaction, DemandTypeOK
  <2>2. RowsGoOn({i})
    BY <2>1 DEF RowsGoOn
  <2> HIDE DEF i
  <2>3. /\ \A k \in DOMAIN awaiting' :
              awaiting'[k] \in DOMAIN instances' /\ ~instances'[awaiting'[k]].ready
        /\ \A k, l \in DOMAIN awaiting' : awaiting'[k] = awaiting'[l] => k = l
    BY <1>1, <1>4, <2>2, OthersAwait DEF i
  <2>4. ProvidingInv'
    BY <1>2, <1>4, <2>1, <2>3, ProvidingGoesOn
  <2> QED
    BY <1>1, <1>3, <1>4, <2>4
<1>5. CASE UNCHANGED vars /\ registered' = [registered EXCEPT ![i] = 0] /\ Manage("register")
  <2>1. RowsGoOn({}) /\ instances' = instances
    BY <1>5, NoTransaction DEF Transaction, DemandTypeOK
  <2>2. /\ awaiting' = awaiting /\ registered' \in [Requests -> 0 .. issued]
        /\ \A j \in Requests : registered'[j] = registered[j] \/ stored[j] = 0
    BY <1>1, <1>3, <1>5 DEF Manage
  <2>3. ProvidingInv'
    BY <1>1, <1>2, <2>1, <2>2, ProvidingGoesOn DEF ProvidingInv, Provisioning
  <2> QED
    BY <1>1, <2>2, <2>3
<1>6. CASE /\ UNCHANGED vars /\ Provided
           /\ registered' \in {registered, [registered EXCEPT ![i] = 0]}
  <2>1. /\ registered' \in [Requests -> 0 .. issued]
        /\ \A j \in Requests : registered'[j] = registered[j] \/ stored[j] = 0
    BY <1>1, <1>3, <1>6
  <2>2. ProvidingInv'
    BY <1>2, <1>6, <2>1, ProvidingEnds
  <2> QED
    BY <1>6, <2>1, <2>2, EmptySeq DEF Provided
<1> QED
  BY <1>4, <1>5, <1>6 DEF Provide

\* A new registration is generated for the runner that is next.
LEMMA RegisterStep ==
    ASSUME DemandTypeOK, ProvidingInv, Register
    PROVE  /\ ProvidingInv' /\ awaiting' \in Seq(Requests) /\ issued' \in Nat /\ issued <= issued'
           /\ registered' \in [Requests -> 0 .. issued']
<1> DEFINE i == Head(awaiting)
<1>1. awaiting # <<>> /\ awaiting \in Seq(Requests) /\ i \in Requests /\ stored[i] = 0
  BY FirstUnstored DEF Register, DemandTypeOK, ProvidingInv, Provisioning
<1>2. UNCHANGED vars /\ UNCHANGED <<stored, ended>>
  BY DEF Register
<1>3. registered \in [Requests -> 0 .. issued] /\ issued \in Nat
  BY DEF DemandTypeOK
<1>4. /\ issued' \in Nat /\ issued <= issued' /\ registered' \in [Requests -> 0 .. issued']
      /\ \A j \in Requests : registered'[j] = registered[j] \/ stored[j] = 0
  <2>1. CASE registered' = [registered EXCEPT ![i] = issued + 1] /\ issued' = issued + 1
    <3>1. \A j \in Requests : registered[j] \in 0 .. issued + 1
      BY <1>3
    <3>2. issued + 1 \in 0 .. issued + 1
      BY <1>3
    <3> QED
      BY <1>1, <1>3, <2>1, <3>1, <3>2
  <2>2. CASE registered' = registered /\ issued' = issued
    BY <1>3, <2>2
  <2> QED
    BY <2>1, <2>2 DEF Register
<1>5. CASE Manage("store")
  <2>1. awaiting' = awaiting
    BY <1>5 DEF Manage
  <2>2. RowsGoOn({}) /\ instances' = instances
    BY <1>2, NoTransaction DEF Transaction, DemandTypeOK
  <2>3. ProvidingInv'
    BY <1>1, <1>2, <1>4, <2>1, <2>2, ProvidingGoesOn DEF ProvidingInv, Provisioning
  <2> QED
    BY <1>1, <1>4, <2>1, <2>3
<1>6. CASE Provided
  BY <1>2, <1>4, <1>6, EmptySeq, ProvidingEnds DEF Provided
<1> QED
  BY <1>5, <1>6 DEF Register

\* The JIT configuration of the runner that is next is stored, or discarded.
LEMMA StoreJITStep ==
    ASSUME DemandTypeOK, ProvidingInv, StoreJIT
    PROVE  /\ ProvidingInv' /\ awaiting' \in Seq(Requests)
           /\ registered' \in [Requests -> 0 .. issued] /\ stored' \in [Requests -> 0 .. issued]
<1> DEFINE i == Head(awaiting)
<1>1. /\ awaiting # <<>> /\ awaiting \in Seq(Requests) /\ Tail(awaiting) \in Seq(Requests)
      /\ i \in Requests /\ i \in DOMAIN instances /\ stored[i] = 0
  BY FirstAwaiting, FirstUnstored DEF StoreJIT, DemandTypeOK, ProvidingInv, Provisioning
<1>2. ended' = ended
  BY DEF StoreJIT
<1>3. /\ registered \in [Requests -> 0 .. issued] /\ stored \in [Requests -> 0 .. issued]
      /\ issued \in Nat
  BY DEF DemandTypeOK
<1>4. CASE /\ SetJIT(i) /\ stored' = [stored EXCEPT ![i] = registered[i]]
           /\ manager' = "provide" /\ awaiting' = Tail(awaiting) /\ registered' = registered
  <2>1. RowsGoOn({i}) /\ instances'[i].ready
    BY <1>1, <1>4, JITTransaction DEF Transaction, DemandTypeOK
  <2> HIDE DEF i
  <2>2. /\ \A k \in DOMAIN awaiting' :
              awaiting'[k] \in DOMAIN instances' /\ ~instances'[awaiting'[k]].ready
        /\ \A k, l \in DOMAIN awaiting' : awaiting'[k] = awaiting'[l] => k = l
    BY <1>1, <1>4, <2>1, OthersAwait DEF i
  <2>3. stored' \in [Requests -> 0 .. issued]
    BY <1>1, <1>3, <1>4
  <2>4. \A j \in Requests : stored'[j] # 0 => j \in DOMAIN instances' /\ instances'[j].ready
    BY <1>1, <1>3, <1>4, <2>1 DEF ProvidingInv, Provisioning, RowsGoOn
  <2>5. \A j \in Requests : stored'[j] # 0 /\ j \notin ended' => registered'[j] = stored'[j]
    BY <1>1, <1>2, <1>3, <1>4 DEF ProvidingInv, StoredIsRegistered
  <2>6. Provisioning' /\ StoredIsRegistered'
    BY <1>4, <2>2, <2>4, <2>5 DEF Provisioning, StoredIsRegistered
  <2> QED
    BY <1>1, <1>3, <1>4, <2>3, <2>6 DEF ProvidingInv
<1>5. CASE /\ UNCHANGED vars /\ Provided /\ stored' = stored
           /\ registered' = registered \/ registered' = [registered EXCEPT ![i] = 0]
  <2>1. /\ registered' \in [Requests -> 0 .. issued]
        /\ \A j \in Requests : registered'[j] = registered[j] \/ stored[j] = 0
    BY <1>1, <1>3, <1>5
  <2>2. ProvidingInv'
    BY <1>2, <1>5, <2>1, ProvidingEnds
  <2> QED
    BY <1>3, <1>5, <2>1, <2>2, EmptySeq DEF Provided
<1> QED
  BY <1>4, <1>5 DEF StoreJIT

-----------------------------------------------------------------------------
(* The invariant.                                                          *)

DemandInv == Configured /\ Sessions /\ Runners /\ QueueInv /\ ProvidingInv

\* Every step keeps what is between the messages and the store.
LEMMA QueueStep ==
    ASSUME DemandTypeOK, DemandInv, [DemandNext]_demandSystem
    PROVE  /\ QueueInv' /\ TypeOK' /\ config' = config /\ \E F : RowsGoOn(F)
           /\ jobs' \in [Jobs -> JobStates] /\ queue' \in Seq(Messages) /\ sent' \in Nat
           /\ ended' \subseteq Requests
<1> USE DEF DemandInv
<1>1. /\ jobs \in [Jobs -> JobStates] /\ queue \in Seq(Messages) /\ sent \in Nat
      /\ ended \subseteq Requests /\ TypeOK
  BY DEF DemandTypeOK
<1>2. UNCHANGED vars => TypeOK' /\ config' = config /\ \E F : RowsGoOn(F)
  BY <1>1, NoTransaction DEF Transaction
<1>3. CASE GitHubActs
  BY <1>2, <1>3, GitHubStep DEF GitHubActs
<1>4. CASE NodeActs \/ Manager \/ Connect \/ Disconnect \/ ControllerCrash
  <2>1. /\ \E F : Transaction(F)
        /\ UNCHANGED <<jobs, queue, sent, ended>>
        /\ listener' \in {"acquire", "ack", "lower"} => listener' = listener
    BY <1>4, OtherSteps DEF ProvidingInv
  <2>2. QueueInv'
    BY <2>1, QueueKept
  <2> QED
    BY <1>1, <2>1, <2>2 DEF Transaction
<1>5. CASE Open \/ Receive \/ SetFence
  <2>1. UNCHANGED <<jobs, queue, sent, ended>>
    BY <1>5 DEF Open, Receive, SetFence, githubVars
  <2> QED
    BY <1>1, <1>5, <2>1, OpenStep, ReceiveStep, QueueFenced
<1>6. CASE Acquire
  <2>1. UNCHANGED vars /\ ended' = ended
    BY <1>6 DEF Acquire
  <2> QED
    BY <1>1, <1>2, <1>6, <2>1, AcquireStep
<1>7. CASE Acknowledge
  <2>1. UNCHANGED vars /\ ended' = ended /\ jobs' = jobs
    BY <1>7 DEF Acknowledge
  <2> QED
    BY <1>1, <1>2, <1>7, <2>1, AcknowledgeStep
<1>8. CASE UNCHANGED demandSystem
  <2>1. UNCHANGED vars /\ UNCHANGED <<jobs, queue, sent, ended, listener>>
    BY <1>8 DEF demandSystem, githubVars, listenerVars
  <2>2. Transaction({})
    BY <1>1, <2>1, NoTransaction
  <2>3. QueueInv'
    BY <2>1, <2>2, QueueKept
  <2> QED
    BY <1>1, <1>2, <2>1, <2>3
<1> QED
  BY <1>3, <1>4, <1>5, <1>6, <1>7, <1>8 DEF DemandNext, Listener

\* Every step keeps what Reconcile relies on.
LEMMA ProvidingStep ==
    ASSUME DemandTypeOK, DemandInv, [DemandNext]_demandSystem
    PROVE  /\ ProvidingInv' /\ awaiting' \in Seq(Requests) /\ issued' \in Nat
           /\ registered' \in [Requests -> 0 .. issued'] /\ stored' \in [Requests -> 0 .. issued']
<1> USE DEF DemandInv
<1>1. /\ awaiting \in Seq(Requests) /\ issued \in Nat
      /\ registered \in [Requests -> 0 .. issued] /\ stored \in [Requests -> 0 .. issued]
  BY DEF DemandTypeOK
<1>2. UNCHANGED vars => RowsGoOn({})
  BY NoTransaction DEF Transaction, DemandTypeOK
<1>3. CASE GitHubActs
  <2>1. /\ UNCHANGED vars /\ UNCHANGED <<awaiting, manager, stored>>
    BY <1>3 DEF GitHubActs, managerVars
  <2>2. /\ issued' = issued /\ ended \subseteq ended'
        /\ registered' \in [Requests -> 0 .. issued]
        /\ \A i \in Requests : registered'[i] = registered[i] \/ i \in ended'
    <3>1. ASSUME NEW j \in Jobs, NEW i \in Requests, JobEnds(j, i)
          PROVE  /\ issued' = issued /\ ended' = ended \cup {i}
                 /\ registered' = [registered EXCEPT ![i] = 0]
      BY <3>1 DEF JobEnds
    <3>2. CASE UNCHANGED <<registered, issued, ended>>
      BY <1>1, <3>2
    <3>3. CASE \E j \in Jobs, i \in Requests : JobEnds(j, i)
      <4>1. PICK i \in Requests : /\ issued' = issued /\ ended' = ended \cup {i}
                                  /\ registered' = [registered EXCEPT ![i] = 0]
        BY <3>1, <3>3
      <4> QED
        BY <1>1, <4>1
    <3> QED
      BY <1>3, <3>2, <3>3 DEF GitHubActs, JobQueued, JobStarts
  <2>3. ProvidingInv'
    BY <1>2, <2>1, <2>2, ProvidingKept
  <2> QED
    BY <1>1, <2>1, <2>2, <2>3
<1>4. CASE NodeActs \/ Refresh \/ Tick \/ ReadDemand
  <2>1. RowsGoOn({})
    BY <1>2, <1>4, NodeStep DEF Tick, ReadDemand, Transaction
  <2>2. /\ UNCHANGED <<awaiting, stored, registered, issued, ended>>
        /\ manager' \in {"register", "store"} => manager' = manager
    BY <1>4 DEF NodeActs, Refresh, Tick, ReadDemand, Manage, githubVars, managerVars
  <2>3. ProvidingInv'
    BY <2>1, <2>2, ProvidingKept
  <2> QED
    BY <1>1, <2>2, <2>3
<1>5. CASE Listener \/ Disconnect
  <2>1. RowsGoOn({})
    BY <1>2, <1>5, OpenStep, ReceiveStep, QueueFenced
       DEF Listener, Connect, Acquire, Acknowledge, Disconnect
  <2>2. UNCHANGED <<awaiting, stored, registered, issued, ended, manager>>
    BY <1>5 DEF Listener, Connect, Open, Receive, Acquire, Acknowledge, SetFence, Disconnect,
                githubVars, managerVars
  <2>3. ProvidingInv'
    BY <2>1, <2>2, ProvidingKept
  <2> QED
    BY <1>1, <2>2, <2>3
<1>6. CASE List
  <2>1. UNCHANGED <<stored, registered, issued>>
    BY <1>6 DEF List, githubVars
  <2> QED
    BY <1>1, <1>6, <2>1, ListStep
<1>7. CASE AllocateOne
  <2>1. UNCHANGED <<stored, registered, issued>>
    BY <1>7 DEF AllocateOne, githubVars
  <2> QED
    BY <1>1, <1>7, <2>1, AllocateOneStep
<1>8. CASE Provide
  <2>1. UNCHANGED <<stored, issued>>
    BY <1>8 DEF Provide
  <2> QED
    BY <1>1, <1>8, <2>1, ProvideStep
<1>9. CASE AllProvided \/ ControllerCrash
  <2>1. UNCHANGED vars /\ UNCHANGED <<stored, registered, issued, ended>> /\ Provided
    BY <1>9 DEF AllProvided, ControllerCrash, githubVars
  <2>2. ProvidingInv'
    BY <2>1, ProvidingEnds
  <2> QED
    BY <1>1, <2>1, <2>2, EmptySeq DEF Provided
<1>10. CASE Register
  <2>1. stored' = stored
    BY <1>10 DEF Register
  <2>2. /\ ProvidingInv' /\ awaiting' \in Seq(Requests) /\ issued' \in Nat /\ issued <= issued'
        /\ registered' \in [Requests -> 0 .. issued']
    BY <1>10, RegisterStep
  <2>3. \A i \in Requests : stored[i] \in 0 .. issued'
    BY <1>1, <2>2
  <2>4. stored' \in [Requests -> 0 .. issued']
    BY <1>1, <2>1, <2>3
  <2> QED
    BY <2>2, <2>4
<1>11. CASE StoreJIT
  <2>1. issued' = issued
    BY <1>11 DEF StoreJIT
  <2> QED
    BY <1>1, <1>11, <2>1, StoreJITStep
<1>12. CASE UNCHANGED demandSystem
  <2>1. UNCHANGED vars /\ UNCHANGED <<awaiting, stored, registered, issued, ended, manager>>
    BY <1>12 DEF demandSystem, githubVars, managerVars
  <2>2. ProvidingInv'
    BY <1>2, <2>1, ProvidingKept
  <2> QED
    BY <1>1, <2>1, <2>2
<1> QED
  BY <1>3, <1>4, <1>5, <1>6, <1>7, <1>8, <1>9, <1>10, <1>11, <1>12 DEF DemandNext, Manager

\* The types of what the two loops, the guests and the bounds keep.
LoopTypes ==
    /\ taken \in [Requests -> Jobs \cup {NoJob}]
    /\ vm \in [Requests -> {"none", "on", "off", "gone"}]
    /\ listener \in {"connect", "open", "poll", "acquire", "ack", "raise", "lower"}
    /\ session \in 0 .. FaultLimit + 1
    /\ manager \in {"tick", "refresh", "read", "list", "allocate",
                   "provide", "register", "store"}
    /\ snapshot \in [{"listener", "manager"} -> Counts]
    /\ short \in BOOLEAN
    /\ stops \in Nat /\ basis \in Nat
    /\ faults \in 0 .. FaultLimit

\* Guests come up for instances, and only those that came up take jobs.
LEMMA GuestStep ==
    ASSUME DemandTypeOK, DemandInv, [DemandNext]_demandSystem
    PROVE  /\ Runners'
           /\ taken' \in [Requests -> Jobs \cup {NoJob}]
           /\ vm' \in [Requests -> {"none", "on", "off", "gone"}]
<1>1. /\ taken \in [Requests -> Jobs \cup {NoJob}]
      /\ vm \in [Requests -> {"none", "on", "off", "gone"}]
      /\ DOMAIN instances \subseteq Requests
  BY DEF DemandTypeOK, TypeOK, IsTable
<1>2. DOMAIN instances \subseteq DOMAIN instances'
  BY QueueStep DEF RowsGoOn
<1>3. \/ taken' = taken
      \/ \E i \in Requests, j \in Jobs : vm[i] = "on" /\ taken' = [taken EXCEPT ![i] = j]
  <2>1. GitHubActs => \/ taken' = taken
                      \/ \E i \in Requests, j \in Jobs :
                            vm[i] = "on" /\ taken' = [taken EXCEPT ![i] = j]
    BY DEF GitHubActs, JobQueued, JobStarts, JobEnds
  <2>2. NodeActs \/ Manager \/ Disconnect \/ ControllerCrash => taken' = taken
    BY DEF NodeActs, Manager, Disconnect, ControllerCrash, Tick, Refresh, ReadDemand, List,
           AllocateOne, Provide, AllProvided, Register, StoreJIT, githubVars
  <2>3. Listener => taken' = taken
    BY DEF Listener, Connect, Open, Receive, Acquire, Acknowledge, SetFence, githubVars
  <2>4. UNCHANGED demandSystem => taken' = taken
    BY DEF demandSystem, githubVars
  <2> QED
    BY <2>1, <2>2, <2>3, <2>4 DEF DemandNext
<1>4. \/ vm' = vm
      \/ \E i \in DOMAIN instances, v \in {"on", "off", "gone"} : vm' = [vm EXCEPT ![i] = v]
  <2>1. NodeActs => \/ vm' = vm
                    \/ \E i \in DOMAIN instances, v \in {"on", "off", "gone"} :
                          vm' = [vm EXCEPT ![i] = v]
    BY DEF NodeActs, VMChanges, ReportArrives, nodeSideVars
  <2>2. GitHubActs \/ Manager \/ Disconnect \/ ControllerCrash => vm' = vm
    BY DEF GitHubActs, Manager, Disconnect, ControllerCrash, Tick, Refresh, ReadDemand, List,
           AllocateOne, Provide, AllProvided, Register, StoreJIT, nodeSideVars
  <2>3. Listener => vm' = vm
    BY DEF Listener, Connect, Open, Receive, Acquire, Acknowledge, SetFence, nodeSideVars
  <2>4. UNCHANGED demandSystem => vm' = vm
    BY DEF demandSystem, nodeSideVars
  <2> QED
    BY <2>1, <2>2, <2>3, <2>4 DEF DemandNext
<1>5. \A i \in Requests : vm[i] # "none" \/ taken[i] # NoJob => i \in DOMAIN instances
  BY DEF DemandInv, Runners
<1>6. /\ taken' \in [Requests -> Jobs \cup {NoJob}]
      /\ \A i \in Requests : taken'[i] # NoJob => i \in DOMAIN instances
  BY <1>1, <1>3, <1>5
<1>7. /\ vm' \in [Requests -> {"none", "on", "off", "gone"}]
      /\ \A i \in Requests : vm'[i] # "none" => i \in DOMAIN instances
  BY <1>1, <1>4, <1>5
<1> QED
  BY <1>2, <1>6, <1>7 DEF Runners

\* What a new session or a tick reads are statistics.
LEMMA SnapshotStep ==
    ASSUME DemandTypeOK, [DemandNext]_demandSystem
    PROVE  /\ snapshot' \in [{"listener", "manager"} -> Counts]
           /\ basis' \in Nat /\ stops' \in Nat
<1>1. /\ snapshot \in [{"listener", "manager"} -> Counts] /\ basis \in Nat /\ stops \in Nat
      /\ \A k \in DOMAIN queue : queue[k] \in Messages
      /\ TypeOK
  BY QueueTypes DEF DemandTypeOK
<1>2. NoCount \in Counts /\ CountOf(jobs) \in Counts
  BY CountType DEF NoCount, Counts
<1>3. /\ snapshot["listener"].at \in Nat /\ snapshot["manager"].at \in Nat
      /\ \A desired \in Nat : [snapshot["manager"] EXCEPT !.desired = desired] \in Counts
  BY <1>1 DEF Counts
<1>4. CASE Connect \/ Tick \/ Disconnect \/ ControllerCrash \/ List
  <2>1. snapshot' \in [{"listener", "manager"} -> Counts]
    BY <1>1, <1>2, <1>4 DEF Connect, Tick, Disconnect, ControllerCrash, List, Used, Manage
  <2> QED
    BY <1>1, <1>4, <2>1 DEF Connect, Tick, Disconnect, ControllerCrash, List, nodeSideVars
<1>5. CASE Open \/ Refresh
  <2>1. snapshot' \in [{"listener", "manager"} -> Counts]
    BY <1>1, <1>2, <1>5 DEF Open, Refresh, Used
  <2> QED
    BY <1>1, <1>3, <1>5, <2>1 DEF Open, Refresh, nodeSideVars
<1>6. CASE ReadDemand
  <2>1. served \in DOMAIN demand => demand[served].desired \in Nat
    BY <1>1 DEF TypeOK, IsTable, Demands
  <2>2. \/ snapshot' = snapshot
        \/ \E desired \in Nat : snapshot' = [snapshot EXCEPT !["manager"].desired = desired]
    BY <1>6, <2>1 DEF ReadDemand
  <2>3. snapshot' \in [{"listener", "manager"} -> Counts]
    <3>1. ASSUME NEW desired \in Nat, snapshot' = [snapshot EXCEPT !["manager"].desired = desired]
          PROVE  snapshot' \in [{"listener", "manager"} -> Counts]
      <4>1. snapshot' = [snapshot EXCEPT !["manager"] = [snapshot["manager"] EXCEPT !.desired = desired]]
        BY <3>1
      <4> QED
        BY <1>1, <1>3, <4>1
    <3> QED
      BY <1>1, <2>2, <3>1
  <2> QED
    BY <1>1, <1>6, <2>3 DEF ReadDemand, nodeSideVars
<1>7. CASE Receive
  <2>1. snapshot' = snapshot /\ stops' = stops
    BY <1>7 DEF Receive, nodeSideVars
  <2>2. Head(queue).count.at \in Nat
    <3>1. Head(queue) \in Messages
      BY <1>7, HeadTailProperties DEF Receive, DemandTypeOK
    <3> QED
      BY <3>1 DEF Messages, Counts
  <2>3. basis' \in Nat
    BY <1>1, <1>7, <2>2 DEF Receive, Persist
  <2> QED
    BY <1>1, <2>1, <2>3
<1>8. CASE NodeActs
  <2>1. snapshot' = snapshot /\ basis' = basis
    BY <1>8 DEF NodeActs, countVars
  <2>2. stops' \in Nat
    BY <1>1, <1>8 DEF NodeActs, ReportArrives, nodeSideVars
  <2> QED
    BY <1>1, <2>1, <2>2
<1>9. CASE \/ GitHubActs \/ Acquire \/ Acknowledge \/ SetFence \/ AllocateOne \/ Provide
           \/ AllProvided \/ Register \/ StoreJIT \/ UNCHANGED demandSystem
  BY <1>1, <1>9 DEF GitHubActs, Acquire, Acknowledge, SetFence, AllocateOne, Provide,
                    AllProvided, Register, StoreJIT, demandSystem, countVars, nodeSideVars
<1> QED
  BY <1>4, <1>5, <1>6, <1>7, <1>8, <1>9 DEF DemandNext, Listener, Manager

\* The two loops go from step to step, and a session follows a fault.
LEMMA LoopStep ==
    ASSUME DemandTypeOK, DemandInv, [DemandNext]_demandSystem
    PROVE  Sessions' /\ LoopTypes'
<1>1. /\ Sessions /\ session \in Nat /\ faults \in 0 .. FaultLimit /\ short \in BOOLEAN
      /\ listener \in {"connect", "open", "poll", "acquire", "ack", "raise", "lower"}
      /\ manager \in {"tick", "refresh", "read", "list", "allocate", "provide", "register", "store"}
      /\ FaultLimit \in Nat
  BY DemandInputs DEF DemandTypeOK, DemandInv
<1>2. faults' = faults \/ (faults' = faults + 1 /\ faults < FaultLimit)
  <2>1. GitHubActs \/ NodeActs => faults' = faults
    BY DEF GitHubActs, NodeActs
  <2>2. Listener => faults' = faults \/ (faults' = faults + 1 /\ faults < FaultLimit)
    BY DEF Listener, Connect, Open, Receive, Acquire, Acknowledge, SetFence, Fault
  <2>3. Manager => faults' = faults \/ (faults' = faults + 1 /\ faults < FaultLimit)
    BY DEF Manager, Tick, Refresh, ReadDemand, List, AllocateOne, Provide, AllProvided, Register,
           StoreJIT, Fault
  <2>4. Disconnect \/ ControllerCrash => faults' = faults + 1 /\ faults < FaultLimit
    BY DEF Disconnect, ControllerCrash, Fault
  <2>5. UNCHANGED demandSystem => faults' = faults
    BY DEF demandSystem
  <2> QED
    BY <2>1, <2>2, <2>3, <2>4, <2>5 DEF DemandNext
<1>3. faults' \in 0 .. FaultLimit
  BY <1>1, <1>2
<1>4. /\ listener' \in {"connect", "open", "poll", "acquire", "ack", "raise", "lower"}
      /\ Sessions'
  <2>1. CASE GitHubActs \/ NodeActs \/ Manager \/ UNCHANGED demandSystem
    <3>1. listener' = listener /\ session' = session
      BY <2>1 DEF GitHubActs, NodeActs, Manager, Tick, Refresh, ReadDemand, List, AllocateOne,
                  Provide, AllProvided, Register, StoreJIT, demandSystem, listenerVars
    <3> QED
      BY <1>1, <1>2, <3>1 DEF Sessions
  <2>2. CASE Connect
    <3>1. listener = "connect" /\ session' = session + 1 /\ listener' = "open" /\ faults' = faults
      BY <2>2 DEF Connect
    <3> QED
      BY <1>1, <3>1 DEF Sessions
  <2>3. CASE Open \/ Receive \/ Acquire \/ Acknowledge \/ SetFence
    <3>1. /\ listener # "connect" /\ session' = session
          /\ listener' \in {"poll", "acquire", "ack", "raise", "lower"}
      BY <2>3 DEF Open, Receive, Acquire, Acknowledge, SetFence, Listen, AfterPersist, AfterAck,
                  AfterFailedAck
    <3> QED
      BY <1>1, <1>2, <3>1 DEF Sessions
  <2>4. CASE Disconnect \/ ControllerCrash
    <3>1. session' = session /\ listener' = "connect" /\ faults' = faults + 1
      BY <2>4 DEF Disconnect, ControllerCrash, Listen, Fault
    <3> QED
      BY <1>1, <3>1 DEF Sessions
  <2> QED
    BY <2>1, <2>2, <2>3, <2>4 DEF DemandNext, Listener
<1>5. session' \in 0 .. FaultLimit + 1
  <2>1. CASE Connect
    <3>1. listener = "connect" /\ session' = session + 1
      BY <2>1 DEF Connect
    <3> QED
      BY <1>1, <3>1 DEF Sessions
  <2>2. ~Connect => session' = session
    <3>1. GitHubActs \/ NodeActs \/ Manager \/ UNCHANGED demandSystem => session' = session
      BY DEF GitHubActs, NodeActs, Manager, Tick, Refresh, ReadDemand, List, AllocateOne,
             Provide, AllProvided, Register, StoreJIT, demandSystem, listenerVars
    <3>2. Open \/ Receive \/ Acquire \/ Acknowledge \/ SetFence \/ Disconnect \/ ControllerCrash
             => session' = session
      BY DEF Open, Receive, Acquire, Acknowledge, SetFence, Disconnect, ControllerCrash, Listen
    <3> QED
      BY <3>1, <3>2 DEF DemandNext, Listener
  <2>3. session \in 0 .. FaultLimit + 1
    BY DEF DemandTypeOK
  <2> QED
    BY <2>1, <2>2, <2>3
<1>6. /\ manager' \in {"tick", "refresh", "read", "list", "allocate", "provide", "register", "store"}
      /\ short' \in BOOLEAN
  <2>1. GitHubActs \/ NodeActs \/ Listener \/ Disconnect \/ UNCHANGED demandSystem
           => manager' = manager /\ short' = short
    BY DEF GitHubActs, NodeActs, Listener, Connect, Open, Receive, Acquire, Acknowledge, SetFence,
           Disconnect, demandSystem, managerVars
  <2>2. Manager \/ ControllerCrash
           => /\ manager' \in {"tick", "refresh", "read", "list", "allocate", "provide",
                               "register", "store"}
              /\ short' \in BOOLEAN \/ short' = short
    BY DEF Manager, Tick, Refresh, ReadDemand, List, AllocateOne, Provide, AllProvided, Register,
           StoreJIT, ControllerCrash, Manage, Provided
  <2> QED
    BY <1>1, <2>1, <2>2 DEF DemandNext
<1> QED
  BY <1>3, <1>4, <1>5, <1>6, GuestStep, SnapshotStep DEF LoopTypes

\* The start is as the invariant says.
LEMMA DemandStart ==
    ASSUME DemandInit
    PROVE  DemandTypeOK /\ DemandInv
<1>1. TypeOK /\ config = Installed /\ instances = Empty /\ inbox = {} /\ DOMAIN instances = {}
  <2>1. /\ config = Installed /\ revision = 1 /\ plans = Empty /\ identities = {worker}
        /\ instances = Empty /\ reports = Put(Empty, worker, [fresh |-> TRUE, said |-> Health])
        /\ drained = {} /\ demand = Empty /\ inbox = {}
    BY DEF DemandInit, Established
  <2>2. DOMAIN Empty = {} /\ \A K, V : IsTable(Empty, K, V)
    BY DEF Empty, IsTable
  <2>3. worker \in Nodes /\ IsConfig(config)
    BY <2>1, DemandInputs DEF IsConfig, IsTable
  <2>4. IsTable(reports, Nodes, Reports)
    <3>1. [fresh |-> TRUE, said |-> Health] \in Reports
      BY DemandInputs DEF Reports
    <3> QED
      BY <2>1, <2>2, <2>3, <3>1, PutTable
  <2>5. plans = [id \in DOMAIN plans |-> plans[id]] /\ DOMAIN plans = {}
    BY <2>1, <2>2 DEF Empty
  <2> QED
    BY <2>1, <2>2, <2>3, <2>4, <2>5 DEF TypeOK
<1>2. /\ jobs = [j \in Jobs |-> "planned"] /\ queue = <<>> /\ sent = 0 /\ issued = 0
      /\ registered = [i \in Requests |-> 0] /\ stored = [i \in Requests |-> 0]
      /\ taken = [i \in Requests |-> NoJob] /\ ended = {} /\ vm = [i \in Requests |-> "none"]
      /\ listener = "connect" /\ session = 0 /\ manager = "tick" /\ short = FALSE
      /\ awaiting = <<>> /\ stops = 0 /\ basis = 0 /\ faults = 0
      /\ snapshot = [who \in {"listener", "manager"} |-> NoCount]
  BY DEF DemandInit
<1>3. <<>> \in Seq(Messages) /\ <<>> \in Seq(Requests) /\ Len(<<>>) = 0 /\ DOMAIN <<>> = {}
  BY EmptySeq
<1>4. DemandTypeOK
  <2>1. jobs \in [Jobs -> JobStates] /\ queue \in Seq(Messages) /\ awaiting \in Seq(Requests)
    BY <1>2, <1>3 DEF JobStates
  <2>2. /\ sent \in Nat /\ issued \in Nat /\ stops \in Nat /\ basis \in Nat
        /\ registered \in [Requests -> 0 .. issued] /\ stored \in [Requests -> 0 .. issued]
        /\ ended \subseteq Requests
    BY <1>2
  <2>3. /\ taken \in [Requests -> Jobs \cup {NoJob}]
        /\ vm \in [Requests -> {"none", "on", "off", "gone"}]
        /\ listener \in {"connect", "open", "poll", "acquire", "ack", "raise", "lower"}
        /\ manager \in {"tick", "refresh", "read", "list", "allocate",
                       "provide", "register", "store"}
        /\ short \in BOOLEAN
    BY <1>2
  <2>4. session \in 0 .. FaultLimit + 1 /\ faults \in 0 .. FaultLimit
    BY <1>2, DemandInputs
  <2>5. snapshot \in [{"listener", "manager"} -> Counts]
    BY <1>2 DEF NoCount, Counts
  <2> QED
    BY <1>1, <2>1, <2>2, <2>3, <2>4, <2>5 DEF DemandTypeOK
<1>5. Configured /\ Sessions /\ Runners
  BY <1>1, <1>2 DEF Configured, Sessions, Runners
<1>6. QueueInv
  <2>1. Total(Jobs, MessagesOf(jobs)) \in Nat
    BY <1>4, ToldBound DEF DemandTypeOK
  <2>2. Numbered
    BY <1>1, <1>2, <1>3, <2>1 DEF Numbered
  <2>3. Handed /\ Completed /\ Recorded /\ FenceCoversAcquisition /\ AcknowledgedIsRecorded
    BY <1>1, <1>2, <1>3 DEF Handed, Completed, Recorded, FenceCoversAcquisition, AcknowledgedIsRecorded
  <2> QED
    BY <2>2, <2>3 DEF QueueInv
<1>7. ProvidingInv
  BY <1>2, <1>3 DEF ProvidingInv, Provisioning, StoredIsRegistered
<1> QED
  BY <1>4, <1>5, <1>6, <1>7 DEF DemandInv

\* Every step keeps the types and the invariant.
LEMMA DemandStep ==
    ASSUME DemandTypeOK, DemandInv, [DemandNext]_demandSystem
    PROVE  DemandTypeOK' /\ DemandInv'
<1>1. DemandTypeOK'
  BY QueueStep, ProvidingStep, LoopStep DEF DemandTypeOK, LoopTypes
<1>2. Configured'
  <2>1. PICK F : RowsGoOn(F)
    BY QueueStep
  <2>2. config' = Installed
    BY QueueStep DEF DemandInv, Configured
  <2>3. \A i \in DOMAIN instances' : instances'[i].pool = served
    BY <2>1 DEF RowsGoOn, DemandInv, Configured
  <2> QED
    BY <2>2, <2>3 DEF Configured
<1> QED
  BY <1>1, <1>2, QueueStep, ProvidingStep, LoopStep, GuestStep DEF DemandInv

\* The invariant holds throughout.
LEMMA DemandInvariant == DemandSpec => [](DemandTypeOK /\ DemandInv)
<1>1. DemandInit => DemandTypeOK /\ DemandInv
  BY DemandStart
<1>2. DemandTypeOK /\ DemandInv /\ [DemandNext]_demandSystem => (DemandTypeOK /\ DemandInv)'
  BY DemandStep
<1> QED
  BY <1>1, <1>2, PTL DEF DemandSpec

-----------------------------------------------------------------------------
(* The theorems.                                                           *)

\* The store, GitHub's side and the two loops keep their types: no more
\* messages than the inbox knows, no more sessions than faults.
THEOREM DemandTypes == DemandSpec => []DemandTypeOK
BY DemandInvariant, PTL

\* While jobs of a persisted message may not all be acquired or acknowledged,
\* the Pool stays fenced (PersistThenAcknowledge, RefreshDemand, SetIntakeFence).
THEOREM FenceCovers == DemandSpec => []FenceCoversAcquisition
<1>1. DemandInv => FenceCoversAcquisition
  BY DEF DemandInv, QueueInv
<1> QED
  BY <1>1, DemandInvariant, PTL

\* A completion that GitHub need not say again is on record.
THEOREM AcknowledgedKept == DemandSpec => []AcknowledgedIsRecorded
<1>1. DemandInv => AcknowledgedIsRecorded
  BY DEF DemandInv, QueueInv
<1> QED
  BY <1>1, DemandInvariant, PTL

\* A stored JIT configuration stays good until its job is over.
THEOREM StoredKept == DemandSpec => []StoredIsRegistered
<1>1. DemandInv => StoredIsRegistered
  BY DEF DemandInv, ProvidingInv
<1> QED
  BY <1>1, DemandInvariant, PTL
==============================================================================

--------------------------- MODULE Lifecycle_proofs ---------------------------
(***************************************************************************)
(* Theorems about the life of instances (module Lifecycle), for any number *)
(* of requests, Pools of any size, replies of any length, and any losses,  *)
(* crashes and failures.                                                   *)
(*                                                                         *)
(* Every step of the Lifecycle is a step of its provider or leaves the     *)
(* provider alone, so what HostVM_proofs shows of one Node's provider      *)
(* holds here (instance Provider).  LedgerInv then ties the Controller's   *)
(* table, the Node's manifests, the reports on their way and the commands  *)
(* still to be executed to each other.                                     *)
(***************************************************************************)
EXTENDS Lifecycle, Ledger_proofs, SequenceTheorems

Provider == INSTANCE HostVM_proofs WITH VMs <- Requests, Ceiling <- Health.ceiling

-----------------------------------------------------------------------------
(* Replies.                                                                *)

\* Commands are totally ordered: by what they ask, then by instance.
LEMMA BeforeOrders ==
    /\ \A o \in Orders : ~Before(o, o)
    /\ \A o, c, e \in Orders : Before(o, c) /\ Before(c, e) => Before(o, e)
    /\ \A o, c \in Orders : o # c => Before(o, c) \/ Before(c, o)
<1> DEFINE rank(x) == IF x = "delete" THEN 0 ELSE IF x = "stop" THEN 1 ELSE 2
<1>1. \A o \in Orders : Rank(o) = rank(o.action)
  <2> SUFFICES ASSUME NEW o \in Orders PROVE Rank(o) = rank(o.action)
    OBVIOUS
  <2>1. CASE o.action = "delete"
    BY <2>1 DEF Rank
  <2>2. CASE o.action = "stop"
    BY <2>2 DEF Rank
  <2>3. CASE o.action = "ensure"
    BY <2>3 DEF Rank
  <2> QED
    BY <2>1, <2>2, <2>3 DEF Orders, Actions
<1>2. \A o \in Orders : o.vm \in Nat /\ o.action \in Actions /\ Rank(o) \in Nat
  <2> SUFFICES ASSUME NEW o \in Orders
               PROVE  o.vm \in Nat /\ o.action \in Actions /\ Rank(o) \in Nat
    OBVIOUS
  <2>1. o.vm \in Requests /\ o.action \in Actions
    BY DEF Orders
  <2>2. Rank(o) = rank(o.action)
    BY <1>1
  <2>3. rank(o.action) \in Nat
    OBVIOUS
  <2> QED
    BY <2>1, <2>2, <2>3, IdsAreOrdered
<1>3. \A o, c \in Orders : Rank(o) = Rank(c) => o.action = c.action
  BY <1>1, <1>2 DEF Actions
<1>4. \A o, c \in Orders : o.vm = c.vm /\ o.action = c.action => o = c
  BY DEF Orders
<1> QED
  BY <1>2, <1>3, <1>4 DEF Before

\* Sorted lists the commands: its k-th entry is the one of them that k - 1
\* others come before, which exists because no two have equally many.
LEMMA SortedMember ==
    ASSUME NEW orders \in SUBSET Orders, IsFiniteSet(orders),
           NEW k \in 1 .. Cardinality(orders)
    PROVE  /\ Sorted(orders)[k] \in orders
           /\ Cardinality({o \in orders : Before(o, Sorted(orders)[k])}) = k - 1
<1> DEFINE below(c) == {o \in orders : Before(o, c)}
           n == Cardinality(orders)
           f == [c \in orders |-> Cardinality(below(c))]
<1>1. n \in Nat
  BY FS_CardinalityType
<1>2. ASSUME NEW c \in orders
      PROVE  IsFiniteSet(below(c)) /\ Cardinality(below(c)) \in 0 .. n - 1
  <2>1. below(c) \in SUBSET orders /\ below(c) # orders
    BY BeforeOrders
  <2>2. IsFiniteSet(below(c)) /\ Cardinality(below(c)) <= n /\ n # Cardinality(below(c))
    BY <2>1, FS_Subset
  <2>3. Cardinality(below(c)) \in Nat
    BY <2>2, FS_CardinalityType
  <2> QED
    BY <1>1, <2>2, <2>3
<1>3. ASSUME NEW c \in orders, NEW e \in orders, Before(c, e)
      PROVE  Cardinality(below(c)) # Cardinality(below(e))
  <2>1. below(c) \in SUBSET below(e) /\ c \in below(e) /\ c \notin below(c)
    BY <1>3, BeforeOrders
  <2> QED
    BY <1>2, <2>1, FS_Subset
<1>4. f \in Injection(orders, 0 .. n - 1)
  <2>1. f \in [orders -> 0 .. n - 1]
    BY <1>2
  <2>2. \A c, e \in orders : f[c] = f[e] => c = e
    BY <1>3, BeforeOrders
  <2> HIDE DEF f
  <2> QED
    BY <2>1, <2>2, Zenon DEF Injection, IsInjective
<1>5. IsFiniteSet(0 .. n - 1) /\ Cardinality(0 .. n - 1) = n
  <2>1. 0 \in Int /\ n - 1 \in Int
    BY <1>1
  <2>2. /\ IsFiniteSet(0 .. n - 1)
        /\ Cardinality(0 .. n - 1) = (IF 0 > n - 1 THEN 0 ELSE n - 1 - 0 + 1)
    BY <2>1, FS_Interval
  <2> QED
    BY <1>1, <2>2
<1>6. f \in Surjection(orders, 0 .. n - 1)
  <2> HIDE DEF f
  <2> QED
    BY <1>4, <1>5, FS_Injection
<1>7. k - 1 \in 0 .. n - 1
  BY <1>1
<1>8. \E c \in orders : f[c] = k - 1
  <2> HIDE DEF f
  <2> QED
    BY <1>6, <1>7 DEF Surjection
<1>9. \E c \in orders : Cardinality(below(c)) = k - 1
  BY <1>8
<1>10. Sorted(orders)[k] = CHOOSE c \in orders : Cardinality(below(c)) = k - 1
  BY DEF Sorted
<1> QED
  BY <1>9, <1>10

\* There are finitely many commands.
LEMMA OrdersFinite == IsFiniteSet(Orders)
<1> DEFINE S == Requests \X Actions
           f == [x \in S |-> [vm |-> x[1], action |-> x[2]]]
<1>1. IsFiniteSet(Actions)
  <2>1. IsFiniteSet({"ensure"}) /\ IsFiniteSet({"stop"}) /\ IsFiniteSet({"delete"})
    BY FS_Singleton
  <2>2. Actions = ({"ensure"} \cup {"stop"}) \cup {"delete"}
    BY DEF Actions
  <2> QED
    BY <2>1, <2>2, FS_Union
<1>2. IsFiniteSet(S)
  BY <1>1, RequestsAreFinite, FS_Product
<1>3. f \in [S -> Orders]
  BY DEF Orders
<1>4. \A o \in Orders : \E x \in S : f[x] = o
  <2> TAKE o \in Orders
  <2>1. <<o.vm, o.action>> \in S /\ [vm |-> o.vm, action |-> o.action] = o
    BY DEF Orders
  <2> QED
    BY <2>1
<1> HIDE DEF f, S
<1>5. f \in Surjection(S, Orders)
  BY <1>3, <1>4 DEF Surjection
<1> QED
  BY <1>2, <1>5, FS_Surjection

\* What is left to do for an instance is about that instance, and a deletion
\* only when the ledger says Deleting.
LEMMA OrderForMember ==
    ASSUME NEW i \in Requests, NEW a \in Instances, NEW said, NEW o \in OrderFor(i, a, said)
    PROVE  /\ o \in Orders
           /\ o.vm = i
           /\ o.action = "delete" => a.state = "Deleting"
<1> USE DEF OrderFor, Orders, Actions
<1>1. CASE a.state = "Deleted"
  BY <1>1
<1>2. CASE a.state = "Deleting"
  BY <1>2
<1>3. CASE (a.state = "Stopping" \/ i \in expired) /\ a.state \notin {"Deleting", "Deleted"}
  BY <1>3
<1>4. CASE a.state \notin {"Stopping", "Deleting", "Deleted"} /\ i \notin expired
  BY <1>4
<1> QED
  BY <1>1, <1>2, <1>3, <1>4

\* A reply is a sequence of commands for instances in the table, and orders the
\* deletion of those in state Deleting only.
LEMMA ReplySound ==
    ASSUME NEW runs, IsTable(runs, Requests, Instances), NEW said
    PROVE  /\ Reply(runs, said) \in Seq(Orders)
           /\ \A k \in DOMAIN Reply(runs, said) :
                 LET o == Reply(runs, said)[k] IN
                 /\ o.vm \in DOMAIN runs
                 /\ o.action = "delete" => runs[o.vm].state = "Deleting"
<1> DEFINE due == UNION {OrderFor(i, runs[i], said[i]) : i \in On(runs, worker)}
           n == Cardinality(due)
           m == IF n < CommandLimit THEN n ELSE CommandLimit
           Sound(o) == /\ o.vm \in DOMAIN runs
                       /\ o.action = "delete" => runs[o.vm].state = "Deleting"
<1>1. \A o \in due : o \in Orders /\ Sound(o)
  BY OrderForMember DEF IsTable, On
<1>2. due \in SUBSET Orders /\ IsFiniteSet(due)
  BY <1>1, OrdersFinite, FS_Subset
<1>3. n \in Nat
  BY <1>2, FS_CardinalityType
<1>4. m \in Nat /\ m <= n
  BY <1>3, LifecycleInputs
<1>5. Reply(runs, said) = SubSeq(Sorted(due), 1, m)
  BY DEF Reply
<1> HIDE DEF due, m, Sound
<1>6. \A k \in 1 .. m : Sorted(due)[k] \in due
  <2> TAKE k \in 1 .. m
  <2>1. k \in 1 .. n
    BY <1>3, <1>4
  <2> QED
    BY <1>2, <2>1, SortedMember
<1>7. /\ SubSeq(Sorted(due), 1, m) \in Seq(due)
      /\ Len(SubSeq(Sorted(due), 1, m)) = m
      /\ \A k \in 1 .. m : SubSeq(Sorted(due), 1, m)[k] = Sorted(due)[k]
  <2>1. /\ SubSeq(Sorted(due), 1, m) \in Seq(due)
        /\ Len(SubSeq(Sorted(due), 1, m)) = (IF 1 <= m THEN m - 1 + 1 ELSE 0)
        /\ \A k \in 1 .. m - 1 + 1 : SubSeq(Sorted(due), 1, m)[k] = Sorted(due)[1 + k - 1]
    BY <1>4, <1>6, SubSeqProperties
  <2> QED
    BY <1>4, <2>1
<1>8. SubSeq(Sorted(due), 1, m) \in Seq(Orders)
  BY <1>2, <1>7, SeqMonotonic
<1>9. DOMAIN SubSeq(Sorted(due), 1, m) = 1 .. m
  BY <1>7, LenProperties
<1>10. \A k \in 1 .. m : Sound(SubSeq(Sorted(due), 1, m)[k])
  BY <1>1, <1>6, <1>7
<1> QED
  BY <1>5, <1>8, <1>9, <1>10 DEF Sound

-----------------------------------------------------------------------------
(* Types of the store, the reports and the commands.                       *)

Saids == [Requests -> Answers]

\* The types of all that is not the provider's, and the configuration, which no
\* step changes.
StoreInv ==
    /\ TypeOK
    /\ config = Installed
    /\ expired \subseteq Requests
    /\ flight \in Seq(Saids)
    /\ waiting \in BOOLEAN
    /\ queue \in Seq(Orders)
    /\ faults \in 0 .. FaultLimit

\* Every report is a function that says one thing of each request.
LEMMA SaidType ==
    ASSUME NEW i, NEW lost
    PROVE  Host!Said(i, lost) \in Answers
<1> USE DEF Host!Said, Answers
<1>1. CASE phase[i] = "none"
  BY <1>1
<1>2. CASE phase[i] = "deleted"
  BY <1>2
<1>3. CASE phase[i] \notin {"none", "deleted"} /\ i \in lost
  BY <1>3
<1>4. CASE phase[i] \notin {"none", "deleted"} /\ i \notin lost
  BY <1>4
<1> QED
  BY <1>1, <1>2, <1>3, <1>4

\* The first of the commands, and what remains when it is done.
LEMMA FirstAndRest ==
    ASSUME NEW S, NEW s \in Seq(S), s # <<>>
    PROVE  /\ Head(s) = s[1] /\ 1 \in DOMAIN s /\ Tail(s) \in Seq(S)
           /\ \A k \in DOMAIN Tail(s) : k + 1 \in DOMAIN s /\ Tail(s)[k] = s[k + 1]
<1>1. Len(s) \in Nat /\ DOMAIN s = 1 .. Len(s) /\ \A k \in 1 .. Len(s) : s[k] \in S
  BY LenProperties, ElementOfSeq
<1>2. /\ Tail(s) \in Seq(S) /\ Len(Tail(s)) = Len(s) - 1
      /\ \A k \in 1 .. Len(Tail(s)) : Tail(s)[k] = s[k + 1]
  BY HeadTailProperties
<1>3. DOMAIN Tail(s) = 1 .. Len(s) - 1 /\ Len(s) # 0
  BY <1>1, <1>2, LenProperties, EmptySeq
<1>4. Head(s) = s[1]
  OBVIOUS
<1> QED
  BY <1>1, <1>2, <1>3, <1>4

\* Nothing is in the sequence r that is not in s.
Among(r, s) == \A l \in DOMAIN r : \E j \in DOMAIN s : r[l] = s[j]

\* What remains of the reports when one overtakes those before it, or is lost.
LEMMA Remaining ==
    ASSUME NEW S, NEW s \in Seq(S), NEW k \in DOMAIN s, NEW r,
           \/ r = SubSeq(s, k + 1, Len(s))
           \/ r = SubSeq(s, 1, k - 1) \o SubSeq(s, k + 1, Len(s))
    PROVE  r \in Seq(S) /\ Among(r, s)
<1>1. Len(s) \in Nat /\ DOMAIN s = 1 .. Len(s) /\ \A j \in 1 .. Len(s) : s[j] \in S
  BY LenProperties, ElementOfSeq
<1>2. ASSUME NEW a \in Nat \ {0}, NEW b \in Nat, b <= Len(s)
      PROVE  /\ SubSeq(s, a, b) \in Seq(S)
             /\ \A l \in DOMAIN SubSeq(s, a, b) : \E j \in DOMAIN s : SubSeq(s, a, b)[l] = s[j]
  <2>1. \A j \in a .. b : s[j] \in S
    BY <1>1, <1>2
  <2>2. /\ SubSeq(s, a, b) \in Seq(S)
        /\ Len(SubSeq(s, a, b)) = (IF a <= b THEN b - a + 1 ELSE 0)
        /\ \A l \in 1 .. b - a + 1 : SubSeq(s, a, b)[l] = s[a + l - 1]
    BY <2>1, SubSeqProperties
  <2>3. DOMAIN SubSeq(s, a, b) = 1 .. Len(SubSeq(s, a, b))
    BY <2>2, LenProperties
  <2>4. ASSUME NEW l \in DOMAIN SubSeq(s, a, b)
        PROVE  a + l - 1 \in DOMAIN s /\ SubSeq(s, a, b)[l] = s[a + l - 1]
    BY <1>1, <1>2, <2>2, <2>3
  <2> QED
    BY <2>2, <2>4
<1>3. /\ SubSeq(s, k + 1, Len(s)) \in Seq(S)
      /\ \A l \in DOMAIN SubSeq(s, k + 1, Len(s)) :
            \E j \in DOMAIN s : SubSeq(s, k + 1, Len(s))[l] = s[j]
  <2>1. k + 1 \in Nat \ {0} /\ Len(s) \in Nat /\ Len(s) <= Len(s)
    BY <1>1
  <2> QED
    BY <1>2, <2>1, Zenon
<1>4. /\ SubSeq(s, 1, k - 1) \o SubSeq(s, k + 1, Len(s)) \in Seq(S)
      /\ \A l \in DOMAIN (SubSeq(s, 1, k - 1) \o SubSeq(s, k + 1, Len(s))) :
            \E j \in DOMAIN s :
               (SubSeq(s, 1, k - 1) \o SubSeq(s, k + 1, Len(s)))[l] = s[j]
  <2> DEFINE u == SubSeq(s, 1, k - 1)
             v == SubSeq(s, k + 1, Len(s))
  <2>1. 1 \in Nat \ {0} /\ k - 1 \in Nat /\ k - 1 <= Len(s)
    BY <1>1
  <2>2. u \in Seq(S) /\ \A l \in DOMAIN u : \E j \in DOMAIN s : u[l] = s[j]
    BY <1>2, <2>1
  <2>3. v \in Seq(S) /\ \A l \in DOMAIN v : \E j \in DOMAIN s : v[l] = s[j]
    BY <1>3
  <2> HIDE DEF u, v
  <2>4. /\ u \o v \in Seq(S) /\ Len(u \o v) = Len(u) + Len(v)
        /\ \A l \in 1 .. Len(u) + Len(v) :
              (u \o v)[l] = IF l <= Len(u) THEN u[l] ELSE v[l - Len(u)]
    BY <2>2, <2>3, ConcatProperties
  <2>5. /\ Len(u) \in Nat /\ DOMAIN u = 1 .. Len(u)
        /\ Len(v) \in Nat /\ DOMAIN v = 1 .. Len(v)
        /\ DOMAIN (u \o v) = 1 .. Len(u) + Len(v)
    BY <2>2, <2>3, <2>4, LenProperties
  <2>6. ASSUME NEW l \in DOMAIN (u \o v) PROVE \E j \in DOMAIN s : (u \o v)[l] = s[j]
    <3>1. CASE l <= Len(u)
      <4>1. l \in DOMAIN u /\ (u \o v)[l] = u[l]
        BY <2>4, <2>5, <3>1
      <4> QED
        BY <2>2, <4>1
    <3>2. CASE ~(l <= Len(u))
      <4>1. l - Len(u) \in DOMAIN v /\ (u \o v)[l] = v[l - Len(u)]
        BY <2>4, <2>5, <3>2
      <4> QED
        BY <2>3, <4>1
    <3> QED
      BY <3>1, <3>2
  <2> QED
    BY <2>4, <2>6 DEF u, v
<1>5. CASE r = SubSeq(s, k + 1, Len(s))
  BY <1>3, <1>5 DEF Among
<1>6. CASE r = SubSeq(s, 1, k - 1) \o SubSeq(s, k + 1, Len(s))
  BY <1>4, <1>6 DEF Among
<1> QED
  BY <1>5, <1>6

\* The other transactions of the Controller keep the store's types.
LEMMA DecideType ==
    ASSUME TypeOK, Decide
    PROVE  TypeOK' /\ config' = config
<1>1. ASSUME NEW i \in Requests, Allocate(i, PoolOf[i]) \/ Dispatch(i, PoolOf[i])
      PROVE  TypeOK' /\ config' = config
  <2>1. PoolOf[i] \in Pools
    BY LifecycleInputs, ConfigTypes
  <2> QED
    BY <1>1, <2>1, TypeStep DEF Next, Placement, Allocate, Dispatch, configVars
<1>2. ASSUME NEW i \in Requests, SetJIT(i) \/ StopInstance(i) PROVE TypeOK' /\ config' = config
  BY <1>2, TypeStep DEF Next, Progress, SetJIT, StopInstance, configVars
<1>3. ASSUME NEW m \in MessageIds, NEW p \in DOMAIN config.pools, NEW events \in EventBatches,
             PersistMessage(m, p, 0, events, FALSE)
      PROVE  TypeOK' /\ config' = config
  BY <1>3, MessageType DEF PersistMessage, configVars
<1> QED
  BY <1>1, <1>2, <1>3 DEF Decide

\* A delivered report keeps the store's types.
LEMMA DeliverType ==
    ASSUME TypeOK, NEW k, Deliver(k)
    PROVE  TypeOK' /\ config' = config
<1>1. worker \in Nodes /\ Health \in ObservationTypes
  BY LifecycleInputs, ConfigTypes
<1> QED
  BY <1>1, SyncType DEF Deliver, Sync, configVars

\* The first configuration is in force when the Lifecycle begins.
LEMMA StoreInit ==
    ASSUME LifecycleInit
    PROVE  StoreInv
<1> USE DEF LifecycleInit, Established
<1>1. worker \in Nodes /\ IsConfig(Installed) /\ Health \in ObservationTypes
  BY LifecycleInputs, ConfigTypes
<1>2. IsTable(Empty, Nodes, Reports) /\ [fresh |-> TRUE, said |-> Health] \in Reports
  BY <1>1 DEF IsTable, Empty, Reports
<1>3. IsTable(reports, Nodes, Reports)
  BY <1>1, <1>2, PutTable
<1>4. TypeOK
  BY <1>1, <1>3 DEF TypeOK, Empty, IsTable
<1>5. <<>> \in Seq(Saids) /\ <<>> \in Seq(Orders)
  BY EmptySeq
<1> QED
  <2>1. config = Installed /\ expired \subseteq Requests /\ waiting \in BOOLEAN
    OBVIOUS
  <2>2. faults \in 0 .. FaultLimit
    BY LifecycleInputs
  <2>3. flight \in Seq(Saids) /\ queue \in Seq(Orders)
    BY <1>5
  <2> QED
    BY <1>4, <2>1, <2>2, <2>3 DEF StoreInv

\* Every step keeps the types and the configuration.
LEMMA StoreStep ==
    ASSUME StoreInv, [LifecycleNext]_lifecycleVars
    PROVE  StoreInv'
<1> USE DEF StoreInv
<1>0. ASSUME Fault PROVE faults' \in 0 .. FaultLimit
  BY <1>0, LifecycleInputs DEF Fault
<1>a. ASSUME UNCHANGED vars PROVE TypeOK' /\ config' = config
  BY <1>a, TypeStep DEF vars, configVars
<1>1. CASE Report
  <2>1. PICK lost \in SUBSET Requests :
          /\ flight' = Append(flight, [i \in Requests |-> Host!Said(i, lost)])
          /\ waiting' = TRUE
          /\ faults' = faults \/ Fault
          /\ UNCHANGED <<vars, expired, queue>>
    BY <1>1 DEF Report
  <2>2. [i \in Requests |-> Host!Said(i, lost)] \in Saids
    BY SaidType DEF Saids
  <2>3. flight' \in Seq(Saids)
    BY <2>1, <2>2, AppendProperties
  <2> QED
    BY <1>0, <1>a, <2>1, <2>3
<1>2. CASE GiveUp
  BY <1>2, <1>0, <1>a DEF GiveUp
<1>3. CASE Execute \/ Skip
  <2>1. queue # <<>> /\ (queue' = queue \/ queue' = Tail(queue))
    BY <1>3 DEF Execute, Skip
  <2>2. queue' \in Seq(Orders)
    BY <2>1, FirstAndRest
  <2> QED
    BY <1>3, <2>2, <1>0, <1>a DEF Execute, Skip
<1>4. CASE Operate \/ StepFails \/ Environment
  BY <1>4, <1>0, <1>a DEF Operate, StepFails, Environment, agentVars
<1>5. CASE AgentCrash \/ HostCrash
  BY <1>5, <1>0, <1>a, EmptySeq DEF AgentCrash, HostCrash
<1>6. ASSUME NEW i \in Recoverable, Recover(i) PROVE StoreInv'
  BY <1>6, <1>0, <1>a, EmptySeq DEF Recover
<1>7. ASSUME NEW k \in 1 .. FlightLimit, Deliver(k) PROVE StoreInv'
  <2>1. TypeOK' /\ config' = config
    BY <1>7, DeliverType
  <2>2. flight' \in Seq(Saids)
    BY <1>7, Remaining DEF Deliver
  <2>3. IsTable(instances', Requests, Instances)
    BY <2>1 DEF TypeOK
  <2>4. Reply(instances', flight[k]) \in Seq(Orders)
    BY <2>3, ReplySound
  <2>5. queue' \in Seq(Orders) /\ waiting' \in BOOLEAN /\ faults' \in 0 .. FaultLimit
    BY <1>7, <1>0, <2>4 DEF Deliver
  <2> QED
    BY <1>7, <2>1, <2>2, <2>5 DEF Deliver
<1>8. ASSUME NEW k \in 1 .. FlightLimit, Lose(k) PROVE StoreInv'
  <2>1. flight' \in Seq(Saids)
    BY <1>8, Remaining DEF Lose
  <2> QED
    BY <1>8, <1>0, <1>a, <2>1 DEF Lose
<1>9. ASSUME NEW i \in Requests, Expire(i) PROVE StoreInv'
  BY <1>9, <1>a DEF Expire, agentVars
<1>10. CASE Decide
  BY <1>10, DecideType DEF Decide, agentVars
<1>11. CASE UNCHANGED lifecycleVars
  BY <1>11, <1>a DEF lifecycleVars, agentVars
<1> QED
  BY <1>1, <1>2, <1>3, <1>4, <1>5, <1>6, <1>7, <1>8, <1>9, <1>10, <1>11 DEF LifecycleNext

-----------------------------------------------------------------------------
(* The provider's own theorems, brought to the composition.                *)

\* Each request has the size of a Pool, every dimension of it positive.
LEMMA ChargeType ==
    /\ Charge \in [Requests -> Resources]
    /\ \A i \in Requests, d \in Dims : Charge[i][d] \in Nat /\ Charge[i][d] > 0
<1>1. ASSUME NEW i \in Requests
      PROVE  /\ PoolOf[i] \in DOMAIN Installed.pools
             /\ Installed.pools[PoolOf[i]].charge \in Resources
             /\ \A d \in Dims : Installed.pools[PoolOf[i]].charge[d] > 0
  <2>1. PoolOf[i] \in DOMAIN Installed.pools
    BY LifecycleInputs
  <2>2. Installed.pools[PoolOf[i]] \in PoolConfigs
    BY <2>1, LifecycleInputs, ConfigTypes
  <2>3. \A d \in Dims : Installed.pools[PoolOf[i]].charge[d] > 0
    BY <2>1, LifecycleInputs DEF Valid, ValidPools
  <2> QED
    BY <2>1, <2>2, <2>3 DEF PoolConfigs
<1> QED
  BY <1>1 DEF Charge, Resources

\* The assumptions of HostVM hold of the Lifecycle's provider.
LEMMA ProviderInputs == Provider!HostAssumption
<1>1. Health.ceiling \in Resources
  BY LifecycleInputs DEF ObservationTypes
<1> QED
  BY <1>1, ChargeType, RequestsAreFinite, LifecycleInputs
  DEF Provider!HostAssumption, Provider!Resources, Provider!Dims, Resources, Dims,
      Provider!IsFiniteSet, IsFiniteSet

\* A command of the Agent is a command of the provider.
LEMMA SameCommand ==
    ASSUME NEW i \in Requests
    PROVE  /\ Host!Prepare(i) => Provider!Command(i)
           /\ Host!EnsureAgain(i) => Provider!Command(i)
           /\ Host!EnsureStopIntent(i) => Provider!Command(i)
           /\ Host!Stop(i) => Provider!Command(i)
           /\ Host!Delete(i) => Provider!Command(i)
<1> USE DEF Provider!Command, Host!Idle, Provider!Idle, Host!Go, Provider!Go
<1>1. Host!Prepare(i) => Provider!Prepare(i)
  BY DEF Host!Prepare, Provider!Prepare, Host!Preparable, Provider!Preparable,
         Host!WithinCeiling, Provider!WithinCeiling, Host!Kept, Provider!Kept,
         Host!Total, Provider!Total, Host!Units, Provider!Units, Host!Dims, Provider!Dims,
         Host!Cardinality, Provider!Cardinality
<1>2. Host!EnsureAgain(i) => Provider!EnsureAgain(i)
  BY DEF Host!EnsureAgain, Provider!EnsureAgain, Host!Settled, Provider!Settled,
         Host!Runs, Provider!Runs
<1>3. Host!EnsureStopIntent(i) => Provider!EnsureStopIntent(i)
  BY DEF Host!EnsureStopIntent, Provider!EnsureStopIntent
<1>4. Host!Stop(i) => Provider!Stop(i)
  BY DEF Host!Stop, Provider!Stop, Host!Runs, Provider!Runs
<1>5. Host!Delete(i) => Provider!Delete(i)
  BY DEF Host!Delete, Provider!Delete, Host!Deletable, Provider!Deletable,
         Host!Runs, Provider!Runs
<1> QED
  BY <1>1, <1>2, <1>3, <1>4, <1>5

\* A step of an operation is one of the provider's.
LEMMA SameStep ==
    ASSUME NEW i \in Requests
    PROVE  Host!Step(i) => Provider!Step(i)
BY DEF Host!Step, Provider!Step, Host!Build, Provider!Build, Host!Define, Provider!Define,
       Host!SaveIntent, Provider!SaveIntent, Host!Start, Provider!Start,
       Host!StartUnanswered, Provider!StartUnanswered, Host!SaveRunning,
       Provider!SaveRunning, Host!Destroy, Provider!Destroy, Host!SaveStopped,
       Provider!SaveStopped, Host!Undefine, Provider!Undefine, Host!Erase,
       Provider!Erase, Host!SaveDeleted, Provider!SaveDeleted, Host!Boot,
       Provider!Boot, Host!At, Provider!At, Host!Go, Provider!Go, Host!Done,
       Provider!Done, Host!Idle, Provider!Idle, Host!Runs, Provider!Runs,
       Host!PoweredDown, Provider!PoweredDown

\* Whatever Controller, Agent and environment do, the provider takes one of its
\* steps or none: the Lifecycle composes module HostVM without changing it.
LEMMA ProviderStep ==
    ASSUME StoreInv, [LifecycleNext]_lifecycleVars
    PROVE  [Provider!HostNext]_Provider!hostVars
<1> USE DEF Provider!HostNext, Provider!hostVars, hostVars, Host!Idle, Provider!Idle
<1>1. CASE Report
  BY <1>1 DEF Report, Host!Inventory, Provider!Inventory, Host!Said, Provider!Said,
              Host!Runs, Provider!Runs
<1>2. CASE Execute
  <2>1. Head(queue) \in Orders
    BY <1>2, HeadTailProperties DEF Execute, StoreInv
  <2>2. /\ Head(queue).vm \in Requests
        /\ \/ Ensure(Head(queue).vm) \/ StopVM(Head(queue).vm)
           \/ Host!Delete(Head(queue).vm)
    BY <1>2, <2>1 DEF Execute, Run, Orders, Actions
  <2> QED
    BY <2>2, SameCommand DEF Ensure, StopVM
<1>3. CASE Operate
  BY <1>3, SameStep DEF Operate
<1>4. CASE StepFails
  BY <1>4 DEF StepFails, Host!Abort, Provider!Abort, Host!Done, Provider!Done
<1>5. CASE AgentCrash
  BY <1>5 DEF AgentCrash, Provider!Abort, Provider!Done
<1>6. CASE HostCrash
  BY <1>6 DEF HostCrash, Host!HostReboot, Provider!Environment, Provider!HostReboot,
              Host!Done, Provider!Done, Host!Runs, Provider!Runs,
              Host!PoweredDown, Provider!PoweredDown
<1>7. CASE Environment
  BY <1>7 DEF Environment, Provider!Environment, Host!GuestShutdown,
              Provider!GuestShutdown, Host!LateStart, Provider!LateStart, Host!Boot,
              Provider!Boot, Host!Runs, Provider!Runs,
              Host!PoweredDown, Provider!PoweredDown
<1>8. ASSUME NEW i \in Recoverable, Recover(i) PROVE Provider!HostNext
  BY <1>8, SameCommand, LifecycleInputs DEF Recover
<1>9. CASE UNCHANGED hostVars
  BY <1>9
<1>10. CASE UNCHANGED lifecycleVars
  BY <1>10 DEF lifecycleVars
<1>11. CASE \/ GiveUp \/ Skip \/ Decide
            \/ \E k \in 1 .. FlightLimit : Deliver(k) \/ Lose(k)
            \/ \E i \in Requests : Expire(i)
  BY <1>9, <1>11 DEF GiveUp, Skip, Decide, Deliver, Lose, Expire
<1> QED
  BY <1>1, <1>2, <1>3, <1>4, <1>5, <1>6, <1>7, <1>8, <1>10, <1>11 DEF LifecycleNext

\* The provider starts with no manifest, no domain and no disk.
LEMMA ProviderInit ==
    ASSUME LifecycleInit
    PROVE  Provider!HostInit
BY DEF LifecycleInit, Host!HostInit, Provider!HostInit, Host!Idle, Provider!Idle

\* The types of the store and of what travels.
LEMMA StoreInvariant == LifecycleSpec => []StoreInv
<1>1. LifecycleInit => StoreInv
  BY StoreInit
<1>2. StoreInv /\ [LifecycleNext]_lifecycleVars => StoreInv'
  BY StoreStep
<1> QED
  BY <1>1, <1>2, PTL DEF LifecycleSpec

\* The Lifecycle implements module HostVM: its Agent, Controller and faults are
\* one environment among those that HostVM allows, so that all that is proved of
\* a provider under any Controller holds under this one.
THEOREM NodeIsProvider == LifecycleSpec => Provider!HostSpec
<1>1. LifecycleInit => Provider!HostInit
  BY ProviderInit
<1>2. StoreInv /\ [LifecycleNext]_lifecycleVars => [Provider!HostNext]_Provider!hostVars
  BY ProviderStep
<1> QED
  BY <1>1, <1>2, StoreInvariant, PTL DEF LifecycleSpec, Provider!HostSpec

\* The ledger, the provider and what travels between them keep their types.
THEOREM LifecycleTypes == LifecycleSpec => []LifecycleTypeOK
<1>1. Provider!HostSpec => []Provider!HostTypeOK
  BY ProviderInputs, Provider!HostTypes
<1>2. StoreInv /\ Provider!HostTypeOK => LifecycleTypeOK
  BY DEF StoreInv, Saids, LifecycleTypeOK, Host!HostTypeOK, Provider!HostTypeOK,
         Host!Phases, Provider!Phases, Host!DomainStates, Provider!DomainStates,
         Host!Steps, Provider!Steps
<1> QED
  BY <1>1, <1>2, StoreInvariant, NodeIsProvider, PTL

-----------------------------------------------------------------------------
(* What a step does to a row, a manifest and the operation under way.      *)

Ends(a) == a.state \in {"Deleting", "Deleted"}

StaysRow(a, b) == b.held = a.held /\ (b.state = a.state \/ (~Ends(a) /\ ~Ends(b)))
StopsRow(a, b) == a.state # "Deleted" /\ b.state = "Deleting" /\ b.held = PoweredOff(a.held)
EndsRow(a, b)  == a.state = "Deleting" /\ b.state = "Deleted" /\ b.held = Nothing

\* A report on its way says so of i.
Reported(i, what) == \E k \in DOMAIN flight : flight[k][i] = what

\* The rows after a step: new ones hold their Pool's charge, and only a report
\* makes an old one hold less.
RowsMove ==
    /\ DOMAIN instances \subseteq DOMAIN instances'
    /\ \A i \in DOMAIN instances :
          \/ StaysRow(instances[i], instances'[i])
          \/ StopsRow(instances[i], instances'[i]) /\ Reported(i, "Stopped")
          \/ EndsRow(instances[i], instances'[i]) /\ Reported(i, "Deleted")
    /\ \A i \in DOMAIN instances' \ DOMAIN instances :
          ~Ends(instances'[i]) /\ instances'[i].held = Charge[i]

\* One report about one instance: Sync releases for Stopped and Deleted only.
LEMMA AfterReportMoves ==
    ASSUME NEW a \in Instances, NEW said \in Answers,
           a.state # "Deleted", said = "Deleted" => a.state = "Deleting"
    PROVE  \/ StaysRow(a, AfterReport(a, said))
           \/ StopsRow(a, AfterReport(a, said)) /\ said = "Stopped"
           \/ EndsRow(a, AfterReport(a, said)) /\ said = "Deleted"
<1> USE DEF StaysRow, StopsRow, EndsRow, Ends, Instances
<1>1. CASE said = "Running" /\ a.state = "Provisioning"
  BY <1>1 DEF AfterReport
<1>2. CASE said = "Stopped"
  BY <1>2 DEF AfterReport
<1>3. CASE said = "Deleted"
  BY <1>3 DEF AfterReport
<1>4. CASE /\ ~(said = "Running" /\ a.state = "Provisioning")
           /\ said \notin {"Stopped", "Deleted"}
  BY <1>4 DEF AfterReport, Answers
<1> QED
  BY <1>1, <1>2, <1>3, <1>4

\* Every step moves the rows that way.
LEMMA StepMovesRows ==
    ASSUME StoreInv, [LifecycleNext]_lifecycleVars
    PROVE  RowsMove
<1>0. \A i \in DOMAIN instances : i \in Requests /\ instances[i] \in Instances
  BY DEF StoreInv, TypeOK, IsTable
<1>1. ASSUME instances' = instances PROVE RowsMove
  BY <1>1 DEF RowsMove, StaysRow
<1>2. ASSUME NEW k, Deliver(k) PROVE RowsMove
  <2> DEFINE vms == [i \in Live(worker) |-> flight[k][i]]
  <2>1. k \in DOMAIN flight /\ Sync(worker, Health, vms)
    BY <1>2 DEF Deliver
  <2>2. flight[k] \in Saids
    BY <2>1, LenProperties, ElementOfSeq DEF StoreInv
  <2>3. DOMAIN instances' = DOMAIN instances
    BY <2>1 DEF Sync
  <2>4. ASSUME NEW i \in DOMAIN instances
        PROVE  \/ StaysRow(instances[i], instances'[i])
               \/ StopsRow(instances[i], instances'[i]) /\ Reported(i, "Stopped")
               \/ EndsRow(instances[i], instances'[i]) /\ Reported(i, "Deleted")
    <3>1. CASE i \notin Live(worker)
      BY <2>1, <3>1 DEF Sync, StaysRow
    <3>2. CASE i \in Live(worker)
      <4>1. instances'[i] = AfterReport(instances[i], flight[k][i])
        BY <2>1, <3>2 DEF Sync
      <4>2. flight[k][i] \in Answers
        BY <1>0, <2>2 DEF Saids
      <4>3. instances[i].state # "Deleted"
        BY <3>2 DEF Live
      <4>4. flight[k][i] = "Deleted" => instances[i].state = "Deleting"
        BY <2>1, <3>2 DEF Sync
      <4> QED
        BY <1>0, <2>1, <4>1, <4>2, <4>3, <4>4, AfterReportMoves DEF Reported
    <3> QED
      BY <3>1, <3>2
  <2> QED
    BY <2>3, <2>4 DEF RowsMove
<1>3. CASE Decide
  <2>1. ASSUME NEW i \in Requests, NEW s \in {"Reserved", "Provisioning"},
               i \notin DOMAIN instances, Place(i, PoolOf[i], s)
        PROVE  RowsMove
    <3>1. PICK n, r : instances' = Put(instances, i, NewInstance(n, PoolOf[i], s, r))
      BY <2>1 DEF Place
    <3>2. NewInstance(n, PoolOf[i], s, r).held = Charge[i]
      BY DEF NewInstance, Charge, StoreInv
    <3>3. ~Ends(NewInstance(n, PoolOf[i], s, r))
      BY DEF NewInstance, Ends
    <3> QED
      BY <2>1, <3>1, <3>2, <3>3 DEF Put, RowsMove, StaysRow
  <2>2. ASSUME NEW i \in Requests, Allocate(i, PoolOf[i]) \/ Dispatch(i, PoolOf[i])
        PROVE  RowsMove
    BY <2>1, <2>2 DEF Allocate, Dispatch
  <2>3. ASSUME NEW i \in Requests, SetJIT(i) \/ StopInstance(i) PROVE RowsMove
    BY <1>0, <2>3 DEF SetJIT, StopInstance, RowsMove, StaysRow, Ends, Instances
  <2>4. ASSUME NEW m, NEW p, NEW events, PersistMessage(m, p, 0, events, FALSE)
        PROVE  RowsMove
    <3>1. ASSUME NEW a \in Instances, NEW event PROVE StaysRow(a, AfterEvent(a, event))
      BY DEF AfterEvent, StaysRow, Ends, Instances
    <3> QED
      BY <1>0, <2>4, <3>1 DEF PersistMessage, RowsMove, StaysRow
  <2> QED
    BY <1>3, <2>2, <2>3, <2>4 DEF Decide
<1>4. CASE ~Decide /\ \A k \in 1 .. FlightLimit : ~Deliver(k)
  BY <1>1, <1>4 DEF LifecycleNext, lifecycleVars, vars, Report, GiveUp, Execute, Skip,
     Operate, StepFails, AgentCrash, HostCrash, Environment, Lose, Expire, Recover
<1> QED
  BY <1>2, <1>3, <1>4

\* The next command of the Agent, if it is for i.
Ordered(i, action) == queue # <<>> /\ Head(queue).vm = i /\ Head(queue).action = action

\* A manifest appears only when a command for its VM is executed, and becomes a
\* tombstone only at the last step of a deletion.
PhasesMove == \A i \in Requests :
    /\ phase[i] = "none" /\ phase'[i] # "none" =>
          Ordered(i, "ensure") \/ Ordered(i, "stop")
    /\ phase[i] # "deleted" /\ phase'[i] = "deleted" => op.vm = i /\ op.at = "erased"

\* The operation under way is to delete i.
Erasing(i) == op.vm = i /\ op.at \in {"undefine", "erase", "erased"}

\* A deletion begins by command or by hand.
DeletionsBegin == \A i \in Requests :
    Erasing(i)' => Erasing(i) \/ Ordered(i, "delete") \/ Recover(i)

\* Every step moves the manifests and the operation that way.
LEMMA StepMovesPhases ==
    ASSUME StoreInv, Provider!OnceInv, [LifecycleNext]_lifecycleVars
    PROVE  PhasesMove /\ DeletionsBegin
<1> USE DEF PhasesMove, DeletionsBegin, Erasing, Provider!OnceInv, Provider!HostTypeOK,
            Provider!ManifestFollows, Provider!At, Host!At, Host!Go, Host!Done, Host!Idle
<1>1. CASE Report
  BY <1>1 DEF Report, Host!Inventory, Host!Said
<1>2. CASE Execute
  <2>0. Head(queue) \in Orders
    BY <1>2, HeadTailProperties DEF Execute, StoreInv
  <2>1. Head(queue).vm \in Requests /\ queue # <<>>
    BY <1>2, <2>0 DEF Execute, Orders
  <2>2. CASE Head(queue).action = "ensure"
    <3>1. Ensure(Head(queue).vm)
      BY <1>2, <2>2 DEF Execute, Run
    <3> QED
      BY <2>1, <2>2, <3>1 DEF Ensure, Host!Prepare, Host!EnsureAgain, Host!Settled, Ordered
  <2>3. CASE Head(queue).action = "stop"
    <3>1. StopVM(Head(queue).vm)
      BY <1>2, <2>3 DEF Execute, Run
    <3> QED
      BY <2>1, <2>3, <3>1 DEF StopVM, Host!EnsureStopIntent, Host!Stop, Ordered
  <2>4. CASE Head(queue).action = "delete"
    <3>1. Host!Delete(Head(queue).vm)
      BY <1>2, <2>4 DEF Execute, Run
    <3> QED
      BY <2>1, <2>4, <3>1 DEF Host!Delete, Ordered
  <2> QED
    BY <2>0, <2>2, <2>3, <2>4 DEF Orders, Actions
<1>3. CASE Operate
  <2>1. PICK v \in Requests : Host!Step(v)
    BY <1>3 DEF Operate
  <2> QED
    BY <2>1 DEF Host!Step, Host!Build, Host!Define, Host!SaveIntent, Host!Start,
       Host!StartUnanswered, Host!SaveRunning, Host!Destroy, Host!SaveStopped,
       Host!Undefine, Host!Erase, Host!SaveDeleted
<1>4. CASE StepFails \/ AgentCrash \/ HostCrash
  BY <1>4 DEF StepFails, AgentCrash, HostCrash, Host!Abort, Host!HostReboot
<1>5. CASE Environment
  BY <1>5 DEF Environment, Host!GuestShutdown, Host!LateStart
<1>6. ASSUME NEW v \in Recoverable, Recover(v) PROVE PhasesMove /\ DeletionsBegin
  BY <1>6 DEF Recover, Host!Delete
<1>7. CASE UNCHANGED hostVars
  BY <1>7 DEF hostVars
<1>8. CASE \/ GiveUp \/ Skip \/ Decide \/ UNCHANGED lifecycleVars
           \/ \E k \in 1 .. FlightLimit : Deliver(k) \/ Lose(k)
           \/ \E i \in Requests : Expire(i)
  BY <1>7, <1>8 DEF GiveUp, Skip, Decide, Deliver, Lose, Expire, lifecycleVars
<1> QED
  BY <1>1, <1>2, <1>3, <1>4, <1>5, <1>6, <1>8 DEF LifecycleNext

-----------------------------------------------------------------------------
(* The inductive invariant: table, manifests, reports and commands.        *)

\* What the ledger holds follows from the state: all until a Stopped report,
\* the disk until a Deleted one, then nothing.
HeldFollows == \A i \in DOMAIN instances :
    /\ ~Ends(instances[i]) => instances[i].held = Charge[i]
    /\ instances[i].state = "Deleting" => instances[i].held = PoweredOff(Charge[i])
    /\ instances[i].state = "Deleted" => instances[i].held = Nothing

\* The Node makes nothing that the ledger does not know of, and the ledger never
\* runs ahead of the Node.
LedgerBehindNode ==
    /\ \A i \in Requests : phase[i] # "none" => i \in DOMAIN instances
    /\ \A i \in DOMAIN instances :
          /\ Ends(instances[i]) => phase[i] \in {"stopped", "deleted"}
          /\ instances[i].state = "Deleted" => phase[i] = "deleted"

\* However late a report arrives, what it says of an end is still true.
ReportsStayTrue == \A k \in DOMAIN flight, i \in Requests :
    /\ flight[k][i] = "Stopped" => phase[i] \in {"stopped", "deleted"}
    /\ flight[k][i] = "Deleted" => phase[i] = "deleted"

\* However late a command is executed, its instance is in the table, and what
\* it deletes is being deleted.
CommandsStayDue == \A k \in DOMAIN queue :
    /\ queue[k].vm \in DOMAIN instances
    /\ queue[k].action = "delete" => Ends(instances[queue[k].vm])

LedgerInv == HeldFollows /\ LedgerBehindNode /\ ReportsStayTrue /\ CommandsStayDue

\* Rows that move so never hold more, and an end is never taken back.
LEMMA HeldStep ==
    ASSUME StoreInv, LedgerInv, RowsMove
    PROVE  /\ HeldFollows'
           /\ \A i \in DOMAIN instances :
                 i \in DOMAIN instances' /\ (Ends(instances[i]) => Ends(instances'[i]))
<1>1. \A i \in DOMAIN instances : i \in Requests
  BY DEF StoreInv, TypeOK, IsTable
<1>2. \A i \in Requests : PoweredOff(PoweredOff(Charge[i])) = PoweredOff(Charge[i])
  BY ChargeType DEF PoweredOff, Resources, Dims
<1>3. ASSUME NEW i \in DOMAIN instances'
      PROVE  /\ ~Ends(instances'[i]) => instances'[i].held = Charge[i]
             /\ instances'[i].state = "Deleting" => instances'[i].held = PoweredOff(Charge[i])
             /\ instances'[i].state = "Deleted" => instances'[i].held = Nothing
  <2>1. CASE i \notin DOMAIN instances
    BY <2>1 DEF RowsMove, Ends
  <2>2. CASE i \in DOMAIN instances /\ StaysRow(instances[i], instances'[i])
    BY <2>2 DEF StaysRow, LedgerInv, HeldFollows, Ends
  <2>3. CASE i \in DOMAIN instances /\ StopsRow(instances[i], instances'[i])
    BY <1>1, <1>2, <2>3 DEF StopsRow, LedgerInv, HeldFollows, Ends
  <2>4. CASE i \in DOMAIN instances /\ EndsRow(instances[i], instances'[i])
    BY <2>4 DEF EndsRow, Ends
  <2> QED
    BY <2>1, <2>2, <2>3, <2>4 DEF RowsMove
<1>4. ASSUME NEW i \in DOMAIN instances
      PROVE  i \in DOMAIN instances' /\ (Ends(instances[i]) => Ends(instances'[i]))
  BY DEF RowsMove, StaysRow, StopsRow, EndsRow, Ends
<1> QED
  BY <1>3, <1>4 DEF HeldFollows

\* Every step keeps ledger and Node in step.
LEMMA BehindStep ==
    ASSUME StoreInv, LedgerInv, RowsMove, PhasesMove, Provider!NoRevival
    PROVE  LedgerBehindNode'
<1> USE DEF LedgerInv, LedgerBehindNode
<1>1. \A i \in DOMAIN instances : i \in Requests
  BY DEF StoreInv, TypeOK, IsTable
<1>2. ASSUME NEW i, NEW action, Ordered(i, action) PROVE i \in DOMAIN instances
  <2>1. 1 \in DOMAIN queue /\ queue[1].vm = i
    BY <1>2, FirstAndRest DEF Ordered, StoreInv
  <2> QED
    BY <2>1 DEF CommandsStayDue
<1>3. ASSUME NEW i \in Requests, phase'[i] # "none" PROVE i \in DOMAIN instances'
  BY <1>2, <1>3 DEF PhasesMove, RowsMove
<1>4. ASSUME NEW i \in DOMAIN instances'
      PROVE  /\ Ends(instances'[i]) => phase'[i] \in {"stopped", "deleted"}
             /\ instances'[i].state = "Deleted" => phase'[i] = "deleted"
  <2>1. CASE i \notin DOMAIN instances
    BY <2>1 DEF RowsMove, Ends
  <2>2. CASE i \in DOMAIN instances /\ StaysRow(instances[i], instances'[i])
    BY <1>1, <2>2 DEF StaysRow, Ends, Provider!NoRevival
  <2>3. CASE i \in DOMAIN instances /\ StopsRow(instances[i], instances'[i])
              /\ Reported(i, "Stopped")
    BY <1>1, <2>3 DEF StopsRow, Ends, Reported, ReportsStayTrue, Provider!NoRevival
  <2>4. CASE i \in DOMAIN instances /\ EndsRow(instances[i], instances'[i])
              /\ Reported(i, "Deleted")
    BY <1>1, <2>4 DEF EndsRow, Ends, Reported, ReportsStayTrue, Provider!NoRevival
  <2> QED
    BY <2>1, <2>2, <2>3, <2>4 DEF RowsMove
<1> QED
  BY <1>3, <1>4

\* A report is true when it is taken, and reports on their way stay true.
LEMMA ReportsStep ==
    ASSUME StoreInv, ReportsStayTrue, Provider!OnceInv, Provider!NoRevival,
           [LifecycleNext]_lifecycleVars
    PROVE  ReportsStayTrue'
<1>1. ASSUME \A l \in DOMAIN flight' : \E k \in DOMAIN flight : flight'[l] = flight[k]
      PROVE  ReportsStayTrue'
  BY <1>1 DEF ReportsStayTrue, Provider!NoRevival
<1>2. CASE Report
  <2>1. PICK lost \in SUBSET Requests :
          /\ Host!Inventory(lost)
          /\ flight' = Append(flight, [i \in Requests |-> Host!Said(i, lost)])
    BY <1>2 DEF Report
  <2> DEFINE said == [i \in Requests |-> Host!Said(i, lost)]
  <2>2. said \in Saids
    BY SaidType DEF Saids
  <2>3. /\ \A i \in Requests : said[i] = "Stopped" => phase'[i] = "stopped"
        /\ \A i \in Requests : said[i] = "Deleted" => phase'[i] = "deleted"
    <3> SUFFICES ASSUME NEW i \in Requests
                 PROVE  /\ said[i] = "Stopped" => phase'[i] = "stopped"
                        /\ said[i] = "Deleted" => phase'[i] = "deleted"
      OBVIOUS
    <3>1. phase'[i] = IF Host!Said(i, lost) = "Stopped" THEN "stopped" ELSE phase[i]
      BY <2>1 DEF Host!Inventory
    <3>2. Host!Said(i, lost) = "Deleted" => phase[i] = "deleted"
      <4>1. CASE phase[i] = "none"
        BY <4>1 DEF Host!Said
      <4>2. CASE phase[i] \notin {"none", "deleted"} /\ i \in lost
        BY <4>2 DEF Host!Said
      <4>3. CASE phase[i] \notin {"none", "deleted"} /\ i \notin lost
        BY <4>3 DEF Host!Said
      <4> QED
        BY <4>1, <4>2, <4>3
    <3> QED
      BY <3>1, <3>2
  <2> HIDE DEF said
  <2>4. /\ Len(flight) \in Nat /\ DOMAIN flight = 1 .. Len(flight)
        /\ DOMAIN flight' = 1 .. Len(flight) + 1
        /\ \A l \in 1 .. Len(flight) : flight'[l] = flight[l]
        /\ flight'[Len(flight) + 1] = said
    <3>1. flight' = Append(flight, said)
      BY <2>1 DEF said
    <3> QED
      BY <2>2, <3>1, AppendProperties, LenProperties DEF StoreInv
  <2>5. ASSUME NEW l \in DOMAIN flight', NEW i \in Requests
        PROVE  /\ flight'[l][i] = "Stopped" => phase'[i] \in {"stopped", "deleted"}
               /\ flight'[l][i] = "Deleted" => phase'[i] = "deleted"
    <3>1. CASE l \in DOMAIN flight
      BY <2>4, <3>1 DEF ReportsStayTrue, Provider!NoRevival
    <3>2. CASE l = Len(flight) + 1
      BY <2>3, <2>4, <3>2
    <3> QED
      BY <2>4, <3>1, <3>2
  <2> QED
    BY <2>5 DEF ReportsStayTrue
<1>3. ASSUME NEW k \in 1 .. FlightLimit, Deliver(k) \/ Lose(k) PROVE ReportsStayTrue'
  <2>1. \A l \in DOMAIN flight' : \E j \in DOMAIN flight : flight'[l] = flight[j]
    <3>1. k \in DOMAIN flight /\ flight \in Seq(Saids)
      BY <1>3 DEF Deliver, Lose, StoreInv
    <3>2. \/ flight' = SubSeq(flight, k + 1, Len(flight))
          \/ flight' = SubSeq(flight, 1, k - 1) \o SubSeq(flight, k + 1, Len(flight))
      BY <1>3 DEF Deliver, Lose
    <3>3. Among(flight', flight)
      BY <3>1, <3>2, Remaining
    <3> QED
      BY <3>3 DEF Among
  <2> QED
    BY <1>1, <2>1
<1>4. CASE flight' = flight
  BY <1>1, <1>4
<1>5. CASE ~Report /\ \A k \in 1 .. FlightLimit : ~Deliver(k) /\ ~Lose(k)
  BY <1>4, <1>5 DEF LifecycleNext, lifecycleVars, agentVars, GiveUp, Execute, Skip,
     Operate, StepFails, AgentCrash, HostCrash, Environment, Expire, Decide, Recover
<1> QED
  BY <1>2, <1>3, <1>5

\* A command is due when it is sent, and stays due until it is executed.
LEMMA CommandsStep ==
    ASSUME StoreInv, StoreInv', CommandsStayDue, [LifecycleNext]_lifecycleVars,
           \A i \in DOMAIN instances :
              i \in DOMAIN instances' /\ (Ends(instances[i]) => Ends(instances'[i]))
    PROVE  CommandsStayDue'
<1>1. ASSUME \A l \in DOMAIN queue' : \E k \in DOMAIN queue : queue'[l] = queue[k]
      PROVE  CommandsStayDue'
  BY <1>1 DEF CommandsStayDue
<1>2. CASE queue' = queue
  BY <1>1, <1>2
<1>3. CASE queue' = <<>>
  BY <1>3 DEF CommandsStayDue
<1>4. CASE queue # <<>> /\ queue' = Tail(queue)
  <2>1. \A l \in DOMAIN Tail(queue) : l + 1 \in DOMAIN queue /\ Tail(queue)[l] = queue[l + 1]
    BY <1>4, FirstAndRest DEF StoreInv
  <2> QED
    BY <1>1, <1>4, <2>1
<1>5. ASSUME NEW k, Deliver(k) PROVE CommandsStayDue'
  <2>1. CASE queue' = Reply(instances', flight[k])
    <3>1. IsTable(instances', Requests, Instances)
      BY DEF StoreInv, TypeOK
    <3>2. \A l \in DOMAIN Reply(instances', flight[k]) :
             LET o == Reply(instances', flight[k])[l] IN
             /\ o.vm \in DOMAIN instances'
             /\ o.action = "delete" => instances'[o.vm].state = "Deleting"
      BY <3>1, ReplySound
    <3> QED
      BY <2>1, <3>2 DEF CommandsStayDue, Ends
  <2> QED
    BY <1>2, <1>5, <2>1 DEF Deliver
<1>6. CASE \A k \in 1 .. FlightLimit : ~Deliver(k)
  <2>1. \/ queue' = queue
        \/ queue' = <<>>
        \/ queue # <<>> /\ queue' = Tail(queue)
    BY <1>6 DEF LifecycleNext, lifecycleVars, agentVars, Report, GiveUp, Execute, Skip,
       Operate, StepFails, AgentCrash, HostCrash, Environment, Lose, Expire, Decide, Recover
  <2> QED
    BY <1>2, <1>3, <1>4, <2>1
<1> QED
  BY <1>5, <1>6

\* In the beginning there is nothing to disagree about.
LEMMA LedgerInit ==
    ASSUME LifecycleInit
    PROVE  LedgerInv
<1>1. DOMAIN instances = {} /\ DOMAIN flight = {} /\ DOMAIN queue = {}
  BY DEF LifecycleInit, Established, Empty
<1>2. \A i \in Requests : phase[i] = "none"
  BY DEF LifecycleInit, Host!HostInit
<1> QED
  BY <1>1, <1>2 DEF LedgerInv, HeldFollows, LedgerBehindNode, ReportsStayTrue, CommandsStayDue

\* The provider's facts that a step of the Lifecycle may use.
LEMMA ProviderFacts ==
    LifecycleSpec => /\ []Provider!OnceInv
                     /\ [][Provider!NoRevival]_Provider!hostVars
<1>1. Provider!HostSpec => []Provider!OnceInv
  BY ProviderInputs, Provider!OnceInvariant
<1>2. Provider!HostSpec => Provider!StoppedForGood
  BY ProviderInputs, Provider!StoppedStays
<1> QED
  BY <1>1, <1>2, NodeIsProvider, PTL DEF Provider!StoppedForGood

\* A step that leaves the provider alone revives nothing either.
LEMMA NoRevivalStep ==
    ASSUME [Provider!NoRevival]_Provider!hostVars
    PROVE  Provider!NoRevival
BY DEF Provider!NoRevival, Provider!hostVars

\* Table, manifests, reports and commands agree in every behaviour, whatever is
\* lost, late, failed, crashed or recovered by hand.
LEMMA LedgerInvariant == LifecycleSpec => []LedgerInv
<1>1. LifecycleInit => LedgerInv
  BY LedgerInit
<1>2. StoreInv /\ StoreInv' /\ Provider!OnceInv /\ LedgerInv
        /\ [LifecycleNext]_lifecycleVars /\ [Provider!NoRevival]_Provider!hostVars
      => LedgerInv'
  <2> SUFFICES ASSUME StoreInv, StoreInv', Provider!OnceInv, LedgerInv,
                      [LifecycleNext]_lifecycleVars,
                      [Provider!NoRevival]_Provider!hostVars
               PROVE  LedgerInv'
    OBVIOUS
  <2>1. Provider!NoRevival
    BY NoRevivalStep
  <2>2. RowsMove
    BY StepMovesRows
  <2>3. PhasesMove
    BY StepMovesPhases
  <2>4. HeldFollows'
    BY <2>2, HeldStep
  <2>5. LedgerBehindNode'
    BY <2>1, <2>2, <2>3, BehindStep
  <2>6. ReportsStayTrue'
    BY <2>1, ReportsStep DEF LedgerInv
  <2>7. CommandsStayDue'
    BY <2>2, HeldStep, CommandsStep DEF LedgerInv
  <2> QED
    BY <2>4, <2>5, <2>6, <2>7 DEF LedgerInv
<1> QED
  BY <1>1, <1>2, StoreInvariant, ProviderFacts, PTL DEF LifecycleSpec

\* The Controller still holds whatever the Node's manifests count, so the Node
\* never refuses for capacity what was placed within its ceiling.
THEOREM LedgersAgree == LifecycleSpec => []HostWithinLedger
<1>1. LedgerInv => HostWithinLedger
  <2> SUFFICES ASSUME LedgerInv, NEW i \in Requests, NEW d \in Dims, Host!Kept(i, d) > 0
               PROVE  i \in DOMAIN instances /\ Host!Kept(i, d) <= instances[i].held[d]
    BY DEF HostWithinLedger
  <2> USE DEF LedgerInv, LedgerBehindNode
  <2>1. phase[i] \notin {"none", "deleted"}
    BY DEF Host!Kept
  <2>2. i \in DOMAIN instances /\ instances[i].state # "Deleted"
    BY <2>1
  <2>3. Charge[i][d] \in Nat
    BY ChargeType
  <2>4. CASE phase[i] = "stopped"
    <3>1. d = "disk" /\ Host!Kept(i, d) = Charge[i][d]
      BY <2>4 DEF Host!Kept
    <3>2. PoweredOff(Charge[i])["disk"] = Charge[i]["disk"]
      BY ChargeType DEF PoweredOff, Resources, Dims
    <3>3. instances[i].held[d] = Charge[i][d]
      BY <2>2, <3>1, <3>2 DEF HeldFollows, Ends
    <3> QED
      BY <2>2, <2>3, <3>1, <3>3
  <2>5. CASE phase[i] # "stopped"
    <3>1. Host!Kept(i, d) = Charge[i][d]
      BY <2>1, <2>5 DEF Host!Kept
    <3>2. ~Ends(instances[i])
      BY <2>1, <2>2, <2>5
    <3>3. instances[i].held[d] = Charge[i][d]
      BY <2>2, <3>2 DEF HeldFollows
    <3> QED
      BY <2>2, <2>3, <3>1, <3>3
  <2> QED
    BY <2>4, <2>5
<1> QED
  BY <1>1, LedgerInvariant, PTL

-----------------------------------------------------------------------------
(* Deletions.                                                              *)

\* What the Node deletes, or has deleted, the Controller is deleting.
DeletionsAsked == \A i \in Requests :
    phase[i] = "deleted" \/ Erasing(i) => i \in DOMAIN instances /\ Ends(instances[i])

\* When nobody recovers a VM before the Controller asks for it, no report is
\* ever refused for a deletion the Controller does not expect.
THEOREM NoUnexpectedDeletion ==
    ASSUME ~Unasked
    PROVE  LifecycleSpec => []DeletionsExpected
<1>1. LifecycleInit => DeletionsAsked
  BY DEF LifecycleInit, Host!HostInit, Host!Idle, DeletionsAsked, Erasing
<1>2. StoreInv /\ Provider!OnceInv /\ LedgerInv /\ DeletionsAsked
        /\ [LifecycleNext]_lifecycleVars
      => DeletionsAsked'
  <2> SUFFICES ASSUME StoreInv, Provider!OnceInv, LedgerInv, DeletionsAsked,
                      [LifecycleNext]_lifecycleVars, NEW i \in Requests,
                      (phase[i] = "deleted" \/ Erasing(i))'
               PROVE  (i \in DOMAIN instances /\ Ends(instances[i]))'
    BY DEF DeletionsAsked
  <2>1. PhasesMove /\ DeletionsBegin
    BY StepMovesPhases
  <2>2. \A j \in DOMAIN instances :
           j \in DOMAIN instances' /\ (Ends(instances[j]) => Ends(instances'[j]))
    BY StepMovesRows, HeldStep
  <2>3. Ordered(i, "delete") => i \in DOMAIN instances /\ Ends(instances[i])
    <3>1. Ordered(i, "delete") => 1 \in DOMAIN queue /\ queue[1] = Head(queue)
      BY FirstAndRest DEF Ordered, StoreInv
    <3> QED
      BY <3>1 DEF Ordered, LedgerInv, CommandsStayDue
  <2>4. Recover(i) => i \in DOMAIN instances /\ Ends(instances[i])
    BY DEF Recover, Ends
  <2>5. i \in DOMAIN instances /\ Ends(instances[i])
    BY <2>1, <2>3, <2>4 DEF PhasesMove, DeletionsBegin, DeletionsAsked, Erasing
  <2> QED
    BY <2>2, <2>5
<1>3. LedgerInv /\ DeletionsAsked => DeletionsExpected
  BY DEF LedgerInv, ReportsStayTrue, DeletionsAsked, DeletionsExpected, Ends
<1> QED
  BY <1>1, <1>2, <1>3, StoreInvariant, ProviderFacts, LedgerInvariant, PTL DEF LifecycleSpec

-----------------------------------------------------------------------------
(* The refinement of module Lease.                                         *)

\* A step is the Controller's or the Node's, never both.
LEMMA StepsApart ==
    ASSUME [LifecycleNext]_lifecycleVars
    PROVE  instances' = instances \/ UNCHANGED hostVars
BY DEF LifecycleNext, lifecycleVars, vars, Report, GiveUp, Execute, Skip, Operate,
       StepFails, AgentCrash, HostCrash, Environment, Deliver, Lose, Expire, Decide, Recover

\* What a lease is worth: all until the Stopped report, the disk until the
\* Deleted one.
LeaseWorth == \A i \in Requests :
    /\ i \notin DOMAIN instances => LeaseOf(i) = "none"
    /\ i \in DOMAIN instances /\ ~Ends(instances[i]) => LeaseOf(i) = "all"
    /\ i \in DOMAIN instances /\ instances[i].state = "Deleting" => LeaseOf(i) = "disk"
    /\ i \in DOMAIN instances /\ instances[i].state = "Deleted" => LeaseOf(i) = "over"

\* The charge of a Pool is never nothing, so no two of these are confused.
LEMMA LeaseValue ==
    ASSUME HeldFollows
    PROVE  LeaseWorth
<1> SUFFICES ASSUME NEW i \in Requests
             PROVE  /\ i \notin DOMAIN instances => LeaseOf(i) = "none"
                    /\ i \in DOMAIN instances =>
                          /\ ~Ends(instances[i]) => LeaseOf(i) = "all"
                          /\ instances[i].state = "Deleting" => LeaseOf(i) = "disk"
                          /\ instances[i].state = "Deleted" => LeaseOf(i) = "over"
  BY DEF LeaseWorth
<1>1. /\ Charge[i]["cpu"] \in Nat /\ Charge[i]["cpu"] > 0
      /\ Charge[i]["disk"] \in Nat /\ Charge[i]["disk"] > 0
  BY ChargeType DEF Dims
<1>2. /\ PoweredOff(Charge[i])["cpu"] = 0
      /\ PoweredOff(Charge[i])["disk"] = Charge[i]["disk"]
      /\ Nothing["cpu"] = 0 /\ Nothing["disk"] = 0
  BY ChargeType DEF PoweredOff, Nothing, Dims, Resources
<1>3. CASE i \notin DOMAIN instances
  <2>1. Held(i) = Nothing
    BY <1>3 DEF Held
  <2> QED
    BY <1>2, <1>3, <2>1 DEF LeaseOf
<1>4. CASE i \in DOMAIN instances
  <2>1. Held(i) = instances[i].held
    BY <1>4 DEF Held
  <2>2. CASE Held(i) = Charge[i] /\ ~Ends(instances[i])
    BY <1>1, <1>2, <1>4, <2>2 DEF LeaseOf, Ends
  <2>3. CASE Held(i) = PoweredOff(Charge[i]) /\ instances[i].state = "Deleting"
    BY <1>1, <1>2, <1>4, <2>3 DEF LeaseOf, Ends
  <2>4. CASE Held(i) = Nothing /\ instances[i].state = "Deleted"
    BY <1>2, <1>4, <2>4 DEF LeaseOf, Ends
  <2> QED
    BY <1>4, <2>1, <2>2, <2>3, <2>4 DEF HeldFollows, Ends
<1> QED
  BY <1>3, <1>4

\* A step of the Node is one that the lease of its VM allows.
LEMMA NodeKeepsLease ==
    ASSUME LedgerInv, Provider!OnceInv, Provider!CertainInv, LeaseWorth,
           instances' = instances, NEW i \in Requests, Provider!MachineMoves(i)
    PROVE  \/ Contract!MakeDisk(i) \/ Contract!PowerOn(i) \/ Contract!PowerOff(i)
           \/ Contract!RemoveDisk(i) \/ Contract!Rest(i)
<1> USE DEF Contract!SameLease, Contract!SameStored, Contract!SameMachine,
            Provider!SameDisks, Provider!SamePower, Provider!Runs, Host!Runs,
            Provider!OnceInv, Provider!HostTypeOK
<1>1. LeaseOf(i)' = LeaseOf(i)
  BY DEF LeaseOf, Held
<1>2. phase[i] \in {"prepared", "start-issued"} => LeaseOf(i) = "all"
  BY DEF LeaseWorth, LedgerInv, LedgerBehindNode
<1>3. CASE Provider!SameDisks(i) /\ Provider!SamePower(i)
  BY <1>1, <1>3 DEF Contract!Rest
<1>4. CASE phase[i] = "prepared" /\ i \in disks' /\ Provider!SamePower(i)
  BY <1>1, <1>2, <1>4 DEF Contract!MakeDisk
<1>5. CASE /\ phase[i] = "start-issued" /\ i \in disks /\ boots[i] = 0
           /\ Provider!Runs(i)' /\ boots'[i] = 1 /\ Provider!SameDisks(i)
  BY <1>1, <1>2, <1>5 DEF Contract!PowerOn
<1>6. CASE /\ Provider!Runs(i) /\ ~Provider!Runs(i)' /\ boots'[i] = boots[i]
           /\ Provider!SameDisks(i)
  BY <1>1, <1>6 DEF Contract!PowerOff
<1>7. CASE ~Provider!Runs(i) /\ i \notin disks' /\ Provider!SamePower(i)
  BY <1>1, <1>7 DEF Contract!RemoveDisk
<1> QED
  BY <1>3, <1>4, <1>5, <1>6, <1>7 DEF Provider!MachineMoves

\* A step of the Controller gives or takes back only what it may.
LEMMA ControllerKeepsLease ==
    ASSUME LedgerInv, Provider!CertainInv, LeaseWorth, LeaseWorth',
           RowsMove, UNCHANGED hostVars, NEW i \in Requests
    PROVE  \/ Contract!Grant(i) \/ Contract!ReleaseCompute(i)
           \/ Contract!ReleaseDisk(i) \/ Contract!Rest(i)
<1> USE DEF Contract!SameStored, Contract!SameMachine, hostVars, Host!Runs, LeaseWorth
<1>1. Contract!SameStored(i) /\ Contract!SameMachine(i)
  OBVIOUS
<1>2. CASE i \notin DOMAIN instances
  <2>1. LeaseOf(i) = "none" /\ (LeaseOf(i)' = "none" \/ LeaseOf(i)' = "all")
    BY <1>2 DEF RowsMove
  <2> QED
    BY <1>1, <2>1 DEF Contract!Grant, Contract!Rest, Contract!SameLease
<1>3. CASE i \in DOMAIN instances /\ StaysRow(instances[i], instances'[i])
  <2>1. i \in DOMAIN instances'
    BY <1>3 DEF RowsMove
  <2>2. LeaseOf(i)' = LeaseOf(i)
    BY <1>3, <2>1 DEF StaysRow, LeaseOf, Held
  <2> QED
    BY <1>1, <2>2 DEF Contract!Rest, Contract!SameLease
<1>4. CASE /\ i \in DOMAIN instances /\ StopsRow(instances[i], instances'[i])
           /\ Reported(i, "Stopped")
  <2>1. LeaseOf(i) \in {"all", "disk"} /\ LeaseOf(i)' = "disk"
    BY <1>4 DEF RowsMove, StopsRow, Ends
  <2>2. phase[i] \in {"stopped", "deleted"}
    BY <1>4 DEF Reported, LedgerInv, ReportsStayTrue
  <2>3. ~Host!Runs(i)
    BY <2>2 DEF Provider!CertainInv, Provider!ManifestTells, Provider!Runs
  <2> QED
    BY <1>1, <2>1, <2>3
    DEF Contract!ReleaseCompute, Contract!Rest, Contract!SameLease
<1>5. CASE /\ i \in DOMAIN instances /\ EndsRow(instances[i], instances'[i])
           /\ Reported(i, "Deleted")
  <2>1. LeaseOf(i) = "disk" /\ LeaseOf(i)' = "over"
    BY <1>5 DEF RowsMove, EndsRow, Ends
  <2>2. phase[i] = "deleted"
    BY <1>5 DEF Reported, LedgerInv, ReportsStayTrue
  <2>3. i \notin disks
    BY <2>2 DEF Provider!CertainInv, Provider!ManifestTells
  <2> QED
    BY <1>1, <2>1, <2>3 DEF Contract!ReleaseDisk
<1> QED
  BY <1>2, <1>3, <1>4, <1>5 DEF RowsMove

\* The lifecycle that docs/ARCHITECTURE.md promises for the resources of a job
\* is kept by Controller and Node together, whatever is lost, late, failed,
\* crashed or recovered by hand, as long as no failed start takes effect late.
THEOREM LeaseRefinement ==
    ASSUME ~LateStarts
    PROVE  LifecycleSpec => LeaseKept
<1>1. LifecycleInit => Contract!LeaseInit
  <2> SUFFICES ASSUME LifecycleInit PROVE Contract!LeaseInit
    OBVIOUS
  <2>1. \A i \in Requests : i \notin DOMAIN instances
    BY DEF LifecycleInit, Established, Empty
  <2>2. \A i \in Requests : LeaseOf(i) = "none"
    BY <2>1, LedgerInit, LeaseValue DEF LedgerInv, LeaseWorth
  <2> QED
    BY <2>2 DEF LifecycleInit, Host!HostInit, Host!Runs, Contract!LeaseInit
<1>2. StoreInv /\ LedgerInv /\ LedgerInv' /\ Provider!OnceInv /\ Provider!CertainInv
        /\ [LifecycleNext]_lifecycleVars
      => [Contract!LeaseNext]_Contract!leaseVars
  <2> SUFFICES ASSUME StoreInv, LedgerInv, LedgerInv', Provider!OnceInv,
                      Provider!CertainInv, [LifecycleNext]_lifecycleVars
               PROVE  Contract!LeaseNext
    OBVIOUS
  <2>1. LeaseWorth
    BY LeaseValue DEF LedgerInv
  <2>2. (LedgerInv => LeaseWorth)'
    <3>1. LedgerInv => LeaseWorth
      BY LeaseValue DEF LedgerInv
    <3> QED
      BY LeaseValue, PTL DEF LedgerInv
  <2>3. ASSUME NEW i \in Requests, instances' = instances
        PROVE  \/ Contract!MakeDisk(i) \/ Contract!PowerOn(i) \/ Contract!PowerOff(i)
               \/ Contract!RemoveDisk(i) \/ Contract!Rest(i)
    <3>1. [Provider!HostNext]_Provider!hostVars
      BY ProviderStep
    <3>2. Provider!MachineMoves(i)
      BY <3>1, ProviderInputs, Provider!MachineStep
    <3> QED
      BY <2>1, <2>3, <3>2, NodeKeepsLease
  <2>4. ASSUME NEW i \in Requests, UNCHANGED hostVars
        PROVE  \/ Contract!Grant(i) \/ Contract!ReleaseCompute(i)
               \/ Contract!ReleaseDisk(i) \/ Contract!Rest(i)
    BY <2>1, <2>2, <2>4, StepMovesRows, ControllerKeepsLease
  <2> QED
    BY <2>3, <2>4, StepsApart DEF Contract!LeaseNext
<1>3. Provider!HostSpec => []Provider!CertainInv
  BY ProviderInputs, Provider!CertainInvariant
<1> QED
  BY <1>1, <1>2, <1>3, StoreInvariant, LedgerInvariant, ProviderFacts, NodeIsProvider, PTL
  DEF LifecycleSpec, LeaseKept, Contract!LeaseSpec
=============================================================================

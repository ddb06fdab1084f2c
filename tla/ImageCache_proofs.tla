--------------------------- MODULE ImageCache_proofs ---------------------------
(***************************************************************************)
(* Proofs about the image caches (module ImageCache), for any number of    *)
(* images, VMs and files, any sizes and limits, and any number of faults.  *)
(*                                                                         *)
(* BackingIsCached is not inductive: a prune removes links one by one, and *)
(* is interrupted.  What makes it safe is that everything it has still to  *)
(* remove stays unneeded until it is removed (PruneIsSafe): nobody works   *)
(* on a Node's cache meanwhile (Alone), and nothing is placed.             *)
(*                                                                         *)
(* CacheTypeOK bounds what is set aside by the faults there were, which is *)
(* not inductive either: a file goes bad long before it is set aside.  So  *)
(* a bad file that may still be is counted with those that were            *)
(* (SetAside), and a file is set aside only when it has no other name.     *)
(***************************************************************************)
EXTENDS ImageCache, FiniteSetTheorems, TLAPS

USE CacheInputs

Link(k, d) == [kind |-> k, digest |-> d]

\* The tables have a row of each image, VM or cache.
Tables ==
    /\ DOMAIN store = Digests /\ DOMAIN cache = Digests /\ DOMAIN base = Digests
    /\ DOMAIN spare = Digests /\ DOMAIN rotten = Digests
    /\ DOMAIN inst = VMs /\ DOMAIN overlay = VMs
    /\ doomed \in [{"controller", "node"} -> SUBSET Links]

\* A prune, the Agent, and the building of a VM by the Agent exclude each other.
Alone ==
    /\ doomed["node"] # {} => ~up
    /\ ensuring # {} => up

\* What a prune has still to remove may be removed, an image's base before the
\* image.
PruneIsSafe ==
    /\ doomed["controller"] \subseteq Of("store", Digests \ LiveImages)
    /\ \A link \in doomed["node"] : link.kind # "store"
    /\ \A d \in Digests : Link("base", d) \in doomed["node"] \/ Link("cache", d) \in doomed["node"]
           => \A v \in VMs : ImageOf[v] = d => overlay[v] = NoFile
    /\ \A d \in Digests : Link("cache", d) \in doomed["node"] /\ base[d] # NoFile
           => Link("base", d) \in doomed["node"]

CacheInv == Tables /\ Alone /\ PruneIsSafe /\ BackingIsCached

-----------------------------------------------------------------------------
\* The initial state has all of it.
LEMMA CacheInvInit == CacheInit => CacheInv
  BY DEF CacheInit, CacheInv, Tables, Alone, PruneIsSafe, BackingIsCached

\* fileLinkCount of a cached file that has no other link: it is not the base,
\* the Controller's file, or left over from a seed.
LEMMA OneLink ==
    ASSUME NEW d \in Digests, LinkCount(d, cache[d]) = 1
    PROVE  cache[d] \notin {store[d], base[d], spare[d]}
<1> DEFINE linked == {n \in 1 .. 4 : <<store[d], cache[d], base[d], spare[d]>>[n] = cache[d]}
<1>1. IsFiniteSet(linked)
  <2>1. IsFiniteSet(1 .. 4)
    BY FS_Interval, 1 \in Int, 4 \in Int, Zenon
  <2>2. linked \in SUBSET (1 .. 4)
    OBVIOUS
  <2> HIDE DEF linked
  <2> QED
    BY <2>1, <2>2, FS_Subset
<1>2. PICK n : linked = {n}
  BY <1>1, FS_Singleton DEF LinkCount
<1>3. /\ 2 \in linked
      /\ store[d] = cache[d] => 1 \in linked
      /\ base[d] = cache[d] => 3 \in linked
      /\ spare[d] = cache[d] => 4 \in linked
  OBVIOUS
<1> HIDE DEF linked
<1> QED
  BY <1>2, <1>3

\* What is set aside, or taken for missing, is no VM's base.
LEMMA AsideIsUnlinked ==
    ASSUME BackingIsCached, NEW d \in Digests, cache[d] # NoFile => LinkCount(d, cache[d]) = 1
    PROVE  base[d] = NoFile
  BY OneLink DEF BackingIsCached

-----------------------------------------------------------------------------
(* What administrators do.                                                 *)

\* An import, a seed or a rotten copy moves no VM off its base.
LEMMA ImportSteps ==
    ASSUME CacheInv, NEW d \in Digests, Configure(d) \/ Import(d) \/ ImportToNode(d) \/ Seed(d) \/ Rot(d)
    PROVE  CacheInv'
<1> USE DEF CacheInv, agentSide, vmSide, names
<1>1. LiveImages' = LiveImages
  BY DEF Configure, Import, ImportToNode, Seed, Rot, LiveImages
<1>2. CASE Configure(d)
  BY <1>1, <1>2 DEF Configure, Tables, Alone, PruneIsSafe, BackingIsCached, contents
<1>3. CASE Import(d)
  BY <1>1, <1>3 DEF Import, Tables, Alone, PruneIsSafe, BackingIsCached
<1>4. CASE ImportToNode(d)
  <2>1. base[d] = NoFile
    BY <1>4, AsideIsUnlinked DEF ImportToNode
  <2> QED
    BY <1>1, <1>4, <2>1 DEF ImportToNode, Tables, Alone, PruneIsSafe, BackingIsCached
<1>5. CASE Seed(d)
  <2>1. /\ base[d] = NoFile
        /\ cache' = cache \/ cache' = [cache EXCEPT ![d] = store[d]]
        /\ spare' = spare \/ spare' = [spare EXCEPT ![d] = store[d]]
        /\ UNCHANGED <<inst, store, base, rotten, up, ensuring, overlay, doomed>>
    BY <1>5 DEF Seed, BackingIsCached, contents
  <2>2. Tables' /\ BackingIsCached'
    BY <2>1 DEF Tables, BackingIsCached
  <2>3. Alone' /\ PruneIsSafe'
    BY <1>1, <2>1 DEF Alone, PruneIsSafe
  <2> QED
    BY <2>2, <2>3
<1>6. CASE Rot(d)
  BY <1>1, <1>6 DEF Rot, Tables, Alone, PruneIsSafe, BackingIsCached
<1> QED
  BY <1>2, <1>3, <1>4, <1>5, <1>6

\* A prune takes what no VM has a disk on, and the base with its image.
LEMMA ScanSteps ==
    ASSUME CacheInv, ScanNode \/ ScanStore PROVE CacheInv'
<1> USE DEF CacheInv, agentSide, vmSide, names
<1>1. LiveImages' = LiveImages
  BY DEF ScanNode, ScanStore, LiveImages
<1>2. CASE ScanNode
  <2>1. PICK images \in SUBSET {d \in Digests : ~Protected(d)},
             spares \in SUBSET {d \in Digests : spare[d] # NoFile},
             begun \in SUBSET {d \in Digests : partial[d].size > 0},
             aside \in SUBSET {d \in Digests : quarantine[d] > 0} :
             doomed' = [doomed EXCEPT !["node"] =
                 Of("spare", spares)
                     \cup Of("base", {d \in images : base[d] # NoFile})
                     \cup Of("cache", {d \in images : cache[d] # NoFile})
                     \cup Of("partial", begun) \cup Of("quarantine", aside)]
    BY <1>2 DEF ScanNode
  <2>2. \A d \in images : \A v \in VMs : ImageOf[v] = d => overlay[v] = NoFile
    BY DEF Protected
  <2>3. doomed'["controller"] = doomed["controller"]
    BY <2>1 DEF Tables
  <2>4. \A link \in doomed'["node"] :
           /\ link \in Links /\ link.kind # "store"
           /\ link.kind \in {"base", "cache"} => link.digest \in images
    BY <2>1 DEF Tables, Of, Links, Kinds
  <2>5. \A d \in images : base[d] # NoFile => Link("base", d) \in doomed'["node"]
    BY <2>1 DEF Tables, Of, Link
  <2>6. doomed' \in [{"controller", "node"} -> SUBSET Links]
    <3>1. doomed'["node"] \subseteq Links
      BY <2>4
    <3> QED
      BY <2>1, <3>1 DEF Tables
  <2>7. \A d : /\ Link("base", d) \in doomed'["node"] => d \in images
               /\ Link("cache", d) \in doomed'["node"] => d \in images
    BY <2>4 DEF Link
  <2> QED
    BY <1>1, <1>2, <2>2, <2>3, <2>4, <2>5, <2>6, <2>7
    DEF ScanNode, Tables, Alone, PruneIsSafe, BackingIsCached, contents
<1>3. CASE ScanStore
  <2>1. PICK old \in SUBSET {d \in Digests : store[d] # NoFile /\ ~ProtectedInStore(d)} :
             doomed' = [doomed EXCEPT !["controller"] = Of("store", old)]
    BY <1>3 DEF ScanStore
  <2>2. old \subseteq Digests \ LiveImages
    BY DEF ProtectedInStore
  <2>3. doomed' \in [{"controller", "node"} -> SUBSET Links]
    BY <2>1, <2>2 DEF Tables, Of, Links, Kinds
  <2>4. doomed'["node"] = doomed["node"] /\ doomed'["controller"] = Of("store", old)
    BY <2>1 DEF Tables
  <2> QED
    BY <1>1, <1>3, <2>2, <2>3, <2>4
    DEF ScanStore, Tables, Alone, PruneIsSafe, BackingIsCached, contents, Of
<1> QED
  BY <1>2, <1>3

\* It removes a base before its image, and neither while a disk is on it.
LEMMA RemoveStep ==
    ASSUME CacheInv, NEW s \in {"controller", "node"}, RemoveOne(s) PROVE CacheInv'
<1> USE DEF CacheInv
<1>1. PICK link \in doomed[s] :
        /\ link.kind = "cache" => [link EXCEPT !.kind = "base"] \notin doomed[s]
        /\ store' = IF link.kind = "store" THEN [store EXCEPT ![link.digest] = NoFile] ELSE store
        /\ cache' = IF link.kind = "cache" THEN [cache EXCEPT ![link.digest] = NoFile] ELSE cache
        /\ base' = IF link.kind = "base" THEN [base EXCEPT ![link.digest] = NoFile] ELSE base
        /\ spare' = IF link.kind = "spare" THEN [spare EXCEPT ![link.digest] = NoFile] ELSE spare
        /\ \/ doomed' = [doomed EXCEPT ![s] = @ \ {link}]
           \/ link.kind = "quarantine" /\ doomed' = doomed
        /\ UNCHANGED <<wanted, inst, rotten, agentSide, vmSide, faults>>
  BY DEF RemoveOne
<1>2. link \in Links /\ link.kind \in Kinds /\ link.digest \in Digests
  BY DEF Tables, Links
<1>3. LiveImages' = LiveImages
  BY <1>1 DEF LiveImages
<1>4. Tables'
  BY <1>1 DEF Tables, vmSide
<1>5. /\ \A t \in {"controller", "node"} : doomed'[t] \subseteq doomed[t]
      /\ \A l \in doomed["node"] : l \in doomed'["node"] \/ l = link
  BY <1>1 DEF Tables
<1>6. CASE s = "controller"
  <2>1. link.kind = "store"
    BY <1>6 DEF PruneIsSafe, Of
  <2>2. UNCHANGED <<cache, base>> /\ doomed'["node"] = doomed["node"]
    BY <1>1, <1>6, <2>1 DEF Tables
  <2> QED
    BY <1>1, <1>3, <1>4, <1>5, <2>2 DEF Alone, PruneIsSafe, BackingIsCached, agentSide, vmSide
<1>7. CASE s = "node"
  <2>1. link = Link(link.kind, link.digest)
    BY <1>2 DEF Links, Link
  <2>2. link.kind = "cache" => base[link.digest] = NoFile
    <3>1. SUFFICES ASSUME link.kind = "cache" PROVE base[link.digest] = NoFile
      OBVIOUS
    <3>2. [link EXCEPT !.kind = "base"] = Link("base", link.digest)
      BY <1>2 DEF Links, Link
    <3> QED
      BY <1>1, <1>2, <1>7, <2>1, <3>1, <3>2 DEF PruneIsSafe
  <2>3. link.kind \in {"base", "cache"}
            => \A v \in VMs : ImageOf[v] = link.digest => overlay[v] = NoFile
    BY <1>2, <1>7, <2>1 DEF PruneIsSafe
  <2>4. BackingIsCached'
    <3>1. CASE link.kind = "cache"
      BY <1>1, <1>2, <2>2, <3>1 DEF BackingIsCached, Tables, vmSide
    <3>2. CASE link.kind = "base"
      BY <1>1, <1>2, <2>3, <3>2 DEF BackingIsCached, Tables, vmSide
    <3>3. CASE link.kind \notin {"base", "cache"}
      BY <1>1, <3>3 DEF BackingIsCached, vmSide
    <3> QED
      BY <3>1, <3>2, <3>3
  <2>5. \A d \in Digests : base'[d] # NoFile =>
            base[d] # NoFile /\ (Link("base", d) \in doomed["node"]
                                   => Link("base", d) \in doomed'["node"])
    <3>1. ASSUME NEW d \in Digests, base'[d] # NoFile, Link("base", d) = link PROVE FALSE
      BY <1>1, <1>2, <3>1 DEF Link, Tables
    <3> QED
      BY <1>1, <1>2, <1>5, <3>1 DEF Tables
  <2>6. PruneIsSafe'
    BY <1>1, <1>3, <1>5, <2>5 DEF PruneIsSafe, vmSide
  <2> QED
    BY <1>1, <1>4, <1>5, <2>4, <2>6 DEF Alone, agentSide
<1> QED
  BY <1>6, <1>7

\* An interrupted prune leaves the rest.
LEMMA StopsStep ==
    ASSUME CacheInv, NEW s \in {"controller", "node"}, PruneStops(s) PROVE CacheInv'
<1> USE DEF CacheInv
<1>1. /\ doomed' = [doomed EXCEPT ![s] = {}]
      /\ UNCHANGED <<wanted, inst, names, contents, agentSide, vmSide>>
  BY DEF PruneStops
<1>2. doomed' \in [{"controller", "node"} -> SUBSET Links]
  BY <1>1 DEF Tables
<1>3. \A t \in {"controller", "node"} : doomed'[t] = IF t = s THEN {} ELSE doomed[t]
  BY <1>1 DEF Tables
<1>4. LiveImages' = LiveImages
  BY <1>1 DEF LiveImages
<1> QED
  BY <1>1, <1>2, <1>3, <1>4
  DEF Tables, Alone, PruneIsSafe, BackingIsCached, names, contents, agentSide, vmSide

-----------------------------------------------------------------------------
(* The Controller's records, and the Agent.                                *)

\* No VM gets an image while the Controller's prune runs; one whose deletion is
\* known needs it no longer.
LEMMA RecordSteps ==
    ASSUME CacheInv,
           (\E v \in VMs : PlaceVM(v) \/ Release(v) \/ Delete(v)) \/ Sync \/ StartAgent \/ StopAgent
    PROVE  CacheInv'
<1> USE DEF CacheInv, agentSide, vmSide, names, contents
<1>1. CASE \E v \in VMs : PlaceVM(v)
  BY <1>1 DEF PlaceVM, Serving, Tables, Alone, PruneIsSafe, BackingIsCached
<1>2. CASE \E v \in VMs : Release(v)
  BY <1>2 DEF Release, Serving, Tables, Alone, PruneIsSafe, BackingIsCached
<1>3. CASE \E v \in VMs : Delete(v)
  <2>1. LiveImages' = LiveImages
    BY <1>3 DEF Delete, LiveImages
  <2> QED
    BY <1>3, <2>1 DEF Delete, Tables, Alone, PruneIsSafe, BackingIsCached
<1>4. CASE Sync
  BY <1>4 DEF Sync, Serving, Tables, Alone, PruneIsSafe, BackingIsCached
<1>5. CASE StartAgent \/ StopAgent
  <2>1. LiveImages' = LiveImages
    BY <1>5 DEF StartAgent, StopAgent, LiveImages
  <2> QED
    BY <1>5, <2>1 DEF StartAgent, StopAgent, Tables, Alone, PruneIsSafe, BackingIsCached
<1> QED
  BY <1>1, <1>2, <1>3, <1>4, <1>5

\* A VM is built while the Agent runs, when no prune of the Node has anything to
\* remove.
LEMMA BuildSteps ==
    ASSUME CacheInv, GiveUp \/ \E v \in VMs : Begin(v) \/ LinkBase(v) \/ MakeOverlay(v)
    PROVE  CacheInv'
<1> USE DEF CacheInv, agentSide, vmSide, names, contents
<1>1. LiveImages' = LiveImages
  BY DEF GiveUp, Begin, LinkBase, MakeOverlay, LiveImages
<1>2. CASE GiveUp
  BY <1>1, <1>2 DEF GiveUp, Tables, Alone, PruneIsSafe, BackingIsCached
<1>3. CASE \E v \in VMs : Begin(v)
  <2>1. up /\ UNCHANGED <<inst, store, cache, base, spare, rotten, up, overlay, doomed>>
    BY <1>3 DEF Begin
  <2>2. Tables' /\ BackingIsCached'
    BY <2>1 DEF Tables, BackingIsCached
  <2>3. Alone' /\ PruneIsSafe'
    BY <1>1, <2>1 DEF Alone, PruneIsSafe
  <2> QED
    BY <2>2, <2>3
<1>4. ASSUME NEW v \in VMs, LinkBase(v) PROVE CacheInv'
  <2>1. ImageOf[v] \in Digests /\ doomed["node"] = {}
    BY <1>4 DEF LinkBase, Alone
  <2> QED
    BY <1>1, <1>4, <2>1 DEF LinkBase, Tables, Alone, PruneIsSafe, BackingIsCached
<1>5. ASSUME NEW v \in VMs, MakeOverlay(v) PROVE CacheInv'
  <2>1. ImageOf[v] \in Digests /\ doomed["node"] = {}
    BY <1>5 DEF MakeOverlay, Alone
  <2> QED
    BY <1>1, <1>5, <2>1 DEF MakeOverlay, Tables, Alone, PruneIsSafe, BackingIsCached
<1> QED
  BY <1>2, <1>3, <1>4, <1>5

\* A download replaces a file that is linked to nothing.
LEMMA DownloadStep ==
    ASSUME CacheInv, Download PROVE CacheInv'
<1> USE DEF CacheInv, vmSide
<1>1. PICK d \in Missing :
        /\ up /\ ensuring = {} /\ MayAside(d)
        /\ \E i : cache' = [cache EXCEPT ![d] = i]
        /\ rotten' = rotten \/ \E R : rotten' = [rotten EXCEPT ![d] = R]
        /\ UNCHANGED <<wanted, inst, store, base, spare, up, catalog, ensuring, vmSide, doomed>>
  BY DEF Download, PublishPartial
<1>2. d \in Digests \/ d \notin DOMAIN cache
  BY DEF Tables
<1>3. LiveImages' = LiveImages
  BY <1>1 DEF LiveImages
<1>4. d \in Digests => base[d] = NoFile
  BY <1>1, AsideIsUnlinked DEF MayAside
<1> QED
  BY <1>1, <1>2, <1>3, <1>4 DEF Tables, Alone, PruneIsSafe, BackingIsCached

\* Every step keeps the invariant.
LEMMA CacheInvStep == CacheInv /\ [CacheNext]_cacheVars => CacheInv'
<1> SUFFICES ASSUME CacheInv, [CacheNext]_cacheVars PROVE CacheInv'
  OBVIOUS
<1>1. CASE UNCHANGED cacheVars
  <2>1. LiveImages' = LiveImages
    BY <1>1 DEF cacheVars, LiveImages
  <2> QED
    BY <1>1, <2>1 DEF cacheVars, CacheInv, Tables, Alone, PruneIsSafe, BackingIsCached,
                      names, agentSide, vmSide, contents
<1>2. CASE Administer
  BY <1>2, ImportSteps, ScanSteps, RemoveStep, StopsStep DEF Administer
<1>3. CASE AgentStep
  BY <1>3, RecordSteps, BuildSteps, DownloadStep DEF AgentStep
<1>4. CASE \E v \in VMs : PlaceVM(v) \/ Release(v)
  BY <1>4, RecordSteps
<1> QED
  BY <1>1, <1>2, <1>3, <1>4 DEF CacheNext

\* No prune, quarantine, import or crash takes the base from a VM's disk, or
\* leaves a base that is not the cached file.
THEOREM BackingKept == CacheSpec => []BackingIsCached
  BY CacheInvInit, CacheInvStep, PTL DEF CacheSpec, CacheInv

-----------------------------------------------------------------------------
(* What steps may not do.                                                  *)

\* An intact image that a VM is made from stays in the Controller's cache: a
\* prune has nothing of it to remove, and an import replaces none.
THEOREM LiveImagesServed == CacheSpec => LiveImageServed
<1>1. CacheInv /\ [CacheNext]_cacheVars
        => \A d \in LiveImages : Intact(d, store[d]) => store'[d] = store[d]
  <2> SUFFICES ASSUME CacheInv, [CacheNext]_cacheVars, NEW d \in LiveImages,
                      Intact(d, store[d])
               PROVE  store'[d] = store[d]
    OBVIOUS
  <2> USE DEF names, vmSide
  <2>1. CASE UNCHANGED store
    BY <2>1
  <2>2. ASSUME NEW e \in Digests, Import(e) PROVE store'[d] = store[d]
    BY <2>2 DEF Import, CacheInv, Tables
  <2>3. ASSUME NEW s \in {"controller", "node"}, RemoveOne(s) PROVE store'[d] = store[d]
    <3>1. PICK link \in doomed[s] :
            store' = IF link.kind = "store" THEN [store EXCEPT ![link.digest] = NoFile] ELSE store
      BY <2>3 DEF RemoveOne
    <3>2. link.kind = "store" => link.digest \notin LiveImages
      BY DEF CacheInv, PruneIsSafe, Of
    <3> QED
      BY <3>1, <3>2
  <2>4. CASE UNCHANGED cacheVars
    BY <2>4 DEF cacheVars
  <2>5. CASE \E e \in Digests : Configure(e) \/ ImportToNode(e) \/ Seed(e) \/ Rot(e)
    BY <2>1, <2>5 DEF Configure, ImportToNode, Seed, Rot
  <2>6. CASE ScanNode \/ ScanStore \/ \E s \in {"controller", "node"} : PruneStops(s)
    BY <2>1, <2>6 DEF ScanNode, ScanStore, PruneStops
  <2>7. CASE AgentStep
    BY <2>1, <2>7 DEF AgentStep, StartAgent, StopAgent, Sync, GiveUp, Download, Begin, LinkBase,
                      MakeOverlay, Delete
  <2>8. CASE \E v \in VMs : PlaceVM(v) \/ Release(v)
    BY <2>1, <2>8 DEF PlaceVM, Release
  <2> QED
    BY <2>2, <2>3, <2>4, <2>5, <2>6, <2>7, <2>8 DEF CacheNext, Administer
<1> QED
  BY CacheInvInit, CacheInvStep, <1>1, PTL DEF CacheSpec, LiveImageServed

\* A file gets its name in the Node's cache only with the right content, however
\* the parts of it arrived.
THEOREM PublishedRight == CacheSpec => PublishedIsRight
<1>1. CacheInv /\ [CacheNext]_cacheVars
        => \A d \in Digests : cache'[d] \notin {cache[d], NoFile} => cache'[d] \notin rotten'[d]
  <2> SUFFICES ASSUME CacheInv, [CacheNext]_cacheVars, NEW d \in Digests,
                      cache'[d] \notin {cache[d], NoFile}
               PROVE  cache'[d] \notin rotten'[d]
    OBVIOUS
  <2> USE DEF names
  <2>1. CASE UNCHANGED cache
    BY <2>1
  <2>2. ASSUME NEW e \in Digests, ImportToNode(e) PROVE cache'[d] \notin rotten'[d]
    BY <2>2 DEF ImportToNode, CacheInv, Tables
  <2>3. ASSUME NEW e \in Digests, Seed(e) PROVE cache'[d] \notin rotten'[d]
    BY <2>3 DEF Seed, CacheInv, Tables, Intact, contents
  <2>4. ASSUME NEW s \in {"controller", "node"}, RemoveOne(s) PROVE cache'[d] \notin rotten'[d]
    <3>1. PICK link \in doomed[s] :
            cache' = IF link.kind = "cache" THEN [cache EXCEPT ![link.digest] = NoFile] ELSE cache
      BY <2>4 DEF RemoveOne
    <3> QED
      BY <3>1 DEF CacheInv, Tables
  <2>5. CASE Download
    <3>1. PICK e \in Missing :
            \/ cache' = [cache EXCEPT ![e] = NoFile]
            \/ \E good : PublishPartial(e, good)
      BY <2>5 DEF Download
    <3>2. ASSUME NEW good, PublishPartial(e, good) PROVE cache'[d] \notin rotten'[d]
      BY <3>2 DEF PublishPartial, CacheInv, Tables
    <3> QED
      BY <3>1, <3>2 DEF CacheInv, Tables
  <2>6. CASE UNCHANGED cacheVars
    BY <2>6 DEF cacheVars
  <2>7. CASE \E e \in Digests : Configure(e) \/ Import(e) \/ Rot(e)
    BY <2>1, <2>7 DEF Configure, Import, Rot
  <2>8. CASE ScanNode \/ ScanStore \/ \E s \in {"controller", "node"} : PruneStops(s)
    BY <2>1, <2>8 DEF ScanNode, ScanStore, PruneStops
  <2>9. CASE StartAgent \/ StopAgent \/ Sync \/ GiveUp
             \/ \E v \in VMs : Begin(v) \/ LinkBase(v) \/ MakeOverlay(v) \/ Delete(v)
    BY <2>1, <2>9 DEF StartAgent, StopAgent, Sync, GiveUp, Begin, LinkBase, MakeOverlay, Delete
  <2>10. CASE \E v \in VMs : PlaceVM(v) \/ Release(v)
    BY <2>1, <2>10 DEF PlaceVM, Release
  <2> QED
    BY <2>2, <2>3, <2>4, <2>5, <2>6, <2>7, <2>8, <2>9, <2>10
    DEF CacheNext, Administer, AgentStep
<1> QED
  BY CacheInvInit, CacheInvStep, <1>1, PTL DEF CacheSpec, PublishedIsRight

-----------------------------------------------------------------------------
(* What is set aside.                                                      *)

\* The files of d that have a name and are not what their digest says.
Bad(d) == rotten[d] \cap {store[d], cache[d], spare[d]}

\* Every file set aside, and every bad one that may still be, cost a fault of its
\* own; and a prune removes only what was set aside.
SetAside ==
    /\ \A d \in Digests : quarantine[d] + Cardinality(Bad(d)) <= faults
    /\ \A d \in Digests : Link("quarantine", d) \in doomed["node"] => quarantine[d] > 0

\* A new file is one that has no name yet.
LEMMA FreshFile ==
    ASSUME CacheTypeOK, BackingIsCached, NEW d \in Digests
    PROVE  Fresh(d) \in Inodes \ {store[d], cache[d], base[d], spare[d]}
<1> DEFINE linked(i) == {n \in 1 .. 4 : <<store[d], cache[d], base[d], spare[d]>>[n] = i}
<1>1. PICK i \in Inodes : i \notin {store[d], cache[d], spare[d]}
  <2>1. /\ store[d] \in Inodes \cup {NoFile} /\ cache[d] \in Inodes \cup {NoFile}
        /\ spare[d] \in Inodes \cup {NoFile}
    BY DEF CacheTypeOK, Files
  <2>2. Inodes \ {store[d], cache[d], spare[d]} # {}
    BY <2>1, NewFile, Zenon
  <2> QED
    BY <2>2
<1>2. i # base[d]
  BY <1>1, CacheInputs DEF BackingIsCached
<1>3. ASSUME NEW j PROVE Cardinality(linked(j)) = 0 <=> linked(j) = {}
  <2>1. IsFiniteSet(1 .. 4)
    BY FS_Interval, 1 \in Int, 4 \in Int, Zenon
  <2>2. linked(j) \in SUBSET (1 .. 4)
    OBVIOUS
  <2> HIDE DEF linked
  <2> QED
    BY <2>1, <2>2, FS_Subset, FS_EmptySet
<1>4. linked(i) = {}
  BY <1>1, <1>2
<1>5. LinkCount(d, i) = 0
  BY <1>3, <1>4 DEF LinkCount
<1>6. Fresh(d) \in Inodes /\ LinkCount(d, Fresh(d)) = 0
  BY <1>5 DEF Fresh
<1>7. linked(Fresh(d)) = {}
  BY <1>3, <1>6 DEF LinkCount
<1>8. /\ 1 \in linked(store[d]) /\ 2 \in linked(cache[d])
      /\ 3 \in linked(base[d]) /\ 4 \in linked(spare[d])
  OBVIOUS
<1> QED
  BY <1>6, <1>7, <1>8

\* There are at most three bad files, and taking some from them leaves fewer.
LEMMA BadFiles ==
    ASSUME NEW d, NEW S \in SUBSET Bad(d)
    PROVE  /\ IsFiniteSet(S) /\ Cardinality(S) \in Nat /\ Cardinality(Bad(d)) \in Nat
           /\ Cardinality(S) <= Cardinality(Bad(d))
           /\ \A i \in Bad(d) \ S : Cardinality(S) + 1 <= Cardinality(Bad(d))
           /\ \A i : Cardinality(S \cup {i}) \in Nat /\ Cardinality(S \cup {i}) <= Cardinality(S) + 1
<1>1. IsFiniteSet({store[d], cache[d], spare[d]})
  <2>1. IsFiniteSet({store[d]}) /\ IsFiniteSet({cache[d]}) /\ IsFiniteSet({spare[d]})
    BY FS_Singleton
  <2>2. {store[d], cache[d], spare[d]} = {store[d]} \cup ({cache[d]} \cup {spare[d]})
    OBVIOUS
  <2>3. IsFiniteSet({cache[d]} \cup {spare[d]})
    BY <2>1, FS_Union
  <2>4. IsFiniteSet({store[d]} \cup ({cache[d]} \cup {spare[d]}))
    BY <2>1, <2>3, FS_Union
  <2> QED
    BY <2>2, <2>4
<1>2. IsFiniteSet(Bad(d))
  BY <1>1, FS_Subset DEF Bad
<1>3. IsFiniteSet(S) /\ Cardinality(S) <= Cardinality(Bad(d))
  BY <1>2, FS_Subset
<1>4. Cardinality(S) \in Nat /\ Cardinality(Bad(d)) \in Nat
  BY <1>2, <1>3, FS_CardinalityType
<1>5. ASSUME NEW i
      PROVE  /\ IsFiniteSet(S \cup {i})
             /\ Cardinality(S \cup {i}) = IF i \in S THEN Cardinality(S) ELSE Cardinality(S) + 1
  BY <1>3, FS_AddElement
<1>6. ASSUME NEW i \in Bad(d) \ S PROVE Cardinality(S) + 1 <= Cardinality(Bad(d))
  <2>1. S \cup {i} \in SUBSET Bad(d)
    OBVIOUS
  <2>2. Cardinality(S \cup {i}) <= Cardinality(Bad(d))
    BY <1>2, <2>1, FS_Subset
  <2> QED
    BY <1>5, <2>2
<1>7. ASSUME NEW i
      PROVE  Cardinality(S \cup {i}) \in Nat /\ Cardinality(S \cup {i}) <= Cardinality(S) + 1
  <2> DEFINE n == Cardinality(S)
             m == Cardinality(S \cup {i})
  <2>1. m = n \/ m = n + 1
    BY <1>5
  <2>2. n \in Nat
    BY <1>4
  <2> HIDE DEF n, m
  <2>3. m \in Nat /\ m <= n + 1
    BY <2>1, <2>2
  <2> QED
    BY <2>3 DEF n, m
<1> QED
  BY <1>3, <1>4, <1>6, <1>7

\* The bad files of an image can be counted.
Countable == \A d \in Digests : Cardinality(Bad(d)) \in Nat
LEMMA BadCount == Countable
  BY BadFiles DEF Countable

\* The account of one image holds if nothing more of it goes bad or aside, if a
\* bad file is set aside, and if one goes bad, or is left behind, at the cost of
\* a fault.
LEMMA Accounts ==
    ASSUME CacheTypeOK, SetAside, NEW d \in Digests, faults' \in Nat, quarantine'[d] \in Nat,
           \/ /\ Bad(d)' \subseteq Bad(d)
              /\ \/ quarantine'[d] <= quarantine[d] /\ faults <= faults'
                 \/ quarantine'[d] = quarantine[d] + 1 /\ faults' = faults + 1
           \/ /\ \E i \in Bad(d) : Bad(d)' \subseteq Bad(d) \ {i}
              /\ \/ quarantine'[d] = quarantine[d] + 1 /\ faults <= faults'
                 \/ quarantine'[d] = quarantine[d] + 2 /\ faults' = faults + 1
           \/ /\ \E i : Bad(d)' \subseteq Bad(d) \cup {i}
              /\ quarantine'[d] = quarantine[d] /\ faults' = faults + 1
    PROVE  quarantine'[d] + Cardinality(Bad(d)') <= faults'
<1> DEFINE B == Bad(d)'
<1>1. /\ quarantine[d] \in Nat /\ faults \in Nat
      /\ quarantine[d] + Cardinality(Bad(d)) <= faults
  BY DEF CacheTypeOK, SetAside
<1>2. CASE /\ B \subseteq Bad(d)
           /\ \/ quarantine'[d] <= quarantine[d] /\ faults <= faults'
              \/ quarantine'[d] = quarantine[d] + 1 /\ faults' = faults + 1
  <2> HIDE DEF B
  <2>1. Cardinality(B) \in Nat /\ Cardinality(Bad(d)) \in Nat /\ Cardinality(B) <= Cardinality(Bad(d))
    BY <1>2, BadFiles
  <2>2. quarantine'[d] + Cardinality(B) <= faults'
    BY <1>1, <1>2, <2>1
  <2> QED
    BY <2>2 DEF B
<1>3. CASE /\ \E i \in Bad(d) : B \subseteq Bad(d) \ {i}
           /\ \/ quarantine'[d] = quarantine[d] + 1 /\ faults <= faults'
              \/ quarantine'[d] = quarantine[d] + 2 /\ faults' = faults + 1
  <2> HIDE DEF B
  <2>1. PICK i \in Bad(d) : B \subseteq Bad(d) \ {i}
    BY <1>3
  <2>2. i \in Bad(d) \ B /\ B \in SUBSET Bad(d)
    BY <2>1
  <2>3. Cardinality(B) \in Nat /\ Cardinality(Bad(d)) \in Nat /\ Cardinality(B) + 1 <= Cardinality(Bad(d))
    BY <2>2, BadFiles
  <2>4. quarantine'[d] + Cardinality(B) <= faults'
    BY <1>1, <1>3, <2>3
  <2> QED
    BY <2>4 DEF B
<1>4. CASE /\ \E i : B \subseteq Bad(d) \cup {i}
           /\ quarantine'[d] = quarantine[d] /\ faults' = faults + 1
  <2> HIDE DEF B
  <2>1. PICK i : B \subseteq Bad(d) \cup {i}
    BY <1>4
  <2> DEFINE S == Bad(d)
             T == Bad(d) \cup {i}
  <2>2. IsFiniteSet(S) /\ Cardinality(S) \in Nat /\ Cardinality(T) <= Cardinality(S) + 1
    BY BadFiles
  <2>3. IsFiniteSet(T)
    BY <2>2, FS_AddElement
  <2>4. IsFiniteSet(B) /\ Cardinality(B) <= Cardinality(T)
    BY <2>1, <2>3, FS_Subset
  <2>5. Cardinality(B) \in Nat /\ Cardinality(T) \in Nat
    BY <2>3, <2>4, FS_CardinalityType
  <2>6. quarantine'[d] + Cardinality(B) <= faults'
    <3> HIDE DEF T, S
    <3>1. Cardinality(B) <= Cardinality(S) + 1
      BY <2>2, <2>4, <2>5
    <3> QED
      BY <1>1, <1>4, <2>2, <2>5, <3>1 DEF S
  <2> QED
    BY <2>6 DEF B
<1> QED
  BY <1>2, <1>3, <1>4

\* Where no file of the caches changes, a fault is at most added, and a prune
\* finds what it removes.
LEMMA QuietSteps ==
    ASSUME CacheTypeOK, SetAside, UNCHANGED <<store, cache, spare, rotten, quarantine>>,
           faults' \in {faults, faults + 1},
           \A d \in Digests : Link("quarantine", d) \in doomed'["node"]
               => Link("quarantine", d) \in doomed["node"] \/ quarantine[d] > 0
    PROVE  SetAside' /\ quarantine' \in [Digests -> Nat]
<1>1. faults \in Nat /\ faults' \in Nat /\ faults <= faults' /\ quarantine \in [Digests -> Nat]
  BY CacheInputs DEF CacheTypeOK
<1>2. ASSUME NEW d \in Digests PROVE quarantine'[d] + Cardinality(Bad(d)') <= faults'
  <2>1. Bad(d)' = Bad(d) /\ quarantine'[d] = quarantine[d]
    BY DEF Bad
  <2> QED
    BY <1>1, <2>1, Accounts
<1> QED
  BY <1>1, <1>2 DEF SetAside

\* An import, a seed and a rotten copy change the files of one image.
LEMMA CopySteps ==
    ASSUME CacheInv, CacheTypeOK, SetAside, NEW e \in Digests,
           Import(e) \/ ImportToNode(e) \/ Seed(e) \/ Rot(e)
    PROVE  SetAside' /\ quarantine' \in [Digests -> Nat]
<1> USE DEF names, contents
<1>1. /\ faults \in Nat /\ quarantine \in [Digests -> Nat] /\ rotten \in [Digests -> SUBSET Inodes]
      /\ store \in [Digests -> Files] /\ cache \in [Digests -> Files] /\ spare \in [Digests -> Files]
  BY CacheInputs DEF CacheTypeOK
<1>2. BackingIsCached
  BY DEF CacheInv
<1>3. doomed' = doomed
  BY DEF Import, ImportToNode, Seed, Rot
<1>4. Fresh(e) \in Inodes \ {store[e], cache[e], spare[e]}
  BY <1>2, FreshFile
<1>5. CASE Import(e)
  <2>1. PICK i \in {Fresh(e), NoFile} :
          /\ store' = [store EXCEPT ![e] = i]
          /\ rotten' = [rotten EXCEPT ![e] = @ \ {i, store[e]}]
    BY <1>5 DEF Import
  <2>2. UNCHANGED <<cache, spare, quarantine, faults>>
    BY <1>5 DEF Import
  <2>3. ASSUME NEW d \in Digests PROVE quarantine'[d] + Cardinality(Bad(d)') <= faults'
    <3>1. Bad(d)' \subseteq Bad(d)
      BY <1>1, <2>1, <2>2 DEF Bad
    <3>2. /\ faults' \in Nat /\ quarantine'[d] \in Nat
          /\ quarantine'[d] <= quarantine[d] /\ faults <= faults'
      BY <1>1, <2>2
    <3> QED
      BY <3>1, <3>2, Accounts
  <2> QED
    BY <1>1, <1>3, <2>2, <2>3 DEF SetAside
<1>6. CASE ImportToNode(e)
  <2> DEFINE aside == IF cache[e] # NoFile THEN 1 ELSE 0
  <2>1. PICK i \in {Fresh(e), NoFile}, left \in {0, 1} :
          /\ cache' = [cache EXCEPT ![e] = i]
          /\ rotten' \in {rotten, [rotten EXCEPT ![e] = @ \ {i}]}
          /\ i = NoFile \/ rotten' = [rotten EXCEPT ![e] = @ \ {i}]
          /\ quarantine' = [quarantine EXCEPT ![e] = @ + aside + left]
          /\ faults' = faults + left
    <3>1. CASE UNCHANGED faults
      BY <1>1, <1>6, <3>1 DEF ImportToNode, Fault
    <3>2. CASE faults' = faults + 1
      BY <1>1, <1>6, <3>2 DEF ImportToNode, Fault
    <3> QED
      BY <1>6, <3>1, <3>2 DEF ImportToNode, Fault
  <2>2. /\ UNCHANGED <<store, spare>>
        /\ cache[e] # NoFile => cache[e] \in rotten[e] /\ LinkCount(e, cache[e]) = 1
        /\ doomed["node"] = {}
    BY <1>6 DEF ImportToNode, Intact
  <2>3. faults' \in Nat /\ faults <= faults' /\ quarantine' \in [Digests -> Nat]
    BY <1>1, <2>1
  <2>4. ASSUME NEW d \in Digests PROVE quarantine'[d] + Cardinality(Bad(d)') <= faults'
    <3>1. Bad(d)' \subseteq Bad(d)
      BY <1>1, <2>1, <2>2 DEF Bad
    <3>2. quarantine'[d] \in Nat
      BY <2>3
    <3>3. CASE d = e /\ cache[e] # NoFile
      <4>1. cache[e] \notin {store[e], base[e], spare[e]}
        BY <2>2, <3>3, OneLink
      <4>2. cache[e] \in Bad(e) /\ cache[e] \notin Bad(e)'
        BY <1>1, <1>4, <2>1, <2>2, <3>3, <4>1 DEF Bad
      <4>3. \/ quarantine'[d] = quarantine[d] + 1 /\ faults <= faults'
            \/ quarantine'[d] = quarantine[d] + 2 /\ faults' = faults + 1
        BY <1>1, <2>1, <3>3
      <4> QED
        BY <2>3, <3>1, <3>2, <3>3, <4>2, <4>3, Accounts
    <3>4. CASE ~(d = e /\ cache[e] # NoFile)
      <4>1. \/ quarantine'[d] <= quarantine[d] /\ faults <= faults'
            \/ quarantine'[d] = quarantine[d] + 1 /\ faults' = faults + 1
        BY <1>1, <2>1, <2>3, <3>4
      <4> QED
        BY <2>3, <3>1, <3>2, <4>1, Accounts
    <3> QED
      BY <3>3, <3>4
  <2> QED
    BY <1>3, <2>2, <2>3, <2>4 DEF SetAside
<1>7. CASE Seed(e)
  <2>1. /\ cache' = cache \/ cache' = [cache EXCEPT ![e] = store[e]]
        /\ spare' = spare \/ spare' = [spare EXCEPT ![e] = store[e]]
        /\ store[e] \notin rotten[e]
        /\ UNCHANGED <<store, rotten, quarantine>>
        /\ faults' = faults \/ faults' = faults + 1
    BY <1>7 DEF Seed, Intact, Fault
  <2>2. ASSUME NEW d \in Digests PROVE quarantine'[d] + Cardinality(Bad(d)') <= faults'
    <3>1. Bad(d)' \subseteq Bad(d)
      BY <1>1, <2>1 DEF Bad
    <3>2. /\ faults' \in Nat /\ quarantine'[d] \in Nat
          /\ quarantine'[d] <= quarantine[d] /\ faults <= faults'
      BY <1>1, <2>1
    <3> QED
      BY <3>1, <3>2, Accounts
  <2> QED
    BY <1>1, <1>3, <2>1, <2>2 DEF SetAside
<1>8. CASE Rot(e)
  <2>1. /\ UNCHANGED <<store, cache, base, spare, quarantine>>
        /\ faults' = faults + 1
        /\ rotten' = rotten \/ \E i : rotten' = [rotten EXCEPT ![e] = @ \cup {i}]
    BY <1>8 DEF Rot, Fault
  <2>2. ASSUME NEW d \in Digests PROVE quarantine'[d] + Cardinality(Bad(d)') <= faults'
    <3>1. PICK i : rotten' = rotten \/ rotten' = [rotten EXCEPT ![e] = @ \cup {i}]
      BY <2>1
    <3>2. rotten'[d] \subseteq rotten[d] \cup {i}
      BY <1>1, <3>1
    <3>3. store'[d] = store[d] /\ cache'[d] = cache[d] /\ spare'[d] = spare[d]
      BY <2>1
    <3>4. Bad(d)' \subseteq Bad(d) \cup {i}
      BY <3>2, <3>3 DEF Bad
    <3>5. faults' \in Nat /\ quarantine'[d] \in Nat /\ quarantine'[d] = quarantine[d]
      BY <1>1, <2>1
    <3> QED
      BY <2>1, <3>4, <3>5, Accounts
  <2> QED
    BY <1>1, <1>3, <2>1, <2>2 DEF SetAside
<1> QED
  BY <1>5, <1>6, <1>7, <1>8

\* A prune removes what it decided on, which is there.
LEMMA PruneSteps ==
    ASSUME CacheInv, CacheTypeOK, SetAside, NEW s \in {"controller", "node"}, RemoveOne(s)
    PROVE  SetAside' /\ quarantine' \in [Digests -> Nat]
<1>1. /\ faults \in Nat /\ quarantine \in [Digests -> Nat] /\ rotten \in [Digests -> SUBSET Inodes]
      /\ store \in [Digests -> Files] /\ cache \in [Digests -> Files] /\ spare \in [Digests -> Files]
      /\ doomed \in [{"controller", "node"} -> SUBSET Links]
  BY CacheInputs DEF CacheTypeOK
<1>2. PICK link \in doomed[s] :
        /\ store' = IF link.kind = "store" THEN [store EXCEPT ![link.digest] = NoFile] ELSE store
        /\ cache' = IF link.kind = "cache" THEN [cache EXCEPT ![link.digest] = NoFile] ELSE cache
        /\ spare' = IF link.kind = "spare" THEN [spare EXCEPT ![link.digest] = NoFile] ELSE spare
        /\ quarantine' = IF link.kind = "quarantine" THEN [quarantine EXCEPT ![link.digest] = @ - 1]
                                                     ELSE quarantine
        /\ \/ doomed' = [doomed EXCEPT ![s] = @ \ {link}]
           \/ quarantine[link.digest] > 1 /\ doomed' = doomed
        /\ UNCHANGED <<rotten, faults>>
  BY DEF RemoveOne
<1>3. link = Link(link.kind, link.digest) /\ link.digest \in Digests
  BY <1>1 DEF Link, Links
<1>4. link.kind = "quarantine" => s = "node" /\ quarantine[link.digest] > 0
  <2>1. s = "controller" => link.kind = "store"
    BY DEF CacheInv, PruneIsSafe, Of
  <2> QED
    BY <1>3, <2>1 DEF SetAside
<1>5. quarantine' \in [Digests -> Nat] /\ \A d \in Digests : quarantine'[d] <= quarantine[d]
  BY <1>1, <1>2, <1>3, <1>4
<1>6. ASSUME NEW d \in Digests PROVE quarantine'[d] + Cardinality(Bad(d)') <= faults'
  <2>1. Bad(d)' \subseteq Bad(d)
    <3>1. NoFile \notin rotten[d]
      BY <1>1, CacheInputs
    <3> QED
      BY <1>1, <1>2, <1>3, <3>1 DEF Bad
  <2>2. faults' \in Nat /\ quarantine'[d] \in Nat /\ quarantine'[d] <= quarantine[d] /\ faults <= faults'
    BY <1>1, <1>2, <1>5
  <2> QED
    BY <2>1, <2>2, Accounts
<1>7. ASSUME NEW d \in Digests, Link("quarantine", d) \in doomed'["node"] PROVE quarantine'[d] > 0
  <2>1. Link("quarantine", d) \in doomed["node"]
    BY <1>1, <1>2, <1>7
  <2>2. quarantine[d] > 0
    BY <2>1 DEF SetAside
  <2>3. link.kind = "quarantine" => d # link.digest \/ quarantine[d] > 1
    BY <1>1, <1>2, <1>3, <1>4, <1>7
  <2> QED
    BY <1>1, <1>2, <2>2, <2>3
<1> QED
  BY <1>5, <1>6, <1>7 DEF SetAside

\* A download sets aside a file that is linked to nothing else, and a new file
\* has no name yet.
LEMMA FetchStep ==
    ASSUME CacheInv, CacheTypeOK, SetAside, Download
    PROVE  SetAside' /\ quarantine' \in [Digests -> Nat]
<1>1. /\ faults \in Nat /\ quarantine \in [Digests -> Nat] /\ rotten \in [Digests -> SUBSET Inodes]
      /\ store \in [Digests -> Files] /\ cache \in [Digests -> Files] /\ spare \in [Digests -> Files]
      /\ catalog \subseteq Digests
  BY CacheInputs DEF CacheTypeOK
<1>2. PICK e \in Missing :
        /\ up /\ MayAside(e)
        /\ quarantine' = IF cache[e] # NoFile THEN [quarantine EXCEPT ![e] = @ + 1] ELSE quarantine
        /\ \/ cache' = [cache EXCEPT ![e] = NoFile] /\ rotten' = rotten
           \/ \E good : PublishPartial(e, good)
        /\ faults' = faults \/ faults' = faults + 1
        /\ UNCHANGED <<store, spare, doomed>>
  BY DEF Download, Fault
<1>3. e \in Digests /\ (cache[e] # NoFile => cache[e] \in rotten[e])
  BY <1>1, <1>2 DEF Missing, Verified, Intact
<1>4. Fresh(e) \in Inodes \ {store[e], cache[e], spare[e]}
  BY <1>3, FreshFile DEF CacheInv
<1>5. /\ cache' = [cache EXCEPT ![e] = cache'[e]] /\ cache'[e] \in {NoFile, Fresh(e)}
      /\ rotten' = [rotten EXCEPT ![e] = rotten'[e]] /\ rotten'[e] \subseteq rotten[e]
      /\ cache'[e] \notin rotten'[e]
  BY <1>1, <1>2, <1>3, CacheInputs DEF PublishPartial
<1>6. faults' \in Nat /\ faults <= faults' /\ quarantine' \in [Digests -> Nat]
  BY <1>1, <1>2, <1>3
<1>7. ASSUME NEW d \in Digests PROVE quarantine'[d] + Cardinality(Bad(d)') <= faults'
  <2>1. Bad(d)' \subseteq Bad(d)
    BY <1>1, <1>2, <1>3, <1>5 DEF Bad
  <2>2. quarantine'[d] \in Nat
    BY <1>6
  <2>3. CASE d = e /\ cache[e] # NoFile
    <3>1. cache[e] \notin {store[e], base[e], spare[e]}
      BY <1>2, <1>3, <2>3, OneLink DEF MayAside
    <3>2. cache[e] \in Bad(e) /\ cache[e] \notin Bad(e)'
      BY <1>1, <1>2, <1>3, <1>4, <1>5, <2>3, <3>1 DEF Bad
    <3>3. quarantine'[d] = quarantine[d] + 1
      BY <1>1, <1>2, <1>3, <2>3
    <3> QED
      BY <1>6, <2>1, <2>2, <2>3, <3>2, <3>3, Accounts
  <2>4. CASE ~(d = e /\ cache[e] # NoFile)
    <3>1. quarantine'[d] = quarantine[d]
      BY <1>1, <1>2, <1>3, <2>4
    <3>2. quarantine'[d] <= quarantine[d]
      BY <1>1, <3>1
    <3> QED
      BY <1>6, <2>1, <2>2, <3>2, Accounts
  <2> QED
    BY <2>3, <2>4
<1>8. doomed["node"] = {}
  BY <1>2 DEF CacheInv, Alone
<1> QED
  BY <1>2, <1>6, <1>7, <1>8 DEF SetAside

\* The other steps name, replace and set aside no file.
LEMMA OtherSteps ==
    ASSUME CacheTypeOK, SetAside,
           \/ \E d \in Digests : Configure(d)
           \/ ScanNode \/ ScanStore \/ \E s \in {"controller", "node"} : PruneStops(s)
           \/ StartAgent \/ StopAgent \/ Sync \/ GiveUp
           \/ \E v \in VMs : Begin(v) \/ LinkBase(v) \/ MakeOverlay(v) \/ Delete(v)
           \/ \E v \in VMs : PlaceVM(v) \/ Release(v)
           \/ UNCHANGED cacheVars
    PROVE  SetAside' /\ quarantine' \in [Digests -> Nat]
<1>1. UNCHANGED <<store, cache, spare, rotten, quarantine>>
  BY DEF Configure, ScanNode, ScanStore, PruneStops, StartAgent, StopAgent, Sync, GiveUp, Begin,
         LinkBase, MakeOverlay, Delete, PlaceVM, Release, cacheVars, names, contents
<1>2. faults' \in {faults, faults + 1}
  BY DEF Configure, ScanNode, ScanStore, PruneStops, StartAgent, StopAgent, Sync, GiveUp, Begin,
         LinkBase, MakeOverlay, Delete, PlaceVM, Release, cacheVars, Fault
<1>3. ASSUME NEW d \in Digests, Link("quarantine", d) \in doomed'["node"]
      PROVE  Link("quarantine", d) \in doomed["node"] \/ quarantine[d] > 0
  <2>1. CASE doomed' = doomed
    BY <1>3, <2>1
  <2>2. CASE ScanNode
    <3>1. PICK images \in SUBSET {e \in Digests : ~Protected(e)},
               spares \in SUBSET {e \in Digests : spare[e] # NoFile},
               begun \in SUBSET {e \in Digests : partial[e].size > 0},
               aside \in SUBSET {e \in Digests : quarantine[e] > 0} :
            doomed' = [doomed EXCEPT !["node"] =
                Of("spare", spares)
                    \cup Of("base", {e \in images : base[e] # NoFile})
                    \cup Of("cache", {e \in images : cache[e] # NoFile})
                    \cup Of("partial", begun) \cup Of("quarantine", aside)]
      BY <2>2 DEF ScanNode
    <3>2. Link("quarantine", d).kind = "quarantine" /\ Link("quarantine", d).digest = d
      BY DEF Link
    <3> QED
      BY <1>3, <3>1, <3>2 DEF CacheTypeOK, Of
  <2>3. CASE ScanStore
    BY <1>3, <2>3 DEF ScanStore, CacheTypeOK
  <2>4. CASE \E s \in {"controller", "node"} : PruneStops(s)
    BY <1>3, <2>4 DEF PruneStops, CacheTypeOK
  <2> QED
    BY <2>1, <2>2, <2>3, <2>4
    DEF Configure, StartAgent, StopAgent, Sync, GiveUp, Begin, LinkBase, MakeOverlay, Delete,
        PlaceVM, Release, cacheVars
<1> QED
  BY <1>1, <1>2, <1>3, QuietSteps

\* Every step keeps the account of faults.
LEMMA SetAsideStep ==
    ASSUME CacheInv, CacheTypeOK, SetAside, [CacheNext]_cacheVars
    PROVE  SetAside' /\ quarantine' \in [Digests -> Nat]
<1>1. CASE Administer \/ AgentStep
  BY <1>1, CopySteps, PruneSteps, FetchStep, OtherSteps DEF Administer, AgentStep
<1>2. CASE (\E v \in VMs : PlaceVM(v) \/ Release(v)) \/ UNCHANGED cacheVars
  BY <1>2, OtherSteps
<1> QED
  BY <1>1, <1>2 DEF CacheNext

-----------------------------------------------------------------------------
(* Types.                                                                  *)

\* The types of what the Controller and the administrators have, of the files,
\* and of what the Agent has.
RecordTypes ==
    /\ wanted \subseteq Digests
    /\ inst \in [VMs -> {"none", "placed", "deleting", "deleted"}]
    /\ doomed \in [{"controller", "node"} -> SUBSET Links]
    /\ faults \in 0 .. FaultLimit

FileTypes ==
    /\ store \in [Digests -> Files] /\ cache \in [Digests -> Files]
    /\ base \in [Digests -> Files] /\ spare \in [Digests -> Files]
    /\ rotten \in [Digests -> SUBSET Inodes]
    /\ partial \in [Digests -> [size : 0 .. Longest, good : BOOLEAN]]

AgentTypes ==
    /\ up \in BOOLEAN /\ verified \subseteq Digests /\ catalog \subseteq Digests
    /\ ensuring \in SUBSET VMs /\ Cardinality(ensuring) <= 1
    /\ manifest \in [VMs -> {"none", "kept", "deleted"}]
    /\ folder \subseteq VMs
    /\ overlay \in [VMs -> Files]

\* The records keep their types.
LEMMA RecordsTyped ==
    ASSUME CacheInv', RecordTypes, FileTypes, AgentTypes, [CacheNext]_cacheVars PROVE RecordTypes'
<1>1. wanted' \subseteq Digests
  BY DEF RecordTypes, CacheNext, Administer, AgentStep, Configure, Import, ImportToNode, Seed, Rot,
         ScanNode, ScanStore, RemoveOne, PruneStops, StartAgent, StopAgent, Sync, GiveUp, Download,
         Begin, LinkBase, MakeOverlay, Delete, PlaceVM, Release, cacheVars
<1>2. inst' \in [VMs -> {"none", "placed", "deleting", "deleted"}]
  BY DEF RecordTypes, CacheNext, Administer, AgentStep, Configure, Import, ImportToNode, Seed, Rot,
         ScanNode, ScanStore, RemoveOne, PruneStops, StartAgent, StopAgent, Sync, GiveUp, Download,
         Begin, LinkBase, MakeOverlay, Delete, PlaceVM, Release, cacheVars
<1>3. faults' \in {faults} \/ Fault
  BY DEF CacheNext, Administer, AgentStep, Configure, Import, ImportToNode, Seed, Rot,
         ScanNode, ScanStore, RemoveOne, PruneStops, StartAgent, StopAgent, Sync, GiveUp, Download,
         Begin, LinkBase, MakeOverlay, Delete, PlaceVM, Release, cacheVars
<1>4. faults' \in 0 .. FaultLimit
  BY <1>3 DEF RecordTypes, Fault
<1> QED
  BY <1>1, <1>2, <1>4 DEF RecordTypes, CacheInv, Tables

\* A table of files is one without a name of it.
LEMMA NameRemoved ==
    ASSUME NEW f \in [Digests -> Files], NEW g, NEW d, g = f \/ g = [f EXCEPT ![d] = NoFile]
    PROVE  g \in [Digests -> Files]
  BY DEF Files

\* Names point to files, and what there is of a download is no longer than a
\* source may be.
LEMMA FilesTyped ==
    ASSUME CacheInv, CacheTypeOK, [CacheNext]_cacheVars PROVE FileTypes'
<1> USE DEF FileTypes, names, contents
<1>1. /\ FileTypes /\ BackingIsCached /\ NoFile \in Files
      /\ \A d \in Digests : Fresh(d) \in Inodes /\ Fresh(d) \in Files
      /\ Nobody \in [size : 0 .. Longest, good : BOOLEAN]
      /\ catalog \subseteq Digests
  BY FreshFile, CacheInputs DEF CacheInv, CacheTypeOK, Files, Nobody, Longest
<1>2. CASE UNCHANGED <<names, rotten, partial>>
  BY <1>1, <1>2
<1>3. ASSUME NEW e \in Digests, Import(e) PROVE FileTypes'
  BY <1>1, <1>3 DEF Import
<1>4. ASSUME NEW e \in Digests, ImportToNode(e) PROVE FileTypes'
  <2>1. PICK i \in {Fresh(e), NoFile} :
          /\ cache' = [cache EXCEPT ![e] = i]
          /\ rotten' \in {rotten, [rotten EXCEPT ![e] = @ \ {i}]}
          /\ UNCHANGED <<store, base, spare, partial>>
    BY <1>4 DEF ImportToNode
  <2>2. cache' \in [Digests -> Files]
    BY <1>1, <2>1
  <2>3. rotten' \in [Digests -> SUBSET Inodes]
    <3>1. rotten[e] \ {i} \in SUBSET Inodes
      BY <1>1
    <3>2. [rotten EXCEPT ![e] = @ \ {i}] \in [Digests -> SUBSET Inodes]
      BY <1>1, <3>1
    <3> QED
      BY <1>1, <2>1, <3>2
  <2> QED
    BY <1>1, <2>1, <2>2, <2>3
<1>5. ASSUME NEW e \in Digests, Seed(e) PROVE FileTypes'
  BY <1>1, <1>5 DEF Seed
<1>6. ASSUME NEW e \in Digests, Rot(e) PROVE FileTypes'
  <2>1. CASE /\ \E i \in {store[e], cache[e], base[e], spare[e]} \ {NoFile} :
                   rotten' = [rotten EXCEPT ![e] = @ \cup {i}]
             /\ UNCHANGED partial
    <3>1. \A f \in Files \ {NoFile} : f \in Inodes
      BY DEF Files
    <3>2. {store[e], cache[e], base[e], spare[e]} \subseteq Files
      BY <1>1
    <3>3. PICK i \in Inodes : rotten' = [rotten EXCEPT ![e] = @ \cup {i}]
      BY <2>1, <3>1, <3>2
    <3>4. rotten' \in [Digests -> SUBSET Inodes]
      BY <1>1, <3>3
    <3> QED
      BY <1>1, <1>6, <2>1, <3>4 DEF Rot
  <2>2. CASE UNCHANGED rotten /\ partial' = [partial EXCEPT ![e].good = FALSE]
    <3>1. partial' \in [Digests -> [size : 0 .. Longest, good : BOOLEAN]]
      BY <1>1, <2>2
    <3> QED
      BY <1>1, <1>6, <2>2, <3>1 DEF Rot
  <2> QED
    BY <1>6, <2>1, <2>2 DEF Rot
<1>7. ASSUME NEW s \in {"controller", "node"}, RemoveOne(s) PROVE FileTypes'
  <2>1. PICK d \in Digests :
          /\ store' = store \/ store' = [store EXCEPT ![d] = NoFile]
          /\ cache' = cache \/ cache' = [cache EXCEPT ![d] = NoFile]
          /\ base' = base \/ base' = [base EXCEPT ![d] = NoFile]
          /\ spare' = spare \/ spare' = [spare EXCEPT ![d] = NoFile]
          /\ partial' = partial \/ partial' = [partial EXCEPT ![d] = Nobody]
          /\ rotten' = rotten
    <3>1. \A link \in doomed[s] : link.digest \in Digests
      BY DEF CacheTypeOK, Links
    <3> QED
      BY <1>7, <3>1 DEF RemoveOne
  <2>2. /\ store' \in [Digests -> Files] /\ cache' \in [Digests -> Files]
        /\ base' \in [Digests -> Files] /\ spare' \in [Digests -> Files]
    BY <1>1, <2>1, NameRemoved
  <2>3. partial' \in [Digests -> [size : 0 .. Longest, good : BOOLEAN]]
    BY <1>1, <2>1
  <2> QED
    BY <1>1, <2>1, <2>2, <2>3
<1>8. CASE Download
  <2>1. PICK d \in Missing :
          /\ \/ /\ cache' = [cache EXCEPT ![d] = NoFile] /\ UNCHANGED <<rotten, partial>>
             \/ /\ cache' = [cache EXCEPT ![d] = NoFile] /\ UNCHANGED rotten
                /\ \E len \in 1 .. Longest, ok \in BOOLEAN : \E n \in partial[d].size + 1 .. len :
                      partial' = [partial EXCEPT ![d] = [size |-> n, good |-> @.good /\ ok]]
             \/ \E good : PublishPartial(d, good)
          /\ UNCHANGED <<store, base, spare>>
    <3>1. PICK d \in Missing, len \in 1 .. Longest :
            /\ \/ /\ cache' = [cache EXCEPT ![d] = NoFile] /\ UNCHANGED <<rotten, partial>>
               \/ /\ \E n \in partial[d].size + 1 .. len : \E ok \in Arrives(d, n, len) :
                        partial' = [partial EXCEPT ![d] = [size |-> n, good |-> @.good /\ ok]]
                  /\ cache' = [cache EXCEPT ![d] = NoFile] /\ UNCHANGED rotten
               \/ \E good : PublishPartial(d, good)
            /\ UNCHANGED <<store, base, spare>>
      BY <1>8 DEF Download
    <3>2. \A n : Arrives(d, n, len) \subseteq BOOLEAN
      BY DEF Arrives
    <3> QED
      BY <3>1, <3>2
  <2>2. d \in Digests
    BY <1>1, <2>1 DEF Missing
  <2>3. ASSUME NEW good, PublishPartial(d, good) PROVE FileTypes'
    BY <1>1, <2>1, <2>2, <2>3 DEF PublishPartial
  <2>4. ASSUME NEW len \in 1 .. Longest, NEW n \in partial[d].size + 1 .. len, NEW ok \in BOOLEAN,
               partial' = [partial EXCEPT ![d] = [size |-> n, good |-> @.good /\ ok]]
        PROVE  partial' \in [Digests -> [size : 0 .. Longest, good : BOOLEAN]]
    <3>1. n \in 0 .. Longest /\ (partial[d].good /\ ok) \in BOOLEAN
      BY <1>1, <2>2, CacheInputs DEF Longest
    <3> QED
      BY <1>1, <2>2, <2>4, <3>1
  <2>5. /\ [cache EXCEPT ![d] = NoFile] \in [Digests -> Files]
        /\ store' = store /\ base' = base /\ spare' = spare
    BY <1>1, <2>1
  <2>6. CASE /\ cache' = [cache EXCEPT ![d] = NoFile] /\ UNCHANGED rotten
             /\ partial' \in [Digests -> [size : 0 .. Longest, good : BOOLEAN]]
    BY <1>1, <2>5, <2>6
  <2> QED
    BY <1>1, <2>1, <2>3, <2>4, <2>6
<1>9. CASE \/ \E d \in Digests : Configure(d)
           \/ ScanNode \/ ScanStore \/ \E s \in {"controller", "node"} : PruneStops(s)
           \/ StartAgent \/ StopAgent \/ Sync \/ GiveUp
           \/ \E v \in VMs : Begin(v) \/ MakeOverlay(v) \/ Delete(v) \/ PlaceVM(v) \/ Release(v)
           \/ UNCHANGED cacheVars
  BY <1>2, <1>9 DEF Configure, ScanNode, ScanStore, PruneStops, StartAgent, StopAgent, Sync, GiveUp,
                    Begin, MakeOverlay, Delete, PlaceVM, Release, cacheVars
<1>10. ASSUME NEW v \in VMs, LinkBase(v) PROVE FileTypes'
  BY <1>1, <1>10, CacheInputs DEF LinkBase
<1>11. CASE Administer
  BY <1>3, <1>4, <1>5, <1>6, <1>7, <1>9, <1>11 DEF Administer
<1>12. CASE AgentStep
  BY <1>8, <1>9, <1>10, <1>12 DEF AgentStep
<1> QED
  BY <1>9, <1>11, <1>12 DEF CacheNext

\* At most one VM is being built, and a disk is based on a file.
LEMMA AgentTyped ==
    ASSUME CacheTypeOK, [CacheNext]_cacheVars PROVE AgentTypes'
<1> USE DEF AgentTypes, agentSide, vmSide
<1>1. AgentTypes /\ wanted \subseteq Digests /\ base \in [Digests -> Files] /\ LiveImages \subseteq Digests
  BY CacheInputs DEF CacheTypeOK, LiveImages
<1>2. Cardinality({}) <= 1 /\ \A v \in VMs : Cardinality({v}) <= 1
  <2>1. Cardinality({}) <= 1
    BY FS_EmptySet
  <2>2. ASSUME NEW v \in VMs PROVE Cardinality({v}) <= 1
    <3>1. Cardinality({v}) = 1
      BY FS_Singleton
    <3> QED
      BY <3>1
  <2> QED
    BY <2>1, <2>2
<1>3. CASE UNCHANGED <<agentSide, vmSide>>
  BY <1>1, <1>3
<1>4. CASE StartAgent \/ StopAgent \/ GiveUp
  BY <1>1, <1>2, <1>4 DEF StartAgent, StopAgent, GiveUp
<1>5. CASE Sync
  BY <1>1, <1>5 DEF Sync, Reported
<1>6. CASE Download
  BY <1>1, <1>6 DEF Download, Earlier
<1>7. ASSUME NEW v \in VMs, Begin(v) PROVE AgentTypes'
  BY <1>1, <1>2, <1>7, CacheInputs DEF Begin
<1>8. ASSUME NEW v \in VMs, MakeOverlay(v) PROVE AgentTypes'
  BY <1>1, <1>2, <1>8, CacheInputs DEF MakeOverlay
<1>9. ASSUME NEW v \in VMs, Delete(v) PROVE AgentTypes'
  <2>1. NoFile \in Files
    BY DEF Files
  <2> QED
    BY <1>1, <1>9, <2>1 DEF Delete
<1>10. ASSUME NEW v \in VMs, Release(v) PROVE AgentTypes'
  BY <1>1, <1>10 DEF Release
<1>11. CASE Administer \/ (\E v \in VMs : LinkBase(v) \/ PlaceVM(v)) \/ UNCHANGED cacheVars
  BY <1>3, <1>11 DEF Administer, Configure, Import, ImportToNode, Seed, Rot, ScanNode, ScanStore,
                     RemoveOne, PruneStops, LinkBase, PlaceVM, cacheVars
<1> QED
  BY <1>4, <1>5, <1>6, <1>7, <1>8, <1>9, <1>10, <1>11 DEF CacheNext, AgentStep

\* Every name points to a file, one VM is built at a time, and no more files are
\* set aside than went bad, however downloads, prunes and imports are
\* interrupted.
THEOREM CacheTypes == CacheSpec => []CacheTypeOK
<1> DEFINE TypeInv == CacheInv /\ CacheTypeOK /\ SetAside
<1>1. CacheInit => TypeInv
  <2> SUFFICES ASSUME CacheInit PROVE TypeInv
    OBVIOUS
  <2>1. CacheInv
    BY CacheInvInit
  <2>2. NoFile \in Files /\ Cardinality({}) = 0 /\ 0 \in 0 .. FaultLimit
        /\ Nobody \in [size : 0 .. Longest, good : BOOLEAN]
    BY CacheInputs, FS_EmptySet DEF Files, Nobody, Longest
  <2>3. CacheTypeOK
    <3>1. RecordTypes
      BY <2>2 DEF CacheInit, RecordTypes
    <3>2. FileTypes
      BY <2>2 DEF CacheInit, FileTypes
    <3>3. AgentTypes
      <4>1. ensuring \in SUBSET VMs /\ Cardinality(ensuring) <= 1
        BY <2>2 DEF CacheInit
      <4>2. overlay \in [VMs -> Files] /\ manifest \in [VMs -> {"none", "kept", "deleted"}]
        BY <2>2 DEF CacheInit
      <4> QED
        BY <4>1, <4>2 DEF CacheInit, AgentTypes
    <3>4. quarantine \in [Digests -> 0 .. faults]
      BY DEF CacheInit
    <3> QED
      BY <3>1, <3>2, <3>3, <3>4 DEF CacheTypeOK, RecordTypes, FileTypes, AgentTypes
  <2>4. ASSUME NEW d \in Digests PROVE quarantine[d] + Cardinality(Bad(d)) <= faults
    <3>1. Bad(d) = {} /\ quarantine[d] = 0 /\ faults = 0
      BY DEF CacheInit, Bad
    <3> QED
      BY <2>2, <3>1
  <2>5. doomed["node"] = {}
    BY DEF CacheInit
  <2>6. SetAside
    BY <2>4, <2>5 DEF SetAside
  <2> QED
    BY <2>1, <2>3, <2>6
<1>2. TypeInv /\ [CacheNext]_cacheVars => TypeInv'
  <2> SUFFICES ASSUME TypeInv, [CacheNext]_cacheVars PROVE TypeInv'
    OBVIOUS
  <2>1. CacheInv' /\ SetAside' /\ quarantine' \in [Digests -> Nat]
    BY CacheInvStep, SetAsideStep
  <2>2. RecordTypes /\ FileTypes /\ AgentTypes
    BY DEF CacheTypeOK, RecordTypes, FileTypes, AgentTypes
  <2>3. RecordTypes' /\ FileTypes' /\ AgentTypes'
    BY <2>1, <2>2, RecordsTyped, FilesTyped, AgentTyped
  <2>4. quarantine' \in [Digests -> 0 .. faults']
    <3>1. ASSUME NEW d \in Digests PROVE quarantine'[d] \in 0 .. faults'
      <4>1. faults' \in Nat /\ quarantine'[d] \in Nat
        BY <2>1, <2>3, CacheInputs DEF RecordTypes
      <4>2. Cardinality(Bad(d)') \in Nat
        <5>1. Countable'
          BY BadCount, PTL
        <5> QED
          BY <5>1 DEF Countable
      <4>3. quarantine'[d] + Cardinality(Bad(d)') <= faults'
        BY <2>1 DEF SetAside
      <4> QED
        BY <4>1, <4>2, <4>3
    <3> QED
      BY <2>1, <3>1
  <2>5. CacheTypeOK'
    BY <2>3, <2>4 DEF CacheTypeOK, RecordTypes, FileTypes, AgentTypes
  <2> QED
    BY <2>1, <2>5
<1>3. TypeInv => CacheTypeOK
  OBVIOUS
<1> QED
  BY <1>1, <1>2, <1>3, PTL DEF CacheSpec
===============================================================================

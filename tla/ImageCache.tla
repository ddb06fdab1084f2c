------------------------------ MODULE ImageCache ------------------------------
(***************************************************************************)
(* Golden Images on their way to VMs: internal/host/images.go, download.go *)
(* and cache.go, with the part of provider.go that builds on the cache.    *)
(* The Controller keeps a file per digest and serves it; a Node downloads  *)
(* it into its cache, links it as a base beside the VMs' disks and makes   *)
(* each VM an overlay on the base.  Administrators import, prune and, on a *)
(* single host, seed the Node's cache with a link to the Controller's      *)
(* file.                                                                   *)
(*                                                                         *)
(* A file is an inode and its names are links to it, which is what pruning *)
(* and quarantine decide by.  The Agent is one thread and holds its        *)
(* process lock while it runs, so operations on a Node's cache do not      *)
(* overlap; they are interrupted, and what the Controller and its          *)
(* administrators do goes on in between.  Contents go bad unnoticed.       *)
(***************************************************************************)
EXTENDS Naturals, FiniteSets, Sequences, SequencesExt

CONSTANTS
    Digests,
    Catalog,            \* the digests in the order of the Controller's Pools
    VMs,
    ImageOf,            \* the digest of each VM's image
    Inodes, NoFile,     \* the files there may be of one image
    Size,               \* size of an image, in units of a transfer
    Limit,              \* Images.LimitGiB of the Node, in the same units
    FaultLimit          \* bound on the faults of a behaviour

ASSUME CacheInputs ==
    /\ Catalog \in Seq(Digests) /\ ToSet(Catalog) = Digests
    /\ ImageOf \in [VMs -> Digests]
    /\ NoFile \notin Inodes
    /\ Size \in Nat \ {0} /\ Limit \in Nat /\ FaultLimit \in Nat

\* The Controller's file, the Node's and what an interrupted seed left are not
\* all the files there can be.
ASSUME NewFile == \A a, b, c \in Inodes \cup {NoFile} : Inodes \ {a, b, c} # {}

VARIABLES
    wanted,             \* digests of enabled Pools
    inst,               \* the Controller's record of each VM
    store,              \* the Controller's file of each digest
    cache,              \* the Node's
    base,               \* its link beside the VM disks
    spare,              \* a link that an interrupted seed left in the cache
    rotten,             \* files whose content is not what their digest says
    partial,            \* the interrupted download of each digest
    quarantine,         \* how many files of each digest were set aside, or left
                        \* by an interrupted import
    up,                 \* whether the Agent runs
    verified,           \* digests it found intact since it started
    catalog,            \* catalog.json
    ensuring,           \* the VM that is being built
    manifest, folder, overlay,  \* each VM's manifest, directory and root disk
    doomed,             \* what a prune has still to remove, per cache
    faults

names     == <<store, cache, base, spare>>
contents  == <<rotten, partial, quarantine>>
agentSide == <<up, verified, catalog, ensuring>>
vmSide    == <<manifest, folder, overlay>>
cacheVars == <<wanted, inst, names, contents, agentSide, vmSide, doomed, faults>>

Files == Inodes \cup {NoFile}

\* What a file may be that has lost or gained something.
Longest == Size + 1

Nobody == [size |-> 0, good |-> TRUE]

Kinds == {"store", "spare", "base", "cache", "partial", "quarantine"}

Links == [kind : Kinds, digest : Digests]

\* Names point to files, the records have their types, and no more files lie
\* aside than went bad or were left by a crash.
CacheTypeOK ==
    /\ wanted \subseteq Digests
    /\ inst \in [VMs -> {"none", "placed", "deleting", "deleted"}]
    /\ store \in [Digests -> Files] /\ cache \in [Digests -> Files]
    /\ base \in [Digests -> Files] /\ spare \in [Digests -> Files]
    /\ rotten \in [Digests -> SUBSET Inodes]
    /\ partial \in [Digests -> [size : 0 .. Longest, good : BOOLEAN]]
    /\ quarantine \in [Digests -> 0 .. faults]
    /\ up \in BOOLEAN /\ verified \subseteq Digests /\ catalog \subseteq Digests
    /\ ensuring \in SUBSET VMs /\ Cardinality(ensuring) <= 1
    /\ manifest \in [VMs -> {"none", "kept", "deleted"}]
    /\ folder \subseteq VMs
    /\ overlay \in [VMs -> Files]
    /\ doomed \in [{"controller", "node"} -> SUBSET Links]
    /\ faults \in 0 .. FaultLimit

\* The Node's disks are initialised, and its catalog.json is there and empty.
CacheInit ==
    /\ wanted = {} /\ inst = [v \in VMs |-> "none"]
    /\ store = [d \in Digests |-> NoFile] /\ cache = store /\ base = store /\ spare = store
    /\ rotten = [d \in Digests |-> {}]
    /\ partial = [d \in Digests |-> Nobody]
    /\ quarantine = [d \in Digests |-> 0]
    /\ up = FALSE /\ verified = {} /\ catalog = {} /\ ensuring = {}
    /\ manifest = [v \in VMs |-> "none"] /\ folder = {}
    /\ overlay = [v \in VMs |-> NoFile]
    /\ doomed = [s \in {"controller", "node"} |-> {}]
    /\ faults = 0

Fault == faults < FaultLimit /\ faults' = faults + 1

\* fileLinkCount
LinkCount(d, i) == Cardinality({n \in 1 .. 4 : <<store[d], cache[d], base[d], spare[d]>>[n] = i})

Fresh(d) == CHOOSE i \in Inodes : LinkCount(d, i) = 0

Intact(d, i) == i # NoFile /\ i \notin rotten[d]

\* cacheStoredBytes of the Node's cache
Stored ==
    LET used(d) == Size * (quarantine[d] + Cardinality({i \in {1, 2} :
                       <<cache[d], spare[d]>>[i] # NoFile})) + partial[d].size
    IN  FoldSet(LAMBDA d, sum : sum + used(d), 0, Digests)

\* cacheAvailableBytes for a download of d, which replaces its partial file.
Available(d) == Limit - (Stored - partial[d].size)

\* A prune of the Controller's cache holds the Controller's process lock.
Serving == doomed["controller"] = {}

LiveImages == {ImageOf[v] : v \in {w \in VMs : inst[w] \in {"placed", "deleting"}}}

-----------------------------------------------------------------------------
(* Administrators.                                                         *)

\* `config apply' enables and disables Pools; it takes no lock.
Configure(d) ==
    /\ wanted' = IF d \in wanted THEN wanted \ {d} ELSE wanted \cup {d}
    /\ UNCHANGED <<inst, names, contents, agentSide, vmSide, doomed, faults>>

\* Images.Import into the Controller's cache: a file whose digest is wrong is
\* set aside first, unless it has other links; the new one may be refused.
Import(d) ==
    /\ Serving
    /\ ~Intact(d, store[d])
    /\ store[d] # NoFile => LinkCount(d, store[d]) = 1
    /\ \E i \in {Fresh(d), NoFile} :
          /\ store' = [store EXCEPT ![d] = i]
          /\ rotten' = [rotten EXCEPT ![d] = @ \ {i, store[d]}]
    /\ UNCHANGED <<wanted, inst, cache, base, spare, partial, quarantine, agentSide, vmSide,
                   doomed, faults>>

\* `smoke-vm' imports into the Node's cache, where the file set aside is kept,
\* and so is a temporary file if the import is interrupted.
ImportToNode(d) ==
    /\ ~up /\ doomed["node"] = {}
    /\ ~Intact(d, cache[d])
    /\ cache[d] # NoFile => LinkCount(d, cache[d]) = 1
    /\ LET aside == IF cache[d] # NoFile THEN 1 ELSE 0
       IN \/ /\ \E i \in IF Stored + Size <= Limit THEN {Fresh(d), NoFile} ELSE {NoFile} :
                   /\ cache' = [cache EXCEPT ![d] = i]
                   /\ rotten' = [rotten EXCEPT ![d] = @ \ {i}]
             /\ quarantine' = [quarantine EXCEPT ![d] = @ + aside]
             /\ UNCHANGED faults
          \/ /\ Stored + Size <= Limit /\ Fault
             /\ cache' = [cache EXCEPT ![d] = NoFile]
             /\ quarantine' = [quarantine EXCEPT ![d] = @ + aside + 1]
             /\ UNCHANGED rotten
    /\ UNCHANGED <<wanted, inst, store, base, spare, partial, agentSide, vmSide, doomed>>

\* SeedImageCache, which is interrupted before or after the link has its name.
Seed(d) ==
    /\ ~up /\ Serving /\ doomed["node"] = {}
    /\ Intact(d, store[d])
    /\ cache[d] = NoFile
    /\ Stored + Size <= Limit
    /\ \/ cache' = [cache EXCEPT ![d] = store[d]] /\ UNCHANGED <<spare, faults>>
       \/ /\ spare[d] = NoFile
          /\ spare' = [spare EXCEPT ![d] = store[d]]
          /\ Fault /\ UNCHANGED cache
    /\ UNCHANGED <<wanted, inst, store, base, contents, agentSide, vmSide, doomed>>

\* Mutant: only what new VMs need.
ProtectedIfWanted(d) == d \in wanted

\* controllerCacheProtection
ProtectedInStore(d) == d \in wanted \cup LiveImages

\* NodeCacheProtection
Protected(d) ==
    \/ d \in catalog
    \/ \E v \in VMs : ImageOf[v] = d /\ (manifest[v] = "kept" \/ overlay[v] # NoFile)

\* A directory without a root disk, or a base that is not the cached file.
Safe ==
    /\ \A v \in folder : overlay[v] # NoFile
    /\ \A d \in Digests : base[d] # NoFile /\ cache[d] # NoFile => base[d] = cache[d]

\* The links of one kind.
Of(kind, S) == [kind : {kind}, digest : S]

\* PruneImageCache for the Node decides, under both locks, what to remove: each
\* file by its own age, an image by that of both its links.
ScanNode ==
    /\ ~up /\ doomed["node"] = {}
    /\ Safe
    /\ \E images \in SUBSET {d \in Digests : ~Protected(d)},
          spares \in SUBSET {d \in Digests : spare[d] # NoFile},
          begun \in SUBSET {d \in Digests : partial[d].size > 0},
          aside \in SUBSET {d \in Digests : quarantine[d] > 0} :
          doomed' = [doomed EXCEPT !["node"] =
              Of("spare", spares)
                  \cup Of("base", {d \in images : base[d] # NoFile})
                  \cup Of("cache", {d \in images : cache[d] # NoFile})
                  \cup Of("partial", begun) \cup Of("quarantine", aside)]
    /\ UNCHANGED <<wanted, inst, names, contents, agentSide, vmSide, faults>>

\* The same for the Controller's cache, while the Controller is stopped.
ScanStore ==
    /\ Serving
    /\ \E old \in SUBSET {d \in Digests : store[d] # NoFile /\ ~ProtectedInStore(d)} :
          doomed' = [doomed EXCEPT !["controller"] = Of("store", old)]
    /\ UNCHANGED <<wanted, inst, names, contents, agentSide, vmSide, faults>>

\* One link after the other is removed, the base of an image before its cache;
\* of the files that lie aside one or more.
RemoveOne(s) == \E link \in doomed[s] :
    /\ link.kind = "cache" => [link EXCEPT !.kind = "base"] \notin doomed[s]
    /\ LET d == link.digest kind == link.kind
           without(f, k) == IF kind = k THEN [f EXCEPT ![d] = NoFile] ELSE f
       IN
       /\ store' = without(store, "store") /\ cache' = without(cache, "cache")
       /\ base' = without(base, "base") /\ spare' = without(spare, "spare")
       /\ partial' = IF kind = "partial" THEN [partial EXCEPT ![d] = Nobody] ELSE partial
       /\ quarantine' = IF kind = "quarantine" THEN [quarantine EXCEPT ![d] = @ - 1] ELSE quarantine
       /\ \/ doomed' = [doomed EXCEPT ![s] = @ \ {link}]
          \/ kind = "quarantine" /\ quarantine[d] > 1 /\ UNCHANGED doomed
    /\ UNCHANGED <<wanted, inst, rotten, agentSide, vmSide, faults>>

\* A removal fails, or the command is interrupted.
PruneStops(s) ==
    /\ doomed[s] # {}
    /\ Fault
    /\ doomed' = [doomed EXCEPT ![s] = {}]
    /\ UNCHANGED <<wanted, inst, names, contents, agentSide, vmSide>>

-----------------------------------------------------------------------------
(* The Controller's records, and the Agent's loop.                         *)

\* An instance is placed on the Node, whatever its last report said.
PlaceVM(v) ==
    /\ Serving
    /\ inst[v] = "none" /\ ImageOf[v] \in wanted
    /\ inst' = [inst EXCEPT ![v] = "placed"]
    /\ UNCHANGED <<wanted, names, contents, agentSide, vmSide, doomed, faults>>

\* It is stopped, and the Controller learns that its VM is off.
Release(v) ==
    /\ Serving /\ up /\ ensuring = {}
    /\ inst[v] = "placed"
    /\ inst' = [inst EXCEPT ![v] = "deleting"]
    /\ manifest' = [manifest EXCEPT ![v] = "kept"]
    /\ UNCHANGED <<wanted, names, contents, agentSide, folder, overlay, doomed, faults>>

\* The Agent has its process lock and finds nothing verified yet.
StartAgent ==
    /\ ~up /\ doomed["node"] = {}
    /\ up' = TRUE /\ verified' = {}
    /\ UNCHANGED <<wanted, inst, names, contents, catalog, ensuring, vmSide, doomed, faults>>

StopAgent ==
    /\ up /\ Fault
    /\ up' = FALSE /\ ensuring' = {}
    /\ UNCHANGED <<wanted, inst, names, contents, verified, catalog, vmSide, doomed>>

\* Images.Verify, which remembers the size and time of what it has hashed.
Verified(d) == cache[d] # NoFile /\ (d \in verified \/ Intact(d, cache[d]))

\* The digests that come before d in the catalog.
Earlier(d) == {e \in catalog : \E i, j \in DOMAIN Catalog : i < j /\ Catalog[i] = e /\ Catalog[j] = d}

\* Images.Available stops at the first image that fails.
Reported == {d \in catalog : /\ Verified(d)
                             /\ \A e \in Earlier(d) : cache[e] # NoFile => Verified(e)}

\* A report and its reply, which may be lost: the images of enabled Pools and of
\* VMs not known to be deleted before this report.
Sync ==
    /\ Serving /\ up /\ ensuring = {}
    /\ verified' = verified \cup Reported
    /\ inst' = [v \in VMs |-> IF manifest[v] = "deleted" THEN "deleted" ELSE inst[v]]
    /\ \/ catalog' = wanted \cup LiveImages /\ UNCHANGED faults
       \/ Fault /\ UNCHANGED catalog
    /\ UNCHANGED <<wanted, names, contents, up, ensuring, vmSide, doomed>>

\* Libvirt.ensure up to the VM's directory; the order came with a reply whose
\* catalog was saved.
Begin(v) ==
    /\ up /\ ensuring = {}
    /\ inst[v] = "placed" /\ ImageOf[v] \in catalog
    /\ overlay[v] = NoFile
    /\ Verified(ImageOf[v])
    /\ verified' = verified \cup {ImageOf[v]}
    /\ manifest' = [manifest EXCEPT ![v] = "kept"]
    /\ folder' = folder \cup {v}
    /\ ensuring' = {v}
    /\ UNCHANGED <<wanted, inst, names, contents, up, catalog, overlay, doomed, faults>>

\* The base is a link to the cached file.
LinkBase(v) ==
    /\ v \in ensuring /\ base[ImageOf[v]] = NoFile
    /\ base' = [base EXCEPT ![ImageOf[v]] = cache[ImageOf[v]]]
    /\ UNCHANGED <<wanted, inst, store, cache, spare, contents, agentSide, vmSide, doomed, faults>>

\* The root disk, unless the base is another file.
MakeOverlay(v) ==
    LET d == ImageOf[v]
    IN
    /\ v \in ensuring /\ base[d] # NoFile
    /\ overlay' = [overlay EXCEPT ![v] = IF base[d] = cache[d] THEN base[d] ELSE @]
    /\ ensuring' = {}
    /\ UNCHANGED <<wanted, inst, names, contents, up, verified, catalog, manifest, folder, doomed,
                   faults>>

\* A step of ensure fails.
GiveUp ==
    /\ ensuring # {} /\ Fault
    /\ ensuring' = {}
    /\ UNCHANGED <<wanted, inst, names, contents, up, verified, catalog, vmSide, doomed>>

\* Libvirt.Delete: disk, directory, then the manifest; it fails in between.
Delete(v) ==
    /\ up /\ ensuring = {}
    /\ inst[v] = "deleting" /\ manifest[v] = "kept"
    /\ overlay' = [overlay EXCEPT ![v] = NoFile]
    /\ \/ Fault /\ UNCHANGED <<folder, manifest>>
       \/ Fault /\ folder' = folder \ {v} /\ UNCHANGED manifest
       \/ /\ folder' = folder \ {v} /\ UNCHANGED faults
          /\ manifest' = [manifest EXCEPT ![v] = "deleted"]
    /\ UNCHANGED <<wanted, inst, names, contents, agentSide, doomed>>

-----------------------------------------------------------------------------
(* Download.                                                               *)

\* The Agent tries one image per round, the first that fails verification.
Missing == {d \in catalog : ~Verified(d) /\ \A e \in Earlier(d) : Verified(e)}

\* Mutant: a corrupt file is set aside although a base is linked to it.
MayAsideLinked(d) == TRUE

\* quarantineDigestMismatch
MayAside(d) == cache[d] # NoFile => LinkCount(d, cache[d]) = 1

\* GET /v1/images serves the file as it is to a Node that may have it.  One of
\* length len is of use if it fits there and is no shorter than what there is
\* of it already.
Offered(d, len) ==
    /\ Serving /\ store[d] # NoFile
    /\ d \in wanted \cup LiveImages
    /\ partial[d].size <= len /\ len <= Available(d)

\* Whether the first n units are right once those missing have come from a file
\* of length len: of a file that is wrong a part may be.
Arrives(d, n, len) ==
    IF partial[d].size = n \/ Intact(d, store[d]) THEN {TRUE}
    ELSE IF n > Size \/ (partial[d].size = 0 /\ n = Size /\ len = Size) THEN {FALSE} ELSE BOOLEAN

\* Mutant: a file of the right size is published.
PublishUnhashed(d, good) ==
    /\ cache' = [cache EXCEPT ![d] = Fresh(d)]
    /\ rotten' = [rotten EXCEPT ![d] = IF good THEN @ \ {Fresh(d)} ELSE @ \cup {Fresh(d)}]
    /\ partial' = [partial EXCEPT ![d] = Nobody]

\* Mutant: what failed is kept for the next attempt.
PublishOrKeep(d, good) ==
    IF good THEN
        /\ cache' = [cache EXCEPT ![d] = Fresh(d)]
        /\ rotten' = [rotten EXCEPT ![d] = @ \ {Fresh(d)}]
        /\ partial' = [partial EXCEPT ![d] = Nobody]
    ELSE
        /\ cache' = [cache EXCEPT ![d] = NoFile]
        /\ partial' = [partial EXCEPT ![d] = [size |-> Size, good |-> FALSE]]
        /\ UNCHANGED rotten

\* publishPartial: the whole file is hashed and has its name, or is removed.
PublishPartial(d, good) ==
    /\ cache' = [cache EXCEPT ![d] = IF good THEN Fresh(d) ELSE NoFile]
    /\ rotten' = [rotten EXCEPT ![d] = IF good THEN @ \ {Fresh(d)} ELSE @]
    /\ partial' = [partial EXCEPT ![d] = Nobody]

\* Images.Download: a corrupt file is set aside; what is there of the image is
\* resumed, and is left where it is when the transfer is refused or cut.  A
\* source gone bad may have another length: it is resumed all the same, and
\* answers 416 when there is no less of it already.
Download ==
    \E d \in Missing, len \in 1 .. Longest :
        /\ up /\ ensuring = {}
        /\ MayAside(d)
        /\ Intact(d, store[d]) => len = Size
        /\ quarantine' = IF cache[d] # NoFile THEN [quarantine EXCEPT ![d] = @ + 1] ELSE quarantine
        /\ verified' = (verified \cup Earlier(d)) \ {d}
        /\ \/ /\ IF Offered(d, len) THEN Fault ELSE UNCHANGED faults
              /\ cache' = [cache EXCEPT ![d] = NoFile]
              /\ UNCHANGED <<rotten, partial>>
           \/ /\ Offered(d, len) /\ Fault
              /\ \E n \in partial[d].size + 1 .. len : \E ok \in Arrives(d, n, len) :
                    partial' = [partial EXCEPT ![d] = [size |-> n, good |-> @.good /\ ok]]
              /\ cache' = [cache EXCEPT ![d] = NoFile]
              /\ UNCHANGED rotten
           \/ /\ Offered(d, len)
              /\ \E ok \in Arrives(d, len, len) :
                    PublishPartial(d, partial[d].good /\ ok /\ len = Size)
              /\ UNCHANGED faults
        /\ UNCHANGED <<wanted, inst, store, base, spare, up, catalog, ensuring, vmSide, doomed>>

\* A file, or what there is of a download, goes bad.
Rot(d) ==
    /\ Fault
    /\ \/ /\ \E i \in {store[d], cache[d], base[d], spare[d]} \ {NoFile} :
                rotten' = [rotten EXCEPT ![d] = @ \cup {i}]
          /\ UNCHANGED partial
       \/ /\ partial[d].size > 0
          /\ partial' = [partial EXCEPT ![d].good = FALSE]
          /\ UNCHANGED rotten
    /\ UNCHANGED <<wanted, inst, names, quarantine, agentSide, vmSide, doomed>>

-----------------------------------------------------------------------------
Administer ==
    \/ \E d \in Digests : Configure(d) \/ Import(d) \/ ImportToNode(d) \/ Seed(d) \/ Rot(d)
    \/ ScanNode \/ ScanStore
    \/ \E s \in {"controller", "node"} : RemoveOne(s) \/ PruneStops(s)

AgentStep ==
    \/ StartAgent \/ StopAgent \/ Sync \/ GiveUp \/ Download
    \/ \E v \in VMs : Begin(v) \/ LinkBase(v) \/ MakeOverlay(v) \/ Delete(v)

CacheNext == Administer \/ AgentStep \/ \E v \in VMs : PlaceVM(v) \/ Release(v)

CacheSpec == CacheInit /\ [][CacheNext]_cacheVars

\* The Agent is started again, and its loop goes on, although prunes, which
\* end, stop it or the Controller again and again.
FairCache ==
    /\ CacheSpec
    /\ SF_cacheVars(StartAgent) /\ SF_cacheVars(Sync) /\ SF_cacheVars(Download)
    /\ WF_cacheVars(\E v \in VMs : LinkBase(v) \/ MakeOverlay(v))
    /\ \A s \in {"controller", "node"} : WF_cacheVars(RemoveOne(s))

-----------------------------------------------------------------------------
(* Properties.                                                             *)

\* The file a VM's disk is based on is the base, and the base is the file in the
\* cache: prunes, quarantines, seeds and crashes between their steps never
\* leave a disk without its base, or a base that Libvirt.ensure would refuse
\* (and every prune after it).
BackingIsCached ==
    /\ \A v \in VMs : overlay[v] # NoFile => base[ImageOf[v]] = overlay[v]
    /\ \A d \in Digests : base[d] # NoFile => cache[d] = base[d]

\* Download, Import and SeedImageCache: whatever was resumed from whichever
\* attempt, from a source that was corrupt for a time, only the right content
\* gets the name.
PublishedIsRight == [][
    \A d \in Digests : cache'[d] \notin {cache[d], NoFile} => cache'[d] \notin rotten'[d]]_cacheVars

\* PruneImageCache of the Controller: an intact file stays as long as a VM that
\* is made from it is not known to be deleted, Pools enabled or not.
LiveImageServed == [][
    \A d \in LiveImages : Intact(d, store[d]) => store'[d] = store[d]]_cacheVars

\* What a Node should have, and what it can get.  What is longer than the image
\* stays until a prune takes it.
Needed == wanted \cup LiveImages

Obtainable(d) ==
    \/ Verified(d)
    \/ /\ MayAside(d) /\ Intact(d, store[d])
       /\ partial[d].size <= Size /\ Size <= Available(d)

\* Agent.Step and Download: if from some time on every image a Node needs could
\* be had, it has them all in the end, whatever partial, corrupt or abandoned
\* files earlier attempts, prunes and crashes left behind.
ImagesArrive ==
    <>[](\A d \in Needed : Obtainable(d)) => []<>(\A d \in Needed : Verified(d))
===============================================================================

----------------------------- MODULE ImageUnpack ----------------------------
(* From an image reference to the root filesystem of a container, in         *)
(* containerd_interface.py: PodManager._ensure_unpacked makes sure the blobs *)
(* are in the content store and calls SnapshotManager.grpc_unpack, which     *)
(* builds one snapshot per layer; then chain_id_for_image and                *)
(* prepare_rw_snapshot give the container its writable snapshot.  Several    *)
(* create_pod_task processes of one node do this at once on one containerd,  *)
(* with image references and layers in common.                               *)
EXTENDS Integers, Sequences, FiniteSets

CONSTANTS
    Tasks,        \* processes that create containers
    Refs,         \* image references, such as registry.k8s.io/pause:3.9
    Manifests,    \* manifests of the registry
    Layers,       \* diff ids; a layer's blob is named by its diff id here
    DiffIds,      \* manifest -> the diff ids of its layers, lowest first
    Asks,         \* task -> reference: what the tasks may be asked for
    Tags,         \* reference -> manifest: what the registry may hold at first
    KnownRefs,    \* references that containerd resolves at the start
    MaxPushes,    \* bound: times a tag moves in the registry
    MaxRemovals,  \* bound: images an operator removes from containerd
    None

ASSUME UnpackAssumption ==
    /\ DiffIds \in [Manifests -> Seq(Layers)]
    /\ Asks \subseteq [Tasks -> Refs]
    /\ Tags \subseteq [Refs -> Manifests]
    /\ KnownRefs \subseteq Refs
    /\ None \notin Manifests
    /\ {MaxPushes, MaxRemovals} \subseteq Nat

VARIABLES
    calm,       \* no call fails, no process dies, no tag moves or is behind the
                \* registry, no image is removed
    registry,   \* reference -> manifest it names upstream
    image,      \* containerd image store: reference -> manifest, or None
    blobs,      \* content store: layers whose blob is present
    snaps,      \* committed snapshots: name (chain id) and content
    active,     \* keys of prepared, uncommitted unpack snapshots
    pc,         \* task -> the call it makes next
    ref,        \* task -> the reference it was asked for
    man,        \* task -> the manifest it resolved
    layer,      \* task -> number of the layer it is at
    draft,      \* task -> content of the snapshot it prepared
    rootfs,     \* task -> content under its writable snapshot, or None
    pushes, removals

storeVars == <<calm, registry, image, blobs, pushes, removals>>
vars == <<calm, registry, image, blobs, snaps, active, pc, ref, man, layer, draft,
          rootfs, pushes, removals>>

Working == {"resolve", "check", "pull", "recheck", "stat", "prepare", "apply",
            "commit", "chain", "rw"}

LayersOf(m) == {DiffIds[m][k] : k \in 1..Len(DiffIds[m])}

whole_chain_id(m, k) ==   \* Bug: layers are committed under the id of the image.
    DiffIds[m]

\* _compute_chain_id of the first k layers: the ids of two chains agree only
\* when the layers do, so the layers stand for the id.
_compute_chain_id(m, k) == SubSeq(DiffIds[m], 1, k)

TypeOK ==
    /\ calm \in BOOLEAN
    /\ registry \in [Refs -> Manifests]
    /\ image \in [Refs -> Manifests \cup {None}]
    /\ blobs \in SUBSET Layers
    /\ snaps \in SUBSET [name : Seq(Layers), content : Seq(Layers)]
    /\ active \in SUBSET (Tasks \X Nat)
    /\ pc \in [Tasks -> Working \cup {"ready", "error", "lost"}]
    /\ ref \in [Tasks -> Refs]
    /\ man \in [Tasks -> Manifests \cup {None}]
    /\ layer \in [Tasks -> Nat]
    /\ draft \in [Tasks -> Seq(Layers)]
    /\ rootfs \in [Tasks -> Seq(Layers) \cup {None}]
    /\ pushes \in Nat
    /\ removals \in Nat

\* containerd may have lost any blob already: CRI can discard layers that it
\* unpacked itself.
Init ==
    /\ calm \in BOOLEAN
    /\ registry \in Tags
    /\ image \in {f \in [Refs -> Manifests \cup {None}] :
                    \A r \in Refs : /\ f[r] = None <=> r \notin KnownRefs
                                    /\ f[r] \in {registry[r], None} \/ ~calm}
    /\ blobs \in SUBSET Layers
    /\ snaps = {}
    /\ active = {}
    /\ pc = [t \in Tasks |-> "resolve"]
    /\ ref \in Asks
    /\ man = [t \in Tasks |-> None]
    /\ layer = [t \in Tasks |-> 1]
    /\ draft = [t \in Tasks |-> <<>>]
    /\ rootfs = [t \in Tasks |-> None]
    /\ pushes = 0
    /\ removals = 0

Goto(t, label) == pc' = [pc EXCEPT ![t] = label]

-----------------------------------------------------------------------------
(* _ensure_unpacked                                                          *)

\* resolve_manifest: RuntimeError when no candidate name is in the image store.
resolve_manifest(t) ==
    /\ pc[t] = "resolve"
    /\ IF image[ref[t]] = None
       THEN Goto(t, "error") /\ UNCHANGED man
       ELSE Goto(t, "check") /\ man' = [man EXCEPT ![t] = image[ref[t]]]
    /\ UNCHANGED <<storeVars, snaps, active, ref, layer, draft, rootfs>>

\* The first _blob_exists pass decides between pulling and unpacking.
check_blobs(t) ==
    /\ pc[t] = "check"
    /\ Goto(t, IF LayersOf(man[t]) \subseteq blobs THEN "stat" ELSE "pull")
    /\ UNCHANGED <<storeVars, snaps, active, ref, man, layer, draft, rootfs>>

\* CRI pulls what the registry names now; image_status and the second
\* resolve_manifest go by the digest of that pull.
cri_pull(t) ==
    LET m == registry[ref[t]] IN
    /\ pc[t] = "pull"
    /\ image' = [image EXCEPT ![ref[t]] = m]
    /\ blobs' = blobs \cup LayersOf(m)
    /\ man' = [man EXCEPT ![t] = m]
    /\ Goto(t, "recheck")
    /\ UNCHANGED <<calm, registry, pushes, removals, snaps, active, ref, layer, draft,
                   rootfs>>

recheck_blobs(t) ==
    /\ pc[t] = "recheck"
    /\ Goto(t, IF LayersOf(man[t]) \subseteq blobs THEN "stat" ELSE "error")
    /\ UNCHANGED <<storeVars, snaps, active, ref, man, layer, draft, rootfs>>

-----------------------------------------------------------------------------
(* grpc_unpack: per layer Stat, Prepare, Apply, Commit                       *)

Committed(c) == \E s \in snaps : s.name = c

stat_stays(t) ==   \* Bug: a layer that is there is not passed over.
    /\ pc[t] = "stat"
    /\ IF layer[t] > Len(DiffIds[man[t]])
       THEN Goto(t, "chain") /\ UNCHANGED layer
       ELSE IF Committed(_compute_chain_id(man[t], layer[t]))
       THEN UNCHANGED <<layer, pc>>
       ELSE Goto(t, "prepare") /\ UNCHANGED layer
    /\ UNCHANGED <<storeVars, snaps, active, ref, man, draft, rootfs>>

Stat(t) ==
    /\ pc[t] = "stat"
    /\ IF layer[t] > Len(DiffIds[man[t]])
       THEN Goto(t, "chain") /\ UNCHANGED layer
       ELSE IF Committed(_compute_chain_id(man[t], layer[t]))
       THEN layer' = [layer EXCEPT ![t] = @ + 1] /\ UNCHANGED pc
       ELSE Goto(t, "prepare") /\ UNCHANGED layer
    /\ UNCHANGED <<storeVars, snaps, active, ref, man, draft, rootfs>>

\* Bug: parent_chain is lost when a layer is already there.
prepare_without_parent(t) ==
    /\ pc[t] = "prepare"
    /\ draft' = [draft EXCEPT ![t] = <<>>]
    /\ active' = active \cup {<<t, layer[t]>>}
    /\ Goto(t, "apply")
    /\ UNCHANGED <<storeVars, snaps, ref, man, layer, rootfs>>

\* An active snapshot starts as its parent; the lowest layer has no parent.
Prepare(t) ==
    LET parent == _compute_chain_id(man[t], layer[t] - 1) IN
    /\ pc[t] = "prepare"
    /\ \/ /\ layer[t] = 1
          /\ draft' = [draft EXCEPT ![t] = <<>>]
       \/ /\ layer[t] > 1
          /\ \E s \in snaps : /\ s.name = parent
                              /\ draft' = [draft EXCEPT ![t] = s.content]
    /\ active' = active \cup {<<t, layer[t]>>}
    /\ Goto(t, "apply")
    /\ UNCHANGED <<storeVars, snaps, ref, man, layer, rootfs>>

\* Bug: the layer replaces what the snapshot holds.
apply_over(t) ==
    LET d == DiffIds[man[t]][layer[t]] IN
    /\ pc[t] = "apply"
    /\ IF d \in blobs
       THEN Goto(t, "commit") /\ draft' = [draft EXCEPT ![t] = d]
       ELSE Goto(t, "error") /\ UNCHANGED draft
    /\ UNCHANGED <<storeVars, snaps, active, ref, man, layer, rootfs>>

\* Apply is outside any try: a missing blob leaves the prepared key behind.
Apply(t) ==
    LET d == DiffIds[man[t]][layer[t]] IN
    /\ pc[t] = "apply"
    /\ IF d \in blobs
       THEN Goto(t, "commit") /\ draft' = [draft EXCEPT ![t] = Append(@, d)]
       ELSE Goto(t, "error") /\ UNCHANGED draft
    /\ UNCHANGED <<storeVars, snaps, active, ref, man, layer, rootfs>>

\* Bug: ALREADY_EXISTS does not remove the own key.
commit_keeps_key(t) ==
    LET c == _compute_chain_id(man[t], layer[t]) IN
    /\ pc[t] = "commit"
    /\ IF Committed(c)
       THEN UNCHANGED <<snaps, active>>
       ELSE /\ snaps' = snaps \cup {[name |-> c, content |-> draft[t]]}
            /\ active' = active \ {<<t, layer[t]>>}
    /\ layer' = [layer EXCEPT ![t] = @ + 1]
    /\ Goto(t, "stat")
    /\ UNCHANGED <<storeVars, ref, man, draft, rootfs>>

\* Bug: ALREADY_EXISTS is raised like every other error.
commit_raises(t) ==
    LET c == _compute_chain_id(man[t], layer[t]) IN
    /\ pc[t] = "commit"
    /\ active' = active \ {<<t, layer[t]>>}
    /\ IF Committed(c)
       THEN Goto(t, "error") /\ UNCHANGED <<snaps, layer>>
       ELSE /\ snaps' = snaps \cup {[name |-> c, content |-> draft[t]]}
            /\ layer' = [layer EXCEPT ![t] = @ + 1]
            /\ Goto(t, "stat")
    /\ UNCHANGED <<storeVars, ref, man, draft, rootfs>>

\* Another task may have committed the chain since the Stat: ALREADY_EXISTS
\* removes the own key and goes on, also when that Remove raises.
Commit(t) ==
    LET c == _compute_chain_id(man[t], layer[t])
        key == <<t, layer[t]>> IN
    /\ pc[t] = "commit"
    /\ \/ /\ ~Committed(c)
          /\ snaps' = snaps \cup {[name |-> c, content |-> draft[t]]}
          /\ active' = active \ {key}
       \/ /\ Committed(c)
          /\ active' = active \ {key} \/ (~calm /\ UNCHANGED active)
          /\ UNCHANGED snaps
    /\ layer' = [layer EXCEPT ![t] = @ + 1]
    /\ Goto(t, "stat")
    /\ UNCHANGED <<storeVars, ref, man, draft, rootfs>>

-----------------------------------------------------------------------------
(* create_pod and add_container after _ensure_unpacked                       *)

\* chain_id_for_image resolves the reference once more.
chain_id_for_image(t) ==
    /\ pc[t] = "chain"
    /\ IF image[ref[t]] = None \/ DiffIds[image[ref[t]]] = <<>>
       THEN Goto(t, "error") /\ UNCHANGED man
       ELSE Goto(t, "rw") /\ man' = [man EXCEPT ![t] = image[ref[t]]]
    /\ UNCHANGED <<storeVars, snaps, active, ref, layer, draft, rootfs>>

\* Bug: the parent is the chain without the last layer.
rw_on_lower_chain(t) ==
    LET parent == _compute_chain_id(man[t], Len(DiffIds[man[t]]) - 1) IN
    /\ pc[t] = "rw"
    /\ \/ /\ ~Committed(parent)
          /\ Goto(t, "error")
          /\ UNCHANGED rootfs
       \/ \E s \in snaps : /\ s.name = parent
                           /\ rootfs' = [rootfs EXCEPT ![t] = s.content]
                           /\ Goto(t, "ready")
    /\ UNCHANGED <<storeVars, snaps, active, ref, man, layer, draft>>

\* Prepare fails on an unknown parent; no other snapshotter has it either.
prepare_rw_snapshot(t) ==
    LET parent == _compute_chain_id(man[t], Len(DiffIds[man[t]])) IN
    /\ pc[t] = "rw"
    /\ \/ /\ ~Committed(parent)
          /\ Goto(t, "error")
          /\ UNCHANGED rootfs
       \/ \E s \in snaps : /\ s.name = parent
                           /\ rootfs' = [rootfs EXCEPT ![t] = s.content]
                           /\ Goto(t, "ready")
    /\ UNCHANGED <<storeVars, snaps, active, ref, man, layer, draft>>

-----------------------------------------------------------------------------
\* Any call raises and the task with it.  Only when Commit does (with anything
\* but ALREADY_EXISTS) the key is removed first, if that Remove succeeds.
CallFails(t) ==
    /\ ~calm
    /\ pc[t] \in Working
    /\ Goto(t, "error")
    /\ \/ UNCHANGED active
       \/ pc[t] = "commit" /\ active' = active \ {<<t, layer[t]>>}
    /\ UNCHANGED <<storeVars, snaps, ref, man, layer, draft, rootfs>>

TaskDies(t) ==
    /\ ~calm
    /\ pc[t] \in Working
    /\ Goto(t, "lost")
    /\ UNCHANGED <<storeVars, snaps, active, ref, man, layer, draft, rootfs>>

-----------------------------------------------------------------------------
(* Outside: the registry, and an operator who removes images.                *)

PushTag(r, m) ==
    /\ ~calm
    /\ pushes < MaxPushes
    /\ registry[r] # m
    /\ registry' = [registry EXCEPT ![r] = m]
    /\ pushes' = pushes + 1
    /\ UNCHANGED <<calm, image, blobs, removals, snaps, active, pc, ref, man, layer,
                   draft, rootfs>>

\* The content collector drops blobs no image refers to: grpc_unpack holds no
\* lease.  Snapshots carry the gc.root label and stay.
RemoveImage(r) ==
    LET kept == {q \in Refs \ {r} : image[q] # None} IN
    /\ ~calm
    /\ removals < MaxRemovals
    /\ image[r] # None
    /\ image' = [image EXCEPT ![r] = None]
    /\ blobs' = blobs \cap UNION {LayersOf(image[q]) : q \in kept}
    /\ removals' = removals + 1
    /\ UNCHANGED <<calm, registry, pushes, snaps, active, pc, ref, man, layer, draft,
                   rootfs>>

-----------------------------------------------------------------------------
Step(t) ==
    \/ resolve_manifest(t) \/ check_blobs(t) \/ cri_pull(t) \/ recheck_blobs(t)
    \/ Stat(t) \/ Prepare(t) \/ Apply(t) \/ Commit(t)
    \/ chain_id_for_image(t) \/ prepare_rw_snapshot(t)
    \/ CallFails(t)

Next ==
    \/ \E t \in Tasks : Step(t) \/ TaskDies(t)
    \/ \E r \in Refs : (\E m \in Manifests : PushTag(r, m)) \/ RemoveImage(r)

Spec == Init /\ [][Next]_vars

\* Every process keeps making its next call while it lives.
FairSpec == Spec /\ \A t \in Tasks : WF_vars(Step(t))

-----------------------------------------------------------------------------
\* A committed snapshot holds exactly the layers its chain id names, however
\* Prepare, Apply and Commit of several tasks interleave.
SnapshotIsItsChain ==
    \A s \in snaps : s.content = s.name

\* A container that gets a writable snapshot gets the whole image of a
\* manifest, never a prefix of its layers.
RootfsIsWholeImage ==
    \A t \in Tasks : pc[t] = "ready" =>
        /\ rootfs[t] = DiffIds[man[t]]
        /\ man[t] # None

\* A prepared key outlives its loop round only when its task failed or died, or
\* by a fault: the Remove after ALREADY_EXISTS raised and was ignored.  While
\* nothing fails, both ways out of Commit dispose of it.
KeyLeaksOnlyOnFailure ==
    \A k \in active :
        \/ pc[k[1]] \in {"apply", "commit"} /\ layer[k[1]] = k[2]
        \/ pc[k[1]] \in {"error", "lost"}
        \/ ~calm /\ k[2] < layer[k[1]]

\* _ensure_unpacked makes sure blobs and snapshots are there: when no call
\* fails, no image is removed and no tag is behind the registry, no task fails,
\* whatever others with layers in common do at the same time.
EnsureUnpackedSucceeds == calm => \A t \in Tasks : pc[t] # "error"

\* _ensure_unpacked ends: every task gets its root filesystem, fails or dies.
EveryTaskEnds == \A t \in Tasks : <>(pc[t] \in {"ready", "error", "lost"})

Chains == INSTANCE ChainStore WITH chains <- {s.name : s \in snaps}

\* The snapshots of the node only ever grow by one layer on a committed chain.
ImplementsChainStore == Chains!Spec
=============================================================================

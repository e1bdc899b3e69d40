-------------------------- MODULE ImageUnpack_proof -------------------------
(* Proofs about ImageUnpack for any number of tasks, references and images.  *)
EXTENDS ImageUnpack, SequenceTheorems, TLAPS

\* The chain of k layers is the chain of k - 1 layers with one more on top, and
\* the chain of all layers is the image.
LEMMA ChainIds ==
    ASSUME NEW m \in Manifests
    PROVE  /\ Len(DiffIds[m]) \in Nat
           /\ DiffIds[m] \in Seq(Layers)
           /\ _compute_chain_id(m, 0) = <<>>
           /\ _compute_chain_id(m, Len(DiffIds[m])) = DiffIds[m]
           /\ \A k \in 1..Len(DiffIds[m]) :
                /\ DiffIds[m][k] \in Layers
                /\ _compute_chain_id(m, k - 1) \in Seq(Layers)
                /\ _compute_chain_id(m, k) \in Seq(Layers)
                /\ _compute_chain_id(m, k)
                     = Append(_compute_chain_id(m, k - 1), DiffIds[m][k])
  <1> DEFINE s == DiffIds[m]
  <1>1. s \in Seq(Layers)  BY UnpackAssumption
  <1> HIDE DEF s
  <1>2. Len(s) \in Nat /\ \A k \in 1..Len(s) : s[k] \in Layers
    BY <1>1, LenProperties, ElementOfSeq
  <1>3. SubSeq(s, 1, 0) = <<>>  BY SubSeqEmpty
  <1>4. SubSeq(s, 1, Len(s)) = s  BY <1>1, SubSeqFull
  <1>5. ASSUME NEW k \in 1..Len(s)
        PROVE  /\ SubSeq(s, 1, k - 1) \in Seq(Layers)
               /\ SubSeq(s, 1, k) \in Seq(Layers)
               /\ SubSeq(s, 1, k) = Append(SubSeq(s, 1, k - 1), s[k])
    <2>1. k \in Int /\ k - 1 \in Int /\ k \in 1..k  BY <1>2
    <2>2. \A i \in 1..k : s[i] \in Layers  BY <1>2
    <2>3. \A i \in 1..(k - 1) : s[i] \in Layers  BY <1>2
    <2>4. SubSeq(s, 1, k) \in Seq(Layers)  BY <2>1, <2>2, SubSeqProperties
    <2>5. SubSeq(s, 1, k - 1) \in Seq(Layers)  BY <2>1, <2>3, SubSeqProperties
    <2>6. SubSeq(s, 1, k) = SubSeq(s, 1, k - 1) \o <<s[k]>>
      BY <1>1, <1>2, SubSeqRecursiveSecond
    <2>7. Append(SubSeq(s, 1, k - 1), s[k]) = SubSeq(s, 1, k - 1) \o <<s[k]>>
      BY <1>2, <2>5, AppendIsConcat
    <2> QED  BY <2>4, <2>5, <2>6, <2>7
  <1> QED  BY <1>1, <1>2, <1>3, <1>4, <1>5 DEF s, _compute_chain_id

\* Where a task is in the loop over the layers and what its snapshot holds.
Placed(t) ==
    /\ layer[t] # 0
    /\ pc[t] \in {"resolve", "check", "pull", "recheck"} => layer[t] = 1
    /\ pc[t] \notin {"resolve", "pull", "error", "lost"} => man[t] # None
    /\ pc[t] \in {"stat", "prepare", "apply", "commit"} =>
         /\ layer[t] <= Len(DiffIds[man[t]]) + 1
         /\ layer[t] = 1 \/ Committed(_compute_chain_id(man[t], layer[t] - 1))
    /\ pc[t] \in {"prepare", "apply", "commit"} => layer[t] <= Len(DiffIds[man[t]])
    /\ pc[t] = "apply" => draft[t] = _compute_chain_id(man[t], layer[t] - 1)
    /\ pc[t] = "commit" => draft[t] = _compute_chain_id(man[t], layer[t])
    /\ pc[t] = "chain" =>
         DiffIds[man[t]] = <<>> \/ Committed(DiffIds[man[t]])

IInv ==
    /\ TypeOK
    /\ \A t \in Tasks : Placed(t)
    /\ SnapshotIsItsChain
    /\ KeyLeaksOnlyOnFailure
    /\ RootfsIsWholeImage

\* The number of the layer a task works on, and the chain below it.
LEMMA AtLayer ==
    ASSUME IInv, NEW t \in Tasks, pc[t] \in {"prepare", "apply", "commit"}
    PROVE  /\ man[t] \in Manifests
           /\ layer[t] \in 1..Len(DiffIds[man[t]])
           /\ layer[t] \in Nat
           /\ layer[t] + 1 \in Nat
           /\ layer[t] + 1 # 0
           /\ layer[t] + 1 # 1
           /\ layer[t] + 1 <= Len(DiffIds[man[t]]) + 1
           /\ (layer[t] + 1) - 1 = layer[t]
           /\ layer[t] = 1 => layer[t] - 1 = 0
  <1>1. man[t] \in Manifests  BY DEF IInv, Placed, TypeOK
  <1>2. Len(DiffIds[man[t]]) \in Nat  BY <1>1, ChainIds
  <1>3. layer[t] \in Nat  BY DEF IInv, TypeOK
  <1>4. layer[t] # 0 /\ layer[t] <= Len(DiffIds[man[t]])  BY DEF IInv, Placed
  <1> QED  BY <1>1, <1>2, <1>3, <1>4

\* A task keeps its place while another one steps.
LEMMA StaysPlaced ==
    ASSUME NEW u \in Tasks, Placed(u), snaps \subseteq snaps',
           pc'[u] = pc[u], layer'[u] = layer[u], man'[u] = man[u], draft'[u] = draft[u]
    PROVE  Placed(u)'
  <1>1. \A c : Committed(c) => Committed(c)'  BY DEF Committed
  <1> QED  BY <1>1 DEF Placed

\* The types survive every step.
LEMMA TypesStep ==
    ASSUME IInv, [Next]_vars
    PROVE  TypeOK'
  <1> USE DEF TypeOK, storeVars
  <1>0. TypeOK  BY DEF IInv
  <1> DEFINE S == Seq(Layers)
  <1> DEFINE R == [name : S, content : S]
  <1> HIDE DEF S, R
  <1>s. /\ snaps \in SUBSET R
        /\ draft \in [Tasks -> S]
        /\ rootfs \in [Tasks -> S \cup {None}]
        /\ <<>> \in S
    BY <1>0 DEF S, R
  <1>t. ASSUME snaps' \in SUBSET R, draft' \in [Tasks -> S],
               rootfs' \in [Tasks -> S \cup {None}],
               calm' \in BOOLEAN, registry' \in [Refs -> Manifests],
               image' \in [Refs -> Manifests \cup {None}], blobs' \in SUBSET Layers,
               active' \in SUBSET (Tasks \X Nat),
               pc' \in [Tasks -> Working \cup {"ready", "error", "lost"}],
               ref' \in [Tasks -> Refs], man' \in [Tasks -> Manifests \cup {None}],
               layer' \in [Tasks -> Nat], pushes' \in Nat, removals' \in Nat
        PROVE  TypeOK'
    BY <1>t DEF S, R
  <1>u. \A s \in snaps : s.content \in S  BY <1>s DEF R
  <1>1. ASSUME NEW t \in Tasks, Step(t)  PROVE TypeOK'
    <2>1. CASE resolve_manifest(t)
      BY <1>0, <1>s, <1>t, <2>1 DEF resolve_manifest, Goto, Working
    <2>2. CASE check_blobs(t)
      BY <1>0, <1>s, <1>t, <2>2 DEF check_blobs, Goto, Working
    <2>3. CASE cri_pull(t)
      <3>1. registry[ref[t]] \in Manifests  BY <1>0
      <3>2. LayersOf(registry[ref[t]]) \subseteq Layers
        BY <3>1, ChainIds DEF LayersOf
      <3> QED  BY <1>0, <1>s, <1>t, <2>3, <3>1, <3>2 DEF cri_pull, Goto, Working
    <2>4. CASE recheck_blobs(t)
      BY <1>0, <1>s, <1>t, <2>4 DEF recheck_blobs, Goto, Working
    <2>5. CASE Stat(t)
      <3>1. layer[t] + 1 \in Nat  BY <1>0
      <3> QED  BY <1>0, <1>s, <1>t, <2>5, <3>1 DEF Stat, Goto, Working
    <2>6. CASE Prepare(t)
      <3>1. <<t, layer[t]>> \in Tasks \X Nat  BY <1>0
      <3>2. draft' \in [Tasks -> S]  BY <1>s, <1>u, <2>6 DEF Prepare
      <3> QED  BY <1>0, <1>s, <1>t, <2>6, <3>1, <3>2 DEF Prepare, Goto, Working
    <2>7. CASE Apply(t)
      <3>1. /\ man[t] \in Manifests
            /\ layer[t] \in 1..Len(DiffIds[man[t]])
        BY AtLayer, <2>7 DEF Apply
      <3>2. DiffIds[man[t]][layer[t]] \in Layers  BY <3>1, ChainIds
      <3>3. Append(draft[t], DiffIds[man[t]][layer[t]]) \in S
        BY <1>s, <3>2, AppendProperties DEF S
      <3>4. draft' \in [Tasks -> S]  BY <1>s, <2>7, <3>3 DEF Apply
      <3> QED  BY <1>0, <1>s, <1>t, <2>7, <3>4 DEF Apply, Goto, Working
    <2>8. CASE Commit(t)
      <3>1. /\ man[t] \in Manifests
            /\ layer[t] \in 1..Len(DiffIds[man[t]])
            /\ layer[t] + 1 \in Nat
        BY AtLayer, <2>8 DEF Commit
      <3>2. _compute_chain_id(man[t], layer[t]) \in S  BY <3>1, ChainIds DEF S
      <3>3. snaps' \in SUBSET R  BY <1>s, <2>8, <3>2 DEF Commit, R
      <3> QED  BY <1>0, <1>s, <1>t, <2>8, <3>1, <3>3 DEF Commit, Goto, Working
    <2>9. CASE chain_id_for_image(t)
      BY <1>0, <1>s, <1>t, <2>9 DEF chain_id_for_image, Goto, Working
    <2>10. CASE prepare_rw_snapshot(t)
      <3>1. rootfs' \in [Tasks -> S \cup {None}]
        BY <1>s, <1>u, <2>10 DEF prepare_rw_snapshot
      <3> QED  BY <1>0, <1>s, <1>t, <2>10, <3>1 DEF prepare_rw_snapshot, Goto, Working
    <2>11. CASE CallFails(t)
      BY <1>0, <1>s, <1>t, <2>11 DEF CallFails, Goto, Working
    <2> QED
      BY <1>1, <2>1, <2>2, <2>3, <2>4, <2>5, <2>6, <2>7, <2>8, <2>9, <2>10, <2>11
      DEF Step
  <1>2. ASSUME NEW t \in Tasks, TaskDies(t)  PROVE TypeOK'
    BY <1>0, <1>s, <1>t, <1>2 DEF TaskDies, Goto, Working
  <1>3. ASSUME NEW r \in Refs, NEW m \in Manifests, PushTag(r, m)  PROVE TypeOK'
    BY <1>0, <1>s, <1>t, <1>3 DEF PushTag
  <1>4. ASSUME NEW r \in Refs, RemoveImage(r)  PROVE TypeOK'
    BY <1>0, <1>s, <1>t, <1>4 DEF RemoveImage
  <1>5. CASE UNCHANGED vars
    BY <1>0, <1>s, <1>t, <1>5 DEF vars
  <1> QED  BY <1>1, <1>2, <1>3, <1>4, <1>5 DEF Next

\* Snapshots are never removed, and a step of one task leaves the others alone.
LEMMA OnlyOneMoves ==
    ASSUME TypeOK, NEW t \in Tasks, Step(t) \/ TaskDies(t)
    PROVE  /\ snaps \subseteq snaps'
           /\ \A u \in Tasks \ {t} : /\ pc'[u] = pc[u]
                                     /\ layer'[u] = layer[u]
                                     /\ man'[u] = man[u]
                                     /\ draft'[u] = draft[u]
                                     /\ rootfs'[u] = rootfs[u]
  <1> USE DEF TypeOK, storeVars, Goto
  <1>1. CASE resolve_manifest(t)     BY <1>1 DEF resolve_manifest
  <1>2. CASE check_blobs(t)          BY <1>2 DEF check_blobs
  <1>3. CASE cri_pull(t)             BY <1>3 DEF cri_pull
  <1>4. CASE recheck_blobs(t)        BY <1>4 DEF recheck_blobs
  <1>5. CASE Stat(t)                 BY <1>5 DEF Stat
  <1>6. CASE Prepare(t)              BY <1>6 DEF Prepare
  <1>7. CASE Apply(t)                BY <1>7 DEF Apply
  <1>8. CASE Commit(t)               BY <1>8 DEF Commit
  <1>9. CASE chain_id_for_image(t)   BY <1>9 DEF chain_id_for_image
  <1>10. CASE prepare_rw_snapshot(t) BY <1>10 DEF prepare_rw_snapshot
  <1>11. CASE CallFails(t)           BY <1>11 DEF CallFails
  <1>12. CASE TaskDies(t)            BY <1>12 DEF TaskDies
  <1> QED
    BY <1>1, <1>2, <1>3, <1>4, <1>5, <1>6, <1>7, <1>8, <1>9, <1>10, <1>11, <1>12
    DEF Step

\* Each call of a task leads to a place where the loop's invariant holds.
LEMMA OwnPlace ==
    ASSUME IInv, NEW t \in Tasks, Step(t) \/ TaskDies(t)
    PROVE  Placed(t)'
  <1>0. TypeOK /\ Placed(t)  BY DEF IInv
  <1>m. \A c : Committed(c) => Committed(c)'
    BY <1>0, OnlyOneMoves DEF Committed
  <1>l. layer[t] \in Nat /\ man[t] \in Manifests \cup {None}  BY <1>0 DEF TypeOK
  <1>n. man[t] # None => Len(DiffIds[man[t]]) \in Nat  BY <1>l, ChainIds
  <1>f. ASSUME pc'[t] \in {"error", "lost", "ready", "rw"}, layer'[t] # 0,
               pc'[t] \in {"ready", "rw"} => man'[t] # None
        PROVE  Placed(t)'
    BY <1>f DEF Placed
  <1>1. CASE resolve_manifest(t)
    BY <1>0, <1>1 DEF resolve_manifest, Goto, TypeOK, storeVars, Placed
  <1>2. CASE check_blobs(t)
    <2>1. pc[t] = "check" /\ man[t] # None /\ layer[t] = 1
      BY <1>0, <1>2 DEF check_blobs, Placed
    <2> QED  BY <1>0, <1>2, <1>n, <2>1 DEF check_blobs, Goto, TypeOK, Placed
  <1>3. CASE cri_pull(t)
    <2>1. registry[ref[t]] \in Manifests /\ registry[ref[t]] # None
      BY <1>0, UnpackAssumption DEF TypeOK
    <2> QED  BY <1>0, <1>3, <2>1 DEF cri_pull, Goto, TypeOK, Placed
  <1>4. CASE recheck_blobs(t)
    <2>1. pc[t] = "recheck" /\ man[t] # None /\ layer[t] = 1
      BY <1>0, <1>4 DEF recheck_blobs, Placed
    <2> QED  BY <1>0, <1>4, <1>n, <2>1 DEF recheck_blobs, Goto, TypeOK, Placed
  <1>5. CASE Stat(t)
    <2> DEFINE n == Len(DiffIds[man[t]])
    <2>0. /\ pc[t] = "stat" /\ man[t] # None /\ layer[t] <= n + 1
          /\ layer[t] = 1 \/ Committed(_compute_chain_id(man[t], layer[t] - 1))
          /\ layer[t] # 0 /\ n \in Nat
      BY <1>0, <1>5, <1>n DEF Stat, Placed
    <2>1. CASE layer[t] > n
      <3>1. layer[t] - 1 = n /\ (layer[t] = 1 => n = 0)  BY <1>l, <2>0, <2>1
      <3>2. n = 0 => DiffIds[man[t]] = <<>>
        BY <1>l, <2>0, ChainIds, EmptySeq
      <3>3. _compute_chain_id(man[t], n) = DiffIds[man[t]]
        BY <1>l, <2>0, ChainIds
      <3>4. DiffIds[man[t]] = <<>> \/ Committed(DiffIds[man[t]])
        BY <2>0, <3>1, <3>2, <3>3
      <3>5. pc'[t] = "chain" /\ layer'[t] = layer[t] /\ man'[t] = man[t]
        BY <1>0, <1>5, <2>1 DEF Stat, Goto, TypeOK
      <3> QED  BY <1>m, <2>0, <3>4, <3>5 DEF Placed
    <2>2. CASE layer[t] <= n /\ Committed(_compute_chain_id(man[t], layer[t]))
      <3>1. pc'[t] = "stat" /\ layer'[t] = layer[t] + 1 /\ man'[t] = man[t]
        BY <1>0, <1>l, <1>5, <2>0, <2>2 DEF Stat, TypeOK
      <3>2. /\ layer[t] + 1 # 0 /\ layer[t] + 1 <= n + 1
            /\ (layer[t] + 1) - 1 = layer[t]
        BY <1>l, <2>0, <2>2
      <3> QED  BY <1>m, <2>0, <2>2, <3>1, <3>2 DEF Placed
    <2>3. CASE layer[t] <= n /\ ~Committed(_compute_chain_id(man[t], layer[t]))
      <3>1. pc'[t] = "prepare" /\ layer'[t] = layer[t] /\ man'[t] = man[t]
        BY <1>0, <1>l, <1>5, <2>0, <2>3 DEF Stat, Goto, TypeOK
      <3> QED  BY <1>m, <2>0, <2>3, <3>1 DEF Placed
    <2> QED  BY <1>l, <2>0, <2>1, <2>2, <2>3
  <1>6. CASE Prepare(t)
    <2>0. pc[t] = "prepare"  BY <1>6 DEF Prepare
    <2>1. /\ man[t] \in Manifests
          /\ layer[t] = 1 => layer[t] - 1 = 0
      BY <2>0, AtLayer
    <2>2. /\ pc'[t] = "apply" /\ layer'[t] = layer[t] /\ man'[t] = man[t]
      BY <1>0, <1>6 DEF Prepare, Goto, TypeOK
    <2>3. draft'[t] = _compute_chain_id(man[t], layer[t] - 1)
      <3>1. CASE layer[t] = 1
        <4>1. _compute_chain_id(man[t], 0) = <<>>  BY <2>1, ChainIds
        <4>2. draft'[t] = <<>>
          <5>1. ~(layer[t] > 1)  BY <3>1
          <5> QED  BY <1>0, <1>6, <5>1 DEF Prepare, TypeOK
        <4> QED  BY <2>1, <3>1, <4>1, <4>2
      <3>2. CASE layer[t] # 1
        <4>1. PICK s \in snaps : /\ s.name = _compute_chain_id(man[t], layer[t] - 1)
                                 /\ draft' = [draft EXCEPT ![t] = s.content]
          BY <1>6, <3>2 DEF Prepare
        <4>2. s.content = s.name  BY DEF IInv, SnapshotIsItsChain
        <4> QED  BY <1>0, <4>1, <4>2 DEF TypeOK
      <3> QED  BY <3>1, <3>2
    <2> QED  BY <1>0, <1>m, <2>0, <2>1, <2>2, <2>3 DEF Placed
  <1>7. CASE Apply(t)
    <2>0. pc[t] = "apply"  BY <1>7 DEF Apply
    <2>1. /\ man[t] \in Manifests
          /\ layer[t] \in 1..Len(DiffIds[man[t]])
      BY <2>0, AtLayer
    <2>2. layer'[t] = layer[t] /\ man'[t] = man[t]  BY <1>7 DEF Apply
    <2>3. CASE DiffIds[man[t]][layer[t]] \in blobs
      <3>1. /\ pc'[t] = "commit"
            /\ draft'[t] = Append(draft[t], DiffIds[man[t]][layer[t]])
        BY <1>0, <1>7, <2>3 DEF Apply, Goto, TypeOK
      <3>2. draft'[t] = _compute_chain_id(man[t], layer[t])
        BY <1>0, <2>0, <2>1, <3>1, ChainIds DEF Placed
      <3> QED  BY <1>0, <1>m, <2>0, <2>1, <2>2, <3>1, <3>2 DEF Placed
    <2>4. CASE DiffIds[man[t]][layer[t]] \notin blobs
      <3>1. pc'[t] = "error"  BY <1>0, <1>7, <2>4 DEF Apply, Goto, TypeOK
      <3> QED  BY <1>0, <1>f, <2>2, <3>1 DEF Placed
    <2> QED  BY <2>3, <2>4
  <1>8. CASE Commit(t)
    <2> DEFINE c == _compute_chain_id(man[t], layer[t])
    <2>0. pc[t] = "commit"  BY <1>8 DEF Commit
    <2>1. /\ man[t] \in Manifests
          /\ layer[t] + 1 # 0
          /\ layer[t] + 1 <= Len(DiffIds[man[t]]) + 1
          /\ (layer[t] + 1) - 1 = layer[t]
      BY <2>0, AtLayer
    <2>2. pc'[t] = "stat" /\ layer'[t] = layer[t] + 1 /\ man'[t] = man[t]
      BY <1>0, <1>8 DEF Commit, Goto, TypeOK
    <2>3. \E s \in snaps' : s.name = _compute_chain_id(man[t], layer[t])
      <3>1. CASE Committed(c)
        BY <1>0, <1>8, <3>1, OnlyOneMoves DEF Committed, Step
      <3>2. CASE ~Committed(c)
        <4>1. [name |-> c, content |-> draft[t]] \in snaps'
          BY <1>8, <3>2 DEF Commit
        <4>2. [name |-> c, content |-> draft[t]].name = c  OBVIOUS
        <4> QED  BY <4>1, <4>2
      <3> QED  BY <3>1, <3>2
    <2>4. \E s \in snaps' : s.name = _compute_chain_id(man'[t], layer'[t] - 1)
      BY <2>1, <2>2, <2>3
    <2>5. man[t] # None  BY <1>0, <2>0 DEF Placed
    <2> HIDE DEF c
    <2> QED  BY <2>1, <2>2, <2>4, <2>5 DEF Placed, Committed
  <1>9. CASE chain_id_for_image(t)
    <2>1. /\ layer'[t] = layer[t]
          /\ pc'[t] \in {"error", "rw"}
          /\ pc'[t] = "rw" => man'[t] # None
      BY <1>0, <1>9 DEF chain_id_for_image, Goto, TypeOK
    <2> QED  BY <1>0, <1>f, <2>1 DEF Placed
  <1>10. CASE prepare_rw_snapshot(t)
    <2>1. /\ layer'[t] = layer[t] /\ man'[t] = man[t] /\ pc[t] = "rw"
          /\ pc'[t] \in {"error", "ready"}
      BY <1>0, <1>10 DEF prepare_rw_snapshot, Goto, TypeOK
    <2> QED  BY <1>0, <1>f, <2>1 DEF Placed
  <1>11. CASE CallFails(t)
    <2>1. layer'[t] = layer[t] /\ pc'[t] = "error"
      BY <1>0, <1>11 DEF CallFails, Goto, TypeOK
    <2> QED  BY <1>0, <1>f, <2>1 DEF Placed
  <1>12. CASE TaskDies(t)
    <2>1. layer'[t] = layer[t] /\ pc'[t] = "lost"
      BY <1>0, <1>12 DEF TaskDies, Goto, TypeOK
    <2> QED  BY <1>0, <1>f, <2>1 DEF Placed
  <1> QED
    BY <1>1, <1>2, <1>3, <1>4, <1>5, <1>6, <1>7, <1>8, <1>9, <1>10, <1>11, <1>12
    DEF Step

\* Every task stays placed.
LEMMA PlacedStep ==
    ASSUME IInv, [Next]_vars, NEW u \in Tasks
    PROVE  Placed(u)'
  <1>0. TypeOK /\ Placed(u)  BY DEF IInv
  <1>1. ASSUME NEW t \in Tasks, Step(t) \/ TaskDies(t)  PROVE Placed(u)'
    <2>1. CASE u = t  BY <1>1, <2>1, OwnPlace
    <2>2. CASE u # t  BY <1>0, <1>1, <2>2, OnlyOneMoves, StaysPlaced
    <2> QED  BY <2>1, <2>2
  <1>2. ASSUME NEW r \in Refs, NEW m \in Manifests, PushTag(r, m)  PROVE Placed(u)'
    BY <1>0, <1>2, StaysPlaced DEF PushTag
  <1>3. ASSUME NEW r \in Refs, RemoveImage(r)  PROVE Placed(u)'
    BY <1>0, <1>3, StaysPlaced DEF RemoveImage
  <1>4. CASE UNCHANGED vars
    BY <1>0, <1>4, StaysPlaced DEF vars
  <1> QED  BY <1>1, <1>2, <1>3, <1>4 DEF Next

\* Only Commit adds a snapshot, and the one it adds holds its chain.
LEMMA SnapshotsStep ==
    ASSUME IInv, [Next]_vars
    PROVE  /\ SnapshotIsItsChain'
           /\ \/ snaps' = snaps
              \/ \E t \in Tasks :
                    LET c == _compute_chain_id(man[t], layer[t]) IN
                    /\ pc[t] = "commit"
                    /\ snaps' = snaps \cup {[name |-> c, content |-> c]}
  <1>1. ASSUME snaps' = snaps  PROVE SnapshotIsItsChain'
    BY <1>1 DEF IInv, SnapshotIsItsChain
  <1>2. ASSUME NEW t \in Tasks, Commit(t), snaps' # snaps
        PROVE  LET c == _compute_chain_id(man[t], layer[t]) IN
               /\ pc[t] = "commit"
               /\ snaps' = snaps \cup {[name |-> c, content |-> c]}
    <2>1. draft[t] = _compute_chain_id(man[t], layer[t])
      BY <1>2 DEF IInv, Placed, Commit
    <2> QED  BY <1>2, <2>1 DEF Commit
  <1>3. ASSUME NEW t \in Tasks, Commit(t), snaps' # snaps  PROVE SnapshotIsItsChain'
    <2> DEFINE c == _compute_chain_id(man[t], layer[t])
    <2>1. snaps' = snaps \cup {[name |-> c, content |-> c]}  BY <1>2, <1>3
    <2> HIDE DEF c
    <2> QED  BY <2>1 DEF IInv, SnapshotIsItsChain
  <1>4. ASSUME NEW t \in Tasks, Step(t) \/ TaskDies(t), ~Commit(t)  PROVE snaps' = snaps
    BY <1>4 DEF Step, TaskDies, resolve_manifest, check_blobs, cri_pull, recheck_blobs,
                Stat, Prepare, Apply, chain_id_for_image, prepare_rw_snapshot, CallFails
  <1>5. ASSUME NEW r \in Refs, RemoveImage(r) \/ \E m \in Manifests : PushTag(r, m)
        PROVE  snaps' = snaps
    BY <1>5 DEF RemoveImage, PushTag
  <1>6. CASE UNCHANGED vars  BY <1>1, <1>6 DEF vars
  <1> QED  BY <1>1, <1>2, <1>3, <1>4, <1>5, <1>6 DEF Next

\* A key is in use by its task, or left behind by a task that failed or whose
\* Remove did.
LEMMA KeysStep ==
    ASSUME IInv, [Next]_vars
    PROVE  KeyLeaksOnlyOnFailure'
  <1> DEFINE Kept(k, t) == \/ pc[t] \in {"error", "lost"}
                           \/ pc[t] \in {"apply", "commit"} /\ layer[t] = k[2]
  <1> DEFINE Passed(k, t) == ~calm /\ k[2] < layer[t]
  <1>0. TypeOK /\ \A k \in active : /\ k[1] \in Tasks /\ k[2] \in Nat /\ k = <<k[1], k[2]>>
                                    /\ Kept(k, k[1]) \/ Passed(k, k[1])
    BY DEF IInv, TypeOK, KeyLeaksOnlyOnFailure
  <1>c. calm' = calm
    BY DEF Next, Step, TaskDies, resolve_manifest, check_blobs, cri_pull, recheck_blobs, Stat,
           Prepare, Apply, Commit, chain_id_for_image, prepare_rw_snapshot, CallFails,
           PushTag, RemoveImage, storeVars, vars
  <1>l. \A t \in Tasks : layer'[t] \in {layer[t], layer[t] + 1}
    <2> USE DEF TypeOK
    <2>1. ASSUME NEW u \in Tasks, Stat(u) \/ Commit(u)
          PROVE  \A t \in Tasks : layer'[t] \in {layer[t], layer[t] + 1}
      BY <1>0, <2>1 DEF Stat, Commit
    <2>2. layer' = layer \/ \E u \in Tasks : Stat(u) \/ Commit(u)
      BY DEF Next, Step, TaskDies, resolve_manifest, check_blobs, cri_pull, recheck_blobs,
             Prepare, Apply, chain_id_for_image, prepare_rw_snapshot, CallFails,
             PushTag, RemoveImage, vars
    <2> QED  BY <2>1, <2>2
  <1>p. ASSUME NEW k \in active, Passed(k, k[1])  PROVE Passed(k, k[1])'
    <2>1. /\ k[2] \in Nat /\ layer[k[1]] \in Nat
          /\ layer'[k[1]] \in {layer[k[1]], layer[k[1]] + 1}
      BY <1>0, <1>l DEF TypeOK
    <2>2. k[2] < layer'[k[1]]  BY ONLY <1>p, <2>1
    <2> QED  BY <1>c, <1>p, <2>2
  <1>1. ASSUME NEW t \in Tasks, Step(t) \/ TaskDies(t), NEW k \in active',
               k \in active => Kept(k, k[1])
        PROVE  Kept(k, k[1])' \/ Passed(k, k[1])'
    <2> USE DEF storeVars
    <2>1. CASE k[1] # t
      <3>1. k \in active
        <4>1. active' \subseteq active \cup {<<t, layer[t]>>}
          BY <1>1 DEF Step, TaskDies, resolve_manifest, check_blobs, cri_pull,
                      recheck_blobs, Stat, Prepare, Apply, Commit, chain_id_for_image,
                      prepare_rw_snapshot, CallFails
        <4> QED  BY <2>1, <4>1
      <3> QED  BY <1>0, <1>1, <2>1, <3>1, OnlyOneMoves
    <2>2. CASE k[1] = t
      <3>1. CASE resolve_manifest(t)
        BY <1>0, <1>1, <2>2, <3>1 DEF resolve_manifest, Goto, TypeOK
      <3>2. CASE check_blobs(t)
        BY <1>0, <1>1, <2>2, <3>2 DEF check_blobs, Goto, TypeOK
      <3>3. CASE cri_pull(t)
        BY <1>0, <1>1, <2>2, <3>3 DEF cri_pull, Goto, TypeOK
      <3>4. CASE recheck_blobs(t)
        BY <1>0, <1>1, <2>2, <3>4 DEF recheck_blobs, Goto, TypeOK
      <3>5. CASE Stat(t)
        BY <1>0, <1>1, <2>2, <3>5 DEF Stat, Goto, TypeOK
      <3>6. CASE Prepare(t)
        <4>1. pc[t] = "prepare" /\ pc'[t] = "apply" /\ layer'[t] = layer[t]
          BY <1>0, <3>6 DEF Prepare, Goto, TypeOK
        <4>2. k \notin active  BY <1>1, <2>2, <4>1
        <4>3. k = <<t, layer[t]>>  BY <1>1, <3>6, <4>2 DEF Prepare
        <4> QED  BY <2>2, <4>1, <4>3
      <3>7. CASE Apply(t)
        BY <1>0, <1>1, <2>2, <3>7 DEF Apply, Goto, TypeOK
      <3>8. CASE Commit(t)
        <4>1. k \in active /\ pc[t] = "commit"  BY <1>1, <3>8 DEF Commit
        <4>2. layer[t] = k[2]  BY <1>1, <2>2, <4>1
        <4>3. k = <<t, layer[t]>>  BY <1>0, <2>2, <4>1, <4>2
        <4>4. ~calm  BY <1>1, <3>8, <4>3 DEF Commit
        <4>5. layer'[t] = layer[t] + 1 /\ layer[t] \in Nat  BY <1>0, <3>8 DEF Commit, TypeOK
        <4>6. k[2] < layer'[t]  BY ONLY <4>2, <4>5
        <4> QED  BY <1>c, <2>2, <4>4, <4>6
      <3>9. CASE chain_id_for_image(t)
        BY <1>0, <1>1, <2>2, <3>9 DEF chain_id_for_image, Goto, TypeOK
      <3>10. CASE prepare_rw_snapshot(t)
        BY <1>0, <1>1, <2>2, <3>10 DEF prepare_rw_snapshot, Goto, TypeOK
      <3>11. CASE CallFails(t)
        BY <1>0, <1>1, <2>2, <3>11 DEF CallFails, Goto, TypeOK
      <3>12. CASE TaskDies(t)
        BY <1>0, <1>1, <2>2, <3>12 DEF TaskDies, Goto, TypeOK
      <3> QED
        BY <1>1, <3>1, <3>2, <3>3, <3>4, <3>5, <3>6, <3>7, <3>8, <3>9, <3>10, <3>11,
           <3>12 DEF Step
    <2> QED  BY <2>1, <2>2
  <1>2. ASSUME active' = active, pc' = pc, layer' = layer  PROVE KeyLeaksOnlyOnFailure'
    BY <1>0, <1>2, <1>c DEF KeyLeaksOnlyOnFailure
  <1>3. ASSUME NEW t \in Tasks, Step(t) \/ TaskDies(t)  PROVE KeyLeaksOnlyOnFailure'
    <2>1. \A k \in active' : Kept(k, k[1])' \/ Passed(k, k[1])'
      BY <1>0, <1>1, <1>3, <1>p
    <2> QED  BY <2>1 DEF KeyLeaksOnlyOnFailure
  <1>4. ASSUME NEW r \in Refs, RemoveImage(r) \/ \E m \in Manifests : PushTag(r, m)
        PROVE  KeyLeaksOnlyOnFailure'
    BY <1>2, <1>4 DEF RemoveImage, PushTag
  <1>5. CASE UNCHANGED vars  BY <1>2, <1>5 DEF vars
  <1> QED  BY <1>3, <1>4, <1>5 DEF Next

\* Only prepare_rw_snapshot makes a task ready, on the chain of all layers.
LEMMA RootfsStep ==
    ASSUME IInv, [Next]_vars
    PROVE  RootfsIsWholeImage'
  <1>0. TypeOK /\ RootfsIsWholeImage  BY DEF IInv
  <1>1. ASSUME NEW t \in Tasks, Step(t) \/ TaskDies(t), NEW u \in Tasks, pc'[u] = "ready"
        PROVE  rootfs'[u] = DiffIds[man'[u]] /\ man'[u] # None
    <2>1. CASE u # t
      BY <1>0, <1>1, <2>1, OnlyOneMoves DEF RootfsIsWholeImage
    <2>2. CASE u = t
      <3>1. prepare_rw_snapshot(t)
        BY <1>0, <1>1, <2>2
        DEF Step, TaskDies, resolve_manifest, check_blobs, cri_pull, recheck_blobs, Stat,
            Prepare, Apply, Commit, chain_id_for_image, CallFails, Goto, TypeOK, Working
      <3>2. man[t] \in Manifests
        BY <3>1 DEF IInv, TypeOK, Placed, prepare_rw_snapshot
      <3>3. _compute_chain_id(man[t], Len(DiffIds[man[t]])) = DiffIds[man[t]]
        BY <3>2, ChainIds
      <3>4. \E s \in snaps : s.name = DiffIds[man[t]] /\ rootfs'[t] = s.content
        BY <1>0, <1>1, <2>2, <3>1, <3>3 DEF prepare_rw_snapshot, Goto, TypeOK
      <3>5. man' = man  BY <3>1 DEF prepare_rw_snapshot
      <3> QED
        BY <2>2, <3>2, <3>4, <3>5, UnpackAssumption DEF IInv, SnapshotIsItsChain
    <2> QED  BY <2>1, <2>2
  <1>2. ASSUME NEW t \in Tasks, Step(t) \/ TaskDies(t)  PROVE RootfsIsWholeImage'
    BY <1>1, <1>2 DEF RootfsIsWholeImage
  <1>3. ASSUME NEW r \in Refs, RemoveImage(r) \/ \E m \in Manifests : PushTag(r, m)
        PROVE  RootfsIsWholeImage'
    BY <1>0, <1>3 DEF RemoveImage, PushTag, RootfsIsWholeImage
  <1>4. CASE UNCHANGED vars  BY <1>0, <1>4 DEF vars, RootfsIsWholeImage
  <1> QED  BY <1>2, <1>3, <1>4 DEF Next

\* The invariant holds at the start.
LEMMA InitIInv == Init => IInv
  <1> SUFFICES ASSUME Init  PROVE IInv
    OBVIOUS
  <1>1. TypeOK
    <2>1. registry \in [Refs -> Manifests] /\ ref \in [Tasks -> Refs]
      BY UnpackAssumption DEF Init
    <2>2. /\ image \in [Refs -> Manifests \cup {None}] /\ snaps = {} /\ active = {}
          /\ man \in [Tasks -> Manifests \cup {None}] /\ layer \in [Tasks -> Nat]
          /\ pc \in [Tasks -> Working \cup {"ready", "error", "lost"}]
      BY DEF Init, Working
    <2> DEFINE S == Seq(Layers)
    <2>3. <<>> \in S  OBVIOUS
    <2> HIDE DEF S
    <2>4. draft \in [Tasks -> S] /\ rootfs \in [Tasks -> S \cup {None}]
      BY <2>3 DEF Init
    <2> QED  BY <2>1, <2>2, <2>4 DEF Init, TypeOK, S
  <1>2. ASSUME NEW t \in Tasks  PROVE Placed(t)
    BY DEF Init, Placed
  <1> QED
    BY <1>1, <1>2
    DEF Init, IInv, SnapshotIsItsChain, KeyLeaksOnlyOnFailure, RootfsIsWholeImage

\* The invariant survives every step.
LEMMA StepIInv == IInv /\ [Next]_vars => IInv'
  BY TypesStep, PlacedStep, SnapshotsStep, KeysStep, RootfsStep DEF IInv

\* The invariant holds for as long as the node runs.
LEMMA AlwaysIInv == Spec => []IInv
  BY InitIInv, StepIInv, PTL DEF Spec

\* Every variable keeps its type, for any number of tasks, references and images.
THEOREM UnpackTypesHold == Spec => []TypeOK
  <1>1. IInv => TypeOK  BY DEF IInv
  <1> QED  BY <1>1, AlwaysIInv, PTL

\* Whatever tasks race through Stat, Prepare, Apply and Commit with layers in
\* common, and wherever they fail, a committed snapshot holds its chain.
THEOREM SnapshotsAreTheirChains == Spec => []SnapshotIsItsChain
  <1>1. IInv => SnapshotIsItsChain  BY DEF IInv
  <1> QED  BY <1>1, AlwaysIInv, PTL

\* No container ever gets part of an image as its root filesystem.
THEOREM RootfsAreWholeImages == Spec => []RootfsIsWholeImage
  <1>1. IInv => RootfsIsWholeImage  BY DEF IInv
  <1> QED  BY <1>1, AlwaysIInv, PTL

\* grpc_unpack disposes of every key it prepared unless its task failed, or the
\* Remove did that follows ALREADY_EXISTS (_snap_remove_active swallows that
\* failure and the task goes on), or the layer is under way; while nothing
\* fails, no key stays.
THEOREM KeysLeakOnlyOnFailure == Spec => []KeyLeaksOnlyOnFailure
  <1>1. IInv => KeyLeaksOnlyOnFailure  BY DEF IInv
  <1> QED  BY <1>1, AlwaysIInv, PTL

\* A step of the tasks commits one layer on a committed chain, or none.
LEMMA StepRefines ==
    IInv /\ [Next]_vars => [Chains!Next]_{s.name : s \in snaps}
  <1> SUFFICES ASSUME IInv, [Next]_vars, snaps' # snaps
               PROVE  Chains!Next
    BY SnapshotsStep
  <1>1. PICK t \in Tasks :
            LET c == _compute_chain_id(man[t], layer[t]) IN
            /\ pc[t] = "commit"
            /\ snaps' = snaps \cup {[name |-> c, content |-> c]}
    BY SnapshotsStep
  <1> DEFINE base == _compute_chain_id(man[t], layer[t] - 1)
  <1> DEFINE d == DiffIds[man[t]][layer[t]]
  <1>2. /\ man[t] \in Manifests /\ layer[t] \in 1..Len(DiffIds[man[t]])
        /\ layer[t] = 1 => layer[t] - 1 = 0
    BY <1>1, AtLayer
  <1>3. /\ d \in Layers /\ _compute_chain_id(man[t], layer[t]) = Append(base, d)
        /\ layer[t] = 1 => base = <<>>
    BY <1>2, ChainIds
  <1>4. layer[t] = 1 \/ Committed(base)  BY <1>1 DEF IInv, Placed
  <1> HIDE DEF base, d
  <1>5. base = <<>> \/ base \in {s.name : s \in snaps}
    BY <1>3, <1>4 DEF Committed
  <1>6. {s.name : s \in snaps'} = {s.name : s \in snaps} \cup {Append(base, d)}
    BY <1>1, <1>3
  <1>7. \E e \in Layers : Chains!Extend(base, e)
    BY <1>3, <1>5, <1>6 DEF Chains!Extend
  <1>8. base \in {s.name : s \in snaps} \cup {<<>>}  BY <1>5
  <1> QED  BY <1>7, <1>8, Zenon DEF Chains!Next

\* The unpackers of a node together implement a store of layer chains that only
\* grows, one layer at a time, on chains that are already there.
THEOREM UnpackersImplementChainStore == Spec => ImplementsChainStore
  <1>1. Init => Chains!Init  BY DEF Init, Chains!Init
  <1> QED  BY <1>1, AlwaysIInv, StepRefines, PTL DEF Spec, Chains!Spec, ImplementsChainStore

-----------------------------------------------------------------------------
\* What holds of a node on which nothing fails: images are those of the
\* registry, no task failed, and blobs and snapshots a task saw are still there.
Quiet ==
    /\ \A r \in Refs : image[r] = registry[r]
    /\ \A t \in Tasks :
        /\ pc[t] \notin {"error", "lost"}
        /\ man[t] # None => man[t] = registry[ref[t]]
        /\ pc[t] \in {"recheck", "stat", "prepare", "apply", "commit"} =>
             LayersOf(man[t]) \subseteq blobs
        /\ pc[t] = "rw" => Committed(DiffIds[man[t]])

\* A step on such a node keeps it so.
LEMMA QuietStep ==
    ASSUME \A m \in Manifests : DiffIds[m] # <<>>,
           IInv, Quiet, calm, [Next]_vars
    PROVE  Quiet'
  <1>0. TypeOK /\ \A u \in Tasks : Placed(u)  BY DEF IInv
  <1>r. \A q \in Refs : registry[q] \in Manifests /\ registry[q] # None
    BY <1>0, UnpackAssumption DEF TypeOK
  <1>1. ASSUME NEW t \in Tasks, Step(t) \/ TaskDies(t)  PROVE Quiet'
    <2> DEFINE OwnQuiet ==
                  /\ pc'[t] \notin {"error", "lost"}
                  /\ man'[t] # None => man'[t] = registry[ref[t]]
                  /\ pc'[t] \in {"recheck", "stat", "prepare", "apply", "commit"} =>
                       LayersOf(man'[t]) \subseteq blobs'
                  /\ pc'[t] = "rw" => \E s \in snaps' : s.name = DiffIds[man'[t]]
    <2>0. ref[t] \in Refs  BY <1>0 DEF TypeOK
    <2>a. registry' = registry /\ ref' = ref
      BY <1>1 DEF Step, TaskDies, resolve_manifest, check_blobs, cri_pull, recheck_blobs,
                  Stat, Prepare, Apply, Commit, chain_id_for_image, prepare_rw_snapshot,
                  CallFails, storeVars
    <2>b. blobs \subseteq blobs'
      BY <1>1 DEF Step, TaskDies, resolve_manifest, check_blobs, cri_pull, recheck_blobs,
                  Stat, Prepare, Apply, Commit, chain_id_for_image, prepare_rw_snapshot,
                  CallFails, storeVars
    <2>c. \A q \in Refs : image'[q] = registry[q]
      <3>1. CASE cri_pull(t)  BY <1>0, <3>1 DEF cri_pull, Quiet, TypeOK
      <3>2. CASE ~cri_pull(t)
        <4>1. image' = image
          BY <1>1, <3>2
          DEF Step, TaskDies, resolve_manifest, check_blobs, recheck_blobs, Stat, Prepare,
              Apply, Commit, chain_id_for_image, prepare_rw_snapshot, CallFails, storeVars
        <4> QED  BY <4>1 DEF Quiet
      <3> QED  BY <3>1, <3>2
    <2>d. OwnQuiet => Quiet'
      <3>1. SUFFICES ASSUME OwnQuiet, NEW u \in Tasks \ {t}
                     PROVE  /\ pc'[u] \notin {"error", "lost"}
                            /\ man'[u] # None => man'[u] = registry[ref[u]]
                            /\ pc'[u] \in {"recheck", "stat", "prepare", "apply", "commit"}
                                 => LayersOf(man'[u]) \subseteq blobs'
                            /\ pc'[u] = "rw" => \E s \in snaps' : s.name = DiffIds[man'[u]]
        BY <2>a, <2>c DEF Quiet, Committed, LayersOf
      <3>2. /\ pc'[u] = pc[u] /\ man'[u] = man[u] /\ snaps \subseteq snaps'
        BY <1>0, <1>1, OnlyOneMoves
      <3> QED  BY <2>b, <3>2 DEF Quiet, Committed
    <2> HIDE DEF OwnQuiet
    <2>1. CASE resolve_manifest(t)
      <3>1. image[ref[t]] = registry[ref[t]]  BY <2>0 DEF Quiet
      <3>2. pc'[t] = "check" /\ man'[t] = registry[ref[t]]
        BY <1>0, <1>r, <2>0, <2>1, <3>1 DEF resolve_manifest, Goto, TypeOK
      <3> QED  BY <2>d, <3>2 DEF OwnQuiet
    <2>2. CASE check_blobs(t)
      <3>1. /\ man'[t] = man[t] /\ blobs' = blobs
            /\ \/ pc'[t] = "stat" /\ LayersOf(man[t]) \subseteq blobs
               \/ pc'[t] = "pull"
        BY <1>0, <2>2 DEF check_blobs, Goto, TypeOK, storeVars
      <3> QED  BY <2>d, <3>1 DEF OwnQuiet, Quiet
    <2>3. CASE cri_pull(t)
      <3>1. /\ man'[t] = registry[ref[t]] /\ pc'[t] = "recheck"
            /\ LayersOf(registry[ref[t]]) \subseteq blobs'
        BY <1>0, <2>3 DEF cri_pull, Goto, TypeOK
      <3> QED  BY <2>d, <3>1 DEF OwnQuiet
    <2>4. CASE recheck_blobs(t)
      <3>1. pc[t] = "recheck" /\ LayersOf(man[t]) \subseteq blobs
        BY <2>4 DEF recheck_blobs, Quiet
      <3>2. man'[t] = man[t] /\ blobs' = blobs /\ pc'[t] = "stat"
        BY <1>0, <2>4, <3>1 DEF recheck_blobs, Goto, TypeOK, storeVars
      <3> QED  BY <2>d, <3>1, <3>2 DEF OwnQuiet, Quiet
    <2>5. CASE Stat(t)
      <3>1. /\ man'[t] = man[t] /\ blobs' = blobs /\ pc'[t] \in {"stat", "chain", "prepare"}
            /\ pc[t] = "stat"
        BY <1>0, <2>5 DEF Stat, Goto, TypeOK, storeVars
      <3> QED  BY <2>d, <3>1 DEF OwnQuiet, Quiet
    <2>6. CASE Prepare(t)
      <3>1. /\ man'[t] = man[t] /\ blobs' = blobs /\ pc'[t] = "apply"
            /\ pc[t] = "prepare"
        BY <1>0, <2>6 DEF Prepare, Goto, TypeOK, storeVars
      <3> QED  BY <2>d, <3>1 DEF OwnQuiet, Quiet
    <2>7. CASE Apply(t)
      <3>0. pc[t] = "apply"  BY <2>7 DEF Apply
      <3>1. layer[t] \in 1..Len(DiffIds[man[t]])  BY <3>0, AtLayer
      <3>2. DiffIds[man[t]][layer[t]] \in blobs  BY <3>0, <3>1 DEF Quiet, LayersOf
      <3>3. man'[t] = man[t] /\ blobs' = blobs /\ pc'[t] = "commit"
        BY <1>0, <2>7, <3>2 DEF Apply, Goto, TypeOK, storeVars
      <3> QED  BY <2>d, <3>0, <3>3 DEF OwnQuiet, Quiet
    <2>8. CASE Commit(t)
      <3>1. /\ man'[t] = man[t] /\ blobs' = blobs /\ pc'[t] = "stat"
            /\ pc[t] = "commit"
        BY <1>0, <2>8 DEF Commit, Goto, TypeOK, storeVars
      <3> QED  BY <2>d, <3>1 DEF OwnQuiet, Quiet
    <2>9. CASE chain_id_for_image(t)
      <3>0. pc[t] = "chain"  BY <2>9 DEF chain_id_for_image
      <3>1. image[ref[t]] = registry[ref[t]]  BY <2>0 DEF Quiet
      <3>2. /\ image[ref[t]] # None /\ DiffIds[image[ref[t]]] # <<>>
        BY <1>r, <2>0, <3>1
      <3>3. man[t] # None /\ man[t] = registry[ref[t]]
        BY <1>0, <3>0 DEF Quiet, Placed
      <3>4. Committed(DiffIds[registry[ref[t]]])
        BY <1>0, <1>r, <2>0, <3>0, <3>3 DEF Placed
      <3>5. /\ pc'[t] = "rw" /\ man'[t] = registry[ref[t]] /\ snaps' = snaps
        BY <1>0, <2>9, <3>1, <3>2 DEF chain_id_for_image, Goto, TypeOK
      <3> QED  BY <2>d, <3>4, <3>5 DEF OwnQuiet, Committed
    <2>10. CASE prepare_rw_snapshot(t)
      <3>0. pc[t] = "rw"  BY <2>10 DEF prepare_rw_snapshot
      <3>1. man[t] \in Manifests  BY <1>0, <3>0 DEF TypeOK, Placed
      <3>2. Committed(_compute_chain_id(man[t], Len(DiffIds[man[t]])))
        BY <3>0, <3>1, ChainIds DEF Quiet
      <3>3. pc'[t] = "ready" /\ man'[t] = man[t]
        BY <1>0, <2>10, <3>2 DEF prepare_rw_snapshot, Goto, TypeOK
      <3> QED  BY <2>d, <3>3 DEF OwnQuiet, Quiet
    <2>11. ~CallFails(t) /\ ~TaskDies(t)  BY DEF CallFails, TaskDies
    <2> QED
      BY <1>1, <2>1, <2>2, <2>3, <2>4, <2>5, <2>6, <2>7, <2>8, <2>9, <2>10, <2>11
      DEF Step
  <1>2. ~\E r \in Refs : RemoveImage(r) \/ \E m \in Manifests : PushTag(r, m)
    BY DEF RemoveImage, PushTag
  <1>3. CASE UNCHANGED vars
    BY <1>3 DEF vars, Quiet, Committed, LayersOf
  <1> QED  BY <1>1, <1>2, <1>3 DEF Next

\* The node is quiet at the start when it knows every reference.
LEMMA QuietInit ==
    ASSUME KnownRefs = Refs, Init, calm
    PROVE  Quiet
  <1>1. registry \in [Refs -> Manifests]  BY UnpackAssumption DEF Init
  <1>2. \A r \in Refs : image[r] = registry[r]
    BY <1>1 DEF Init
  <1> QED  BY <1>2 DEF Init, Quiet

\* Whether anything may fail is settled at the start.
LEMMA CalmStays == [Next]_vars => calm' = calm
  <1> SUFFICES ASSUME [Next]_vars  PROVE calm' = calm
    OBVIOUS
  <1>1. ASSUME NEW t \in Tasks, Step(t) \/ TaskDies(t)  PROVE calm' = calm
    BY <1>1 DEF Step, TaskDies, resolve_manifest, check_blobs, cri_pull, recheck_blobs,
                Stat, Prepare, Apply, Commit, chain_id_for_image, prepare_rw_snapshot,
                CallFails, storeVars
  <1>2. ASSUME NEW r \in Refs, RemoveImage(r) \/ \E m \in Manifests : PushTag(r, m)
        PROVE  calm' = calm
    BY <1>2 DEF RemoveImage, PushTag
  <1>3. CASE UNCHANGED vars  BY <1>3 DEF vars
  <1> QED  BY <1>1, <1>2, <1>3 DEF Next

\* When containerd resolves every reference and no image is empty, unpacking
\* succeeds on a node where nothing fails, however many tasks race for layers.
THEOREM UnpackingSucceeds ==
    ASSUME KnownRefs = Refs, \A m \in Manifests : DiffIds[m] # <<>>
    PROVE  Spec => []EnsureUnpackedSucceeds
  <1> DEFINE CalmIsQuiet == calm => Quiet
  <1>1. Init => CalmIsQuiet  BY QuietInit
  <1>2. IInv /\ CalmIsQuiet /\ [Next]_vars => CalmIsQuiet'
    BY QuietStep, CalmStays
  <1>3. CalmIsQuiet => EnsureUnpackedSucceeds  BY DEF Quiet, EnsureUnpackedSucceeds
  <1> QED  BY <1>1, <1>2, <1>3, AlwaysIInv, PTL DEF Spec

-----------------------------------------------------------------------------
(* What EveryTaskEnds rests on beside fairness: a task always finds what its *)
(* next call needs, and no call, of its own or of another task, gives it more *)
(* calls to make.                                                            *)

Loop == {"stat", "prepare", "apply", "commit"}

Stage(t) ==
    CASE pc[t] = "resolve" -> 6
      [] pc[t] = "check"   -> 5
      [] pc[t] = "pull"    -> 4
      [] pc[t] = "recheck" -> 3
      [] pc[t] \in Loop    -> 2
      [] pc[t] = "chain"   -> 1
      [] pc[t] = "rw"      -> 0
      [] pc[t] \in {"ready", "error", "lost"} -> -1

\* In the loop: the calls of the layers from here on.
CallsLeft(t) ==
    4 * (Len(DiffIds[man[t]]) + 1 - layer[t])
        + CASE pc[t] = "stat"    -> 3
            [] pc[t] = "prepare" -> 2
            [] pc[t] = "apply"   -> 1
            [] pc[t] = "commit"  -> 0

RunsDown(t) ==
    \/ Stage(t)' < Stage(t)
    \/ pc[t] \in Loop /\ pc'[t] \in Loop /\ CallsLeft(t)' < CallsLeft(t)

\* A live task is never left without a possible call: the snapshot under its
\* layer is there when Prepare asks for it, and the calls left are a natural
\* number.
NeverStuck ==
    \A t \in Tasks :
        /\ pc[t] = "prepare" /\ layer[t] > 1 =>
             Committed(_compute_chain_id(man[t], layer[t] - 1))
        /\ pc[t] \in Loop => CallsLeft(t) \in Nat

\* A call, or a death, brings its task nearer to its end, whether the layer was
\* found, built, or lost to another task, and nobody else's call moves it back:
\* the loop of grpc_unpack is never fed.
TasksRunDown ==
    [][\A t \in Tasks :
          /\ Step(t) \/ TaskDies(t) => RunsDown(t)
          /\ RunsDown(t) \/ UNCHANGED <<pc[t], man[t], layer[t]>>]_vars

\* In the loop, the layer of a task is one of its image or the next.
LEMMA InLoop ==
    ASSUME IInv, NEW t \in Tasks, pc[t] \in Loop
    PROVE  /\ layer[t] \in Nat /\ Len(DiffIds[man[t]]) \in Nat
           /\ layer[t] <= Len(DiffIds[man[t]]) + 1
           /\ CallsLeft(t) \in Nat
  <1>1. man[t] \in Manifests /\ layer[t] \in Nat
    BY DEF IInv, Placed, TypeOK, Loop
  <1>2. Len(DiffIds[man[t]]) \in Nat  BY <1>1, ChainIds
  <1>3. layer[t] <= Len(DiffIds[man[t]]) + 1
    BY DEF IInv, Placed, Loop
  <1>4. 4 * (Len(DiffIds[man[t]]) + 1 - layer[t]) \in Nat
    BY <1>1, <1>2, <1>3
  <1> QED  BY <1>1, <1>2, <1>3, <1>4 DEF CallsLeft, Loop

\* The loop over the layers comes nearer to its end with each call.
LEMMA LoopRunsDown ==
    ASSUME IInv, IInv', NEW t \in Tasks, Stat(t) \/ Prepare(t) \/ Apply(t) \/ Commit(t)
    PROVE  RunsDown(t)
  <1> DEFINE n == Len(DiffIds[man[t]])
  <1> HIDE DEF n
  <1>0. TypeOK  BY DEF IInv
  <1>1. pc[t] \in Loop  BY DEF Stat, Prepare, Apply, Commit, Loop
  <1>2. layer[t] \in Nat /\ n \in Nat /\ man'[t] = man[t] /\ n' = n
    <2>1. man' = man  BY DEF Stat, Prepare, Apply, Commit
    <2> QED  BY <1>1, <2>1, InLoop DEF n
  <1>3. CASE pc'[t] \notin Loop
    <2>1. pc'[t] \in {"chain", "error"}
      BY <1>0, <1>3 DEF Stat, Prepare, Apply, Commit, Loop, Goto, TypeOK
    <2> QED  BY <1>1, <2>1 DEF RunsDown, Stage, Loop
  <1>4. CASE pc'[t] \in Loop
    <2>1. \/ pc[t] = "stat" /\ pc'[t] = "stat" /\ layer'[t] = layer[t] + 1
          \/ pc[t] = "stat" /\ pc'[t] = "prepare" /\ layer'[t] = layer[t]
          \/ pc[t] = "prepare" /\ pc'[t] = "apply" /\ layer'[t] = layer[t]
          \/ pc[t] = "apply" /\ pc'[t] = "commit" /\ layer'[t] = layer[t]
          \/ pc[t] = "commit" /\ pc'[t] = "stat" /\ layer'[t] = layer[t] + 1
      BY <1>0, <1>4 DEF Stat, Prepare, Apply, Commit, Loop, Goto, TypeOK
    <2>2. /\ pc[t] = "stat" => CallsLeft(t) = 4 * (n + 1 - layer[t]) + 3
          /\ pc[t] = "prepare" => CallsLeft(t) = 4 * (n + 1 - layer[t]) + 2
          /\ pc[t] = "apply" => CallsLeft(t) = 4 * (n + 1 - layer[t]) + 1
          /\ pc[t] = "commit" => CallsLeft(t) = 4 * (n + 1 - layer[t]) + 0
      BY DEF CallsLeft, n
    <2>3. /\ pc'[t] = "stat" => CallsLeft(t)' = 4 * (n + 1 - layer'[t]) + 3
          /\ pc'[t] = "prepare" => CallsLeft(t)' = 4 * (n + 1 - layer'[t]) + 2
          /\ pc'[t] = "apply" => CallsLeft(t)' = 4 * (n + 1 - layer'[t]) + 1
          /\ pc'[t] = "commit" => CallsLeft(t)' = 4 * (n + 1 - layer'[t]) + 0
      BY <1>2 DEF CallsLeft, n
    <2>4. CallsLeft(t)' < CallsLeft(t)
      BY <1>2, <2>1, <2>2, <2>3
    <2> QED  BY <1>1, <1>4, <2>4 DEF RunsDown
  <1> QED  BY <1>3, <1>4

\* So does every other call, and a death.
LEMMA StepRunsDown ==
    ASSUME IInv, IInv', NEW t \in Tasks, Step(t) \/ TaskDies(t)
    PROVE  RunsDown(t)
  <1>0. TypeOK  BY DEF IInv
  <1> USE <1>0 DEF TypeOK, Goto, RunsDown, Stage, Loop
  <1>1. CASE resolve_manifest(t)     BY <1>1 DEF resolve_manifest
  <1>2. CASE check_blobs(t)          BY <1>2 DEF check_blobs
  <1>3. CASE cri_pull(t)             BY <1>3 DEF cri_pull
  <1>4. CASE recheck_blobs(t)        BY <1>4 DEF recheck_blobs
  <1>5. CASE Stat(t) \/ Prepare(t) \/ Apply(t) \/ Commit(t)
    BY <1>5, LoopRunsDown
  <1>6. CASE chain_id_for_image(t)   BY <1>6 DEF chain_id_for_image
  <1>7. CASE prepare_rw_snapshot(t)  BY <1>7 DEF prepare_rw_snapshot
  <1>8. CASE CallFails(t)            BY <1>8 DEF CallFails, Working
  <1>9. CASE TaskDies(t)             BY <1>9 DEF TaskDies, Working
  <1> QED
    BY <1>1, <1>2, <1>3, <1>4, <1>5, <1>6, <1>7, <1>8, <1>9 DEF Step

\* No task is ever at a call that waits for something it was promised: Prepare
\* finds the parent that Stat or Commit left there.
THEOREM TasksAreNeverStuck == Spec => []NeverStuck
  <1>1. IInv => NeverStuck
    BY InLoop DEF IInv, Placed, NeverStuck
  <1> QED  BY <1>1, AlwaysIInv, PTL

\* Every call of grpc_unpack and around it brings its task nearer to its end,
\* for any number of tasks that race for the same layers: with the fairness of
\* FairSpec, no task can run for ever.
THEOREM TasksAlwaysRunDown == Spec => TasksRunDown
  <1> DEFINE Falls == \A t \in Tasks :
                          /\ Step(t) \/ TaskDies(t) => RunsDown(t)
                          /\ RunsDown(t) \/ UNCHANGED <<pc[t], man[t], layer[t]>>
  <1>1. IInv /\ IInv' /\ [Next]_vars => [Falls]_vars
    <2> SUFFICES ASSUME IInv, IInv', Next, NEW t \in Tasks
                 PROVE  /\ Step(t) \/ TaskDies(t) => RunsDown(t)
                        /\ RunsDown(t) \/ UNCHANGED <<pc[t], man[t], layer[t]>>
      OBVIOUS
    <2>1. Step(t) \/ TaskDies(t) => RunsDown(t)  BY StepRunsDown
    <2>2. RunsDown(t) \/ UNCHANGED <<pc[t], man[t], layer[t]>>
      <3>1. ASSUME NEW u \in Tasks, Step(u) \/ TaskDies(u), u # t
            PROVE  UNCHANGED <<pc[t], man[t], layer[t]>>
        BY <3>1, OnlyOneMoves DEF IInv
      <3>2. ASSUME NEW r \in Refs, RemoveImage(r) \/ \E m \in Manifests : PushTag(r, m)
            PROVE  UNCHANGED <<pc[t], man[t], layer[t]>>
        BY <3>2 DEF RemoveImage, PushTag
      <3> QED  BY <2>1, <3>1, <3>2 DEF Next
    <2> QED  BY <2>1, <2>2
  <1>2. IInv /\ [Next]_vars => IInv'  BY StepIInv
  <1>3. IInv /\ [Next]_vars => [Falls]_vars  BY <1>1, <1>2
  <1>4. []IInv /\ [][Next]_vars => [][Falls]_vars  BY <1>3, PTL
  <1> HIDE DEF Falls
  <1>5. Spec => [][Falls]_vars  BY <1>4, AlwaysIInv, PTL DEF Spec
  <1> QED  BY <1>5 DEF Falls, TasksRunDown
=============================================================================

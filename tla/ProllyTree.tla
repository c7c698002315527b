----------------------------- MODULE ProllyTree -----------------------------
(***************************************************************************)
(* ProllyTree of src/src/tree.rs over the node operations of ProllyNode:   *)
(* the root in memory, the node storage and the root digest the stored     *)
(* configuration names.  One action per operation of the trait; an action  *)
(* is the whole recursion through the nodes, as the tree is not shared.    *)
(***************************************************************************)
EXTENDS ProllyNode

CONSTANTS Keys,      \* a set of numbers: the order of byte strings
          Values,
          Batches,   \* the arguments of insert_batch, maps from keys to values
          Enabled,   \* the names of the operations the client calls
          Kept,      \* keys the client inserts before all others and never deletes
          MergeResolvers, \* the resolvers merge_trees is called with
          MaxOps     \* bound on the number of operations

VARIABLES root,      \* ProllyTree::root
          store,     \* ProllyTree::storage, the nodes by digest
          savedRoot, \* root_hash in the stored "tree_config": <<>> or <<digest>>
          roots,     \* history: every digest persist_root has given out
          view,      \* what find shows now, key by key
          savedView, \* what find shows in a tree opened from savedRoot
          strayed,   \* history: a child has joined another node than its parent dropped
          op,        \* the last operation, its argument and its answer
          ops        \* number of operations so far

vars == <<root, store, savedRoot, roots, view, savedView, strayed, op, ops>>

(***************************************************************************)
(* Keys have an order; a value is not taken for the digest of a node; a    *)
(* batch has finitely many pairs.                                          *)
(***************************************************************************)
ASSUME TreeAssumption ==
    /\ Keys \subseteq Nat
    /\ \A v \in Values : DOMAIN v # 1..2
    /\ \A batch \in Batches :
         /\ IsFiniteSet(DOMAIN batch) /\ DOMAIN batch \subseteq Keys
         /\ \A k \in DOMAIN batch : batch[k] \in Values
    /\ MaxOps \in Nat

-----------------------------------------------------------------------------
(* The recursions through the nodes                                        *)

(* A digest contains the digests below it, so a path through the storage   *)
(* meets each stored node once at most: f[d] of a recursion below is its   *)
(* answer where d more calls are left, and Cardinality(DOMAIN st) are      *)
(* always enough.                                                          *)

(* Does the descent go on to child i?                                      *)
Leads(n, i, st) == ~n.leaf /\ n.vals # <<>> /\ n.vals[i] \in DOMAIN st

(* below are the answers for the children, by the child's digest and the   *)
(* parent's.                                                               *)
Answer(n, st) == [node |-> n, st |-> st, joined |-> {}, strayed |-> FALSE, deleted |-> FALSE]

Astray(n, i, child) == child.strayed \/ child.joined # Dropped(n, i, child.node)

(* Node::insert.  A child that is not in the storage is reported and the   *)
(* node balanced all the same.                                             *)
InsertAnswer(balanced, parent, lost) ==
    [node |-> CollapseRoot(balanced.node, balanced.st, parent),
     st |-> balanced.st,
     joined |-> balanced.joined,
     strayed |-> lost,
     deleted |-> FALSE]

InsertVia(n, key, val, st, parent, below) ==
    LET i == ChildIndex(n, key)
        child == below[<<n.vals[i], Hash(n)>>]
        leads == Leads(n, i, st)
        put == IF n.leaf THEN PutInLeaf(n, key, val)
               ELSE IF leads THEN ReplaceChild(n, i, child.node) ELSE n
        under == IF leads THEN InsertNode(child.st, child.node) ELSE st
    IN  InsertAnswer(Balance(put, under, parent), parent, leads /\ Astray(n, i, child))

NodeInsert(n, key, val, st) ==
    LET insert[d \in 0..Cardinality(DOMAIN st)] ==
          [call \in (DOMAIN st) \X (DOMAIN st \cup {Hash(n)}) |->
             LET child == GetNode(st, call[1])
             IN  IF d = 0 THEN Answer(child, st)
                 ELSE InsertVia(child, key, val, st, <<call[2]>>, insert[d - 1])]
    IN  InsertVia(n, key, val, st, <<>>, insert[Cardinality(DOMAIN st)])

(* Node::delete.  The internal nodes are neither balanced nor collapsed.   *)
DeleteAnswer(balanced) ==
    [node |-> balanced.node, st |-> balanced.st, joined |-> balanced.joined,
     strayed |-> FALSE, deleted |-> TRUE]

DeleteVia(n, key, st, parent, below) ==
    LET at == {j \in 1..Len(n.keys) : n.keys[j] = key}
        removed == RemovePair(n, Min(at))
        i == ChildIndex(n, key)
        child == below[<<n.vals[i], Hash(n)>>]
    IN  IF n.leaf
        THEN IF at = {} THEN Answer(n, st)
             ELSE DeleteAnswer(Balance(removed, InsertNode(st, removed), parent))
        ELSE IF Leads(n, i, st) /\ child.deleted
        THEN [node |-> ReplaceChild(n, i, child.node), st |-> InsertNode(child.st, child.node),
              joined |-> {}, strayed |-> Astray(n, i, child), deleted |-> TRUE]
        ELSE Answer(n, st)

NodeDelete(n, key, st) ==
    LET delete[d \in 0..Cardinality(DOMAIN st)] ==
          [call \in (DOMAIN st) \X (DOMAIN st \cup {Hash(n)}) |->
             LET child == GetNode(st, call[1])
             IN  IF d = 0 THEN Answer(child, st)
                 ELSE DeleteVia(child, key, st, <<call[2]>>, delete[d - 1])]
    IN  DeleteVia(n, key, st, <<>>, delete[Cardinality(DOMAIN st)])

(* The nodes from n down to the leaf that a key leads to, as insert,       *)
(* delete, find and generate_proof go; a child that is not stored, or a    *)
(* node without children, ends them.                                       *)
DescendFrom(n, key, st, below) ==
    LET i == ChildIndex(n, key)
    IN  IF Leads(n, i, st) THEN <<n>> \o below[n.vals[i]] ELSE <<n>>

Descent(n, key, st) ==
    LET descend[d \in 0..Cardinality(DOMAIN st)] ==
          [h \in DOMAIN st |->
             IF d = 0 THEN <<GetNode(st, h)>>
             ELSE DescendFrom(GetNode(st, h), key, st, descend[d - 1])]
    IN  DescendFrom(n, key, st, descend[Cardinality(DOMAIN st)])

(* Node::find, as the sequence of the leaf that holds the key, or empty.   *)
NodeFind(n, key, st) ==
    LET end == Last(Descent(n, key, st))
    IN  IF end.leaf /\ key \in Range(end.keys) THEN <<end>> ELSE <<>>

(* values[i] of an internal node without children is out of bounds: insert,*)
(* delete and find panic when their descent reaches one.                   *)
Descends(n, key, st) ==
    LET end == Last(Descent(n, key, st)) IN end.leaf \/ end.vals # <<>>

(* The value a caller reads from the leaf: the first pair with the key.    *)
ValueIn(leaf, key) ==
    leaf.vals[Min({i \in 1..Len(leaf.keys) : leaf.keys[i] = key})]

(* The leaves below a node, from left to right; a missing child is passed  *)
(* over (Tree::size, ProllyNode::children).                                *)
LeavesFrom(n, st, below) ==
    IF n.leaf THEN <<n>>
    ELSE FlattenSeq([i \in 1..Len(n.vals) |->
           IF n.vals[i] \in DOMAIN st THEN below[n.vals[i]] ELSE <<>>])

Leaves(n, st) ==
    LET leaves[d \in 0..Cardinality(DOMAIN st)] ==
          [h \in DOMAIN st |->
             IF d = 0 THEN <<>> ELSE LeavesFrom(GetNode(st, h), st, leaves[d - 1])]
    IN  LeavesFrom(n, st, leaves[Cardinality(DOMAIN st)])

(* The nodes below a node and itself, as collect_keys_recursive goes.      *)
NodesFrom(n, st, below) ==
    {n} \cup UNION {below[h] : h \in IF n.leaf THEN {} ELSE Range(n.vals) \cap DOMAIN st}

NodesBelow(n, st) ==
    LET nodes[d \in 0..Cardinality(DOMAIN st)] ==
          [h \in DOMAIN st |->
             IF d = 0 THEN {} ELSE NodesFrom(GetNode(st, h), st, nodes[d - 1])]
    IN  NodesFrom(n, st, nodes[Cardinality(DOMAIN st)])

(* collect_keys: the keys of every node on the way, not of the leaves only *)
\* mutant: the children are not visited
CollectRootKeys(n, st) == Range(n.keys)

CollectKeys(n, st) == UNION {Range(m.keys) : m \in NodesBelow(n, st)}

(* The map that find shows.                                                *)
Contents(n, st) ==
    LET found == {k \in Keys : Descends(n, k, st) /\ NodeFind(n, k, st) # <<>>}
    IN  [k \in found |-> ValueIn(NodeFind(n, k, st)[1], k)]

(* Tree::size                                                              *)
Size(n, st) ==
    FoldLeft(LAMBDA total, leaf : total + Len(leaf.keys), 0, Leaves(n, st))

(* generate_proof: the digests on the way down to the leaf.                *)
ProofPath(n, key, st) ==
    LET nodes == Descent(n, key, st) IN [i \in 1..Len(nodes) |-> Hash(nodes[i])]

(* verify: from the root's digest down the stored nodes, comparing each    *)
(* with the proof; expected is empty or holds the value asked for, which   *)
(* any value of the leaf satisfies.                                        *)
\* mutant: only the first value of the leaf is compared
FirstValueProves(leaf, key, expected) ==
    /\ key \in Range(leaf.keys)
    /\ expected = {} \/ expected = {leaf.vals[1]}

LeafProves(leaf, key, expected) ==
    /\ key \in Range(leaf.keys)
    /\ expected = {} \/ \E v \in expected : v \in Range(leaf.vals)

Verify(path, key, expected, n, st) ==
    LET last == Len(path)
        leadsTo(p, h) == p.vals # <<>> /\ h = p.vals[ChildIndex(p, key)]
    IN  /\ path # <<>> /\ path[1] = Hash(n)
        /\ \A i \in 1..last : path[i] \in DOMAIN st
        /\ \A i \in 2..last : leadsTo(st[path[i - 1]], path[i])
        /\ st[path[last]].leaf
        /\ LeafProves(st[path[last]], key, expected)

-----------------------------------------------------------------------------
(* The operations                                                          *)

EmptyMap == [k \in {} |-> CHOOSE v \in Values : TRUE]

Init ==
    /\ root = EmptyRoot
    /\ store = EmptyStore
    /\ savedRoot = <<>>
    /\ roots = {}
    /\ view = EmptyMap /\ savedView = EmptyMap
    /\ strayed = FALSE
    /\ op = [name |-> "new", arg |-> {}, answer |-> TRUE]
    /\ ops = 0

Call(name, arg, answer) ==
    /\ name \in Enabled
    /\ ops < MaxOps
    /\ ops' = ops + 1
    /\ op' = [name |-> name, arg |-> arg, answer |-> answer]

(* view and savedView are functions of the rest of the state; they are     *)
(* variables so that they are computed once per step.                      *)
Observe ==
    /\ view' = Contents(root', store')
    /\ savedView' = IF savedRoot' = <<>> THEN EmptyMap
                    ELSE Contents(GetNode(store', savedRoot'[1]), store')

(* persist_root: the root goes into the storage and its digest into the    *)
(* stored configuration.                                                   *)
Persist(r) ==
    /\ root' = r.node
    /\ store' = InsertNode(r.st, r.node)
    /\ savedRoot' = <<Hash(r.node)>>
    /\ roots' = roots \cup {Hash(r.node)}
    /\ strayed' = (strayed \/ r.strayed)

(* What the client restricts itself to.                                    *)
MayInsert(S) == S \subseteq Kept \/ Kept \subseteq DOMAIN view
MayDelete(S) == S \cap Kept = {}

(* A call whose descent panics ends the process: it has no step.           *)
Reaches(k) == Descends(root, k, store)

Insert(k, v) ==
    /\ MayInsert({k}) /\ Reaches(k)
    /\ Call("insert", <<k, v>>, TRUE)
    /\ Persist(NodeInsert(root, k, v, store))
    /\ Observe

Update(k, v) ==
    LET exists == NodeFind(root, k, store) # <<>>
    IN  /\ Reaches(k)
        /\ Call("update", <<k, v>>, exists)
        /\ \/ exists /\ Persist(NodeInsert(root, k, v, store))
           \/ ~exists /\ UNCHANGED <<root, store, savedRoot, roots, strayed>>
        /\ Observe

DeleteFrom(k, r) ==
    /\ Call("delete", k, r.deleted)
    /\ \/ r.deleted /\ Persist(r)
       \/ ~r.deleted /\ UNCHANGED <<root, store, savedRoot, roots, strayed>>

Delete(k) ==
    /\ MayDelete({k}) /\ Reaches(k)
    /\ DeleteFrom(k, NodeDelete(root, k, store))
    /\ Observe

(* A loop of calls on one key each: the root, the storage and the digests  *)
(* saved so far, and whether every descent has ended.                      *)
Loop == [ok |-> TRUE, node |-> root, st |-> store, saved |-> {}, strayed |-> FALSE]

After(r, answer, saved) ==
    [ok |-> TRUE, node |-> answer.node, st |-> answer.st, saved |-> r.saved \cup saved,
     strayed |-> r.strayed \/ answer.strayed]

Failed(r) == [r EXCEPT !.ok = FALSE]

(* insert_batch and delete_batch work in the order of the keys and leave   *)
(* the new root in memory only.                                            *)
InSortedOrder(S) ==
    {order \in SetToSeqs(S) : \A i \in 1..(Len(order) - 1) : order[i] < order[i + 1]}

Unsaved(r) ==
    /\ r.ok
    /\ root' = r.node /\ store' = r.st
    /\ strayed' = (strayed \/ r.strayed)
    /\ UNCHANGED <<savedRoot, roots>>

InsertNext(r, k, v) ==
    IF r.ok /\ Descends(r.node, k, r.st)
    THEN After(r, NodeInsert(r.node, k, v, r.st), {})
    ELSE Failed(r)

InsertBatch(batch) ==
    /\ MayInsert(DOMAIN batch)
    /\ \E order \in InSortedOrder(DOMAIN batch) :
         LET loop[j \in 0..Len(order)] ==
               IF j = 0 THEN Loop ELSE InsertNext(loop[j - 1], order[j], batch[order[j]])
         IN  Unsaved(loop[Len(order)])
    /\ Call("insert_batch", batch, TRUE)
    /\ Observe

DeleteNext(r, k) ==
    IF r.ok /\ Descends(r.node, k, r.st)
    THEN After(r, NodeDelete(r.node, k, r.st), {})
    ELSE Failed(r)

DeleteBatch(S) ==
    /\ MayDelete(S)
    /\ \E order \in InSortedOrder(S) :
         LET loop[j \in 0..Len(order)] ==
               IF j = 0 THEN Loop ELSE DeleteNext(loop[j - 1], order[j])
         IN  Unsaved(loop[Len(order)])
    /\ Call("delete_batch", S, TRUE)
    /\ Observe

PersistRoot ==
    /\ Call("persist_root", {}, TRUE)
    /\ Persist(Loop)
    /\ Observe

(* load_from_storage with the stored configuration.                        *)
Reload ==
    /\ savedRoot # <<>>
    /\ savedRoot[1] \in DOMAIN store
    /\ Call("load_from_storage", {}, TRUE)
    /\ root' = GetNode(store, savedRoot[1])
    /\ UNCHANGED <<store, savedRoot, roots, strayed>>
    /\ Observe

(* merge and merge_trees.  Three roots are compared pair by pair, their    *)
(* children are not: of a root that is not a leaf these are separators and *)
(* digests, so the client is taken to merge trees of one leaf only.  A     *)
(* side is a value, or Absent.                                             *)
Absent == <<>>

NoTimestamp(v) == -1
KeepSource(source, dest) == source

R == INSTANCE ConflictResolvers
       WITH NoValue <- Absent, Timestamp <- NoTimestamp, MergeJson <- KeepSource

Side(n, k) == IF k \in Range(n.keys) THEN ValueIn(n, k) ELSE Absent

Diff(old, new) ==
    {k \in Range(old.keys) \cup Range(new.keys) : Side(old, k) # Side(new, k)}

(* Both sides have changed the key, and differently.                       *)
Conflicting(s, d, b, k) ==
    k \in Diff(b, s) \cap Diff(b, d) /\ Side(s, k) # Side(d, k)

\* mutant: a change of both sides is the source's
MergeTakingSource(s, d, b, resolver) ==
    [k \in Diff(b, s) |-> {Side(s, k)}]

(* The resolved side of each key the source has changed; no side where the *)
(* resolver leaves a conflict.                                             *)
MergeResults(s, d, b, resolver) ==
    [k \in Diff(b, s) |->
       IF Conflicting(s, d, b, k)
       THEN R!Resolve(resolver, Side(s, k), Side(d, k))
       ELSE {Side(s, k)}]

(* apply_merge_results: insert and delete one key after the other, in the  *)
(* order of a HashSet, each of which persists the root.                    *)
KeptAfter(r, done) ==
    After(r, [done EXCEPT !.st = InsertNode(done.st, done.node)], {Hash(done.node)})

ApplyResult(r, k, side) ==
    IF ~r.ok \/ ~Descends(r.node, k, r.st) THEN Failed(r)
    ELSE IF side = Absent THEN KeptAfter(r, NodeDelete(r.node, k, r.st))
    ELSE KeptAfter(r, NodeInsert(r.node, k, side, r.st))

Merged(r) ==
    /\ r.ok
    /\ root' = r.node /\ store' = r.st
    /\ savedRoot' = <<Hash(r.node)>>
    /\ roots' = roots \cup r.saved
    /\ strayed' = (strayed \/ r.strayed)

MergeTrees(s, b, resolver) ==
    LET d == savedRoot[1]
        results == MergeResults(store[s], store[d], store[b], resolver)
        open == {k \in DOMAIN results : results[k] = {}}
        map(h) == Contents(GetNode(store, h), store)
    IN  /\ savedRoot # <<>>
        /\ \A h \in {s, d, b} : store[h].leaf
        /\ Call("merge_trees", [source |-> map(s), base |-> map(b), resolver |-> resolver], open = {})
        /\ \/ /\ open # {}
              /\ UNCHANGED <<root, store, savedRoot, roots, strayed>>
           \/ /\ open = {}
              /\ \E order \in SetToSeqs(DOMAIN results) :
                   LET loop[j \in 0..Len(order)] ==
                         IF j = 0 THEN [Loop EXCEPT !.node = GetNode(store, d)]
                         ELSE ApplyResult(loop[j - 1], order[j],
                                          CHOOSE side \in results[order[j]] : TRUE)
                   IN  Merged(loop[Len(order)])
        /\ Observe

Next ==
    \/ \E k \in Keys, v \in Values : Insert(k, v) \/ Update(k, v)
    \/ \E k \in Keys : Delete(k)
    \/ \E batch \in Batches : InsertBatch(batch) \/ DeleteBatch(DOMAIN batch)
    \/ PersistRoot
    \/ Reload
    \/ \E s \in roots, b \in roots, resolver \in MergeResolvers : MergeTrees(s, b, resolver)

Spec == Init /\ [][Next]_vars

-----------------------------------------------------------------------------
(* Properties                                                              *)

(***************************************************************************)
(* Type invariant of the tree's state: the root is a node, every stored    *)
(* node is filed under its own digest, and the digests the configuration   *)
(* and the history name are stored.                                        *)
(***************************************************************************)
TypeOK ==
    /\ DOMAIN root = {"keys", "vals", "leaf", "level", "split", "merged"}
    /\ Len(root.keys) = Len(root.vals)
    /\ \A h \in DOMAIN store : Hash(store[h]) = h /\ Len(h[1]) = Len(h[2])
    /\ roots \cup Range(savedRoot) \subseteq DOMAIN store
    /\ ops \in 0..MaxOps

(***************************************************************************)
(* The tree implements the map of Dictionary: what find shows for every    *)
(* key, the answer of each operation, and what a reopened tree shows.      *)
(***************************************************************************)
D == INSTANCE Dictionary WITH dict <- view, saved <- savedView

ImplementsDictionary == D!DictSpec

(***************************************************************************)
(* The leaves hold every key once and in increasing order from left to     *)
(* right, so the pairs that size counts are the pairs that find finds.     *)
(***************************************************************************)
LeafKeys(n, st) == FlattenSeq([i \in 1..Len(Leaves(n, st)) |-> Leaves(n, st)[i].keys])

LeavesSorted ==
    LET ks == LeafKeys(root, store)
    IN  /\ \A i \in 1..(Len(ks) - 1) : ks[i] < ks[i + 1]
        /\ Range(ks) = DOMAIN view

(***************************************************************************)
(* Every child is in the storage, one level below its parent, a leaf       *)
(* exactly at level 0: depth() is the number of nodes on every path        *)
(* although the digests leave level and is_leaf out.                       *)
(***************************************************************************)
LevelsMatch ==
    \A n \in NodesBelow(root, store) :
      /\ n.leaf <=> n.level = 0
      /\ ~n.leaf => /\ n.vals # <<>>
                    /\ \A h \in Range(n.vals) : h \in DOMAIN store /\ store[h].level = n.level - 1

(***************************************************************************)
(* chunk_content cuts the pairs of the tree, laid side by side, where the  *)
(* hash of the last MinChunk pairs alone matches the pattern, and nowhere  *)
(* else: the hash carried along the node is the hash of the window.        *)
(***************************************************************************)
Pairs(n, st) ==
    [n EXCEPT !.keys = LeafKeys(n, st),
              !.vals = FlattenSeq([i \in 1..Len(Leaves(n, st)) |-> Leaves(n, st)[i].vals])]

Item(n, i) == KeyHash(n.keys[i]) + ValueHash(n.vals[i])

WindowHash(n, e) ==
    LET power[j \in 0..MinChunk] == IF j = 0 THEN 1 ELSE Base * power[j - 1]
        sum[m \in 0..MinChunk] ==
          IF m = 0 THEN 0 ELSE sum[m - 1] + Item(n, e - m + 1) * power[m - 1]
    IN  sum[MinChunk] % Modulus

WindowMatches(n, e) == MatchesPattern(WindowHash(n, e), Pattern)

CutsAtWindows ==
    LET n == Pairs(root, store)
        ends == ChunkContent(n)
    IN  \A i \in 1..Len(ends) :
          LET from == (IF i = 1 THEN 0 ELSE ends[i-1]) + MinChunk
          IN  /\ i = Len(ends) \/ WindowMatches(n, ends[i])
              /\ \A e \in from..(ends[i] - 1) : ~WindowMatches(n, e)

(***************************************************************************)
(* No operation changes what an older persisted root shows: the commits    *)
(* of a versioned store keep their digests.                                *)
(***************************************************************************)
OldRootsKeepContents ==
    [][\A h \in roots : Contents(GetNode(store', h), store') = Contents(GetNode(store, h), store)]_vars

(***************************************************************************)
(* The proof generate_proof gives for a key verifies against the tree, for *)
(* the key's value, exactly when find finds the key.                       *)
(***************************************************************************)
ProofsVerify ==
    root # EmptyRoot =>
      \A k \in Keys :
        Verify(ProofPath(root, k, store), k, IF k \in DOMAIN view THEN {view[k]} ELSE {}, root, store)
          <=> k \in DOMAIN view

(***************************************************************************)
(* A key that delete has reported as deleted is not found (test_delete).   *)
(***************************************************************************)
DeleteRemoves ==
    op.name = "delete" => NodeFind(root, op.arg, store) = <<>>

(***************************************************************************)
(* collect_keys, which list_keys is made of, gives the keys of the tree.   *)
(***************************************************************************)
CollectsKeys == CollectKeys(root, store) = DOMAIN view

At(map, k) == IF k \in DOMAIN map THEN map[k] ELSE Absent

(***************************************************************************)
(* insert changes its own key and no other ("Inserts a key-value pair into *)
(* the tree").                                                             *)
(***************************************************************************)
InsertKeepsOthers ==
    [][op'.name = "insert" => \A k \in Keys \ {op'.arg[1]} : At(view', k) = At(view, k)]_vars

(***************************************************************************)
(* In every insert and delete, what a child takes in while it is balanced  *)
(* is what its parent drops afterwards: the one is found by comparing      *)
(* separators, the other by its position.                                  *)
(***************************************************************************)
JoinsNeighbour == ~strayed
=============================================================================

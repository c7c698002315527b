----------------------------- MODULE ProllyNode -----------------------------
(***************************************************************************)
(* One node of the tree (src/src/node.rs), the content-addressed storage   *)
(* it lives in (src/src/storage.rs) and the steps that rebalance it.       *)
(*                                                                         *)
(* Keys are numbers: only their order matters.  The digest of a node is    *)
(* the pair of its keys and its values; it leaves out is_leaf, level and   *)
(* the two flags, as get_hash does, so that two nodes that differ only in  *)
(* those share one entry of the storage.  An internal node has the digests *)
(* of its children for values.                                             *)
(***************************************************************************)
EXTENDS RollingHash, Integers, SequencesExt

CONSTANTS MinChunk,      \* min_chunk_size, the window of the rolling hash
          MaxChunk,      \* max_chunk_size
          Pattern,       \* pattern
          StickyFlags,   \* does the storage hand out split and merged as stored?
          KeyHash(_),    \* hash_item of a key: XxHash64 modulo Modulus
          ValueHash(_)   \* hash_item of a value or of a child's digest

ASSUME ChunkParameters ==
    /\ MinChunk \in Nat \ {0} /\ MaxChunk \in Nat /\ Pattern \in Nat
    /\ StickyFlags \in BOOLEAN

-----------------------------------------------------------------------------
(* Nodes, digests and storage                                              *)

MakeNode(keys, vals, leaf, level) ==
    [keys |-> keys, vals |-> vals, leaf |-> leaf, level |-> level,
     split |-> FALSE, merged |-> FALSE]

EmptyRoot == MakeNode(<<>>, <<>>, TRUE, 0)

\* mutant: the digest leaves the values out
HashOfKeys(n) == <<n.keys, <<>>>>

Hash(n) == <<n.keys, n.vals>>

EmptyStore == [h \in {} |-> EmptyRoot]

(* insert_node: the last node written under a digest is the one kept.      *)
InsertNode(st, n) ==
    [h \in DOMAIN st \cup {Hash(n)} |-> IF h = Hash(n) THEN n ELSE st[h]]

(* get_node_by_hash: the in-memory map and the files clear the two flags;  *)
(* the caches of the Git and RocksDB storages return the node as stored.   *)
GetNode(st, h) ==
    IF StickyFlags THEN st[h]
    ELSE [st[h] EXCEPT !.split = FALSE, !.merged = FALSE]

-----------------------------------------------------------------------------
(* Chunking                                                                *)

(* The end of the chunk that starts after position s.  hash[e] is the hash *)
(* carried along until the window ends at e; start moves with end, so that *)
(* the loop's end - start < max_chunk_size compares the size of the window.*)
NextCut(n, s) ==
    LET len == Len(n.keys)
        key(i) == KeyHash(n.keys[i])
        value(i) == ValueHash(n.vals[i])
        first == InitializeRollingHash([i \in 1..MinChunk |-> key(s + i) + value(s + i)])
        hash[e \in 0..len] ==
          IF e <= s + MinChunk THEN first
          ELSE UpdateRollingHash(hash[e - 1], key(e - MinChunk), value(e - MinChunk),
                                 key(e) + value(e), MinChunk)
        stops(e) == e = len \/ MinChunk >= MaxChunk \/ MatchesPattern(hash[e], Pattern)
    IN  IF s + MinChunk >= len THEN len ELSE Min({e \in (s + MinChunk)..len : stops(e)})

(* chunk_content: the positions at which the chunks of the node end;       *)
(* ends[i] are those after i iterations.                                   *)
ChunkContent(n) ==
    LET len == Len(n.keys)
        ends[i \in 0..len] ==
          IF i = 0 THEN <<>>
          ELSE LET done == ends[i - 1]
                   start == IF done = <<>> THEN 0 ELSE Last(done)
               IN  IF start = len THEN done ELSE Append(done, NextCut(n, start))
    IN  IF len < MinChunk THEN <<>> ELSE ends[len]

-----------------------------------------------------------------------------
(* Balancing                                                               *)

\* mutant: an appended pair stays at the end
LeaveLast(n) == n

(* The last pair moves to its place; binary_search on the sorted rest.     *)
SortLast(n) ==
    IF n.keys = <<>> THEN n
    ELSE LET k == Last(n.keys)
             pos == Cardinality({i \in 1..(Len(n.keys) - 1) : n.keys[i] < k}) + 1
         IN  [n EXCEPT !.keys = InsertAt(Front(n.keys), pos, k),
                       !.vals = InsertAt(Front(n.vals), pos, Last(n.vals))]

(* get_next_sibling_hash: a set with the sibling's digest, or the empty    *)
(* set.  parent is the sequence of the last element of path_hashes, empty  *)
(* at the root; the parent is looked up by the digest it had on the way    *)
(* down, which is missing when a batch has left the root unpersisted.      *)
NextSiblingHash(n, st, parent) ==
    IF parent = <<>> \/ n.keys = <<>> THEN {}
    ELSE IF parent[1] \notin DOMAIN st THEN {}
    ELSE LET p == st[parent[1]]
             after == {i \in 1..Len(p.keys) : p.keys[i] > Last(n.keys)}
         IN  IF after = {} THEN {} ELSE {p.vals[Min(after)]}

MergeWithNextSibling(n, sibling) ==
    [n EXCEPT !.keys = @ \o sibling.keys,
              !.vals = @ \o sibling.vals,
              !.merged = TRUE]

(* Whatever its size, the node takes in its right neighbour first; found   *)
(* is the neighbour's digest, or empty.                                    *)
TakeNextSibling(n, st, found) ==
    IF found = {} THEN n
    ELSE MergeWithNextSibling(n, GetNode(st, CHOOSE h \in found : TRUE))

(* The nodes the chunks become; they inherit level and flags.              *)
Pieces(n, ends) ==
    [i \in 1..Len(ends) |->
       LET from == IF i = 1 THEN 1 ELSE ends[i-1] + 1
       IN  [n EXCEPT !.keys = SubSeq(@, from, ends[i]),
                     !.vals = SubSeq(@, from, ends[i])]]

(* One after the other: of two nodes with one digest the later is kept.    *)
InsertNodes(st, nodes) ==
    LET of(h) == {i \in 1..Len(nodes) : Hash(nodes[i]) = h}
    IN  [h \in DOMAIN st \cup {Hash(nodes[i]) : i \in 1..Len(nodes)} |->
           IF of(h) = {} THEN st[h] ELSE nodes[Max(of(h))]]

\* mutant: the new node still calls itself a leaf
OverAsLeaf(n, pieces) ==
    [n EXCEPT !.keys = [i \in 1..Len(pieces) |-> pieces[i].keys[1]],
              !.vals = [i \in 1..Len(pieces) |-> Hash(pieces[i])]]

(* A node over the pieces: their first keys and their digests.             *)
Over(n, pieces) ==
    [n EXCEPT !.keys = [i \in 1..Len(pieces) |-> pieces[i].keys[1]],
              !.vals = [i \in 1..Len(pieces) |-> Hash(pieces[i])],
              !.leaf = FALSE]

(* A node of several pieces.  At the root the old node, by now without     *)
(* keys, is stored and a new root one level up takes its place; elsewhere  *)
(* the node becomes the list of its pieces for the parent to take in, and  *)
(* is stored as that.                                                      *)
SplitRoot(n, pieces, st) ==
    [node |-> [Over(n, pieces) EXCEPT !.level = n.level + 1],
     st |-> InsertNode(InsertNodes(st, pieces), [n EXCEPT !.keys = <<>>, !.vals = <<>>])]

ListOfPieces(list, pieces, st) ==
    [node |-> list, st |-> InsertNode(InsertNodes(st, pieces), list)]

SplitNode(n, pieces, st, parent) ==
    IF Len(pieces) <= 1 THEN [node |-> n, st |-> st]
    ELSE IF parent = <<>> THEN SplitRoot(n, pieces, st)
    ELSE ListOfPieces([Over(n, pieces) EXCEPT !.split = TRUE], pieces, st)

(* balance: sort, take in the sibling, cut.  joined is the digest of the   *)
(* sibling that was taken in, or empty.                                    *)
Cut(n, st, parent) == SplitNode(n, Pieces(n, ChunkContent(n)), st, parent)

Balance(n, st, parent) ==
    LET sorted == SortLast(n)
        found == NextSiblingHash(sorted, st, parent) \cap DOMAIN st
        cut == Cut(TakeNextSibling(sorted, st, found), st, parent)
    IN  [node |-> cut.node, st |-> cut.st, joined |-> found]

-----------------------------------------------------------------------------
(* The steps of a descent                                                  *)

\* mutant: a key that equals a separator is looked for left of it
StrictChildIndex(n, key) ==
    LET below == {i \in 1..Len(n.keys) : n.keys[i] < key}
    IN  IF below = {} THEN 1 ELSE Max(below)

(* rposition(key >= k), or the first child.                                *)
ChildIndex(n, key) ==
    LET below == {i \in 1..Len(n.keys) : n.keys[i] <= key}
    IN  IF below = {} THEN 1 ELSE Max(below)

(* The leaf case of insert: overwrite, or append for SortLast to move.     *)
PutInLeaf(n, key, val) ==
    LET at == {i \in 1..Len(n.keys) : n.keys[i] = key}
    IN  IF at # {} THEN [n EXCEPT !.vals[Min(at)] = val]
        ELSE [n EXCEPT !.keys = Append(@, key), !.vals = Append(@, val)]

RemovePair(n, i) == [n EXCEPT !.keys = RemoveAt(@, i), !.vals = RemoveAt(@, i)]

(* The pair a parent takes out when child i has swallowed it.              *)
Dropped(n, i, child) ==
    IF child.merged /\ i + 1 <= Len(n.keys) THEN {n.vals[i + 1]} ELSE {}

(* What a parent does with child i once the operation below has returned:  *)
(* a merged child has swallowed the pair after it, a split child is        *)
(* replaced by its pieces, any other child by its new digest.  The key of  *)
(* the pair is left as it was.                                             *)
ReplaceChild(n, i, child) ==
    LET m == IF Dropped(n, i, child) = {} THEN n ELSE RemovePair(n, i + 1)
    IN  IF child.split
        THEN [m EXCEPT !.keys = SubSeq(@, 1, i - 1) \o child.keys \o SubSeq(@, i + 1, Len(@)),
                       !.vals = SubSeq(@, 1, i - 1) \o child.vals \o SubSeq(@, i + 1, Len(@))]
        ELSE [m EXCEPT !.vals[i] = Hash(child)]

(* The extra check at the end of insert: an internal root above level 1    *)
(* with a single child becomes that child.                                 *)
CollapseRoot(n, st, parent) ==
    IF parent = <<>> /\ ~n.leaf /\ Len(n.keys) = 1 /\ n.level > 1 /\ n.vals[1] \in DOMAIN st
    THEN LET c == GetNode(st, n.vals[1])
         IN  [n EXCEPT !.keys = c.keys, !.vals = c.vals, !.leaf = c.leaf, !.level = c.level]
    ELSE n
=============================================================================

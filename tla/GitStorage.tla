----------------------------- MODULE GitStorage -----------------------------
(***************************************************************************)
(* GitNodeStorage of src/src/git/storage.rs: the nodes of a tree as blobs  *)
(* of the Git repository, found through a table from digests to blobs that *)
(* is kept in memory and in the file prolly_hash_mappings, with the digest *)
(* of the root in prolly_config_tree_config.  The operations of the tree   *)
(* and the store appear as what they ask of the storage: new nodes from    *)
(* the leaves up, the root last, then the configuration; a commit rewrites *)
(* both files and records them.  Files are written in place, so that a     *)
(* process that dies in the middle leaves a part of one.                   *)
(*                                                                         *)
(* A digest stands for its node and its blob.  The LRU cache is left out:  *)
(* it holds nodes that the table has too, unless a blob was not written.   *)
(***************************************************************************)
EXTENDS Naturals, Sequences, FiniteSets, Functions

CONSTANTS Digests,
          Children,   \* the digests that a node has for values
          EmptyRoot,  \* the digest of the node without keys
          NoRoot,     \* a configuration that cannot be parsed
          Faults,     \* what may go wrong, see StorageFaults
          MaxCommits, \* bound on the commits of a behaviour
          MaxRequests \* bound on the calls of a behaviour

StorageFaults == {"crash",   \* the process dies between two writes
                  "torn",    \* the process dies in the middle of a write
                  "object"}  \* writing a blob fails

ASSUME StorageAssumptions ==
    /\ IsFiniteSet(Digests)
    /\ Children \in [Digests -> SUBSET Digests]
    /\ EmptyRoot \in Digests /\ Children[EmptyRoot] = {}
    /\ NoRoot \notin Digests
    /\ Faults \subseteq StorageFaults
    /\ MaxCommits \in Nat /\ MaxRequests \in Nat

VARIABLES objects,      \* the blobs in the repository
          mappingFile,  \* prolly_hash_mappings: whole lines, and whether a piece of one follows
          configFile,   \* the root that prolly_config_tree_config names
          commits,      \* what was committed: a root and a table
          mapping,      \* hash_to_object_id
          root,         \* the digest of ProllyTree::root
          rootHash,     \* root_hash in ProllyTree::config
          warned,       \* has open failed to load the saved root?
          pc,           \* where the process is; idle or closed between calls
          call,         \* the call under way, or the last one
          todo,         \* nodes the call has yet to insert, the root last
          node,         \* the node being inserted
          damaged,      \* history: a write was torn or a blob was not written
          requests      \* number of calls so far

files == <<objects, mappingFile, configFile, commits>>
process == <<mapping, root, rootHash, warned>>
storageVars == <<files, process, pc, call, todo, node, damaged, requests>>

(* The nodes of the tree below a root: the least set with the root in it   *)
(* that has the children of its members.                                   *)
Closed(C) == \A d \in C : Children[d] \subseteq C
Below == [r \in Digests |->
    {d \in Digests : \A C \in SUBSET Digests : r \in C /\ Closed(C) => d \in C}]

(* load_hash_mappings: a piece of a line is passed over.                   *)
Load(file) == Range(file.lines)

(* get_node_by_hash finds the node.                                        *)
Finds(table, d) == d \in table /\ d \in objects

(* Every node from the root down is found: the pairs can be collected.     *)
Readable(r, table) == \A d \in Below[r] : Finds(table, d)

(* What an older commit holds is read with the files it recorded.          *)
CommitReadable(c) == Readable(commits[c].root, commits[c].table)

-----------------------------------------------------------------------------
(* Calls of the tree: insert, update and delete, which persist the root    *)

BeginCall(name, S) ==
    /\ pc = "idle"
    /\ requests < MaxRequests
    /\ requests' = requests + 1
    /\ call' = name
    /\ todo' = S
    /\ pc' = "insert"

(* The tree becomes the one below r.  S is what the operation stores: the  *)
(* nodes that it makes, some of which the storage may have already.        *)
Change(r, S) ==
    /\ r \in S
    /\ \A d \in S : Children[d] \subseteq (S \cup Below[root]) \ {r}
    /\ BeginCall("change", S)
    /\ root' = r
    /\ UNCHANGED <<files, mapping, rootHash, warned, node, damaged>>

(* Children are stored before their parents, and the root by persist_root. *)
Follows(d) ==
    /\ d \in todo
    /\ Children[d] \cap todo \subseteq {d}
    /\ d = root => todo = {d}

\* mutant: the table in memory is not told of a new node
InsertNodeInFileOnly(d) ==
    /\ pc = "insert" /\ Follows(d)
    /\ objects' = objects \cup {d}
    /\ todo' = todo \ {d}
    /\ node' = d
    /\ pc' = IF d \in mapping THEN "insert" ELSE "mapping"
    /\ UNCHANGED <<mappingFile, configFile, commits, process, call, damaged, requests>>

(* insert_node: the blob, the table in memory, and a line of the file if   *)
(* the table did not have the digest.                                      *)
InsertNode(d) ==
    /\ pc = "insert" /\ Follows(d)
    /\ objects' = objects \cup {d}
    /\ mapping' = mapping \cup {d}
    /\ todo' = todo \ {d}
    /\ node' = d
    /\ pc' = IF d \in mapping THEN "insert" ELSE "mapping"
    /\ UNCHANGED <<mappingFile, configFile, commits, root, rootHash, warned, call, damaged, requests>>

(* Only persist_root looks at the answer; it leaves the configuration as   *)
(* it is.                                                                  *)
InsertNodeFails(d) ==
    /\ "object" \in Faults
    /\ pc = "insert" /\ Follows(d)
    /\ todo' = todo \ {d}
    /\ pc' = IF d # root THEN "insert" ELSE IF call = "commit" THEN "save" ELSE "idle"
    /\ damaged' = TRUE
    /\ UNCHANGED <<files, process, call, node, requests>>

\* mutant: the file is begun anew for every line
BeginFile(file, d) == [lines |-> <<d>>, torn |-> FALSE]

(* The file is read and written back with one more line, which joins a     *)
(* piece of a line at its end and is lost with it.                         *)
AppendLine(file, d) ==
    [lines |-> IF file.torn THEN file.lines ELSE Append(file.lines, d), torn |-> FALSE]

SaveHashMapping ==
    /\ pc = "mapping"
    /\ mappingFile' = AppendLine(mappingFile, node)
    /\ pc' = "insert"
    /\ UNCHANGED <<objects, configFile, commits, process, call, todo, node, damaged, requests>>

(* the rest of persist_root                                                *)
PersistRoot ==
    /\ pc = "insert" /\ todo = {}
    /\ rootHash' = root
    /\ configFile' = root
    /\ pc' = IF call = "commit" THEN "save" ELSE "idle"
    /\ UNCHANGED <<objects, mappingFile, commits, mapping, root, warned, call, todo, node, damaged, requests>>

-----------------------------------------------------------------------------
(* Calls of the store                                                      *)

(* commit without staged changes: persist_root, ...                        *)
BeginCommit ==
    /\ Len(commits) < MaxCommits
    /\ BeginCall("commit", {root})
    /\ UNCHANGED <<files, process, node, damaged>>

(* ... save_config, which takes the digest of the root, ...                *)
SaveConfig ==
    /\ pc = "save"
    /\ configFile' = root
    /\ pc' = "rewrite_config"
    /\ UNCHANGED <<objects, mappingFile, commits, process, call, todo, node, damaged, requests>>

(* ... save_tree_config_to_git, which takes root_hash, ...                 *)
RewriteConfig ==
    /\ pc = "rewrite_config"
    /\ configFile' = rootHash
    /\ pc' = "rewrite_mappings"
    /\ UNCHANGED <<objects, mappingFile, commits, process, call, todo, node, damaged, requests>>

(* ... and writes the table in memory in the order of a HashMap, ...       *)
Orders == [S \in SUBSET Digests |-> {s \in [1..Cardinality(S) -> S] : Range(s) = S}]

RewriteMappings ==
    /\ pc = "rewrite_mappings"
    /\ \E s \in Orders[mapping] : mappingFile' = [lines |-> s, torn |-> FALSE]
    /\ pc' = "record"
    /\ UNCHANGED <<objects, configFile, commits, process, call, todo, node, damaged, requests>>

(* ... and the Git commit of both files.                                   *)
Record ==
    /\ pc = "record"
    /\ commits' = Append(commits, [root |-> configFile, table |-> Load(mappingFile)])
    /\ pc' = "idle"
    /\ UNCHANGED <<objects, mappingFile, configFile, process, call, todo, node, damaged, requests>>

(* What a checkout starts from: a new tree over a clone of the storage,    *)
(* with the table that is on disk.  Its inserts are calls of the tree.     *)
NewTree ==
    /\ pc = "idle"
    /\ requests < MaxRequests
    /\ requests' = requests + 1
    /\ call' = "checkout"
    /\ mapping' = Load(mappingFile)
    /\ root' = EmptyRoot
    /\ rootHash' = EmptyRoot
    /\ UNCHANGED <<files, warned, pc, todo, node, damaged>>

-----------------------------------------------------------------------------
(* The life of the process                                                 *)

Die ==
    /\ pc' = "closed"
    /\ mapping' = {} /\ root' = EmptyRoot /\ rootHash' = EmptyRoot /\ warned' = FALSE
    /\ todo' = {}
    /\ UNCHANGED <<objects, commits, call, node, requests>>

Close == pc = "idle" /\ Die /\ UNCHANGED <<mappingFile, configFile, damaged>>

Crash ==
    /\ "crash" \in Faults
    /\ pc \notin {"idle", "closed"}
    /\ Die
    /\ UNCHANGED <<mappingFile, configFile, damaged>>

(* What is left of a file that was being written: lines from its beginning.*)
Pieces(file) ==
    {[lines |-> SubSeq(file.lines, 1, n), torn |-> b] : n \in 0..(Len(file.lines) - 1), b \in BOOLEAN}

TornMappings ==
    /\ \/ /\ pc = "mapping"
          /\ mappingFile' \in Pieces(AppendLine(mappingFile, node))
       \/ /\ pc = "rewrite_mappings"
          /\ \E s \in Orders[mapping] : mappingFile' \in Pieces([lines |-> s, torn |-> FALSE])
    /\ UNCHANGED configFile

TornConfig ==
    /\ pc \in {"save", "rewrite_config"} \/ (pc = "insert" /\ todo = {})
    /\ configFile' = NoRoot
    /\ UNCHANGED mappingFile

TornWrite ==
    /\ "torn" \in Faults
    /\ TornMappings \/ TornConfig
    /\ damaged' = TRUE
    /\ Die

\* mutant: the saved root is taken as it is
OpenWithoutCheck ==
    /\ pc = "closed"
    /\ pc' = "idle"
    /\ mapping' = Load(mappingFile)
    /\ root' = configFile /\ rootHash' = configFile /\ warned' = FALSE
    /\ UNCHANGED <<files, call, todo, node, damaged, requests>>

(* get_config finds one that can be parsed, and its root is found.         *)
SavedRootLoads == configFile # NoRoot /\ Finds(Load(mappingFile), configFile)

(* open: when the saved root cannot be loaded the tree is a new one.       *)
Open ==
    /\ pc = "closed"
    /\ pc' = "idle"
    /\ mapping' = Load(mappingFile)
    /\ root' = IF SavedRootLoads THEN configFile ELSE EmptyRoot
    /\ rootHash' = root'
    /\ warned' = (configFile # NoRoot /\ ~SavedRootLoads)
    /\ UNCHANGED <<files, call, todo, node, damaged, requests>>

(* The state init leaves.                                                  *)
StorageInit ==
    /\ objects = {EmptyRoot}
    /\ mappingFile = [lines |-> <<EmptyRoot>>, torn |-> FALSE]
    /\ configFile = EmptyRoot
    /\ commits = << [root |-> EmptyRoot, table |-> {EmptyRoot}] >>
    /\ mapping = {EmptyRoot} /\ root = EmptyRoot /\ rootHash = EmptyRoot
    /\ warned = FALSE
    /\ pc = "idle" /\ call = "init" /\ todo = {} /\ node = EmptyRoot
    /\ damaged = FALSE
    /\ requests = 0

StorageNext ==
    \/ \E r \in Digests, S \in SUBSET Digests : Change(r, S)
    \/ \E d \in Digests : InsertNode(d) \/ InsertNodeFails(d)
    \/ SaveHashMapping \/ PersistRoot
    \/ BeginCommit \/ SaveConfig \/ RewriteConfig \/ RewriteMappings \/ Record
    \/ NewTree
    \/ Close \/ Crash \/ TornWrite \/ Open

StorageSpec == StorageInit /\ [][StorageNext]_storageVars

-----------------------------------------------------------------------------
(* Properties                                                              *)

(***************************************************************************)
(* Type invariant.  Every line of the two tables leads to a blob.          *)
(***************************************************************************)
StorageTypeOK ==
    /\ objects \subseteq Digests
    /\ mappingFile \in [lines : Seq(Digests), torn : BOOLEAN]
    /\ configFile \in Digests \cup {NoRoot}
    /\ commits \in Seq([root : Digests \cup {NoRoot}, table : SUBSET Digests])
    /\ mapping \subseteq objects /\ Load(mappingFile) \subseteq objects
    /\ root \in Digests /\ rootHash \in Digests /\ node \in objects
    /\ todo \subseteq Digests
    /\ pc \in {"idle", "closed", "insert", "mapping", "save", "rewrite_config",
               "rewrite_mappings", "record"}
    /\ warned \in BOOLEAN /\ damaged \in BOOLEAN
    /\ requests \in Nat

(***************************************************************************)
(* At every moment, in the middle of a call or after a crash as well, the  *)
(* two files on disk lead to a whole tree, unless a write was torn or a    *)
(* blob was not written: every node has its line before anything refers to *)
(* it, although a digest that the table in memory has is given no line.    *)
(***************************************************************************)
SavedTreeReadable == ~damaged => Readable(configFile, Load(mappingFile))

(***************************************************************************)
(* Under the same condition every commit can be read, from its own table.  *)
(***************************************************************************)
CommitsReadable ==
    ~damaged => \A c \in 1..Len(commits) : CommitReadable(c)
=============================================================================

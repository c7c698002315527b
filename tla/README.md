# A TLA+ model of prollytree

prollytree is a content-addressed search tree whose nodes are cut by a rolling
hash (a prolly tree), and a versioned key-value store that keeps such a tree in
a Git repository, with branches, three-way merges and conflict resolvers. On
top of the store there are linked worktrees, a SQL layer, a memory for agents,
a command line and Python bindings. This directory holds TLA+ modules
translated from the sources, the TLC configurations that check them on small
instances, and theorems about them whose proofs TLAPS checks.

Paths below are relative to the repository; `node.rs` stands for
`src/node.rs` and so on.

## 1. The system

| Component | State | Operations | Modelled in |
|---|---|---|---|
| rolling hash (`node.rs`) | the hash carried along a node | `initialize_rolling_hash`, `update_rolling_hash`, `mod_exp` | RollingHash |
| node and balancing (`node.rs`) | keys, values, `is_leaf`, `level`, `split`, `merged` | `chunk_content`, `balance`, sibling merge, root split and collapse | ProllyNode |
| tree (`tree.rs`, `proof.rs`, `diff.rs`) | root in memory, nodes in a storage, stored `tree_config` | `insert`, `update`, `delete`, batches, `find`, `size`, `persist_root`, `load_from_storage`, `collect_keys`, `generate_proof`, `verify`, `merge_trees` | ProllyTree, Dictionary, ProllyTreeProofs, TreeOrderProofs |
| node storages (`storage.rs`, `git/storage.rs`, `rocksdb/storage.rs`) | nodes by digest, configuration by name, caches | `get_node_by_hash`, `insert_node`, `save_config` | ProllyNode (what a tree sees of one), GitStorage (objects, table and files of the Git storage) |
| conflict resolvers (`diff.rs`) | none | `resolve_conflict` of seven resolvers | ConflictResolvers |
| versioned store (`git/versioned_store.rs`) | tree, staging area and current branch in memory; objects, refs, HEAD, index, configuration and staging file on disk | `insert`, `update`, `delete`, `commit`, `branch`, `create_branch`, `checkout`, `merge`, `init`, `open`, `get_commits_for_key` | VersionedStore, BranchedMap, StoreRefinement, VersionedStoreProofs; Repository |
| Git operations (`git/operations.rs`) | a store | merge, diff, show, revert | Repository |
| command line (`git/git-prolly.rs`) | none; each command opens the store, calls it and ends | `set`, `delete`, `commit`, `merge`, `clear`, `sql -b` | Repository |
| worktree manager (`git/worktree.rs`) | the map of worktrees in memory; directories, HEAD files and lock files on disk | add, remove, lock, unlock, discovery, merges between worktrees | Worktrees |
| SQL layer (`sql.rs`) | rows and schemas under keys of one store | GlueSQL's storage traits | SqlStorage, SqlTables |
| agent memory (`agent/`) | documents under namespaces, in a store behind a lock | the typed stores, the lifecycle operations, commits and branches | AgentMemory |
| Python bindings and the thread-safe store (`python.rs`, `git/versioned_store.rs`) | one mutex per object, the interpreter's lock | every wrapper | PythonCalls |
| encodings, viewer, configuration, errors | | | not modelled, see section 7 |

How they interact. A tree calls its node storage and nothing else; a node's
operations get the storage as an argument and return the changed node, which
the caller puts in place. The store owns a tree, calls it when a commit, a
checkout or a merge changes keys, and runs `git` and writes files below `.git`
itself. A command of `git-prolly` opens a store, calls it once or more and
ends; what the next command sees is what is on disk. The worktree manager
writes below `.git` beside the store and opens a store of its own to merge. The
SQL layer and the agent memory own a store each and translate their calls to
its keys. The bindings keep each of these objects behind a mutex.

What is hard about it:

- *Balancing.* A node is rebalanced with the copy of its parent that was on the
  way down, found by its digest; digests leave out `level`, `is_leaf` and the
  two flags; batches leave roots unpersisted. The shape after a few operations
  is beyond what unit tests look at.
- *Writes in sequence.* `commit`, `checkout` and `merge` each make up to seven
  changes to disk and memory. A process may die, or a Git command fail, between
  any two of them.
- *Two names for the branch.* The parent of a commit comes from HEAD, the ref
  that is moved from `current_branch`, the tree of an opened store from a file
  that is neither.
- *Files rewritten in place.* Nodes are Git blobs found through a table that is
  rewritten line by line by inserts, as a whole by commits, reloaded by
  checkouts, and followed from a configuration in a file of its own.
- *Merging.* The base comes from a walk over histories, the destination from
  the tree and the staging area, and cases of "changed on both sides" are told
  apart key by key.
- *Several processes.* Nothing locks the repository: each process commits from
  the tree it has in memory, and `sql -b` borrows the branch of all of them.
- *Half-done lifecycle calls.* Cleanup, archiving and merging of memories walk
  a list read at the start, delete by an id that is not unique, and stop where
  one access fails.
- *Two kinds of locks.* The interpreter's lock is given up around some mutexes
  and taken again below others.

Each hazard, with the line where it bites and the properties about it, is in
`PROJECT.json` under `hazards`.

## 2. The modules

    RollingHash <- ProllyNode <- ProllyTree <- MCProllyTree
                   ConflictResolvers <- ProllyTree   ProllyTree implements Dictionary
    ProllyTree <- ProllyTreeProofs <- TreeOrderProofs
    ConflictResolvers <- VersionedStore <- StoreRefinement <- MCVersionedStore
                                 StoreRefinement <- VersionedStoreProofs
                                 StoreRefinement implements BranchedMap
    GitStorage <- MCGitStorage
    GitStorage, SqlStorage <- StorageProofs
    Repository <- MCRepository
    Repository <- RepositoryProofs
    Worktrees <- MCWorktrees
    Worktrees <- WorktreesProofs
    SqlStorage <- MCSqlStorage   SqlStorage implements SqlTables
    AgentMemory <- MCAgentMemory
    AgentMemory <- AgentMemoryProofs
    PythonCalls <- MCPythonCalls
    PythonCalls <- PythonCallsProofs

**RollingHash**. The hash over a window of `min_chunk_size` pairs, in machine
words of `Width` values, with the assumption that products fit (they do for the
program's defaults). XxHash of a key or value is a parameter of ProllyNode.

**ProllyNode**. A node as a record, the storage as a function from digests to
nodes, and `balance` with all its steps in the code's order: sort the appended
pair in, take in the right sibling, cut, store the pieces, make a new root or a
list for the parent. `StickyFlags` tells the storages apart that hand out
`split` and `merged` as they were written (the caches of the Git and RocksDB
storages) from those that clear them.

**ProllyTree**. One action per operation of the trait `Tree`; an action is the
whole recursion through the nodes, because a tree is not shared while it is
changed (`&mut self`). `view` and `savedView` are what `find` shows in this
tree and in one opened from the stored configuration. `MergeTrees` is
`merge_trees` for roots that are leaves: the pairs of three of them are
compared, conflicts go to a resolver of ConflictResolvers, and the results are
inserted and deleted one by one in any order, each with its balancing. The
recursions through the nodes are recursive functions over the number of calls
that are left, for which the number of stored nodes is always enough, so that
they can be proved about (ProllyTreeProofs); no module of the tree declares a
RECURSIVE operator.

**Dictionary**. What a tree promises: a map, answers that fit the map, a saved
map that only persisting operations change, and a merge that takes the
source's changes and asks the resolver where both sides differ from the base.

**VersionedStore**. One action per call that is atomic, and one per write of a
call that is not; `pc` says where the process is. Two groups of variables are
kept apart: what survives the process (`commits`, `refs`, `head`, `index`,
`diskTree`, `stagingFile`) and what does not (`tree`, `staging`, `branch`,
`todo`). `Faults` chooses among a process that dies between two writes, a
failing `git add` and a failing `git commit`. The tree is the map that module
Dictionary says it is. `commits[c].parents` is a set with at most one element,
because no code path writes two parents.

**BranchedMap**. What the store promises: a map edited in place and, per
branch, the sequence of the maps committed on it; no commits, refs or files.
**StoreRefinement** maps the store to it. A checkout takes effect there when it
has found the ref, a merge when it has resolved its conflicts; the several
writes of a commit are one step. `Unpromised` is the one weakness that had to
be let in: on a branch whose last commit is the empty map nothing is promised
about what is shown (see section 6).

**GitStorage**. The storage below the store: `objects` (blobs), `mappingFile`
(`prolly_hash_mappings`, its lines in order and whether a piece of a line ends
it), `configFile` (the root that `prolly_config_tree_config` names) and
`commits` survive the process; `mapping` (`hash_to_object_id`), `root`,
`rootHash` and what a call has yet to do die with it. A call of the tree is a
set of nodes to insert, children before parents and the root last, which is the
order of `balance`, `insert` and `persist_root`; which nodes a change makes is
left open, any set is allowed whose children are in it or in the tree before.
`insert_node`, the line in the table, each write of the configuration and the
rewriting of the table are steps of their own. `Faults` chooses among a crash
between two writes, a torn write and a blob that is not written. The LRU cache is
left out: what it holds the table leads to, unless a blob was not written. The
specification is `StorageSpec`, with names that do not meet SqlStorage's, as
StorageProofs is about both.

**Repository**. Several processes on one repository. `proc[p]` is what process
`p` has in memory, the other variables are the disk they share; a call of the
store is one step, as in the other direction VersionedStore has its steps and
one process. The kind of storage (`backend`) decides what `open` and `init` do
and what of an older commit can be read back: a commit of the Git storage by
its own configuration and table, one of a store in memory only if its nodes are
still there, one of a file store not at all. On top are GitOperations' merge
and revert and the commands, which are one step each except `sql -b`, whose
query runs between two. `stale` is a history variable: processes that have read
what another one has changed since.

**Worktrees**. Several managers on one repository, each write of
`add_worktree`, `remove_worktree` and the merges a step, with crashes between
them, and commits, branches and checkouts of the store around them. Merges are
the calls that lock their source (`merge_to_main`, `merge_branch`) and those
that do not (`merge_branch_with_store`, a worktree store's own merge), with the
store in `data` or without it, and the fallback that moves the target ref. The
merge of the opened store is reduced to whether it goes through and to its
commit. `asked` is a history variable: what a client holds locked.

**SqlStorage**. The storage traits over one store: schemas under `t:__schema__`,
rows under `t:key`, the text read back into a key by a scan. A statement is the
calls that GlueSQL makes of it. **SqlTables** is what a client sees: tables of
rows, no transactions.

**AgentMemory**. Documents with what the calls tell apart (namespace, id, tags,
creation, time to live, confidence, the facts in the content). A turn of a
conversation and each lifecycle operation is cut into its accesses to the
store; the other calls come between them. A merged document has the facts of
all its originals; a summary has any part of them, because `extract_summary`
keeps the first fifty words of their texts (`mem_lifecycle.rs:335`) and the
originals are deleted. The persistence is the store call by call: a map, and the
committed map of each branch. History variables: `due`, the facts stored and not
given up; `misled`, whether a call has removed another document than it meant
or an archived copy has been overwritten by one that lacks its facts; `raced`,
what came between the accesses of a call.

**PythonCalls**. The interpreter's lock, one mutex per object, and methods by
their shape: exclusive borrow or not, mutex inside `allow_threads` or not,
`with_gil` below the mutex or not, the manager's mutex too or not. A panic
poisons what its thread holds. What a method does is a read and a write of a
number. A process is an interpreter's, whose threads call the wrappers, or a Rust
program's, whose threads share thread-safe stores, managers and worktree stores
without any interpreter's lock (`running`): only there do two threads meet below
a worktree store's mutex and its manager's, as the Python wrappers of the two
never give the interpreter's lock up.

The modules whose names end in `Proofs` hold the theorems of section 5;
TreeOrderProofs has those about the tree that rest on the order of its keys,
StorageProofs those about GitStorage and about SqlStorage. The **MC** modules
give the constants their values for TLC.

Where the model is an abstraction:

- A digest is the pair of a node's keys and values, so there are no collisions.
  The code hashes the concatenation of keys and values without lengths; that
  two different nodes may concatenate to the same bytes is left out.
- Keys are numbers, values sequences of one number; `MCKeyHash` and
  `MCValueHash` stand in for XxHash and give matches at every few pairs.
- A call whose descent reaches an internal node without children panics in the
  code (`values[i]` of an empty vector); it has no step in the model.
- `KeysAt` takes a commit's map as what is read back from it. In the code this
  is a walk over configuration, mapping file and Git objects of the commit.
- GitStorage keeps of a torn file a beginning of its lines and perhaps a piece
  of the next, or no configuration that can be parsed; it has no garbage
  collection.
- VersionedStore and GitStorage have one process at a time; Repository has
  several, with whole calls as steps.
- `insert_batch` and `delete_batch` sort in the code as in the model;
  `SetToSortSeq` stands for that sort.
- SqlStorage's keys are texts that read back as they were written or as no
  integer; a text such as `007` is described in section 6.
- The facts of AgentMemory stand for contents; which of them the first fifty
  words of a summary hold is left open.
- No document of the memory counts as accessed, because nothing calls
  `mark_accessed`: a pruning with an `access_threshold` above 0 takes every live
  document, one with 0 those of low confidence. Clients that write the count
  themselves are left out.

## 3. The runs

Passing runs:

| Run | Question | Bounds, and why they are enough |
|---|---|---|
| TreeInsert | Is the tree the map a caller expects, are its leaves in order, its levels, cuts and proofs right, do old roots keep their contents, whatever is inserted, updated and reloaded, with a storage that hands out stale flags? | 4 keys, 2 values, 5 operations, window 2, matches about every other pair. A root splits at three keys, so that splits of leaves, of the root and merges with a sibling all occur; roots reach level 2. |
| TreeDelete | The same map for inserts, deletes, batches of two keys and merges of trees. | 4 keys, 5 operations. `Kept` = {1}: the least key is inserted first and never deleted, without which the property is false (TreeDeleteRemoves). Trees merged are leaves of up to two pairs that differ in value, in key or both; resolvers `ignore` and one that resolves nothing. |
| StoreFaults | What survives a process that may die between any two writes and Git commands that may fail; do branches only grow, and in which state do they not; does every call end? | 2 branches, checkout by short name and by `refs/heads/main`, 2 keys, 1 value, 4 commits, 6 calls. Six calls are enough for stage, commit, branch, checkout, merge and a call after it. Deadlock is checked. |
| StoreBranches | Without faults, is the store a map with branches, does a checkout show what was committed, is a merge the three-way merge? | 2 branches, 2 keys, 2 values, resolvers `take_source`, `timestamp` and one that resolves nothing, 4 commits, 7 calls: both branches can have changed both keys before they are merged. Deadlock is checked. |
| StorageCrash | Do the files on disk and the commits lead to whole trees, whenever a process dies? | 4 digests: two leaves, the node over them and the empty root, each of which can be the root, so that trees grow, shrink and share nodes; 4 calls and 3 commits: two changes or commits before a checkout or reopening and another after it, in every order of the lines of the table. Deadlock is checked. |
| Repository | Does what a process shows, commits, reverts and finds in a key's history agree with the branch, with another process at work on the repository? | 2 processes, 2 branches, 2 keys, 1 value, three kinds of storage (a file store differs from a RocksDB store in nothing that is modelled), 4 commits, 8 calls: enough for one process to open, stage, commit, branch and check out while another one opens, commits, reverts or runs `sql -b`. Keys are symmetric. |
| WorktreeLocks | Does a manager know what is on disk, and does a merge give its lock back on all its ways out? | 2 managers, 1 linked worktree besides the main one, 2 branches, 4 commits, 4 calls: add, lock, merge by one manager and a call of the other at any step. |
| SqlStatements | Are the pairs in the store the tables a client expects, and does an INSERT of many rows overwrite none of its own? | 2 tables, 2 rows, 3 integer keys and the strings that look like them, one string that does not, 6 statements: create, two INSERTs under chosen and generated keys, DELETE, and two more. |
| MemoryLifecycle | Does the thread keep its limit, is nothing lost but what a call was told to delete and a summary leaves out, has a call that answers well done all of its work? | 1 thread with a limit of 1 turn, 3 documents, 4 calls, 3 moments: two documents expire or are merged while a third is stored. Templates: documents stored directly under chosen and fresh ids, a rule and a working memory, so that ids collide and sub-namespaces occur. |
| PythonThreads | Is an update lost, do two threads wait for each other, does every call return? | 2 Python threads with one object of every kind, or 2 Rust threads with a shared store, a worktree store and its manager; 3 calls, each with every shape of method: both threads are in a call at once and one comes back, after a panic too. |

The tree's runs, and those where `MaxOps` or `MaxCalls` ends every behaviour,
switch the deadlock check off. `MaxCommits` and `MaxCalls` bound the store's
behaviours; a process that has made all its calls can still be closed and opened.

In the tree's runs with a window of two pairs no insert strays (takes in another
node than its parent drops); straying needs a leftmost child that is alone below
its parent, which chunks of one pair give after six inserts (TreeSmallChunks).

The properties:

- *ImplementsDictionary*: every operation changes what `find` shows as the map
  would and answers as the map would; this is a refinement over all orders of
  splits, sibling merges, batches, merges and reloads.
- *LeavesSorted*: the leaves hold each key once, in order, and exactly the keys
  that `find` finds. A key that descends to the wrong leaf breaks it.
- *LevelsMatch*: children are stored, one level below their parents, leaves
  exactly at level 0, although the digest has neither level nor `is_leaf` in it.
- *CutsAtWindows*: a chunk ends where the hash of its last `MinChunk` pairs
  alone, computed from scratch, matches the pattern, and nowhere before.
- *OldRootsKeepContents*: no step changes what an older root shows; the digests
  in older commits rest on that.
- *ProofsVerify*: a generated proof verifies exactly for the keys in the tree.
- *CollectsKeys*: `collect_keys` gives the keys of the tree (without deletes).
- *CrashKeepsView*: between calls, what the process shows is what one that
  opens the store anew shows.
- *RefsAdvance*: no call but `branch` and `create_branch` takes a commit off a
  branch, over failures, crashes and reopenings. One case is excepted and the run
  does reach it: where HEAD names a branch that is not born and a reopening has
  taken `main`, the next commit drops `main`'s history (section 6).
- *CallsEnd*: every call ends.
- *TreeIsCommitted*: between calls the tree is the content of HEAD's commit.
- *MergeIsThreeWay*: a merge keeps the destination's side of a key the source
  did not change and takes the source's side of a key the destination did not.
- *ImplementsBranchedMap*: the refinement to BranchedMap.
- *SavedTreeReadable*: at every moment, within a call too, the configuration and
  the table on disk lead to all nodes of a tree. A node is given a line only if
  the table in memory lacks it, so this rests on the two tables agreeing
  through inserts, commits, checkouts and reopenings. Torn writes and blobs
  that are not written (`damaged`) are excepted; the code cannot mend them.
- *CommitsReadable*: the same of every commit with its own table.
- *DiskIsHead*: the saved tree is the content of HEAD's commit, whatever the
  interleaving of processes; each of them rewrites both.
- *CommitsOnlyStaged*: a commit follows the tip of its branch and differs from
  it in staged keys only, unless another process has written since this one
  read. What happens otherwise is in section 6.
- *RevertUndoes*: a revert, of HEAD's commit or of an older one, gives the keys
  that commit changed the value from before it and no other key another value.
- *KeyHistory*: the newest commit that `get_commits_for_key` lists for a key
  gave it the value it has.
- *SqlLeavesNoTrace*: after a query of `sql -b` that was answered, HEAD names
  the branch it named before and the next process shows that branch.
- *KnownMatchesDisk*: what a manager knows of a linked worktree (its directory,
  branch and lock) is what is on disk, through two managers' calls and crashes.
- *MergeReturnsLock*: between calls a worktree is locked exactly if a client has
  locked it. *MergeLocksEnd*: the lock a merge took goes, or its process dies.
- *ImplementsTables*: the refinement to SqlTables: an INSERT overwrites no row,
  UPDATE and DELETE reach the rows they saw.
- *InsertsAddAllRows*: an INSERT of many rows without keys stores each of them, in
  order, under a counter that was free, and changes nothing else; its own rows
  could overwrite each other if the free counter were not looked for anew.
- *TurnsBounded*: a thread has no more turns than its limit, although the limit
  is read in one access and the turn written in another.
- *NothingLost*: a lifecycle call, failed, broken off or whole, keeps every fact
  that was stored and has not expired, been deleted, overwritten, pruned or left
  out by a summary: a merge or a summary is written before its originals go, and
  what is left after a failure half way still has all of it.
- *SuccessMeansDone*: a cleanup or a pruning that answers well has left none of
  the documents it was there for.
- *NoLostUpdate*: between a method's read and write no other thread writes.
  *NoEmbrace*: no thread that holds the interpreter's lock waits for a mutex
  whose holder waits for that lock. *CallsReturn*: every call returns.

*NothingLost*, *TurnsBounded* and *SuccessMeansDone* hold until a call removes
another document than it meant (`misled`), the first and the last of the three
also only while no other call changes the store between the accesses of a
lifecycle call, *TurnsBounded* only while no branch is checked out between the
accesses of any call (`raced`): the code has no protection against any of this,
and section 6 says what happens then. Two documents of one id, which every
archiving leaves, are no exception by themselves; only a deletion that takes the
wrong one of them is.

Every property of a passing run has a mutant in `PROJECT.json`: a definition
changed the way a plausible bug would change the code, under which TLC finds
the property violated. The mutated forms stand in the modules before the
definitions they replace, marked "mutant".

Runs that end in a violation, each a disagreement between the code and its
documentation or tests:

| Run | What TLC finds |
|---|---|
| TreeDeleteRemoves | A key that `delete` has reported as deleted is found again: an insert below the least separator leaves the separator above as it is, so that the leaf that a delete has just shortened looks its next sibling up (`node.rs:433`) and gets its own stored copy, from before the delete, and joins it. |
| TreeSmallChunks | With `min_chunk_size` 1, which `python.rs:55` has as its default, an insert can change another key: a leftmost child is joined with a node that is not the one its parent drops, because the one finds the sibling by comparing separators and the other by its position. |

## 4. Fairness

Three runs check liveness, each under fairness of what has begun; a new call, a
crash or a panic is never forced.

- StoreFaults: `FairSpec` adds `WF_vars(Continue)` to `Spec`: a call that has
  begun runs on. The code justifies it, as a call waits for nothing outside of
  its process but the `git` commands it starts, and its loops run over finite
  data. *CallsEnd* is checked with crashes and failures possible. Without the
  type invariant's clause that parents are older than their commits the walks of
  `find_merge_base` would be a loop; that clause is proved.
- WorktreeLocks: `WF_vars(Continue(m))` for each manager, for the same reason:
  the manager's calls wait for nobody.
- PythonThreads: `WF_vars(Run(t))` (a thread that can run does, and a free mutex
  is taken at last; calls are bounded, so that nobody can be overtaken for ever),
  `WF_vars(Yield(t))` and `SF_vars(Regain(t))` (CPython makes the holder of its
  lock drop it at the switch interval and hands it to a thread that waits).

## 5. What is proved

The theorems of VersionedStoreProofs are about the store's `Spec` for every set of
keys, values, branches, checkout names and every bound. They assume
`StoreAssumptions` (`Main` is a branch, `Unstaged` is no side, faults and
resolvers are among those that exist) and `NoValueAssumption` (the mark for an
absent key is no value); the first three hold with every fault, the other three
name what they need.

- `TypesCorrect`: `Spec => []TypeOK`. The inductive invariant `TInv` adds to
  `TypeOK` that, while `create_branch` runs, the argument it will write to HEAD
  is a branch. The part that matters is that refs and parents lead to commits
  written earlier; it needs that a ref only ever moves to the last commit or to
  HEAD's.
- `ReopenKeepsView`: `Spec => []CrashKeepsView`. Inductive is `DInv`: between
  the writes of a call, the tree on disk is the tree in memory unless a
  checkout has just emptied the latter (`TreeOnDisk`), and the staging file
  agrees with the staging area where it matters: while a commit drains the
  area, an entry the file has and the area has lost is one the tree already
  shows (`FileCovers`), otherwise they are equal (`FileIsArea`). This is the
  argument why commit may die between applying its changes and rewriting the
  staging file: applying the file's entries again changes nothing.
- `BranchesOnlyGrow`: `Spec => RefsAdvance`. Inductive is `RInv`: `HEAD` leads
  to a commit once it names a branch (`HeadIsBorn`), while it does
  `current_branch` is the same branch except inside a switch (`BranchIsHead`),
  and between writing a commit and moving the ref the last commit is a child of
  what the ref leads to (`NewCommitExtends`). A qualified name in HEAD is no
  branch, and `BranchIsHead` then says that `current_branch` is `main` or no
  branch: a commit made there moves no branch but `main`, and `main` only after a
  reopening, which is the exception that *RefsAdvance* states.
- `TreeStaysCommitted`: with no faults, `Spec => []TreeIsCommitted`. `CInv` adds to
  the two invariants above how far each call has brought tree, disk, index,
  commit and ref in line (`CommitFollowsTree`), that HEAD of a branch being
  created is the commit of the old one (`NewBranchIsHead`), and that the pairs a
  checkout has yet to insert make the commit out of the tree (`RebuildsHead`).
  Closing and opening is allowed everywhere between calls; with a fault the
  theorem is false, since a failing `git add` leaves the index behind.
- `MergesAreThreeWay`: with no faults and short names in checkout,
  `Spec => MergeIsThreeWay`. A qualified name makes HEAD a branch that is not
  born, and a reopening then leaves the tree of one branch on another, for which
  the property is false. `SInv` adds that commits have one parent at most
  (`Linear`), that what is drained or dropped is no longer staged, and that while
  a merge runs tree and rest are together a three-way result (`MergeRuns`). The
  base is found by a walk over all ancestors: `AncestorsUnfold`,
  `AncestorsChain` and `BaseIsForkPoint` show by induction over the number of a
  commit that the walk ends at the last commit the two branches share.
- `StoreImplementsMap`: with short names, no faults and every resolver but
  `semantic`, `Spec => ImplementsBranchedMap`. Each action is a step of the
  map or none (`Refines`, one lemma per action). It rests on `SInv`, on what a
  branch's history is (`LogUnfold`, `LogEnds`) and on a new commit changing no
  older history (`LogIsStable`). The semantic resolver is excluded because
  what it gives may be a blend of the two sides, and the map promises one of
  them; no run uses it, and its field merge is a parameter (`MergeJson`).

The theorems of RepositoryProofs are about any processes, keys, values, branches
and kinds of storage (`RepositoryAssumptions`).

- `InvariantHolds`: `Spec => []IInv`, from which the others follow. The step that
  carries it is `FreshIsHead`: a process that nobody has overtaken (not in
  `stale`) is on HEAD's branch and its tree is HEAD's content, unless that is
  empty; `MemoryHasHead` says that it has the nodes of that commit too where
  nodes are only in memory, without which a revert of HEAD would read nothing;
  `BackIsBorn`, that the branch `sql -b` returns to has a commit.
- `TypesHold`, `DiskFollowsHead`, `CommitsUndoNothing`, `RevertUndoesCommit` and
  `SqlRestoresBranch` state *TypeOK*, *DiskIsHead*, *CommitsOnlyStaged*,
  *RevertUndoes* and *SqlLeavesNoTrace*.
- `HistoryExplains`: `Spec => []KeyHistory`. The walk of `get_commits_for_key` is a
  recursive function over a history of any length; `HistoryUnfolds` shows by
  induction that it takes one commit at a time, `NewestChange` that the first it
  lists gave the value.

The theorems of StorageProofs about SqlStorage are about any tables, rows, texts
and any reading and writing of integers that fit each other (`SqlAssumptions`,
with finitely many integers, as they have 64 bits).

- `TypesHold`: `Spec => []TypeOK`.
- `StatementsImplementTables`: `Spec /\ CanonicalInserts => ImplementsTables`.
  `CanonicalInserts` says that no INSERT names a string that reads as an integer
  written in another way (`"007"`, section 6); the runs have no such strings.
  Inductive is `IInv`: in the store and in the snapshot of a transaction, each row
  is under a text that is written as it is read. Two row keys then never share a
  storage key.
- `InsertsAreWhole`: `Spec => InsertsAddAllRows`, without that condition. By
  induction over the rows of one INSERT (`AppendDataRuns`): the generated keys, each
  the smallest free number, were free before, grow, and each keeps its row.

The theorems of AgentMemoryProofs are about any threads (at least one), names,
templates of the typed stores, branches, limits and times (`MemoryAssumptions`).

- `TypesHold`: `Spec => []TypeOK`. Inductive is `TInv`, which adds that ids of new
  documents and summaries have a number below `made`, so that the next is fresh,
  and that no client's id is one of those.
- `NothingIsLost`, `SuccessIsComplete`: `Spec => []NothingLost` and
  `Spec => SuccessMeansDone`. Inductive is `LInv`. Its core is `Kept`: as long as
  nothing comes in between, what a lifecycle call has in hand is in the memory,
  what is due is held by documents that wait for no deletion, and a cleanup or
  pruning has in hand all that it must look at. `Resting` says that only merged
  and summarized documents wait for deletion. A delete that does not miss removes
  the document it was given (`GetFindsOne`).
- `ThreadsAreBounded`: `Spec => []TurnsBounded`. What a turn would delete is below
  a thread, where no deletion finds it: a full thread refuses, or the deletion
  takes another document, which is `misled` (`TurnMisses`). `BInv`: a turn about
  to be written finds room; and a document of a thread that a merge has read is
  there in the same or a later version (`Follows`), so that writing it back takes
  the place of a turn that counts (`Covered`) instead of adding one. That is where
  a checkout in between would break it.

The theorems of StorageProofs about GitStorage are about `StorageSpec` with every fault,
for every finite set of digests and every relation of nodes to children
(`StorageAssumptions`: the empty root has no children, the unreadable
configuration is no digest).

- `StorageTypesCorrect`: `StorageSpec => []StorageTypeOK`, by itself inductive; it
  says that both tables lead to blobs only, even after torn writes.
- `SavedTreeStaysReadable`, `CommitsStayReadable`: *SavedTreeReadable* and
  *CommitsReadable* always hold. Inductive is `StorageInv`: as long as nothing is
  damaged, the two tables are closed under children and differ at most by the
  node whose line is being written (`TablesAgree`), what a call has yet to
  insert has its children in the table or still to come (`CallInOrder`), and the
  table of each commit is closed and has its root (`CommitsClosed`). A closed
  table with a root in it has the whole tree below the root
  (`ClosedHasTree`), which is how reachability is kept out of the induction.

The theorems of WorktreesProofs are about any number of managers, worktrees and
branches, with and without crashes. They assume `WorktreeAssumptions`: the main
worktree is none of the linked ones, `Main` is a branch and `NoBranch` is none.

- `WorktreesTyped`: `Spec => []TypeOK`. What matters in it is that the fallback
  of a merge writes a ref to a commit that exists, although it read the commit
  two steps before.
- `MemoryIsDisk`, `LocksComeBack`: `Spec => []KnownMatchesDisk` and
  `Spec => []MergeReturnsLock`. Inductive is `IInv`. Its core is `OneHolder`:
  a directory is in the hands of one manager at most, the one that is making
  it, knows it or is removing it, so that no other manager changes what is on
  disk of it. A crash leaves a directory in nobody's hands; that it stays there
  rests on the discovery that finds no linked worktree (section 6), and a
  discovery that did find them would need locks between managers for the
  theorem to hold. `CallInHand` says how far a directory being made is
  complete, `LocksHaveDirs` that a new id finds no old lock file, `LocksAsked`
  that a linked worktree is locked by its client or by the merge under way, and
  not by both.

The theorems of PythonCallsProofs are about any number of Rust and Python
threads and of objects. They assume `CallAssumptions`: there is an object,
agents, SQL stores and worktree stores are objects of no other class, every
worktree store has its manager, which Rust or Python knows if it knows the
store, and a thread is either Rust's or Python's.

- `LocksAreHeld`: `Spec => []TypeOK`; the interpreter's lock and each mutex are
  with the thread whose program counter says so, through panics.
- `UpdatesStay`, `NobodyEmbraces`: `Spec => []NoLostUpdate` and
  `Spec => []NoEmbrace`. Inductive is `IInv`: with `TypeOK`, every method that
  comes back to the interpreter below a mutex has given the interpreter's lock
  up before it took the mutex, and all methods of the objects concerned do the
  same (`CallsFit`). This is a fact about the table of methods, which each new
  method of those classes has to keep.

The theorems of ProllyTreeProofs are about trees of any height over any keys,
values, chunk sizes and hashes of keys and values, for both kinds of storages and
every operation unless a theorem says otherwise. They assume `TreeAssumption` (keys
have an order, a value is not the digest of a node) and `ChunkParameters`.

- `TypeCorrect`: `Spec => []TypeOK`. Inductive is `Typing`: nodes and what is
  stored are well-formed, every stored node lies under its own digest, what has
  been persisted is stored. Each operation is a recursion through the nodes of
  which TLAPS must know what it returns at any depth; `InsertInduction`,
  `DeleteInduction` and `DescentInduction` reduce this to one step from a node to
  its child, for any family `G[d]` of sets of answers.
- `ChunksEndAtWindows`: if `MinChunk < MaxChunk` and the hashes are below
  `Modulus`, `Spec => []CutsAtWindows`. The hash carried along the node is a sum
  modulo `Modulus` (`HornerUnfold`, `SumShift`); the first window and each shift
  of it give the hash of the window alone (`InitialHash`, `UpdatedHash`), in
  machine words of `Width` as long as the products fit.
- `ProofsAlwaysVerify`: without the two batch calls,
  `Spec => []ProofsVerify`. They leave a root that is not stored, for which
  `verify` answers no to every proof; without them the root is stored at any
  moment (`Rooted`), and a descent from it is a path that `verify` accepts.
- `OldRootsKept`: with storages that clear the flags,
  `Spec => OldRootsKeepContents`. An insert may write a node under a digest that is
  taken, with another `level`, other flags or another `is_leaf`. A digest has one
  height (`Leveled`: the values of a leaf are not digests, those of a node above
  are), which determines `is_leaf`; that and the pairs are all a descent looks
  at (`SameContents`). The storages with sticky flags hand out nodes with
  `split` set, and are left to TLC.

The theorems of TreeOrderProofs are about `insert`, `update`, `insert_batch`,
`persist_root` and `load_from_storage` on a storage that clears the flags
(`Inserting`), for any keys, values, batches, chunk sizes and hashes and trees of
any height. Each is about the states before a join first takes a node other than
the next sibling of the node that joins (`JoinsNeighbour`, which follows the
history variable `strayed`).

- `InsertsFormDictionary`: `Spec /\ []JoinsNeighbour => ImplementsDictionary`. The
  tree is the map that its callers expect, whatever an operation splits, joins
  and collapses.
- `InsertsChangeOneKey`: under the same hypothesis an insert leaves what `find`
  shows of every other key as it was (*InsertKeepsOthers*). TreeSmallChunks
  refutes this where a join strays: taken together, a stray join is the only way
  in which an insert can change another key.
- `InsertsKeepLeavesSorted`, `InsertsCollectKeys`:
  `Spec => [](JoinsNeighbour => LeavesSorted)` and the same of *CollectsKeys*.

The argument. What is below a node is said level by level: a `Layer` gives, for a
separator and the digest beside it, the pairs below (`part`), and says of which
digests, with which lower bound, the rows are in order (`ok`). `Tree(n, st, P)`
says that `n` is the root of a tree with the pairs `P` in the storage `st`, with the
keys of each child between its separator and the next. Only the first child of a
node may have keys below its separator, down to the bound it inherits, because
an insert of a new least key goes there and leaves the separators above as they
are. A store that grows keeps the layers it has. An insert at any depth answers
with a row of pieces that has the pairs of the node and the new one, and this is
shown for each step of `balance` by itself: sorting in, taking in the sibling,
cutting, storing the pieces, splicing their list into the parent, making or
dropping a root. `InsertInduction` carries it from a child to its parent.
Inductive is `Planting`: `Typing`, `Leveled`, `view` and
`savedView` are what `find` shows from the two roots, and both roots are trees
unless a join has strayed (`Planted`).

Deletes are left out because the invariant is false with them: a delete leaves
separators that are keys of no leaf below, and TreeDeleteRemoves shows what follows. The
hypothesis about joins is not vacuous, since every behaviour TLC explores in
TreeInsert and TreeDelete satisfies it; whether chunks of two or more pairs can
stray at all is not proved.

Each theorem follows the same plan: `Init` gives the invariant, every action
keeps it (one step per action), the invariant gives the property, and PTL
combines the three.

Recursive functions are unfolded by `CourseOfValues`: a set of naturals that has a
number whenever it has all smaller ones has them all. It is stated with a set,
because the provers cannot instantiate the library's rule, which takes a
predicate; `LeastNat` derives it from the library's fact that finite subsets are
well-founded. The modules that need the two have them at their beginning.

Only model-checked:

- liveness (*CallsEnd*, *MergeLocksEnd*, *CallsReturn*), which is beyond the prover;
- *LevelsMatch*: a node that has been cut is stored as the list of its pieces,
  with the level below them, and one would have to show that no descent reaches
  such a list under a digest that a node has too;
- *ImplementsDictionary*, *LeavesSorted*, *CollectsKeys* and *OldRootsKeepContents*
  with sticky flags, and the first two with deletes and `merge_trees` (in the
  runs, as long as the least key stays);
- that no join strays with windows of two pairs or more.

## 6. Disagreements seen without a run of their own

Tree:

- `find`, `insert` and `delete` index `values[i]` of an internal node that a
  delete has emptied and panic (`node.rs:690`, `:810`, `:900`).
- `delete` of 5 after inserting 2, 4 and 5, deleting 2 and 4 and inserting 1:
  the leaf {1, 5} hangs under separator 2 because inserts leave the separators of
  the first child as they are. The leaf left by the delete is {1}, the first
  separator above 1 is its own, and the copy stored for it is {1, 5}, which the
  balance joins: 5 is there again, 1 twice, and delete has answered true
  (`node.rs:433`; run TreeDeleteRemoves).
- The shape and with it the root's digest depend on the order of the insertions
  (`node.rs:749`), where `node.rs:1350` speaks of trees that "are the same
  regardless of the insertion order": a node that has been cut is not joined
  again when later keys change its windows.
- `verify` accepts as the value of a key the value of any key of its leaf
  (`tree.rs:571`), where `tree.rs:489` speaks of "the existence of the key and
  its associated value".
- `max_chunk_size` "is the maximum number of key-value pairs in a node"
  (`node.rs:35`), but `chunk_content` compares it with `end - start`, and
  `start` moves with `end` (`node.rs:538`): nodes have no upper bound.
- With `min_chunk_size` 1 and a pattern of 0, which `python.rs:55` passes by
  default, every pair is a match and the depth grows with the number of keys.
- `collect_keys` lists separators of internal nodes (`tree.rs:1084`), which a
  delete leaves behind.
- A storage that returns nodes with their flags (`git/storage.rs:167`) lets a
  delete splice the pieces of an earlier split into the parent again. With
  `insert_batch` inserts suffice: a batch leaves the root unsaved (`tree.rs:44`),
  the node below finds no parent and no sibling, and one that is handed out with
  `merged` set makes the parent drop a child that nobody took in
  (`node.rs:722`). TLC finds the lost key if TreeInsert.cfg is given
  `Enabled = {"insert", "insert_batch"}`.
- Digests leave `level` out, and a node that has been cut is stored as the list
  of its pieces with the level below them. After `insert_batch` such a list can
  overwrite the node of the same digest in the tree that the configuration names;
  reopened, that tree has a root of a level too low, and `depth()` and the
  check for a root with one child read it. *LevelsMatch* fails in four steps with
  `Enabled = {"insert", "insert_batch", "load_from_storage"}`.
- `diff` and `merge` compare the pairs of leaves only; of roots above leaves
  they compare separators and digests (`tree.rs:1001`), and `merge_trees`
  then inserts digests as if they were values. When one of the roots is missing
  in the storage a resolver that ignores conflicts makes `merge_trees` insert a
  pair with the key `<merge_error>` (`tree.rs:645`).

Store:

- A failing `git add` is a warning (`versioned_store.rs:267`); the commit then
  records the tree of an earlier one.
- `checkout("refs/heads/main")` writes `ref: refs/heads/refs/heads/main` to
  HEAD (`versioned_store.rs:978`), a branch that is not born. A process that opens
  the store from there takes `main` for its branch (`:1484`), finds no commit at
  HEAD, so that its first commit has no parent (`:502`), and writes it to
  `refs/heads/main` (`:538`): all of `main`'s history is gone from the branch. A
  checkout of any other qualified name does the same to `main`.
- A key deleted on one side and modified on the other is no conflict for
  `merge` (`versioned_store.rs:1102`): the deletion wins and no resolver is
  asked, where `:1007` promises "Err with unresolved conflicts".
- The merge commit has HEAD as its only parent (`versioned_store.rs:1316`),
  where `:1311` says "Create merge commit with two parents".
- After a checkout of a commit without keys the saved configuration still leads
  to the tree of the branch that was left, which the next process shows
  (`versioned_store.rs:1371`).
- After a torn write of the table, `open` warns that it cannot load the saved
  root and makes a new tree "rather than creating a new empty tree that would
  overwrite the config" (`versioned_store.rs:1474`); its digest is that of the
  empty tree, and the next commit writes it.
- Commits on a file or RocksDB storage record no configuration
  (`versioned_store.rs:2455`), so that each reads back as the empty map
  (`:2055`); the test at `:3167` passes because a configuration lies at the root
  of its repository.
- A process whose tree is out of date commits that tree, which undoes what
  another process has committed since. `docs/storage.md:95` says "Not safe for
  concurrent writers", of the file storage only.
- Opening or initialising a store in memory anew commits an empty tree, and the
  nodes of its older commits are gone.

Git operations and the command line:

- `git-prolly merge` and `GitOperations::merge` fast-forward by checking the
  other branch out: it is HEAD that moves, not the branch.
- `show`, `diff` and `revert` take for HEAD's commit what the store shows,
  staged changes included.
- `sql -b` with a query that fails ends before it goes back
  (`git-prolly.rs:1133`), so that the other branch stays checked out;
  `docs/sql.md:131` says that the original branch is restored. `-b <commit>`
  never works, although `docs/sql.md:121` has it as an example. A text that
  begins with a SELECT may hold other statements too.
- `clear` opens the store a second time to drop what is staged and reads the
  staging file again, so that it is still there.

Worktrees:

- Discovery looks linked worktrees up in the map it is about to fill
  (`git/worktree.rs`, `find_worktree_name`): a new manager knows none of them.
- A merge whose source is the main worktree locks it with `index.lock`, which
  makes the store's own `git add` fail; any failure of the store's merge falls
  back to moving the target's ref to the source's commit
  (`git/worktree.rs:802`), although the store is there.

SQL layer:

- A string key that reads as an integer comes back as that integer: `"007"` is
  fetched as 7 afterwards and not found. A string key `__schema__` is the
  schema's.
- A dropped table keeps its rows; a table of the same name created later has
  them. ROLLBACK does nothing, as the code says. A scan of table `t` takes in
  the rows of a table named `t:x`.

Agent memory:

- `get` by id looks only at documents without a sub-namespace, so that
  `get_working_memory`, `update_rule_status` and the deletion of a turn fail to
  find what they stored; a full thread refuses new turns
  (`mem_short_term.rs:272`), and cleanup, prune and merge stop at the first
  such document with an error.
- prune and the other lifecycle operations delete by id: a document of the same
  id in another namespace goes instead (`mem_lifecycle.rs:425`).
- summarize keeps the least important documents: the list is sorted with the
  most important first, and what is kept is split off its end
  (`mem_lifecycle.rs:237`), whose first fifty words the summary has
  (`:335-347`); the rest of them is deleted (`:249-251`).
- archive leaves the originals beside their copies, two documents of one id. A
  merge after it can take the copy for its first document and delete the
  original, or, by the id, the merged document itself. Archiving again after a
  rollback overwrites a copy that can have other facts.
- A pruning with an `access_threshold` above 0 deletes every live document, as
  nothing calls `mark_accessed` (`mem_lifecycle.rs:422-424`).
- Merging a permanent with an expiring document makes one that expires.
- `rollback(commit id)` drops the changes and then fails (`agent/mod.rs:470`).
- A rollback or checkout while memories are merged: the merge saves what it had
  read (`mem_lifecycle.rs:105`) although it is gone from the branch that is found
  now, beside turns stored since, so that a thread can have more turns than its
  limit. TLC finds this with five calls once *TurnsBounded* leaves `raced` out.
- The prefix of thread `t1` is one of thread `t10`'s too.

Python bindings:

- `insert` keeps its exclusive borrow while the interpreter's lock is given up:
  calls of other threads raise "already borrowed" instead of waiting.
- After a panic the wrappers of that object panic for ever, while
  `ThreadSafeVersionedKvStore::get` answers None. A poisoned manager poisons
  each worktree store that asks it (`git/worktree.rs:923`).
- `diff` of the tree gives empty results (`python.rs:323`), `execute_many` is
  not atomic.

## 7. What is not modelled

Encodings write values out. The viewer `prolly-ui` and the commands that only
print have no state of their own, nor have configuration, errors and tracing.
Text search and embeddings of the agent memory choose among documents and change
none. The in-memory persistence of the agent memory and the files of the file
and RocksDB storages are written whole by one call each and have no steps to
interleave. Log, diff and statistics answer from commits that never change.

Within the modelled components: multi-level roots in `merge_trees` (what it does
there is no merge, see section 6), the merge of the store that a worktree
manager opens (VersionedStore has it), garbage collection of Git objects
(`docs/storage.md` warns of it), and the text of keys, messages and documents.

## 8. Plan

In this order:

1. Node storages: the cache of the Git storage with blobs that are not written,
   the file and RocksDB storages, and an abstract map from digests to nodes
   that the three implement or fail to.
2. Merge and diff of two trees whose roots are above leaves, as the walk over
   separators that the code makes.
3. The store's steps of VersionedStore in two processes, below the calls that
   Repository interleaves.
4. Proofs about the tree that are left: *LevelsMatch* of the insertions, for
   which lists of pieces must be shown to be unreachable; that no join strays when
   chunks have two pairs or more; the order of keys below each separator through
   deletes, with an invariant that allows separators that are keys no more; and
   the storages with sticky flags.

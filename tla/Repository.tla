----------------------------- MODULE Repository -----------------------------
(***************************************************************************)
(* Several processes on one repository.  A process opens the dataset and   *)
(* keeps a tree, a staging area and a branch of its own in memory; the     *)
(* refs, HEAD, the tree configuration and the staging file are shared and  *)
(* nothing locks them.  The processes are library users of                 *)
(* VersionedKvStore (each of its calls is one step here, as the mutex of   *)
(* ThreadSafeVersionedKvStore makes it for threads; module VersionedStore  *)
(* has the writes within a call), the Git operations of                    *)
(* src/src/git/operations.rs and commands of src/src/git/git-prolly.rs:    *)
(* those that open the store, make one call and end, which are one step    *)
(* each, and sql -b, which changes the branch of the repository while its  *)
(* query runs.                                                             *)
(*                                                                         *)
(* backend is the storage the store was made with.  It decides what open   *)
(* and init do, and what of an older commit can be read back.              *)
(***************************************************************************)
EXTENDS Naturals, Sequences, FiniteSets

CONSTANTS Keys, Values,
          NoValue,      \* no value for a key
          Unstaged,     \* no entry in a staging area
          Branches, Main,
          Processes,
          Backends,     \* the storages to start from, see BackendKinds
          MaxCommits,   \* bound on the commits of a behaviour
          MaxCalls      \* bound on the calls of a behaviour

BackendKinds == {"git", "memory", "file", "rocksdb"}

ASSUME RepositoryAssumptions ==
    /\ NoValue \notin Values /\ Unstaged \notin Values \cup {NoValue}
    /\ Main \in Branches
    /\ Backends \subseteq BackendKinds
    /\ MaxCommits \in Nat /\ MaxCalls \in Nat

VARIABLES backend,      \* VersionedKvStore::storage_backend
          commits,      \* the commit objects, in the order they were written
          refs,         \* refs/heads: a branch to a commit, 0 when there is none
          head,         \* the branch HEAD refers to
          diskTree,     \* the tree the saved configuration leads to
          stagingFile,  \* PROLLY_STAGING_<dataset>
          proc,         \* what each process has in memory
          stale,        \* processes whose repository another one has changed since they read it
          op,           \* the last call, who made it and its argument
          calls         \* number of calls so far

disk == <<commits, refs, head, diskTree, stagingFile>>
vars == <<backend, disk, proc, stale, op, calls>>

Sides == Values \cup {NoValue}
Trees == [Keys -> Sides]
Areas == [Keys -> Sides \cup {Unstaged}]
EmptyTree == [k \in Keys |-> NoValue]
EmptyArea == [k \in Keys |-> Unstaged]

(* stored: the trees whose nodes are in the process's own node storage,    *)
(* which is where a store in memory has them; back: the branch sql -b is   *)
(* to go back to.                                                          *)
NoProcess == [state |-> "closed", tree |-> EmptyTree, staging |-> EmptyArea,
              branch |-> Main, stored |-> {}, back |-> Main]

Override(t, area) == [k \in Keys |-> IF area[k] = Unstaged THEN t[k] ELSE area[k]]

Shown(p) == Override(proc[p].tree, proc[p].staging)

HeadCommit == refs[head]

MapOf(c) == IF c = 0 THEN EmptyTree ELSE commits[c].map

Called(name, p, arg) ==
    /\ calls < MaxCalls
    /\ calls' = calls + 1
    /\ op' = [name |-> name, by |-> p, arg |-> arg]
    /\ UNCHANGED backend

(* p has written refs, HEAD or the configuration: what the others have     *)
(* read is out of date.                                                    *)
Overtakes(p) == stale' = (stale \cup {q \in Processes : proc[q].state # "closed"}) \ {p}

-----------------------------------------------------------------------------
(* Calls of the store                                                      *)

Stage(p, k, side) ==
    /\ proc' = [proc EXCEPT ![p].staging[k] = side]
    /\ stagingFile' = proc'[p].staging
    /\ UNCHANGED <<commits, refs, head, diskTree, stale>>

Insert(p, k, v) == proc[p].state = "open" /\ Called("insert", p, k) /\ Stage(p, k, v)

Delete(p, k) ==
    /\ proc[p].state = "open" /\ Shown(p)[k] # NoValue
    /\ Called("delete", p, k)
    /\ Stage(p, k, NoValue)

\* mutant: the ref is written for a commit that does not exist yet
MoveBranchTooFar(branch) ==
    /\ refs' = [refs EXCEPT ![branch] = Len(commits) + 2]
    /\ head' = branch

(* update_head: the branch the process remembers, then HEAD                *)
MoveBranch(branch) ==
    /\ refs' = [refs EXCEPT ![branch] = Len(commits) + 1]
    /\ head' = branch

(* The parent is the commit HEAD leads to.  The whole staging area becomes *)
(* part of the tree, and the staging file is written empty.                *)
Committed(p, branch, map) ==
    /\ Len(commits) < MaxCommits
    /\ commits' = Append(commits, [parent |-> HeadCommit, map |-> map])
    /\ MoveBranch(branch)
    /\ diskTree' = map
    /\ stagingFile' = EmptyArea
    /\ proc' = [proc EXCEPT ![p] = [proc[p] EXCEPT !.state = "open", !.tree = map,
                                                   !.staging = EmptyArea, !.branch = branch,
                                                   !.stored = @ \cup {map}]]

Commit(p) ==
    /\ proc[p].state = "open"
    /\ Called("commit", p, 0)
    /\ Committed(p, proc[p].branch, Shown(p))
    /\ stale' = stale \cup {q \in Processes \ {p} : proc[q].state # "closed"}

(* The tree stays what it is, whatever HEAD leads to.                      *)
CreateBranch(p, b) ==
    /\ proc[p].state = "open"
    /\ Called("create_branch", p, b)
    /\ refs' = [refs EXCEPT ![b] = HeadCommit]
    /\ head' = b
    /\ stagingFile' = EmptyArea
    /\ proc' = [proc EXCEPT ![p].staging = EmptyArea, ![p].branch = b]
    /\ stale' = stale \cup {q \in Processes \ {p} : proc[q].state # "closed"}
    /\ UNCHANGED <<commits, diskTree>>

\* mutant: the configuration is left to lead to the tree of the old branch
SwitchInMemory(p, b) ==
    /\ head' = b
    /\ stagingFile' = EmptyArea
    /\ diskTree' = diskTree
    /\ proc' = [proc EXCEPT ![p].tree = MapOf(refs[b]), ![p].staging = EmptyArea, ![p].branch = b]
    /\ Overtakes(p)
    /\ UNCHANGED <<commits, refs>>

(* checkout of a branch that exists.  The tree is rebuilt by inserts, each *)
(* of which saves the configuration; without one it stays as it is.        *)
Switch(p, b) ==
    /\ head' = b
    /\ stagingFile' = EmptyArea
    /\ diskTree' = IF MapOf(refs[b]) = EmptyTree THEN diskTree ELSE MapOf(refs[b])
    /\ proc' = [proc EXCEPT ![p].tree = MapOf(refs[b]), ![p].staging = EmptyArea, ![p].branch = b]
    /\ Overtakes(p)
    /\ UNCHANGED <<commits, refs>>

Checkout(p, b) ==
    /\ backend = "git" /\ proc[p].state = "open"
    /\ Called("checkout", p, b)
    /\ \/ refs[b] # 0 /\ Switch(p, b)
       \/ /\ refs[b] = 0
          /\ proc' = [proc EXCEPT ![p].staging = EmptyArea]
          /\ stagingFile' = EmptyArea
          /\ UNCHANGED <<commits, refs, head, diskTree, stale>>

-----------------------------------------------------------------------------
(* The life of a process                                                   *)

\* mutant: an opened store takes main for its branch, whatever HEAD says
OpenSavedOnMain(p) ==
    /\ backend # "memory"
    /\ proc' = [proc EXCEPT ![p] = [NoProcess EXCEPT !.state = "open", !.tree = diskTree,
                                                     !.staging = stagingFile, !.branch = Main]]
    /\ stale' = stale \ {p}
    /\ UNCHANGED disk

(* open of the Git, file and RocksDB storages: the saved tree, the staging *)
(* file and the branch HEAD names                                          *)
OpenSaved(p) ==
    /\ backend # "memory"
    /\ proc' = [proc EXCEPT ![p] = [NoProcess EXCEPT !.state = "open", !.tree = diskTree,
                                                     !.staging = stagingFile, !.branch = head]]
    /\ stale' = stale \ {p}
    /\ UNCHANGED disk

(* A new tree and the commit "Initial commit" of it on main, whatever the  *)
(* repository holds already                                                *)
StartOver(p) ==
    /\ Committed(p, Main, EmptyTree)
    /\ Overtakes(p)

(* "For InMemory storage, opening is the same as initializing"             *)
OpenMemory(p) == backend = "memory" /\ StartOver(p)

Open(p) ==
    /\ proc[p].state = "closed"
    /\ Called("open", p, 0)
    /\ OpenSaved(p) \/ OpenMemory(p)

(* init: only the Git storage looks for the files of an existing store.    *)
InitAgain(p) ==
    /\ proc[p].state = "closed"
    /\ Called("init", p, 0)
    /\ \/ backend = "git" /\ OpenSaved(p)
       \/ backend # "git" /\ StartOver(p)

Close(p) ==
    /\ proc[p].state = "open"
    /\ proc' = [proc EXCEPT ![p] = NoProcess]
    /\ stale' = stale \ {p}
    /\ op' = [name |-> "close", by |-> p, arg |-> 0]
    /\ UNCHANGED <<backend, disk, calls>>

-----------------------------------------------------------------------------
(* What of a commit can be read back                                       *)

\* mutant: a store in memory writes no configuration to the root either
ReadAtGitOnly(p, c) == IF backend = "git" THEN MapOf(c) ELSE EmptyTree

(* Does a commit hold the configuration of its tree?  That of the file and *)
(* RocksDB stores is not where a commit looks for it.                      *)
WritesConfig == backend \in {"git", "memory"}

(* The nodes are looked for in the storage of this process.                *)
CollectFrom(p, tree) == IF tree \in proc[p].stored THEN tree ELSE EmptyTree

(* get_keys_at_ref.  The Git storage finds the nodes with the table that   *)
(* the commit holds too.                                                   *)
ReadAt(p, c) ==
    CASE backend = "git" -> MapOf(c)
      [] backend # "git" /\ WritesConfig -> CollectFrom(p, MapOf(c))
      [] ~WritesConfig -> EmptyTree

(* A commit and those before it, by the first parent                       *)
HistoryOf(c) ==
    LET from[d \in 0..Len(commits)] ==
          IF d = 0 THEN {} ELSE {d} \cup from[commits[d].parent]
    IN  from[c]

(* log ends after 100 commits, far beyond MaxCommits.                      *)
History == HistoryOf(HeadCommit)

(* get_commits_for_key walks the history from the oldest commit on and     *)
(* compares what it reads with what it has read before.                    *)
CommitsForKey(p, k) ==
    {c \in History :
       LET before == IF commits[c].parent = 0 THEN EmptyTree ELSE ReadAt(p, commits[c].parent)
       IN  ReadAt(p, c)[k] # before[k]}

-----------------------------------------------------------------------------
(* Git operations, over the Git storage                                    *)

(* get_kv_state_at_commit: HEAD's commit is what the process shows, staged *)
(* changes included.                                                       *)
StateAt(p, c) == IF c = HeadCommit THEN Shown(p) ELSE MapOf(c)

(* merge goes ahead only if the other branch has this one's commit in its  *)
(* history; it then checks the other branch out.                           *)
IsAncestor(c, d) == c \in HistoryOf(d)

CanFastForward(from, b) ==
    /\ refs[from] # 0 /\ refs[b] # 0 /\ refs[b] # refs[from]
    /\ IsAncestor(refs[from], refs[b])

FastForward(p, b) ==
    /\ backend = "git" /\ proc[p].state = "open"
    /\ CanFastForward(proc[p].branch, b)
    /\ Called("merge", p, b)
    /\ Switch(p, b)

(* show: what the commit has changed, as the sides before and after it     *)
Before(p, c) ==
    IF commits[c].parent = 0 THEN EmptyTree ELSE StateAt(p, commits[c].parent)

\* mutant: the new side of a change is staged again
StagedAgain(p, c) ==
    [k \in Keys |->
       LET now == StateAt(p, c)[k]
       IN  IF Before(p, c)[k] = now THEN proc[p].staging[k]
           ELSE IF now = NoValue /\ Shown(p)[k] = NoValue THEN proc[p].staging[k]
           ELSE now]

(* The reverse of every change: a value is put back with insert, a key     *)
(* that was added is deleted, which does nothing if it is not there.       *)
Undone(p, c) ==
    [k \in Keys |->
       LET old == Before(p, c)[k]
       IN  IF old = StateAt(p, c)[k] THEN proc[p].staging[k]
           ELSE IF old = NoValue /\ Shown(p)[k] = NoValue THEN proc[p].staging[k]
           ELSE old]

Revert(p, c) ==
    /\ backend = "git" /\ proc[p].state = "open"
    /\ Called("revert", p, c)
    /\ Committed(p, proc[p].branch, Override(proc[p].tree, Undone(p, c)))
    /\ stale' = stale \cup {q \in Processes \ {p} : proc[q].state # "closed"}

-----------------------------------------------------------------------------
(* Commands                                                                *)

CommandCalled(name, p, arg) ==
    /\ backend = "git" /\ proc[p].state = "closed"
    /\ Called(name, p, arg)
    /\ UNCHANGED proc

StagedOnDisk(area) ==
    /\ stagingFile' = area
    /\ UNCHANGED <<commits, refs, head, diskTree, stale>>

CommittedOnDisk(p, area) ==
    /\ Len(commits) < MaxCommits
    /\ commits' = Append(commits, [parent |-> HeadCommit, map |-> Override(diskTree, area)])
    /\ MoveBranch(head)
    /\ diskTree' = Override(diskTree, area)
    /\ stagingFile' = EmptyArea
    /\ Overtakes(p)

SetKey(p, k, v) ==
    /\ CommandCalled("set", p, k)
    /\ StagedOnDisk([stagingFile EXCEPT ![k] = v])

DeleteKey(p, k) ==
    /\ Override(diskTree, stagingFile)[k] # NoValue
    /\ CommandCalled("unset", p, k)
    /\ StagedOnDisk([stagingFile EXCEPT ![k] = NoValue])

(* "No staged changes to commit" otherwise                                 *)
CommitStaged(p) ==
    /\ stagingFile # EmptyArea
    /\ CommandCalled("commit_staged", p, 0)
    /\ CommittedOnDisk(p, stagingFile)

MergeBranch(p, b) ==
    /\ CanFastForward(head, b)
    /\ CommandCalled("merge_branch", p, b)
    /\ head' = b
    /\ diskTree' = IF MapOf(refs[b]) = EmptyTree THEN diskTree ELSE MapOf(refs[b])
    /\ stagingFile' = EmptyArea
    /\ Overtakes(p)
    /\ UNCHANGED <<commits, refs>>

(* clear --confirm stages the deletion of every key and, when it keeps the *)
(* history, commits that.  It opens the store a second time to get rid of  *)
(* what is staged, which reads the staging file again.                     *)
ClearedArea ==
    [k \in Keys |-> IF Override(diskTree, stagingFile)[k] = NoValue THEN stagingFile[k] ELSE NoValue]

Clear(p) ==
    /\ CommandCalled("clear", p, 0)
    /\ StagedOnDisk(ClearedArea)

ClearKeepingHistory(p) ==
    /\ ClearedArea # EmptyArea
    /\ CommandCalled("clear", p, 1)
    /\ CommittedOnDisk(p, ClearedArea)

(* sql -b b: with nothing staged, check b out, answer the query, open the  *)
(* store again and check the branch out that was current at the start.     *)
SqlBegin(p, b) ==
    /\ backend = "git" /\ proc[p].state = "closed"
    /\ stagingFile = EmptyArea /\ refs[b] # 0
    /\ Called("sql", p, b)
    /\ head' = b
    /\ diskTree' = IF MapOf(refs[b]) = EmptyTree THEN diskTree ELSE MapOf(refs[b])
    /\ proc' = [proc EXCEPT ![p] = [NoProcess EXCEPT !.state = "sql", !.tree = MapOf(refs[b]),
                                                     !.branch = b, !.back = head]]
    /\ Overtakes(p)
    /\ UNCHANGED <<commits, refs, stagingFile>>

\* mutant: nothing is checked out at the end
SqlEndThere(p) ==
    /\ proc[p].state = "sql"
    /\ op' = [name |-> "sql_end", by |-> p, arg |-> 0]
    /\ proc' = [proc EXCEPT ![p] = NoProcess]
    /\ stale' = stale \ {p}
    /\ UNCHANGED <<backend, disk, calls>>

SqlEnd(p) ==
    /\ proc[p].state = "sql"
    /\ op' = [name |-> "sql_end", by |-> p, arg |-> 0]
    /\ proc' = [proc EXCEPT ![p] = NoProcess]
    /\ LET back == proc[p].back
       IN  \/ head = back /\ stale' = stale \ {p} /\ UNCHANGED disk
           \/ /\ head # back
              /\ head' = back
              /\ diskTree' = IF MapOf(refs[back]) = EmptyTree THEN diskTree ELSE MapOf(refs[back])
              /\ stagingFile' = EmptyArea
              /\ Overtakes(p)
              /\ UNCHANGED <<commits, refs>>
    /\ UNCHANGED <<backend, calls>>

(* A query that fails ends the command at once.                            *)
SqlFails(p) ==
    /\ proc[p].state = "sql"
    /\ op' = [name |-> "sql_fails", by |-> p, arg |-> 0]
    /\ proc' = [proc EXCEPT ![p] = NoProcess]
    /\ stale' = stale \ {p}
    /\ UNCHANGED <<backend, disk, calls>>

-----------------------------------------------------------------------------
(* What init leaves: the empty tree in a first commit on main              *)
Init ==
    /\ backend \in Backends
    /\ commits = << [parent |-> 0, map |-> EmptyTree] >>
    /\ refs = [b \in Branches |-> IF b = Main THEN 1 ELSE 0]
    /\ head = Main
    /\ diskTree = EmptyTree /\ stagingFile = EmptyArea
    /\ proc = [p \in Processes |-> NoProcess]
    /\ stale = {}
    /\ op = [name |-> "init", by |-> CHOOSE p \in Processes : TRUE, arg |-> 0]
    /\ calls = 0

StoreCall(p) ==
    \/ \E k \in Keys, v \in Values : Insert(p, k, v)
    \/ \E k \in Keys : Delete(p, k)
    \/ Commit(p)
    \/ \E b \in Branches : CreateBranch(p, b) \/ Checkout(p, b)

Operation(p) ==
    \/ \E b \in Branches : FastForward(p, b)
    \/ \E c \in 1..Len(commits) : Revert(p, c)

Command(p) ==
    \/ \E k \in Keys : DeleteKey(p, k) \/ \E v \in Values : SetKey(p, k, v)
    \/ CommitStaged(p)
    \/ \E b \in Branches : MergeBranch(p, b)
    \/ Clear(p) \/ ClearKeepingHistory(p)
    \/ \E b \in Branches : SqlBegin(p, b)
    \/ SqlEnd(p) \/ SqlFails(p)

Next ==
    \E p \in Processes :
      Open(p) \/ InitAgain(p) \/ Close(p) \/ StoreCall(p) \/ Operation(p) \/ Command(p)

Spec == Init /\ [][Next]_vars

-----------------------------------------------------------------------------
(* Properties                                                              *)

(***************************************************************************)
(* Type invariant.  Refs and parents lead to commits written before; only  *)
(* a process that holds something in memory can be out of date.            *)
(***************************************************************************)
TypeOK ==
    /\ backend \in BackendKinds
    /\ commits \in Seq([parent : Nat, map : Trees])
    /\ \A c \in 1..Len(commits) : commits[c].parent < c
    /\ refs \in [Branches -> 0..Len(commits)]
    /\ head \in Branches /\ refs[head] # 0
    /\ diskTree \in Trees /\ stagingFile \in Areas
    /\ proc \in [Processes -> [state : {"closed", "open", "sql"}, tree : Trees, staging : Areas,
                               branch : Branches, stored : SUBSET Trees, back : Branches]]
    /\ stale \subseteq {p \in Processes : proc[p].state # "closed"}

(***************************************************************************)
(* However the calls of processes that know nothing of each other are      *)
(* interleaved, the saved tree is the content of HEAD's commit: a process  *)
(* that opens the dataset starts from the branch it says it is on.  (After *)
(* a checkout of an empty commit it is not, see the README.)               *)
(***************************************************************************)
DiskIsHead == MapOf(HeadCommit) \in {diskTree, EmptyTree}

(***************************************************************************)
(* As long as no other process has moved a branch, HEAD or the saved tree  *)
(* since p read them, p's commit follows the tip of p's branch and differs *)
(* from it in staged keys only: nothing anybody committed is undone.       *)
(***************************************************************************)
CommitsOnlyStaged ==
    [][op'.name = "commit" /\ op'.by \notin stale =>
         LET me == proc[op'.by]
             new == commits'[Len(commits')]
             tip == refs[me.branch]
         IN  /\ new.parent = tip
             /\ MapOf(tip) # EmptyTree =>
                  \A k \in Keys : me.staging[k] = Unstaged => new.map[k] = MapOf(tip)[k]]_vars

(***************************************************************************)
(* revert gives the keys the commit changed the value they had before it   *)
(* and no other key another value, for HEAD's commit and for older ones,   *)
(* if nothing is staged and no other process has written meanwhile.        *)
(***************************************************************************)
RevertUndoes ==
    [][op'.name = "revert" /\ op'.by \notin stale /\ proc[op'.by].staging = EmptyArea =>
         LET before == MapOf(commits[op'.arg].parent)
             after == MapOf(op'.arg)
             old == MapOf(HeadCommit)
             new == commits'[Len(commits')].map
         IN  old # EmptyTree =>
               \A k \in Keys : new[k] = IF before[k] # after[k] THEN before[k] ELSE old[k]]_vars

(***************************************************************************)
(* The history of a key explains its value, with the storages whose        *)
(* commits can be read back: the newest commit that get_commits_for_key    *)
(* lists for a key is one that gave it the value that the tree has.        *)
(***************************************************************************)
KeyHistory ==
    backend \in {"git", "memory"} =>
      \A p \in Processes, k \in Keys :
        proc[p].state = "open" /\ p \notin stale /\ MapOf(HeadCommit) # EmptyTree
          /\ proc[p].tree[k] # NoValue =>
          \E c \in CommitsForKey(p, k) :
            /\ \A d \in CommitsForKey(p, k) : d <= c
            /\ MapOf(c)[k] = proc[p].tree[k]

(***************************************************************************)
(* A query that sql -b has answered leaves no trace: unless another        *)
(* process has written meanwhile, HEAD names the branch it named before    *)
(* and the next process shows that branch's commit.                        *)
(***************************************************************************)
SqlLeavesNoTrace ==
    [][op'.name = "sql_end" /\ op'.by \notin stale =>
         LET back == proc[op'.by].back
         IN  /\ head' = back
             /\ stagingFile = EmptyArea /\ MapOf(refs[back]) # EmptyTree =>
                  Override(diskTree', stagingFile') = MapOf(refs[back])]_vars
=============================================================================

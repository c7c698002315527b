--------------------------- MODULE VersionedStore ---------------------------
(***************************************************************************)
(* VersionedKvStore of src/src/git/versioned_store.rs over Git storage,    *)
(* used by one process at a time (the git-prolly command line opens the    *)
(* store anew for every command).                                          *)
(*                                                                         *)
(* The prolly tree is the map it stores (module Dictionary).  What         *)
(* survives the process is kept apart from what does not: the objects,     *)
(* refs and HEAD of the repository, its index, the tree configuration and  *)
(* the staging file on one side, the tree, the staging area and the        *)
(* current branch in memory on the other.  commit, checkout, create_branch *)
(* and merge write several of these one after the other; each write is a   *)
(* step, and the process may die between two of them.                      *)
(***************************************************************************)
EXTENDS ConflictResolvers, Sequences

CONSTANTS Keys,
          Branches,       \* short branch names
          Main,           \* the branch init creates
          CheckoutNames,  \* what clients pass to checkout: b, or <<b>> for refs/heads/b
          Unstaged,       \* no entry in a staging area
          UsedResolvers,  \* the resolvers merge is called with
          Faults,         \* what may go wrong, see FaultKinds
          MaxCommits,     \* bound on the commits of a behaviour
          MaxCalls        \* bound on the calls of a behaviour

FaultKinds == {"crash",      \* the process dies between two writes
               "git_add",    \* git add fails: a warning in commit, an error in merge
               "git_write"}  \* git write-tree or git commit fails

Names == Branches \cup {<<b>> : b \in Branches}

ASSUME StoreAssumptions ==
    /\ Main \in Branches
    /\ CheckoutNames \subseteq Names
    /\ Unstaged \notin Sides
    /\ UsedResolvers \subseteq Resolvers
    /\ Faults \subseteq FaultKinds
    /\ MaxCommits \in Nat /\ MaxCalls \in Nat

VARIABLES commits,      \* the commit objects, in the order they were written
          refs,         \* refs/heads: a branch to a commit, 0 when there is none
          head,         \* the name HEAD refers to
          index,        \* the tree that the git index holds
          diskTree,     \* the tree prolly_config_tree_config leads to
          stagingFile,  \* PROLLY_STAGING_<dataset>
          tree,         \* VersionedKvStore::tree
          staging,      \* VersionedKvStore::staging_area
          branch,       \* VersionedKvStore::current_branch
          pc,           \* where the process is in its call; idle or closed between calls
          todo,         \* changes that merge or checkout has yet to make to the tree
          op,           \* the last call: its name, its argument and how it ended
          calls         \* number of calls so far

disk == <<commits, refs, head, index, diskTree, stagingFile>>
memory == <<tree, staging, branch, todo>>
vars == <<disk, memory, pc, op, calls>>

Trees == [Keys -> Sides]
Areas == [Keys -> Sides \cup {Unstaged}]

EmptyTree == [k \in Keys |-> NoValue]
EmptyArea == [k \in Keys |-> Unstaged]

Override(t, area) == [k \in Keys |-> IF area[k] = Unstaged THEN t[k] ELSE area[k]]

(* VersionedKvStore::get for every key                                     *)
Shown == Override(tree, staging)

(* The commit a name leads to below refs/heads, 0 when there is none.      *)
(* Nothing is ever found or written at refs/heads/refs/heads/b, whose      *)
(* directory does not exist.                                               *)
RefOf(n) == IF n \in Branches THEN refs[n] ELSE 0

(* the commit HEAD leads to, 0 while its branch is not born                *)
HeadCommit == RefOf(head)

Begin(name, arg, step) ==
    /\ pc = "idle"
    /\ calls < MaxCalls
    /\ calls' = calls + 1
    /\ pc' = step
    /\ op' = [name |-> name, arg |-> arg, end |-> IF step = "idle" THEN "ok" ELSE "running"]

Fail(name, arg) ==
    /\ pc = "idle"
    /\ calls < MaxCalls
    /\ calls' = calls + 1
    /\ pc' = "idle"
    /\ op' = [name |-> name, arg |-> arg, end |-> "error"]

Step(from, to) ==
    /\ pc = from
    /\ pc' = to
    /\ op' = [name |-> op.name, arg |-> op.arg, end |-> IF to = "idle" THEN "ok" ELSE "running"]
    /\ UNCHANGED calls

GiveUp(from) ==
    /\ pc = from
    /\ pc' = "idle"
    /\ op' = [name |-> op.name, arg |-> op.arg, end |-> "error"]
    /\ UNCHANGED calls

-----------------------------------------------------------------------------
(* Staging                                                                 *)

Stage(k, side) ==
    /\ staging' = [staging EXCEPT ![k] = side]
    /\ stagingFile' = staging'
    /\ UNCHANGED <<commits, refs, head, index, diskTree, tree, branch, todo>>

Insert(k, v) == Begin("insert", k, "idle") /\ Stage(k, v)

(* update and delete of a key that get does not show change nothing.       *)
Update(k, v) == Shown[k] # NoValue /\ Begin("update", k, "idle") /\ Stage(k, v)

Delete(k) == Shown[k] # NoValue /\ Begin("delete", k, "idle") /\ Stage(k, NoValue)

-----------------------------------------------------------------------------
(* Changing the tree: insert and delete of ProllyTree persist the root and *)
(* its configuration; a delete that finds nothing does not.                *)

ApplyToTree(k, side) ==
    /\ tree' = [tree EXCEPT ![k] = side]
    /\ diskTree' = IF side = NoValue /\ tree[k] = NoValue THEN diskTree ELSE tree'

-----------------------------------------------------------------------------
(* commit                                                                  *)

Commit ==
    /\ Len(commits) < MaxCommits
    /\ Begin("commit", {}, "commit_apply")
    /\ UNCHANGED <<disk, memory>>

\* mutant: the entry stays in the staging area
CommitApplyKeeping(k) ==
    /\ staging[k] # Unstaged
    /\ Step("commit_apply", "commit_apply")
    /\ ApplyToTree(k, staging[k])
    /\ UNCHANGED <<commits, refs, head, index, stagingFile, staging, branch, todo>>

(* staging_area.drain, in the order of a HashMap                           *)
CommitApply(k) ==
    /\ staging[k] # Unstaged
    /\ Step("commit_apply", "commit_apply")
    /\ ApplyToTree(k, staging[k])
    /\ staging' = [staging EXCEPT ![k] = Unstaged]
    /\ UNCHANGED <<commits, refs, head, index, stagingFile, branch, todo>>

(* persist_root, save_config and save_tree_config_to_git                   *)
CommitPersist ==
    /\ staging = EmptyArea
    /\ Step("commit_apply", "commit_add")
    /\ diskTree' = tree
    /\ UNCHANGED <<commits, refs, head, index, stagingFile, memory>>

(* git add -A; its failure is only a warning                               *)
CommitAdd ==
    /\ Step("commit_add", "commit_write")
    /\ \/ index' = diskTree
       \/ "git_add" \in Faults /\ index' = index
    /\ UNCHANGED <<commits, refs, head, diskTree, stagingFile, memory>>

\* mutant: a commit forgets what it follows
NoParents == {}

ParentsOfNew == IF HeadCommit = 0 THEN {} ELSE {HeadCommit}

WriteCommit ==
    commits' = Append(commits, [parents |-> ParentsOfNew, map |-> index])

(* git write-tree and create_git_commit                                    *)
CommitWrite ==
    /\ Step("commit_write", "commit_ref")
    /\ WriteCommit
    /\ UNCHANGED <<refs, head, index, diskTree, stagingFile, memory>>

CommitWriteFails ==
    /\ "git_write" \in Faults
    /\ GiveUp("commit_write")
    /\ UNCHANGED <<disk, memory>>

\* mutant: the ref is written for a commit that does not exist yet
CommitRefTooFar ==
    /\ branch \in Branches
    /\ Step("commit_ref", "commit_head")
    /\ refs' = [refs EXCEPT ![branch] = Len(commits) + 1]
    /\ UNCHANGED <<commits, head, index, diskTree, stagingFile, memory>>

(* update_head: the branch, then HEAD; writing the branch fails when       *)
(* checkout has left a qualified name there.                               *)
CommitRef ==
    /\ branch \in Branches
    /\ Step("commit_ref", "commit_head")
    /\ refs' = [refs EXCEPT ![branch] = Len(commits)]
    /\ UNCHANGED <<commits, head, index, diskTree, stagingFile, memory>>

CommitRefFails ==
    /\ branch \notin Branches
    /\ GiveUp("commit_ref")
    /\ UNCHANGED <<disk, memory>>

CommitHead ==
    /\ Step("commit_head", "commit_clear")
    /\ head' = branch
    /\ UNCHANGED <<commits, refs, index, diskTree, stagingFile, memory>>

CommitClear ==
    /\ Step("commit_clear", "idle")
    /\ stagingFile' = staging
    /\ UNCHANGED <<commits, refs, head, index, diskTree, memory>>

-----------------------------------------------------------------------------
(* branch and create_branch; a branch that exists is moved                 *)

Branch(b) ==
    /\ HeadCommit # 0
    /\ Begin("branch", b, "idle")
    /\ refs' = [refs EXCEPT ![b] = HeadCommit]
    /\ UNCHANGED <<commits, head, index, diskTree, stagingFile, memory>>

CreateBranch(b) ==
    /\ HeadCommit # 0
    /\ Begin("create_branch", b, "create_clear")
    /\ refs' = [refs EXCEPT ![b] = HeadCommit]
    /\ UNCHANGED <<commits, head, index, diskTree, stagingFile, memory>>

CreateBranchClear ==
    /\ Step("create_clear", "create_head")
    /\ staging' = EmptyArea
    /\ stagingFile' = EmptyArea
    /\ UNCHANGED <<commits, refs, head, index, diskTree, tree, branch, todo>>

(* The tree is left as it is.                                              *)
CreateBranchHead ==
    /\ Step("create_head", "idle")
    /\ branch' = op.arg
    /\ head' = op.arg
    /\ UNCHANGED <<commits, refs, index, diskTree, stagingFile, tree, staging, todo>>

-----------------------------------------------------------------------------
(* checkout                                                                *)

(* The ref that is looked up: refs/heads/b for b and for refs/heads/b.     *)
Target(n) == IF n \in Branches THEN n ELSE n[1]

\* mutant: the staging file is not rewritten
ClearStagingInMemory ==
    /\ staging' = EmptyArea
    /\ stagingFile' = stagingFile

(* The staging area is given up before the ref is looked up.               *)
ClearStaging ==
    /\ staging' = EmptyArea
    /\ stagingFile' = EmptyArea

Checkout(n) ==
    /\ ClearStaging
    /\ \/ /\ refs[Target(n)] # 0
          /\ Begin("checkout", n, "checkout_head")
          /\ branch' = n
       \/ /\ refs[Target(n)] = 0
          /\ Fail("checkout", n)
          /\ UNCHANGED branch
    /\ UNCHANGED <<commits, refs, head, index, diskTree, tree, todo>>

(* HEAD becomes "ref: refs/heads/" followed by the argument, whatever its  *)
(* form.                                                                   *)
CheckoutHead ==
    /\ Step("checkout_head", "checkout_reload")
    /\ head' = branch
    /\ UNCHANGED <<commits, refs, index, diskTree, stagingFile, memory>>

(* collect_keys_at_commit reads the configuration and the hash mappings    *)
(* that were committed, and the tree they lead to.                         *)
KeysAt(c) == commits[c].map

(* reload_tree_from_head starts from a new tree in memory and inserts the  *)
(* pairs of the commit one by one.                                         *)
CheckoutReload ==
    /\ HeadCommit # 0
    /\ Step("checkout_reload", "checkout_rebuild")
    /\ tree' = EmptyTree
    /\ todo' = [k \in Keys |-> IF KeysAt(HeadCommit)[k] = NoValue THEN Unstaged
                               ELSE KeysAt(HeadCommit)[k]]
    /\ UNCHANGED <<disk, staging, branch>>

CheckoutReloadFails ==
    /\ HeadCommit = 0
    /\ GiveUp("checkout_reload")
    /\ UNCHANGED <<disk, memory>>

CheckoutRebuild(k) ==
    /\ todo[k] # Unstaged
    /\ Step("checkout_rebuild", "checkout_rebuild")
    /\ ApplyToTree(k, todo[k])
    /\ todo' = [todo EXCEPT ![k] = Unstaged]
    /\ UNCHANGED <<commits, refs, head, index, stagingFile, staging, branch>>

\* mutant: checkout returns before every pair is in the tree
CheckoutDoneEarly ==
    /\ Step("checkout_rebuild", "idle")
    /\ UNCHANGED <<disk, memory>>

CheckoutDone ==
    /\ todo = EmptyArea
    /\ Step("checkout_rebuild", "idle")
    /\ UNCHANGED <<disk, memory>>

-----------------------------------------------------------------------------
(* merge                                                                   *)

Ancestors(c) ==
    LET anc[d \in 1..Len(commits)] ==
          {d} \cup UNION {anc[p] : p \in commits[d].parents}
    IN  anc[c]

(* find_merge_base.  A commit has at most one parent, so the breadth-first *)
(* walk from the source meets the common ancestors from the latest on.     *)
CommonAncestors(c, d) == Ancestors(c) \cap Ancestors(d)

\* mutant: the walk goes on to the oldest common ancestor
OldestCommonAncestor(c, d) ==
    CHOOSE a \in CommonAncestors(c, d) : \A x \in CommonAncestors(c, d) : x >= a

MergeBase(c, d) ==
    CHOOSE a \in CommonAncestors(c, d) : \A x \in CommonAncestors(c, d) : x <= a

(* What the destination is taken to hold: the keys of the tree, read with  *)
(* get, so that a staged value hides the committed one.                    *)
Destination == [k \in Keys |-> IF tree[k] = NoValue THEN NoValue ELSE Shown[k]]

(* The cases of the match over (base, source, destination): conflict, take *)
(* the source's side, or nothing to do.                                    *)
IsConflict(b, s, d) == s # NoValue /\ d # NoValue /\ s # d /\ b # s /\ b # d

TakesSource(b, s, d) ==
    \/ s # NoValue /\ s # d /\ b = d        \* added, or only the source changed it
    \/ b # NoValue /\ s = NoValue /\ d # NoValue    \* deleted in the source

MergeResults(base, source, dest, resolver) ==
    [k \in Keys |->
       IF IsConflict(base[k], source[k], dest[k]) THEN Resolve(resolver, source[k], dest[k])
       ELSE IF TakesSource(base[k], source[k], dest[k]) THEN {source[k]}
       ELSE {Unstaged}]

(* Without two commits and a common ancestor merge fails; with a conflict  *)
(* the resolver leaves open it fails before it has changed anything.       *)
HaveBase(s) ==
    /\ RefOf(branch) # 0 /\ refs[s] # 0
    /\ CommonAncestors(RefOf(branch), refs[s]) # {}

Results(s, resolver) ==
    MergeResults(KeysAt(MergeBase(RefOf(branch), refs[s])),
                 KeysAt(refs[s]), Destination, resolver)

Merge(s, resolver) ==
    /\ Len(commits) < MaxCommits
    /\ HaveBase(s)
    /\ \A k \in Keys : Results(s, resolver)[k] # {}
    /\ Begin("merge", <<s, resolver>>, "merge_apply")
    /\ todo' \in {t \in Areas : \A k \in Keys : t[k] \in Results(s, resolver)[k]}
    /\ UNCHANGED <<disk, tree, staging, branch>>

MergeFails(s, resolver) ==
    /\ HaveBase(s) => \E k \in Keys : Results(s, resolver)[k] = {}
    /\ Fail("merge", <<s, resolver>>)
    /\ UNCHANGED <<disk, memory>>

MergeApply(k) ==
    /\ todo[k] # Unstaged
    /\ Step("merge_apply", "merge_apply")
    /\ ApplyToTree(k, todo[k])
    /\ todo' = [todo EXCEPT ![k] = Unstaged]
    /\ UNCHANGED <<commits, refs, head, index, stagingFile, staging, branch>>

MergeClear ==
    /\ todo = EmptyArea
    /\ Step("merge_apply", "merge_add")
    /\ ClearStaging
    /\ UNCHANGED <<commits, refs, head, index, diskTree, tree, branch, todo>>

(* create_merge_commit: persist, git add, git commit.  git commits on the  *)
(* branch HEAD refers to, with its commit as the only parent.              *)
MergeAdd ==
    /\ HeadCommit # 0
    /\ Step("merge_add", "merge_commit")
    /\ diskTree' = tree
    /\ index' = tree
    /\ UNCHANGED <<commits, refs, head, stagingFile, memory>>

MergeAddFails ==
    /\ \/ "git_add" \in Faults /\ index' = index
       \/ HeadCommit = 0 /\ index' = tree
    /\ GiveUp("merge_add")
    /\ diskTree' = tree
    /\ UNCHANGED <<commits, refs, head, stagingFile, memory>>

MergeCommit ==
    /\ head \in Branches
    /\ Step("merge_commit", "idle")
    /\ WriteCommit
    /\ refs' = [refs EXCEPT ![head] = Len(commits) + 1]
    /\ UNCHANGED <<head, index, diskTree, stagingFile, memory>>

MergeCommitFails ==
    /\ "git_write" \in Faults
    /\ GiveUp("merge_commit")
    /\ UNCHANGED <<disk, memory>>

-----------------------------------------------------------------------------
(* The life of the process                                                 *)

Stop ==
    /\ pc' = "closed"
    /\ tree' = EmptyTree /\ staging' = EmptyArea /\ branch' = Main /\ todo' = EmptyArea
    /\ UNCHANGED <<disk, calls, op>>

Close == pc = "idle" /\ Stop

Crash == "crash" \in Faults /\ pc \notin {"idle", "closed"} /\ Stop

(* The file of the dataset, which is named after the current directory.    *)
LoadStagingArea == staging' = stagingFile

\* mutant: a reopened store takes main for its branch, whatever HEAD says
OpenOnMain ==
    /\ pc = "closed"
    /\ pc' = "idle"
    /\ tree' = diskTree
    /\ LoadStagingArea
    /\ branch' = Main
    /\ UNCHANGED <<disk, todo, op, calls>>

(* open: the tree from the configuration on disk, not from HEAD; the       *)
(* branch from HEAD, or main when HEAD's branch is not born.               *)
Open ==
    /\ pc = "closed"
    /\ pc' = "idle"
    /\ tree' = diskTree
    /\ LoadStagingArea
    /\ branch' = IF HeadCommit # 0 THEN head ELSE Main
    /\ UNCHANGED <<disk, todo, op, calls>>

(* The state init leaves: the empty tree in a first commit on main.        *)
Init ==
    /\ commits = << [parents |-> {}, map |-> EmptyTree] >>
    /\ refs = [b \in Branches |-> IF b = Main THEN 1 ELSE 0]
    /\ head = Main
    /\ index = EmptyTree /\ diskTree = EmptyTree /\ stagingFile = EmptyArea
    /\ tree = EmptyTree /\ staging = EmptyArea /\ branch = Main
    /\ pc = "idle" /\ todo = EmptyArea
    /\ op = [name |-> "init", arg |-> {}, end |-> "ok"]
    /\ calls = 0

CommitStep ==
    \/ Commit
    \/ \E k \in Keys : CommitApply(k)
    \/ CommitPersist \/ CommitAdd \/ CommitWrite \/ CommitWriteFails
    \/ CommitRef \/ CommitRefFails \/ CommitHead \/ CommitClear

BranchStep ==
    \/ \E b \in Branches : Branch(b) \/ CreateBranch(b)
    \/ CreateBranchClear \/ CreateBranchHead

CheckoutStep ==
    \/ \E n \in CheckoutNames : Checkout(n)
    \/ CheckoutHead \/ CheckoutReload \/ CheckoutReloadFails
    \/ \E k \in Keys : CheckoutRebuild(k)
    \/ CheckoutDone

MergeStep ==
    \/ \E s \in Branches, r \in UsedResolvers : Merge(s, r) \/ MergeFails(s, r)
    \/ \E k \in Keys : MergeApply(k)
    \/ MergeClear \/ MergeAdd \/ MergeAddFails \/ MergeCommit \/ MergeCommitFails

Next ==
    \/ \E k \in Keys, v \in Values : Insert(k, v) \/ Update(k, v)
    \/ \E k \in Keys : Delete(k)
    \/ CommitStep \/ BranchStep \/ CheckoutStep \/ MergeStep
    \/ Close \/ Crash \/ Open

Spec == Init /\ [][Next]_vars

(* A call, once begun, runs to its end: the code neither waits nor loops   *)
(* on anything outside of the process.  It may still die, but need not.    *)
Continue ==
    pc # "idle" /\ (CommitStep \/ BranchStep \/ CheckoutStep \/ MergeStep)

FairSpec == Spec /\ WF_vars(Continue)

-----------------------------------------------------------------------------
(* Properties                                                              *)

Steps == {"idle", "closed", "commit_apply", "commit_add", "commit_write", "commit_ref",
          "commit_head", "commit_clear", "create_clear", "create_head", "checkout_head",
          "checkout_reload", "checkout_rebuild", "merge_apply", "merge_add", "merge_commit"}

(***************************************************************************)
(* Type invariant.  Refs and parents lead to commits written before, so    *)
(* the history has no cycle and the walks of find_merge_base end.          *)
(***************************************************************************)
TypeOK ==
    /\ commits \in Seq([parents : SUBSET Nat, map : Trees])
    /\ \A c \in 1..Len(commits) : commits[c].parents \subseteq 1..(c - 1)
    /\ refs \in [Branches -> 0..Len(commits)]
    /\ head \in Names /\ branch \in Names
    /\ index \in Trees /\ diskTree \in Trees /\ tree \in Trees
    /\ stagingFile \in Areas /\ staging \in Areas /\ todo \in Areas
    /\ pc \in Steps
    /\ calls \in Nat

(***************************************************************************)
(* No call but branch and create_branch takes a commit off a branch: a ref *)
(* that moves moves to a commit with the old one as a parent, over every   *)
(* order of checkouts, failures, crashes and reopenings.  It relates       *)
(* commit's two readings of the branch: HEAD, which gives the parent, and  *)
(* current_branch, which gives the ref.  The one case where the two differ *)
(* is excepted: after checkout("refs/heads/b") HEAD names no branch, the   *)
(* next process takes main instead, and its first commit has no parent and *)
(* takes the place of all of main's history.                               *)
(***************************************************************************)
Advances(b) == refs[b] \in commits'[refs'[b]].parents

Adrift == head \notin Branches /\ branch = Main

RefsAdvance ==
    [][\A b \in Branches :
         pc # "idle" /\ refs[b] # 0 /\ refs'[b] # refs[b]
           => Advances(b) \/ (b = Main /\ Adrift)]_vars

(***************************************************************************)
(* Between two calls a process that opens the store anew shows what this   *)
(* one shows, whatever failed and whenever a process died, except after a  *)
(* checkout has left the tree empty.                                       *)
(***************************************************************************)
Reopened == Override(diskTree, stagingFile)

CrashKeepsView == pc = "idle" /\ tree # EmptyTree => Reopened = Shown

(***************************************************************************)
(* Between two calls the tree is the content of HEAD's commit, so that     *)
(* get is the commit overridden by what is staged.  (A checkout of a       *)
(* commit of the empty map leaves the old tree on disk, which the next     *)
(* process shows.)                                                         *)
(***************************************************************************)
TreeIsCommitted ==
    pc = "idle" /\ HeadCommit # 0 =>
      commits[HeadCommit].map \in {tree, EmptyTree}

(* The commit two branches have parted at, defined without a walk.         *)
ForkPoint(c, d) ==
    CHOOSE a \in CommonAncestors(c, d) : CommonAncestors(c, d) \subseteq Ancestors(a)

(***************************************************************************)
(* A merge changes no key that only the destination changed, and takes     *)
(* the source's side of every key that only the source changed.            *)
(***************************************************************************)
MergeIsThreeWay ==
    [][pc = "merge_apply" /\ pc' = "merge_add" =>
         LET s == RefOf(op.arg[1])
             base == commits[ForkPoint(RefOf(branch), s)].map
             source == commits[s].map
             dest == commits[RefOf(branch)].map
         IN  dest # EmptyTree =>
               \A k \in Keys : staging[k] = Unstaged =>
                 /\ source[k] = base[k] => tree'[k] = dest[k]
                 /\ dest[k] = base[k] => tree'[k] = source[k]]_vars

(***************************************************************************)
(* Every call ends, with an answer or with the process.                    *)
(***************************************************************************)
CallsEnd == pc \notin {"idle", "closed"} ~> pc \in {"idle", "closed"}
=============================================================================

------------------------ MODULE VersionedStoreProofs ------------------------
(***************************************************************************)
(* Proofs about VersionedStore: its types, that a reopened store shows     *)
(* what the old one showed, and that commits and merges only ever append   *)
(* to a branch; and, where no git command fails and no process dies in a   *)
(* call, that the tree is HEAD's commit, that merges are three-way and     *)
(* that the store implements BranchedMap.                                  *)
(***************************************************************************)
EXTENDS StoreRefinement, Integers, FiniteSetTheorems, WellFoundedInduction, TLAPS

(***************************************************************************)
(* Every set of naturals that is not empty has a least element.            *)
(***************************************************************************)
LEMMA LeastNat ==
    ASSUME NEW S \in SUBSET Nat, S # {}
    PROVE  \E n \in S : \A m \in S : n <= m
<1>1. PICK R : IsWellFoundedOn(R, Nat) /\ \A m, n \in Nat : m < n => <<m, n>> \in R
  <2>1. \A m, n \in Nat : m < n => <<m, n>> \in OpToRel(<, Nat)
    BY DEF OpToRel
  <2> QED BY <2>1, NatLessThanWellFounded, Zenon
<1>2. \E n \in S : \A m \in S : ~(<<m, n>> \in R)
  <2>1. IsWellFoundedOn(R, Nat) /\ S \subseteq Nat
    BY <1>1
  <2> QED BY <2>1, WFMin, Zenon
<1>3. PICK n \in S : \A m \in S : ~(<<m, n>> \in R)
  BY <1>2
<1>4. \A m \in S : ~(m < n)
  BY <1>1, <1>3
<1> QED BY <1>4

(***************************************************************************)
(* A set that has every natural whose predecessors it has has them all.    *)
(***************************************************************************)
LEMMA CourseOfValues ==
    ASSUME NEW S, \A n \in Nat : 0..(n - 1) \subseteq S => n \in S
    PROVE  Nat \subseteq S
<1> SUFFICES ASSUME Nat \ S # {} PROVE FALSE
  OBVIOUS
<1>1. PICK n \in Nat \ S : \A m \in Nat \ S : n <= m
  <2>1. (Nat \ S) \in SUBSET Nat
    OBVIOUS
  <2> QED BY <2>1, LeastNat
<1>2. 0..(n - 1) \subseteq S
  BY <1>1
<1> QED BY <1>1, <1>2

(***************************************************************************)
(* The branch that create_branch is about to switch to is one.             *)
(***************************************************************************)
CreatesBranch == pc \in {"create_clear", "create_head"} => op.arg \in Branches

TInv == TypeOK /\ CreatesBranch

(***************************************************************************)
(* Writing into a tree or an area gives a tree or an area.                 *)
(***************************************************************************)
LEMMA WriteTree ==
    ASSUME NEW t \in Trees, NEW k \in Keys, NEW side \in Sides
    PROVE  [t EXCEPT ![k] = side] \in Trees
BY DEF Trees

LEMMA WriteArea ==
    ASSUME NEW a \in Areas, NEW k \in Keys, NEW side \in Sides \cup {Unstaged}
    PROVE  [a EXCEPT ![k] = side] \in Areas
BY DEF Areas

LEMMA Empties == EmptyTree \in Trees /\ EmptyArea \in Areas /\ NoValue \in Sides
BY DEF EmptyTree, EmptyArea, Trees, Areas, Sides

LEMMA BranchIsName == Branches \subseteq Names /\ Main \in Branches /\ CheckoutNames \subseteq Names
BY StoreAssumptions DEF Names

(***************************************************************************)
(* HEAD leads to a commit that was written, or to none.                    *)
(***************************************************************************)
LEMMA RefIsCommit ==
    ASSUME TypeOK, NEW n
    PROVE  RefOf(n) \in 0..Len(commits) /\ Len(commits) \in Nat
BY DEF TypeOK, RefOf

(***************************************************************************)
(* A commit that was written holds a tree.                                 *)
(***************************************************************************)
LEMMA CommitHasMap ==
    ASSUME TypeOK, NEW c \in 1..Len(commits)
    PROVE  commits[c].map \in Trees
<1> DEFINE Commits == [parents : SUBSET Nat, map : Trees]
<1>1. commits \in Seq(Commits)
  BY DEF TypeOK
<1> HIDE DEF Commits
<1>2. commits[c] \in Commits
  BY <1>1
<1> QED BY <1>2 DEF Commits

(***************************************************************************)
(* The types hold at the start.                                            *)
(***************************************************************************)
LEMMA InitTypes == Init => TInv
<1> SUFFICES ASSUME Init PROVE TInv
    OBVIOUS
<1>1. commits \in Seq([parents : SUBSET Nat, map : Trees]) /\ Len(commits) = 1 /\ commits[1].parents = {}
  <2>1. [parents |-> {}, map |-> EmptyTree] \in [parents : SUBSET Nat, map : Trees]
    BY Empties
  <2> QED BY <2>1 DEF Init
<1>2. refs \in [Branches -> 0..Len(commits)]
  BY <1>1 DEF Init
<1>3. \A c \in 1..Len(commits) : commits[c].parents \subseteq 1..(c - 1)
  BY <1>1
<1> QED
  BY <1>1, <1>2, <1>3, Empties, BranchIsName DEF Init, TInv, TypeOK, CreatesBranch, Steps

(***************************************************************************)
(* A commit added to a well-formed history keeps it well-formed.           *)
(***************************************************************************)
LEMMA WriteTypes ==
    ASSUME TypeOK, WriteCommit
    PROVE  /\ commits' \in Seq([parents : SUBSET Nat, map : Trees])
           /\ Len(commits') = Len(commits) + 1
           /\ \A c \in 1..Len(commits') : commits'[c].parents \subseteq 1..(c - 1)
           /\ commits'[Len(commits')].parents = ParentsOfNew
           /\ \A c \in 1..Len(commits) : commits'[c] = commits[c]
<1> DEFINE new == [parents |-> ParentsOfNew, map |-> index]
<1>1. ParentsOfNew \subseteq 1..Len(commits) /\ ParentsOfNew \subseteq Nat
  BY RefIsCommit DEF ParentsOfNew, HeadCommit
<1>2. new \in [parents : SUBSET Nat, map : Trees]
  BY <1>1 DEF TypeOK
<1>3. /\ commits' = Append(commits, new)
      /\ commits \in Seq([parents : SUBSET Nat, map : Trees])
  BY DEF WriteCommit, TypeOK
<1> HIDE DEF new
<1>4. /\ commits' \in Seq([parents : SUBSET Nat, map : Trees])
      /\ Len(commits') = Len(commits) + 1
      /\ commits'[Len(commits')] = new
      /\ \A c \in 1..Len(commits) : commits'[c] = commits[c]
  BY <1>2, <1>3
<1>5. new.parents = ParentsOfNew
  BY DEF new
<1>6. \A c \in 1..Len(commits') : commits'[c].parents \subseteq 1..(c - 1)
  <2> SUFFICES ASSUME NEW c \in 1..Len(commits') PROVE commits'[c].parents \subseteq 1..(c - 1)
    OBVIOUS
  <2>1. CASE c = Len(commits')
    <3>1. commits'[c].parents = ParentsOfNew
      BY <2>1, <1>4, <1>5
    <3>2. c - 1 = Len(commits)
      BY <2>1, <1>4, RefIsCommit
    <3> QED BY <3>1, <3>2, <1>1
  <2>2. CASE c # Len(commits')
    <3>1. c \in 1..Len(commits)
      BY <2>2, <1>4, RefIsCommit
    <3>2. commits[c].parents \subseteq 1..(c - 1)
      BY <3>1 DEF TypeOK
    <3> QED BY <3>1, <3>2, <1>4
  <2> QED BY <2>1, <2>2
<1> QED
  BY <1>4, <1>5, <1>6

(***************************************************************************)
(* Every step keeps the types.                                             *)
(***************************************************************************)
LEMMA StepTypes == TInv /\ [Next]_vars => TInv'
<1> SUFFICES ASSUME TInv, [Next]_vars PROVE TInv'
    OBVIOUS
<1> USE DEF TInv, TypeOK, CreatesBranch, disk, memory
<1>1. CASE UNCHANGED vars
  BY <1>1 DEF vars
<1>2. ASSUME NEW k \in Keys, NEW v \in Values, Insert(k, v) \/ Update(k, v) PROVE TInv'
  <2>1. Stage(k, v) /\ pc' = "idle" /\ calls' \in Nat
    BY <1>2 DEF Insert, Update, Begin
  <2>2. staging' \in Areas /\ stagingFile' \in Areas
    BY <2>1, WriteArea DEF Stage, Sides
  <2> QED BY <2>1, <2>2 DEF Stage, Steps
<1>3. ASSUME NEW k \in Keys, Delete(k) PROVE TInv'
  <2>1. Stage(k, NoValue) /\ pc' = "idle" /\ calls' \in Nat
    BY <1>3 DEF Delete, Begin
  <2>2. staging' \in Areas /\ stagingFile' \in Areas
    BY <2>1, WriteArea DEF Stage, Sides
  <2> QED BY <2>1, <2>2 DEF Stage, Steps
<1>4. CASE CommitStep
  <2>1. CASE Commit
    BY <2>1 DEF Commit, Begin, Steps
  <2>2. ASSUME NEW k \in Keys, CommitApply(k) PROVE TInv'
    <3>1. staging[k] \in Sides
      BY <2>2 DEF CommitApply, Areas
    <3>2. tree' \in Trees /\ diskTree' \in Trees
      BY <2>2, <3>1, WriteTree DEF CommitApply, ApplyToTree
    <3>3. staging' \in Areas
      BY <2>2, WriteArea DEF CommitApply
    <3> QED BY <2>2, <3>2, <3>3 DEF CommitApply, Step, Steps
  <2>3. CASE CommitPersist
    BY <2>3 DEF CommitPersist, Step, Steps
  <2>4. CASE CommitAdd
    BY <2>4 DEF CommitAdd, Step, Steps
  <2>5. CASE CommitWrite
    <3>1. refs' \in [Branches -> 0..Len(commits')]
      BY <2>5, WriteTypes, RefIsCommit DEF CommitWrite
    <3> QED BY <2>5, <3>1, WriteTypes DEF CommitWrite, Step, Steps
  <2>6. CASE CommitWriteFails
    BY <2>6 DEF CommitWriteFails, GiveUp, Steps
  <2>7. CASE CommitRef
    <3>1. Len(commits) \in 0..Len(commits)
      BY RefIsCommit
    <3> QED BY <2>7, <3>1 DEF CommitRef, Step, Steps
  <2>8. CASE CommitRefFails
    BY <2>8 DEF CommitRefFails, GiveUp, Steps
  <2>9. CASE CommitHead
    BY <2>9 DEF CommitHead, Step, Steps
  <2>10. CASE CommitClear
    BY <2>10 DEF CommitClear, Step, Steps
  <2> QED BY <1>4, <2>1, <2>2, <2>3, <2>4, <2>5, <2>6, <2>7, <2>8, <2>9, <2>10 DEF CommitStep
<1>5. CASE BranchStep
  <2>1. ASSUME NEW b \in Branches, Branch(b) PROVE TInv'
    BY <2>1, RefIsCommit DEF Branch, Begin, Steps, HeadCommit
  <2>2. ASSUME NEW b \in Branches, CreateBranch(b) PROVE TInv'
    BY <2>2, RefIsCommit DEF CreateBranch, Begin, Steps, HeadCommit
  <2>3. CASE CreateBranchClear
    BY <2>3, Empties DEF CreateBranchClear, Step, Steps
  <2>4. CASE CreateBranchHead
    BY <2>4, BranchIsName DEF CreateBranchHead, Step, Steps
  <2> QED BY <1>5, <2>1, <2>2, <2>3, <2>4 DEF BranchStep
<1>6. CASE CheckoutStep
  <2>1. ASSUME NEW n \in CheckoutNames, Checkout(n) PROVE TInv'
    BY <2>1, Empties, BranchIsName DEF Checkout, ClearStaging, Begin, Fail, Steps
  <2>2. CASE CheckoutHead
    BY <2>2 DEF CheckoutHead, Step, Steps
  <2>3. CASE CheckoutReload
    <3>1. HeadCommit \in 1..Len(commits)
      BY <2>3, RefIsCommit DEF CheckoutReload, HeadCommit
    <3>2. commits[HeadCommit].map \in Trees
      BY <3>1, CommitHasMap
    <3>3. todo' \in Areas
      BY <2>3, <3>2 DEF CheckoutReload, KeysAt, Areas, Trees
    <3> QED BY <2>3, <3>3, Empties DEF CheckoutReload, Step, Steps
  <2>4. CASE CheckoutReloadFails
    BY <2>4 DEF CheckoutReloadFails, GiveUp, Steps
  <2>5. ASSUME NEW k \in Keys, CheckoutRebuild(k) PROVE TInv'
    <3>1. todo[k] \in Sides
      BY <2>5 DEF CheckoutRebuild, Areas
    <3>2. tree' \in Trees /\ diskTree' \in Trees
      BY <2>5, <3>1, WriteTree DEF CheckoutRebuild, ApplyToTree
    <3>3. todo' \in Areas
      BY <2>5, WriteArea DEF CheckoutRebuild
    <3> QED BY <2>5, <3>2, <3>3 DEF CheckoutRebuild, Step, Steps
  <2>6. CASE CheckoutDone
    BY <2>6 DEF CheckoutDone, Step, Steps
  <2> QED BY <1>6, <2>1, <2>2, <2>3, <2>4, <2>5, <2>6 DEF CheckoutStep
<1>7. CASE MergeStep
  <2>1. ASSUME NEW s \in Branches, NEW r \in UsedResolvers, Merge(s, r) PROVE TInv'
    <3>1. todo' \in Areas
      BY <2>1 DEF Merge
    <3> QED BY <2>1, <3>1 DEF Merge, Begin, Steps
  <2>2. ASSUME NEW s \in Branches, NEW r \in UsedResolvers, MergeFails(s, r) PROVE TInv'
    BY <2>2 DEF MergeFails, Fail, Steps
  <2>3. ASSUME NEW k \in Keys, MergeApply(k) PROVE TInv'
    <3>1. todo[k] \in Sides
      BY <2>3 DEF MergeApply, Areas
    <3>2. tree' \in Trees /\ diskTree' \in Trees
      BY <2>3, <3>1, WriteTree DEF MergeApply, ApplyToTree
    <3>3. todo' \in Areas
      BY <2>3, WriteArea DEF MergeApply
    <3> QED BY <2>3, <3>2, <3>3 DEF MergeApply, Step, Steps
  <2>4. CASE MergeClear
    BY <2>4, Empties DEF MergeClear, ClearStaging, Step, Steps
  <2>5. CASE MergeAdd
    BY <2>5 DEF MergeAdd, Step, Steps
  <2>6. CASE MergeAddFails
    BY <2>6 DEF MergeAddFails, GiveUp, Steps
  <2>7. CASE MergeCommit
    <3>1. Len(commits) + 1 \in 0..Len(commits') /\ Len(commits) \in 0..Len(commits')
      BY <2>7, WriteTypes, RefIsCommit DEF MergeCommit
    <3>2. refs' \in [Branches -> 0..Len(commits')]
      BY <2>7, <3>1, WriteTypes, RefIsCommit DEF MergeCommit
    <3> QED BY <2>7, <3>2, WriteTypes DEF MergeCommit, Step, Steps
  <2>8. CASE MergeCommitFails
    BY <2>8 DEF MergeCommitFails, GiveUp, Steps
  <2> QED BY <1>7, <2>1, <2>2, <2>3, <2>4, <2>5, <2>6, <2>7, <2>8 DEF MergeStep
<1>8. CASE Close \/ Crash
  BY <1>8, Empties, BranchIsName DEF Close, Crash, Stop, Steps
<1>9. CASE Open
  BY <1>9, BranchIsName DEF Open, LoadStagingArea, Steps
<1> QED
  BY <1>1, <1>2, <1>3, <1>4, <1>5, <1>6, <1>7, <1>8, <1>9 DEF Next

(***************************************************************************)
(* The types hold in every behaviour; in particular every ref and every    *)
(* parent leads to a commit that was written before.                       *)
(***************************************************************************)
THEOREM TypesCorrect == Spec => []TypeOK
<1>1. TInv => TypeOK
  BY DEF TInv
<1> QED
  BY InitTypes, StepTypes, <1>1, PTL DEF Spec

-----------------------------------------------------------------------------
(* A reopened store shows what the old one showed                          *)

(***************************************************************************)
(* The tree in memory is the tree on disk unless it is empty: every insert *)
(* and every delete that finds its key saves the configuration.            *)
(***************************************************************************)
TreeOnDisk == tree \in {EmptyTree, diskTree}

(***************************************************************************)
(* Until the staging file is rewritten, an entry that it has and the       *)
(* staging area no longer has was drained into the tree.                   *)
(***************************************************************************)
Drained(k) == staging[k] = Unstaged /\ stagingFile[k] = tree[k]

FileCovers ==
    pc \in {"idle", "commit_apply", "commit_add", "commit_write", "commit_ref",
           "commit_head", "commit_clear", "create_clear"} =>
      \A k \in Keys : stagingFile[k] = staging[k] \/ Drained(k)

(***************************************************************************)
(* From then on the two are the same.                                      *)
(***************************************************************************)
FileIsArea ==
    pc \in {"create_head", "checkout_head", "checkout_reload", "checkout_rebuild",
           "merge_add", "merge_commit"} => stagingFile = staging

DInv == TInv /\ TreeOnDisk /\ FileCovers /\ FileIsArea

LEMMA InitDurable == Init => DInv
BY InitTypes DEF Init, DInv, TreeOnDisk, FileCovers, FileIsArea

(***************************************************************************)
(* A change of the tree keeps it on disk.                                  *)
(***************************************************************************)
LEMMA ApplyKeepsTreeOnDisk ==
    ASSUME TypeOK, TreeOnDisk, NEW k \in Keys, NEW side \in Sides, ApplyToTree(k, side)
    PROVE  TreeOnDisk'
<1>1. CASE side = NoValue /\ tree[k] = NoValue
  <2>1. tree' = tree /\ diskTree' = diskTree
    BY <1>1 DEF ApplyToTree, TypeOK, Trees
  <2> QED BY <2>1 DEF TreeOnDisk
<1>2. CASE ~(side = NoValue /\ tree[k] = NoValue)
  BY <1>2 DEF ApplyToTree, TreeOnDisk
<1> QED BY <1>1, <1>2

(***************************************************************************)
(* Every step keeps the tree on disk.                                      *)
(***************************************************************************)
LEMMA StepTreeOnDisk == DInv /\ [Next]_vars => TreeOnDisk'
<1> SUFFICES ASSUME DInv, [Next]_vars PROVE TreeOnDisk'
    OBVIOUS
<1>0. TypeOK /\ TreeOnDisk
  BY DEF DInv, TInv
<1>1. ASSUME NEW k \in Keys, CommitApply(k) \/ CheckoutRebuild(k) \/ MergeApply(k)
      PROVE  TreeOnDisk'
  <2>1. \E side \in Sides : ApplyToTree(k, side)
    <3>1. CASE CommitApply(k)
      <4>1. staging[k] \in Sides
        BY <1>0, <3>1 DEF CommitApply, TypeOK, Areas
      <4> QED BY <3>1, <4>1 DEF CommitApply
    <3>2. CASE CheckoutRebuild(k) \/ MergeApply(k)
      <4>1. todo[k] \in Sides
        BY <1>0, <3>2 DEF CheckoutRebuild, MergeApply, TypeOK, Areas
      <4> QED BY <3>2, <4>1 DEF CheckoutRebuild, MergeApply
    <3> QED BY <1>1, <3>1, <3>2
  <2> QED BY <1>0, <2>1, ApplyKeepsTreeOnDisk
<1>2. CASE CommitPersist \/ MergeAdd \/ MergeAddFails
  BY <1>2 DEF CommitPersist, MergeAdd, MergeAddFails, TreeOnDisk, memory
<1>3. CASE CheckoutReload \/ Close \/ Crash
  BY <1>3 DEF CheckoutReload, Close, Crash, Stop, TreeOnDisk
<1>4. CASE Open
  BY <1>4 DEF Open, LoadStagingArea, TreeOnDisk, disk
<1>5. CASE UNCHANGED <<tree, diskTree>>
  BY <1>0, <1>5 DEF TreeOnDisk
<1> USE DEF disk, memory
<1>6. ASSUME NEW k \in Keys, NEW v \in Values, Insert(k, v) \/ Update(k, v)
      PROVE  UNCHANGED <<tree, diskTree>>
  BY <1>6 DEF Insert, Update, Stage
<1>7. ASSUME NEW k \in Keys, Delete(k) PROVE UNCHANGED <<tree, diskTree>>
  BY <1>7 DEF Delete, Stage
<1>8. CASE CommitStep
  BY <1>8, <1>1, <1>2, <1>5
     DEF CommitStep, Commit, CommitAdd, CommitWrite, CommitWriteFails, CommitRef,
         CommitRefFails, CommitHead, CommitClear
<1>9. CASE BranchStep
  BY <1>9, <1>5 DEF BranchStep, Branch, CreateBranch, CreateBranchClear, CreateBranchHead
<1>10. CASE CheckoutStep
  BY <1>10, <1>1, <1>3, <1>5
     DEF CheckoutStep, Checkout, CheckoutHead, CheckoutReloadFails, CheckoutDone
<1>11. CASE MergeStep
  BY <1>11, <1>1, <1>2, <1>5
     DEF MergeStep, Merge, MergeFails, MergeClear, MergeCommit, MergeCommitFails
<1>12. CASE UNCHANGED vars
  BY <1>5, <1>12 DEF vars
<1> QED
  BY <1>3, <1>4, <1>5, <1>6, <1>7, <1>8, <1>9, <1>10, <1>11, <1>12 DEF Next

(***************************************************************************)
(* Every step keeps the staging file in step with the staging area.        *)
(***************************************************************************)
LEMMA StepFile == DInv /\ [Next]_vars => FileCovers' /\ FileIsArea'
<1> SUFFICES ASSUME DInv, [Next]_vars PROVE FileCovers' /\ FileIsArea'
    OBVIOUS
<1>0. TypeOK /\ FileCovers /\ FileIsArea
  BY DEF DInv, TInv
<1> USE DEF FileCovers, FileIsArea, Drained, disk, memory
<1>1. CASE stagingFile' = staging'
  BY <1>1
<1>2. CASE pc' = "closed"
  BY <1>2
<1>3. ASSUME UNCHANGED <<stagingFile, staging, tree>>,
             pc \in {"idle", "commit_apply", "commit_add", "commit_write", "commit_ref",
                    "commit_head", "commit_clear", "create_clear"},
             pc' \notin {"create_head", "checkout_head", "checkout_reload",
                        "checkout_rebuild", "merge_add", "merge_commit"}
      PROVE  FileCovers' /\ FileIsArea'
  BY <1>0, <1>3
<1>4. ASSUME UNCHANGED <<stagingFile, staging>>,
             pc \in {"create_head", "checkout_head", "checkout_reload", "checkout_rebuild",
                    "merge_add", "merge_commit"}
      PROVE  FileCovers' /\ FileIsArea'
  BY <1>0, <1>4
<1>5. ASSUME NEW k \in Keys, NEW v \in Values, Insert(k, v) \/ Update(k, v)
      PROVE  stagingFile' = staging'
  BY <1>5 DEF Insert, Update, Stage
<1>6. ASSUME NEW k \in Keys, Delete(k) PROVE stagingFile' = staging'
  BY <1>6 DEF Delete, Stage
<1>7. CASE CommitStep
  <2>1. ASSUME NEW k \in Keys, CommitApply(k) PROVE FileCovers' /\ FileIsArea'
    <3>1. pc = "commit_apply" /\ pc' = "commit_apply"
      BY <2>1 DEF CommitApply, Step
    <3>2. stagingFile[k] = staging[k]
      BY <1>0, <2>1, <3>1 DEF CommitApply
    <3>3. /\ stagingFile' = stagingFile
          /\ tree' = [tree EXCEPT ![k] = staging[k]]
          /\ staging' = [staging EXCEPT ![k] = Unstaged]
      BY <2>1 DEF CommitApply, ApplyToTree
    <3>4. stagingFile'[k] = tree'[k] /\ staging'[k] = Unstaged
      BY <1>0, <3>2, <3>3 DEF TypeOK, Trees, Areas
    <3>5. \A j \in Keys : j # k => tree'[j] = tree[j] /\ staging'[j] = staging[j]
      BY <1>0, <3>3 DEF TypeOK, Trees, Areas
    <3> QED BY <1>0, <3>1, <3>3, <3>4, <3>5
  <2>2. CASE Commit
    BY <1>3, <2>2 DEF Commit, Begin
  <2>3. CASE CommitPersist \/ CommitAdd \/ CommitWrite \/ CommitRef \/ CommitHead
    BY <1>3, <2>3 DEF CommitPersist, CommitAdd, CommitWrite, CommitRef, CommitHead, Step
  <2>4. CASE CommitWriteFails \/ CommitRefFails
    BY <1>3, <2>4 DEF CommitWriteFails, CommitRefFails, GiveUp
  <2>5. CASE CommitClear
    BY <1>1, <2>5 DEF CommitClear
  <2> QED BY <1>7, <2>1, <2>2, <2>3, <2>4, <2>5 DEF CommitStep
<1>8. CASE BranchStep
  <2>1. ASSUME NEW b \in Branches, Branch(b) \/ CreateBranch(b)
        PROVE  FileCovers' /\ FileIsArea'
    BY <1>3, <2>1 DEF Branch, CreateBranch, Begin
  <2>2. CASE CreateBranchClear
    BY <1>1, <2>2 DEF CreateBranchClear
  <2>3. CASE CreateBranchHead
    BY <1>4, <2>3 DEF CreateBranchHead, Step
  <2> QED BY <1>8, <2>1, <2>2, <2>3 DEF BranchStep
<1>9. CASE CheckoutStep
  <2>1. ASSUME NEW n \in CheckoutNames, Checkout(n) PROVE FileCovers' /\ FileIsArea'
    BY <1>1, <2>1 DEF Checkout, ClearStaging
  <2>2. ASSUME NEW k \in Keys, CheckoutRebuild(k) PROVE FileCovers' /\ FileIsArea'
    BY <1>4, <2>2 DEF CheckoutRebuild, Step
  <2>3. CASE CheckoutHead \/ CheckoutReload \/ CheckoutReloadFails \/ CheckoutDone
    BY <1>4, <2>3
       DEF CheckoutHead, CheckoutReload, CheckoutReloadFails, CheckoutDone, Step, GiveUp
  <2> QED BY <1>9, <2>1, <2>2, <2>3 DEF CheckoutStep
<1>10. CASE MergeStep
  <2>1. ASSUME NEW s \in Branches, NEW r \in UsedResolvers, Merge(s, r) \/ MergeFails(s, r)
        PROVE  FileCovers' /\ FileIsArea'
    BY <1>3, <2>1 DEF Merge, MergeFails, Begin, Fail
  <2>2. ASSUME NEW k \in Keys, MergeApply(k) PROVE FileCovers' /\ FileIsArea'
    BY <2>2 DEF MergeApply, Step
  <2>3. CASE MergeClear
    BY <1>1, <2>3 DEF MergeClear, ClearStaging
  <2>4. CASE MergeAdd \/ MergeAddFails \/ MergeCommit \/ MergeCommitFails
    BY <1>4, <2>4 DEF MergeAdd, MergeAddFails, MergeCommit, MergeCommitFails, Step, GiveUp
  <2> QED BY <1>10, <2>1, <2>2, <2>3, <2>4 DEF MergeStep
<1>11. CASE Close \/ Crash
  BY <1>2, <1>11 DEF Close, Crash, Stop
<1>12. CASE Open
  BY <1>1, <1>12 DEF Open, LoadStagingArea
<1>13. CASE UNCHANGED vars
  BY <1>0, <1>13 DEF vars
<1> QED
  BY <1>1, <1>5, <1>6, <1>7, <1>8, <1>9, <1>10, <1>11, <1>12, <1>13 DEF Next

(***************************************************************************)
(* The two relations give the property: an entry that only the file has    *)
(* hides a pair of the tree that is the same.                              *)
(***************************************************************************)
LEMMA DurableView == DInv => CrashKeepsView
<1> SUFFICES ASSUME DInv, pc = "idle", tree # EmptyTree PROVE Reopened = Shown
    BY DEF CrashKeepsView
<1>1. tree = diskTree /\ TypeOK
  BY DEF DInv, TInv, TreeOnDisk
<1>2. ASSUME NEW k \in Keys PROVE Reopened[k] = Shown[k]
  <2>1. stagingFile[k] = staging[k] \/ Drained(k)
    BY DEF DInv, FileCovers
  <2>2. tree[k] # Unstaged
    BY <1>1, StoreAssumptions DEF TypeOK, Trees
  <2> QED BY <1>1, <2>1, <2>2 DEF Reopened, Shown, Override, Drained
<1> QED BY <1>2 DEF Reopened, Shown, Override

(***************************************************************************)
(* Whatever git commands fail, whenever processes die and whatever names   *)
(* are checked out: between two calls a new process shows what the running *)
(* one shows, unless a checkout has left the tree empty.                   *)
(***************************************************************************)
THEOREM ReopenKeepsView == Spec => []CrashKeepsView
<1>1. DInv /\ [Next]_vars => DInv'
  <2>1. DInv /\ [Next]_vars => TInv'
    BY StepTypes DEF DInv
  <2> QED BY <2>1, StepTreeOnDisk, StepFile DEF DInv
<1> QED
  BY InitDurable, <1>1, DurableView, PTL DEF Spec

-----------------------------------------------------------------------------
(* Commits and merges append                                               *)

(***************************************************************************)
(* Main has a commit, and so have HEAD's branch and the current one, where *)
(* they are branches and not the qualified names a checkout has left.      *)
(***************************************************************************)
Born(n) == n \in Branches => refs[n] # 0

HeadIsBorn == Born(Main) /\ Born(head) /\ (pc # "closed" => Born(branch))

(***************************************************************************)
(* While HEAD names a branch it is the current one, and while it does not  *)
(* no branch but main is, except in a checkout that has yet to write HEAD  *)
(* (and when nobody has the store open).                                   *)
(***************************************************************************)
BranchIsHead ==
    pc \notin {"closed", "checkout_head"} =>
      IF head \in Branches THEN branch = head ELSE branch \in Branches => branch = Main

NewBranchIsBorn == pc \in {"create_clear", "create_head"} => Born(op.arg)

(***************************************************************************)
(* The commit that waits for its ref has the old one for a parent.         *)
(***************************************************************************)
NewCommitExtends ==
    pc = "commit_ref" /\ head \in Branches =>
      Len(commits) > 0 /\ commits[Len(commits)].parents = {refs[branch]}

RInv == TInv /\ HeadIsBorn /\ BranchIsHead /\ NewBranchIsBorn /\ NewCommitExtends

LEMMA InitRefs == Init => RInv
<1> SUFFICES ASSUME Init PROVE RInv
    OBVIOUS
<1> QED
  BY InitTypes, BranchIsName
     DEF Init, RInv, HeadIsBorn, Born, BranchIsHead, NewBranchIsBorn, NewCommitExtends

(***************************************************************************)
(* The parents of a new commit are HEAD's commit alone.                    *)
(***************************************************************************)
LEMMA ParentIsHead ==
    ASSUME HeadIsBorn, head \in Branches
    PROVE  ParentsOfNew = {refs[head]} /\ HeadCommit = refs[head] /\ HeadCommit # 0
BY DEF HeadIsBorn, Born, ParentsOfNew, HeadCommit, RefOf

(***************************************************************************)
(* Every step keeps the relations, and a ref that moves outside of branch  *)
(* and create_branch moves to a child.                                     *)
(***************************************************************************)
Advance ==
    \A b \in Branches :
      pc # "idle" /\ refs[b] # 0 /\ refs'[b] # refs[b]
        => Advances(b) \/ (b = Main /\ Adrift)

LEMMA StepRefs ==
    ASSUME RInv, TInv', [Next]_vars
    PROVE  RInv' /\ Advance
<1> USE DEF disk, memory
<1>0. /\ TypeOK /\ HeadIsBorn /\ BranchIsHead /\ NewBranchIsBorn /\ NewCommitExtends
      /\ Len(commits) \in Nat
  BY RefIsCommit DEF RInv, TInv
<1> DEFINE Good == RInv' /\ Advance
\* most steps leave refs, head and branch alone
<1>1. ASSUME UNCHANGED <<commits, refs, head, branch>>,
             pc # "closed", pc' \notin {"create_clear", "create_head", "commit_ref"},
             pc \in {"checkout_head"} => pc' = "checkout_head"
      PROVE  Good
  BY <1>0, <1>1
     DEF RInv, HeadIsBorn, Born, BranchIsHead, NewBranchIsBorn, NewCommitExtends,
         Advance, Advances, Adrift
<1>2. CASE UNCHANGED vars
  BY <1>0, <1>2
     DEF vars, RInv, HeadIsBorn, Born, BranchIsHead, NewBranchIsBorn, NewCommitExtends,
         Advance, Advances, Adrift
<1>3. ASSUME NEW k \in Keys, NEW v \in Values, Insert(k, v) \/ Update(k, v) PROVE Good
  BY <1>1, <1>3 DEF Insert, Update, Stage, Begin
<1>4. ASSUME NEW k \in Keys, Delete(k) PROVE Good
  BY <1>1, <1>4 DEF Delete, Stage, Begin
<1>5. CASE CommitStep
  <2>1. CASE Commit
    BY <1>1, <2>1 DEF Commit, Begin
  <2>2. ASSUME NEW k \in Keys, CommitApply(k) PROVE Good
    BY <1>1, <2>2 DEF CommitApply, Step
  <2>3. CASE CommitPersist \/ CommitAdd \/ CommitClear
    BY <1>1, <2>3 DEF CommitPersist, CommitAdd, CommitClear, Step
  <2>4. CASE CommitWriteFails \/ CommitRefFails
    BY <1>1, <2>4 DEF CommitWriteFails, CommitRefFails, GiveUp
  <2>5. CASE CommitWrite
    <3>1. /\ head \in Branches => commits'[Len(commits')].parents = {refs[head]}
          /\ Len(commits') = Len(commits) + 1
      BY <1>0, <2>5, WriteTypes, ParentIsHead DEF CommitWrite
    <3>2. /\ pc = "commit_write" /\ pc' = "commit_ref"
          /\ UNCHANGED <<refs, head, branch>>
      BY <2>5 DEF CommitWrite, Step
    <3> QED
      BY <1>0, <3>1, <3>2
         DEF RInv, HeadIsBorn, Born, BranchIsHead, NewBranchIsBorn, NewCommitExtends,
             Advance, Advances, Adrift
  <2>6. CASE CommitRef
    <3>1. /\ pc = "commit_ref" /\ pc' = "commit_head"
          /\ refs' = [refs EXCEPT ![branch] = Len(commits)]
          /\ UNCHANGED <<commits, head, branch>>
      BY <2>6 DEF CommitRef, Step
    <3>2. /\ refs'[branch] = Len(commits) /\ refs'[branch] # 0
          /\ \A b \in Branches : b # branch => refs'[b] = refs[b]
      BY <1>0, <2>6, <3>1 DEF TypeOK, HeadIsBorn, Born, CommitRef, RInv
    <3>3. head \in Branches => refs[branch] \in commits'[refs'[branch]].parents
      BY <1>0, <3>1, <3>2 DEF NewCommitExtends
    <3> QED
      BY <1>0, <3>1, <3>2, <3>3
         DEF RInv, HeadIsBorn, Born, BranchIsHead, NewBranchIsBorn, NewCommitExtends,
             Advance, Advances, Adrift
  <2>7. CASE CommitHead
    <3>1. /\ pc = "commit_head" /\ pc' = "commit_clear"
          /\ head' = branch /\ UNCHANGED <<commits, refs, branch>>
      BY <2>7 DEF CommitHead, Step
    <3> QED
      BY <1>0, <3>1
         DEF RInv, HeadIsBorn, Born, BranchIsHead, NewBranchIsBorn, NewCommitExtends,
             Advance, Advances, Adrift
  <2> QED BY <1>5, <2>1, <2>2, <2>3, <2>4, <2>5, <2>6, <2>7 DEF CommitStep
<1>6. CASE BranchStep
  <2>1. ASSUME NEW b \in Branches, Branch(b) \/ CreateBranch(b) PROVE Good
    <3>1. /\ pc = "idle" /\ pc' \in {"idle", "create_clear"}
          /\ HeadCommit # 0 /\ refs' = [refs EXCEPT ![b] = HeadCommit]
          /\ UNCHANGED <<commits, head, branch>>
          /\ pc' = "create_clear" => op'.arg = b
      BY <2>1 DEF Branch, CreateBranch, Begin
    <3>2. \A c \in Branches : refs[c] # 0 => refs'[c] # 0
      BY <1>0, <3>1 DEF TypeOK
    <3>3. refs'[b] # 0
      BY <1>0, <3>1 DEF TypeOK
    <3> QED
      BY <1>0, <3>1, <3>2, <3>3
         DEF RInv, HeadIsBorn, Born, BranchIsHead, NewBranchIsBorn, NewCommitExtends,
             Advance, Advances, Adrift
  <2>2. CASE CreateBranchClear
    <3>1. /\ pc = "create_clear" /\ pc' = "create_head" /\ op'.arg = op.arg
          /\ UNCHANGED <<commits, refs, head, branch>>
      BY <2>2 DEF CreateBranchClear, Step
    <3> QED
      BY <1>0, <3>1
         DEF RInv, HeadIsBorn, Born, BranchIsHead, NewBranchIsBorn, NewCommitExtends,
             Advance, Advances, Adrift
  <2>3. CASE CreateBranchHead
    <3>1. /\ pc = "create_head" /\ pc' = "idle"
          /\ branch' = op.arg /\ head' = op.arg /\ UNCHANGED <<commits, refs>>
      BY <2>3 DEF CreateBranchHead, Step
    <3> QED
      BY <1>0, <3>1
         DEF RInv, HeadIsBorn, Born, BranchIsHead, NewBranchIsBorn, NewCommitExtends,
             Advance, Advances, Adrift
  <2> QED BY <1>6, <2>1, <2>2, <2>3 DEF BranchStep
<1>7. CASE CheckoutStep
  <2>1. ASSUME NEW n \in CheckoutNames, Checkout(n) PROVE Good
    <3>1. n \in Branches => Target(n) = n
      BY DEF Target
    <3>2. /\ pc = "idle" /\ UNCHANGED <<commits, refs, head>>
          /\ \/ pc' = "checkout_head" /\ branch' = n /\ refs[Target(n)] # 0
             \/ pc' = "idle" /\ branch' = branch
      BY <2>1 DEF Checkout, Begin, Fail
    <3> QED
      BY <1>0, <3>1, <3>2
         DEF RInv, HeadIsBorn, Born, BranchIsHead, NewBranchIsBorn, NewCommitExtends,
             Advance, Advances, Adrift
  <2>2. CASE CheckoutHead
    <3>1. /\ pc = "checkout_head" /\ pc' = "checkout_reload"
          /\ head' = branch /\ UNCHANGED <<commits, refs, branch>>
      BY <2>2 DEF CheckoutHead, Step
    <3> QED
      BY <1>0, <3>1
         DEF RInv, HeadIsBorn, Born, BranchIsHead, NewBranchIsBorn, NewCommitExtends,
             Advance, Advances, Adrift
  <2>3. CASE CheckoutReload \/ CheckoutReloadFails \/ CheckoutDone
    BY <1>1, <2>3 DEF CheckoutReload, CheckoutReloadFails, CheckoutDone, Step, GiveUp
  <2>4. ASSUME NEW k \in Keys, CheckoutRebuild(k) PROVE Good
    BY <1>1, <2>4 DEF CheckoutRebuild, Step
  <2> QED BY <1>7, <2>1, <2>2, <2>3, <2>4 DEF CheckoutStep
<1>8. CASE MergeStep
  <2>1. ASSUME NEW s \in Branches, NEW r \in UsedResolvers, Merge(s, r) \/ MergeFails(s, r)
        PROVE  Good
    BY <1>1, <2>1 DEF Merge, MergeFails, Begin, Fail
  <2>2. ASSUME NEW k \in Keys, MergeApply(k) PROVE Good
    BY <1>1, <2>2 DEF MergeApply, Step
  <2>3. CASE MergeClear \/ MergeAdd
    BY <1>1, <2>3 DEF MergeClear, MergeAdd, Step
  <2>4. CASE MergeAddFails \/ MergeCommitFails
    BY <1>1, <2>4 DEF MergeAddFails, MergeCommitFails, GiveUp
  <2>5. CASE MergeCommit
    <3>1. /\ head \in Branches /\ commits'[Len(commits) + 1].parents = {refs[head]}
          /\ Len(commits') = Len(commits) + 1
      BY <1>0, <2>5, WriteTypes, ParentIsHead DEF MergeCommit
    <3>2. /\ pc = "merge_commit" /\ pc' = "idle"
          /\ refs' = [refs EXCEPT ![head] = Len(commits) + 1]
          /\ UNCHANGED <<head, branch>>
      BY <2>5 DEF MergeCommit, Step
    <3>3. /\ refs'[head] = Len(commits) + 1 /\ refs'[head] # 0
          /\ \A b \in Branches : b # head => refs'[b] = refs[b]
      BY <1>0, <3>1, <3>2 DEF TypeOK
    <3> QED
      BY <1>0, <3>1, <3>2, <3>3
         DEF RInv, HeadIsBorn, Born, BranchIsHead, NewBranchIsBorn, NewCommitExtends,
             Advance, Advances, Adrift
  <2> QED BY <1>8, <2>1, <2>2, <2>3, <2>4, <2>5 DEF MergeStep
<1>9. CASE Close \/ Crash
  <2>1. pc' = "closed" /\ UNCHANGED <<commits, refs, head>>
    BY <1>9 DEF Close, Crash, Stop
  <2> QED
    BY <1>0, <2>1
       DEF RInv, HeadIsBorn, Born, BranchIsHead, NewBranchIsBorn, NewCommitExtends,
           Advance, Advances, Adrift
<1>10. CASE Open
  <2>1. /\ pc' = "idle" /\ branch' \in {head, Main} /\ UNCHANGED <<commits, refs, head>>
        /\ branch' = IF head \in Branches THEN head ELSE Main
    BY <1>0, <1>10, ParentIsHead DEF Open, LoadStagingArea, HeadCommit, RefOf
  <2> QED
    BY <1>0, <2>1
       DEF RInv, HeadIsBorn, Born, BranchIsHead, NewBranchIsBorn, NewCommitExtends,
           Advance, Advances, Adrift
<1> QED
  BY <1>2, <1>3, <1>4, <1>5, <1>6, <1>7, <1>8, <1>9, <1>10 DEF Next

(***************************************************************************)
(* No commit or merge takes a commit off a branch, whatever checkout is    *)
(* called with, whatever fails and whenever processes die, but the first   *)
(* commit of a process that has found a HEAD that names no branch: it      *)
(* takes the place of main's history.                                      *)
(***************************************************************************)
THEOREM BranchesOnlyGrow == Spec => RefsAdvance
<1>1. RInv /\ [Next]_vars => RInv' /\ [Advance]_vars
  <2> SUFFICES ASSUME RInv, [Next]_vars PROVE RInv' /\ Advance
      OBVIOUS
  <2>1. TInv'
    BY StepTypes DEF RInv
  <2> QED BY <2>1, StepRefs
<1>2. Spec => [][Advance]_vars
  BY InitRefs, <1>1, PTL DEF Spec
<1> QED
  BY <1>2 DEF RefsAdvance, Advance

-----------------------------------------------------------------------------
(* Without faults the tree is the content of HEAD's commit                 *)

(***************************************************************************)
(* The content of HEAD's commit, where there is one, is t, except that an  *)
(* empty commit may have left something in t.                              *)
(***************************************************************************)
HeadHolds(t) == HeadCommit # 0 => commits[HeadCommit].map \in {t, EmptyTree}

(***************************************************************************)
(* What a call in progress has brought in line so far: what is written of  *)
(* the tree goes from the disk to the index, the commit and the ref, and   *)
(* a checkout has yet to insert what the commit has and the tree has not.  *)
(***************************************************************************)
CommitFollowsTree ==
    /\ pc \in {"commit_add", "commit_write"} => diskTree = tree
    /\ pc \in {"commit_write", "merge_commit"} => index = tree
    /\ pc = "commit_ref" => Len(commits) > 0 /\ commits[Len(commits)].map = tree
    /\ pc = "commit_head" => branch \in Branches /\ commits[refs[branch]].map = tree

NewBranchIsHead == pc \in {"create_clear", "create_head"} => refs[op.arg] = HeadCommit

RebuildsHead ==
    pc = "checkout_rebuild" => HeadCommit # 0 /\ Override(tree, todo) = commits[HeadCommit].map

TreeFollowsHead ==
    /\ pc \in {"idle", "commit_clear", "create_clear", "create_head"} => HeadHolds(tree)
    /\ pc = "closed" => HeadHolds(diskTree)

CInv == DInv /\ RInv /\ CommitFollowsTree /\ NewBranchIsHead /\ RebuildsHead /\ TreeFollowsHead

LEMMA InitFollows == Init => CInv
<1> SUFFICES ASSUME Init PROVE CInv
  OBVIOUS
<1>1. HeadHolds(tree)
  BY DEF Init, HeadHolds, HeadCommit, RefOf
<1> QED BY <1>1, InitDurable, InitRefs
         DEF Init, CInv, CommitFollowsTree, NewBranchIsHead, RebuildsHead, TreeFollowsHead

(***************************************************************************)
(* A pair moved from an area into the tree stays in what the two show.     *)
(***************************************************************************)
LEMMA ApplyKeepsOverride ==
    ASSUME NEW t \in Trees, NEW a \in Areas, NEW k \in Keys, a[k] # Unstaged
    PROVE  Override([t EXCEPT ![k] = a[k]], [a EXCEPT ![k] = Unstaged]) = Override(t, a)
BY DEF Override, Trees, Areas

LEMMA NothingOver ==
    ASSUME NEW t \in Trees
    PROVE  Override(t, EmptyArea) = t
BY DEF Override, EmptyArea, Trees

LEMMA StepFollows ==
    ASSUME CInv, DInv', RInv', [Next]_vars, Faults = {}
    PROVE  CInv'
<1> USE DEF disk, memory
<1> DEFINE Good == CInv'
<1>0. /\ TypeOK /\ TypeOK' /\ TreeOnDisk /\ CreatesBranch /\ Len(commits) \in Nat
      /\ CommitFollowsTree /\ NewBranchIsHead /\ RebuildsHead /\ TreeFollowsHead
  BY RefIsCommit DEF CInv, DInv, TInv
\* steps that write neither commits nor refs nor HEAD
<1>1. ASSUME UNCHANGED <<commits, refs, head>>
      PROVE  /\ HeadCommit' = HeadCommit
             /\ \A t : HeadHolds(t)' = HeadHolds(t)
  BY <1>1 DEF HeadHolds, HeadCommit, RefOf, EmptyTree
<1>2. ASSUME UNCHANGED <<commits, refs, head>>,
             pc' \in {"commit_apply", "checkout_head", "checkout_reload", "merge_apply", "merge_add"}
      PROVE  Good
  BY <1>2 DEF CInv, CommitFollowsTree, NewBranchIsHead, RebuildsHead, TreeFollowsHead
<1>3. ASSUME UNCHANGED <<commits, refs, head, tree>>, pc = "idle", pc' = "idle" PROVE Good
  BY <1>0, <1>1, <1>3 DEF CInv, CommitFollowsTree, NewBranchIsHead, RebuildsHead, TreeFollowsHead
<1>4. CASE UNCHANGED vars
  <2>1. \A t : HeadHolds(t)' = HeadHolds(t) /\ HeadCommit' = HeadCommit
    BY <1>1, <1>4 DEF vars
  <2> QED BY <1>0, <1>4, <2>1
           DEF vars, CInv, CommitFollowsTree, NewBranchIsHead, RebuildsHead, TreeFollowsHead, Override
<1>5. ASSUME NEW k \in Keys, NEW v \in Values, Insert(k, v) \/ Update(k, v) PROVE Good
  BY <1>3, <1>5 DEF Insert, Update, Stage, Begin
<1>6. ASSUME NEW k \in Keys, Delete(k) PROVE Good
  BY <1>3, <1>6 DEF Delete, Stage, Begin
<1>7. CASE CommitStep
  <2>1. CASE Commit
    BY <1>2, <2>1 DEF Commit, Begin
  <2>2. ASSUME NEW k \in Keys, CommitApply(k) PROVE Good
    BY <1>2, <2>2 DEF CommitApply, Step
  <2>3. CASE CommitPersist
    BY <2>3 DEF CommitPersist, Step, CInv, CommitFollowsTree, NewBranchIsHead, RebuildsHead,
                TreeFollowsHead
  <2>4. CASE CommitAdd
    <3>1. /\ pc = "commit_add" /\ pc' = "commit_write" /\ index' = diskTree
          /\ UNCHANGED <<tree, diskTree>>
      BY <2>4 DEF CommitAdd, Step
    <3> QED BY <1>0, <3>1 DEF CInv, CommitFollowsTree, NewBranchIsHead, RebuildsHead, TreeFollowsHead
  <2>5. CASE CommitWrite
    <3>1. /\ pc = "commit_write" /\ pc' = "commit_ref" /\ UNCHANGED tree
          /\ commits' = Append(commits, [parents |-> ParentsOfNew, map |-> index])
      BY <2>5 DEF CommitWrite, Step, WriteCommit
    <3>2. Len(commits') = Len(commits) + 1 /\ commits'[Len(commits) + 1].map = index
      BY <1>0, <3>1 DEF TypeOK
    <3> QED BY <1>0, <3>1, <3>2
             DEF CInv, CommitFollowsTree, NewBranchIsHead, RebuildsHead, TreeFollowsHead
  <2>6. CASE CommitWriteFails
    BY <2>6 DEF CommitWriteFails
  <2>7. CASE CommitRef
    <3>1. /\ pc = "commit_ref" /\ pc' = "commit_head" /\ branch \in Branches
          /\ refs' = [refs EXCEPT ![branch] = Len(commits)] /\ UNCHANGED <<commits, tree, branch>>
      BY <2>7 DEF CommitRef, Step
    <3>2. refs'[branch] = Len(commits)
      BY <1>0, <3>1 DEF TypeOK
    <3> QED BY <1>0, <3>1, <3>2
             DEF CInv, CommitFollowsTree, NewBranchIsHead, RebuildsHead, TreeFollowsHead
  <2>8. CASE CommitRefFails
    <3>1. /\ pc = "commit_ref" /\ pc' = "idle" /\ branch \notin Branches
          /\ UNCHANGED <<commits, refs, head, tree, branch>>
      BY <2>8 DEF CommitRefFails, GiveUp
    <3>2. HeadCommit = 0
      BY <3>1 DEF CInv, RInv, BranchIsHead, HeadCommit, RefOf
    <3>3. HeadHolds(tree)'
      BY <1>1, <3>1, <3>2 DEF HeadHolds
    <3> QED BY <3>1, <3>3
             DEF CInv, CommitFollowsTree, NewBranchIsHead, RebuildsHead, TreeFollowsHead
  <2>9. CASE CommitHead
    <3>1. /\ pc = "commit_head" /\ pc' = "commit_clear" /\ head' = branch
          /\ UNCHANGED <<commits, refs, tree, branch>>
      BY <2>9 DEF CommitHead, Step
    <3>2. HeadHolds(tree)'
      BY <1>0, <3>1 DEF CommitFollowsTree, HeadHolds, HeadCommit, RefOf
    <3> QED BY <1>0, <3>1, <3>2
             DEF CInv, CommitFollowsTree, NewBranchIsHead, RebuildsHead, TreeFollowsHead
  <2>10. CASE CommitClear
    <3>1. pc = "commit_clear" /\ pc' = "idle" /\ UNCHANGED <<commits, refs, head, tree>>
      BY <2>10 DEF CommitClear, Step
    <3> QED BY <1>0, <1>1, <3>1
             DEF CInv, CommitFollowsTree, NewBranchIsHead, RebuildsHead, TreeFollowsHead
  <2> QED BY <1>7, <2>1, <2>2, <2>3, <2>4, <2>5, <2>6, <2>7, <2>8, <2>9, <2>10 DEF CommitStep
<1>8. CASE BranchStep
  <2>1. ASSUME NEW b \in Branches, Branch(b) \/ CreateBranch(b) PROVE Good
    <3>1. /\ pc = "idle" /\ pc' \in {"idle", "create_clear"} /\ op'.arg = b
          /\ refs' = [refs EXCEPT ![b] = HeadCommit] /\ UNCHANGED <<commits, head, tree>>
      BY <2>1 DEF Branch, CreateBranch, Begin
    <3>2. refs'[b] = HeadCommit
      BY <1>0, <3>1 DEF TypeOK
    <3>3. HeadCommit' = HeadCommit
      BY <1>0, <3>1, <3>2 DEF HeadCommit, RefOf, TypeOK
    <3>4. HeadHolds(tree)'
      BY <1>0, <3>1, <3>3 DEF HeadHolds, TreeFollowsHead, EmptyTree
    <3> QED BY <1>0, <3>1, <3>2, <3>3, <3>4
             DEF CInv, CommitFollowsTree, NewBranchIsHead, RebuildsHead, TreeFollowsHead
  <2>2. CASE CreateBranchClear
    <3>1. /\ pc = "create_clear" /\ pc' = "create_head" /\ op'.arg = op.arg
          /\ UNCHANGED <<commits, refs, head, tree>>
      BY <2>2 DEF CreateBranchClear, Step
    <3> QED BY <1>0, <1>1, <3>1
             DEF CInv, CommitFollowsTree, NewBranchIsHead, RebuildsHead, TreeFollowsHead
  <2>3. CASE CreateBranchHead
    <3>1. /\ pc = "create_head" /\ pc' = "idle" /\ head' = op.arg /\ op.arg \in Branches
          /\ UNCHANGED <<commits, refs, tree>>
      BY <1>0, <2>3 DEF CreateBranchHead, Step, CreatesBranch
    <3>2. HeadCommit' = HeadCommit
      BY <1>0, <3>1 DEF HeadCommit, RefOf, NewBranchIsHead
    <3>3. HeadHolds(tree)'
      BY <1>0, <3>1, <3>2 DEF HeadHolds, TreeFollowsHead, EmptyTree
    <3> QED BY <1>0, <3>1, <3>3
             DEF CInv, CommitFollowsTree, NewBranchIsHead, RebuildsHead, TreeFollowsHead
  <2> QED BY <1>8, <2>1, <2>2, <2>3 DEF BranchStep
<1>9. CASE CheckoutStep
  <2>1. ASSUME NEW n \in CheckoutNames, Checkout(n) PROVE Good
    BY <1>2, <1>3, <2>1 DEF Checkout, Begin, Fail
  <2>2. CASE CheckoutHead
    <3>1. pc' = "checkout_reload"
      BY <2>2 DEF CheckoutHead, Step
    <3> QED BY <3>1 DEF CInv, CommitFollowsTree, NewBranchIsHead, RebuildsHead, TreeFollowsHead
  <2>3. CASE CheckoutReload
    <3>1. /\ pc = "checkout_reload" /\ pc' = "checkout_rebuild" /\ HeadCommit # 0
          /\ tree' = EmptyTree /\ UNCHANGED <<commits, refs, head>>
          /\ todo' = [k \in Keys |-> IF commits[HeadCommit].map[k] = NoValue THEN Unstaged
                                     ELSE commits[HeadCommit].map[k]]
      BY <2>3 DEF CheckoutReload, Step, KeysAt
    <3>2. commits[HeadCommit].map \in Trees
      BY <1>0, <3>1, RefIsCommit, CommitHasMap DEF HeadCommit
    <3>3. Override(tree', todo') = commits[HeadCommit].map
      BY <3>1, <3>2, StoreAssumptions DEF StoreAssumptions, Override, EmptyTree, Trees
    <3>4. HeadCommit' = HeadCommit
      BY <1>1, <3>1
    <3>5. Override(tree, todo)' = Override(tree', todo')
      BY DEF Override
    <3> QED BY <3>1, <3>3, <3>4, <3>5
             DEF CInv, CommitFollowsTree, NewBranchIsHead, RebuildsHead, TreeFollowsHead
  <2>4. CASE CheckoutReloadFails
    <3>1. pc' = "idle" /\ HeadCommit = 0 /\ UNCHANGED <<commits, refs, head>>
      BY <2>4 DEF CheckoutReloadFails, GiveUp
    <3> QED BY <1>1, <3>1
             DEF CInv, CommitFollowsTree, NewBranchIsHead, RebuildsHead, TreeFollowsHead, HeadHolds
  <2>5. ASSUME NEW k \in Keys, CheckoutRebuild(k) PROVE Good
    <3>1. /\ pc = "checkout_rebuild" /\ pc' = "checkout_rebuild" /\ todo[k] # Unstaged
          /\ tree' = [tree EXCEPT ![k] = todo[k]] /\ todo' = [todo EXCEPT ![k] = Unstaged]
          /\ UNCHANGED <<commits, refs, head>>
      BY <2>5 DEF CheckoutRebuild, Step, ApplyToTree
    <3>2. Override(tree', todo') = Override(tree, todo)
      <4>1. tree \in Trees /\ todo \in Areas
        BY <1>0 DEF TypeOK
      <4> QED BY <3>1, <4>1, ApplyKeepsOverride
    <3>3. Override(tree, todo)' = Override(tree', todo')
      BY DEF Override
    <3> QED BY <1>0, <1>1, <3>1, <3>2, <3>3
             DEF CInv, CommitFollowsTree, NewBranchIsHead, RebuildsHead, TreeFollowsHead
  <2>6. CASE CheckoutDone
    <3>1. /\ pc = "checkout_rebuild" /\ pc' = "idle" /\ todo = EmptyArea
          /\ UNCHANGED <<commits, refs, head, tree>>
      BY <2>6 DEF CheckoutDone, Step
    <3>2. tree = commits[HeadCommit].map
      BY <1>0, <3>1, NothingOver DEF RebuildsHead, TypeOK
    <3> QED BY <1>0, <1>1, <3>1, <3>2
             DEF CInv, CommitFollowsTree, NewBranchIsHead, RebuildsHead, TreeFollowsHead, HeadHolds
  <2> QED BY <1>9, <2>1, <2>2, <2>3, <2>4, <2>5, <2>6 DEF CheckoutStep
<1>10. CASE MergeStep
  <2>1. ASSUME NEW s \in Branches, NEW r \in UsedResolvers, Merge(s, r) \/ MergeFails(s, r)
        PROVE  Good
    BY <1>2, <1>3, <2>1 DEF Merge, MergeFails, Begin, Fail
  <2>2. ASSUME NEW k \in Keys, MergeApply(k) PROVE Good
    BY <1>2, <2>2 DEF MergeApply, Step
  <2>3. CASE MergeClear
    BY <1>2, <2>3 DEF MergeClear, Step
  <2>4. CASE MergeAdd
    BY <2>4 DEF MergeAdd, Step, CInv, CommitFollowsTree, NewBranchIsHead, RebuildsHead, TreeFollowsHead
  <2>5. CASE MergeAddFails
    <3>1. pc' = "idle" /\ HeadCommit = 0 /\ UNCHANGED <<commits, refs, head>>
      BY <2>5 DEF MergeAddFails, GiveUp
    <3> QED BY <1>1, <3>1
             DEF CInv, CommitFollowsTree, NewBranchIsHead, RebuildsHead, TreeFollowsHead, HeadHolds
  <2>6. CASE MergeCommit
    <3>1. /\ pc = "merge_commit" /\ pc' = "idle" /\ head \in Branches /\ UNCHANGED <<tree, head>>
          /\ commits' = Append(commits, [parents |-> ParentsOfNew, map |-> index])
          /\ refs' = [refs EXCEPT ![head] = Len(commits) + 1]
      BY <2>6 DEF MergeCommit, Step, WriteCommit
    <3>2. Len(commits') = Len(commits) + 1 /\ commits'[Len(commits) + 1].map = index
      BY <1>0, <3>1 DEF TypeOK
    <3>3. refs'[head] = Len(commits) + 1
      BY <1>0, <3>1 DEF TypeOK
    <3>4. HeadHolds(tree)'
      BY <1>0, <3>1, <3>2, <3>3 DEF HeadHolds, HeadCommit, RefOf, CommitFollowsTree
    <3> QED BY <3>1, <3>4
             DEF CInv, CommitFollowsTree, NewBranchIsHead, RebuildsHead, TreeFollowsHead
  <2>7. CASE MergeCommitFails
    BY <2>7 DEF MergeCommitFails
  <2> QED BY <1>10, <2>1, <2>2, <2>3, <2>4, <2>5, <2>6, <2>7 DEF MergeStep
<1>11. CASE Close
  <2>1. pc = "idle" /\ pc' = "closed" /\ UNCHANGED <<commits, refs, head, diskTree>>
    BY <1>11 DEF Close, Stop
  <2>2. HeadHolds(diskTree)'
    BY <1>0, <1>1, <2>1 DEF TreeFollowsHead, HeadHolds, TreeOnDisk
  <2> QED BY <2>1, <2>2
           DEF CInv, CommitFollowsTree, NewBranchIsHead, RebuildsHead, TreeFollowsHead
<1>12. CASE Crash
  BY <1>12 DEF Crash
<1>13. CASE Open
  <2>1. pc = "closed" /\ pc' = "idle" /\ tree' = diskTree /\ UNCHANGED <<commits, refs, head>>
    BY <1>13 DEF Open
  <2>2. HeadHolds(tree)'
    BY <1>0, <1>1, <2>1 DEF TreeFollowsHead, HeadHolds
  <2> QED BY <2>1, <2>2
           DEF CInv, CommitFollowsTree, NewBranchIsHead, RebuildsHead, TreeFollowsHead
<1> QED
  BY <1>4, <1>5, <1>6, <1>7, <1>8, <1>9, <1>10, <1>11, <1>12, <1>13 DEF Next

(***************************************************************************)
(* As long as no git command fails and no process dies in a call, the tree *)
(* between two calls is the content of HEAD's commit, whatever names are   *)
(* checked out, whoever opens the store again and however many writes the  *)
(* calls are cut into: what get shows is the commit and what is staged.    *)
(***************************************************************************)
THEOREM TreeStaysCommitted ==
    ASSUME Faults = {}
    PROVE  Spec => []TreeIsCommitted
<1>1. CInv /\ [Next]_vars => CInv'
  <2> SUFFICES ASSUME CInv, [Next]_vars PROVE CInv'
    OBVIOUS
  <2>1. TInv'
    BY StepTypes DEF CInv, DInv
  <2>2. DInv'
    BY <2>1, StepTreeOnDisk, StepFile DEF CInv, DInv
  <2>3. RInv'
    BY <2>1, StepRefs DEF CInv
  <2> QED BY <2>2, <2>3, StepFollows
<1>2. CInv => TreeIsCommitted
  BY DEF CInv, TreeFollowsHead, HeadHolds, TreeIsCommitted
<1> QED BY <1>1, <1>2, InitFollows, PTL DEF Spec

-----------------------------------------------------------------------------
(* Histories without merges                                                *)

(***************************************************************************)
(* git commit gives a merge one parent only.                               *)
(***************************************************************************)
Linear ==
    \A c \in 1..Len(commits) : commits[c].parents = {} \/ \E p : commits[c].parents = {p}

(***************************************************************************)
(* A commit's ancestors are itself and those of its parents.               *)
(***************************************************************************)
LEMMA AncestorsUnfold ==
    ASSUME TypeOK, NEW c \in 1..Len(commits)
    PROVE  Ancestors(c) = {c} \cup UNION {Ancestors(p) : p \in commits[c].parents}
<1> DEFINE n == Len(commits)
           IsAnc(f, m) ==
             f = [d \in 1..m |-> {d} \cup UNION {f[p] : p \in commits[d].parents}]
           S == {m \in Nat : m <= n => \E f : IsAnc(f, m)}
<1>1. n \in Nat /\ \A d \in 1..n : commits[d].parents \subseteq 1..(d - 1)
  BY RefIsCommit DEF TypeOK
<1> HIDE DEF n
<1>2. ASSUME NEW m \in Nat, 0..(m - 1) \subseteq S PROVE m \in S
  <2> SUFFICES ASSUME m <= n PROVE \E f : IsAnc(f, m)
    OBVIOUS
  <2>1. CASE m = 0
    <3>1. IsAnc([d \in 1..0 |-> {}], 0)
      OBVIOUS
    <3> QED BY <2>1, <3>1
  <2>2. CASE m # 0
    <3>1. m - 1 \in 0..(m - 1) /\ m - 1 <= n
      BY <1>1, <2>2
    <3>2. PICK g : IsAnc(g, m - 1)
      <4> HIDE DEF IsAnc
      <4> QED BY <1>2, <3>1
    <3> DEFINE last == {m} \cup UNION {g[p] : p \in commits[m].parents}
               f == [d \in 1..m |-> IF d = m THEN last ELSE g[d]]
    <3>3. ASSUME NEW d \in 1..m
          PROVE  f[d] = {d} \cup UNION {f[p] : p \in commits[d].parents}
      <4>1. \A p \in commits[d].parents : p \in 1..m /\ p # m
        BY <1>1, <3>3
      <4>2. \A p \in commits[d].parents : f[p] = g[p]
        BY <4>1
      <4> HIDE DEF last
      <4>3. {f[p] : p \in commits[d].parents} = {g[p] : p \in commits[d].parents}
        <5> HIDE DEF f
        <5> QED BY <4>2
      <4>4. CASE d = m
        <5>1. f[d] = last
          BY <4>4
        <5> QED BY <4>3, <4>4, <5>1 DEF last
      <4>5. CASE d # m
        <5>1. d \in 1..(m - 1) /\ f[d] = g[d]
          BY <4>5
        <5>2. g[d] = {d} \cup UNION {g[p] : p \in commits[d].parents}
          BY <3>2, <5>1
        <5> HIDE DEF f
        <5> QED BY <4>3, <5>1, <5>2
      <4> QED BY <4>4, <4>5
    <3>4. IsAnc(f, m)
      <4>1. f = [d \in 1..m |-> f[d]]
        OBVIOUS
      <4> HIDE DEF f
      <4> QED BY <3>3, <4>1
    <3> QED BY <3>4
  <2> QED BY <2>1, <2>2
<1> DEFINE anc == CHOOSE f : IsAnc(f, n)
<1>3. IsAnc(anc, n)
  <2> HIDE DEF S, IsAnc
  <2>1. n \in S
    BY <1>1, <1>2, CourseOfValues
  <2> QED BY <1>1, <2>1 DEF S
<1>4. \A d : Ancestors(d) = anc[d]
  BY DEF Ancestors, n
<1> HIDE DEF anc
<1>5. anc[c] = {c} \cup UNION {anc[p] : p \in commits[c].parents}
  BY <1>3 DEF n
<1> QED BY <1>4, <1>5

(***************************************************************************)
(* Ancestors are older, and of two ancestors of a commit one is an         *)
(* ancestor of the other.                                                  *)
(***************************************************************************)
LEMMA AncestorsChain ==
    ASSUME TypeOK, Linear
    PROVE  \A c \in 1..Len(commits) :
             /\ Ancestors(c) \subseteq 1..c
             /\ \A x, m \in Ancestors(c) : x <= m => x \in Ancestors(m)
<1> DEFINE P(c) == /\ Ancestors(c) \subseteq 1..c
                   /\ \A x, m \in Ancestors(c) : x <= m => x \in Ancestors(m)
           S == {c \in Nat : c \in 1..Len(commits) => P(c)}
<1>1. ASSUME NEW c \in Nat, 0..(c - 1) \subseteq S PROVE c \in S
  <2> SUFFICES ASSUME c \in 1..Len(commits) PROVE P(c)
    OBVIOUS
  <2>1. Ancestors(c) = {c} \cup UNION {Ancestors(p) : p \in commits[c].parents}
    BY AncestorsUnfold
  <2>2. CASE commits[c].parents = {}
    BY <2>1, <2>2
  <2>3. CASE \E p : commits[c].parents = {p}
    <3>1. PICK p : commits[c].parents = {p}
      BY <2>3
    <3>2. p \in 1..(c - 1)
      BY <3>1 DEF TypeOK
    <3>3. P(p)
      <4>1. p \in 0..(c - 1) /\ p \in 1..Len(commits)
        BY <3>2, RefIsCommit
      <4> HIDE DEF P
      <4> QED BY <1>1, <4>1
    <3>4. Ancestors(c) = {c} \cup Ancestors(p)
      BY <2>1, <3>1
    <3>5. Ancestors(p) \subseteq 1..(c - 1)
      BY <3>2, <3>3
    <3>6. ASSUME NEW x \in Ancestors(c), NEW m \in Ancestors(c), x <= m PROVE x \in Ancestors(m)
      <4>1. CASE m = c
        BY <3>6, <4>1
      <4>2. CASE m # c
        BY <3>3, <3>4, <3>5, <3>6, <4>2
      <4> QED BY <4>1, <4>2
    <3> QED BY <3>2, <3>4, <3>5, <3>6
  <2> QED BY <2>2, <2>3 DEF Linear
<1> HIDE DEF P
<1>2. ASSUME NEW c \in 1..Len(commits) PROVE P(c)
  <2> HIDE DEF S
  <2>1. c \in S
    BY <1>1, CourseOfValues
  <2> QED BY <2>1 DEF S
<1> QED BY <1>2 DEF P

(***************************************************************************)
(* The walk of find_merge_base, which takes the latest of the common       *)
(* ancestors, ends where the two branches have parted.                     *)
(***************************************************************************)
LEMMA BaseIsForkPoint ==
    ASSUME TypeOK, Linear, NEW c \in 1..Len(commits), NEW d \in 1..Len(commits),
           CommonAncestors(c, d) # {}
    PROVE  /\ MergeBase(c, d) \in 1..Len(commits)
           /\ ForkPoint(c, d) = MergeBase(c, d)
<1> DEFINE n == Len(commits)
           CA == CommonAncestors(c, d)
<1>1. n \in Nat /\ CA \subseteq 1..n
  BY AncestorsChain, RefIsCommit DEF CommonAncestors
<1> HIDE DEF n
<1>2. PICK a \in CA : \A x \in CA : x <= a
  <2> DEFINE S == {n - x : x \in CA}
  <2>1. S \in SUBSET Nat /\ S # {}
    BY <1>1
  <2>2. PICK i \in S : \A j \in S : i <= j
    <3> HIDE DEF S
    <3> QED BY <2>1, LeastNat
  <2> HIDE DEF CA
  <2>3. PICK a \in CA : i = n - a
    OBVIOUS
  <2>4. \A x \in CA : n - a <= n - x
    BY <2>2, <2>3
  <2> QED BY <1>1, <2>4
<1>3. \A x \in CA : (\A y \in CA : y <= x) <=> x = a
  BY <1>1, <1>2
<1>4. \A x \in CA : CA \subseteq Ancestors(x) <=> x = a
  <2>1. CA \subseteq Ancestors(a)
    BY <1>2, AncestorsChain DEF CommonAncestors
  <2>2. ASSUME NEW x \in CA, CA \subseteq Ancestors(x) PROVE x = a
    <3>1. Ancestors(x) \subseteq 1..x
      BY <1>1, AncestorsChain DEF n
    <3>2. a \in 1..x
      BY <1>2, <2>2, <3>1
    <3> QED BY <1>1, <1>2, <3>2
  <2> QED BY <2>1, <2>2
<1> HIDE DEF CA
<1>5. (CHOOSE x \in CA : \A y \in CA : y <= x) = a
  BY <1>2, <1>3
<1>6. (CHOOSE x \in CA : CA \subseteq Ancestors(x)) = a
  BY <1>2, <1>4
<1> QED BY <1>1, <1>5, <1>6 DEF MergeBase, ForkPoint, CA, n

-----------------------------------------------------------------------------
(* Without faults a merge is three-way                                     *)

(***************************************************************************)
(* With short names in checkout, HEAD and the current branch are branches. *)
(***************************************************************************)
OnBranches == head \in Branches /\ branch \in Branches

(***************************************************************************)
(* Nothing is staged any more once it was drained or dropped.              *)
(***************************************************************************)
StagingGone ==
    pc \in {"commit_add", "commit_write", "commit_ref", "commit_head", "commit_clear",
           "create_head", "checkout_head", "checkout_reload", "checkout_rebuild",
           "merge_add", "merge_commit"} => staging = EmptyArea

(***************************************************************************)
(* The result t of a merge gives every key that nobody has staged and that *)
(* one side has left alone the value of the other side.                    *)
(***************************************************************************)
IsThreeWay(base, source, dest, t) ==
    dest # EmptyTree =>
      \A k \in Keys : staging[k] = Unstaged =>
        /\ source[k] = base[k] => t[k] = dest[k]
        /\ dest[k] = base[k] => t[k] = source[k]

(***************************************************************************)
(* While a merge changes the tree key by key, the tree and what is still   *)
(* to do are together the result.                                          *)
(***************************************************************************)
MergeRuns ==
    pc = "merge_apply" =>
      IsThreeWay(commits[ForkPoint(RefOf(branch), RefOf(op.arg[1]))].map,
                 commits[RefOf(op.arg[1])].map, commits[RefOf(branch)].map,
                 Override(tree, todo))

SInv == CInv /\ OnBranches /\ Linear /\ StagingGone /\ MergeRuns

LEMMA InitSimple == Init => SInv
<1> SUFFICES ASSUME Init PROVE SInv
  OBVIOUS
<1>1. Linear
  BY DEF Init, Linear
<1> QED BY <1>1, InitFollows, BranchIsName DEF Init, SInv, OnBranches, StagingGone, MergeRuns

LEMMA StepOnBranches ==
    ASSUME SInv, [Next]_vars, CheckoutNames \subseteq Branches
    PROVE  OnBranches'
<1>1. OnBranches /\ CreatesBranch /\ Main \in Branches
  BY BranchIsName DEF SInv, CInv, DInv, TInv
<1> USE DEF OnBranches, disk, memory
<1>2. CASE UNCHANGED <<head, branch>>
  BY <1>1, <1>2
<1>3. CASE \E n \in CheckoutNames : Checkout(n)
  BY <1>1, <1>3 DEF Checkout
<1>4. CASE CommitHead \/ CheckoutHead \/ CreateBranchHead
  BY <1>1, <1>4 DEF CommitHead, CheckoutHead, CreateBranchHead, Step, CreatesBranch
<1>5. CASE Close \/ Crash \/ Open
  BY <1>1, <1>5 DEF Close, Crash, Stop, Open
<1>6. CASE CommitStep /\ ~CommitHead
  BY <1>2, <1>6
     DEF CommitStep, Commit, CommitApply, CommitPersist, CommitAdd, CommitWrite,
         CommitWriteFails, CommitRef, CommitRefFails, CommitClear
<1>7. CASE BranchStep /\ ~CreateBranchHead
  BY <1>2, <1>7 DEF BranchStep, Branch, CreateBranch, CreateBranchClear
<1>8. CASE CheckoutStep /\ ~CheckoutHead
  BY <1>2, <1>3, <1>8
     DEF CheckoutStep, CheckoutReload, CheckoutReloadFails, CheckoutRebuild, CheckoutDone
<1>9. CASE MergeStep
  BY <1>2, <1>9
     DEF MergeStep, Merge, MergeFails, MergeApply, MergeClear, MergeAdd, MergeAddFails,
         MergeCommit, MergeCommitFails
<1>10. CASE \E k \in Keys : Delete(k) \/ \E v \in Values : Insert(k, v) \/ Update(k, v)
  BY <1>2, <1>10 DEF Insert, Update, Delete, Stage
<1> QED BY <1>2, <1>3, <1>4, <1>5, <1>6, <1>7, <1>8, <1>9, <1>10 DEF Next, vars

(***************************************************************************)
(* Only commit and merge write commits.                                    *)
(***************************************************************************)
LEMMA StepCommits ==
    ASSUME [Next]_vars
    PROVE  \/ UNCHANGED commits
           \/ CommitWrite
           \/ MergeCommit
<1> USE DEF disk, memory
<1>1. CASE UNCHANGED vars
  BY <1>1 DEF vars
<1>2. CASE CommitStep
  BY <1>2
     DEF CommitStep, Commit, CommitApply, CommitPersist, CommitAdd, CommitWriteFails,
         CommitRef, CommitRefFails, CommitHead, CommitClear
<1>3. CASE BranchStep
  BY <1>3 DEF BranchStep, Branch, CreateBranch, CreateBranchClear, CreateBranchHead
<1>4. CASE CheckoutStep
  BY <1>4
     DEF CheckoutStep, Checkout, CheckoutHead, CheckoutReload, CheckoutReloadFails,
         CheckoutRebuild, CheckoutDone
<1>5. CASE MergeStep
  BY <1>5
     DEF MergeStep, Merge, MergeFails, MergeApply, MergeClear, MergeAdd, MergeAddFails,
         MergeCommitFails
<1>6. CASE Close \/ Crash \/ Open
  BY <1>6 DEF Close, Crash, Stop, Open
<1>7. CASE \E k \in Keys : Delete(k) \/ \E v \in Values : Insert(k, v) \/ Update(k, v)
  BY <1>7 DEF Insert, Update, Delete, Stage
<1> QED BY <1>1, <1>2, <1>3, <1>4, <1>5, <1>6, <1>7 DEF Next

LEMMA StepLinear ==
    ASSUME TypeOK, Linear, [Next]_vars
    PROVE  Linear'
<1>1. CASE UNCHANGED commits
  BY <1>1 DEF Linear
<1>2. CASE WriteCommit
  <2>1. /\ Len(commits') = Len(commits) + 1 /\ Len(commits) \in Nat
        /\ commits'[Len(commits')].parents = ParentsOfNew
        /\ \A c \in 1..Len(commits) : commits'[c] = commits[c]
    BY <1>2, WriteTypes, RefIsCommit
  <2>2. ASSUME NEW c \in 1..Len(commits')
        PROVE  commits'[c].parents = {} \/ \E p : commits'[c].parents = {p}
    <3>1. CASE c = Len(commits')
      BY <2>1, <3>1 DEF ParentsOfNew
    <3>2. CASE c # Len(commits')
      <4>1. c \in 1..Len(commits)
        BY <2>1, <3>2
      <4> QED BY <2>1, <4>1 DEF Linear
    <3> QED BY <3>1, <3>2
  <2> QED BY <2>2 DEF Linear
<1> QED BY <1>1, <1>2, StepCommits DEF CommitWrite, MergeCommit

LEMMA StepStagingGone ==
    ASSUME SInv, [Next]_vars
    PROVE  StagingGone'
<1>1. StagingGone
  BY DEF SInv
<1> USE DEF StagingGone, disk, memory
\* most steps go on from such a point or go to a point where anything may be staged
<1>2. ASSUME UNCHANGED staging,
             pc' \notin {"commit_add", "create_head", "checkout_head", "merge_add"},
             pc' \in {"commit_write", "commit_ref", "commit_head", "commit_clear",
                     "checkout_reload", "checkout_rebuild", "merge_commit"}
               => pc \in {"commit_add", "commit_write", "commit_ref", "commit_head",
                         "checkout_head", "checkout_reload", "checkout_rebuild", "merge_add"}
      PROVE  StagingGone'
  BY <1>1, <1>2
<1>3. ASSUME staging' = EmptyArea PROVE StagingGone'
  BY <1>3 DEF EmptyArea
<1>4. CASE UNCHANGED vars
  BY <1>1, <1>4 DEF vars, EmptyArea
<1>5. CASE CommitStep
  <2>1. ASSUME NEW k \in Keys, CommitApply(k) PROVE StagingGone'
    BY <2>1 DEF CommitApply, Step
  <2>2. CASE CommitPersist
    BY <1>3, <2>2 DEF CommitPersist, Step
  <2>3. CASE Commit \/ CommitWriteFails \/ CommitRefFails
    BY <2>3 DEF Commit, Begin, CommitWriteFails, CommitRefFails, GiveUp
  <2>4. CASE CommitAdd \/ CommitWrite \/ CommitRef \/ CommitHead \/ CommitClear
    BY <1>2, <2>4 DEF CommitAdd, CommitWrite, CommitRef, CommitHead, CommitClear, Step
  <2> QED BY <1>5, <2>1, <2>2, <2>3, <2>4 DEF CommitStep
<1>6. CASE BranchStep
  <2>1. ASSUME NEW b \in Branches, Branch(b) \/ CreateBranch(b) PROVE StagingGone'
    BY <2>1 DEF Branch, CreateBranch, Begin
  <2>2. CASE CreateBranchClear
    BY <1>3, <2>2 DEF CreateBranchClear
  <2>3. CASE CreateBranchHead
    BY <2>3 DEF CreateBranchHead, Step
  <2> QED BY <1>6, <2>1, <2>2, <2>3 DEF BranchStep
<1>7. CASE CheckoutStep
  <2>1. ASSUME NEW n \in CheckoutNames, Checkout(n) PROVE StagingGone'
    BY <1>3, <2>1 DEF Checkout, ClearStaging
  <2>2. ASSUME NEW k \in Keys, CheckoutRebuild(k) PROVE StagingGone'
    BY <1>2, <2>2 DEF CheckoutRebuild, Step
  <2>3. CASE CheckoutHead \/ CheckoutReload \/ CheckoutReloadFails \/ CheckoutDone
    BY <1>2, <2>3
       DEF CheckoutHead, CheckoutReload, CheckoutReloadFails, CheckoutDone, Step, GiveUp
  <2> QED BY <1>7, <2>1, <2>2, <2>3 DEF CheckoutStep
<1>8. CASE MergeStep
  <2>1. ASSUME NEW s \in Branches, NEW r \in UsedResolvers, Merge(s, r) \/ MergeFails(s, r)
        PROVE  StagingGone'
    BY <2>1 DEF Merge, MergeFails, Begin, Fail
  <2>2. ASSUME NEW k \in Keys, MergeApply(k) PROVE StagingGone'
    BY <2>2 DEF MergeApply, Step
  <2>3. CASE MergeClear
    BY <1>3, <2>3 DEF MergeClear, ClearStaging
  <2>4. CASE MergeAdd \/ MergeAddFails \/ MergeCommit \/ MergeCommitFails
    BY <1>2, <2>4 DEF MergeAdd, MergeAddFails, MergeCommit, MergeCommitFails, Step, GiveUp
  <2> QED BY <1>8, <2>1, <2>2, <2>3, <2>4 DEF MergeStep
<1>9. CASE Close \/ Crash \/ Open
  BY <1>9 DEF Close, Crash, Stop, Open
<1>10. CASE \E k \in Keys : Delete(k) \/ \E v \in Values : Insert(k, v) \/ Update(k, v)
  BY <1>10 DEF Insert, Update, Delete, Begin
<1> QED BY <1>4, <1>5, <1>6, <1>7, <1>8, <1>9, <1>10 DEF Next

(***************************************************************************)
(* The base of a merge depends on the commits alone.                       *)
(***************************************************************************)
LEMMA SameForkPoint ==
    ASSUME UNCHANGED commits
    PROVE  \A c, d : ForkPoint(c, d)' = ForkPoint(c, d)
BY DEF ForkPoint, CommonAncestors, Ancestors

(***************************************************************************)
(* The result that merge starts with is three-way: the tree is what the    *)
(* current branch holds.                                                   *)
(***************************************************************************)
LEMMA MergeStarts ==
    ASSUME SInv, NEW s \in Branches, NEW r \in UsedResolvers, Merge(s, r)
    PROVE  IsThreeWay(commits[ForkPoint(RefOf(branch), RefOf(s))].map, commits[RefOf(s)].map,
                      commits[RefOf(branch)].map, Override(tree, todo'))
<1> DEFINE base == commits[MergeBase(RefOf(branch), refs[s])].map
           source == commits[refs[s]].map
           dest == commits[RefOf(branch)].map
<1>1. /\ TypeOK /\ OnBranches /\ Linear /\ TreeFollowsHead /\ BranchIsHead
      /\ Len(commits) \in Nat
  BY RefIsCommit DEF SInv, CInv, DInv, TInv, RInv
<1>2. /\ pc = "idle" /\ todo' \in Areas /\ HaveBase(s)
      /\ \A k \in Keys : todo'[k] \in Results(s, r)[k]
  BY DEF Merge, Begin
<1>3. RefOf(branch) \in 1..Len(commits) /\ refs[s] \in 1..Len(commits) /\ RefOf(s) = refs[s]
  BY <1>1, <1>2, RefIsCommit DEF HaveBase, RefOf
<1>4. /\ MergeBase(RefOf(branch), refs[s]) \in 1..Len(commits)
      /\ ForkPoint(RefOf(branch), refs[s]) = MergeBase(RefOf(branch), refs[s])
  BY <1>1, <1>2, <1>3, BaseIsForkPoint DEF HaveBase
<1>5. base \in Trees /\ source \in Trees /\ dest \in Trees /\ tree \in Trees
  BY <1>1, <1>3, <1>4, CommitHasMap DEF TypeOK
<1>6. dest \in {tree, EmptyTree}
  <2>1. HeadHolds(tree)
    BY <1>1, <1>2 DEF TreeFollowsHead
  <2>2. HeadCommit = RefOf(branch) /\ HeadCommit # 0
    BY <1>1, <1>2, <1>3 DEF OnBranches, BranchIsHead, HeadCommit
  <2> QED BY <2>1, <2>2 DEF HeadHolds
<1>7. \A k \in Keys : todo'[k] \in MergeResults(base, source, Destination, r)[k]
  BY <1>2 DEF Results, KeysAt
<1> HIDE DEF base, source, dest
<1>8. ASSUME dest # EmptyTree, NEW k \in Keys, staging[k] = Unstaged
      PROVE  /\ source[k] = base[k] => Override(tree, todo')[k] = dest[k]
             /\ dest[k] = base[k] => Override(tree, todo')[k] = source[k]
  <2>1. dest = tree
    BY <1>6, <1>8
  <2>2. Destination[k] = dest[k]
    BY <1>8, <2>1 DEF Destination, Shown, Override
  <2>3. todo'[k] \in IF IsConflict(base[k], source[k], dest[k])
                       THEN Resolve(r, source[k], dest[k])
                     ELSE IF TakesSource(base[k], source[k], dest[k]) THEN {source[k]}
                     ELSE {Unstaged}
    BY <1>7, <2>2 DEF MergeResults
  <2>4. source[k] # Unstaged
    BY <1>5, StoreAssumptions DEF Trees
  <2>5. Override(tree, todo')[k] = IF todo'[k] = Unstaged THEN dest[k] ELSE todo'[k]
    BY <2>1 DEF Override
  <2> QED BY <2>3, <2>4, <2>5 DEF IsConflict, TakesSource
<1> QED BY <1>3, <1>4, <1>8 DEF IsThreeWay, base, source, dest

LEMMA StepMergeRuns ==
    ASSUME SInv, [Next]_vars
    PROVE  MergeRuns'
<1> USE DEF disk, memory
<1>0. TypeOK /\ MergeRuns
  BY DEF SInv, CInv, DInv, TInv
<1>1. ASSUME pc' # "merge_apply" PROVE MergeRuns'
  BY <1>1 DEF MergeRuns
<1>2. ASSUME UNCHANGED <<commits, refs, branch, staging>>, pc' = "merge_apply", op'.arg = op.arg,
             IsThreeWay(commits[ForkPoint(RefOf(branch), RefOf(op.arg[1]))].map,
                        commits[RefOf(op.arg[1])].map, commits[RefOf(branch)].map,
                        Override(tree', todo'))
      PROVE  MergeRuns'
  <2>1. \A c, d : ForkPoint(c, d)' = ForkPoint(c, d)
    BY <1>2, SameForkPoint
  <2>2. RefOf(branch)' = RefOf(branch) /\ RefOf(op.arg[1])' = RefOf(op.arg[1])
    BY <1>2 DEF RefOf
  <2>3. Override(tree, todo)' = Override(tree', todo')
    BY DEF Override
  <2>4. IsThreeWay(commits[ForkPoint(RefOf(branch), RefOf(op.arg[1]))].map,
                   commits[RefOf(op.arg[1])].map, commits[RefOf(branch)].map,
                   Override(tree, todo))'
    BY <1>2, <2>1, <2>2, <2>3 DEF IsThreeWay, EmptyTree
  <2> QED BY <2>4 DEF MergeRuns
<1>3. CASE \E s \in Branches, r \in UsedResolvers : Merge(s, r)
  <2>1. PICK s \in Branches, r \in UsedResolvers : Merge(s, r)
    BY <1>3
  <2>2. /\ UNCHANGED <<commits, refs, branch, staging, tree>> /\ pc' = "merge_apply"
        /\ op'.arg = <<s, r>>
    BY <2>1 DEF Merge, Begin
  <2>3. \A c, d : ForkPoint(c, d)' = ForkPoint(c, d)
    BY <2>2, SameForkPoint
  <2>4. \A n : RefOf(n)' = RefOf(n)
    BY <2>2 DEF RefOf
  <2>5. RefOf(branch)' = RefOf(branch) /\ RefOf(op.arg[1])' = RefOf(s)
    BY <2>2, <2>4 DEF RefOf
  <2>6. Override(tree, todo)' = Override(tree, todo')
    BY <2>2 DEF Override
  <2>7. IsThreeWay(commits[ForkPoint(RefOf(branch), RefOf(s))].map, commits[RefOf(s)].map,
                   commits[RefOf(branch)].map, Override(tree, todo'))
    BY <2>1, MergeStarts
  <2>8. IsThreeWay(commits[ForkPoint(RefOf(branch), RefOf(op.arg[1]))].map,
                   commits[RefOf(op.arg[1])].map, commits[RefOf(branch)].map,
                   Override(tree, todo))'
    BY <2>2, <2>3, <2>5, <2>6, <2>7 DEF IsThreeWay, EmptyTree
  <2> QED BY <2>8 DEF MergeRuns
<1>4. ASSUME NEW k \in Keys, MergeApply(k) PROVE MergeRuns'
  <2>1. /\ pc = "merge_apply" /\ pc' = "merge_apply" /\ op'.arg = op.arg /\ todo[k] # Unstaged
        /\ tree' = [tree EXCEPT ![k] = todo[k]] /\ todo' = [todo EXCEPT ![k] = Unstaged]
        /\ UNCHANGED <<commits, refs, branch, staging>>
    BY <1>4 DEF MergeApply, Step, ApplyToTree
  <2>2. Override(tree', todo') = Override(tree, todo)
    <3>1. tree \in Trees /\ todo \in Areas
      BY <1>0 DEF TypeOK
    <3> QED BY <2>1, <3>1, ApplyKeepsOverride
  <2> QED BY <1>0, <1>2, <2>1, <2>2 DEF MergeRuns
<1>5. CASE UNCHANGED vars
  <2>1. pc' = "merge_apply" => Override(tree', todo') = Override(tree, todo)
    BY <1>5 DEF vars
  <2> QED BY <1>0, <1>1, <1>2, <1>5, <2>1 DEF MergeRuns, vars
<1>6. CASE CommitStep
  <2>1. pc' # "merge_apply"
    BY <1>6
       DEF CommitStep, Commit, Begin, CommitApply, CommitPersist, CommitAdd, CommitWrite, Step,
           CommitWriteFails, GiveUp, CommitRef, CommitRefFails, CommitHead, CommitClear
  <2> QED BY <1>1, <2>1
<1>7. CASE BranchStep
  <2>1. pc' # "merge_apply"
    BY <1>7
       DEF BranchStep, Branch, CreateBranch, CreateBranchClear, CreateBranchHead, Begin, Step
  <2> QED BY <1>1, <2>1
<1>8. CASE CheckoutStep
  <2>1. pc' # "merge_apply"
    BY <1>8
       DEF CheckoutStep, Checkout, CheckoutHead, CheckoutReload, CheckoutReloadFails,
           CheckoutRebuild, CheckoutDone, Begin, Fail, Step, GiveUp
  <2> QED BY <1>1, <2>1
<1>9. CASE MergeStep
  <2>1. CASE \E s \in Branches, r \in UsedResolvers : MergeFails(s, r)
    BY <1>1, <2>1 DEF MergeFails, Fail
  <2>2. CASE MergeClear \/ MergeAdd \/ MergeAddFails \/ MergeCommit \/ MergeCommitFails
    BY <1>1, <2>2
       DEF MergeClear, MergeAdd, MergeAddFails, MergeCommit, MergeCommitFails, Step, GiveUp
  <2> QED BY <1>3, <1>4, <1>9, <2>1, <2>2 DEF MergeStep
<1>10. CASE Close \/ Crash \/ Open
  BY <1>1, <1>10 DEF Close, Crash, Stop, Open
<1>11. CASE \E k \in Keys : Delete(k) \/ \E v \in Values : Insert(k, v) \/ Update(k, v)
  BY <1>1, <1>11 DEF Insert, Update, Delete, Begin
<1> QED BY <1>5, <1>6, <1>7, <1>8, <1>9, <1>10, <1>11 DEF Next

(***************************************************************************)
(* Every step of a store without faults keeps the invariant.               *)
(***************************************************************************)
LEMMA StepSimple ==
    ASSUME SInv, [Next]_vars, Faults = {}, CheckoutNames \subseteq Branches
    PROVE  SInv'
<1>1. TInv'
  BY StepTypes DEF SInv, CInv, DInv
<1>2. DInv'
  BY <1>1, StepTreeOnDisk, StepFile DEF SInv, CInv, DInv
<1>3. RInv'
  BY <1>1, StepRefs DEF SInv, CInv
<1>4. CInv'
  BY <1>2, <1>3, StepFollows DEF SInv
<1>5. Linear'
  BY StepLinear DEF SInv, CInv, DInv, TInv
<1> QED BY <1>4, <1>5, StepOnBranches, StepStagingGone, StepMergeRuns DEF SInv

(***************************************************************************)
(* As long as no git command fails, no process dies in a call and checkout *)
(* is called with short names, every merge that gets through is three-way, *)
(* with any resolver: a key that is not staged and that one of the two     *)
(* branches has left as it was where they parted gets the value of the     *)
(* other.  (With a qualified name a checkout and a reopening leave the     *)
(* tree of one branch on another.)                                         *)
(***************************************************************************)
THEOREM MergesAreThreeWay ==
    ASSUME Faults = {}, CheckoutNames \subseteq Branches
    PROVE  Spec => MergeIsThreeWay
<1> DEFINE Kept ==
      pc = "merge_apply" /\ pc' = "merge_add" =>
        LET s == RefOf(op.arg[1])
            base == commits[ForkPoint(RefOf(branch), s)].map
            source == commits[s].map
            dest == commits[RefOf(branch)].map
        IN  dest # EmptyTree =>
              \A k \in Keys : staging[k] = Unstaged =>
                /\ source[k] = base[k] => tree'[k] = dest[k]
                /\ dest[k] = base[k] => tree'[k] = source[k]
<1>1. SInv /\ [Next]_vars => [Kept]_vars
  <2> SUFFICES ASSUME SInv, [Next]_vars, pc = "merge_apply", pc' = "merge_add" PROVE Kept
    BY DEF Kept
  <2>1. MergeClear
    BY DEF Next, vars, Insert, Update, Delete, Begin, Fail, Step, GiveUp, CommitStep, Commit, CommitApply,
           CommitPersist, CommitAdd, CommitWrite, CommitWriteFails, CommitRef, CommitRefFails,
           CommitHead, CommitClear, BranchStep, Branch, CreateBranch, CreateBranchClear,
           CreateBranchHead, CheckoutStep, Checkout, CheckoutHead, CheckoutReload,
           CheckoutReloadFails, CheckoutRebuild, CheckoutDone, MergeStep, Merge, MergeFails,
           MergeApply, MergeAdd, MergeAddFails, MergeCommit, MergeCommitFails,
           Close, Crash, Stop, Open
  <2>2. todo = EmptyArea /\ tree' = tree
    BY <2>1 DEF MergeClear
  <2>3. Override(tree, todo) = tree'
    BY <2>2, NothingOver DEF SInv, CInv, DInv, TInv, TypeOK
  <2>4. IsThreeWay(commits[ForkPoint(RefOf(branch), RefOf(op.arg[1]))].map,
                   commits[RefOf(op.arg[1])].map, commits[RefOf(branch)].map, tree')
    BY <2>3 DEF SInv, MergeRuns
  <2> QED BY <2>4 DEF IsThreeWay
<1>2. SInv /\ [Next]_vars => SInv'
  BY StepSimple
<1>3. Spec => [][Kept]_vars
  BY InitSimple, <1>1, <1>2, PTL DEF Spec
<1> QED BY <1>3 DEF MergeIsThreeWay, Kept

-----------------------------------------------------------------------------
(* Without faults the store is a map with branches                         *)

(***************************************************************************)
(* Log for a sequence of commits that need not be the current one, so that *)
(* the logs before and after a step can be compared.                       *)
(***************************************************************************)
Previous(cs, c) ==
    IF cs[c].parents = {} THEN 0 ELSE CHOOSE p \in cs[c].parents : TRUE

LogOf(cs, c) ==
    LET log[d \in 0..Len(cs)] ==
          IF d = 0 THEN <<>> ELSE Append(log[Previous(cs, d)], cs[d].map)
    IN  log[c]

IsHistory(cs) ==
    /\ Len(cs) \in Nat
    /\ \A c \in 1..Len(cs) : cs[c].parents \subseteq 1..(c - 1) /\ cs[c].map \in Trees

LEMMA LogIsLogOf ==
    /\ \A c : Log(c) = LogOf(commits, c)
    /\ (\A c : Log(c) = LogOf(commits, c))'
BY DEF Log, LogOf, Previous

LEMMA CommitsAreHistory == TypeOK => IsHistory(commits)
BY CommitHasMap, RefIsCommit DEF IsHistory, TypeOK

LEMMA PreviousIsOlder ==
    ASSUME NEW cs, IsHistory(cs), NEW c \in 1..Len(cs)
    PROVE  Previous(cs, c) \in 0..(c - 1)
<1>1. CASE cs[c].parents = {}
  BY <1>1 DEF Previous, IsHistory
<1>2. CASE cs[c].parents # {}
  <2>1. Previous(cs, c) \in cs[c].parents
    BY <1>2 DEF Previous
  <2> QED BY <2>1 DEF IsHistory
<1> QED BY <1>1, <1>2

(***************************************************************************)
(* The log of a commit is that of the commit it follows, and its own map.  *)
(***************************************************************************)
LEMMA LogUnfold ==
    ASSUME NEW cs, IsHistory(cs)
    PROVE  /\ LogOf(cs, 0) = <<>>
           /\ \A c \in 1..Len(cs) : LogOf(cs, c) = Append(LogOf(cs, Previous(cs, c)), cs[c].map)
<1> DEFINE n == Len(cs)
           Entry(f, d) == IF d = 0 THEN <<>> ELSE Append(f[Previous(cs, d)], cs[d].map)
           IsLog(f, m) == f = [d \in 0..m |-> Entry(f, d)]
           S == {m \in Nat : m <= n => \E f : IsLog(f, m)}
<1>1. n \in Nat /\ \A d \in 1..n : Previous(cs, d) \in 0..(d - 1)
  BY PreviousIsOlder DEF IsHistory
<1> HIDE DEF n
<1>2. ASSUME NEW m \in Nat, 0..(m - 1) \subseteq S PROVE m \in S
  <2> SUFFICES ASSUME m <= n PROVE \E f : IsLog(f, m)
    OBVIOUS
  <2>1. CASE m = 0
    <3> DEFINE f == [d \in 0..0 |-> <<>>]
    <3>1. f = [d \in 0..0 |-> Entry(f, d)]
      OBVIOUS
    <3> QED BY <2>1, <3>1
  <2>2. CASE m # 0
    <3>1. m - 1 \in 0..(m - 1) /\ m - 1 <= n
      BY <1>1, <2>2
    <3>2. PICK g : IsLog(g, m - 1)
      <4> HIDE DEF IsLog
      <4> QED BY <1>2, <3>1
    <3> DEFINE last == Append(g[Previous(cs, m)], cs[m].map)
               f == [d \in 0..m |-> IF d = m THEN last ELSE g[d]]
    <3>3. ASSUME NEW d \in 0..m PROVE f[d] = Entry(f, d)
      <4>1. CASE d = m
        <5>1. Previous(cs, m) \in 0..(m - 1)
          BY <1>1, <2>2
        <5>2. f[Previous(cs, m)] = g[Previous(cs, m)]
          BY <5>1
        <5>3. f[d] = last
          BY <4>1
        <5> HIDE DEF f
        <5> QED BY <2>2, <4>1, <5>2, <5>3
      <4>2. CASE d # m
        <5>1. d \in 0..(m - 1) /\ f[d] = g[d]
          BY <4>2
        <5>2. g[d] = Entry(g, d)
          BY <3>2, <5>1
        <5>3. d # 0 => f[Previous(cs, d)] = g[Previous(cs, d)]
          <6>1. d # 0 => Previous(cs, d) \in 0..m /\ Previous(cs, d) # m
            BY <1>1, <5>1
          <6> QED BY <6>1
        <5> HIDE DEF f
        <5> QED BY <5>1, <5>2, <5>3
      <4> QED BY <4>1, <4>2
    <3>4. f = [d \in 0..m |-> f[d]]
      OBVIOUS
    <3>5. IsLog(f, m)
      <4> HIDE DEF f, Entry
      <4> QED BY <3>3, <3>4
    <3> QED BY <3>5
  <2> QED BY <2>1, <2>2
<1> DEFINE log == CHOOSE f : IsLog(f, n)
<1>3. IsLog(log, n)
  <2> HIDE DEF S, IsLog
  <2>1. n \in S
    BY <1>1, <1>2, CourseOfValues
  <2> QED BY <1>1, <2>1 DEF S
<1>4. \A d : LogOf(cs, d) = log[d]
  BY DEF LogOf, n
<1> HIDE DEF log
<1>5. \A d \in 0..n : log[d] = Entry(log, d)
  BY <1>3
<1>6. log[0] = <<>>
  <2>1. 0 \in 0..n
    BY <1>1
  <2>2. Entry(log, 0) = <<>>
    OBVIOUS
  <2> HIDE DEF Entry
  <2> QED BY <1>5, <2>1, <2>2
<1>7. ASSUME NEW d \in 1..n PROVE log[d] = Append(log[Previous(cs, d)], cs[d].map)
  <2>1. d \in 0..n /\ d # 0
    BY <1>1
  <2>2. log[d] = Entry(log, d)
    <3> HIDE DEF Entry
    <3> QED BY <1>5, <2>1
  <2> QED BY <2>1, <2>2
<1> QED BY <1>4, <1>6, <1>7 DEF n

(***************************************************************************)
(* The log of a commit ends with its map; that of no commit is empty.      *)
(***************************************************************************)
LEMMA LogEnds ==
    ASSUME NEW cs, IsHistory(cs)
    PROVE  /\ \A c \in 0..Len(cs) : LogOf(cs, c) \in Seq(Trees)
           /\ \A c \in 1..Len(cs) : LogOf(cs, c) # <<>> /\ Abstract!Last(LogOf(cs, c)) = cs[c].map
<1> DEFINE S == {c \in Nat : c <= Len(cs) => LogOf(cs, c) \in Seq(Trees)}
<1>1. ASSUME NEW c \in Nat, 0..(c - 1) \subseteq S PROVE c \in S
  <2> SUFFICES ASSUME c <= Len(cs) PROVE LogOf(cs, c) \in Seq(Trees)
    OBVIOUS
  <2>1. CASE c = 0
    <3>1. LogOf(cs, c) = <<>>
      BY <2>1, LogUnfold
    <3> QED BY <3>1
  <2>2. CASE c # 0
    <3>1. c \in 1..Len(cs) /\ Previous(cs, c) \in 0..(c - 1)
      BY <2>2, PreviousIsOlder DEF IsHistory
    <3>2. LogOf(cs, Previous(cs, c)) \in Seq(Trees)
      BY <1>1, <3>1 DEF IsHistory
    <3>3. cs[c].map \in Trees
      BY <3>1 DEF IsHistory
    <3>4. LogOf(cs, c) = Append(LogOf(cs, Previous(cs, c)), cs[c].map)
      BY <3>1, LogUnfold
    <3> QED BY <3>2, <3>3, <3>4
  <2> QED BY <2>1, <2>2
<1>2. ASSUME NEW c \in 0..Len(cs) PROVE LogOf(cs, c) \in Seq(Trees)
  <2> HIDE DEF S
  <2>1. c \in S
    BY <1>1, CourseOfValues
  <2> QED BY <2>1 DEF S, IsHistory
<1>3. ASSUME NEW c \in 1..Len(cs) PROVE LogOf(cs, c) # <<>> /\ Abstract!Last(LogOf(cs, c)) = cs[c].map
  <2>1. Previous(cs, c) \in 0..Len(cs)
    BY PreviousIsOlder DEF IsHistory
  <2>2. /\ LogOf(cs, Previous(cs, c)) \in Seq(Trees)
        /\ LogOf(cs, c) = Append(LogOf(cs, Previous(cs, c)), cs[c].map)
        /\ cs[c].map \in Trees
    BY <1>2, <2>1, LogUnfold DEF IsHistory
  <2> QED BY <2>2 DEF Abstract!Last
<1> QED BY <1>2, <1>3

(***************************************************************************)
(* A new commit leaves the logs of the old ones alone.                     *)
(***************************************************************************)
LEMMA LogIsStable ==
    ASSUME NEW cs, NEW ds, IsHistory(cs), IsHistory(ds), Len(ds) >= Len(cs),
           \A c \in 1..Len(cs) : ds[c] = cs[c]
    PROVE  \A c \in 0..Len(cs) : LogOf(ds, c) = LogOf(cs, c)
<1> DEFINE S == {c \in Nat : c <= Len(cs) => LogOf(ds, c) = LogOf(cs, c)}
<1>0. Len(cs) \in Nat /\ Len(ds) \in Nat
  BY DEF IsHistory
<1>1. ASSUME NEW c \in Nat, 0..(c - 1) \subseteq S PROVE c \in S
  <2> SUFFICES ASSUME c <= Len(cs) PROVE LogOf(ds, c) = LogOf(cs, c)
    OBVIOUS
  <2>1. CASE c = 0
    BY <2>1, LogUnfold
  <2>2. CASE c # 0
    <3>1. c \in 1..Len(cs) /\ c \in 1..Len(ds) /\ Previous(cs, c) \in 0..(c - 1)
      BY <1>0, <2>2, PreviousIsOlder
    <3>2. Previous(ds, c) = Previous(cs, c) /\ ds[c].map = cs[c].map
      <4>1. ds[c] = cs[c]
        BY <3>1
      <4> QED BY <4>1 DEF Previous
    <3>3. LogOf(ds, Previous(cs, c)) = LogOf(cs, Previous(cs, c))
      BY <1>0, <1>1, <3>1
    <3> QED BY <3>1, <3>2, <3>3, LogUnfold
  <2> QED BY <2>1, <2>2
<1>2. ASSUME NEW c \in 0..Len(cs) PROVE LogOf(ds, c) = LogOf(cs, c)
  <2> HIDE DEF S
  <2>1. c \in S
    BY <1>1, CourseOfValues
  <2> QED BY <1>0, <2>1 DEF S
<1> QED BY <1>2

(***************************************************************************)
(* What the abstract map sees of a state, case by case.                    *)
(***************************************************************************)
HistoryNow == [b \in Branches |-> Log(refs[b])]

Views ==
    /\ CurrentBranch = IF pc = "closed" THEN head ELSE branch
    /\ pc = "closed" => ShownMap = Reopened
    /\ pc \in {"checkout_head", "checkout_reload", "checkout_rebuild"} =>
         ShownMap = commits[RefOf(Target(branch))].map
    /\ pc = "merge_apply" => ShownMap = Override(tree, todo)
    /\ pc \notin {"closed", "checkout_head", "checkout_reload", "checkout_rebuild", "merge_apply"} =>
         ShownMap = Override(tree, staging)

LEMMA ViewsHold == Views /\ Views'
BY DEF Views, ShownMap, CurrentBranch, InCheckout, Shown

(***************************************************************************)
(* The parts of the invariant that the refinement uses.                    *)
(***************************************************************************)
Simple ==
    /\ TypeOK /\ Len(commits) \in Nat /\ IsHistory(commits)
    /\ head \in Branches /\ branch \in Branches
    /\ refs[head] \in 1..Len(commits)
    /\ pc # "closed" => refs[branch] \in 1..Len(commits)
    /\ HeadCommit = refs[head]
    /\ pc \notin {"closed", "checkout_head"} => branch = head
    /\ StagingGone /\ CommitFollowsTree /\ RebuildsHead /\ TreeFollowsHead
    /\ CreatesBranch /\ NewBranchIsHead

LEMMA SimpleHolds == SInv => Simple
<1> SUFFICES ASSUME SInv PROVE Simple
  OBVIOUS
<1>1. /\ TypeOK /\ OnBranches /\ HeadIsBorn /\ BranchIsHead
      /\ StagingGone /\ CommitFollowsTree /\ RebuildsHead /\ TreeFollowsHead
      /\ CreatesBranch /\ NewBranchIsHead
  BY DEF SInv, CInv, DInv, TInv, RInv
<1>2. Len(commits) \in Nat /\ refs \in [Branches -> 0..Len(commits)]
  BY <1>1, RefIsCommit DEF TypeOK
<1>3. refs[head] \in 1..Len(commits) /\ (pc # "closed" => refs[branch] \in 1..Len(commits))
  BY <1>1, <1>2 DEF OnBranches, HeadIsBorn, Born
<1> QED BY <1>1, <1>2, <1>3, CommitsAreHistory
         DEF Simple, OnBranches, BranchIsHead, HeadCommit, RefOf

(***************************************************************************)
(* The last map of a branch is that of the commit its ref leads to.        *)
(***************************************************************************)
LEMMA CommittedIs ==
    ASSUME Simple, NEW b \in Branches, refs[b] # 0
    PROVE  /\ HistoryNow[b] # <<>>
           /\ Abstract!Committed(b) = commits[refs[b]].map
           /\ commits[refs[b]].map \in Trees
<1>1. refs[b] \in 1..Len(commits)
  BY DEF Simple, TypeOK
<1>2. Log(refs[b]) = LogOf(commits, refs[b])
  BY LogIsLogOf
<1>3. LogOf(commits, refs[b]) # <<>> /\ Abstract!Last(LogOf(commits, refs[b])) = commits[refs[b]].map
  BY <1>1, LogEnds DEF Simple
<1>4. HistoryNow[b] = Log(refs[b])
  BY DEF HistoryNow
<1>5. Abstract!Committed(b) = Abstract!Last(HistoryNow[b])
  BY DEF Abstract!Committed, HistoryNow
<1>6. commits[refs[b]].map \in Trees
  BY <1>1 DEF Simple, IsHistory
<1> QED BY <1>2, <1>3, <1>4, <1>5, <1>6

(***************************************************************************)
(* When the logs stay as they are.                                         *)
(***************************************************************************)
LEMMA HistoryStays ==
    ASSUME Simple, Simple', UNCHANGED refs, UNCHANGED commits \/ WriteCommit
    PROVE  HistoryNow' = HistoryNow
<1>1. ASSUME NEW b \in Branches PROVE LogOf(commits', refs[b]) = LogOf(commits, refs[b])
  <2>1. CASE UNCHANGED commits
    BY <2>1
  <2>2. CASE WriteCommit
    <3>1. /\ Len(commits') = Len(commits) + 1
          /\ \A c \in 1..Len(commits) : commits'[c] = commits[c]
      BY <2>2, WriteTypes DEF Simple
    <3>2. IsHistory(commits) /\ IsHistory(commits') /\ Len(commits) \in Nat
      BY DEF Simple, IsHistory, Trees
    <3>3. refs[b] \in 0..Len(commits)
      BY DEF Simple, TypeOK
    <3>4. \A c \in 0..Len(commits) : LogOf(commits', c) = LogOf(commits, c)
      BY <3>1, <3>2, LogIsStable
    <3> QED BY <3>3, <3>4
  <2> QED BY <2>1, <2>2
<1>2. /\ HistoryNow = [b \in Branches |-> LogOf(commits, refs[b])]
      /\ HistoryNow' = [b \in Branches |-> LogOf(commits', refs'[b])]
  BY LogIsLogOf DEF HistoryNow
<1> QED BY <1>1, <1>2

(***************************************************************************)
(* When a branch gets one more map: its new commit follows its old one.    *)
(***************************************************************************)
LEMMA HistoryGrows ==
    ASSUME Simple, Simple', UNCHANGED commits \/ WriteCommit, NEW b \in Branches,
           Len(commits') \in 1..Len(commits'),
           refs' = [refs EXCEPT ![b] = Len(commits')],
           commits'[Len(commits')].parents = {refs[b]}
    PROVE  HistoryNow' = [HistoryNow EXCEPT ![b] = Append(@, commits'[Len(commits')].map)]
<1>1. IsHistory(commits) /\ IsHistory(commits') /\ refs \in [Branches -> 0..Len(commits)]
  BY DEF Simple, IsHistory, Trees, TypeOK
<1>2. \A c \in 0..Len(commits) : LogOf(commits', c) = LogOf(commits, c)
  <2>1. CASE UNCHANGED commits
    BY <2>1
  <2>2. CASE WriteCommit
    <3>1. /\ Len(commits') = Len(commits) + 1 /\ Len(commits) \in Nat
          /\ \A c \in 1..Len(commits) : commits'[c] = commits[c]
      BY <2>2, WriteTypes DEF Simple
    <3> QED BY <1>1, <3>1, LogIsStable
  <2> QED BY <2>1, <2>2
<1>3. LogOf(commits', Len(commits')) =
        Append(LogOf(commits, refs[b]), commits'[Len(commits')].map)
  <2>1. Previous(commits', Len(commits')) = refs[b]
    BY DEF Previous
  <2>2. LogOf(commits', refs[b]) = LogOf(commits, refs[b])
    BY <1>1, <1>2
  <2> QED BY <1>1, <2>1, <2>2, LogUnfold
<1>4. /\ HistoryNow = [a \in Branches |-> LogOf(commits, refs[a])]
      /\ HistoryNow' = [a \in Branches |-> LogOf(commits', refs'[a])]
  BY LogIsLogOf DEF HistoryNow
<1>5. \A a \in Branches :
        HistoryNow'[a] = IF a = b THEN Append(HistoryNow[a], commits'[Len(commits')].map)
                         ELSE HistoryNow[a]
  BY <1>1, <1>2, <1>3, <1>4
<1> QED BY <1>4, <1>5

(***************************************************************************)
(* The steps of the abstract map, in terms of the store.                   *)
(***************************************************************************)
Refines ==
    \/ Abstract!MapNext
    \/ UNCHANGED <<ShownMap, CurrentBranch, HistoryNow>>

LEMMA IsEdit ==
    ASSUME NEW k \in Keys, NEW side \in Sides,
           ShownMap' = [ShownMap EXCEPT ![k] = side], UNCHANGED <<CurrentBranch, HistoryNow>>
    PROVE  Refines
BY DEF Refines, Abstract!MapNext, Abstract!Edit, HistoryNow

LEMMA IsCommit ==
    ASSUME HistoryNow' = [HistoryNow EXCEPT ![CurrentBranch] = Append(@, ShownMap)],
           UNCHANGED <<ShownMap, CurrentBranch>>
    PROVE  Refines
BY DEF Refines, Abstract!MapNext, Abstract!Commit, HistoryNow

LEMMA IsBranch ==
    ASSUME NEW b \in Branches,
           HistoryNow' = [HistoryNow EXCEPT ![b] = HistoryNow[CurrentBranch]],
           UNCHANGED <<ShownMap, CurrentBranch>>
    PROVE  Refines
BY DEF Refines, Abstract!MapNext, Abstract!Branch, HistoryNow

(***************************************************************************)
(* A branch whose last commit is shown, or is empty.                       *)
(***************************************************************************)
LEMMA IsCheckout ==
    ASSUME Simple, NEW b \in Branches, refs[b] # 0, CurrentBranch' = b,
           UNCHANGED HistoryNow, ShownMap' \in Trees,
           commits[refs[b]].map \in {ShownMap', EmptyTree}
    PROVE  Refines
<1>1. HistoryNow[b] # <<>> /\ Abstract!Committed(b) = commits[refs[b]].map
  BY CommittedIs
<1>2. CASE commits[refs[b]].map = ShownMap'
  <2>1. Abstract!Checkout(b)
    BY <1>1, <1>2 DEF Abstract!Checkout, HistoryNow
  <2> QED BY <2>1 DEF Refines, Abstract!MapNext
<1>3. CASE commits[refs[b]].map = EmptyTree
  <2>1. Abstract!Nothing = EmptyTree /\ Abstract!Maps = Trees
    BY DEF Abstract!Nothing, EmptyTree, Abstract!Maps, Trees
  <2>2. Abstract!Unpromised(b)
    BY <1>1, <1>3, <2>1 DEF Abstract!Unpromised, HistoryNow
  <2> QED BY <2>2 DEF Refines, Abstract!MapNext
<1> QED BY <1>2, <1>3

LEMMA IsCombine ==
    ASSUME Simple, NEW s \in Branches, refs[s] # 0, CurrentBranch \in Branches,
           refs[CurrentBranch] # 0,
           ShownMap' \in Trees, UNCHANGED <<CurrentBranch, HistoryNow>>,
           \A k \in Keys : ShownMap'[k] \in {ShownMap[k], commits[refs[CurrentBranch]].map[k],
                                             commits[refs[s]].map[k]}
    PROVE  Refines
<1>1. /\ HistoryNow[s] # <<>> /\ Abstract!Committed(s) = commits[refs[s]].map
      /\ Abstract!Committed(CurrentBranch) = commits[refs[CurrentBranch]].map
  BY CommittedIs
<1>2. Abstract!Combine(s)
  <2>1. Abstract!Maps = Trees
    BY DEF Abstract!Maps, Trees
  <2> QED BY <1>1, <2>1 DEF Abstract!Combine, HistoryNow
<1> QED BY <1>2 DEF Refines, Abstract!MapNext

(***************************************************************************)
(* Trees overridden by areas.                                              *)
(***************************************************************************)
LEMMA OverrideIsTree ==
    ASSUME NEW t \in Trees, NEW a \in Areas
    PROVE  Override(t, a) \in Trees
BY DEF Override, Trees, Areas

(***************************************************************************)
(* Staging edits what is shown.                                            *)
(***************************************************************************)
LEMMA StagingRefines ==
    ASSUME Simple, Simple', NEW k \in Keys, NEW side \in Sides, Stage(k, side),
           pc = "idle", pc' = "idle"
    PROVE  Refines
<1>1. /\ tree \in Trees /\ staging \in Areas
      /\ tree' = tree /\ staging' = [staging EXCEPT ![k] = side]
  BY DEF Stage, Simple, TypeOK
<1>2. HistoryNow' = HistoryNow
  BY HistoryStays DEF Stage
<1>3. CurrentBranch' = CurrentBranch
  BY ViewsHold DEF Views, Stage
<1>4. ShownMap = Override(tree, staging) /\ ShownMap' = Override(tree', staging')
  BY ViewsHold DEF Views, Override
<1>5. ShownMap' = [ShownMap EXCEPT ![k] = side]
  BY <1>1, <1>4, StoreAssumptions DEF Override, Trees, Areas
<1> QED BY <1>2, <1>3, <1>5, IsEdit

(***************************************************************************)
(* Of the steps of commit only the one that writes the ref is seen.        *)
(***************************************************************************)
LEMMA CommitRefines ==
    ASSUME SInv, Simple, Simple', CommitStep, Faults = {}
    PROVE  Refines
<1> USE DEF disk, memory
<1>0. tree \in Trees /\ staging \in Areas /\ branch \in Branches
  BY DEF Simple, TypeOK
<1>1. ASSUME UNCHANGED <<tree, staging>>, UNCHANGED branch, UNCHANGED refs,
             UNCHANGED commits \/ WriteCommit,
             pc \in {"idle", "commit_apply", "commit_add", "commit_write", "commit_head", "commit_clear"},
             pc' \in {"idle", "commit_apply", "commit_add", "commit_write", "commit_ref", "commit_clear"}
      PROVE  Refines
  <2>1. ShownMap' = ShownMap /\ CurrentBranch' = CurrentBranch
    BY <1>1, ViewsHold DEF Views, Override
  <2> QED BY <1>1, <2>1, HistoryStays DEF Refines
<1>2. CASE Commit
  BY <1>1, <1>2 DEF Commit, Begin
<1>3. ASSUME NEW k \in Keys, CommitApply(k) PROVE Refines
  <2>1. /\ pc = "commit_apply" /\ pc' = "commit_apply" /\ staging[k] # Unstaged
        /\ tree' = [tree EXCEPT ![k] = staging[k]] /\ staging' = [staging EXCEPT ![k] = Unstaged]
        /\ UNCHANGED <<commits, refs, branch>>
    BY <1>3 DEF CommitApply, Step, ApplyToTree
  <2>2. Override(tree', staging') = Override(tree, staging)
    BY <1>0, <2>1, ApplyKeepsOverride
  <2>3. Override(tree, staging)' = Override(tree', staging')
    BY DEF Override
  <2>4. ShownMap' = ShownMap /\ CurrentBranch' = CurrentBranch
    BY <2>1, <2>2, <2>3, ViewsHold DEF Views
  <2> QED BY <2>1, <2>4, HistoryStays DEF Refines
<1>4. CASE CommitPersist \/ CommitAdd \/ CommitWrite
  BY <1>1, <1>4 DEF CommitPersist, CommitAdd, CommitWrite, Step
<1>5. CASE CommitHead \/ CommitClear
  BY <1>1, <1>5 DEF CommitHead, CommitClear, Step
<1>6. CASE CommitWriteFails \/ CommitRefFails
  BY <1>0, <1>6 DEF CommitWriteFails, CommitRefFails
<1>7. CASE CommitRef
  <2>1. /\ pc = "commit_ref" /\ pc' = "commit_head"
        /\ refs' = [refs EXCEPT ![branch] = Len(commits)]
        /\ UNCHANGED <<commits, tree, staging, branch>>
    BY <1>7 DEF CommitRef, Step
  <2>2. /\ Len(commits) > 0 /\ commits[Len(commits)].map = tree /\ staging = EmptyArea
        /\ Len(commits) \in Nat
    BY <2>1 DEF Simple, CommitFollowsTree, StagingGone
  <2>3. commits[Len(commits)].parents = {refs[branch]}
    BY <2>1 DEF SInv, CInv, RInv, NewCommitExtends, OnBranches
  <2>4. ShownMap = tree /\ CurrentBranch = branch
    BY <1>0, <2>1, <2>2, ViewsHold, NothingOver DEF Views
  <2>5. ShownMap' = ShownMap /\ CurrentBranch' = CurrentBranch
    BY <2>1, ViewsHold DEF Views, Override
  <2>6. HistoryNow' = [HistoryNow EXCEPT ![branch] = Append(@, tree)]
    <3>1. /\ Len(commits') \in 1..Len(commits') /\ refs' = [refs EXCEPT ![branch] = Len(commits')]
          /\ commits'[Len(commits')].parents = {refs[branch]}
          /\ commits'[Len(commits')].map = tree
      BY <2>1, <2>2, <2>3
    <3> QED BY <1>0, <2>1, <3>1, HistoryGrows
  <2> QED BY <2>4, <2>5, <2>6, IsCommit
<1> QED BY <1>2, <1>3, <1>4, <1>5, <1>6, <1>7 DEF CommitStep

(***************************************************************************)
(* A new branch has the history of the current one.                        *)
(***************************************************************************)
LEMMA BranchRefines ==
    ASSUME Simple, Simple', BranchStep
    PROVE  Refines
<1> USE DEF disk, memory
<1>0. tree \in Trees /\ tree' \in Trees /\ Override(tree, EmptyArea) = tree
  BY NothingOver DEF Simple, TypeOK
<1>1. ASSUME NEW b \in Branches, Branch(b) \/ CreateBranch(b) PROVE Refines
  <2>1. /\ pc = "idle" /\ pc' \in {"idle", "create_clear"}
        /\ refs' = [refs EXCEPT ![b] = HeadCommit]
        /\ UNCHANGED <<commits, head, tree, staging, branch>>
    BY <1>1 DEF Branch, CreateBranch, Begin
  <2>2. HeadCommit = refs[branch] /\ refs \in [Branches -> 0..Len(commits)] /\ branch \in Branches
    BY <2>1 DEF Simple, TypeOK
  <2>3. ShownMap' = ShownMap /\ CurrentBranch' = CurrentBranch /\ CurrentBranch = branch
    BY <2>1, ViewsHold DEF Views, Override
  <2>4. HistoryNow' = [HistoryNow EXCEPT ![b] = HistoryNow[branch]]
    <3>1. /\ HistoryNow = [a \in Branches |-> LogOf(commits, refs[a])]
          /\ HistoryNow' = [a \in Branches |-> LogOf(commits', refs'[a])]
      BY LogIsLogOf DEF HistoryNow
    <3>2. \A a \in Branches : refs'[a] = IF a = b THEN refs[branch] ELSE refs[a]
      BY <2>1, <2>2
    <3> QED BY <2>1, <2>2, <3>1, <3>2
  <2> QED BY <2>3, <2>4, IsBranch
<1>2. CASE CreateBranchClear
  <2>1. /\ pc = "create_clear" /\ pc' = "create_head" /\ staging' = EmptyArea
        /\ UNCHANGED <<commits, refs, head, tree, branch>>
    BY <1>2 DEF CreateBranchClear, Step
  <2>2. /\ branch \in Branches /\ refs[branch] # 0 /\ HeadCommit = refs[branch] /\ HeadHolds(tree)
    BY <2>1 DEF Simple, TreeFollowsHead
  <2>3. commits[refs[branch]].map \in {tree, EmptyTree}
    BY <2>2 DEF HeadHolds
  <2>4. CurrentBranch' = branch /\ ShownMap' = Override(tree', staging')
    BY <2>1, ViewsHold DEF Views, Override
  <2>5. ShownMap' = tree
    BY <1>0, <2>1, <2>4
  <2>6. HistoryNow' = HistoryNow
    BY <2>1, HistoryStays
  <2> QED BY <1>0, <2>2, <2>3, <2>4, <2>5, <2>6, IsCheckout
<1>3. CASE CreateBranchHead
  <2>1. /\ pc = "create_head" /\ pc' = "idle" /\ branch' = op.arg
        /\ UNCHANGED <<commits, refs, tree, staging>>
    BY <1>3 DEF CreateBranchHead, Step
  <2>2. /\ staging = EmptyArea /\ op.arg \in Branches /\ refs[op.arg] = HeadCommit
        /\ HeadCommit # 0 /\ HeadHolds(tree)
    BY <2>1 DEF Simple, StagingGone, CreatesBranch, NewBranchIsHead, TreeFollowsHead
  <2>3. commits[refs[op.arg]].map \in {tree, EmptyTree} /\ refs[op.arg] # 0
    BY <2>2 DEF HeadHolds
  <2>4. CurrentBranch' = op.arg /\ ShownMap' = Override(tree', staging')
    BY <2>1, ViewsHold DEF Views, Override
  <2>5. ShownMap' = tree
    BY <1>0, <2>1, <2>2, <2>4
  <2>6. HistoryNow' = HistoryNow
    BY <2>1, HistoryStays
  <2> QED BY <1>0, <2>2, <2>3, <2>4, <2>5, <2>6, IsCheckout
<1> QED BY <1>1, <1>2, <1>3 DEF BranchStep

(***************************************************************************)
(* A checkout is seen when it has found the ref; when it finds none it     *)
(* only drops what was staged.                                             *)
(***************************************************************************)
LEMMA CheckoutRefines ==
    ASSUME Simple, Simple', CheckoutStep, CheckoutNames \subseteq Branches
    PROVE  Refines
<1> USE DEF disk, memory
<1>0. tree \in Trees /\ tree' \in Trees /\ todo \in Areas /\ Override(tree, EmptyArea) = tree
  BY NothingOver DEF Simple, TypeOK
<1> DEFINE InIt == {"checkout_head", "checkout_reload", "checkout_rebuild"}
<1>1. ASSUME NEW n \in CheckoutNames, Checkout(n) PROVE Refines
  <2>1. /\ n \in Branches /\ Target(n) = n /\ pc = "idle" /\ staging' = EmptyArea
        /\ UNCHANGED <<commits, refs, tree>>
        /\ \/ refs[n] # 0 /\ pc' = "checkout_head" /\ branch' = n
           \/ pc' = "idle" /\ branch' = branch
    BY <1>1 DEF Checkout, ClearStaging, Target, Begin, Fail
  <2>2. HistoryNow' = HistoryNow
    BY <2>1, HistoryStays
  <2>3. CASE refs[n] # 0 /\ pc' = "checkout_head" /\ branch' = n
    <3>1. ShownMap' = commits'[(RefOf(Target(branch)))'].map /\ CurrentBranch' = n
      BY <2>3, ViewsHold DEF Views
    <3>2. (RefOf(Target(branch)))' = refs[n]
      BY <2>1, <2>3 DEF RefOf, Target
    <3>3. ShownMap' = commits[refs[n]].map
      BY <2>1, <3>1, <3>2
    <3>4. commits[refs[n]].map \in Trees
      BY <2>1, <2>3, CommittedIs
    <3> QED BY <2>1, <2>2, <2>3, <3>1, <3>3, <3>4, IsCheckout
  <2>4. CASE pc' = "idle" /\ branch' = branch
    <3>1. branch \in Branches /\ refs[branch] # 0 /\ HeadCommit = refs[branch] /\ HeadHolds(tree)
      BY <2>1 DEF Simple, TreeFollowsHead
    <3>2. commits[refs[branch]].map \in {tree, EmptyTree}
      BY <3>1 DEF HeadHolds
    <3>3. CurrentBranch' = branch /\ ShownMap' = Override(tree', staging')
      BY <2>4, ViewsHold DEF Views, Override
    <3>4. ShownMap' = tree
      BY <1>0, <2>1, <3>3
    <3> QED BY <1>0, <2>2, <3>1, <3>2, <3>3, <3>4, IsCheckout
  <2> QED BY <2>1, <2>3, <2>4
<1>2. ASSUME pc \in InIt, pc' \in InIt, UNCHANGED <<commits, refs, branch>> PROVE Refines
  <2>1. ShownMap = commits[RefOf(Target(branch))].map /\ CurrentBranch = branch
    BY <1>2, ViewsHold DEF Views
  <2>2. ShownMap' = commits'[(RefOf(Target(branch)))'].map /\ CurrentBranch' = branch
    BY <1>2, ViewsHold DEF Views
  <2>3. (RefOf(Target(branch)))' = RefOf(Target(branch))
    BY <1>2 DEF RefOf, Target
  <2> QED BY <1>2, <2>1, <2>2, <2>3, HistoryStays DEF Refines
<1>3. CASE CheckoutHead \/ CheckoutReload \/ \E k \in Keys : CheckoutRebuild(k)
  BY <1>2, <1>3 DEF CheckoutHead, CheckoutReload, CheckoutRebuild, Step
<1>4. CASE CheckoutReloadFails
  <2>1. HeadCommit = 0 /\ HeadCommit = refs[head] /\ refs[head] \in 1..Len(commits)
    BY <1>4 DEF CheckoutReloadFails, Simple
  <2> QED BY <2>1
<1>5. CASE CheckoutDone
  <2>1. /\ pc = "checkout_rebuild" /\ pc' = "idle" /\ todo = EmptyArea
        /\ UNCHANGED <<commits, refs, head, tree, staging, branch>>
    BY <1>5 DEF CheckoutDone, Step
  <2>2. /\ Override(tree, todo) = commits[HeadCommit].map /\ staging = EmptyArea
        /\ HeadCommit = refs[branch] /\ branch \in Branches
    BY <2>1 DEF Simple, RebuildsHead, StagingGone
  <2>3. RefOf(Target(branch)) = refs[branch]
    BY <2>2 DEF RefOf, Target
  <2>4. ShownMap = tree /\ CurrentBranch = branch
    BY <1>0, <2>1, <2>2, <2>3, ViewsHold DEF Views
  <2>5. CurrentBranch' = branch /\ ShownMap' = Override(tree', staging')
    BY <2>1, ViewsHold DEF Views, Override
  <2>6. ShownMap' = tree
    BY <1>0, <2>1, <2>2, <2>5
  <2> QED BY <2>1, <2>4, <2>5, <2>6, HistoryStays DEF Refines
<1> QED BY <1>1, <1>3, <1>4, <1>5 DEF CheckoutStep

(***************************************************************************)
(* Every resolver but the semantic one decides a conflict for a side.      *)
(***************************************************************************)
LEMMA ResolvesToASide ==
    ASSUME NEW r \in Resolvers \ {"semantic"}, NEW source, NEW dest
    PROVE  Resolve(r, source, dest) \subseteq {source, dest}
BY DEF Resolve, Resolvers, Present, Later

(***************************************************************************)
(* A merge is seen when it has resolved its conflicts, and its commit when *)
(* git has moved the ref.                                                  *)
(***************************************************************************)
LEMMA MergeBegins ==
    ASSUME Simple, Simple', UsedResolvers \subseteq Resolvers \ {"semantic"},
           NEW s \in Branches, NEW r \in UsedResolvers, Merge(s, r)
    PROVE  Refines
<1> USE DEF disk, memory
<1> DEFINE base == commits[MergeBase(RefOf(branch), refs[s])].map
           source == commits[refs[s]].map
<1>1. /\ pc = "idle" /\ pc' = "merge_apply" /\ todo' \in Areas /\ refs[s] # 0
      /\ \A k \in Keys : todo'[k] \in Results(s, r)[k]
      /\ UNCHANGED <<commits, refs, head, tree, staging, branch>>
  BY DEF Merge, Begin, HaveBase
<1>2. /\ tree \in Trees /\ branch \in Branches /\ refs[branch] # 0 /\ HeadCommit = refs[branch]
      /\ HeadHolds(tree)
  BY <1>1 DEF Simple, TypeOK, TreeFollowsHead
<1>3. source \in Trees
  BY <1>1, CommittedIs
<1>4. /\ CurrentBranch = branch /\ CurrentBranch' = branch
      /\ ShownMap = Override(tree, staging) /\ ShownMap' = Override(tree, todo')
  BY <1>1, ViewsHold DEF Views, Override
<1>5. ShownMap' \in Trees
  BY <1>1, <1>2, <1>4, OverrideIsTree
<1>6. HistoryNow' = HistoryNow
  BY <1>1, HistoryStays
<1>7. \A k \in Keys : todo'[k] \in MergeResults(base, source, Destination, r)[k]
  BY <1>1 DEF Results, KeysAt
<1> HIDE DEF base, source
<1>8. ASSUME NEW k \in Keys PROVE ShownMap'[k] \in {ShownMap[k], tree[k], source[k]}
  <2> DEFINE d == Destination[k]
  <2>1. todo'[k] \in IF IsConflict(base[k], source[k], d) THEN Resolve(r, source[k], d)
                     ELSE IF TakesSource(base[k], source[k], d) THEN {source[k]}
                     ELSE {Unstaged}
    BY <1>7 DEF MergeResults
  <2>2. IsConflict(base[k], source[k], d) => d = ShownMap[k]
    <3>1. d = IF tree[k] = NoValue THEN NoValue ELSE ShownMap[k]
      BY <1>4 DEF Destination, Shown
    <3> QED BY <3>1 DEF IsConflict
  <2>3. Resolve(r, source[k], d) \subseteq {source[k], d}
    BY ResolvesToASide
  <2>4. ShownMap'[k] = IF todo'[k] = Unstaged THEN tree[k] ELSE todo'[k]
    BY <1>4 DEF Override
  <2> HIDE DEF d
  <2> QED BY <2>1, <2>2, <2>3, <2>4
<1>9. CASE commits[refs[branch]].map = tree
  BY <1>1, <1>2, <1>4, <1>5, <1>6, <1>8, <1>9, IsCombine DEF source
<1>10. CASE commits[refs[branch]].map = EmptyTree
  BY <1>1, <1>2, <1>4, <1>5, <1>6, <1>10, IsCheckout
<1> QED BY <1>2, <1>9, <1>10 DEF HeadHolds

LEMMA MergeRefines ==
    ASSUME Simple, Simple', MergeStep, Faults = {}, UsedResolvers \subseteq Resolvers \ {"semantic"}
    PROVE  Refines
<1> USE DEF disk, memory
<1>0. tree \in Trees /\ todo \in Areas /\ Override(tree, EmptyArea) = tree
  BY NothingOver DEF Simple, TypeOK
<1>1. ASSUME NEW s \in Branches, NEW r \in UsedResolvers, MergeFails(s, r) PROVE Refines
  <2>1. /\ pc = "idle" /\ pc' = "idle"
        /\ UNCHANGED <<commits, refs, tree, staging, branch>>
    BY <1>1 DEF MergeFails, Fail
  <2>2. ShownMap' = ShownMap /\ CurrentBranch' = CurrentBranch
    BY <2>1, ViewsHold DEF Views, Override
  <2> QED BY <2>1, <2>2, HistoryStays DEF Refines
<1>2. ASSUME NEW k \in Keys, MergeApply(k) PROVE Refines
  <2>1. /\ pc = "merge_apply" /\ pc' = "merge_apply" /\ todo[k] # Unstaged
        /\ tree' = [tree EXCEPT ![k] = todo[k]] /\ todo' = [todo EXCEPT ![k] = Unstaged]
        /\ UNCHANGED <<commits, refs, branch>>
    BY <1>2 DEF MergeApply, Step, ApplyToTree
  <2>2. Override(tree', todo') = Override(tree, todo)
    BY <1>0, <2>1, ApplyKeepsOverride
  <2>3. Override(tree, todo)' = Override(tree', todo')
    BY DEF Override
  <2>4. ShownMap' = ShownMap /\ CurrentBranch' = CurrentBranch
    BY <2>1, <2>2, <2>3, ViewsHold DEF Views
  <2> QED BY <2>1, <2>4, HistoryStays DEF Refines
<1>3. CASE MergeClear
  <2>1. /\ pc = "merge_apply" /\ pc' = "merge_add" /\ todo = EmptyArea /\ staging' = EmptyArea
        /\ UNCHANGED <<commits, refs, tree, branch>>
    BY <1>3 DEF MergeClear, ClearStaging, Step
  <2>2. ShownMap = tree /\ CurrentBranch = branch
    BY <1>0, <2>1, ViewsHold DEF Views
  <2>3. ShownMap' = Override(tree', staging') /\ CurrentBranch' = branch
    BY <2>1, ViewsHold DEF Views, Override
  <2>4. ShownMap' = tree
    BY <1>0, <2>1, <2>3
  <2> QED BY <2>1, <2>2, <2>3, <2>4, HistoryStays DEF Refines
<1>4. CASE MergeAdd
  <2>1. /\ pc = "merge_add" /\ pc' = "merge_commit"
        /\ UNCHANGED <<commits, refs, tree, staging, branch>>
    BY <1>4 DEF MergeAdd, Step
  <2>2. ShownMap' = ShownMap /\ CurrentBranch' = CurrentBranch
    BY <2>1, ViewsHold DEF Views, Override
  <2> QED BY <2>1, <2>2, HistoryStays DEF Refines
<1>5. CASE MergeAddFails
  <2>1. HeadCommit = 0 /\ HeadCommit = refs[head] /\ refs[head] \in 1..Len(commits)
    BY <1>5 DEF MergeAddFails, Simple
  <2> QED BY <2>1
<1>6. CASE MergeCommit
  <2>1. /\ pc = "merge_commit" /\ pc' = "idle" /\ WriteCommit
        /\ refs' = [refs EXCEPT ![head] = Len(commits) + 1]
        /\ UNCHANGED <<tree, staging, branch>>
    BY <1>6 DEF MergeCommit, Step
  <2>2. /\ staging = EmptyArea /\ index = tree /\ head \in Branches /\ branch = head
        /\ HeadCommit = refs[head] /\ HeadCommit # 0 /\ Len(commits) \in Nat
    BY <2>1 DEF Simple, StagingGone, CommitFollowsTree
  <2>3. ShownMap = tree /\ CurrentBranch = head
    BY <1>0, <2>1, <2>2, ViewsHold DEF Views
  <2>4. ShownMap' = ShownMap /\ CurrentBranch' = CurrentBranch
    BY <2>1, ViewsHold DEF Views, Override
  <2>5. /\ Len(commits') = Len(commits) + 1 /\ commits'[Len(commits')].parents = {refs[head]}
        /\ commits'[Len(commits')].map = tree
    <3>1. Len(commits') = Len(commits) + 1 /\ commits'[Len(commits')].parents = ParentsOfNew
      BY <2>1, WriteTypes DEF Simple
    <3>2. ParentsOfNew = {refs[head]}
      BY <2>2 DEF ParentsOfNew
    <3>3. commits'[Len(commits')].map = index
      <4>1. commits \in Seq([parents : SUBSET Nat, map : Trees])
        BY DEF Simple, TypeOK
      <4> QED BY <2>1, <3>1, <4>1 DEF WriteCommit
    <3> QED BY <2>2, <3>1, <3>2, <3>3
  <2>6. HistoryNow' = [HistoryNow EXCEPT ![head] = Append(@, tree)]
    <3>1. Len(commits') \in 1..Len(commits') /\ refs' = [refs EXCEPT ![head] = Len(commits')]
      BY <2>1, <2>2, <2>5
    <3> QED BY <2>1, <2>2, <2>5, <3>1, HistoryGrows
  <2> QED BY <2>3, <2>4, <2>6, IsCommit
<1>7. CASE MergeCommitFails
  BY <1>7 DEF MergeCommitFails
<1> QED BY <1>1, <1>2, <1>3, <1>4, <1>5, <1>6, <1>7, MergeBegins DEF MergeStep

(***************************************************************************)
(* A process leaves behind what it showed, unless a checkout has left its  *)
(* tree empty, and the next one shows what is there.                       *)
(***************************************************************************)
LEMMA LifeRefines ==
    ASSUME SInv, Simple, Simple', Close \/ Open
    PROVE  Refines
<1> USE DEF disk, memory
<1>1. CASE Close
  <2>1. /\ pc = "idle" /\ pc' = "closed"
        /\ UNCHANGED <<commits, refs, head, diskTree, stagingFile>>
    BY <1>1 DEF Close, Stop
  <2>2. /\ branch = head /\ head \in Branches /\ refs[head] # 0 /\ HeadCommit = refs[head]
        /\ HeadHolds(tree)
        /\ diskTree \in Trees /\ stagingFile \in Areas
    BY <2>1 DEF Simple, TreeFollowsHead, TypeOK
  <2>3. CurrentBranch' = head /\ ShownMap' = Reopened
    BY <2>1, ViewsHold DEF Views, Reopened, Override
  <2>4. HistoryNow' = HistoryNow
    BY <2>1, HistoryStays
  <2>5. CASE tree # EmptyTree
    <3>1. Reopened = Shown
      BY <2>1, <2>5, DurableView DEF SInv, CInv, CrashKeepsView
    <3>2. ShownMap = Shown /\ CurrentBranch = head
      BY <2>1, <2>2, ViewsHold DEF Views, Shown
    <3> QED BY <2>3, <2>4, <3>1, <3>2 DEF Refines
  <2>6. CASE tree = EmptyTree
    <3>1. commits[refs[head]].map = EmptyTree
      BY <2>2, <2>6 DEF HeadHolds
    <3>2. Reopened \in Trees
      BY <2>2, OverrideIsTree DEF Reopened
    <3> QED BY <2>2, <2>3, <2>4, <3>1, <3>2, IsCheckout
  <2> QED BY <2>5, <2>6
<1>2. CASE Open
  <2>1. /\ pc = "closed" /\ pc' = "idle" /\ tree' = diskTree /\ staging' = stagingFile
        /\ UNCHANGED <<commits, refs, head>>
        /\ branch' = IF HeadCommit # 0 THEN head ELSE Main
    BY <1>2 DEF Open, LoadStagingArea
  <2>2. HeadCommit # 0
    BY DEF Simple
  <2>3. ShownMap = Reopened /\ CurrentBranch = head
    BY <2>1, ViewsHold DEF Views
  <2>4. ShownMap' = Override(tree', staging') /\ CurrentBranch' = head
    BY <2>1, <2>2, ViewsHold DEF Views, Override
  <2>5. ShownMap' = ShownMap
    BY <2>1, <2>3, <2>4 DEF Reopened
  <2> QED BY <2>1, <2>3, <2>4, <2>5, HistoryStays DEF Refines
<1> QED BY <1>1, <1>2

LEMMA InitRefines == Init => Abstract!MapInit
<1> SUFFICES ASSUME Init PROVE Abstract!MapInit
  OBVIOUS
<1>1. /\ EmptyTree = Abstract!Nothing
      /\ Override(EmptyTree, EmptyArea) = EmptyTree
  BY Empties, NothingOver DEF EmptyTree, Abstract!Nothing
<1>2. ShownMap = EmptyTree /\ CurrentBranch = Main
  BY <1>1, ViewsHold DEF Init, Views
<1>3. Log(0) = <<>> /\ Log(1) = <<EmptyTree>>
  <2>1. IsHistory(commits) /\ Len(commits) = 1 /\ commits[1].parents = {} /\ commits[1].map = EmptyTree
    BY InitTypes, CommitsAreHistory DEF Init, TInv
  <2>2. LogOf(commits, 0) = <<>>
    BY <2>1, LogUnfold
  <2>3. LogOf(commits, 1) = Append(LogOf(commits, Previous(commits, 1)), EmptyTree)
    BY <2>1, LogUnfold
  <2>4. Previous(commits, 1) = 0
    BY <2>1 DEF Previous
  <2>5. Append(<<>>, EmptyTree) = <<EmptyTree>>
    OBVIOUS
  <2> QED BY <2>2, <2>3, <2>4, <2>5, LogIsLogOf
<1>4. [b \in Branches |-> Log(refs[b])] =
        [b \in Branches |-> IF b = Main THEN <<EmptyTree>> ELSE <<>>]
  <2>1. \A b \in Branches : Log(refs[b]) = IF b = Main THEN <<EmptyTree>> ELSE <<>>
    <3>1. \A b \in Branches : refs[b] = IF b = Main THEN 1 ELSE 0
      BY DEF Init
    <3> QED BY <1>3, <3>1
  <2> QED BY <2>1
<1> QED BY <1>1, <1>2, <1>4 DEF Abstract!MapInit

LEMMA StepRefines ==
    ASSUME SInv, Simple, Simple', [Next]_vars,
           Faults = {}, CheckoutNames \subseteq Branches,
           UsedResolvers \subseteq Resolvers \ {"semantic"}
    PROVE  Refines
<1>1. ASSUME NEW k \in Keys, NEW v \in Values, Insert(k, v) \/ Update(k, v) PROVE Refines
  <2>1. Stage(k, v) /\ pc = "idle" /\ pc' = "idle" /\ v \in Sides
    BY <1>1 DEF Insert, Update, Begin, Sides
  <2> QED BY <2>1, StagingRefines
<1>2. ASSUME NEW k \in Keys, Delete(k) PROVE Refines
  <2>1. Stage(k, NoValue) /\ pc = "idle" /\ pc' = "idle" /\ NoValue \in Sides
    BY <1>2 DEF Delete, Begin, Sides
  <2> QED BY <2>1, StagingRefines
<1>3. CASE Crash
  BY <1>3 DEF Crash
<1>4. CASE UNCHANGED vars
  <2>1. /\ UNCHANGED <<pc, head, branch, commits, refs, tree, staging, todo, diskTree, stagingFile>>
    BY <1>4 DEF vars, disk, memory
  <2>2. (RefOf(Target(branch)))' = RefOf(Target(branch)) /\ Reopened' = Reopened
    BY <2>1 DEF RefOf, Target, Reopened, Override
  <2>3. Override(tree, todo)' = Override(tree, todo) /\ Override(tree, staging)' = Override(tree, staging)
    BY <2>1 DEF Override
  <2>4. ShownMap' = ShownMap /\ CurrentBranch' = CurrentBranch
    BY <2>1, <2>2, <2>3, ViewsHold DEF Views, Steps
  <2> QED BY <2>1, <2>4, HistoryStays DEF Refines
<1> QED
  BY <1>1, <1>2, <1>3, <1>4, CommitRefines, BranchRefines, CheckoutRefines, MergeRefines,
     LifeRefines DEF Next

(***************************************************************************)
(* As long as no git command fails, no process dies in a call, checkout is *)
(* called with short names and merge with a resolver that picks a side,    *)
(* the store is the map with branches that its callers take it for,        *)
(* however the calls follow each other and whenever it is closed and       *)
(* opened: its trees, areas, refs and commit objects implement edits,      *)
(* commits, branches, checkouts and merges of one step each.               *)
(***************************************************************************)
THEOREM StoreImplementsMap ==
    ASSUME Faults = {}, CheckoutNames \subseteq Branches,
           UsedResolvers \subseteq Resolvers \ {"semantic"}
    PROVE  Spec => ImplementsBranchedMap
<1>1. SInv /\ [Next]_vars => SInv'
  BY StepSimple
<1>2. SInv /\ Simple /\ Simple' /\ [Next]_vars =>
        [Abstract!MapNext]_<<ShownMap, CurrentBranch, [b \in Branches |-> Log(refs[b])]>>
  <2> SUFFICES ASSUME SInv, Simple, Simple', [Next]_vars
               PROVE  [Abstract!MapNext]_<<ShownMap, CurrentBranch, [b \in Branches |-> Log(refs[b])]>>
    OBVIOUS
  <2>1. Refines
    BY StepRefines
  <2> QED BY <2>1 DEF Refines, HistoryNow
<1> QED BY <1>1, <1>2, InitSimple, InitRefines, SimpleHolds, PTL
         DEF Spec, ImplementsBranchedMap, Abstract!MapSpec
=============================================================================

----------------------------- MODULE Worktrees -----------------------------
(***************************************************************************)
(* WorktreeManager of src/src/git/worktree.rs: several managers, each in a *)
(* process of its own, on one repository whose main worktree holds a       *)
(* store.  On disk there are the commits and refs, HEAD of the main        *)
(* worktree, a directory below .git/worktrees per linked worktree and the  *)
(* lock files; each manager has its own map of the worktrees it knows.     *)
(*                                                                         *)
(* add_worktree, remove_worktree and the merges make several writes; each  *)
(* is a step, and the process may die between two of them.  A manager is   *)
(* borrowed mutably, so that its own calls do not overlap.                 *)
(***************************************************************************)
EXTENDS Integers, Sequences, FiniteSets

CONSTANTS Managers,
          Linked,      \* ids of linked worktrees
          Primary,     \* the id "main" of the main worktree
          Branches,
          Main,        \* the branch main
          NoBranch,    \* no HEAD file yet
          HasData,     \* is there a store in <main worktree>/data?
          MayCrash,    \* may a process die within a call?
          MaxCommits,  \* bound on the commits of a behaviour
          MaxCalls     \* bound on the calls of a behaviour

ASSUME WorktreeAssumptions ==
    /\ Primary \notin Linked
    /\ Main \in Branches /\ NoBranch \notin Branches
    /\ HasData \in BOOLEAN /\ MayCrash \in BOOLEAN
    /\ MaxCommits \in Nat /\ MaxCalls \in Nat

VARIABLES parents,   \* the commits in the order they were written, each with its parents
          refs,      \* refs/heads: a branch to a commit, 0 when there is none
          head,      \* the branch HEAD of the main worktree refers to
          dirs,      \* the directories below .git/worktrees
          gitdirs,   \* those that have a gitdir file
          heads,     \* the branch in the HEAD file of each
          lockFiles, \* worktrees with a lock file; index.lock for Primary
          known,     \* WorktreeManager::worktrees of each manager
          pc,        \* where each manager is in its call; idle or closed between calls
          call,      \* what the call of each manager is about
          asked,     \* history: worktrees the clients of a manager hold locked
          calls      \* number of calls so far

repository == <<parents, refs, head>>
admin == <<dirs, gitdirs, heads, lockFiles>>
vars == <<repository, admin, known, pc, call, asked, calls>>

Worktrees == Linked \cup {Primary}

Nothing == [w \in {} |-> [branch |-> Main, locked |-> FALSE]]

NoCall == [worktree |-> Primary, branch |-> Main, target |-> Main, flag |-> FALSE,
           legacy |-> FALSE, commit |-> 0]

Locked(m, w) == known[m][w].locked

Begin(m, step, what) ==
    /\ pc[m] = "idle"
    /\ calls < MaxCalls
    /\ calls' = calls + 1
    /\ pc' = [pc EXCEPT ![m] = step]
    /\ call' = [call EXCEPT ![m] = what]

Step(m, from, to) ==
    /\ pc[m] = from
    /\ pc' = [pc EXCEPT ![m] = to]
    /\ UNCHANGED <<call, calls>>

-----------------------------------------------------------------------------
(* new and discover_worktrees                                              *)

\* mutant: discovery finds the linked worktrees
DiscoverAll ==
    [w \in {Primary} \cup {x \in dirs : heads[x] # NoBranch} |->
       IF w = Primary THEN [branch |-> head, locked |-> FALSE]
       ELSE [branch |-> heads[w], locked |-> w \in lockFiles]]

(* The branch of a linked worktree is read from the directory that         *)
(* find_worktree_name finds in the map, where only Primary is so far: no   *)
(* linked worktree is ever entered.  index.lock is not looked at.          *)
Discovered ==
    LET found == {Primary} \cup {w \in dirs : w \in {Primary}}
    IN  [w \in found |->
           IF w = Primary THEN [branch |-> head, locked |-> FALSE]
           ELSE [branch |-> heads[w], locked |-> w \in lockFiles]]

(* A directory without its gitdir file makes new fail.                     *)
Open(m) ==
    /\ pc[m] = "closed"
    /\ dirs \subseteq gitdirs
    /\ pc' = [pc EXCEPT ![m] = "idle"]
    /\ known' = [known EXCEPT ![m] = Discovered]
    /\ UNCHANGED <<repository, admin, call, asked, calls>>

-----------------------------------------------------------------------------
(* add_worktree: the id is new, as it is random                            *)

Add(m, w, b, create) ==
    /\ w \notin dirs
    /\ Begin(m, "add_gitdir", [NoCall EXCEPT !.worktree = w, !.branch = b, !.flag = create])
    /\ dirs' = dirs \cup {w}
    /\ UNCHANGED <<repository, gitdirs, heads, lockFiles, known, asked>>

AddGitdir(m) ==
    /\ Step(m, "add_gitdir", "add_head")
    /\ gitdirs' = gitdirs \cup {call[m].worktree}
    /\ UNCHANGED <<repository, dirs, heads, lockFiles, known, asked>>

AddHead(m) ==
    /\ Step(m, "add_head", IF call[m].flag THEN "add_branch" ELSE "add_track")
    /\ heads' = [heads EXCEPT ![call[m].worktree] = call[m].branch]
    /\ UNCHANGED <<repository, dirs, gitdirs, lockFiles, known, asked>>

(* create_branch_in_worktree starts the branch at HEAD of the main         *)
(* worktree, whether or not there is such a branch already.                *)
AddBranch(m) ==
    /\ refs[head] # 0
    /\ Step(m, "add_branch", "add_track")
    /\ refs' = [refs EXCEPT ![call[m].branch] = refs[head]]
    /\ UNCHANGED <<parents, head, admin, known, asked>>

(* With an unborn HEAD it fails; what has been written stays.              *)
AddBranchFails(m) ==
    /\ refs[head] = 0
    /\ Step(m, "add_branch", "idle")
    /\ UNCHANGED <<repository, admin, known, asked>>

AddTrack(m) ==
    /\ Step(m, "add_track", "idle")
    /\ known' = [known EXCEPT ![m] =
                   [w \in DOMAIN @ \cup {call[m].worktree} |->
                      IF w = call[m].worktree THEN [branch |-> call[m].branch, locked |-> FALSE]
                      ELSE @[w]]]
    /\ UNCHANGED <<repository, admin, asked>>

-----------------------------------------------------------------------------
(* remove_worktree: memory, then the directory; a lock is no obstacle      *)

\* mutant: the main worktree can be removed
RemoveAny(m, w) ==
    /\ w \in DOMAIN known[m]
    /\ Begin(m, "remove_dir", [NoCall EXCEPT !.worktree = w])
    /\ known' = [known EXCEPT ![m] = [x \in DOMAIN @ \ {w} |-> @[x]]]
    /\ asked' = [asked EXCEPT ![m] = @ \ {w}]
    /\ UNCHANGED <<repository, admin>>

Remove(m, w) ==
    /\ w \in DOMAIN known[m] \cap Linked
    /\ Begin(m, "remove_dir", [NoCall EXCEPT !.worktree = w])
    /\ known' = [known EXCEPT ![m] = [x \in DOMAIN @ \ {w} |-> @[x]]]
    /\ asked' = [asked EXCEPT ![m] = @ \ {w}]
    /\ UNCHANGED <<repository, admin>>

RemoveDir(m) ==
    LET w == call[m].worktree
    IN  /\ Step(m, "remove_dir", "idle")
        /\ dirs' = dirs \ {w} /\ gitdirs' = gitdirs \ {w}
        /\ heads' = [heads EXCEPT ![w] = NoBranch]
        /\ lockFiles' = lockFiles \ {w}
        /\ UNCHANGED <<repository, known, asked>>

-----------------------------------------------------------------------------
(* lock_worktree and unlock_worktree                                       *)

SetLocked(m, w, value) == known' = [known EXCEPT ![m][w].locked = value]

(* Only the manager's own map is asked whether there is a lock; the file   *)
(* is written over one that exists.                                        *)
WriteLock(m, w) ==
    /\ lockFiles' = lockFiles \cup {w}
    /\ SetLocked(m, w, TRUE)
    /\ UNCHANGED <<dirs, gitdirs, heads>>

(* The lock is forgotten only if its file could be removed.                *)
RemoveLock(m, w) ==
    \/ /\ Locked(m, w) /\ w \in lockFiles
       /\ lockFiles' = lockFiles \ {w}
       /\ SetLocked(m, w, FALSE)
       /\ UNCHANGED <<dirs, gitdirs, heads>>
    \/ ~(Locked(m, w) /\ w \in lockFiles) /\ UNCHANGED <<admin, known>>

Lock(m, w) ==
    /\ w \in DOMAIN known[m] /\ ~Locked(m, w)
    /\ Begin(m, "idle", NoCall)
    /\ WriteLock(m, w)
    /\ asked' = [asked EXCEPT ![m] = @ \cup {w}]
    /\ UNCHANGED repository

Unlock(m, w) ==
    /\ w \in DOMAIN known[m] /\ Locked(m, w)
    /\ Begin(m, "idle", NoCall)
    /\ RemoveLock(m, w)
    /\ asked' = IF known'[m][w].locked THEN asked ELSE [asked EXCEPT ![m] = @ \ {w}]
    /\ UNCHANGED repository

-----------------------------------------------------------------------------
(* Commits and merges of a store in the main worktree                      *)

Ancestors(ps, c) ==
    LET anc[d \in 0..Len(ps)] ==
          IF d = 0 THEN {} ELSE {d} \cup UNION {anc[p] : p \in ps[d]}
    IN  anc[c]

ParentsOfNew(b) == {refs[b]} \ {0}

(* Room for n commits besides those of the merges that are under way.      *)
Room(n) ==
    Len(parents) + n + 2 * Cardinality({m \in Managers : pc[m] = "merge_store"}) <= MaxCommits

(* The n commits that follow one another on branch b.                      *)
CommitOn(b, n) ==
    /\ parents' = parents \o [i \in 1..n |-> IF i = 1 THEN ParentsOfNew(b)
                                             ELSE {Len(parents) + i - 1}]
    /\ refs' = [refs EXCEPT ![b] = Len(parents) + n]

(* checkout of the target, unless it is current already                    *)
Switched(t) == IF refs[t] # 0 THEN t ELSE head

(* merge needs both branches and a common ancestor, and its git add fails  *)
(* while index.lock exists.                                                *)
CanMerge(s, t) ==
    /\ refs[s] # 0 /\ refs[t] # 0
    /\ Ancestors(parents, refs[s]) \cap Ancestors(parents, refs[t]) # {}
    /\ Primary \notin lockFiles

(* merge and, where there is one, the commit after it; the merge commit    *)
(* has one parent.  HEAD stays on the target, failed or not.               *)
StoreMerge(s, t, n) ==
    /\ head' = Switched(t)
    /\ \/ CanMerge(s, t) /\ CommitOn(t, n)
       \/ ~CanMerge(s, t) /\ UNCHANGED <<parents, refs>>

(* Some process commits with the store, makes a branch or switches to one. *)
StoreCommit ==
    /\ Room(1)
    /\ calls < MaxCalls /\ calls' = calls + 1
    /\ CommitOn(head, 1)
    /\ UNCHANGED <<head, admin, known, pc, call, asked>>

StoreBranch(b) ==
    /\ calls < MaxCalls /\ calls' = calls + 1
    /\ refs[head] # 0 /\ refs[b] = 0
    /\ refs' = [refs EXCEPT ![b] = refs[head]]
    /\ UNCHANGED <<parents, head, admin, known, pc, call, asked>>

StoreCheckout(b) ==
    /\ calls < MaxCalls /\ calls' = calls + 1
    /\ refs[b] # 0 /\ head # b
    /\ head' = b
    /\ UNCHANGED <<parents, refs, admin, known, pc, call, asked>>

-----------------------------------------------------------------------------
(* The merges of the manager: lock the source, merge, unlock               *)

(* All of them take the lock unless they find it taken.                    *)
Merge(m, w, t, legacy) ==
    /\ w \in DOMAIN known[m]
    /\ Room(2)
    /\ Begin(m, "merge_store", [NoCall EXCEPT !.worktree = w, !.branch = known[m][w].branch,
                                              !.target = t, !.flag = ~Locked(m, w),
                                              !.legacy = legacy])
    /\ \/ ~Locked(m, w) /\ WriteLock(m, w)
       \/ Locked(m, w) /\ UNCHANGED <<admin, known>>
    /\ UNCHANGED <<repository, asked>>

(* merge_to_main turns the main worktree away, and not its branch.         *)
MergeToMain(m, w) == w # Primary /\ Merge(m, w, Main, TRUE)

MergeBranch(m, w, t) ==
    /\ w \in DOMAIN known[m] /\ known[m][w].branch # t
    /\ Merge(m, w, t, TRUE)

(* The calls with a store have one for the main worktree only, as Git does *)
(* not open a linked worktree, whose directory has no commondir file.      *)
MergeWithStore(m, t) ==
    /\ pc[m] = "idle" /\ known[m][Primary].branch # t
    /\ Merge(m, Primary, t, FALSE)

HasStore(m) == HasData \/ ~call[m].legacy

(* attempt_versioned_merge, perform_versioned_merge and its variant        *)
MergeStore(m) ==
    /\ HasStore(m)
    /\ CanMerge(call[m].branch, call[m].target)
    /\ Step(m, "merge_store", "merge_unlock")
    /\ StoreMerge(call[m].branch, call[m].target, 2)
    /\ UNCHANGED <<admin, known, asked>>

(* The resolver of merge_branch_with_resolver may leave conflicts.         *)
MayFail(m) ==
    HasStore(m) /\ CanMerge(call[m].branch, call[m].target) => ~call[m].legacy

\* mutant: a failed merge with a store returns before it unlocks
MergeStoreFailsEarly(m) ==
    /\ MayFail(m)
    /\ Step(m, "merge_store", IF call[m].legacy THEN "merge_read" ELSE "idle")
    /\ head' = IF HasStore(m) THEN Switched(call[m].target) ELSE head
    /\ UNCHANGED <<parents, refs, admin, known, asked>>

(* A failure of any kind sends the legacy calls to the refs.               *)
MergeStoreFails(m) ==
    /\ MayFail(m)
    /\ Step(m, "merge_store", IF call[m].legacy THEN "merge_read" ELSE "merge_unlock")
    /\ head' = IF HasStore(m) THEN Switched(call[m].target) ELSE head
    /\ UNCHANGED <<parents, refs, admin, known, asked>>

(* The fallback reads both refs; it ends here if one is missing or they    *)
(* are equal.                                                              *)
MergeRead(m) ==
    LET s == refs[call[m].branch]
        t == refs[call[m].target]
    IN  /\ pc[m] = "merge_read"
        /\ pc' = [pc EXCEPT ![m] = IF s = 0 \/ t = 0 \/ s = t THEN "merge_unlock"
                                   ELSE "merge_write"]
        /\ call' = [call EXCEPT ![m].commit = s]
        /\ UNCHANGED <<repository, admin, known, asked, calls>>

(* can_fast_forward says yes whenever the commits differ.                  *)
MergeWrite(m) ==
    /\ Step(m, "merge_write", "merge_unlock")
    /\ refs' = [refs EXCEPT ![call[m].target] = call[m].commit]
    /\ UNCHANGED <<parents, head, admin, known, asked>>

\* mutant: a merge that did not lock unlocks
MergeUnlockAlways(m) ==
    /\ Step(m, "merge_unlock", "idle")
    /\ RemoveLock(m, call[m].worktree)
    /\ UNCHANGED <<repository, asked>>

MergeUnlock(m) ==
    /\ Step(m, "merge_unlock", "idle")
    /\ \/ call[m].flag /\ RemoveLock(m, call[m].worktree)
       \/ ~call[m].flag /\ UNCHANGED <<admin, known>>
    /\ UNCHANGED <<repository, asked>>

(* merge_to_main, merge_to_branch, merge_to_branch_with_resolver and       *)
(* try_merge_to_main of WorktreeVersionedKvStore take no lock; the last    *)
(* one commits once.                                                       *)
WorktreeMerge(m, t, n) ==
    /\ pc[m] = "idle" /\ (known[m][Primary].branch # t \/ t = Main)
    /\ Room(n)
    /\ Begin(m, "idle", NoCall)
    /\ StoreMerge(known[m][Primary].branch, t, n)
    /\ UNCHANGED <<admin, known, asked>>

-----------------------------------------------------------------------------

Close(m) ==
    /\ pc[m] # "closed" /\ (pc[m] # "idle" => MayCrash)
    /\ pc' = [pc EXCEPT ![m] = "closed"]
    /\ known' = [known EXCEPT ![m] = Nothing]
    /\ asked' = [asked EXCEPT ![m] = {}]
    /\ call' = [call EXCEPT ![m] = NoCall]
    /\ UNCHANGED <<repository, admin, calls>>

(* A new repository, or one with a first commit on main.                   *)
Init ==
    /\ parents \in {<<>>, << {} >>}
    /\ refs = [b \in Branches |-> IF b = Main THEN Len(parents) ELSE 0]
    /\ head = Main
    /\ dirs = {} /\ gitdirs = {} /\ lockFiles = {}
    /\ heads = [w \in Linked |-> NoBranch]
    /\ known = [m \in Managers |-> Nothing]
    /\ pc = [m \in Managers |-> "closed"]
    /\ call = [m \in Managers |-> NoCall]
    /\ asked = [m \in Managers |-> {}]
    /\ calls = 0

(* A call that has begun goes on.                                          *)
Continue(m) ==
    \/ AddGitdir(m) \/ AddHead(m) \/ AddBranch(m) \/ AddBranchFails(m) \/ AddTrack(m)
    \/ RemoveDir(m)
    \/ MergeStore(m) \/ MergeStoreFails(m) \/ MergeRead(m) \/ MergeWrite(m) \/ MergeUnlock(m)

BeginCall(m) ==
    \/ Open(m)
    \/ \E w \in Linked, b \in Branches, create \in BOOLEAN : Add(m, w, b, create)
    \/ \E w \in Worktrees : Remove(m, w) \/ Lock(m, w) \/ Unlock(m, w)
    \/ \E w \in Worktrees : MergeToMain(m, w) \/ \E t \in Branches : MergeBranch(m, w, t)
    \/ \E t \in Branches : MergeWithStore(m, t)
    \/ \E t \in Branches, n \in {1, 2} : WorktreeMerge(m, t, n)

Next ==
    \/ \E m \in Managers : BeginCall(m) \/ Continue(m) \/ Close(m)
    \/ StoreCommit
    \/ \E b \in Branches : StoreBranch(b) \/ StoreCheckout(b)

Spec == Init /\ [][Next]_vars

FairSpec == Spec /\ \A m \in Managers : WF_vars(Continue(m))

-----------------------------------------------------------------------------
(* Properties                                                              *)

Steps == {"idle", "closed", "add_gitdir", "add_head", "add_branch", "add_track", "remove_dir",
          "merge_store", "merge_read", "merge_write", "merge_unlock"}

Entries == [branch : Branches, locked : BOOLEAN]

Maps == UNION {[S -> Entries] : S \in SUBSET Worktrees}

Calls == [worktree : Worktrees, branch : Branches, target : Branches, flag : BOOLEAN,
          legacy : BOOLEAN, commit : 0..Len(parents)]

(***************************************************************************)
(* Type invariant.  Refs and parents lead to commits written earlier, and  *)
(* a manager that is open knows the main worktree.                         *)
(***************************************************************************)
RepositoryOK ==
    /\ parents \in Seq(SUBSET Nat)
    /\ \A c \in 1..Len(parents) : parents[c] \subseteq 1..(c - 1)
    /\ refs \in [Branches -> 0..Len(parents)]
    /\ head \in Branches

TypeOK ==
    /\ RepositoryOK
    /\ dirs \subseteq Linked /\ gitdirs \subseteq dirs
    /\ heads \in [Linked -> Branches \cup {NoBranch}]
    /\ lockFiles \subseteq Worktrees
    /\ known \in [Managers -> Maps]
    /\ \A m \in Managers : pc[m] # "closed" => Primary \in DOMAIN known[m]
    /\ pc \in [Managers -> Steps]
    /\ call \in [Managers -> Calls]
    /\ asked \in [Managers -> SUBSET Worktrees]
    /\ calls \in Nat

(***************************************************************************)
(* What a manager knows of a linked worktree is what is on disk: the       *)
(* directory is complete, its HEAD names the branch, and the lock flag in  *)
(* memory is the lock file, whatever other managers add, remove and lock   *)
(* and wherever a process died (add_worktree, remove_worktree, lock,       *)
(* unlock, merges, discover_worktrees).                                    *)
(***************************************************************************)
KnownMatchesDisk ==
    \A m \in Managers : \A w \in DOMAIN known[m] \cap Linked :
      /\ w \in dirs /\ w \in gitdirs
      /\ heads[w] = known[m][w].branch
      /\ Locked(m, w) <=> w \in lockFiles

(***************************************************************************)
(* Between two calls a linked worktree is locked exactly if a client has   *)
(* locked it: a merge gives back the lock it took, on all its ways out,    *)
(* and keeps the one it found ("Unlock if we locked it").                  *)
(***************************************************************************)
MergeReturnsLock ==
    \A m \in Managers : pc[m] = "idle" =>
      \A w \in DOMAIN known[m] \cap Linked : Locked(m, w) <=> w \in asked[m]

(***************************************************************************)
(* A merge that locked its source, the main worktree included, gives the   *)
(* lock back however the merge goes, unless its process dies: a lock that  *)
(* stays makes git add fail from then on.                                  *)
(***************************************************************************)
MergeLocksEnd ==
    \A m \in Managers : \A w \in Worktrees :
      pc[m] = "merge_store" /\ call[m].flag /\ call[m].worktree = w
        ~> w \notin lockFiles \/ pc[m] = "closed"
=============================================================================

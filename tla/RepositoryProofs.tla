-------------------------- MODULE RepositoryProofs --------------------------
(***************************************************************************)
(* Theorems about several processes on one repository, for any sets of     *)
(* keys, values, branches and processes and any backend.                   *)
(*                                                                         *)
(* The argument is what a process may rely on that nobody has overtaken:   *)
(* its branch is HEAD's and its tree the content of HEAD's commit, so that *)
(* its next commit, its reverts and the histories it reads are about that  *)
(* commit.                                                                 *)
(***************************************************************************)
EXTENDS Repository, Integers, FiniteSetTheorems, WellFoundedInduction, TLAPS

(***************************************************************************)
(* Every set of naturals that is not empty has a least element.            *)
(***************************************************************************)
LEMMA LeastNat ==
    ASSUME NEW S \in SUBSET Nat, S # {}
    PROVE  \E n \in S : \A m \in S : n <= m
<1>1. PICK R : IsWellFoundedOn(R, Nat) /\ \A m, n \in Nat : m < n => <<m, n>> \in R
  <2>1. \A m, n \in Nat : m < n => <<m, n>> \in OpToRel(<, Nat)
    BY DEF OpToRel
  <2> QED BY <2>1, NatLessThanWellFounded, Zenon
<1>2. \E n \in S : \A m \in S : ~(<<m, n>> \in R)
  <2>1. IsWellFoundedOn(R, Nat) /\ S \subseteq Nat
    BY <1>1
  <2> QED BY <2>1, WFMin, Zenon
<1>3. PICK n \in S : \A m \in S : ~(<<m, n>> \in R)
  BY <1>2
<1>4. \A m \in S : ~(m < n)
  BY <1>1, <1>3
<1> QED BY <1>4

(***************************************************************************)
(* A set that has every natural whose predecessors it has has them all.    *)
(***************************************************************************)
LEMMA CourseOfValues ==
    ASSUME NEW S, \A n \in Nat : 0..(n - 1) \subseteq S => n \in S
    PROVE  Nat \subseteq S
<1> SUFFICES ASSUME Nat \ S # {} PROVE FALSE
  OBVIOUS
<1>1. PICK n \in Nat \ S : \A m \in Nat \ S : n <= m
  <2>1. (Nat \ S) \in SUBSET Nat
    OBVIOUS
  <2> QED BY <2>1, LeastNat
<1>2. 0..(n - 1) \subseteq S
  BY <1>1
<1> QED BY <1>1, <1>2

Memory == [state : {"closed", "open", "sql"}, tree : Trees, staging : Areas,
           branch : Branches, stored : SUBSET Trees, back : Branches]

(* Main and the branch sql -b is to go back to have a commit.              *)
BackIsBorn == refs[Main] # 0 /\ \A p \in Processes : refs[proc[p].back] # 0

(* A process that is not out of date has HEAD's branch and, unless it is   *)
(* empty, the content of HEAD's commit; in memory, its nodes too.          *)
FreshIsHead ==
    \A p \in Processes : proc[p].state # "closed" /\ p \notin stale =>
      /\ proc[p].branch = head
      /\ MapOf(HeadCommit) # EmptyTree => proc[p].tree = MapOf(HeadCommit)

MemoryHasHead ==
    \A p \in Processes : backend = "memory" /\ proc[p].state = "open" /\ p \notin stale =>
      MapOf(HeadCommit) \in proc[p].stored

IInv == TypeOK /\ BackIsBorn /\ DiskIsHead /\ FreshIsHead /\ MemoryHasHead

-----------------------------------------------------------------------------
(* Types of what the calls are made of                                     *)

LEMMA EmptyTyped == EmptyTree \in Trees /\ EmptyArea \in Areas
BY DEF EmptyTree, EmptyArea, Trees, Areas, Sides

LEMMA OverrideTyped ==
    ASSUME NEW t \in Trees, NEW a \in Areas
    PROVE  Override(t, a) \in Trees
BY DEF Override, Trees, Areas

LEMMA CommitTyped ==
    ASSUME TypeOK
    PROVE  /\ Len(commits) \in Nat /\ HeadCommit \in 1..Len(commits)
           /\ \A c \in 1..Len(commits) : /\ commits[c].map \in Trees
                                         /\ commits[c].parent \in 0..(c - 1)
                                         /\ commits[c].parent \in 0..Len(commits)
<1> DEFINE C == [parent : Nat, map : Trees]
<1>1. commits \in Seq(C)
  BY DEF TypeOK
<1> HIDE DEF C
<1>2. Len(commits) \in Nat
  BY <1>1
<1>3. HeadCommit \in 1..Len(commits)
  BY <1>2 DEF HeadCommit, TypeOK
<1>4. ASSUME NEW c \in 1..Len(commits)
      PROVE  /\ commits[c].map \in Trees /\ commits[c].parent \in 0..(c - 1)
             /\ commits[c].parent \in 0..Len(commits)
  <2>1. commits[c] \in C
    BY <1>1
  <2>2. commits[c].map \in Trees /\ commits[c].parent \in Nat
    BY <2>1 DEF C
  <2>3. commits[c].parent < c
    BY DEF TypeOK
  <2> QED BY <1>2, <2>2, <2>3
<1> QED BY <1>2, <1>3, <1>4

LEMMA MapTyped ==
    ASSUME TypeOK, NEW c \in 0..Len(commits)
    PROVE  MapOf(c) \in Trees
<1>1. CASE c = 0
  BY <1>1, EmptyTyped DEF MapOf
<1>2. CASE c # 0
  BY <1>2, CommitTyped DEF MapOf
<1> QED BY <1>1, <1>2

LEMMA ProcessTyped ==
    ASSUME TypeOK, NEW p \in Processes
    PROVE  /\ proc[p] \in Memory /\ Shown(p) \in Trees
           /\ proc[p].tree \in Trees /\ proc[p].staging \in Areas /\ proc[p].branch \in Branches
           /\ proc[p].stored \subseteq Trees /\ proc[p].back \in Branches
<1>1. proc[p] \in Memory
  BY DEF TypeOK, Memory
<1> QED BY <1>1, OverrideTyped DEF Memory, Shown

LEMMA NoProcessTyped == NoProcess \in Memory
BY EmptyTyped, RepositoryAssumptions DEF RepositoryAssumptions, NoProcess, Memory

-----------------------------------------------------------------------------
(* The kinds of steps                                                      *)

(* One process changes in memory, its tree, branch and nodes do not.       *)
LEMMA StagingKeeps ==
    ASSUME IInv, NEW p \in Processes, NEW a \in Areas, NEW file \in Areas,
           proc' = [proc EXCEPT ![p].staging = a], stagingFile' = file,
           UNCHANGED <<backend, commits, refs, head, diskTree, stale>>
    PROVE  IInv'
<1>1. /\ proc'[p] = [proc[p] EXCEPT !.staging = a] /\ proc[p] \in Memory
      /\ \A q \in Processes \ {p} : proc'[q] = proc[q]
  BY ProcessTyped DEF IInv, TypeOK
<1>2. /\ proc' \in [Processes -> Memory]
      /\ \A q \in Processes : /\ proc'[q].state = proc[q].state /\ proc'[q].tree = proc[q].tree
                              /\ proc'[q].branch = proc[q].branch
                              /\ proc'[q].stored = proc[q].stored /\ proc'[q].back = proc[q].back
  <2>1. [proc[p] EXCEPT !.staging = a] \in Memory
    BY <1>1 DEF Memory
  <2>2. proc' \in [Processes -> Memory]
    BY <2>1 DEF IInv, TypeOK, Memory
  <2> QED BY <1>1, <2>2 DEF Memory
<1>3. TypeOK'
  BY <1>2 DEF IInv, TypeOK, Memory
<1>4. BackIsBorn' /\ DiskIsHead' /\ FreshIsHead' /\ MemoryHasHead'
  BY <1>2 DEF IInv, BackIsBorn, DiskIsHead, FreshIsHead, MemoryHasHead, MapOf, HeadCommit
<1> QED BY <1>3, <1>4 DEF IInv

(* A process p in another state, its branch HEAD's and its tree that of    *)
(* HEAD's commit; where the repository has changed the others are stale.   *)
LEMMA RepositoryStep ==
    ASSUME IInv, NEW p \in Processes, UNCHANGED backend,
           TypeOK', refs'[proc'[p].back] # 0,
           \A b \in Branches : refs[b] # 0 => refs'[b] # 0,
           \A q \in Processes \ {p} : proc'[q] = proc[q],
           DiskIsHead',
           proc'[p].state # "closed" /\ p \notin stale' =>
             /\ proc'[p].branch = head'
             /\ MapOf(HeadCommit)' # EmptyTree => proc'[p].tree = MapOf(HeadCommit)'
             /\ backend = "memory" /\ proc'[p].state = "open" =>
                  MapOf(HeadCommit)' \in proc'[p].stored,
           \A q \in Processes \ {p} : proc[q].state # "closed" =>
             \/ q \in stale'
             \/ head' = head /\ MapOf(HeadCommit)' = MapOf(HeadCommit) /\ (q \in stale' <=> q \in stale)
    PROVE  IInv'
<1>1. BackIsBorn'
  BY ProcessTyped, RepositoryAssumptions DEF RepositoryAssumptions, IInv, BackIsBorn
<1>2. FreshIsHead'
  BY DEF IInv, FreshIsHead, EmptyTree
<1>3. MemoryHasHead'
  BY DEF IInv, MemoryHasHead
<1> QED BY <1>1, <1>2, <1>3 DEF IInv

(* A new commit on b, and what process p makes of it                       *)
LEMMA NewCommit ==
    ASSUME IInv, NEW b \in Branches, NEW map \in Trees,
           commits' = Append(commits, [parent |-> HeadCommit, map |-> map]), MoveBranch(b)
    PROVE  /\ commits' \in Seq([parent : Nat, map : Trees]) /\ Len(commits') = Len(commits) + 1
           /\ commits'[Len(commits)'] = [parent |-> HeadCommit, map |-> map]
           /\ \A c \in 1..Len(commits) : commits'[c] = commits[c]
           /\ \A c \in 1..Len(commits') : commits'[c].parent < c
           /\ refs' \in [Branches -> 0..Len(commits')] /\ refs'[b] = Len(commits')
           /\ \A a \in Branches : refs[a] # 0 => refs'[a] # 0
           /\ head' = b /\ HeadCommit' = Len(commits') /\ MapOf(HeadCommit)' = map
<1> DEFINE l == Len(commits)
           new == [parent |-> HeadCommit, map |-> map]
<1>1. /\ commits \in Seq([parent : Nat, map : Trees]) /\ l \in Nat /\ HeadCommit \in 1..l
      /\ refs \in [Branches -> 0..l]
  BY DEF IInv, TypeOK, HeadCommit
<1>2. new \in [parent : Nat, map : Trees] /\ new.parent < l + 1 /\ new.map = map
  BY <1>1
<1>3. commits' = Append(commits, new) /\ refs' = [refs EXCEPT ![b] = l + 1] /\ head' = b
  BY DEF MoveBranch
<1> HIDE DEF new
<1>4. /\ commits' \in Seq([parent : Nat, map : Trees]) /\ Len(commits') = l + 1
      /\ commits'[l + 1] = new /\ \A c \in 1..l : commits'[c] = commits[c]
  BY <1>1, <1>2, <1>3
<1>5. \A c \in 1..Len(commits') : commits'[c].parent < c
  <2>1. \A c \in 1..l : commits[c].parent < c
    BY DEF IInv, TypeOK
  <2>2. l \in Nat
    BY <1>1
  <2> HIDE DEF l
  <2>3. \A c \in 1..(l + 1) : c \in 1..l \/ c = l + 1
    BY <2>2
  <2> QED BY <1>2, <1>4, <2>1, <2>3 DEF l
<1>6. /\ refs' \in [Branches -> 0..Len(commits')] /\ refs'[b] = l + 1
      /\ \A a \in Branches : refs[a] # 0 => refs'[a] # 0
  BY <1>1, <1>3, <1>4
<1>7. HeadCommit' = l + 1 /\ MapOf(HeadCommit)' = map
  BY <1>1, <1>2, <1>3, <1>4, <1>6 DEF HeadCommit, MapOf
<1> QED BY <1>3, <1>4, <1>5, <1>6, <1>7 DEF new

LEMMA NewCommitKeeps ==
    ASSUME IInv, NEW p \in Processes, NEW b \in Branches, NEW map \in Trees,
           commits' = Append(commits, [parent |-> HeadCommit, map |-> map]), MoveBranch(b),
           diskTree' = map, stagingFile' = EmptyArea, UNCHANGED backend,
           proc' \in [Processes -> Memory], proc'[p].back = proc[p].back,
           proc'[p].state # "closed" =>
             proc'[p].tree = map /\ proc'[p].branch = b /\ map \in proc'[p].stored,
           \A q \in Processes \ {p} : proc'[q] = proc[q],
           stale' \subseteq {q \in Processes : proc'[q].state # "closed"},
           \A q \in Processes \ {p} : proc[q].state # "closed" => q \in stale'
    PROVE  IInv'
<1>1. TypeOK'
  <2>1. refs'[head'] # 0 /\ head' \in Branches
    BY NewCommit, CommitTyped DEF IInv
  <2> QED BY <2>1, NewCommit, EmptyTyped DEF IInv, TypeOK, Memory
<1>2. DiskIsHead'
  BY NewCommit DEF DiskIsHead
<1>3. refs'[proc'[p].back] # 0
  BY NewCommit, ProcessTyped DEF IInv, BackIsBorn
<1>4. /\ \A a \in Branches : refs[a] # 0 => refs'[a] # 0
      /\ head' = b /\ MapOf(HeadCommit)' = map
  BY NewCommit
<1> QED BY <1>1, <1>2, <1>3, <1>4, RepositoryStep

LEMMA CommittedKeeps ==
    ASSUME IInv, NEW p \in Processes, NEW b \in Branches, NEW map \in Trees,
           Committed(p, b, map), UNCHANGED backend,
           stale' \subseteq {q \in Processes : proc[q].state # "closed" \/ q = p},
           \A q \in Processes \ {p} : proc[q].state # "closed" => q \in stale'
    PROVE  IInv'
<1> DEFINE me == [proc[p] EXCEPT !.state = "open", !.tree = map, !.staging = EmptyArea,
                                 !.branch = b, !.stored = @ \cup {map}]
<1>1. proc[p] \in Memory
  BY ProcessTyped DEF IInv
<1>2. /\ me \in Memory /\ me.state = "open" /\ me.tree = map /\ me.branch = b
      /\ map \in me.stored /\ me.back = proc[p].back
  BY <1>1, EmptyTyped DEF Memory
<1>3. proc \in [Processes -> Memory]
  BY DEF IInv, TypeOK, Memory
<1>4. proc' = [proc EXCEPT ![p] = me]
  BY DEF Committed
<1> HIDE DEF me
<1>5. /\ proc' \in [Processes -> Memory] /\ proc'[p] = me
      /\ \A q \in Processes \ {p} : proc'[q] = proc[q]
  BY <1>2, <1>3, <1>4
<1>6. stale' \subseteq {q \in Processes : proc'[q].state # "closed"}
  BY <1>2, <1>5
<1> QED BY <1>2, <1>5, <1>6, NewCommitKeeps DEF Committed

(* HEAD goes to a branch with a commit; the saved tree follows.            *)
LEMMA SwitchedKeeps ==
    ASSUME IInv, NEW p \in Processes, NEW b \in Branches, NEW me \in Memory, NEW file \in Areas,
           refs[b] # 0, head' = b, stagingFile' = file,
           diskTree' = IF MapOf(refs[b]) = EmptyTree THEN diskTree ELSE MapOf(refs[b]),
           proc' = [proc EXCEPT ![p] = me], Overtakes(p), UNCHANGED <<backend, commits, refs>>,
           refs[me.back] # 0, me.state # "closed" => me.branch = b /\ me.tree = MapOf(refs[b]),
           backend = "memory" => me.state # "open"
    PROVE  IInv'
<1>1. /\ proc' \in [Processes -> Memory] /\ proc'[p] = me
      /\ \A q \in Processes \ {p} : proc'[q] = proc[q]
  BY DEF IInv, TypeOK, Memory
<1>2. HeadCommit' = refs[b] /\ MapOf(HeadCommit)' = MapOf(refs[b])
  BY DEF HeadCommit, MapOf, EmptyTree
<1>3. MapOf(refs[b]) \in Trees
  BY MapTyped DEF IInv, TypeOK
<1>4. /\ stale' \subseteq {q \in Processes : proc'[q].state # "closed"} /\ p \notin stale'
      /\ \A q \in Processes \ {p} : proc[q].state # "closed" => q \in stale'
  BY <1>1 DEF IInv, TypeOK, Overtakes
<1>5. TypeOK'
  BY <1>1, <1>3, <1>4 DEF IInv, TypeOK, Memory
<1>6. DiskIsHead'
  BY <1>2 DEF DiskIsHead, EmptyTree
<1> QED BY <1>1, <1>2, <1>4, <1>5, <1>6, RepositoryStep

(* p ends, or opens the store and changes nothing.                         *)
LEMMA SavedKeeps ==
    ASSUME IInv, NEW p \in Processes, NEW me \in Memory,
           proc' = [proc EXCEPT ![p] = me], stale' = stale \ {p},
           UNCHANGED <<backend, disk>>, refs[me.back] # 0,
           me.state # "closed" => me.branch = head /\ me.tree = diskTree,
           backend = "memory" => me.state # "open"
    PROVE  IInv'
<1>1. /\ proc' \in [Processes -> Memory] /\ proc'[p] = me
      /\ \A q \in Processes \ {p} : proc'[q] = proc[q]
  BY DEF IInv, TypeOK, Memory
<1>2. HeadCommit' = HeadCommit /\ MapOf(HeadCommit)' = MapOf(HeadCommit)
  BY DEF HeadCommit, MapOf, EmptyTree, disk
<1>3. stale' \subseteq {q \in Processes : proc'[q].state # "closed"}
  BY <1>1 DEF IInv, TypeOK
<1>4. TypeOK'
  BY <1>1, <1>3 DEF IInv, TypeOK, Memory, disk
<1>5. DiskIsHead'
  BY <1>2 DEF IInv, DiskIsHead, disk
<1> QED BY <1>1, <1>2, <1>3, <1>4, <1>5, RepositoryStep DEF IInv, DiskIsHead, disk, EmptyTree

-----------------------------------------------------------------------------
(* The actions                                                             *)

LEMMA StageKeeps ==
    ASSUME IInv, NEW p \in Processes, NEW k \in Keys, NEW side \in Sides, Stage(p, k, side),
           UNCHANGED backend
    PROVE  IInv'
<1> DEFINE a == [proc[p].staging EXCEPT ![k] = side]
<1>1. proc[p] \in Memory /\ proc[p].staging \in Areas
  BY ProcessTyped DEF IInv
<1>2. a \in Areas
  BY <1>1 DEF Areas
<1>3. proc' = [proc EXCEPT ![p].staging = a]
  BY DEF Stage
<1>4. proc'[p].staging = a
  BY <1>1, <1>3 DEF IInv, TypeOK, Memory
<1> HIDE DEF a
<1> QED BY <1>2, <1>3, <1>4, StagingKeeps DEF Stage

LEMMA InsertKeeps ==
    ASSUME IInv, NEW p \in Processes, NEW k \in Keys,
           (\E v \in Values : Insert(p, k, v)) \/ Delete(p, k)
    PROVE  IInv'
BY StageKeeps DEF Insert, Delete, Called, Sides

LEMMA CommitKeeps ==
    ASSUME IInv, NEW p \in Processes, Commit(p)
    PROVE  IInv'
<1>1. proc[p].branch \in Branches /\ Shown(p) \in Trees
  BY ProcessTyped DEF IInv
<1>2. /\ stale' \subseteq {q \in Processes : proc[q].state # "closed" \/ q = p}
      /\ \A q \in Processes \ {p} : proc[q].state # "closed" => q \in stale'
  BY DEF Commit, IInv, TypeOK
<1> QED BY <1>1, <1>2, CommittedKeeps DEF Commit, Called

LEMMA UndoneTyped ==
    ASSUME TypeOK, NEW p \in Processes, NEW c \in 1..Len(commits)
    PROVE  /\ Before(p, c) \in Trees /\ StateAt(p, c) \in Trees
           /\ Override(proc[p].tree, Undone(p, c)) \in Trees
<1>1. Before(p, c) \in Trees /\ StateAt(p, c) \in Trees
  <2>1. commits[c].parent \in 0..Len(commits)
    BY CommitTyped
  <2> QED BY <2>1, EmptyTyped, MapTyped, ProcessTyped DEF Before, StateAt
<1>2. Undone(p, c) \in Areas
  BY <1>1, ProcessTyped DEF Undone, Areas, Trees
<1> QED BY <1>1, <1>2, OverrideTyped, ProcessTyped

LEMMA RevertKeeps ==
    ASSUME IInv, NEW p \in Processes, NEW c \in 1..Len(commits), Revert(p, c)
    PROVE  IInv'
<1>1. proc[p].branch \in Branches /\ Override(proc[p].tree, Undone(p, c)) \in Trees
  BY ProcessTyped, UndoneTyped DEF IInv
<1>2. /\ stale' \subseteq {q \in Processes : proc[q].state # "closed" \/ q = p}
      /\ \A q \in Processes \ {p} : proc[q].state # "closed" => q \in stale'
  BY DEF Revert, IInv, TypeOK
<1> QED BY <1>1, <1>2, CommittedKeeps DEF Revert, Called

LEMMA CreateBranchKeeps ==
    ASSUME IInv, NEW p \in Processes, NEW b \in Branches, CreateBranch(p, b)
    PROVE  IInv'
<1> DEFINE me == [proc[p] EXCEPT !.staging = EmptyArea, !.branch = b]
<1>1. proc[p] \in Memory /\ proc \in [Processes -> Memory]
  BY ProcessTyped DEF IInv, TypeOK, Memory
<1>2. /\ me \in Memory /\ me.state = "open" /\ me.tree = proc[p].tree /\ me.branch = b
      /\ me.stored = proc[p].stored /\ me.back = proc[p].back
  BY <1>1, EmptyTyped DEF Memory, CreateBranch
<1>3. proc' = [proc EXCEPT ![p] = me]
  BY <1>1 DEF CreateBranch, Memory
<1> HIDE DEF me
<1>4. /\ proc' \in [Processes -> Memory] /\ proc'[p] = me
      /\ \A q \in Processes \ {p} : proc'[q] = proc[q]
  BY <1>1, <1>2, <1>3
<1>5. /\ refs' = [refs EXCEPT ![b] = HeadCommit] /\ head' = b /\ HeadCommit' = HeadCommit
      /\ HeadCommit \in 1..Len(commits) /\ UNCHANGED <<backend, commits, diskTree>>
  BY DEF CreateBranch, Called, HeadCommit, IInv, TypeOK
<1>6. MapOf(HeadCommit)' = MapOf(HeadCommit)
  BY <1>5 DEF MapOf, EmptyTree
<1>7. /\ stale' \subseteq {q \in Processes : proc'[q].state # "closed"}
      /\ \A q \in Processes \ {p} : proc[q].state # "closed" => q \in stale'
      /\ p \in stale => p \in stale'
  BY <1>2, <1>4 DEF CreateBranch, IInv, TypeOK
<1>8. TypeOK'
  <2>1. refs' \in [Branches -> 0..Len(commits)] /\ refs'[head'] # 0
    BY <1>5 DEF IInv, TypeOK
  <2> QED BY <1>4, <1>5, <1>7, <2>1, EmptyTyped DEF IInv, TypeOK, Memory, CreateBranch
<1>9. \A a \in Branches : refs[a] # 0 => refs'[a] # 0
  BY <1>5 DEF IInv, TypeOK
<1>10. DiskIsHead'
  BY <1>5, <1>6 DEF DiskIsHead, IInv, EmptyTree
<1>11. refs'[proc'[p].back] # 0
  BY <1>2, <1>4, <1>9, ProcessTyped DEF IInv, BackIsBorn
<1>12. proc'[p].state # "closed" /\ p \notin stale' =>
         /\ proc'[p].branch = head'
         /\ MapOf(HeadCommit)' # EmptyTree => proc'[p].tree = MapOf(HeadCommit)'
         /\ backend = "memory" /\ proc'[p].state = "open" =>
              MapOf(HeadCommit)' \in proc'[p].stored
  BY <1>2, <1>4, <1>5, <1>6, <1>7 DEF IInv, FreshIsHead, MemoryHasHead, CreateBranch
<1> QED BY <1>4, <1>5, <1>7, <1>8, <1>9, <1>10, <1>11, <1>12, RepositoryStep

LEMMA SwitchKeeps ==
    ASSUME IInv, NEW p \in Processes, NEW b \in Branches, backend = "git", refs[b] # 0,
           proc[p].state = "open", Switch(p, b), UNCHANGED backend
    PROVE  IInv'
<1> DEFINE me == [proc[p] EXCEPT !.tree = MapOf(refs[b]), !.staging = EmptyArea, !.branch = b]
<1>1. proc[p] \in Memory /\ proc \in [Processes -> Memory]
  BY ProcessTyped DEF IInv, TypeOK, Memory
<1>2. MapOf(refs[b]) \in Trees
  BY MapTyped DEF IInv, TypeOK
<1>3. me \in Memory /\ me.tree = MapOf(refs[b]) /\ me.branch = b /\ me.back = proc[p].back
  BY <1>1, <1>2, EmptyTyped DEF Memory
<1>4. proc' = [proc EXCEPT ![p] = me]
  BY <1>1 DEF Switch, Memory
<1>5. refs[me.back] # 0
  BY <1>3 DEF IInv, BackIsBorn
<1> HIDE DEF me
<1>6. EmptyArea \in Areas
  BY EmptyTyped
<1> QED BY <1>3, <1>4, <1>5, <1>6, SwitchedKeeps DEF Switch

LEMMA CheckoutKeeps ==
    ASSUME IInv, NEW p \in Processes, NEW b \in Branches, Checkout(p, b)
    PROVE  IInv'
<1>1. CASE refs[b] # 0 /\ Switch(p, b)
  BY <1>1, SwitchKeeps DEF Checkout, Called
<1>2. CASE refs[b] = 0 /\ stagingFile' = EmptyArea /\ proc' = [proc EXCEPT ![p].staging = EmptyArea]
           /\ UNCHANGED <<commits, refs, head, diskTree, stale>>
  BY <1>2, EmptyTyped, StagingKeeps DEF Checkout, Called
<1> QED BY <1>1, <1>2 DEF Checkout

LEMMA FastForwardKeeps ==
    ASSUME IInv, NEW p \in Processes, NEW b \in Branches, FastForward(p, b)
    PROVE  IInv'
BY SwitchKeeps DEF FastForward, CanFastForward, Called

LEMMA OpenSavedKeeps ==
    ASSUME IInv, NEW p \in Processes, OpenSaved(p), UNCHANGED backend
    PROVE  IInv'
<1> DEFINE me == [NoProcess EXCEPT !.state = "open", !.tree = diskTree,
                                   !.staging = stagingFile, !.branch = head]
<1>1. /\ me \in Memory /\ me.state = "open" /\ me.tree = diskTree
      /\ me.branch = head /\ me.back = Main
  BY NoProcessTyped DEF NoProcess, Memory, IInv, TypeOK
<1>2. /\ proc' = [proc EXCEPT ![p] = me] /\ stale' = stale \ {p}
      /\ backend # "memory" /\ UNCHANGED disk
  BY DEF OpenSaved
<1> HIDE DEF me
<1> QED BY <1>1, <1>2, SavedKeeps DEF IInv, BackIsBorn

LEMMA StartOverKeeps ==
    ASSUME IInv, NEW p \in Processes, StartOver(p), UNCHANGED backend
    PROVE  IInv'
<1>1. /\ stale' \subseteq {q \in Processes : proc[q].state # "closed" \/ q = p}
      /\ \A q \in Processes \ {p} : proc[q].state # "closed" => q \in stale'
  BY DEF StartOver, Overtakes, IInv, TypeOK
<1> QED BY <1>1, CommittedKeeps, EmptyTyped, RepositoryAssumptions
         DEF StartOver, RepositoryAssumptions

LEMMA OpenKeeps ==
    ASSUME IInv, NEW p \in Processes, Open(p) \/ InitAgain(p)
    PROVE  IInv'
BY OpenSavedKeeps, StartOverKeeps DEF Open, OpenMemory, InitAgain, Called

LEMMA EndKeeps ==
    ASSUME IInv, NEW p \in Processes, proc' = [proc EXCEPT ![p] = NoProcess],
           stale' = stale \ {p}, UNCHANGED <<backend, disk>>
    PROVE  IInv'
<1>1. NoProcess.state = "closed" /\ NoProcess.back = Main
  BY DEF NoProcess
<1> QED BY <1>1, NoProcessTyped, SavedKeeps DEF IInv, BackIsBorn

LEMMA CommandStagesKeeps ==
    ASSUME IInv, NEW a \in Areas, StagedOnDisk(a), UNCHANGED <<backend, proc>>
    PROVE  IInv'
<1>1. TypeOK'
  BY DEF IInv, TypeOK, StagedOnDisk
<1> QED BY <1>1 DEF IInv, StagedOnDisk, BackIsBorn, DiskIsHead, FreshIsHead, MemoryHasHead,
                     MapOf, HeadCommit

LEMMA CommandCommitsKeeps ==
    ASSUME IInv, NEW p \in Processes, NEW a \in Areas, CommittedOnDisk(p, a),
           proc[p].state = "closed", UNCHANGED <<backend, proc>>
    PROVE  IInv'
<1>1. head \in Branches /\ Override(diskTree, a) \in Trees
  BY OverrideTyped DEF IInv, TypeOK
<1>2. /\ stale' \subseteq {q \in Processes : proc'[q].state # "closed"}
      /\ \A q \in Processes \ {p} : proc[q].state # "closed" => q \in stale'
  BY DEF CommittedOnDisk, Overtakes, IInv, TypeOK
<1>3. proc' \in [Processes -> Memory]
  BY DEF IInv, TypeOK, Memory
<1> QED BY <1>1, <1>2, <1>3, NewCommitKeeps DEF CommittedOnDisk

LEMMA CommandKeeps ==
    ASSUME IInv, NEW p \in Processes,
           \/ \E k \in Keys : DeleteKey(p, k) \/ \E v \in Values : SetKey(p, k, v)
           \/ CommitStaged(p) \/ Clear(p) \/ ClearKeepingHistory(p)
    PROVE  IInv'
<1>1. stagingFile \in Areas /\ ClearedArea \in Areas
  BY DEF IInv, TypeOK, ClearedArea, Areas, Sides
<1>2. ASSUME NEW k \in Keys, NEW s \in Sides PROVE [stagingFile EXCEPT ![k] = s] \in Areas
  BY <1>1 DEF Areas
<1>3. ASSUME NEW k \in Keys, DeleteKey(p, k) PROVE IInv'
  BY <1>2, <1>3, CommandStagesKeeps DEF DeleteKey, CommandCalled, Called, Sides
<1>4. ASSUME NEW k \in Keys, NEW v \in Values, SetKey(p, k, v) PROVE IInv'
  BY <1>2, <1>4, CommandStagesKeeps DEF SetKey, CommandCalled, Called, Sides
<1>5. CASE CommitStaged(p)
  BY <1>1, <1>5, CommandCommitsKeeps DEF CommitStaged, CommandCalled, Called
<1>6. CASE Clear(p)
  BY <1>1, <1>6, CommandStagesKeeps DEF Clear, CommandCalled, Called
<1>7. CASE ClearKeepingHistory(p)
  BY <1>1, <1>7, CommandCommitsKeeps DEF ClearKeepingHistory, CommandCalled, Called
<1> QED BY <1>3, <1>4, <1>5, <1>6, <1>7

LEMMA MergeBranchKeeps ==
    ASSUME IInv, NEW p \in Processes, NEW b \in Branches, MergeBranch(p, b)
    PROVE  IInv'
<1> DEFINE me == proc[p]
<1>1. me \in Memory /\ proc \in [Processes -> Memory] /\ me.state = "closed"
  BY ProcessTyped DEF IInv, TypeOK, Memory, MergeBranch, CommandCalled
<1>2. proc' = [proc EXCEPT ![p] = me]
  BY <1>1 DEF MergeBranch, CommandCalled
<1>3. refs[me.back] # 0 /\ EmptyArea \in Areas
  BY EmptyTyped DEF IInv, BackIsBorn
<1> HIDE DEF me
<1>4. /\ refs[b] # 0 /\ head' = b /\ stagingFile' = EmptyArea /\ Overtakes(p)
      /\ diskTree' = IF MapOf(refs[b]) = EmptyTree THEN diskTree ELSE MapOf(refs[b])
      /\ UNCHANGED <<backend, commits, refs>>
  BY DEF MergeBranch, CanFastForward, CommandCalled, Called
<1> QED BY <1>1, <1>2, <1>3, <1>4, SwitchedKeeps

LEMMA SqlBeginKeeps ==
    ASSUME IInv, NEW p \in Processes, NEW b \in Branches, SqlBegin(p, b)
    PROVE  IInv'
<1> DEFINE me == [NoProcess EXCEPT !.state = "sql", !.tree = MapOf(refs[b]),
                                   !.branch = b, !.back = head]
<1>1. MapOf(refs[b]) \in Trees /\ head \in Branches /\ refs[head] # 0
  BY MapTyped DEF IInv, TypeOK
<1>2. /\ me \in Memory /\ me.state = "sql" /\ me.tree = MapOf(refs[b])
      /\ me.branch = b /\ me.back = head
  BY <1>1, NoProcessTyped DEF NoProcess, Memory
<1>3. proc' = [proc EXCEPT ![p] = me]
  BY DEF SqlBegin
<1> HIDE DEF me
<1>4. /\ refs[b] # 0 /\ head' = b /\ stagingFile' = stagingFile /\ Overtakes(p)
      /\ diskTree' = IF MapOf(refs[b]) = EmptyTree THEN diskTree ELSE MapOf(refs[b])
      /\ UNCHANGED <<backend, commits, refs>>
  BY DEF SqlBegin, Called
<1>5. stagingFile \in Areas
  BY DEF IInv, TypeOK
<1> QED BY <1>1, <1>2, <1>3, <1>4, <1>5, SwitchedKeeps

LEMMA SqlEndKeeps ==
    ASSUME IInv, NEW p \in Processes, SqlEnd(p)
    PROVE  IInv'
<1> DEFINE b == proc[p].back
<1>1. /\ b \in Branches /\ refs[b] # 0 /\ NoProcess.state = "closed"
      /\ NoProcess.back = Main /\ refs[Main] # 0
  BY ProcessTyped DEF IInv, BackIsBorn, NoProcess
<1>2. CASE head = b /\ stale' = stale \ {p} /\ UNCHANGED disk
  BY <1>2, EndKeeps DEF SqlEnd
<1>3. CASE /\ head # b /\ head' = b /\ stagingFile' = EmptyArea /\ Overtakes(p)
           /\ diskTree' = IF MapOf(refs[b]) = EmptyTree THEN diskTree ELSE MapOf(refs[b])
           /\ UNCHANGED <<commits, refs>>
  <2>1. proc' = [proc EXCEPT ![p] = NoProcess] /\ UNCHANGED backend
    BY DEF SqlEnd
  <2> HIDE DEF b
  <2> QED BY <1>1, <1>3, <2>1, EmptyTyped, NoProcessTyped, SwitchedKeeps
<1> QED BY <1>2, <1>3 DEF SqlEnd

LEMMA NextKeeps ==
    ASSUME IInv, [Next]_vars
    PROVE  IInv'
<1>1. ASSUME NEW p \in Processes, Open(p) \/ InitAgain(p) PROVE IInv'
  BY <1>1, OpenKeeps
<1>2. ASSUME NEW p \in Processes, Close(p) \/ SqlFails(p) PROVE IInv'
  BY <1>2, EndKeeps DEF Close, SqlFails
<1>3. ASSUME NEW p \in Processes, StoreCall(p) PROVE IInv'
  BY <1>3, InsertKeeps, CommitKeeps, CreateBranchKeeps, CheckoutKeeps DEF StoreCall
<1>4. ASSUME NEW p \in Processes, Operation(p) PROVE IInv'
  BY <1>4, FastForwardKeeps, RevertKeeps DEF Operation
<1>5. ASSUME NEW p \in Processes, Command(p) PROVE IInv'
  BY <1>2, <1>5, CommandKeeps, MergeBranchKeeps, SqlBeginKeeps, SqlEndKeeps DEF Command
<1>6. CASE UNCHANGED vars
  BY <1>6 DEF vars, disk, IInv, TypeOK, BackIsBorn, DiskIsHead, FreshIsHead, MemoryHasHead,
              MapOf, HeadCommit
<1> QED BY <1>1, <1>2, <1>3, <1>4, <1>5, <1>6 DEF Next

LEMMA InitIInv == Init => IInv
<1> SUFFICES ASSUME Init PROVE IInv
  OBVIOUS
<1>1. /\ commits \in Seq([parent : Nat, map : Trees]) /\ Len(commits) = 1
      /\ commits[1].parent = 0 /\ commits[1].map = EmptyTree
  BY EmptyTyped DEF Init
<1>2. /\ refs \in [Branches -> 0..1] /\ refs[Main] = 1 /\ head = Main /\ Main \in Branches
      /\ backend \in BackendKinds
  BY RepositoryAssumptions DEF Init, RepositoryAssumptions
<1>3. /\ proc \in [Processes -> Memory] /\ stale = {}
      /\ \A p \in Processes : proc[p].back = Main /\ proc[p].state = "closed"
  BY NoProcessTyped DEF Init, NoProcess
<1>4. TypeOK
  BY <1>1, <1>2, <1>3, EmptyTyped DEF Init, TypeOK, Memory
<1>5. DiskIsHead
  BY <1>1, <1>2 DEF Init, DiskIsHead, MapOf, HeadCommit
<1> QED BY <1>2, <1>3, <1>4, <1>5 DEF IInv, BackIsBorn, FreshIsHead, MemoryHasHead

-----------------------------------------------------------------------------
(* What the last call was                                                  *)

LEMMA LastCall ==
    ASSUME Next
    PROVE  /\ op'.name = "commit" => \E p \in Processes : op'.by = p /\ Commit(p)
           /\ op'.name = "revert" =>
                \E p \in Processes, c \in 1..Len(commits) :
                  op'.by = p /\ op'.arg = c /\ Revert(p, c)
           /\ op'.name = "sql_end" => \E p \in Processes : op'.by = p /\ SqlEnd(p)
<1>1. PICK p \in Processes :
        Open(p) \/ InitAgain(p) \/ Close(p) \/ StoreCall(p) \/ Operation(p) \/ Command(p)
  BY DEF Next
<1>2. CASE Open(p) \/ InitAgain(p) \/ Close(p)
  BY <1>2 DEF Open, InitAgain, Close, Called
<1>3. CASE StoreCall(p)
  <2>1. \/ op'.name \in {"insert", "delete", "create_branch", "checkout"}
        \/ op'.name = "commit" /\ op'.by = p /\ Commit(p)
    <3>1. ASSUME NEW k \in Keys, NEW v \in Values, Insert(p, k, v) PROVE op'.name = "insert"
      BY <3>1 DEF Insert, Called
    <3>2. ASSUME NEW k \in Keys, Delete(p, k) PROVE op'.name = "delete"
      BY <3>2 DEF Delete, Called
    <3>3. ASSUME NEW b \in Branches, CreateBranch(p, b) \/ Checkout(p, b)
          PROVE  op'.name \in {"create_branch", "checkout"}
      BY <3>3 DEF CreateBranch, Checkout, Called
    <3>4. Commit(p) => op'.name = "commit" /\ op'.by = p
      BY DEF Commit, Called
    <3> QED BY <1>3, <3>1, <3>2, <3>3, <3>4 DEF StoreCall
  <2> QED BY <2>1
<1>4. CASE Operation(p)
  <2>1. ASSUME NEW b \in Branches, FastForward(p, b) PROVE op'.name = "merge"
    BY <2>1 DEF FastForward, Called
  <2>2. ASSUME NEW c \in 1..Len(commits), Revert(p, c)
        PROVE  op'.name = "revert" /\ op'.by = p /\ op'.arg = c
    BY <2>2 DEF Revert, Called
  <2> QED BY <1>4, <2>1, <2>2 DEF Operation
<1>5. CASE Command(p)
  <2>1. \/ op'.name \in {"unset", "set", "commit_staged", "clear", "merge_branch", "sql", "sql_fails"}
        \/ op'.name = "sql_end" /\ op'.by = p /\ SqlEnd(p)
    <3>1. ASSUME NEW k \in Keys, DeleteKey(p, k) PROVE op'.name = "unset"
      BY <3>1 DEF DeleteKey, CommandCalled, Called
    <3>2. ASSUME NEW k \in Keys, NEW v \in Values, SetKey(p, k, v) PROVE op'.name = "set"
      BY <3>2 DEF SetKey, CommandCalled, Called
    <3>3. ASSUME NEW b \in Branches, MergeBranch(p, b) PROVE op'.name = "merge_branch"
      BY <3>3 DEF MergeBranch, CommandCalled, Called
    <3>4. ASSUME NEW b \in Branches, SqlBegin(p, b) PROVE op'.name = "sql"
      BY <3>4 DEF SqlBegin, Called
    <3>5. /\ CommitStaged(p) => op'.name = "commit_staged"
          /\ Clear(p) \/ ClearKeepingHistory(p) => op'.name = "clear"
          /\ SqlEnd(p) => op'.name = "sql_end" /\ op'.by = p
          /\ SqlFails(p) => op'.name = "sql_fails"
      BY DEF CommitStaged, Clear, ClearKeepingHistory, SqlEnd, SqlFails, CommandCalled, Called
    <3> QED BY <1>5, <3>1, <3>2, <3>3, <3>4, <3>5 DEF Command
  <2> QED BY <2>1
<1> QED BY <1>1, <1>2, <1>3, <1>4, <1>5

(* An empty staging area hides nothing.                                    *)
LEMMA NothingStaged ==
    ASSUME NEW t \in Trees
    PROVE  Override(t, EmptyArea) = t
BY DEF Override, EmptyArea, Trees

-----------------------------------------------------------------------------
(* Histories                                                               *)

(* A commit and the history of its parent.                                 *)
LEMMA HistoryUnfolds ==
    ASSUME TypeOK, NEW c \in 0..Len(commits)
    PROVE  HistoryOf(c) = IF c = 0 THEN {} ELSE {c} \cup HistoryOf(commits[c].parent)
<1> DEFINE n == Len(commits)
           IsFrom(f, m) ==
             f = [d \in 0..m |-> IF d = 0 THEN {} ELSE {d} \cup f[commits[d].parent]]
           S == {m \in Nat : m <= n => \E f : IsFrom(f, m)}
<1>1. n \in Nat /\ \A d \in 1..n : commits[d].parent \in 0..(d - 1)
  BY CommitTyped
<1> HIDE DEF n
<1>2. ASSUME NEW m \in Nat, 0..(m - 1) \subseteq S PROVE m \in S
  <2> SUFFICES ASSUME m <= n PROVE \E f : IsFrom(f, m)
    OBVIOUS
  <2>1. CASE m = 0
    <3>1. IsFrom([d \in 0..0 |-> {}], 0)
      OBVIOUS
    <3> QED BY <2>1, <3>1
  <2>2. CASE m # 0
    <3>1. m - 1 \in 0..(m - 1) /\ m - 1 <= n
      BY <1>1, <2>2
    <3>2. PICK g : IsFrom(g, m - 1)
      <4> HIDE DEF IsFrom
      <4> QED BY <1>2, <3>1
    <3> DEFINE f == [d \in 0..m |-> IF d = m THEN {m} \cup g[commits[m].parent] ELSE g[d]]
    <3>3. ASSUME NEW d \in 0..m
          PROVE  f[d] = IF d = 0 THEN {} ELSE {d} \cup f[commits[d].parent]
      <4>1. CASE d = 0
        BY <2>2, <3>2, <4>1
      <4>2. CASE d = m
        <5>1. commits[m].parent \in 0..(m - 1)
          BY <1>1, <2>2
        <5> QED BY <2>2, <4>2, <5>1
      <4>3. CASE d # 0 /\ d # m
        <5>1. d \in 0..(m - 1) /\ commits[d].parent \in 0..(d - 1)
          BY <1>1, <4>3
        <5>2. g[d] = {d} \cup g[commits[d].parent]
          BY <3>2, <4>3, <5>1
        <5> QED BY <4>3, <5>1, <5>2
      <4> QED BY <4>1, <4>2, <4>3
    <3>4. IsFrom(f, m)
      BY <3>3
    <3> QED BY <3>4
  <2> QED BY <2>1, <2>2
<1> DEFINE from == CHOOSE f : IsFrom(f, n)
<1>3. IsFrom(from, n)
  <2> HIDE DEF S, IsFrom
  <2>1. n \in S
    BY <1>1, <1>2, CourseOfValues
  <2> QED BY <1>1, <2>1 DEF S
<1>4. \A d : HistoryOf(d) = from[d]
  BY DEF HistoryOf, n
<1> HIDE DEF from
<1>5. from[c] = IF c = 0 THEN {} ELSE {c} \cup from[commits[c].parent]
  BY <1>3 DEF n
<1> QED BY <1>4, <1>5

(* For whatever is read of the commits: what a commit has is what nothing  *)
(* has, or what the newest commit of its history to change it gave it.     *)
LEMMA NewestChange ==
    ASSUME TypeOK, NEW r
    PROVE  \A c \in 0..Len(commits) :
             /\ HistoryOf(c) \subseteq 1..c
             /\ \/ r[c] = r[0]
                \/ \E e \in HistoryOf(c) :
                     /\ r[e] = r[c] /\ r[e] # r[commits[e].parent]
                     /\ \A d \in HistoryOf(c) : r[d] # r[commits[d].parent] => d <= e
<1> DEFINE P(c) == /\ HistoryOf(c) \subseteq 1..c
                   /\ \/ r[c] = r[0]
                      \/ \E e \in HistoryOf(c) :
                           /\ r[e] = r[c] /\ r[e] # r[commits[e].parent]
                           /\ \A d \in HistoryOf(c) : r[d] # r[commits[d].parent] => d <= e
           S == {c \in Nat : c <= Len(commits) => P(c)}
<1>1. ASSUME NEW c \in Nat, 0..(c - 1) \subseteq S PROVE c \in S
  <2> SUFFICES ASSUME c <= Len(commits) PROVE P(c)
    OBVIOUS
  <2>1. CASE c = 0
    BY <2>1, HistoryUnfolds, CommitTyped
  <2>2. CASE c # 0
    <3> DEFINE b == commits[c].parent
    <3>1. b \in 0..(c - 1) /\ HistoryOf(c) = {c} \cup HistoryOf(b)
      BY <2>2, HistoryUnfolds, CommitTyped
    <3> HIDE DEF b
    <3>2. P(b)
      <4>1. b \in S /\ b <= Len(commits)
        BY <1>1, <3>1, CommitTyped
      <4> HIDE DEF P
      <4> QED BY <4>1
    <3>3. HistoryOf(c) \subseteq 1..c
      BY <2>2, <3>1, <3>2
    <3>4. CASE r[c] = r[b]
      BY <3>1, <3>2, <3>3, <3>4 DEF b
    <3>5. CASE r[c] # r[b]
      BY <3>1, <3>3, <3>5 DEF b
    <3> QED BY <3>4, <3>5
  <2> QED BY <2>1, <2>2
<1> HIDE DEF P
<1>2. ASSUME NEW c \in 0..Len(commits) PROVE P(c)
  <2> HIDE DEF S
  <2>1. c \in S
    BY <1>1, CourseOfValues
  <2> QED BY <2>1, CommitTyped DEF S
<1> QED BY <1>2 DEF P

-----------------------------------------------------------------------------
(* Theorems                                                                *)

(***************************************************************************)
(* The invariant that the properties follow from.                          *)
(***************************************************************************)
THEOREM InvariantHolds == Spec => []IInv
BY InitIInv, NextKeeps, PTL DEF Spec

(***************************************************************************)
(* Refs and parents lead to commits written before, HEAD's branch has one, *)
(* and only a process with something in memory can be out of date.         *)
(***************************************************************************)
THEOREM TypesHold == Spec => []TypeOK
<1>1. IInv => TypeOK
  BY DEF IInv
<1> QED BY <1>1, InvariantHolds, PTL

(***************************************************************************)
(* Whatever processes that know nothing of each other do to refs, HEAD and *)
(* the saved tree, the saved tree is the content of HEAD's commit.         *)
(***************************************************************************)
THEOREM DiskFollowsHead == Spec => []DiskIsHead
<1>1. IInv => DiskIsHead
  BY DEF IInv
<1> QED BY <1>1, InvariantHolds, PTL

LEMMA CommitStep ==
    ASSUME IInv, Next, op'.name = "commit", op'.by \notin stale
    PROVE  LET me == proc[op'.by]
               new == commits'[Len(commits')]
               tip == refs[me.branch]
           IN  /\ new.parent = tip
               /\ MapOf(tip) # EmptyTree =>
                    \A k \in Keys : me.staging[k] = Unstaged => new.map[k] = MapOf(tip)[k]
<1>1. PICK p \in Processes : op'.by = p /\ Commit(p)
  BY LastCall
<1>2. /\ proc[p].branch = head
      /\ MapOf(HeadCommit) # EmptyTree => proc[p].tree = MapOf(HeadCommit)
  BY <1>1 DEF IInv, FreshIsHead, Commit
<1>3. commits'[Len(commits')] = [parent |-> HeadCommit, map |-> Shown(p)]
  BY <1>1, NewCommit, ProcessTyped DEF Commit, Committed, IInv
<1> QED BY <1>1, <1>2, <1>3 DEF HeadCommit, Shown, Override

(***************************************************************************)
(* A commit of a process that nobody has overtaken follows the tip of its  *)
(* branch and differs from it in what the process has staged only.         *)
(***************************************************************************)
THEOREM CommitsUndoNothing == Spec => CommitsOnlyStaged
<1>1. IInv /\ [Next]_vars =>
        [op'.name = "commit" /\ op'.by \notin stale =>
           LET me == proc[op'.by]
               new == commits'[Len(commits')]
               tip == refs[me.branch]
           IN  /\ new.parent = tip
               /\ MapOf(tip) # EmptyTree =>
                    \A k \in Keys : me.staging[k] = Unstaged => new.map[k] = MapOf(tip)[k]]_vars
  BY CommitStep
<1> QED BY <1>1, InvariantHolds, PTL DEF Spec, CommitsOnlyStaged

LEMMA RevertStep ==
    ASSUME IInv, Next, op'.name = "revert", op'.by \notin stale,
           proc[op'.by].staging = EmptyArea
    PROVE  LET before == MapOf(commits[op'.arg].parent)
               after == MapOf(op'.arg)
               old == MapOf(HeadCommit)
               new == commits'[Len(commits')].map
           IN  old # EmptyTree =>
                 \A k \in Keys : new[k] = IF before[k] # after[k] THEN before[k] ELSE old[k]
<1>1. PICK p \in Processes, c \in 1..Len(commits) : op'.by = p /\ op'.arg = c /\ Revert(p, c)
  BY LastCall
<1> SUFFICES ASSUME MapOf(HeadCommit) # EmptyTree, NEW k \in Keys
             PROVE  commits'[Len(commits')].map[k] =
                      IF MapOf(commits[c].parent)[k] # MapOf(c)[k] THEN MapOf(commits[c].parent)[k]
                      ELSE MapOf(HeadCommit)[k]
  BY <1>1
<1>2. proc[p].tree = MapOf(HeadCommit) /\ proc[p].staging = EmptyArea
  BY <1>1 DEF IInv, FreshIsHead, Revert
<1>3. Shown(p) = MapOf(HeadCommit)
  BY <1>2, NothingStaged, ProcessTyped DEF Shown, IInv
<1>4. \A d : StateAt(p, d) = MapOf(d)
  BY <1>3 DEF StateAt
<1>5. Before(p, c) = MapOf(commits[c].parent)
  BY <1>4 DEF Before, MapOf
<1>6. commits'[Len(commits')] =
        [parent |-> HeadCommit, map |-> Override(proc[p].tree, Undone(p, c))]
  BY <1>1, NewCommit, ProcessTyped, UndoneTyped DEF Revert, Committed, IInv
<1>7. commits'[Len(commits')].map[k] =
        IF Undone(p, c)[k] = Unstaged THEN MapOf(HeadCommit)[k] ELSE Undone(p, c)[k]
  BY <1>2, <1>6 DEF Override
<1>8. Undone(p, c)[k] =
        IF MapOf(commits[c].parent)[k] = MapOf(c)[k] THEN Unstaged
        ELSE IF MapOf(commits[c].parent)[k] = NoValue /\ MapOf(HeadCommit)[k] = NoValue THEN Unstaged
        ELSE MapOf(commits[c].parent)[k]
  BY <1>2, <1>3, <1>4, <1>5 DEF Undone, EmptyArea
<1>9. MapOf(commits[c].parent)[k] # Unstaged
  <2>1. MapOf(commits[c].parent) \in Trees
    BY CommitTyped, MapTyped DEF IInv
  <2> QED BY <2>1, RepositoryAssumptions DEF Trees, Sides, RepositoryAssumptions
<1> QED BY <1>7, <1>8, <1>9

(***************************************************************************)
(* revert gives the keys that the commit changed what they had before it   *)
(* and leaves the others, of HEAD's commit and of any older one.           *)
(***************************************************************************)
THEOREM RevertUndoesCommit == Spec => RevertUndoes
<1>1. IInv /\ [Next]_vars =>
        [op'.name = "revert" /\ op'.by \notin stale /\ proc[op'.by].staging = EmptyArea =>
           LET before == MapOf(commits[op'.arg].parent)
               after == MapOf(op'.arg)
               old == MapOf(HeadCommit)
               new == commits'[Len(commits')].map
           IN  old # EmptyTree =>
                 \A k \in Keys : new[k] = IF before[k] # after[k] THEN before[k] ELSE old[k]]_vars
  BY RevertStep
<1> QED BY <1>1, InvariantHolds, PTL DEF Spec, RevertUndoes

LEMMA SqlEndStep ==
    ASSUME IInv, Next, op'.name = "sql_end"
    PROVE  LET back == proc[op'.by].back
           IN  /\ head' = back
               /\ stagingFile = EmptyArea /\ MapOf(refs[back]) # EmptyTree =>
                    Override(diskTree', stagingFile') = MapOf(refs[back])
<1>1. PICK p \in Processes : op'.by = p /\ SqlEnd(p)
  BY LastCall
<1>2. MapOf(refs[proc[p].back]) \in Trees
  BY MapTyped, ProcessTyped DEF IInv, TypeOK
<1>3. Override(MapOf(refs[proc[p].back]), EmptyArea) = MapOf(refs[proc[p].back])
  BY <1>2, NothingStaged
<1> QED BY <1>1, <1>3 DEF SqlEnd, disk, IInv, DiskIsHead, HeadCommit

(***************************************************************************)
(* sql -b leaves HEAD on the branch it started from and the saved tree     *)
(* that branch's commit.                                                   *)
(***************************************************************************)
THEOREM SqlRestoresBranch == Spec => SqlLeavesNoTrace
<1>1. IInv /\ [Next]_vars =>
        [op'.name = "sql_end" /\ op'.by \notin stale =>
           LET back == proc[op'.by].back
           IN  /\ head' = back
               /\ stagingFile = EmptyArea /\ MapOf(refs[back]) # EmptyTree =>
                    Override(diskTree', stagingFile') = MapOf(refs[back])]_vars
  BY SqlEndStep
<1> QED BY <1>1, InvariantHolds, PTL DEF Spec, SqlLeavesNoTrace

LEMMA ReadsFollow ==
    ASSUME IInv, NEW p \in Processes, NEW k \in Keys, backend \in {"git", "memory"},
           proc[p].state = "open", p \notin stale, MapOf(HeadCommit) # EmptyTree,
           proc[p].tree[k] # NoValue
    PROVE  \E c \in CommitsForKey(p, k) :
             /\ \A d \in CommitsForKey(p, k) : d <= c
             /\ MapOf(c)[k] = proc[p].tree[k]
<1> DEFINE r == [c \in 0..Len(commits) |-> ReadAt(p, c)[k]]
<1>1. /\ HeadCommit \in 1..Len(commits) /\ Len(commits) \in Nat
      /\ \A c \in 1..Len(commits) : commits[c].parent \in 0..Len(commits)
  BY CommitTyped DEF IInv
<1>2. ReadAt(p, 0) = EmptyTree /\ EmptyTree[k] = NoValue
  BY DEF ReadAt, CollectFrom, MapOf, WritesConfig, EmptyTree
<1>3. r[HeadCommit] = proc[p].tree[k]
  <2>1. proc[p].tree = MapOf(HeadCommit)
    BY DEF IInv, FreshIsHead
  <2>2. ReadAt(p, HeadCommit) = MapOf(HeadCommit)
    BY DEF ReadAt, CollectFrom, WritesConfig, IInv, MemoryHasHead
  <2> QED BY <1>1, <2>1, <2>2
<1>4. \A c \in 1..Len(commits) :
        /\ r[c] = ReadAt(p, c)[k]
        /\ r[commits[c].parent] =
             (IF commits[c].parent = 0 THEN EmptyTree ELSE ReadAt(p, commits[c].parent))[k]
  BY <1>1, <1>2
<1>5. r[0] = NoValue
  BY <1>1, <1>2
<1>6. \A c \in 1..Len(commits) : r[c] # NoValue => r[c] = MapOf(c)[k]
  BY <1>2, <1>4 DEF ReadAt, CollectFrom, WritesConfig
<1> HIDE DEF r
<1>7. History \subseteq 1..Len(commits)
  BY <1>1, NewestChange DEF History, IInv
<1>8. CommitsForKey(p, k) = {c \in History : r[c] # r[commits[c].parent]}
  BY <1>4, <1>7 DEF CommitsForKey
<1>9. PICK e \in History :
        /\ r[e] = r[HeadCommit] /\ r[e] # r[commits[e].parent]
        /\ \A d \in History : r[d] # r[commits[d].parent] => d <= e
  <2>1. r[HeadCommit] # r[0]
    BY <1>3, <1>5
  <2> QED BY <1>1, <2>1, NewestChange DEF History, IInv
<1>10. MapOf(e)[k] = proc[p].tree[k]
  BY <1>3, <1>6, <1>7, <1>9
<1> QED BY <1>8, <1>9, <1>10

(***************************************************************************)
(* The newest commit that get_commits_for_key lists for a key is the one   *)
(* that gave it the value the tree has, however long the history is and    *)
(* whatever the other commits of it have done to the key.                  *)
(***************************************************************************)
THEOREM HistoryExplains == Spec => []KeyHistory
<1>1. IInv => KeyHistory
  BY ReadsFollow DEF KeyHistory
<1> QED BY <1>1, InvariantHolds, PTL
====

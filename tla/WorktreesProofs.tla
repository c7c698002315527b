--------------------------- MODULE WorktreesProofs ---------------------------
(***************************************************************************)
(* Theorems about the worktree managers, for any number of managers,       *)
(* worktrees and branches and with crashes: what a manager knows of a      *)
(* linked worktree is what is on disk, and a merge gives its lock back.    *)
(*                                                                         *)
(* The argument is that each directory is in the hands of one manager at   *)
(* most: the one that makes it, then the one that knows it, then the one   *)
(* that removes it.  A crash leaves a directory in nobody's hands for      *)
(* ever, as discovery takes none over and no id is used twice.             *)
(***************************************************************************)
EXTENDS Worktrees, TLAPS

AddSteps == {"add_gitdir", "add_head", "add_branch", "add_track"}
MergeSteps == {"merge_store", "merge_read", "merge_write", "merge_unlock"}

(* The worktree that m is making or removing                               *)
InWork(m) == IF pc[m] \in AddSteps \cup {"remove_dir"} THEN {call[m].worktree} ELSE {}

Hands(m) == (DOMAIN known[m] \cap Linked) \cup InWork(m)

CallInHand ==
    \A m \in Managers :
      /\ \A w \in InWork(m) : w \in Linked /\ w \in dirs /\ w \notin DOMAIN known[m]
      /\ pc[m] \in AddSteps => call[m].worktree \notin lockFiles
      /\ pc[m] \in AddSteps \ {"add_gitdir"} => call[m].worktree \in gitdirs
      /\ pc[m] \in {"add_branch", "add_track"} => heads[call[m].worktree] = call[m].branch
      /\ pc[m] \in MergeSteps => call[m].worktree \in DOMAIN known[m]

OneHolder ==
    \A m, n \in Managers : \A w \in Linked : w \in Hands(m) /\ w \in Hands(n) => m = n

LocksHaveDirs == lockFiles \cap Linked \subseteq dirs

(* A linked worktree is locked by the client or by the merge under way.    *)
ByMerge(m, w) == pc[m] \in MergeSteps /\ call[m].flag /\ call[m].worktree = w

LocksAsked ==
    \A m \in Managers :
      /\ asked[m] \subseteq DOMAIN known[m] /\ (pc[m] = "closed" => asked[m] = {})
      /\ \A w \in DOMAIN known[m] \cap Linked :
           /\ Locked(m, w) <=> w \in asked[m] \/ ByMerge(m, w)
           /\ ~(w \in asked[m] /\ ByMerge(m, w))

IInv == TypeOK /\ CallInHand /\ OneHolder /\ LocksHaveDirs /\ KnownMatchesDisk /\ LocksAsked

-----------------------------------------------------------------------------
(* A manager's map has entries for some of the worktrees.                  *)
LEMMA MapsHave ==
    ASSUME NEW f \in Maps
    PROVE  /\ DOMAIN f \subseteq Worktrees
           /\ f = [w \in DOMAIN f |-> f[w]]
           /\ \A w \in DOMAIN f : f[w] \in Entries
BY DEF Maps

LEMMA MapsFrom ==
    ASSUME NEW S \in SUBSET Worktrees, NEW f \in [S -> Entries]
    PROVE  f \in Maps
BY DEF Maps

LEMMA DiscoveredIs ==
    ASSUME dirs \subseteq Linked
    PROVE  Discovered = [w \in {Primary} |-> [branch |-> head, locked |-> FALSE]]
<1>1. {w \in dirs : w \in {Primary}} = {}
  BY WorktreeAssumptions DEF WorktreeAssumptions
<1> QED  BY <1>1 DEF Discovered

LEMMA NoCallTyped == ASSUME TypeOK PROVE NoCall \in Calls
BY WorktreeAssumptions DEF WorktreeAssumptions, TypeOK, RepositoryOK, NoCall, Calls, Worktrees

LEMMA InitIInv == Init => IInv
<1> SUFFICES ASSUME Init PROVE IInv
  OBVIOUS
<1>1. /\ parents \in Seq(SUBSET Nat) /\ Len(parents) \in {0, 1}
      /\ \A c \in 1..Len(parents) : parents[c] \subseteq 1..(c - 1)
  <2>1. CASE parents = <<>>
    BY <2>1
  <2>2. CASE parents = << {} >>
    BY <2>2
  <2> QED  BY <2>1, <2>2 DEF Init
<1>2. Nothing \in Maps
  <2>1. {} \in SUBSET Worktrees /\ Nothing \in [{} -> Entries]
    BY DEF Nothing
  <2> QED  BY <2>1, MapsFrom
<1>3. TypeOK
  BY <1>1, <1>2, WorktreeAssumptions
     DEF WorktreeAssumptions, TypeOK, RepositoryOK, Init, Calls, NoCall, Worktrees, Steps
<1>4. CallInHand /\ OneHolder /\ LocksHaveDirs /\ KnownMatchesDisk /\ LocksAsked
  BY DEF Init, CallInHand, InWork, OneHolder, Hands, LocksHaveDirs, KnownMatchesDisk, LocksAsked,
         ByMerge, AddSteps, MergeSteps, Nothing
<1> QED  BY <1>3, <1>4 DEF IInv

-----------------------------------------------------------------------------
(* What one step does to a map                                             *)

LEMMA MapWith ==
    ASSUME NEW f \in Maps, NEW v \in Worktrees, NEW e \in Entries
    PROVE  [w \in DOMAIN f \cup {v} |-> IF w = v THEN e ELSE f[w]] \in Maps
<1>1. DOMAIN f \cup {v} \in SUBSET Worktrees
  BY MapsHave
<1>2. [w \in DOMAIN f \cup {v} |-> IF w = v THEN e ELSE f[w]] \in [DOMAIN f \cup {v} -> Entries]
  BY MapsHave
<1> QED  BY <1>1, <1>2, MapsFrom

LEMMA MapWithout ==
    ASSUME NEW f \in Maps, NEW v
    PROVE  [w \in DOMAIN f \ {v} |-> f[w]] \in Maps
<1>1. DOMAIN f \ {v} \in SUBSET Worktrees
  BY MapsHave
<1>2. [w \in DOMAIN f \ {v} |-> f[w]] \in [DOMAIN f \ {v} -> Entries]
  BY MapsHave
<1> QED  BY <1>1, <1>2, MapsFrom

LEMMA MapLocked ==
    ASSUME NEW f \in Maps, NEW v \in DOMAIN f, NEW value \in BOOLEAN
    PROVE  /\ [f EXCEPT ![v].locked = value] \in Maps
           /\ DOMAIN [f EXCEPT ![v].locked = value] = DOMAIN f
           /\ [f EXCEPT ![v].locked = value][v].branch = f[v].branch
           /\ [f EXCEPT ![v].locked = value][v].locked = value
           /\ \A w \in DOMAIN f \ {v} : [f EXCEPT ![v].locked = value][w] = f[w]
<1>1. DOMAIN f \in SUBSET Worktrees
  BY MapsHave
<1>2. f[v] \in Entries /\ [f[v] EXCEPT !.locked = value] \in Entries
  BY MapsHave DEF Entries
<1>3. [f EXCEPT ![v].locked = value] \in [DOMAIN f -> Entries]
  BY <1>2, MapsHave
<1>4. [f EXCEPT ![v].locked = value][v] = [f[v] EXCEPT !.locked = value]
  BY MapsHave
<1>5. [f[v] EXCEPT !.locked = value].branch = f[v].branch
      /\ [f[v] EXCEPT !.locked = value].locked = value
  BY <1>2 DEF Entries
<1> QED  BY <1>1, <1>3, <1>4, <1>5, MapsHave, MapsFrom

(* The worktree in work is nobody's yet or any more, and one that a        *)
(* manager knows is in no other manager's hands.                           *)
LEMMA InWorkIsNobodys ==
    ASSUME IInv, NEW m \in Managers, NEW w \in InWork(m)
    PROVE  /\ w \in Linked /\ w \in dirs
           /\ \A n \in Managers : w \notin DOMAIN known[n]
           /\ \A n \in Managers \ {m} : w \notin InWork(n)
BY DEF IInv, CallInHand, OneHolder, Hands

LEMMA KnownIsOnes ==
    ASSUME IInv, NEW m \in Managers, NEW w \in DOMAIN known[m] \cap Linked
    PROVE  /\ w \in dirs
           /\ \A n \in Managers : w \notin InWork(n)
           /\ \A n \in Managers \ {m} : w \notin DOMAIN known[n]
BY DEF IInv, CallInHand, OneHolder, Hands, KnownMatchesDisk

-----------------------------------------------------------------------------
(* Steps that change a directory                                           *)

LEMMA AddKeeps ==
    ASSUME IInv, NEW m \in Managers, NEW w \in Linked, NEW b \in Branches,
           NEW create \in BOOLEAN, Add(m, w, b, create)
    PROVE  IInv'
<1> USE DEF IInv, Add, Begin, repository
<1>1. [NoCall EXCEPT !.worktree = w, !.branch = b, !.flag = create] \in Calls
  BY NoCallTyped DEF Calls, Worktrees
<1>2. /\ call'[m].worktree = w /\ pc'[m] = "add_gitdir" /\ InWork(m)' = {w}
      /\ \A n \in Managers \ {m} : InWork(n)' = InWork(n)
      /\ w \notin lockFiles
  BY <1>1, NoCallTyped DEF TypeOK, InWork, AddSteps, LocksHaveDirs, Calls
<1>3. TypeOK'
  BY <1>1 DEF TypeOK, RepositoryOK, Steps, Calls
<1>4. \A n \in Managers : w \notin Hands(n)
  BY DEF CallInHand, Hands, KnownMatchesDisk
<1>5. CallInHand'
  BY <1>2, <1>4 DEF TypeOK, CallInHand, InWork, AddSteps, MergeSteps, Hands
<1>6. OneHolder' /\ LocksHaveDirs'
  BY <1>2, <1>4 DEF OneHolder, LocksHaveDirs, Hands
<1>7. KnownMatchesDisk'
  BY DEF KnownMatchesDisk, Locked
<1>8. LocksAsked'
  BY DEF TypeOK, LocksAsked, ByMerge, Locked, MergeSteps
<1> QED  BY <1>3, <1>5, <1>6, <1>7, <1>8

LEMMA AddGitdirKeeps ==
    ASSUME IInv, NEW m \in Managers, AddGitdir(m)
    PROVE  IInv'
<1> USE DEF IInv, AddGitdir, Step, repository
<1>1. InWork(m) = {call[m].worktree} /\ \A n \in Managers : InWork(n)' = InWork(n)
  BY DEF TypeOK, InWork, AddSteps
<1>2. TypeOK'
  BY <1>1, InWorkIsNobodys DEF TypeOK, RepositoryOK, Steps, Calls
<1>3. CallInHand'
  BY <1>1 DEF TypeOK, CallInHand, AddSteps, MergeSteps
<1>4. OneHolder' /\ LocksHaveDirs'
  BY <1>1 DEF OneHolder, LocksHaveDirs, Hands
<1>5. KnownMatchesDisk'
  BY DEF KnownMatchesDisk, Locked
<1>6. LocksAsked'
  BY DEF TypeOK, LocksAsked, ByMerge, Locked, MergeSteps
<1> QED  BY <1>2, <1>3, <1>4, <1>5, <1>6

LEMMA AddHeadKeeps ==
    ASSUME IInv, NEW m \in Managers, AddHead(m)
    PROVE  IInv'
<1> USE DEF IInv, AddHead, Step, repository
<1>1. InWork(m) = {call[m].worktree} /\ \A n \in Managers : InWork(n)' = InWork(n)
  BY DEF TypeOK, InWork, AddSteps
<1>2. TypeOK'
  BY DEF TypeOK, RepositoryOK, Steps, Calls
<1>3. \A v \in Linked \ {call[m].worktree} : heads'[v] = heads[v]
  BY DEF TypeOK
<1>4. CallInHand'
  <2>1. heads'[call[m].worktree] = call[m].branch
    BY <1>1, InWorkIsNobodys DEF TypeOK
  <2>2. ASSUME NEW n \in Managers \ {m}, pc[n] \in AddSteps
        PROVE  call[n].worktree # call[m].worktree /\ call[n].worktree \in Linked
    BY <1>1, <2>2, InWorkIsNobodys DEF InWork
  <2> QED  BY <1>1, <1>3, <2>1, <2>2 DEF TypeOK, CallInHand, AddSteps, MergeSteps
<1>5. OneHolder' /\ LocksHaveDirs'
  BY <1>1 DEF OneHolder, LocksHaveDirs, Hands
<1>6. KnownMatchesDisk'
  BY <1>1, <1>3, InWorkIsNobodys DEF KnownMatchesDisk, Locked
<1>7. LocksAsked'
  BY DEF TypeOK, LocksAsked, ByMerge, Locked, MergeSteps
<1> QED  BY <1>2, <1>4, <1>5, <1>6, <1>7

LEMMA AddTrackKeeps ==
    ASSUME IInv, NEW m \in Managers, AddTrack(m)
    PROVE  IInv'
<1> DEFINE v == call[m].worktree
<1> USE DEF IInv, AddTrack, Step, repository, admin
<1>1. InWork(m) = {v} /\ InWork(m)' = {} /\ \A n \in Managers \ {m} : InWork(n)' = InWork(n)
  BY DEF TypeOK, InWork, AddSteps
<1>2. /\ v \in gitdirs /\ heads[v] = call[m].branch /\ v \notin lockFiles
      /\ v \in Linked /\ v \in dirs
  BY <1>1, InWorkIsNobodys DEF CallInHand, AddSteps
<1>3. /\ DOMAIN known'[m] = DOMAIN known[m] \cup {v}
      /\ known'[m][v] = [branch |-> call[m].branch, locked |-> FALSE]
      /\ \A w \in DOMAIN known[m] \ {v} : known'[m][w] = known[m][w]
      /\ \A n \in Managers \ {m} : known'[n] = known[n]
  BY DEF TypeOK
<1>4. known' \in [Managers -> Maps]
  <2>1. [branch |-> call[m].branch, locked |-> FALSE] \in Entries /\ v \in Worktrees
    BY DEF TypeOK, Calls, Entries
  <2>2. known[m] \in Maps
    BY DEF TypeOK
  <2>3. [w \in DOMAIN known[m] \cup {v} |->
           IF w = v THEN [branch |-> call[m].branch, locked |-> FALSE] ELSE known[m][w]] \in Maps
    BY <2>1, <2>2, MapWith
  <2> QED  BY <2>3 DEF TypeOK
<1>5. TypeOK'
  BY <1>3, <1>4 DEF TypeOK, RepositoryOK, Steps, Calls
<1>6. \A n \in Managers : Hands(n)' = Hands(n)
  BY <1>1, <1>2, <1>3 DEF Hands
<1>7. CallInHand'
  <2>1. ASSUME NEW n \in Managers \ {m}
        PROVE  /\ \A w \in InWork(n)' : w \in Linked /\ w \in dirs' /\ w \notin DOMAIN known'[n]
               /\ pc'[n] = pc[n]
    BY <1>1, <1>3 DEF TypeOK, CallInHand
  <2> QED  BY <1>1, <1>3, <2>1 DEF TypeOK, CallInHand, AddSteps, MergeSteps
<1>8. OneHolder' /\ LocksHaveDirs'
  BY <1>6 DEF OneHolder, LocksHaveDirs
<1>9. KnownMatchesDisk'
  BY <1>2, <1>3 DEF KnownMatchesDisk, Locked
<1>10. LocksAsked'
  BY <1>1, <1>3, InWorkIsNobodys DEF TypeOK, LocksAsked, ByMerge, Locked, MergeSteps
<1> QED  BY <1>5, <1>7, <1>8, <1>9, <1>10

LEMMA RemoveKeeps ==
    ASSUME IInv, NEW m \in Managers, NEW w \in Worktrees, Remove(m, w)
    PROVE  IInv'
<1> USE DEF IInv, Remove, Begin, repository, admin
<1>1. [NoCall EXCEPT !.worktree = w] \in Calls /\ call'[m].worktree = w
  BY NoCallTyped DEF TypeOK, Calls
<1>2. InWork(m)' = {w} /\ InWork(m) = {} /\ \A n \in Managers \ {m} : InWork(n)' = InWork(n)
  BY <1>1 DEF TypeOK, InWork, AddSteps
<1>3. /\ DOMAIN known'[m] = DOMAIN known[m] \ {w}
      /\ \A v \in DOMAIN known'[m] : known'[m][v] = known[m][v]
      /\ \A n \in Managers \ {m} : known'[n] = known[n]
  BY DEF TypeOK
<1>4. known' \in [Managers -> Maps]
  BY MapWithout DEF TypeOK
<1>5. TypeOK'
  <2>1. \A n \in Managers : pc'[n] # "closed" => Primary \in DOMAIN known'[n]
    BY <1>3, WorktreeAssumptions DEF WorktreeAssumptions, TypeOK
  <2>2. asked' \in [Managers -> SUBSET Worktrees] /\ call' \in [Managers -> Calls]
    BY <1>1 DEF TypeOK
  <2> QED  BY <1>4, <2>1, <2>2 DEF TypeOK, RepositoryOK, Steps, Calls
<1>6. \A n \in Managers : Hands(n)' = Hands(n)
  BY <1>2, <1>3 DEF Hands
<1>7. CallInHand'
  <2>1. w \in dirs
    BY KnownIsOnes
  <2> QED  BY <1>1, <1>2, <1>3, <2>1 DEF TypeOK, CallInHand, AddSteps, MergeSteps
<1>8. OneHolder' /\ LocksHaveDirs'
  BY <1>6 DEF OneHolder, LocksHaveDirs
<1>9. KnownMatchesDisk'
  BY <1>3 DEF KnownMatchesDisk, Locked
<1>10. LocksAsked'
  BY <1>3 DEF TypeOK, LocksAsked, ByMerge, Locked, MergeSteps
<1> QED  BY <1>5, <1>7, <1>8, <1>9, <1>10

LEMMA RemoveDirKeeps ==
    ASSUME IInv, NEW m \in Managers, RemoveDir(m)
    PROVE  IInv'
<1> DEFINE v == call[m].worktree
<1> USE DEF IInv, RemoveDir, Step, repository
<1>1. InWork(m) = {v} /\ InWork(m)' = {} /\ \A n \in Managers \ {m} : InWork(n)' = InWork(n)
  BY DEF TypeOK, InWork, AddSteps
<1>2. v \in Linked /\ \A n \in Managers : v \notin DOMAIN known[n]
  BY <1>1, InWorkIsNobodys
<1>3. \A w \in Linked \ {v} : heads'[w] = heads[w]
  BY DEF TypeOK
<1>4. TypeOK'
  BY DEF TypeOK, RepositoryOK, Steps, Calls
<1>5. CallInHand'
  <2>1. ASSUME NEW n \in Managers \ {m}
        PROVE  /\ v \notin InWork(n) /\ pc'[n] = pc[n]
               /\ pc[n] \in AddSteps => call[n].worktree \in InWork(n)
    BY <1>1, InWorkIsNobodys DEF TypeOK, InWork
  <2> QED  BY <1>1, <1>3, <2>1 DEF TypeOK, CallInHand, AddSteps, MergeSteps
<1>6. OneHolder' /\ LocksHaveDirs'
  BY <1>1 DEF OneHolder, LocksHaveDirs, Hands
<1>7. KnownMatchesDisk'
  BY <1>2, <1>3 DEF KnownMatchesDisk, Locked
<1>8. LocksAsked'
  BY DEF TypeOK, LocksAsked, ByMerge, Locked, MergeSteps
<1> QED  BY <1>4, <1>5, <1>6, <1>7, <1>8

LEMMA CloseKeeps ==
    ASSUME IInv, NEW m \in Managers, Close(m)
    PROVE  IInv'
<1> USE DEF IInv, Close, repository, admin
<1>1. /\ InWork(m)' = {} /\ DOMAIN known'[m] = {} /\ asked'[m] = {}
      /\ \A n \in Managers \ {m} : InWork(n)' = InWork(n) /\ known'[n] = known[n]
  BY DEF TypeOK, InWork, AddSteps, Nothing
<1>2. Nothing \in Maps
  <2>1. {} \in SUBSET Worktrees /\ Nothing \in [{} -> Entries]
    BY DEF Nothing
  <2> QED  BY <2>1, MapsFrom
<1>3. TypeOK'
  BY <1>2, NoCallTyped DEF TypeOK, RepositoryOK, Steps, Calls
<1>4. CallInHand'
  BY <1>1 DEF TypeOK, CallInHand, AddSteps, MergeSteps
<1>5. OneHolder' /\ LocksHaveDirs'
  BY <1>1 DEF OneHolder, LocksHaveDirs, Hands
<1>6. KnownMatchesDisk'
  BY <1>1 DEF KnownMatchesDisk, Locked
<1>7. LocksAsked'
  BY <1>1 DEF TypeOK, LocksAsked, ByMerge, Locked, MergeSteps
<1> QED  BY <1>3, <1>4, <1>5, <1>6, <1>7

LEMMA OpenKeeps ==
    ASSUME IInv, NEW m \in Managers, Open(m)
    PROVE  IInv'
<1> USE DEF IInv, Open, repository, admin
<1>1. /\ InWork(m)' = {} /\ DOMAIN known'[m] = {Primary} /\ known'[m] \in Maps
      /\ \A n \in Managers \ {m} : InWork(n)' = InWork(n) /\ known'[n] = known[n]
  <2>1. known'[m] = [w \in {Primary} |-> [branch |-> head, locked |-> FALSE]]
    BY DiscoveredIs DEF TypeOK
  <2>2. {Primary} \in SUBSET Worktrees /\ known'[m] \in [{Primary} -> Entries]
    <3>1. [branch |-> head, locked |-> FALSE] \in Entries
      BY DEF TypeOK, RepositoryOK, Entries
    <3> QED  BY <2>1, <3>1 DEF Worktrees
  <2>3. known'[m] \in Maps
    BY <2>2, MapsFrom
  <2> QED  BY <2>1, <2>3 DEF TypeOK, InWork, AddSteps
<1>2. TypeOK'
  BY <1>1 DEF TypeOK, RepositoryOK, Steps, Calls
<1>3. CallInHand'
  BY <1>1 DEF TypeOK, CallInHand, AddSteps, MergeSteps
<1>4. Primary \notin Linked
  BY WorktreeAssumptions DEF WorktreeAssumptions
<1>5. OneHolder' /\ LocksHaveDirs'
  BY <1>1, <1>4 DEF OneHolder, LocksHaveDirs, Hands
<1>6. KnownMatchesDisk'
  BY <1>1, <1>4 DEF KnownMatchesDisk, Locked
<1>7. LocksAsked'
  BY <1>1, <1>4 DEF TypeOK, LocksAsked, ByMerge, Locked, MergeSteps
<1> QED  BY <1>2, <1>3, <1>5, <1>6, <1>7

-----------------------------------------------------------------------------
(* Steps that change a lock                                                *)

(* One manager's entry for v gets another lock flag, and the lock file is  *)
(* written or removed with it.                                             *)
LEMMA LockChanges ==
    ASSUME IInv, NEW m \in Managers, NEW v \in DOMAIN known[m], NEW value \in BOOLEAN,
           SetLocked(m, v, value)
    PROVE  /\ known' \in [Managers -> Maps]
           /\ \A n \in Managers : DOMAIN known'[n] = DOMAIN known[n]
           /\ \A n \in Managers, w \in Worktrees :
                w \in DOMAIN known[n] =>
                  /\ known'[n][w].branch = known[n][w].branch
                  /\ <<n, w>> # <<m, v>> => known'[n][w].locked = known[n][w].locked
           /\ known'[m][v].locked = value
<1>1. known[m] \in Maps /\ known' = [known EXCEPT ![m] = [known[m] EXCEPT ![v].locked = value]]
  BY DEF IInv, TypeOK, SetLocked
<1>2. known'[m] = [known[m] EXCEPT ![v].locked = value]
      /\ \A n \in Managers \ {m} : known'[n] = known[n]
  BY <1>1 DEF IInv, TypeOK
<1>3. known'[m] \in Maps
  BY <1>1, <1>2, MapLocked
<1> QED  BY <1>1, <1>2, <1>3, MapLocked DEF IInv, TypeOK

(* What holds after a change of v's lock, whatever the step does besides   *)
(* that.                                                                   *)
LEMMA LockStep ==
    ASSUME IInv, NEW m \in Managers, NEW v \in DOMAIN known[m], NEW value \in BOOLEAN,
           SetLocked(m, v, value),
           lockFiles' = IF value THEN lockFiles \cup {v} ELSE lockFiles \ {v},
           UNCHANGED <<dirs, gitdirs, heads>>,
           \A n \in Managers : InWork(n)' = InWork(n)
    PROVE  /\ lockFiles' \subseteq Worktrees
           /\ \A n \in Managers : pc[n] \in AddSteps =>
                                    (call[n].worktree \in lockFiles' <=> call[n].worktree \in lockFiles)
           /\ OneHolder' /\ LocksHaveDirs' /\ KnownMatchesDisk'
<1>1. v \in Worktrees
  BY MapsHave DEF IInv, TypeOK
<1>2. /\ \A n \in Managers : DOMAIN known'[n] = DOMAIN known[n]
      /\ \A n \in Managers, w \in Worktrees :
           w \in DOMAIN known[n] =>
             /\ known'[n][w].branch = known[n][w].branch
             /\ <<n, w>> # <<m, v>> => known'[n][w].locked = known[n][w].locked
      /\ known'[m][v].locked = value
  BY LockChanges
<1>3. lockFiles' \subseteq Worktrees
  BY <1>1 DEF IInv, TypeOK
<1>4. ASSUME NEW n \in Managers, pc[n] \in AddSteps
      PROVE  call[n].worktree # v
  BY <1>4, InWorkIsNobodys DEF InWork
<1>5. OneHolder' /\ LocksHaveDirs'
  BY <1>1, <1>2, KnownIsOnes DEF IInv, OneHolder, LocksHaveDirs, Hands
<1>6. KnownMatchesDisk'
  <2> SUFFICES ASSUME NEW n \in Managers, NEW w \in DOMAIN known[n] \cap Linked
               PROVE  /\ w \in dirs /\ w \in gitdirs
                      /\ heads[w] = known'[n][w].branch
                      /\ known'[n][w].locked <=> w \in lockFiles'
    BY <1>2 DEF KnownMatchesDisk, Locked
  <2>1. /\ w \in dirs /\ w \in gitdirs /\ w \in Worktrees
        /\ heads[w] = known[n][w].branch
        /\ known[n][w].locked <=> w \in lockFiles
    BY DEF IInv, KnownMatchesDisk, Locked, Worktrees
  <2>2. CASE w = v
    <3>1. n = m
      BY <2>2, KnownIsOnes
    <3> QED  BY <1>2, <2>1, <2>2, <3>1
  <2>3. CASE w # v
    BY <1>2, <2>1, <2>3
  <2> QED  BY <2>2, <2>3
<1> QED  BY <1>3, <1>4, <1>5, <1>6

LEMMA LockKeeps ==
    ASSUME IInv, NEW m \in Managers, NEW w \in Worktrees, Lock(m, w)
    PROVE  IInv'
<1> USE DEF IInv, Lock, Begin, repository
<1>1. /\ SetLocked(m, w, TRUE) /\ lockFiles' = lockFiles \cup {w} /\ w \in DOMAIN known[m]
      /\ dirs' = dirs /\ gitdirs' = gitdirs /\ heads' = heads
  BY DEF WriteLock
<1>2. /\ call'[m] = NoCall /\ pc'[m] = "idle" /\ pc[m] = "idle"
      /\ asked'[m] = asked[m] \cup {w}
      /\ \A n \in Managers \ {m} : call'[n] = call[n] /\ pc'[n] = pc[n] /\ asked'[n] = asked[n]
  BY DEF TypeOK
<1>3. \A n \in Managers : InWork(n)' = InWork(n)
  BY <1>2 DEF InWork, AddSteps
<1>4. /\ known' \in [Managers -> Maps]
      /\ \A n \in Managers : DOMAIN known'[n] = DOMAIN known[n]
      /\ \A n \in Managers, v \in Worktrees :
           v \in DOMAIN known[n] =>
             /\ known'[n][v].branch = known[n][v].branch
             /\ <<n, v>> # <<m, w>> => known'[n][v].locked = known[n][v].locked
      /\ known'[m][w].locked
  BY <1>1, LockChanges
<1>5. /\ lockFiles' \subseteq Worktrees
      /\ \A n \in Managers : pc[n] \in AddSteps =>
                               (call[n].worktree \in lockFiles' <=> call[n].worktree \in lockFiles)
      /\ OneHolder' /\ LocksHaveDirs' /\ KnownMatchesDisk'
  <2>1. lockFiles' = IF TRUE THEN lockFiles \cup {w} ELSE lockFiles \ {w}
    BY <1>1
  <2> QED  BY <1>1, <1>3, <2>1, LockStep
<1>6. TypeOK'
  <2>1. call' \in [Managers -> Calls] /\ asked' \in [Managers -> SUBSET Worktrees]
    BY NoCallTyped DEF TypeOK
  <2> QED  BY <1>1, <1>2, <1>4, <1>5, <2>1 DEF TypeOK, RepositoryOK, Steps, Calls
<1>7. CallInHand'
  BY <1>1, <1>2, <1>3, <1>4, <1>5 DEF CallInHand, AddSteps, MergeSteps
<1>8. LocksAsked'
  BY <1>1, <1>2, <1>4 DEF LocksAsked, ByMerge, Locked, MergeSteps, Worktrees
<1> QED  BY <1>5, <1>6, <1>7, <1>8

LEMMA UnlockKeeps ==
    ASSUME IInv, NEW m \in Managers, NEW w \in Worktrees, Unlock(m, w)
    PROVE  IInv'
<1> USE DEF IInv, Unlock, Begin, repository
<1>1. /\ call'[m] = NoCall /\ pc'[m] = "idle" /\ pc[m] = "idle" /\ w \in DOMAIN known[m]
      /\ \A n \in Managers \ {m} : call'[n] = call[n] /\ pc'[n] = pc[n]
  BY DEF TypeOK
<1>2. \A n \in Managers : InWork(n)' = InWork(n)
  BY <1>1 DEF InWork, AddSteps
<1>3. call' \in [Managers -> Calls]
  BY NoCallTyped DEF TypeOK
<1>4. CASE /\ lockFiles' = lockFiles \ {w} /\ SetLocked(m, w, FALSE)
           /\ UNCHANGED <<dirs, gitdirs, heads>>
  <2>1. /\ known' \in [Managers -> Maps]
        /\ \A n \in Managers : DOMAIN known'[n] = DOMAIN known[n]
        /\ \A n \in Managers, v \in Worktrees :
             v \in DOMAIN known[n] =>
               /\ known'[n][v].branch = known[n][v].branch
               /\ <<n, v>> # <<m, w>> => known'[n][v].locked = known[n][v].locked
        /\ known'[m][w].locked = FALSE
    BY <1>1, <1>4, LockChanges
  <2>2. /\ lockFiles' \subseteq Worktrees
        /\ \A n \in Managers : pc[n] \in AddSteps =>
                                 (call[n].worktree \in lockFiles' <=> call[n].worktree \in lockFiles)
        /\ OneHolder' /\ LocksHaveDirs' /\ KnownMatchesDisk'
    <3>1. lockFiles' = IF FALSE THEN lockFiles \cup {w} ELSE lockFiles \ {w}
      BY <1>4
    <3> QED  BY <1>1, <1>2, <1>4, <3>1, LockStep
  <2>3. /\ asked'[m] = asked[m] \ {w} /\ asked' \in [Managers -> SUBSET Worktrees]
        /\ \A n \in Managers \ {m} : asked'[n] = asked[n]
    BY <2>1 DEF TypeOK
  <2>4. TypeOK'
    BY <1>1, <1>3, <1>4, <2>1, <2>2, <2>3 DEF TypeOK, RepositoryOK, Steps, Calls
  <2>5. CallInHand'
    BY <1>1, <1>2, <1>4, <2>1, <2>2 DEF CallInHand, AddSteps, MergeSteps
  <2>6. LocksAsked'
    BY <1>1, <2>1, <2>3 DEF LocksAsked, ByMerge, Locked, MergeSteps, Worktrees
  <2> QED  BY <2>2, <2>4, <2>5, <2>6
<1>5. CASE UNCHANGED <<admin, known>>
  <2>1. asked' = asked
    BY <1>5 DEF Locked
  <2>2. TypeOK' /\ CallInHand'
    BY <1>1, <1>2, <1>3, <1>5, <2>1
       DEF TypeOK, RepositoryOK, Steps, Calls, CallInHand, AddSteps, MergeSteps, admin
  <2>3. OneHolder' /\ LocksHaveDirs' /\ KnownMatchesDisk'
    BY <1>2, <1>5 DEF OneHolder, Hands, LocksHaveDirs, KnownMatchesDisk, Locked, admin
  <2>4. LocksAsked'
    BY <1>1, <1>5, <2>1 DEF LocksAsked, ByMerge, Locked, MergeSteps
  <2> QED  BY <2>2, <2>3, <2>4
<1> QED  BY <1>4, <1>5 DEF RemoveLock

-----------------------------------------------------------------------------
(* The merges                                                              *)

LEMMA MergeKeeps ==
    ASSUME IInv, NEW m \in Managers, NEW w \in Worktrees, NEW t \in Branches,
           NEW legacy \in BOOLEAN, Merge(m, w, t, legacy)
    PROVE  IInv'
<1> DEFINE what == [NoCall EXCEPT !.worktree = w, !.branch = known[m][w].branch, !.target = t,
                               !.flag = ~Locked(m, w), !.legacy = legacy]
<1> USE DEF IInv
<1>1. w \in DOMAIN known[m] /\ known[m][w] \in Entries
  BY MapsHave DEF TypeOK, Merge
<1>2. what \in Calls /\ what.worktree = w /\ (what.flag <=> ~Locked(m, w))
  <2>1. known[m][w].branch \in Branches /\ (~Locked(m, w)) \in BOOLEAN
    <3>1. known[m][w].locked \in BOOLEAN
      BY <1>1 DEF Entries
    <3>2. (~Locked(m, w)) \in BOOLEAN
      BY <3>1 DEF Locked
    <3> QED  BY <1>1, <3>2 DEF Entries
  <2> HIDE DEF IInv
  <2>2. NoCall \in Calls
    BY NoCallTyped DEF IInv
  <2> QED  BY <2>1, <2>2 DEF Calls
<1> HIDE DEF what
<1>3. /\ call'[m] = what /\ pc'[m] = "merge_store" /\ pc[m] = "idle"
      /\ \A n \in Managers \ {m} : call'[n] = call[n] /\ pc'[n] = pc[n]
      /\ call' \in [Managers -> Calls]
      /\ pc' \in [Managers -> Steps]
      /\ calls' = calls + 1 /\ UNCHANGED <<parents, refs, head, asked>>
  BY <1>2 DEF TypeOK, Steps, what, Merge, Begin, repository
<1>4. \A n \in Managers : InWork(n)' = InWork(n)
  BY <1>3 DEF InWork, AddSteps
<1>5. CASE ~Locked(m, w) /\ WriteLock(m, w)
  <2>1. SetLocked(m, w, TRUE) /\ lockFiles' = lockFiles \cup {w} /\ UNCHANGED <<dirs, gitdirs, heads>>
    BY <1>5 DEF WriteLock
  <2>2. /\ known' \in [Managers -> Maps]
        /\ \A n \in Managers : DOMAIN known'[n] = DOMAIN known[n]
        /\ \A n \in Managers, v \in Worktrees :
             v \in DOMAIN known[n] =>
               /\ known'[n][v].branch = known[n][v].branch
               /\ <<n, v>> # <<m, w>> => known'[n][v].locked = known[n][v].locked
        /\ known'[m][w].locked
    BY <1>1, <2>1, LockChanges
  <2>3. /\ lockFiles' \subseteq Worktrees
        /\ \A n \in Managers : pc[n] \in AddSteps =>
                                 (call[n].worktree \in lockFiles' <=> call[n].worktree \in lockFiles)
        /\ OneHolder' /\ LocksHaveDirs' /\ KnownMatchesDisk'
    <3>1. lockFiles' = IF TRUE THEN lockFiles \cup {w} ELSE lockFiles \ {w}
      BY <2>1
    <3> QED  BY <1>1, <1>4, <2>1, <3>1, LockStep
  <2>4. TypeOK'
    <3>1. RepositoryOK' /\ call' \in [Managers -> Calls']
      BY <1>3 DEF TypeOK, RepositoryOK, Calls
    <3>2. \A n \in Managers : pc'[n] # "closed" => Primary \in DOMAIN known'[n]
      BY <1>3, <2>2 DEF TypeOK
    <3> QED  BY <1>3, <2>1, <2>2, <2>3, <3>1, <3>2 DEF TypeOK
  <2>5. CallInHand'
    BY <1>1, <1>2, <1>3, <1>4, <2>1, <2>2, <2>3 DEF CallInHand, AddSteps, MergeSteps
  <2>6. LocksAsked'
    BY <1>2, <1>3, <1>5, <2>2 DEF LocksAsked, ByMerge, Locked, MergeSteps, Worktrees
  <2> QED  BY <2>3, <2>4, <2>5, <2>6
<1>6. CASE Locked(m, w) /\ UNCHANGED <<admin, known>>
  <2>1. TypeOK'
    <3>1. RepositoryOK' /\ call' \in [Managers -> Calls']
      BY <1>3 DEF TypeOK, RepositoryOK, Calls
    <3>2. \A n \in Managers : pc'[n] # "closed" => Primary \in DOMAIN known'[n]
      BY <1>3, <1>6 DEF TypeOK
    <3> QED  BY <1>3, <1>6, <3>1, <3>2 DEF TypeOK, admin
  <2>2. CallInHand'
    BY <1>1, <1>2, <1>3, <1>4, <1>6 DEF CallInHand, AddSteps, MergeSteps, admin
  <2>3. OneHolder' /\ LocksHaveDirs' /\ KnownMatchesDisk'
    BY <1>4, <1>6 DEF OneHolder, Hands, LocksHaveDirs, KnownMatchesDisk, Locked, admin
  <2>4. LocksAsked'
    BY <1>2, <1>3, <1>6 DEF LocksAsked, ByMerge, Locked, MergeSteps
  <2> QED  BY <2>1, <2>2, <2>3, <2>4
<1> QED  BY <1>5, <1>6 DEF Merge

LEMMA MergeUnlockKeeps ==
    ASSUME IInv, NEW m \in Managers, MergeUnlock(m)
    PROVE  IInv'
<1> DEFINE w == call[m].worktree
<1> USE DEF IInv, MergeUnlock, Step, repository
<1>1. /\ pc'[m] = "idle" /\ pc[m] = "merge_unlock" /\ w \in DOMAIN known[m] /\ w \in Worktrees
      /\ \A n \in Managers \ {m} : pc'[n] = pc[n]
  BY MapsHave DEF TypeOK, CallInHand, MergeSteps
<1>2. \A n \in Managers : InWork(n)' = InWork(n)
  BY <1>1 DEF InWork, AddSteps
<1>3. CASE /\ call[m].flag
           /\ lockFiles' = lockFiles \ {w} /\ SetLocked(m, w, FALSE)
           /\ UNCHANGED <<dirs, gitdirs, heads>>
  <2>1. /\ known' \in [Managers -> Maps]
        /\ \A n \in Managers : DOMAIN known'[n] = DOMAIN known[n]
        /\ \A n \in Managers, v \in Worktrees :
             v \in DOMAIN known[n] =>
               /\ known'[n][v].branch = known[n][v].branch
               /\ <<n, v>> # <<m, w>> => known'[n][v].locked = known[n][v].locked
        /\ known'[m][w].locked = FALSE
    BY <1>1, <1>3, LockChanges
  <2>2. /\ lockFiles' \subseteq Worktrees
        /\ \A n \in Managers : pc[n] \in AddSteps =>
                                 (call[n].worktree \in lockFiles' <=> call[n].worktree \in lockFiles)
        /\ OneHolder' /\ LocksHaveDirs' /\ KnownMatchesDisk'
    <3>1. lockFiles' = IF FALSE THEN lockFiles \cup {w} ELSE lockFiles \ {w}
      BY <1>3
    <3> QED  BY <1>1, <1>2, <1>3, <3>1, LockStep
  <2>3. TypeOK'
    BY <1>1, <1>3, <2>1, <2>2 DEF TypeOK, RepositoryOK, Steps, Calls
  <2>4. CallInHand'
    BY <1>1, <1>2, <1>3, <2>1, <2>2 DEF CallInHand, AddSteps, MergeSteps
  <2>5. LocksAsked'
    BY <1>1, <1>3, <2>1 DEF LocksAsked, ByMerge, Locked, MergeSteps, Worktrees
  <2> QED  BY <2>2, <2>3, <2>4, <2>5
<1>4. CASE UNCHANGED <<admin, known>> /\ (call[m].flag => ~(Locked(m, w) /\ w \in lockFiles))
  <2>1. TypeOK'
    BY <1>1, <1>4 DEF TypeOK, RepositoryOK, Steps, Calls, admin
  <2>2. CallInHand'
    BY <1>1, <1>2, <1>4 DEF CallInHand, AddSteps, MergeSteps, admin
  <2>3. OneHolder' /\ LocksHaveDirs' /\ KnownMatchesDisk'
    BY <1>2, <1>4 DEF OneHolder, Hands, LocksHaveDirs, KnownMatchesDisk, Locked, admin
  <2>4. LocksAsked'
    <3>1. w \in Linked => ~call[m].flag
      BY <1>1, <1>4 DEF KnownMatchesDisk, LocksAsked, ByMerge, MergeSteps
    <3> QED  BY <1>1, <1>4, <3>1 DEF LocksAsked, ByMerge, Locked, MergeSteps
  <2> QED  BY <2>1, <2>2, <2>3, <2>4
<1> QED  BY <1>3, <1>4 DEF RemoveLock

-----------------------------------------------------------------------------
(* Steps that change the repository alone                                  *)

(* A step that leaves the administrative files alone need only bring its   *)
(* call to a step that demands no more of them.                            *)
LEMMA RepositoryStep ==
    ASSUME IInv, UNCHANGED <<admin, known, asked>>, RepositoryOK',
           call' \in [Managers -> Calls'], pc' \in [Managers -> Steps], calls' \in Nat,
           \A n \in Managers :
             \/ pc'[n] = pc[n] /\ call'[n] = call[n]
             \/ /\ pc[n] \in MergeSteps /\ pc'[n] \in MergeSteps
                /\ call'[n].worktree = call[n].worktree /\ call'[n].flag = call[n].flag
             \/ pc[n] = "add_branch" /\ pc'[n] \in {"add_track", "idle"} /\ call'[n] = call[n]
             \/ pc[n] = "idle" /\ pc'[n] = "idle"
    PROVE  IInv'
<1> USE DEF IInv, admin
<1>1. TypeOK'
  BY DEF TypeOK, MergeSteps
<1>2. \A n \in Managers : InWork(n)' \subseteq InWork(n)
  BY DEF InWork, AddSteps, MergeSteps
<1>3. CallInHand'
  BY <1>2 DEF CallInHand, AddSteps, MergeSteps
<1>4. OneHolder' /\ LocksHaveDirs'
  BY <1>2 DEF OneHolder, Hands, LocksHaveDirs
<1>5. KnownMatchesDisk'
  BY DEF KnownMatchesDisk, Locked
<1>6. LocksAsked'
  <2>1. \A n \in Managers, w \in Worktrees : ByMerge(n, w)' <=> ByMerge(n, w)
    BY DEF ByMerge, MergeSteps
  <2>2. \A n \in Managers : pc'[n] = "closed" => pc[n] = "closed"
    BY DEF MergeSteps
  <2> QED  BY <2>1, <2>2 DEF LocksAsked, Locked, Worktrees
<1> QED  BY <1>1, <1>3, <1>4, <1>5, <1>6

LEMMA CallsGrow ==
    ASSUME Len(parents) \in Nat, Len(parents') \in Nat, Len(parents) <= Len(parents'),
           NEW c \in Calls
    PROVE  c \in Calls'
BY DEF Calls

LEMMA CommitTyped ==
    ASSUME RepositoryOK, NEW b \in Branches, NEW n \in {1, 2}, CommitOn(b, n), head' \in Branches
    PROVE  /\ RepositoryOK'
           /\ Len(parents) \in Nat /\ Len(parents') \in Nat /\ Len(parents) <= Len(parents')
<1> DEFINE l == Len(parents)
           new == [i \in 1..n |-> IF i = 1 THEN ParentsOfNew(b) ELSE {l + i - 1}]
<1>1. l \in Nat /\ parents \in Seq(SUBSET Nat) /\ refs[b] \in 0..l
  BY DEF RepositoryOK
<1>2. ParentsOfNew(b) \in SUBSET Nat /\ ParentsOfNew(b) \subseteq 1..l
  BY <1>1 DEF ParentsOfNew
<1>3. new \in Seq(SUBSET Nat) /\ Len(new) = n /\ \A i \in 1..n : new[i] \subseteq 1..(l + i - 1)
  <2>1. \A i \in 1..n : (IF i = 1 THEN ParentsOfNew(b) ELSE {l + i - 1}) \in SUBSET Nat
    BY <1>1, <1>2
  <2>2. new \in [1..n -> SUBSET Nat]
    BY <2>1
  <2>3. new \in Seq(SUBSET Nat) /\ Len(new) = n
    BY <2>2
  <2> QED  BY <1>1, <1>2, <2>3
<1>4. parents' = parents \o new /\ refs' = [refs EXCEPT ![b] = l + n]
  BY DEF CommitOn
<1> HIDE DEF new
<1>5. parents' \in Seq(SUBSET Nat) /\ Len(parents') = l + n
  BY <1>1, <1>3, <1>4
<1>6. ASSUME NEW c \in 1..Len(parents')
      PROVE  parents'[c] \subseteq 1..(c - 1)
  <2>1. CASE c <= l
    BY <1>1, <1>3, <1>4, <1>5, <2>1 DEF RepositoryOK
  <2>2. CASE c > l
    <3>1. c - l \in 1..n /\ parents'[c] = new[c - l]
      BY <1>1, <1>3, <1>4, <1>5, <2>2
    <3> QED  BY <1>1, <1>3, <3>1
  <2> QED  BY <1>1, <1>5, <2>1, <2>2
<1>7. refs' \in [Branches -> 0..Len(parents')]
  BY <1>1, <1>4, <1>5 DEF RepositoryOK
<1> QED  BY <1>1, <1>5, <1>6, <1>7 DEF RepositoryOK

LEMMA StoreMergeTyped ==
    ASSUME TypeOK, NEW s \in Branches, NEW t \in Branches, NEW n \in {1, 2}, StoreMerge(s, t, n)
    PROVE  /\ RepositoryOK'
           /\ \A c \in Calls : c \in Calls'
<1>1. RepositoryOK /\ head' \in Branches /\ Len(parents) \in Nat
  BY DEF TypeOK, RepositoryOK, StoreMerge, Switched
<1>2. CASE CommitOn(t, n)
  BY <1>1, <1>2, CommitTyped, CallsGrow
<1>3. CASE UNCHANGED <<parents, refs>>
  BY <1>1, <1>3 DEF RepositoryOK, Calls
<1> QED  BY <1>2, <1>3 DEF StoreMerge

LEMMA MergeStoreKeeps ==
    ASSUME IInv, NEW m \in Managers, MergeStore(m)
    PROVE  IInv'
<1> USE DEF MergeStore, Step
<1>1. TypeOK /\ call[m].branch \in Branches /\ call[m].target \in Branches
  BY DEF IInv, TypeOK, Calls
<1>2. RepositoryOK' /\ \A c \in Calls : c \in Calls'
  BY <1>1, StoreMergeTyped
<1>3. call' \in [Managers -> Calls'] /\ pc' \in [Managers -> Steps] /\ calls' \in Nat
  BY <1>1, <1>2 DEF TypeOK, Steps
<1> QED  BY <1>1, <1>2, <1>3, RepositoryStep DEF TypeOK, MergeSteps

LEMMA MergeStoreFailsKeeps ==
    ASSUME IInv, NEW m \in Managers, MergeStoreFails(m)
    PROVE  IInv'
<1> USE DEF MergeStoreFails, Step
<1>1. TypeOK /\ call[m].target \in Branches
  BY DEF IInv, TypeOK, Calls
<1>2. RepositoryOK'
  BY <1>1 DEF TypeOK, RepositoryOK, Switched
<1>3. call' \in [Managers -> Calls'] /\ pc' \in [Managers -> Steps] /\ calls' \in Nat
  BY <1>1 DEF TypeOK, Steps, Calls
<1> QED  BY <1>1, <1>2, <1>3, RepositoryStep DEF TypeOK, MergeSteps

LEMMA MergeReadKeeps ==
    ASSUME IInv, NEW m \in Managers, MergeRead(m)
    PROVE  IInv'
<1> USE DEF MergeRead, repository
<1>1. TypeOK /\ call[m].branch \in Branches /\ call[m] \in Calls
  BY DEF IInv, TypeOK, Calls
<1>2. RepositoryOK'
  BY <1>1 DEF TypeOK, RepositoryOK
<1>3. /\ [call[m] EXCEPT !.commit = refs[call[m].branch]] \in Calls
      /\ call'[m] = [call[m] EXCEPT !.commit = refs[call[m].branch]]
  BY <1>1 DEF TypeOK, RepositoryOK, Calls
<1>4. /\ call' \in [Managers -> Calls'] /\ pc' \in [Managers -> Steps] /\ calls' \in Nat
      /\ call'[m].worktree = call[m].worktree /\ call'[m].flag = call[m].flag
  BY <1>1, <1>3 DEF TypeOK, Steps, Calls
<1> QED  BY <1>1, <1>2, <1>4, RepositoryStep DEF TypeOK, MergeSteps

LEMMA MergeWriteKeeps ==
    ASSUME IInv, NEW m \in Managers, MergeWrite(m)
    PROVE  IInv'
<1> USE DEF MergeWrite, Step
<1>1. TypeOK /\ call[m].target \in Branches /\ call[m].commit \in 0..Len(parents)
  BY DEF IInv, TypeOK, Calls
<1>2. RepositoryOK'
  BY <1>1 DEF TypeOK, RepositoryOK
<1>3. call' \in [Managers -> Calls'] /\ pc' \in [Managers -> Steps] /\ calls' \in Nat
  BY <1>1 DEF TypeOK, Steps, Calls
<1> QED  BY <1>1, <1>2, <1>3, RepositoryStep DEF TypeOK, MergeSteps

LEMMA WorktreeMergeKeeps ==
    ASSUME IInv, NEW m \in Managers, NEW t \in Branches, NEW n \in {1, 2}, WorktreeMerge(m, t, n)
    PROVE  IInv'
<1> USE DEF WorktreeMerge, Begin
<1>1. TypeOK /\ known[m][Primary].branch \in Branches
  <2>1. known[m] \in Maps /\ Primary \in DOMAIN known[m]
    BY DEF IInv, TypeOK
  <2>2. known[m][Primary] \in Entries
    BY <2>1, MapsHave
  <2> QED  BY <2>2 DEF IInv, Entries
<1>2. RepositoryOK' /\ \A c \in Calls : c \in Calls'
  BY <1>1, StoreMergeTyped
<1>3. call' \in [Managers -> Calls'] /\ pc' \in [Managers -> Steps] /\ calls' \in Nat
  BY <1>1, <1>2, NoCallTyped DEF TypeOK, Steps
<1> QED  BY <1>1, <1>2, <1>3, RepositoryStep DEF TypeOK

LEMMA AddBranchKeeps ==
    ASSUME IInv, NEW m \in Managers, AddBranch(m) \/ AddBranchFails(m)
    PROVE  IInv'
<1> USE DEF AddBranch, AddBranchFails, Step, repository
<1>1. TypeOK /\ call[m].branch \in Branches
  BY DEF IInv, TypeOK, Calls
<1>2. RepositoryOK'
  BY <1>1 DEF TypeOK, RepositoryOK
<1>3. call' \in [Managers -> Calls'] /\ pc' \in [Managers -> Steps] /\ calls' \in Nat
  BY <1>1 DEF TypeOK, Steps, Calls
<1> QED  BY <1>1, <1>2, <1>3, RepositoryStep DEF TypeOK

LEMMA StoreKeeps ==
    ASSUME IInv, StoreCommit \/ \E b \in Branches : StoreBranch(b) \/ StoreCheckout(b)
    PROVE  IInv'
<1>1. TypeOK /\ head \in Branches
  BY DEF IInv, TypeOK, RepositoryOK
<1>2. /\ RepositoryOK' /\ (\A c \in Calls : c \in Calls') /\ calls' \in Nat
      /\ UNCHANGED <<admin, known, pc, call, asked>>
  <2>1. CASE StoreCommit
    BY <1>1, <2>1, CommitTyped, CallsGrow DEF StoreCommit, TypeOK
  <2>2. CASE \E b \in Branches : StoreBranch(b) \/ StoreCheckout(b)
    BY <1>1, <2>2 DEF StoreBranch, StoreCheckout, TypeOK, RepositoryOK, Calls
  <2> QED  BY <2>1, <2>2
<1>3. call' \in [Managers -> Calls'] /\ pc' \in [Managers -> Steps]
  BY <1>1, <1>2 DEF TypeOK
<1> QED  BY <1>2, <1>3, RepositoryStep

-----------------------------------------------------------------------------
LEMMA NextKeeps == IInv /\ [Next]_vars => IInv'
<1> SUFFICES ASSUME IInv, [Next]_vars PROVE IInv'
  OBVIOUS
<1>1. ASSUME NEW m \in Managers, BeginCall(m)
      PROVE  IInv'
  <2>1. CASE Open(m)
    BY <2>1, OpenKeeps
  <2>2. CASE \E w \in Linked, b \in Branches, create \in BOOLEAN : Add(m, w, b, create)
    BY <2>2, AddKeeps
  <2>3. CASE \E w \in Worktrees : Remove(m, w) \/ Lock(m, w) \/ Unlock(m, w)
    BY <2>3, RemoveKeeps, LockKeeps, UnlockKeeps
  <2>4. CASE \E w \in Worktrees : MergeToMain(m, w) \/ \E t \in Branches : MergeBranch(m, w, t)
    <3>1. \E w \in Worktrees, t \in Branches : Merge(m, w, t, TRUE)
      BY <2>4, WorktreeAssumptions DEF WorktreeAssumptions, MergeToMain, MergeBranch
    <3> QED  BY <3>1, MergeKeeps
  <2>5. CASE \E t \in Branches : MergeWithStore(m, t)
    <3>1. PICK t \in Branches : Merge(m, Primary, t, FALSE)
      BY <2>5 DEF MergeWithStore
    <3>2. Primary \in Worktrees /\ FALSE \in BOOLEAN
      BY DEF Worktrees
    <3> QED  BY <3>1, <3>2, MergeKeeps
  <2>6. CASE \E t \in Branches, n \in {1, 2} : WorktreeMerge(m, t, n)
    BY <2>6, WorktreeMergeKeeps
  <2> QED  BY <1>1, <2>1, <2>2, <2>3, <2>4, <2>5, <2>6 DEF BeginCall
<1>2. ASSUME NEW m \in Managers, Continue(m)
      PROVE  IInv'
  BY <1>2, AddGitdirKeeps, AddHeadKeeps, AddBranchKeeps, AddTrackKeeps, RemoveDirKeeps,
     MergeStoreKeeps, MergeStoreFailsKeeps, MergeReadKeeps, MergeWriteKeeps, MergeUnlockKeeps
     DEF Continue
<1>3. CASE UNCHANGED vars
  <2>1. /\ UNCHANGED <<parents, refs, head, admin, known, pc, call, asked, calls>>
        /\ TypeOK
    BY <1>3 DEF vars, repository, IInv
  <2>2. RepositoryOK'
    BY <2>1 DEF TypeOK, RepositoryOK
  <2>3. call' \in [Managers -> Calls'] /\ pc' \in [Managers -> Steps] /\ calls' \in Nat
    BY <2>1 DEF TypeOK, Calls
  <2> QED  BY <2>1, <2>2, <2>3, RepositoryStep
<1> QED  BY <1>1, <1>2, <1>3, CloseKeeps, StoreKeeps DEF Next

LEMMA Invariance == Spec => []IInv
BY InitIInv, NextKeeps, PTL DEF Spec

(* Commits refer to earlier ones, refs to commits that were written, and a *)
(* manager's call, map and locks are within its worktrees: the merges and  *)
(* the fallback that writes a ref it read two steps before included.       *)
THEOREM WorktreesTyped == Spec => []TypeOK
<1>1. IInv => TypeOK
  BY DEF IInv
<1> QED  BY <1>1, Invariance, PTL

(* What a manager knows of a linked worktree is on disk, with any number   *)
(* of managers in add_worktree, remove_worktree, lock, unlock and the      *)
(* merges at once, and wherever processes have died.                       *)
THEOREM MemoryIsDisk == Spec => []KnownMatchesDisk
<1>1. IInv => KnownMatchesDisk
  BY DEF IInv
<1> QED  BY <1>1, Invariance, PTL

(* Between calls a linked worktree is locked in memory exactly if the      *)
(* client locked it: every merge of the manager returns the lock it took.  *)
THEOREM LocksComeBack == Spec => []MergeReturnsLock
<1>1. IInv => MergeReturnsLock
  BY DEF IInv, LocksAsked, ByMerge, MergeSteps, MergeReturnsLock
<1> QED  BY <1>1, Invariance, PTL
=============================================================================

-------------------------- MODULE StoreRefinement --------------------------
(***************************************************************************)
(* VersionedStore, without faults, implements BranchedMap.                 *)
(***************************************************************************)
EXTENDS VersionedStore

(* The maps on the way from the first commit to c.                         *)
Log(c) ==
    LET log[d \in 0..Len(commits)] ==
          IF d = 0 THEN <<>>
          ELSE Append(log[IF commits[d].parents = {} THEN 0
                          ELSE CHOOSE p \in commits[d].parents : TRUE],
                      commits[d].map)
    IN  log[c]

InCheckout == pc \in {"checkout_head", "checkout_reload", "checkout_rebuild"}

(* A checkout takes effect when it has found the ref and a merge when it   *)
(* has resolved its conflicts, though the tree is rebuilt or changed key   *)
(* by key after that; between processes the disk stands for the view.      *)
ShownMap ==
    CASE pc = "closed" -> Reopened
      [] InCheckout -> commits[RefOf(Target(branch))].map
      [] pc = "merge_apply" -> Override(tree, todo)
      [] OTHER -> Shown

CurrentBranch == IF pc = "closed" THEN head ELSE branch

Abstract == INSTANCE BranchedMap WITH
    Absent <- NoValue,
    shown <- ShownMap,
    current <- CurrentBranch,
    history <- [b \in Branches |-> Log(refs[b])]

(***************************************************************************)
(* The store behaves as a map with branches: commit records on its branch  *)
(* exactly what get showed before and after it, however many writes it is  *)
(* cut into; a checkout shows the branch's last commit; nothing else       *)
(* changes what is shown or what a branch has recorded.                    *)
(***************************************************************************)
ImplementsBranchedMap == Abstract!MapSpec
=============================================================================

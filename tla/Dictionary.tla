----------------------------- MODULE Dictionary -----------------------------
(***************************************************************************)
(* What the trait Tree of src/src/tree.rs promises its callers, without a  *)
(* tree: a finite map, the last operation with the answer it gave, and the *)
(* map as it was last persisted.                                           *)
(***************************************************************************)
EXTENDS Integers, FiniteSets

CONSTANTS Keys, Values

VARIABLES dict,    \* the map
          saved,   \* the map at the last persist_root, which a reopened tree shows
          op       \* the last operation: its name, its argument, its answer

Maps(S) == UNION {[D -> Values] : D \in SUBSET S}

EmptyMap == [k \in {} |-> CHOOSE v \in Values : TRUE]

Override(f, g) ==
    [k \in DOMAIN f \cup DOMAIN g |-> IF k \in DOMAIN g THEN g[k] ELSE f[k]]

Without(f, S) == [k \in DOMAIN f \ S |-> f[k]]

Step(name, arg, answer) == op' = [name |-> name, arg |-> arg, answer |-> answer]

DictInit ==
    /\ dict = EmptyMap
    /\ saved = EmptyMap
    /\ op = [name |-> "new", arg |-> {}, answer |-> TRUE]

Insert(k, v) ==
    /\ Step("insert", <<k, v>>, TRUE)
    /\ dict' = Override(dict, [x \in {k} |-> v])
    /\ saved' = dict'

Update(k, v) ==
    /\ Step("update", <<k, v>>, k \in DOMAIN dict)
    /\ dict' = IF k \in DOMAIN dict THEN [dict EXCEPT ![k] = v] ELSE dict
    /\ saved' = IF k \in DOMAIN dict THEN dict' ELSE saved

Delete(k) ==
    /\ Step("delete", k, k \in DOMAIN dict)
    /\ dict' = Without(dict, {k})
    /\ saved' = IF k \in DOMAIN dict THEN dict' ELSE saved

InsertBatch(batch) ==
    /\ Step("insert_batch", batch, TRUE)
    /\ dict' = Override(dict, batch)
    /\ saved' = saved

DeleteBatch(S) ==
    /\ Step("delete_batch", S, TRUE)
    /\ dict' = Without(dict, S)
    /\ saved' = saved

PersistRoot ==
    /\ Step("persist_root", {}, TRUE)
    /\ saved' = dict
    /\ dict' = dict

Reload ==
    /\ Step("load_from_storage", {}, TRUE)
    /\ dict' = saved
    /\ saved' = saved

(* A three-way merge into the saved map: where source and map have both    *)
(* changed a key and differ the resolver has its say, and if it has none   *)
(* nothing is merged.                                                      *)
Absent == <<>>

Sides(f, k) == IF k \in DOMAIN f THEN f[k] ELSE Absent

Changed(f, base) == {k \in DOMAIN f \cup DOMAIN base : Sides(f, k) # Sides(base, k)}

Conflicts(source, dest, base) ==
    {k \in Changed(source, base) \cap Changed(dest, base) : Sides(source, k) # Sides(dest, k)}

ThreeWay(source, dest, base, resolver) ==
    LET taken == Changed(source, base)
                   \ (IF resolver = "take_source" THEN {} ELSE Conflicts(source, dest, base))
    IN  [k \in (DOMAIN dest \ taken) \cup (DOMAIN source \cap taken) |->
           IF k \in taken THEN source[k] ELSE dest[k]]

MergeTrees(source, base, resolver) ==
    LET stuck == resolver = "unresolved" /\ Conflicts(source, saved, base) # {}
    IN  /\ Step("merge_trees", [source |-> source, base |-> base, resolver |-> resolver], ~stuck)
        /\ dict' = IF stuck THEN dict ELSE ThreeWay(source, saved, base, resolver)
        /\ saved' = IF stuck THEN saved ELSE dict'

DictNext ==
    \/ \E k \in Keys, v \in Values : Insert(k, v) \/ Update(k, v)
    \/ \E k \in Keys : Delete(k)
    \/ \E batch \in Maps(Keys) : InsertBatch(batch)
    \/ \E S \in SUBSET Keys : DeleteBatch(S)
    \/ PersistRoot
    \/ Reload
    \/ op'.name = "merge_trees" /\ MergeTrees(op'.arg.source, op'.arg.base, op'.arg.resolver)

DictSpec == DictInit /\ [][DictNext]_<<dict, saved, op>>
=============================================================================

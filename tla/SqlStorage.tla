----------------------------- MODULE SqlStorage -----------------------------
(***************************************************************************)
(* ProllyStorage of src/src/sql.rs: GlueSQL's storage traits over the keys *)
(* and values of one versioned store.  A row of table t is stored under    *)
(* the text "t:key", the schema under "t:__schema__"; a scan turns the     *)
(* text back into a key.  GlueSQL itself is external: a statement reaches  *)
(* the storage as the calls its planner makes.                             *)
(*                                                                         *)
(* The store is the map that get shows, staged changes included, and the   *)
(* map of the last commit; sessions that end and begin again leave both as *)
(* they are, because the staging area is a file.                           *)
(***************************************************************************)
EXTENDS Naturals, Sequences, FiniteSets

CONSTANTS Tables, Rows, NoRow,
          Texts,        \* the texts of row keys
          Ints,         \* the 64-bit integers that can be row keys
          NotInt,       \* what the parser says of a text that is no integer
          Format(_),    \* the text of an integer
          Parse(_),     \* the integer a text is read as, or NotInt
          Schema,       \* the text __schema__, and what is stored there
          MaxRows,      \* bound on the rows of one INSERT
          MaxCalls      \* bound on the statements of a behaviour

ASSUME SqlAssumptions ==
    /\ NoRow \notin Rows \cup {Schema} /\ Schema \notin Texts \cup Rows
    /\ NotInt \notin Ints
    /\ \A n \in Ints : Format(n) \in Texts /\ Parse(Format(n)) = n
    /\ \A x \in Texts : Parse(x) \in Ints \cup {NotInt}
    /\ Ints \subseteq Nat /\ IsFiniteSet(Ints)
    /\ MaxRows \in Nat /\ MaxCalls \in Nat

VARIABLES store,    \* what get shows for each storage key
          saved,    \* the content of the last commit
          calls

vars == <<store, saved, calls>>

(* Key::I64, Key::Str and Key::None                                        *)
Keys == [kind : {"int"}, key : Ints] \cup [kind : {"str"}, key : Texts] \cup {[kind |-> "none"]}

StorageKeys == Tables \X (Texts \cup {Schema})

\* mutant: the schema takes the key of a row
SchemaAmongRows(t, k) ==
    CASE k.kind = "int" -> <<t, Format(k.key)>>
      [] k.kind = "str" -> <<t, k.key>>
      [] OTHER -> <<t, Format(0)>>

MakeStorageKey(t, k) ==
    CASE k.kind = "int" -> <<t, Format(k.key)>>
      [] k.kind = "str" -> <<t, k.key>>
      [] OTHER -> <<t, Schema>>

SchemaKey(t) == MakeStorageKey(t, [kind |-> "none"])

(* Whatever reads as an integer is one, also the text of a string key.     *)
ParseKey(sk) ==
    IF Parse(sk[2]) # NotInt THEN [kind |-> "int", key |-> Parse(sk[2])]
                             ELSE [kind |-> "str", key |-> sk[2]]

FetchSchema(t) == store[SchemaKey(t)]
FetchAllSchemas == {t \in Tables : FetchSchema(t) # NoRow}
FetchData(t, k) == store[MakeStorageKey(t, k)]

(* The rows below the prefix of the table, the schema left out             *)
ScanData(t) ==
    {<<ParseKey(sk), store[sk]>> : sk \in {x \in StorageKeys :
        x[1] = t /\ x[2] # Schema /\ store[x] # NoRow}}

-----------------------------------------------------------------------------
(* The calls that change the store                                         *)

InsertSchema(t) == store' = [store EXCEPT ![SchemaKey(t)] = Schema]

(* The rows stay.                                                          *)
DeleteSchema(t) == store' = [store EXCEPT ![SchemaKey(t)] = NoRow]

InsertData(s, t, pairs) ==
    [sk \in StorageKeys |->
       IF \E p \in pairs : MakeStorageKey(t, p[1]) = sk
       THEN (CHOOSE p \in pairs : MakeStorageKey(t, p[1]) = sk)[2]
       ELSE s[sk]]

DeleteData(s, t, keys) ==
    [sk \in StorageKeys |-> IF \E k \in keys : MakeStorageKey(t, k) = sk THEN NoRow ELSE s[sk]]

\* mutant: the counter starts at the number of rows
NextFreeByCount(s, t) ==
    Cardinality({x \in Texts : s[<<t, x>>] # NoRow})

(* The smallest counter that no row is stored under                        *)
NextFree(s, t) ==
    CHOOSE n \in Ints :
      /\ s[MakeStorageKey(t, [kind |-> "int", key |-> n])] = NoRow
      /\ \A m \in Ints : m < n => s[MakeStorageKey(t, [kind |-> "int", key |-> m])] # NoRow

HasFree(s, t, n) ==
    Cardinality({m \in Ints : s[MakeStorageKey(t, [kind |-> "int", key |-> m])] = NoRow}) >= n

\* mutant: the counter is looked for in the store the statement found
AppendDataAtOnce(t, new) ==
    LET after[i \in 0..Len(new)] ==
          IF i = 0 THEN store
          ELSE InsertData(after[i - 1], t, {<<[kind |-> "int", key |-> NextFree(store, t)], new[i]>>})
    IN  after[Len(new)]

AppendData(t, new) ==
    LET after[i \in 0..Len(new)] ==
          IF i = 0 THEN store
          ELSE LET s == after[i - 1]
               IN  InsertData(s, t, {<<[kind |-> "int", key |-> NextFree(s, t)], new[i]>>})
    IN  after[Len(new)]

-----------------------------------------------------------------------------
(* Statements                                                              *)

Statement ==
    /\ calls < MaxCalls
    /\ calls' = calls + 1

CreateTable(t) ==
    /\ Statement
    /\ t \notin FetchAllSchemas
    /\ InsertSchema(t)
    /\ UNCHANGED saved

DropTable(t) ==
    /\ Statement
    /\ t \in FetchAllSchemas
    /\ DeleteSchema(t)
    /\ UNCHANGED saved

(* INSERT into a table without a primary key                               *)
InsertUnkeyed(t, new) ==
    /\ Statement
    /\ t \in FetchAllSchemas
    /\ HasFree(store, t, Len(new))
    /\ store' = AppendData(t, new)
    /\ UNCHANGED saved

(* INSERT into a table with a primary key: GlueSQL asks for the row first. *)
InsertKeyed(t, k, r) ==
    /\ Statement
    /\ t \in FetchAllSchemas
    /\ FetchData(t, k) = NoRow
    /\ store' = InsertData(store, t, {<<k, r>>})
    /\ UNCHANGED saved

(* UPDATE writes the rows it has scanned back under the keys of the scan.  *)
Update(t, p, r) ==
    /\ Statement
    /\ t \in FetchAllSchemas
    /\ store' = InsertData(store, t, {<<x[1], r>> : x \in {y \in ScanData(t) : y[2] \in p}})
    /\ UNCHANGED saved

Delete(t, p) ==
    /\ Statement
    /\ t \in FetchAllSchemas
    /\ store' = DeleteData(store, t, {x[1] : x \in {y \in ScanData(t) : y[2] \in p}})
    /\ UNCHANGED saved

(* BEGIN starts nothing, ROLLBACK does nothing, COMMIT commits the store.  *)
Begin == Statement /\ UNCHANGED <<store, saved>>

Rollback == Statement /\ UNCHANGED <<store, saved>>

Commit == Statement /\ saved' = store /\ UNCHANGED store

(* The branch is checked out anew, which drops what is staged.             *)
Checkout == Statement /\ store' = saved /\ UNCHANGED saved

Init ==
    /\ store = [sk \in StorageKeys |-> NoRow]
    /\ saved = store
    /\ calls = 0

RowKeys == {k \in Keys : k.kind # "none"}
NewRows == UNION {[1..n -> Rows] : n \in 1..MaxRows}

Next ==
    \/ \E t \in Tables :
         \/ CreateTable(t) \/ DropTable(t)
         \/ \E new \in NewRows : InsertUnkeyed(t, new)
         \/ \E k \in RowKeys, r \in Rows : InsertKeyed(t, k, r)
         \/ \E p \in SUBSET Rows : Delete(t, p) \/ \E r \in Rows : Update(t, p, r)
    \/ Begin \/ Rollback \/ Commit \/ Checkout

Spec == Init /\ [][Next]_vars

-----------------------------------------------------------------------------
(* Properties                                                              *)

(***************************************************************************)
(* Type invariant: a schema is stored under a schema's key and only there. *)
(***************************************************************************)
TypeOK ==
    /\ \A s \in {store, saved} :
         /\ DOMAIN s = StorageKeys
         /\ \A sk \in StorageKeys :
              s[sk] \in IF sk[2] = Schema THEN {NoRow, Schema} ELSE Rows \cup {NoRow}
    /\ calls \in 0..MaxCalls

(***************************************************************************)
(* The statements change tables as SqlTables says: rows keep apart by      *)
(* their keys and tables, an INSERT never overwrites a row, UPDATE and     *)
(* DELETE reach the rows they have seen through the keys a scan gives.     *)
(***************************************************************************)
RowsOf(s) == [t \in Tables |-> [x \in Texts |-> s[<<t, x>>]]]
DeclaredIn(s) == {t \in Tables : s[<<t, Schema>>] # NoRow}

Promised == INSTANCE SqlTables WITH
    RowKeys <- Texts,
    declared <- DeclaredIn(store), rows <- RowsOf(store),
    savedDeclared <- DeclaredIn(saved), savedRows <- RowsOf(saved)

ImplementsTables == Promised!Spec

(***************************************************************************)
(* An INSERT of many rows without keys stores each of them, in their order *)
(* and under free counters: it overwrites no row of the table and none of  *)
(* its own, although append_data looks for the smallest free counter anew  *)
(* for each row and a counter is free again once its row has been deleted. *)
(***************************************************************************)
CounterKey(t, n) == MakeStorageKey(t, [kind |-> "int", key |-> n])

AddsAllRows(t, new) ==
    \E counters \in [1..Len(new) -> Ints] :
      /\ \A i, j \in 1..Len(new) : i < j => counters[i] < counters[j]
      /\ \A i \in 1..Len(new) :
           /\ store[CounterKey(t, counters[i])] = NoRow
           /\ store'[CounterKey(t, counters[i])] = new[i]
      /\ \A sk \in StorageKeys :
           store'[sk] = store[sk] \/ \E i \in 1..Len(new) : sk = CounterKey(t, counters[i])

InsertsAddAllRows ==
    [][\A t \in Tables, new \in NewRows : InsertUnkeyed(t, new) => AddsAllRows(t, new)]_vars
=============================================================================

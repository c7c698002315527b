------------------------------ MODULE SqlTables ------------------------------
(***************************************************************************)
(* What the SQL layer promises: tables of rows, each row under a key of    *)
(* its own, changed by whole statements.  There is no transaction: a       *)
(* statement's effect stays until something is committed, and ROLLBACK     *)
(* does nothing.  A table that was dropped has its rows again when it is   *)
(* created again; docs/sql.md speaks of DROP TABLE as "coming soon".       *)
(***************************************************************************)
CONSTANTS Tables, RowKeys, Rows, NoRow

VARIABLES declared,     \* the tables that have a schema
          rows,         \* the rows of each table
          savedDeclared, savedRows    \* the same as of the last commit

tables == <<declared, rows>>
saved == <<savedDeclared, savedRows>>

Empty == [t \in Tables |-> [k \in RowKeys |-> NoRow]]

Init ==
    /\ declared = {} /\ rows = Empty
    /\ savedDeclared = {} /\ savedRows = Empty

Create(t) ==
    /\ t \notin declared /\ declared' = declared \cup {t}
    /\ UNCHANGED <<rows, saved>>

Drop(t) ==
    /\ t \in declared /\ declared' = declared \ {t}
    /\ UNCHANGED <<rows, saved>>

(* INSERT adds rows under keys that had none and leaves the others alone.  *)
Insert(t) ==
    /\ t \in declared
    /\ \E new \in [RowKeys -> Rows \cup {NoRow}] :
         /\ \A k \in RowKeys : new[k] # NoRow => rows[t][k] = NoRow
         /\ rows' = [rows EXCEPT ![t] = [k \in RowKeys |-> IF new[k] = NoRow THEN @[k] ELSE new[k]]]
    /\ UNCHANGED <<declared, saved>>

(* UPDATE and DELETE touch rows that are there and the table they name.    *)
Chosen(t, p) == {k \in RowKeys : rows[t][k] \in p}

Update(t, p, r) ==
    /\ t \in declared
    /\ rows' = [rows EXCEPT ![t] = [k \in RowKeys |-> IF k \in Chosen(t, p) THEN r ELSE @[k]]]
    /\ UNCHANGED <<declared, saved>>

Delete(t, p) ==
    /\ t \in declared
    /\ rows' = [rows EXCEPT ![t] = [k \in RowKeys |-> IF k \in Chosen(t, p) THEN NoRow ELSE @[k]]]
    /\ UNCHANGED <<declared, saved>>

Commit ==
    /\ savedDeclared' = declared /\ savedRows' = rows
    /\ UNCHANGED tables

(* The branch is checked out again: what was not committed is given up.    *)
Discard ==
    /\ declared' = savedDeclared /\ rows' = savedRows
    /\ UNCHANGED saved

Next ==
    \/ \E t \in Tables : Create(t) \/ Drop(t) \/ Insert(t)
    \/ \E t \in Tables, p \in SUBSET Rows : Delete(t, p) \/ \E r \in Rows : Update(t, p, r)
    \/ Commit \/ Discard

Spec == Init /\ [][Next]_<<tables, saved>>
=============================================================================

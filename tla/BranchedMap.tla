---------------------------- MODULE BranchedMap ----------------------------
(***************************************************************************)
(* What VersionedKvStore promises its callers: a map that is edited in     *)
(* place, and for every branch the sequence of the maps committed on it.   *)
(* There are no commits, refs, files or staging areas here.                *)
(***************************************************************************)
EXTENDS SequencesExt

CONSTANTS Keys, Sides, Absent, Branches, Main

VARIABLES shown,     \* what get answers, key by key
          current,   \* the branch commit commits on
          history    \* the maps committed on each branch, none if it is not there

Maps == [Keys -> Sides]

Nothing == [k \in Keys |-> Absent]

Committed(b) == Last(history[b])

MapInit ==
    /\ shown = Nothing
    /\ current = Main
    /\ history = [b \in Branches |-> IF b = Main THEN <<Nothing>> ELSE <<>>]

Edit(k, side) ==
    /\ shown' = [shown EXCEPT ![k] = side]
    /\ UNCHANGED <<current, history>>

(* A commit records what is shown.                                         *)
Commit ==
    /\ history' = [history EXCEPT ![current] = Append(@, shown)]
    /\ UNCHANGED <<shown, current>>

(* A branch is a copy of the history of the current one.                   *)
Branch(b) ==
    /\ history' = [history EXCEPT ![b] = history[current]]
    /\ UNCHANGED <<shown, current>>

(* Edits since the last commit are dropped.                                *)
Drop ==
    /\ shown' = Committed(current)
    /\ UNCHANGED <<current, history>>

(* A branch that is switched to shows its last commit.                     *)
Checkout(b) ==
    /\ history[b] # <<>>
    /\ current' = b
    /\ shown' = Committed(b)
    /\ UNCHANGED history

(* A merge gives each key the side it has here, as shown or as last        *)
(* committed, or in the branch that is merged; Commit follows.             *)
Combine(s) ==
    /\ history[s] # <<>>
    /\ \A k \in Keys : shown'[k] \in {shown[k], Committed(current)[k], Committed(s)[k]}
    /\ shown' \in Maps
    /\ UNCHANGED <<current, history>>

(* On a branch whose last commit is empty nothing is promised of what is   *)
(* shown: the tree may be that of the branch checked out before.           *)
Unpromised(b) ==
    /\ history[b] # <<>> /\ Committed(b) = Nothing
    /\ current' = b
    /\ shown' \in Maps
    /\ UNCHANGED history

MapNext ==
    \/ \E k \in Keys, side \in Sides : Edit(k, side)
    \/ Commit
    \/ \E b \in Branches : Branch(b) \/ Checkout(b) \/ Unpromised(b)
    \/ Drop
    \/ \E s \in Branches : Combine(s)

MapSpec == MapInit /\ [][MapNext]_<<shown, current, history>>
=============================================================================

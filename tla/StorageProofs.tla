---------------------------- MODULE StorageProofs ----------------------------
(***************************************************************************)
(* Theorems about the two layers that turn what they keep into something   *)
(* else and back: the nodes of a tree as blobs of a Git repository and the *)
(* rows of a table as pairs of a store.  The two parts have no definition  *)
(* in common.                                                              *)
(*                                                                         *)
(* GitStorage, for every set of digests and every tree over it: the two    *)
(* files and the commits stay readable.                                    *)
(*                                                                         *)
(* SqlStorage, for any tables, rows and texts.  A scan turns the text of a *)
(* key into a key, and UPDATE and DELETE turn that key into a text again.  *)
(* The two texts are the same for every text that is no integer and for    *)
(* every text an integer is written as, but not for 007: what is promised  *)
(* of tables holds as long as no INSERT gives a row such a key.            *)
(***************************************************************************)
EXTENDS GitStorage, SqlStorage, Integers, FiniteSetTheorems, SequenceTheorems,
        WellFoundedInduction, TLAPS

-----------------------------------------------------------------------------
(* GitStorage                                                              *)

(***************************************************************************)
(* The inductive invariant.  As long as nothing is damaged the table in    *)
(* memory and the one on disk are closed under Children and differ at most *)
(* by the node whose line is being written; what the call has yet to       *)
(* insert, it or the table has the children of.                            *)
(***************************************************************************)
TablesAgree ==
    /\ ~mappingFile.torn
    /\ Closed(Load(mappingFile))
    /\ {EmptyRoot, configFile} \subseteq Load(mappingFile)
    /\ pc = "mapping" => mapping = Load(mappingFile) \cup {node}
    /\ pc \notin {"mapping", "closed"} => mapping = Load(mappingFile)

CallInOrder ==
    pc # "closed" =>
        /\ Closed(mapping)
        /\ rootHash \in mapping
        /\ root \in mapping \cup todo
        /\ \A d \in todo : Children[d] \subseteq mapping \cup todo

CommitsClosed ==
    \A c \in 1..Len(commits) :
        /\ commits[c].root \in commits[c].table
        /\ Closed(commits[c].table)
        /\ commits[c].table \subseteq objects

TodoOnlyInserting == pc \notin {"insert", "mapping"} => todo = {}

Sound == ~damaged => TablesAgree /\ CallInOrder /\ CommitsClosed

StorageInv == StorageTypeOK /\ TodoOnlyInserting /\ Sound

-----------------------------------------------------------------------------
(* A closed table that has a digest and leads to blobs has the whole tree  *)
(* below the digest.                                                       *)
LEMMA ClosedHasTree ==
    ASSUME NEW T \in SUBSET Digests, Closed(T), NEW r \in T
    PROVE  Below[r] \subseteq T
PROOF BY DEF Below

LEMMA ClosedIsReadable ==
    ASSUME NEW T \in SUBSET Digests, Closed(T), NEW r \in T, T \subseteq objects
    PROVE  Readable(r, T)
PROOF BY ClosedHasTree DEF Readable, Finds

(* One more line is one more digest of the table.                          *)
LEMMA LoadAfterAppend ==
    ASSUME NEW file \in [lines : Seq(Digests), torn : BOOLEAN], NEW d \in Digests
    PROVE  /\ AppendLine(file, d) \in [lines : Seq(Digests), torn : BOOLEAN]
           /\ ~AppendLine(file, d).torn
           /\ Load(AppendLine(file, d)) \subseteq Load(file) \cup {d}
           /\ ~file.torn => Load(AppendLine(file, d)) = Load(file) \cup {d}
<1>1. CASE file.torn
    BY <1>1 DEF AppendLine, Load
<1>2. CASE ~file.torn
    <2>1. AppendLine(file, d) = [lines |-> Append(file.lines, d), torn |-> FALSE]
        BY <1>2 DEF AppendLine
    <2>2. Append(file.lines, d) \in Seq(Digests)
        OBVIOUS
    <2>3. Range(Append(file.lines, d)) = Range(file.lines) \cup {d}
        <3> DEFINE s == file.lines
        <3>1. s \in Seq(Digests)
            OBVIOUS
        <3> HIDE DEF s
        <3>2. /\ Len(Append(s, d)) = Len(s) + 1
              /\ DOMAIN Append(s, d) = 1..(Len(s) + 1)
              /\ \A i \in 1..Len(s) : Append(s, d)[i] = s[i]
              /\ Append(s, d)[Len(s) + 1] = d
              /\ DOMAIN s = 1..Len(s) /\ Len(s) \in Nat
            BY <3>1
        <3>3. 1..(Len(s) + 1) = (1..Len(s)) \cup {Len(s) + 1}
            BY <3>2
        <3>4. Range(Append(s, d)) = Range(s) \cup {d}
            <4> DEFINE t == Append(s, d)
            <4>1. ASSUME NEW x \in Range(t) PROVE x \in Range(s) \cup {d}
                <5>1. PICK i \in 1..(Len(s) + 1) : x = t[i]
                    BY <3>2 DEF Range
                <5> QED BY <5>1, <3>2, <3>3 DEF Range
            <4>2. ASSUME NEW x \in Range(s) PROVE x \in Range(t)
                <5>1. PICK i \in 1..Len(s) : x = s[i]
                    BY <3>2 DEF Range
                <5>2. x = t[i] /\ i \in DOMAIN t
                    BY <5>1, <3>2, <3>3
                <5> QED BY <5>2 DEF Range
            <4>3. d \in Range(t)
                <5>1. Len(s) + 1 \in DOMAIN t
                    BY <3>2, <3>3
                <5> QED BY <5>1, <3>2 DEF Range
            <4> QED BY <4>1, <4>2, <4>3
        <3> QED BY <3>4 DEF s
    <2> QED BY <1>2, <2>1, <2>2, <2>3 DEF Load
<1> QED BY <1>1, <1>2

(* A part of a file has a part of the table.                               *)
LEMMA LoadOfPiece ==
    ASSUME NEW file \in [lines : Seq(Digests), torn : BOOLEAN], NEW p \in Pieces(file)
    PROVE  p \in [lines : Seq(Digests), torn : BOOLEAN] /\ Load(p) \subseteq Load(file)
<1>1. PICK n \in 0..(Len(file.lines) - 1), b \in BOOLEAN :
        p = [lines |-> SubSeq(file.lines, 1, n), torn |-> b]
    BY DEF Pieces
<1>2. SubSeq(file.lines, 1, n) \in Seq(Digests)
    OBVIOUS
<1>3. Range(SubSeq(file.lines, 1, n)) \subseteq Range(file.lines)
    BY DEF Range
<1> QED BY <1>1, <1>2, <1>3 DEF Load

(* An order of a table is a file of the table.                             *)
LEMMA LoadOfOrder ==
    ASSUME NEW T \in SUBSET Digests, NEW s \in Orders[T]
    PROVE  s \in Seq(Digests) /\ Range(s) = T
<1>1. Cardinality(T) \in Nat
    BY StorageAssumptions, FS_Subset, FS_CardinalityType
<1>2. s \in [1..Cardinality(T) -> T] /\ Range(s) = T
    BY DEF Orders
<1> QED BY <1>1, <1>2

-----------------------------------------------------------------------------
LEMMA InitSound == StorageInit => StorageInv
<1> SUFFICES ASSUME StorageInit PROVE StorageInv
    OBVIOUS
<1> USE StorageAssumptions DEF StorageInit
<1>1. Load(mappingFile) = {EmptyRoot}
    BY DEF Load, Range
<1>2. StorageTypeOK
    <2>1. <<EmptyRoot>> \in Seq(Digests)
        OBVIOUS
    <2>2. [root |-> EmptyRoot, table |-> {EmptyRoot}] \in [root : Digests \cup {NoRoot}, table : SUBSET Digests]
        OBVIOUS
    <2>3. commits \in Seq([root : Digests \cup {NoRoot}, table : SUBSET Digests])
        BY <2>2
    <2> QED BY <1>1, <2>1, <2>3 DEF StorageTypeOK
<1>3. Closed({EmptyRoot})
    BY DEF Closed
<1>4. CommitsClosed
    BY <1>3 DEF CommitsClosed
<1>5. TablesAgree /\ CallInOrder
    BY <1>1, <1>3 DEF TablesAgree, CallInOrder
<1> QED BY <1>2, <1>4, <1>5 DEF StorageInv, TodoOnlyInserting, Sound
(* Types are kept.                                                         *)
LEMMA TypeStep == StorageTypeOK /\ [StorageNext]_storageVars => StorageTypeOK'
<1> SUFFICES ASSUME StorageTypeOK, [StorageNext]_storageVars PROVE StorageTypeOK'
    OBVIOUS
<1> USE StorageAssumptions
<1>1. ASSUME NEW r \in Digests, NEW S \in SUBSET Digests, Change(r, S) PROVE StorageTypeOK'
    BY <1>1 DEF Change, BeginCall, StorageTypeOK, files, Load
<1>2. ASSUME NEW d \in Digests, InsertNode(d) PROVE StorageTypeOK'
    <2>1. objects' = objects \cup {d} /\ mapping' = mapping \cup {d} /\ node' = d
        BY <1>2 DEF InsertNode
    <2>2. UNCHANGED <<mappingFile, configFile, commits, root, rootHash, warned, damaged, requests>>
        BY <1>2 DEF InsertNode
    <2>3. todo' \subseteq Digests /\ pc' \in {"insert", "mapping"}
        BY <1>2 DEF InsertNode, StorageTypeOK
    <2> QED BY <2>1, <2>2, <2>3 DEF StorageTypeOK, Load
<1>3. ASSUME NEW d \in Digests, InsertNodeFails(d) PROVE StorageTypeOK'
    BY <1>3 DEF InsertNodeFails, StorageTypeOK, files, process, Load
<1>4. CASE SaveHashMapping
    <2>1. mappingFile' = AppendLine(mappingFile, node)
        BY <1>4 DEF SaveHashMapping
    <2>2. node \in Digests /\ mappingFile \in [lines : Seq(Digests), torn : BOOLEAN]
        BY DEF StorageTypeOK
    <2>3. mappingFile' \in [lines : Seq(Digests), torn : BOOLEAN] /\ Load(mappingFile') \subseteq objects
        BY <2>1, <2>2, LoadAfterAppend DEF StorageTypeOK
    <2> QED BY <1>4, <2>3 DEF SaveHashMapping, StorageTypeOK, process, Load
<1>5. CASE PersistRoot
    BY <1>5 DEF PersistRoot, StorageTypeOK, Load
<1>6. CASE BeginCommit
    BY <1>6 DEF BeginCommit, BeginCall, StorageTypeOK, files, process, Load
<1>7. CASE SaveConfig \/ RewriteConfig
    BY <1>7 DEF SaveConfig, RewriteConfig, StorageTypeOK, process, Load
<1>8. CASE RewriteMappings
    <2>1. PICK s \in Orders[mapping] : mappingFile' = [lines |-> s, torn |-> FALSE]
        BY <1>8 DEF RewriteMappings
    <2>2. mapping \in SUBSET Digests
        BY DEF StorageTypeOK
    <2>3. s \in Seq(Digests) /\ Range(s) = mapping
        BY <2>2, LoadOfOrder
    <2>4. mappingFile' \in [lines : Seq(Digests), torn : BOOLEAN] /\ Load(mappingFile') \subseteq objects
        BY <2>1, <2>3 DEF Load, StorageTypeOK
    <2> QED BY <1>8, <2>4 DEF RewriteMappings, StorageTypeOK, process, Load
<1>9. CASE Record
    <2> DEFINE c == [root |-> configFile, table |-> Load(mappingFile)]
               R == [root : Digests \cup {NoRoot}, table : SUBSET Digests]
    <2>1. c \in R
        BY DEF StorageTypeOK
    <2>2. commits' = Append(commits, c) /\ commits \in Seq(R)
        BY <1>9 DEF Record, StorageTypeOK
    <2>3. commits' \in Seq(R)
        <3> HIDE DEF c, R
        <3> QED BY <2>1, <2>2
    <2> QED BY <1>9, <2>3 DEF Record, StorageTypeOK, process, Load
<1>10. CASE NewTree
    BY <1>10 DEF NewTree, StorageTypeOK, files, Load
<1>11. CASE Close \/ Crash
    BY <1>11 DEF Close, Crash, Die, StorageTypeOK, Load
<1>12. CASE TornWrite
    <2> DEFINE F == [lines : Seq(Digests), torn : BOOLEAN]
    <2>1. /\ pc' = "closed" /\ mapping' = {} /\ root' = EmptyRoot /\ rootHash' = EmptyRoot
          /\ warned' = FALSE /\ todo' = {} /\ damaged' = TRUE
          /\ UNCHANGED <<objects, commits, call, node, requests>>
        BY <1>12 DEF TornWrite, Die
    <2>2. configFile' \in Digests \cup {NoRoot}
        BY <1>12 DEF TornWrite, TornMappings, TornConfig, StorageTypeOK
    <2>3. mappingFile \in F /\ Load(mappingFile) \subseteq objects /\ node \in Digests /\ node \in objects
          /\ mapping \in SUBSET Digests /\ mapping \subseteq objects
        BY DEF StorageTypeOK
    <2>4. mappingFile' \in F /\ Load(mappingFile') \subseteq objects
        <3>1. CASE UNCHANGED mappingFile
            BY <3>1, <2>3 DEF Load
        <3>2. CASE mappingFile' \in Pieces(AppendLine(mappingFile, node))
            <4> DEFINE a == AppendLine(mappingFile, node)
            <4>1. a \in F /\ Load(a) \subseteq objects
                BY <2>3, LoadAfterAppend
            <4>2. mappingFile' \in F /\ Load(mappingFile') \subseteq Load(a)
                <5> HIDE DEF a
                <5> QED BY <4>1, <3>2, LoadOfPiece DEF a
            <4> QED BY <4>1, <4>2
        <3>3. ASSUME NEW s \in Orders[mapping], mappingFile' \in Pieces([lines |-> s, torn |-> FALSE])
              PROVE  mappingFile' \in F /\ Load(mappingFile') \subseteq objects
            <4> DEFINE a == [lines |-> s, torn |-> FALSE]
            <4>1. s \in Seq(Digests) /\ Range(s) = mapping
                BY <2>3, LoadOfOrder
            <4>2. a \in F /\ Load(a) \subseteq objects
                BY <4>1, <2>3 DEF Load
            <4>3. mappingFile' \in F /\ Load(mappingFile') \subseteq Load(a)
                <5> HIDE DEF a
                <5> QED BY <4>2, <3>3, LoadOfPiece DEF a
            <4> QED BY <4>2, <4>3
        <3> QED BY <1>12, <3>1, <3>2, <3>3 DEF TornWrite, TornMappings, TornConfig
    <2> QED BY <2>1, <2>2, <2>3, <2>4 DEF StorageTypeOK
<1>13. CASE Open
    BY <1>13 DEF Open, SavedRootLoads, StorageTypeOK, files, Finds, Load
<1>14. CASE UNCHANGED storageVars
    BY <1>14 DEF storageVars, files, process, StorageTypeOK, Load
<1> QED BY <1>1, <1>2, <1>3, <1>4, <1>5, <1>6, <1>7, <1>8, <1>9, <1>10, <1>11, <1>12, <1>13, <1>14 DEF StorageNext
(* Only a call that inserts has nodes to insert.                           *)
LEMMA TodoStep == StorageTypeOK /\ TodoOnlyInserting /\ [StorageNext]_storageVars => TodoOnlyInserting'
BY DEF StorageTypeOK, TodoOnlyInserting, StorageNext, storageVars, files, process, Change, BeginCall, InsertNode, InsertNodeFails,
       Follows, SaveHashMapping, PersistRoot, BeginCommit, SaveConfig, RewriteConfig, RewriteMappings,
       Record, NewTree, Close, Crash, Die, TornWrite, Open

(* Commits are only added, and blobs stay: what an old commit needs is kept *)
(* by every step that adds none.                                           *)
LEMMA OldCommitsKept ==
    ASSUME CommitsClosed, UNCHANGED commits, objects \subseteq objects'
    PROVE  CommitsClosed'
PROOF BY DEF CommitsClosed, Closed

(* What the step of a process that goes on must keep, besides the types.   *)
LEMMA SoundStep == StorageInv /\ [StorageNext]_storageVars => Sound'
<1> SUFFICES ASSUME StorageInv, [StorageNext]_storageVars, ~damaged' PROVE TablesAgree' /\ CallInOrder' /\ CommitsClosed'
    BY DEF Sound
<1> USE StorageAssumptions
<1>a. ~damaged /\ ~TornWrite /\ \A d \in Digests : ~InsertNodeFails(d)
    BY DEF StorageNext, storageVars, Change, InsertNode, InsertNodeFails, SaveHashMapping, PersistRoot, BeginCommit,
           SaveConfig, RewriteConfig, RewriteMappings, Record, NewTree, Close, Crash, TornWrite, Open
<1>b. StorageTypeOK /\ TodoOnlyInserting /\ TablesAgree /\ CallInOrder /\ CommitsClosed
    BY <1>a DEF StorageInv, Sound
<1>1. ASSUME NEW r \in Digests, NEW S \in SUBSET Digests, Change(r, S)
      PROVE  TablesAgree' /\ CallInOrder' /\ CommitsClosed'
    <2>1. /\ pc = "idle" /\ pc' = "insert" /\ root' = r /\ todo' = S /\ r \in S
          /\ \A d \in S : Children[d] \subseteq (S \cup Below[root]) \ {r}
          /\ UNCHANGED <<objects, mappingFile, configFile, commits, mapping, rootHash, node>>
        BY <1>1 DEF Change, BeginCall, files
    <2>2. todo = {} /\ root \in mapping /\ Closed(mapping) /\ mapping \in SUBSET Digests
        BY <1>b, <2>1 DEF TodoOnlyInserting, CallInOrder, StorageTypeOK
    <2>3. Below[root] \subseteq mapping
        BY <2>2, ClosedHasTree
    <2>4. CallInOrder'
        BY <1>b, <2>1, <2>2, <2>3 DEF CallInOrder, Closed
    <2>5. TablesAgree'
        BY <1>b, <2>1 DEF TablesAgree, Closed, Load
    <2> QED BY <1>b, <2>1, <2>4, <2>5, OldCommitsKept
<1>2. ASSUME NEW d \in Digests, InsertNode(d)
      PROVE  TablesAgree' /\ CallInOrder' /\ CommitsClosed'
    <2>1. /\ pc = "insert" /\ d \in todo /\ Children[d] \cap todo \subseteq {d}
          /\ objects' = objects \cup {d} /\ mapping' = mapping \cup {d} /\ todo' = todo \ {d} /\ node' = d
          /\ pc' = IF d \in mapping THEN "insert" ELSE "mapping"
          /\ UNCHANGED <<mappingFile, configFile, commits, root, rootHash>>
        BY <1>2 DEF InsertNode, Follows
    <2>2. /\ Closed(mapping) /\ rootHash \in mapping /\ root \in mapping \cup todo
          /\ \A e \in todo : Children[e] \subseteq mapping \cup todo
          /\ mapping = Load(mappingFile)
        BY <1>b, <2>1 DEF CallInOrder, TablesAgree
    <2>3. Closed(mapping')
        BY <2>1, <2>2 DEF Closed
    <2>4. CallInOrder'
        BY <2>1, <2>2, <2>3 DEF CallInOrder
    <2>5. TablesAgree'
        BY <1>b, <2>1, <2>2 DEF TablesAgree, Closed, Load
    <2> QED BY <1>b, <2>1, <2>4, <2>5, OldCommitsKept
<1>3. CASE SaveHashMapping
    <2>1. /\ pc = "mapping" /\ pc' = "insert" /\ mappingFile' = AppendLine(mappingFile, node)
          /\ UNCHANGED <<objects, configFile, commits, mapping, root, rootHash, todo, node>>
        BY <1>3 DEF SaveHashMapping, process
    <2>2. /\ ~mappingFile.torn /\ node \in Digests
          /\ mappingFile \in [lines : Seq(Digests), torn : BOOLEAN]
        BY <1>b DEF TablesAgree, StorageTypeOK
    <2>3. ~mappingFile'.torn /\ Load(mappingFile') = Load(mappingFile) \cup {node}
        BY <2>1, <2>2, LoadAfterAppend
    <2>4. mapping = Load(mappingFile')
        BY <1>b, <2>1, <2>3 DEF TablesAgree
    <2>5. CallInOrder'
        BY <1>b, <2>1 DEF CallInOrder, Closed
    <2>6. Closed(Load(mappingFile'))
        BY <1>b, <2>1, <2>4 DEF CallInOrder
    <2>7. TablesAgree'
        BY <1>b, <2>1, <2>3, <2>4, <2>6 DEF TablesAgree, Closed, Load
    <2> QED BY <1>b, <2>1, <2>5, <2>7, OldCommitsKept
<1>4. CASE PersistRoot \/ SaveConfig \/ RewriteConfig
    <2>1. /\ pc \in {"insert", "save", "rewrite_config"} /\ todo = {}
          /\ pc' \in {"idle", "save", "rewrite_config", "rewrite_mappings"}
          /\ configFile' \in {root, rootHash} /\ rootHash' \in {root, rootHash}
          /\ UNCHANGED <<objects, mappingFile, commits, mapping, root, todo, node>>
        BY <1>4, <1>b DEF PersistRoot, SaveConfig, RewriteConfig, TodoOnlyInserting, process
    <2>2. root \in mapping /\ rootHash \in mapping /\ mapping = Load(mappingFile) /\ Closed(mapping)
        BY <1>b, <2>1 DEF CallInOrder, TablesAgree
    <2>3. CallInOrder'
        BY <2>1, <2>2 DEF CallInOrder, Closed
    <2>4. TablesAgree'
        BY <1>b, <2>1, <2>2 DEF TablesAgree, Closed, Load
    <2> QED BY <1>b, <2>1, <2>3, <2>4, OldCommitsKept
<1>5. CASE BeginCommit
    <2>1. /\ pc = "idle" /\ pc' = "insert" /\ todo' = {root}
          /\ UNCHANGED <<objects, mappingFile, configFile, commits, mapping, root, rootHash, node>>
        BY <1>5 DEF BeginCommit, BeginCall, files, process
    <2>2. todo = {} /\ root \in mapping /\ Closed(mapping)
        BY <1>b, <2>1 DEF TodoOnlyInserting, CallInOrder
    <2>3. CallInOrder'
        BY <1>b, <2>1, <2>2 DEF CallInOrder, Closed
    <2>4. TablesAgree'
        BY <1>b, <2>1 DEF TablesAgree, Closed, Load
    <2> QED BY <1>b, <2>1, <2>3, <2>4, OldCommitsKept
<1>6. CASE RewriteMappings
    <2>1. PICK s \in Orders[mapping] : mappingFile' = [lines |-> s, torn |-> FALSE]
        BY <1>6 DEF RewriteMappings
    <2>2. /\ pc = "rewrite_mappings" /\ pc' = "record"
          /\ UNCHANGED <<objects, configFile, commits, mapping, root, rootHash, todo, node>>
        BY <1>6 DEF RewriteMappings, process
    <2>3. mapping \in SUBSET Digests /\ mapping = Load(mappingFile)
        BY <1>b, <2>2 DEF StorageTypeOK, TablesAgree
    <2>4. Load(mappingFile') = Load(mappingFile) /\ ~mappingFile'.torn
        BY <2>1, <2>3, LoadOfOrder DEF Load
    <2>5. CallInOrder'
        BY <1>b, <2>2 DEF CallInOrder, Closed
    <2>6. TablesAgree'
        BY <1>b, <2>2, <2>3, <2>4 DEF TablesAgree, Closed, Load
    <2> QED BY <1>b, <2>2, <2>5, <2>6, OldCommitsKept
<1>7. CASE Record
    <2> DEFINE k == [root |-> configFile, table |-> Load(mappingFile)]
    <2>1. /\ pc = "record" /\ pc' = "idle" /\ commits' = Append(commits, k)
          /\ UNCHANGED <<objects, mappingFile, configFile, mapping, root, rootHash, todo, node>>
        BY <1>7 DEF Record, process
    <2>2. k.root \in k.table /\ Closed(k.table) /\ k.table \subseteq objects
        BY <1>b DEF TablesAgree, StorageTypeOK
    <2>3. CommitsClosed'
        <3>1. commits \in Seq([root : Digests \cup {NoRoot}, table : SUBSET Digests])
            BY <1>b DEF StorageTypeOK
        <3> HIDE DEF k
        <3>2. ASSUME NEW c \in 1..Len(commits') PROVE commits'[c] = k \/ (c \in 1..Len(commits) /\ commits'[c] = commits[c])
            BY <2>1, <3>1
        <3> QED BY <2>1, <2>2, <3>2, <1>b DEF CommitsClosed, Closed
    <2>4. CallInOrder'
        BY <1>b, <2>1 DEF CallInOrder, Closed
    <2>5. TablesAgree'
        BY <1>b, <2>1 DEF TablesAgree, Closed, Load
    <2> QED BY <2>3, <2>4, <2>5
<1>8. CASE NewTree \/ Open
    <2>1. /\ pc \in {"idle", "closed"} /\ pc' = "idle" /\ mapping' = Load(mappingFile)
          /\ root' \in {EmptyRoot, configFile} /\ rootHash' \in {EmptyRoot, configFile}
          /\ UNCHANGED <<objects, mappingFile, configFile, commits, todo, node>>
        BY <1>8 DEF NewTree, Open, files
    <2>2. todo = {} /\ Closed(Load(mappingFile)) /\ {EmptyRoot, configFile} \subseteq Load(mappingFile)
        BY <1>b, <2>1 DEF TodoOnlyInserting, TablesAgree
    <2>3. CallInOrder'
        BY <2>1, <2>2 DEF CallInOrder, Closed
    <2>4. TablesAgree'
        BY <1>b, <2>1 DEF TablesAgree, Closed, Load
    <2> QED BY <1>b, <2>1, <2>3, <2>4, OldCommitsKept
<1>9. CASE Close \/ Crash
    <2>1. pc' = "closed" /\ UNCHANGED <<objects, mappingFile, configFile, commits, node>>
        BY <1>9 DEF Close, Crash, Die
    <2>2. CallInOrder' /\ TablesAgree'
        BY <1>b, <2>1 DEF CallInOrder, TablesAgree, Closed, Load
    <2> QED BY <1>b, <2>1, <2>2, OldCommitsKept
<1>10. CASE UNCHANGED storageVars
    BY <1>b, <1>10 DEF storageVars, files, process, CallInOrder, TablesAgree, CommitsClosed, Closed, Load
<1> QED BY <1>a, <1>1, <1>2, <1>3, <1>4, <1>5, <1>6, <1>7, <1>8, <1>9, <1>10 DEF StorageNext

(***************************************************************************)
(* The types are kept, the tables lead to blobs, and the strengthening     *)
(* holds in every state.                                                   *)
(***************************************************************************)
THEOREM StorageTypesCorrect == StorageSpec => []StorageTypeOK
<1>1. StorageTypeOK /\ [StorageNext]_storageVars => StorageTypeOK'
    BY TypeStep
<1>2. StorageInit => StorageTypeOK
    BY InitSound DEF StorageInv
<1> QED BY <1>1, <1>2, PTL DEF StorageSpec

LEMMA StorageInvHolds == StorageSpec => []StorageInv
<1>1. StorageInv /\ [StorageNext]_storageVars => StorageInv'
    BY TypeStep, TodoStep, SoundStep DEF StorageInv
<1> QED BY <1>1, InitSound, PTL DEF StorageSpec

(***************************************************************************)
(* Between any two writes, and after a crash there, the two files lead to  *)
(* a whole tree, if no write was torn and no blob was left unwritten.      *)
(***************************************************************************)
THEOREM SavedTreeStaysReadable == StorageSpec => []SavedTreeReadable
<1>1. StorageInv => SavedTreeReadable
    <2> SUFFICES ASSUME StorageInv, ~damaged PROVE Readable(configFile, Load(mappingFile))
        BY DEF SavedTreeReadable
    <2>1. Load(mappingFile) \in SUBSET Digests /\ Load(mappingFile) \subseteq objects
        BY DEF StorageInv, StorageTypeOK
    <2>2. Closed(Load(mappingFile)) /\ configFile \in Load(mappingFile)
        BY DEF StorageInv, Sound, TablesAgree
    <2> QED BY <2>1, <2>2, ClosedIsReadable
<1> QED BY <1>1, StorageInvHolds, PTL

(***************************************************************************)
(* Every commit can be read with the table that was committed with it.     *)
(***************************************************************************)
THEOREM CommitsStayReadable == StorageSpec => []CommitsReadable
<1>1. StorageInv => CommitsReadable
    <2> SUFFICES ASSUME StorageInv, ~damaged, NEW c \in 1..Len(commits)
                 PROVE  Readable(commits[c].root, commits[c].table)
        BY DEF CommitsReadable, CommitReadable
    <2>1. /\ commits[c].root \in commits[c].table /\ Closed(commits[c].table)
          /\ commits[c].table \subseteq objects
        BY DEF StorageInv, Sound, CommitsClosed
    <2>2. commits[c].table \in SUBSET Digests
        BY <2>1 DEF StorageInv, StorageTypeOK
    <2> QED BY <2>1, <2>2, ClosedIsReadable
<1> QED BY <1>1, StorageInvHolds, PTL

-----------------------------------------------------------------------------
(* SqlStorage                                                              *)

(***************************************************************************)
(* Every set of naturals that is not empty has a least element.            *)
(***************************************************************************)
LEMMA LeastNat ==
    ASSUME NEW S \in SUBSET Nat, S # {}
    PROVE  \E n \in S : \A m \in S : n <= m
<1>1. PICK R : IsWellFoundedOn(R, Nat) /\ \A m, n \in Nat : m < n => <<m, n>> \in R
  <2>1. \A m, n \in Nat : m < n => <<m, n>> \in OpToRel(<, Nat)
    BY DEF OpToRel
  <2> QED BY <2>1, NatLessThanWellFounded, Zenon
<1>2. \E n \in S : \A m \in S : ~(<<m, n>> \in R)
  <2>1. IsWellFoundedOn(R, Nat) /\ S \subseteq Nat
    BY <1>1
  <2> QED BY <2>1, WFMin, Zenon
<1>3. PICK n \in S : \A m \in S : ~(<<m, n>> \in R)
  BY <1>2
<1>4. \A m \in S : ~(m < n)
  BY <1>1, <1>3
<1> QED BY <1>4

(***************************************************************************)
(* A set that has every natural whose predecessors it has has them all.    *)
(***************************************************************************)
LEMMA CourseOfValues ==
    ASSUME NEW S, \A n \in Nat : 0..(n - 1) \subseteq S => n \in S
    PROVE  Nat \subseteq S
<1> SUFFICES ASSUME Nat \ S # {} PROVE FALSE
  OBVIOUS
<1>1. PICK n \in Nat \ S : \A m \in Nat \ S : n <= m
  <2>1. (Nat \ S) \in SUBSET Nat
    OBVIOUS
  <2> QED BY <2>1, LeastNat
<1>2. 0..(n - 1) \subseteq S
  BY <1>1
<1> QED BY <1>1, <1>2

Canonical(x) == Parse(x) # NotInt => Format(Parse(x)) = x

(* No INSERT names a string key that reads as an integer written in        *)
(* another way.                                                            *)
NamesCanonicalKey ==
    \A t \in Tables, k \in RowKeys, r \in Rows :
      InsertKeyed(t, k, r) /\ k.kind = "str" => Canonical(k.key)

CanonicalInserts == [][NamesCanonicalKey]_vars

Stores == {s \in [StorageKeys -> Rows \cup {NoRow, Schema}] :
             \A sk \in StorageKeys :
               s[sk] \in IF sk[2] = Schema THEN {NoRow, Schema} ELSE Rows \cup {NoRow}}

Typed == store \in Stores /\ saved \in Stores /\ calls \in 0..MaxCalls

RowsCanonical(s) == \A t \in Tables, x \in Texts : s[<<t, x>>] # NoRow => Canonical(x)

IInv == Typed /\ RowsCanonical(store) /\ RowsCanonical(saved)

-----------------------------------------------------------------------------
(* Keys                                                                    *)

(* Storage keys are those of rows and those of schemas.                    *)
LEMMA RowOrSchema ==
    ASSUME NEW sk \in StorageKeys
    PROVE  /\ sk[1] \in Tables /\ sk = <<sk[1], sk[2]>>
           /\ sk[2] \in Texts \/ sk[2] = Schema
           /\ sk[2] \in Texts <=> sk[2] # Schema
BY SqlAssumptions DEF SqlAssumptions, StorageKeys

LEMMA KeyOfRow ==
    ASSUME NEW t \in Tables, NEW k \in RowKeys
    PROVE  \E x \in Texts : MakeStorageKey(t, k) = <<t, x>> /\ <<t, x>> \in StorageKeys
                            /\ x # Schema
<1>1. CASE k.kind = "int"
  <2>1. k.key \in Ints
    BY <1>1 DEF RowKeys, Keys
  <2> QED BY <1>1, <2>1, SqlAssumptions DEF SqlAssumptions, MakeStorageKey, StorageKeys
<1>2. CASE k.kind = "str"
  <2>1. k.key \in Texts
    BY <1>2 DEF RowKeys, Keys
  <2> QED BY <1>2, <2>1, SqlAssumptions DEF SqlAssumptions, MakeStorageKey, StorageKeys
<1>3. k.kind \in {"int", "str"}
  <2>1. \/ k \in [kind : {"int"}, key : Ints] \/ k \in [kind : {"str"}, key : Texts]
        \/ k = [kind |-> "none"]
    BY DEF RowKeys, Keys
  <2>2. k.kind # "none"
    BY DEF RowKeys
  <2> QED BY <2>1, <2>2
<1> QED BY <1>1, <1>2, <1>3

LEMMA KeyOfScan ==
    ASSUME NEW t \in Tables, NEW x \in Texts
    PROVE  /\ ParseKey(<<t, x>>) \in RowKeys
           /\ Canonical(x) => MakeStorageKey(t, ParseKey(<<t, x>>)) = <<t, x>>
<1>1. Parse(x) \in Ints \cup {NotInt} /\ NotInt \notin Ints
  BY SqlAssumptions DEF SqlAssumptions
<1>2. CASE Parse(x) # NotInt
  BY <1>1, <1>2 DEF ParseKey, RowKeys, Keys, Canonical, MakeStorageKey
<1>3. CASE Parse(x) = NotInt
  BY <1>1, <1>3 DEF ParseKey, RowKeys, Keys, Canonical, MakeStorageKey
<1> QED BY <1>2, <1>3

LEMMA SchemaKeys ==
    ASSUME NEW t \in Tables
    PROVE  SchemaKey(t) = <<t, Schema>> /\ <<t, Schema>> \in StorageKeys
BY DEF SchemaKey, MakeStorageKey, StorageKeys

(* What a scan gives, as texts                                             *)
LEMMA ScanIs ==
    ASSUME NEW t \in Tables, NEW y
    PROVE  y \in ScanData(t) <=>
             \E x \in Texts : store[<<t, x>>] # NoRow /\ y = <<ParseKey(<<t, x>>), store[<<t, x>>]>>
<1>1. ASSUME NEW x \in Texts, store[<<t, x>>] # NoRow
      PROVE  <<ParseKey(<<t, x>>), store[<<t, x>>]>> \in ScanData(t)
  <2>1. <<t, x>> \in StorageKeys /\ <<t, x>>[1] = t /\ <<t, x>>[2] # Schema
    BY SqlAssumptions DEF SqlAssumptions, StorageKeys
  <2> QED BY <1>1, <2>1 DEF ScanData
<1>2. ASSUME y \in ScanData(t)
      PROVE  \E x \in Texts : store[<<t, x>>] # NoRow /\ y = <<ParseKey(<<t, x>>), store[<<t, x>>]>>
  <2>1. PICK sk \in StorageKeys : /\ sk[1] = t /\ sk[2] # Schema /\ store[sk] # NoRow
                                 /\ y = <<ParseKey(sk), store[sk]>>
    BY <1>2 DEF ScanData
  <2> QED BY <2>1, RowOrSchema
<1> QED BY <1>1, <1>2

-----------------------------------------------------------------------------
(* The calls of the storage keep the types                                 *)

LEMMA IsFunction ==
    ASSUME NEW f, NEW S, NEW R, f = [x \in S |-> f[x]], \A x \in S : f[x] \in R
    PROVE  f \in [S -> R]
OBVIOUS

LEMMA InsertDataTyped ==
    ASSUME NEW s \in Stores, NEW t \in Tables, NEW pairs \in SUBSET (RowKeys \X Rows)
    PROVE  InsertData(s, t, pairs) \in Stores
<1> DEFINE f == InsertData(s, t, pairs)
<1>1. f = [sk \in StorageKeys |-> f[sk]]
  BY DEF InsertData
<1>2. ASSUME NEW sk \in StorageKeys
      PROVE  f[sk] \in IF sk[2] = Schema THEN {NoRow, Schema} ELSE Rows \cup {NoRow}
  <2>1. CASE \E p \in pairs : MakeStorageKey(t, p[1]) = sk
    <3> DEFINE q == CHOOSE p \in pairs : MakeStorageKey(t, p[1]) = sk
    <3>1. q \in pairs /\ MakeStorageKey(t, q[1]) = sk
      BY <2>1
    <3>2. f[sk] = q[2]
      BY <2>1 DEF InsertData
    <3> HIDE DEF q, f
    <3>3. q[1] \in RowKeys /\ q[2] \in Rows
      BY <3>1
    <3>4. sk[2] # Schema
      <4>1. PICK x \in Texts : MakeStorageKey(t, q[1]) = <<t, x>> /\ x # Schema
        BY <3>3, KeyOfRow
      <4>2. sk = <<t, x>>
        BY <3>1, <4>1
      <4> QED BY <4>1, <4>2
    <3> QED BY <3>2, <3>3, <3>4
  <2>2. CASE ~ \E p \in pairs : MakeStorageKey(t, p[1]) = sk
    BY <2>2 DEF InsertData, Stores
  <2> QED BY <2>1, <2>2
<1> HIDE DEF f
<1>3. ASSUME NEW sk \in StorageKeys PROVE f[sk] \in Rows \cup {NoRow, Schema}
  BY <1>2
<1>4. f \in [StorageKeys -> Rows \cup {NoRow, Schema}]
  BY <1>1, <1>3, IsFunction
<1>5. f \in Stores
  BY <1>2, <1>4 DEF Stores
<1> QED BY <1>5 DEF f

LEMMA DeleteDataTyped ==
    ASSUME NEW s \in Stores, NEW t \in Tables, NEW keys
    PROVE  DeleteData(s, t, keys) \in Stores
BY DEF DeleteData, Stores

LEMMA SchemaTyped ==
    ASSUME NEW s \in Stores, NEW t \in Tables, NEW v \in {NoRow, Schema}
    PROVE  [s EXCEPT ![SchemaKey(t)] = v] \in Stores
<1> DEFINE sk == <<t, Schema>>
<1>1. SchemaKey(t) = sk /\ sk \in StorageKeys
  BY SchemaKeys
<1>2. sk[2] = Schema
  OBVIOUS
<1> HIDE DEF sk
<1> QED BY <1>1, <1>2 DEF Stores

LEMMA ScanTyped ==
    ASSUME store \in Stores, NEW t \in Tables, NEW y \in ScanData(t)
    PROVE  y[1] \in RowKeys /\ y[2] \in Rows
<1>1. PICK x \in Texts : store[<<t, x>>] # NoRow /\ y = <<ParseKey(<<t, x>>), store[<<t, x>>]>>
  BY ScanIs
<1>2. <<t, x>> \in StorageKeys /\ x # Schema
  BY SqlAssumptions DEF SqlAssumptions, StorageKeys
<1>3. store[<<t, x>>] \in Rows
  BY <1>1, <1>2 DEF Stores
<1> QED BY <1>1, <1>3, KeyOfScan

-----------------------------------------------------------------------------
(* INSERT into a table without a primary key                               *)

Free(s, t) == {m \in Ints : s[<<t, Format(m)>>] = NoRow}

(* s2 has what s has, and more rows of t.                                  *)
MoreRows(s2, s, t) ==
    \A sk \in StorageKeys :
      \/ s2[sk] = s[sk]
      \/ s[sk] = NoRow /\ s2[sk] \in Rows /\ sk[1] = t /\ sk[2] \in Texts /\ Canonical(sk[2])

Appended(s, t, r) == InsertData(s, t, {<<[kind |-> "int", key |-> NextFree(s, t)], r>>})

LEMMA FreeFinite ==
    ASSUME NEW s, NEW t
    PROVE  /\ IsFiniteSet(Free(s, t)) /\ Cardinality(Free(s, t)) \in Nat
           /\ Cardinality(Free(s, t)) > 0 => Free(s, t) # {}
<1>1. IsFiniteSet(Free(s, t))
  <2>1. Free(s, t) \in SUBSET Ints
    BY DEF Free
  <2> QED BY <2>1, FS_Subset, SqlAssumptions DEF SqlAssumptions
<1>2. Cardinality(Free(s, t)) \in Nat
  BY <1>1, FS_CardinalityType
<1>3. Cardinality({}) = 0
  BY FS_EmptySet
<1> QED BY <1>1, <1>2, <1>3

LEMMA NextFreeIsFree ==
    ASSUME NEW s, NEW t, Free(s, t) # {}
    PROVE  NextFree(s, t) \in Free(s, t) /\ \A m \in Free(s, t) : NextFree(s, t) <= m
<1>1. \A n : MakeStorageKey(t, [kind |-> "int", key |-> n]) = <<t, Format(n)>>
  BY DEF MakeStorageKey
<1>2. Free(s, t) \in SUBSET Nat
  BY SqlAssumptions DEF SqlAssumptions, Free
<1>3. PICK n \in Free(s, t) : \A m \in Free(s, t) : n <= m
  BY <1>2, LeastNat
<1>4. n \in Ints /\ \A m \in Ints : m < n => m \notin Free(s, t)
  <2>1. Ints \subseteq Nat
    BY SqlAssumptions DEF SqlAssumptions
  <2>2. n \in Ints
    BY <1>3 DEF Free
  <2> QED BY <1>3, <2>1, <2>2
<1> DEFINE at(i) == s[MakeStorageKey(t, [kind |-> "int", key |-> i])]
           IsNext(i) == at(i) = NoRow /\ \A m \in Ints : m < i => at(m) # NoRow
<1>5. NextFree(s, t) = CHOOSE i \in Ints : IsNext(i)
  BY DEF NextFree
<1>6. IsNext(n)
  BY <1>1, <1>3, <1>4 DEF Free
<1>7. NextFree(s, t) \in Ints /\ IsNext(NextFree(s, t))
  <2> HIDE DEF IsNext
  <2> QED BY <1>4, <1>5, <1>6
<1>8. ASSUME NEW m \in Free(s, t) PROVE NextFree(s, t) <= m
  <2>1. m \in Ints /\ at(m) = NoRow /\ m \in Nat /\ NextFree(s, t) \in Nat
    BY <1>1, <1>7, SqlAssumptions DEF SqlAssumptions, Free
  <2> QED BY <1>7, <2>1
<1> QED BY <1>1, <1>7, <1>8 DEF Free

LEMMA AppendedIs ==
    ASSUME NEW s \in Stores, NEW t \in Tables, NEW r \in Rows, Free(s, t) # {}
    PROVE  /\ Appended(s, t, r) \in Stores
           /\ MoreRows(Appended(s, t, r), s, t)
           /\ Free(Appended(s, t, r), t) = Free(s, t) \ {NextFree(s, t)}
           /\ \A sk \in StorageKeys :
                Appended(s, t, r)[sk] = IF sk = CounterKey(t, NextFree(s, t)) THEN r ELSE s[sk]
<1> DEFINE n == NextFree(s, t)
           k == [kind |-> "int", key |-> n]
           f == Appended(s, t, r)
<1>1. n \in Free(s, t) /\ n \in Ints
  BY NextFreeIsFree DEF Free
<1> HIDE DEF n
<1>2. k \in RowKeys /\ MakeStorageKey(t, k) = <<t, Format(n)>>
  BY <1>1 DEF RowKeys, Keys, MakeStorageKey
<1>3. Format(n) \in Texts /\ Parse(Format(n)) = n /\ <<t, Format(n)>> \in StorageKeys
  BY <1>1, SqlAssumptions DEF SqlAssumptions, StorageKeys
<1> HIDE DEF k
<1>4. f = InsertData(s, t, {<<k, r>>})
  BY DEF Appended, k, n
<1>5. f \in Stores
  BY <1>2, <1>4, InsertDataTyped
<1>6. \A sk \in StorageKeys : f[sk] = IF sk = <<t, Format(n)>> THEN r ELSE s[sk]
  <2>1. ASSUME NEW sk \in StorageKeys
        PROVE  f[sk] = IF sk = <<t, Format(n)>> THEN r ELSE s[sk]
    <3>1. (\E p \in {<<k, r>>} : MakeStorageKey(t, p[1]) = sk) <=> sk = <<t, Format(n)>>
      BY <1>2
    <3>2. CASE sk = <<t, Format(n)>>
      <4> DEFINE q == CHOOSE p \in {<<k, r>>} : MakeStorageKey(t, p[1]) = sk
      <4>1. q \in {<<k, r>>}
        BY <3>1, <3>2
      <4>2. f[sk] = q[2]
        BY <1>4, <3>1, <3>2 DEF InsertData
      <4> HIDE DEF q, f
      <4> QED BY <3>2, <4>1, <4>2
    <3>3. CASE sk # <<t, Format(n)>>
      BY <1>4, <3>1, <3>3 DEF InsertData
    <3> QED BY <3>2, <3>3
  <2> QED BY <2>1
<1> HIDE DEF f
<1>7. MoreRows(f, s, t)
  <2>1. ASSUME NEW sk \in StorageKeys, sk = <<t, Format(n)>>
        PROVE  s[sk] = NoRow /\ f[sk] \in Rows /\ sk[1] = t /\ sk[2] \in Texts /\ Canonical(sk[2])
    BY <1>1, <1>3, <1>6, <2>1 DEF Free, Canonical
  <2> QED BY <1>6, <2>1 DEF MoreRows
<1>8. Free(f, t) = Free(s, t) \ {n}
  <2>1. ASSUME NEW m \in Ints
        PROVE  f[<<t, Format(m)>>] = IF m = n THEN r ELSE s[<<t, Format(m)>>]
    <3>1. Parse(Format(m)) = m /\ <<t, Format(m)>> \in StorageKeys
      BY SqlAssumptions DEF SqlAssumptions, StorageKeys
    <3> QED BY <1>3, <1>6, <3>1
  <2>2. r # NoRow
    BY SqlAssumptions DEF SqlAssumptions
  <2> QED BY <1>1, <2>1, <2>2 DEF Free
<1>9. CounterKey(t, n) = <<t, Format(n)>>
  BY DEF CounterKey, MakeStorageKey
<1> QED BY <1>5, <1>6, <1>7, <1>8, <1>9 DEF f, n

LEMMA MoreAndMore ==
    ASSUME NEW t \in Tables, NEW s1, NEW s2, NEW s3, MoreRows(s2, s1, t), MoreRows(s3, s2, t)
    PROVE  MoreRows(s3, s1, t)
<1>1. NoRow \notin Rows
  BY SqlAssumptions DEF SqlAssumptions
<1> QED BY <1>1 DEF MoreRows

(* The rows of an INSERT are appended one after the other.                 *)
LEMMA AppendDataUnfolds ==
    ASSUME NEW t \in Tables, NEW new, Len(new) \in Nat
    PROVE  \E after : /\ AppendData(t, new) = after[Len(new)] /\ after[0] = store
                     /\ \A i \in 1..Len(new) : after[i] = Appended(after[i - 1], t, new[i])
<1> DEFINE n == Len(new)
           IsAfter(f, m) == f = [i \in 0..m |-> IF i = 0 THEN store ELSE Appended(f[i - 1], t, new[i])]
           S == {m \in Nat : \E f : IsAfter(f, m)}
<1>1. ASSUME NEW m \in Nat, 0..(m - 1) \subseteq S PROVE m \in S
  <2>1. CASE m = 0
    <3>1. IsAfter([i \in 0..0 |-> store], 0)
      OBVIOUS
    <3> QED BY <2>1, <3>1
  <2>2. CASE m # 0
    <3>1. PICK g : IsAfter(g, m - 1)
      <4> HIDE DEF IsAfter
      <4>1. m - 1 \in S
        BY <1>1, <2>2
      <4> QED BY <4>1
    <3> DEFINE f == [i \in 0..m |-> IF i = m THEN Appended(g[m - 1], t, new[m]) ELSE g[i]]
    <3>2. ASSUME NEW i \in 0..m
          PROVE  f[i] = IF i = 0 THEN store ELSE Appended(f[i - 1], t, new[i])
      <4>1. CASE i = m
        BY <2>2, <4>1
      <4>2. CASE i # m
        BY <2>2, <3>1, <4>2
      <4> QED BY <4>1, <4>2
    <3>3. IsAfter(f, m)
      BY <3>2
    <3> QED BY <3>3
  <2> QED BY <2>1, <2>2
<1> DEFINE after == CHOOSE f : IsAfter(f, n)
<1>2. IsAfter(after, n)
  <2> HIDE DEF S, IsAfter
  <2>1. n \in S
    BY <1>1, CourseOfValues
  <2> QED BY <2>1 DEF S
<1>3. AppendData(t, new) = after[n]
  BY DEF AppendData, Appended
<1> HIDE DEF after
<1> QED BY <1>2, <1>3

(* after is the store after each of the rows.                              *)
Appending(after, t, new) ==
    /\ AppendData(t, new) = after[Len(new)] /\ after[0] = store
    /\ \A i \in 1..Len(new) :
         /\ after[i] = Appended(after[i - 1], t, new[i])
         /\ after[i - 1] \in Stores /\ Free(after[i - 1], t) # {}
    /\ after[Len(new)] \in Stores /\ MoreRows(after[Len(new)], store, t)

LEMMA AppendDataRuns ==
    ASSUME store \in Stores, NEW t \in Tables, NEW new \in Seq(Rows), HasFree(store, t, Len(new))
    PROVE  \E after : Appending(after, t, new)
<1>1. Len(new) \in Nat
  OBVIOUS
<1>2. PICK after : /\ AppendData(t, new) = after[Len(new)] /\ after[0] = store
                   /\ \A i \in 1..Len(new) : after[i] = Appended(after[i - 1], t, new[i])
  BY <1>1, AppendDataUnfolds
<1> DEFINE card(i) == Cardinality(Free(after[i], t))
           P(i) == /\ after[i] \in Stores /\ MoreRows(after[i], store, t)
                   /\ card(i) >= Len(new) - i
           S == {i \in Nat : i <= Len(new) => P(i)}
<1>3. P(0)
  <2>1. card(0) >= Len(new)
    BY <1>2 DEF HasFree, Free, MakeStorageKey
  <2> QED BY <1>1, <1>2, <2>1 DEF MoreRows
<1>4. ASSUME NEW i \in 1..Len(new), P(i - 1) PROVE P(i) /\ Free(after[i - 1], t) # {}
  <2> DEFINE s == after[i - 1]
  <2>1. after[i] = Appended(s, t, new[i]) /\ new[i] \in Rows
    BY <1>2
  <2>2. s \in Stores /\ MoreRows(s, store, t) /\ Cardinality(Free(s, t)) >= Len(new) - (i - 1)
    BY <1>4
  <2> HIDE DEF s
  <2>3. Cardinality(Free(s, t)) > 0 /\ Free(s, t) # {}
    BY <1>1, <2>2, FreeFinite
  <2>4. /\ after[i] \in Stores /\ MoreRows(after[i], s, t)
        /\ Free(after[i], t) = Free(s, t) \ {NextFree(s, t)}
    BY <2>1, <2>2, <2>3, AppendedIs
  <2>5. Cardinality(Free(after[i], t)) = Cardinality(Free(s, t)) - 1
    BY <2>3, <2>4, FreeFinite, NextFreeIsFree, FS_RemoveElement
  <2>6. Cardinality(Free(after[i], t)) >= Len(new) - i
    BY <1>1, <2>2, <2>5, FreeFinite
  <2> QED BY <2>2, <2>3, <2>4, <2>6, MoreAndMore DEF s
<1> HIDE DEF P
<1>5. ASSUME NEW i \in Nat, 0..(i - 1) \subseteq S PROVE i \in S
  BY <1>1, <1>3, <1>4, <1>5
<1>6. \A i \in 0..Len(new) : P(i)
  <2> HIDE DEF S
  <2>1. \A i \in Nat : i \in S
    BY <1>5, CourseOfValues
  <2> QED BY <1>1, <2>1 DEF S
<1>7. ASSUME NEW i \in 1..Len(new)
      PROVE  after[i - 1] \in Stores /\ Free(after[i - 1], t) # {}
  <2>1. P(i - 1)
    BY <1>1, <1>6
  <2> QED BY <1>4, <2>1 DEF P
<1>8. P(Len(new))
  BY <1>1, <1>6
<1> QED BY <1>2, <1>7, <1>8 DEF P, Appending

LEMMA AppendDataIs ==
    ASSUME store \in Stores, NEW t \in Tables, NEW new \in Seq(Rows), HasFree(store, t, Len(new))
    PROVE  AppendData(t, new) \in Stores /\ MoreRows(AppendData(t, new), store, t)
BY AppendDataRuns DEF Appending

(* The counters of an INSERT                                               *)
LEMMA AppendDataWhole ==
    ASSUME store \in Stores, NEW t \in Tables, NEW new \in Seq(Rows), HasFree(store, t, Len(new))
    PROVE  \E c \in [1..Len(new) -> Ints] :
             /\ \A i, j \in 1..Len(new) : i < j => c[i] < c[j]
             /\ \A i \in 1..Len(new) :
                  /\ store[CounterKey(t, c[i])] = NoRow
                  /\ AppendData(t, new)[CounterKey(t, c[i])] = new[i]
             /\ \A sk \in StorageKeys :
                  AppendData(t, new)[sk] = store[sk] \/ \E i \in 1..Len(new) : sk = CounterKey(t, c[i])
<1> DEFINE n == Len(new)
<1>1. PICK after : Appending(after, t, new)
  BY AppendDataRuns
<1> DEFINE c == [i \in 1..n |-> NextFree(after[i - 1], t)]
           key(i) == CounterKey(t, c[i])
           Done(k) == /\ \A i \in 1..k : \A m \in Free(after[k], t) : c[i] < m
                      /\ \A i \in 1..k : \A j \in 1..k : i < j => c[i] < c[j]
                      /\ Free(after[k], t) \subseteq Free(store, t)
                      /\ \A i \in 1..k : c[i] \in Free(store, t) /\ after[k][key(i)] = new[i]
                      /\ \A sk \in StorageKeys :
                           after[k][sk] = store[sk] \/ \E i \in 1..k : sk = key(i)
           S == {k \in Nat : k <= n => Done(k)}
<1>2. n \in Nat /\ after[0] = store /\ AppendData(t, new) = after[n]
  BY <1>1 DEF Appending
<1>3. ASSUME NEW i \in 1..n
      PROVE  /\ after[i - 1] \in Stores /\ Free(after[i - 1], t) # {}
             /\ after[i] = Appended(after[i - 1], t, new[i]) /\ new[i] \in Rows
             /\ c[i] \in Free(after[i - 1], t) /\ c[i] \in Ints /\ c[i] \in Nat
             /\ \A m \in Free(after[i - 1], t) : c[i] <= m
             /\ key(i) \in StorageKeys
             /\ Free(after[i], t) = Free(after[i - 1], t) \ {c[i]}
             /\ \A sk \in StorageKeys :
                  after[i][sk] = IF sk = key(i) THEN new[i] ELSE after[i - 1][sk]
  <2>1. /\ after[i - 1] \in Stores /\ Free(after[i - 1], t) # {}
        /\ after[i] = Appended(after[i - 1], t, new[i]) /\ new[i] \in Rows
    BY <1>1 DEF Appending
  <2>2. c[i] = NextFree(after[i - 1], t)
    OBVIOUS
  <2> HIDE DEF c
  <2>3. c[i] \in Free(after[i - 1], t) /\ \A m \in Free(after[i - 1], t) : c[i] <= m
    BY <2>1, <2>2, NextFreeIsFree
  <2>4. c[i] \in Ints /\ c[i] \in Nat
    BY <2>3, SqlAssumptions DEF SqlAssumptions, Free
  <2>5. key(i) = <<t, Format(c[i])>>
    BY DEF CounterKey, MakeStorageKey
  <2>6. key(i) \in StorageKeys
    BY <2>4, <2>5, SqlAssumptions DEF SqlAssumptions, StorageKeys
  <2>7. /\ Free(after[i], t) = Free(after[i - 1], t) \ {c[i]}
        /\ \A sk \in StorageKeys :
             after[i][sk] = IF sk = key(i) THEN new[i] ELSE after[i - 1][sk]
    BY <2>1, <2>2, AppendedIs
  <2> QED BY <2>1, <2>3, <2>4, <2>6, <2>7
<1>4. \A m, k \in Ints : CounterKey(t, m) = CounterKey(t, k) => m = k
  <2>1. \A m \in Ints : CounterKey(t, m) = <<t, Format(m)>> /\ Parse(Format(m)) = m
    BY SqlAssumptions DEF SqlAssumptions, CounterKey, MakeStorageKey
  <2> QED BY <2>1
<1> HIDE DEF c, n
<1>5. Done(0)
  BY <1>2
<1>6. ASSUME NEW k \in 1..n, Done(k - 1) PROVE Done(k)
  <2>1. \A i \in 1..k : i \in 1..n /\ (i = k \/ i \in 1..(k - 1))
    BY <1>2
  <2>2. c[k] \in Free(after[k - 1], t) /\ c[k] \in Free(store, t) /\ c[k] \in Nat /\ c[k] \in Ints
    BY <1>3, <1>6
  <2>3. \A i \in 1..(k - 1) : c[i] < c[k] /\ c[i] \in Nat /\ c[i] \in Ints
    BY <1>2, <1>3, <1>6, <2>1, <2>2
  <2>4. \A m \in Free(after[k], t) : m \in Free(after[k - 1], t) /\ c[k] < m
    <3> DEFINE F == Free(after[k - 1], t)
               F2 == Free(after[k], t)
    <3>1. F2 = F \ {c[k]} /\ \A m \in F : c[k] <= m
      BY <1>3
    <3>2. F \subseteq Nat
      BY SqlAssumptions DEF SqlAssumptions, Free
    <3> HIDE DEF F, F2
    <3>3. \A m \in F2 : m \in F /\ c[k] < m
      BY <2>2, <3>1, <3>2
    <3> QED BY <3>3 DEF F, F2
  <2>5. \A i \in 1..k : \A m \in Free(after[k], t) : c[i] < m
    BY <1>6, <2>1, <2>4
  <2>6. \A i \in 1..k : \A j \in 1..k : i < j => c[i] < c[j]
    <3>1. ASSUME NEW i \in 1..k, NEW j \in 1..k, i < j PROVE c[i] < c[j]
      <4>1. i \in 1..(k - 1)
        BY <3>1
      <4> QED BY <1>6, <2>1, <2>3, <3>1, <4>1
    <3> QED BY <3>1
  <2>7. Free(after[k], t) \subseteq Free(store, t)
    BY <1>6, <2>4
  <2>8. \A i \in 1..k : c[i] \in Free(store, t) /\ after[k][key(i)] = new[i]
    <3>1. ASSUME NEW i \in 1..(k - 1) PROVE after[k][key(i)] = new[i]
      <4>1. c[i] # c[k] /\ c[i] \in Ints
        BY <2>2, <2>3
      <4>2. key(i) # key(k) /\ key(i) \in StorageKeys
        BY <1>2, <1>3, <1>4, <2>2, <4>1
      <4> QED BY <1>3, <1>6, <4>2
    <3>2. after[k][key(k)] = new[k]
      BY <1>3
    <3> QED BY <1>6, <2>1, <2>2, <3>1, <3>2
  <2>9. \A sk \in StorageKeys : after[k][sk] = store[sk] \/ \E i \in 1..k : sk = key(i)
    <3>1. ASSUME NEW sk \in StorageKeys, sk # key(k), after[k][sk] # store[sk]
          PROVE  \E i \in 1..k : sk = key(i)
      <4>1. after[k - 1][sk] # store[sk]
        BY <1>3, <3>1
      <4>2. PICK i \in 1..(k - 1) : sk = key(i)
        BY <1>6, <4>1
      <4>3. i \in 1..k
        OBVIOUS
      <4> QED BY <4>2, <4>3
    <3>2. k \in 1..k
      OBVIOUS
    <3> QED BY <3>1, <3>2
  <2> QED BY <2>5, <2>6, <2>7, <2>8, <2>9
<1> HIDE DEF Done
<1>7. ASSUME NEW k \in Nat, 0..(k - 1) \subseteq S PROVE k \in S
  BY <1>2, <1>5, <1>6, <1>7
<1>8. Done(n)
  <2> HIDE DEF S
  <2>1. n \in S
    BY <1>2, <1>7, CourseOfValues
  <2> QED BY <1>2, <2>1 DEF S
<1>9. c \in [1..n -> Ints]
  <2>1. \A i \in 1..n : c[i] \in Ints
    BY <1>3
  <2>2. c = [i \in 1..n |-> c[i]]
    BY DEF c
  <2> QED BY <2>1, <2>2
<1>10. \A i \in 1..n : store[key(i)] = NoRow
  BY <1>8 DEF Done, Free, CounterKey, MakeStorageKey
<1>11. /\ \A i, j \in 1..n : i < j => c[i] < c[j]
       /\ \A i \in 1..n : AppendData(t, new)[key(i)] = new[i]
       /\ \A sk \in StorageKeys : AppendData(t, new)[sk] = store[sk] \/ \E i \in 1..n : sk = key(i)
  BY <1>2, <1>8 DEF Done
<1> QED BY <1>9, <1>10, <1>11 DEF n

-----------------------------------------------------------------------------
(* UPDATE and DELETE, where the rows have canonical keys                   *)

Reached(t, p, sk) == sk[1] = t /\ sk[2] \in Texts /\ store[sk] \in p

LEMMA KeysOfScan ==
    ASSUME store \in Stores, RowsCanonical(store), NEW t \in Tables, NEW p \in SUBSET Rows,
           NEW sk \in StorageKeys
    PROVE  (\E y \in ScanData(t) : y[2] \in p /\ MakeStorageKey(t, y[1]) = sk) <=> Reached(t, p, sk)
<1>1. ASSUME NEW y \in ScanData(t), y[2] \in p, MakeStorageKey(t, y[1]) = sk
      PROVE  Reached(t, p, sk)
  <2>1. PICK x \in Texts : store[<<t, x>>] # NoRow /\ y = <<ParseKey(<<t, x>>), store[<<t, x>>]>>
    BY ScanIs
  <2>2. Canonical(x)
    BY <2>1 DEF RowsCanonical
  <2>3. y[1] = ParseKey(<<t, x>>) /\ y[2] = store[<<t, x>>]
    BY <2>1
  <2>4. sk = <<t, x>>
    BY <1>1, <2>2, <2>3, KeyOfScan
  <2> QED BY <1>1, <2>3, <2>4 DEF Reached
<1>2. ASSUME Reached(t, p, sk)
      PROVE  \E y \in ScanData(t) : y[2] \in p /\ MakeStorageKey(t, y[1]) = sk
  <2>1. PICK x \in Texts : sk = <<t, x>>
    BY <1>2, RowOrSchema DEF Reached
  <2>2. store[<<t, x>>] \in p /\ store[<<t, x>>] # NoRow
    BY <1>2, <2>1, SqlAssumptions DEF SqlAssumptions, Reached
  <2> DEFINE y == <<ParseKey(<<t, x>>), store[<<t, x>>]>>
  <2>3. y \in ScanData(t)
    BY <2>2, ScanIs
  <2>4. MakeStorageKey(t, y[1]) = sk
    BY <2>1, <2>2, KeyOfScan DEF RowsCanonical
  <2> QED BY <2>2, <2>3, <2>4
<1> QED BY <1>1, <1>2

LEMMA UpdateReaches ==
    ASSUME store \in Stores, RowsCanonical(store), NEW t \in Tables, NEW p \in SUBSET Rows,
           NEW r \in Rows
    PROVE  \A sk \in StorageKeys :
             InsertData(store, t, {<<x[1], r>> : x \in {y \in ScanData(t) : y[2] \in p}})[sk] =
               IF Reached(t, p, sk) THEN r ELSE store[sk]
<1> DEFINE pairs == {<<x[1], r>> : x \in {y \in ScanData(t) : y[2] \in p}}
           f == InsertData(store, t, pairs)
<1> SUFFICES ASSUME NEW sk \in StorageKeys
             PROVE  f[sk] = IF Reached(t, p, sk) THEN r ELSE store[sk]
  OBVIOUS
<1>1. (\E q \in pairs : MakeStorageKey(t, q[1]) = sk) <=> Reached(t, p, sk)
  <2>1. (\E q \in pairs : MakeStorageKey(t, q[1]) = sk) <=>
          \E y \in ScanData(t) : y[2] \in p /\ MakeStorageKey(t, y[1]) = sk
    <3>1. \A q \in pairs : \E y \in ScanData(t) : y[2] \in p /\ q[1] = y[1]
      OBVIOUS
    <3>2. ASSUME NEW y \in ScanData(t), y[2] \in p PROVE \E q \in pairs : q[1] = y[1]
      <4>1. <<y[1], r>> \in pairs /\ <<y[1], r>>[1] = y[1]
        BY <3>2
      <4> QED BY <4>1
    <3> HIDE DEF pairs
    <3> QED BY <3>1, <3>2
  <2> HIDE DEF pairs
  <2> QED BY <2>1, KeysOfScan
<1>2. \A q \in pairs : q[2] = r
  OBVIOUS
<1> HIDE DEF pairs
<1>3. CASE Reached(t, p, sk)
  <2> DEFINE q == CHOOSE q \in pairs : MakeStorageKey(t, q[1]) = sk
  <2>1. q \in pairs
    BY <1>1, <1>3
  <2>2. f[sk] = q[2]
    BY <1>1, <1>3 DEF InsertData
  <2> HIDE DEF q, f
  <2> QED BY <1>2, <1>3, <2>1, <2>2
<1>4. CASE ~ Reached(t, p, sk)
  BY <1>1, <1>4 DEF InsertData
<1> QED BY <1>3, <1>4

LEMMA DeleteReaches ==
    ASSUME store \in Stores, RowsCanonical(store), NEW t \in Tables, NEW p \in SUBSET Rows
    PROVE  \A sk \in StorageKeys :
             DeleteData(store, t, {x[1] : x \in {y \in ScanData(t) : y[2] \in p}})[sk] =
               IF Reached(t, p, sk) THEN NoRow ELSE store[sk]
<1> DEFINE keys == {x[1] : x \in {y \in ScanData(t) : y[2] \in p}}
<1> SUFFICES ASSUME NEW sk \in StorageKeys
             PROVE  DeleteData(store, t, keys)[sk] = IF Reached(t, p, sk) THEN NoRow ELSE store[sk]
  OBVIOUS
<1>1. (\E k \in keys : MakeStorageKey(t, k) = sk) <=> Reached(t, p, sk)
  <2>1. (\E k \in keys : MakeStorageKey(t, k) = sk) <=>
          \E y \in ScanData(t) : y[2] \in p /\ MakeStorageKey(t, y[1]) = sk
    OBVIOUS
  <2> HIDE DEF keys
  <2> QED BY <2>1, KeysOfScan
<1> HIDE DEF keys
<1> QED BY <1>1 DEF DeleteData

-----------------------------------------------------------------------------
(* Steps                                                                   *)

LEMMA NewRowsTyped ==
    ASSUME NEW new \in NewRows
    PROVE  new \in Seq(Rows)
<1>1. PICK n \in 1..MaxRows : new \in [1..n -> Rows]
  BY DEF NewRows
<1> QED BY <1>1, SqlAssumptions DEF SqlAssumptions

LEMMA TypedStep ==
    ASSUME Typed, [Next]_vars
    PROVE  Typed'
<1>1. CASE UNCHANGED vars
  BY <1>1 DEF Typed, vars
<1>2. CASE Next
  <2>1. Statement => calls' \in 0..MaxCalls
    BY SqlAssumptions DEF SqlAssumptions, Statement, Typed
  <2>2. ASSUME NEW t \in Tables, CreateTable(t) \/ DropTable(t) PROVE Typed'
    BY <2>1, <2>2, SchemaTyped DEF Typed, CreateTable, DropTable, InsertSchema, DeleteSchema
  <2>3. ASSUME NEW t \in Tables, NEW new \in NewRows, InsertUnkeyed(t, new) PROVE Typed'
    BY <2>1, <2>3, NewRowsTyped, AppendDataIs DEF Typed, InsertUnkeyed
  <2>4. ASSUME NEW t \in Tables, NEW k \in RowKeys, NEW r \in Rows, InsertKeyed(t, k, r)
        PROVE  Typed'
    BY <2>1, <2>4, InsertDataTyped DEF Typed, InsertKeyed
  <2>5. ASSUME NEW t \in Tables, NEW p \in SUBSET Rows, Delete(t, p) PROVE Typed'
    BY <2>1, <2>5, DeleteDataTyped DEF Typed, Delete
  <2>6. ASSUME NEW t \in Tables, NEW p \in SUBSET Rows, NEW r \in Rows, Update(t, p, r)
        PROVE  Typed'
    <3> DEFINE pairs == {<<x[1], r>> : x \in {y \in ScanData(t) : y[2] \in p}}
    <3>1. pairs \in SUBSET (RowKeys \X Rows)
      BY ScanTyped DEF Typed
    <3>2. store' = InsertData(store, t, pairs) /\ saved' = saved
      BY <2>6 DEF Update
    <3> HIDE DEF pairs
    <3> QED BY <2>1, <2>6, <3>1, <3>2, InsertDataTyped DEF Typed, Update
  <2>7. CASE Begin \/ Rollback \/ Commit \/ Checkout
    BY <2>1, <2>7 DEF Typed, Begin, Rollback, Commit, Checkout
  <2> QED BY <1>2, <2>2, <2>3, <2>4, <2>5, <2>6, <2>7 DEF Next
<1> QED BY <1>1, <1>2

LEMMA InitTyped == Init => Typed
<1>1. NoRow \in Rows \cup {NoRow, Schema} /\ MaxCalls \in Nat
  BY SqlAssumptions DEF SqlAssumptions
<1>2. Init => [sk \in StorageKeys |-> NoRow] \in Stores
  BY <1>1 DEF Stores
<1> QED BY <1>1, <1>2 DEF Init, Typed

-----------------------------------------------------------------------------
(* The tables that a store holds                                           *)

LEMMA RowKeysOf ==
    ASSUME NEW t \in Tables
    PROVE  /\ \A x \in Texts : <<t, x>> \in StorageKeys /\ <<t, x>>[1] = t /\ <<t, x>>[2] = x
           /\ <<t, Schema>> \in StorageKeys /\ <<t, Schema>>[1] = t /\ <<t, Schema>>[2] = Schema
           /\ Schema \notin Texts
           /\ \A u \in Tables, x \in Texts : <<u, x>> # <<t, Schema>>
BY SqlAssumptions DEF SqlAssumptions, StorageKeys

(* Rows of one table change.                                               *)
LEMMA RowsChange ==
    ASSUME NEW s1, NEW s2, NEW t \in Tables, NEW row,
           row = [x \in Texts |-> row[x]],
           \A u \in Tables, x \in Texts : s2[<<u, x>>] = IF u = t THEN row[x] ELSE s1[<<u, x>>]
    PROVE  RowsOf(s2) = [RowsOf(s1) EXCEPT ![t] = row]
<1> DEFINE left == RowsOf(s2)
           right == [RowsOf(s1) EXCEPT ![t] = row]
<1>1. left = [u \in Tables |-> left[u]] /\ right = [u \in Tables |-> right[u]]
  BY DEF RowsOf
<1>2. ASSUME NEW u \in Tables PROVE left[u] = right[u]
  <2>1. CASE u = t
    <3>1. left[u] = [x \in Texts |-> row[x]]
      BY <2>1 DEF RowsOf
    <3>2. right[u] = row
      BY <2>1 DEF RowsOf
    <3> QED BY <3>1, <3>2
  <2>2. CASE u # t
    BY <2>2 DEF RowsOf
  <2> QED BY <2>1, <2>2
<1> HIDE DEF left, right
<1>3. left = right
  BY <1>1, <1>2
<1> QED BY <1>3 DEF left, right

LEMMA RowsStay ==
    ASSUME NEW s1, NEW s2,
           \A u \in Tables, x \in Texts : s2[<<u, x>>] = s1[<<u, x>>]
    PROVE  RowsOf(s2) = RowsOf(s1)
BY DEF RowsOf

LEMMA SchemasStay ==
    ASSUME NEW s1, NEW s2, \A u \in Tables : s2[<<u, Schema>>] = s1[<<u, Schema>>]
    PROVE  DeclaredIn(s2) = DeclaredIn(s1)
BY DEF DeclaredIn

LEMMA Declared ==
    ASSUME NEW t \in Tables
    PROVE  t \in FetchAllSchemas <=> t \in DeclaredIn(store)
BY SchemaKeys DEF FetchAllSchemas, FetchSchema, DeclaredIn

-----------------------------------------------------------------------------
(* Each statement does what is promised of tables                          *)

SavedStays == DeclaredIn(saved)' = DeclaredIn(saved) /\ RowsOf(saved)' = RowsOf(saved)

LEMMA CreateRefines ==
    ASSUME Typed, NEW t \in Tables, CreateTable(t)
    PROVE  Promised!Create(t)
<1>1. store' = [store EXCEPT ![<<t, Schema>>] = Schema] /\ saved' = saved
  BY SchemaKeys DEF CreateTable, InsertSchema
<1>2. \A u \in Tables, x \in Texts : store'[<<u, x>>] = store[<<u, x>>]
  BY <1>1, RowKeysOf DEF Typed, Stores
<1>3. Schema # NoRow
  BY SqlAssumptions DEF SqlAssumptions
<1>4. \A u \in Tables : store'[<<u, Schema>>] = IF u = t THEN Schema ELSE store[<<u, Schema>>]
  <2>1. ASSUME NEW u \in Tables
        PROVE  store'[<<u, Schema>>] = IF u = t THEN Schema ELSE store[<<u, Schema>>]
    <3>1. <<u, Schema>> \in StorageKeys /\ (<<u, Schema>> = <<t, Schema>> <=> u = t)
      BY RowKeysOf
    <3> QED BY <1>1, <3>1 DEF Typed, Stores
  <2> QED BY <2>1
<1>5. DeclaredIn(store)' = DeclaredIn(store) \cup {t}
  BY <1>3, <1>4 DEF DeclaredIn
<1>6. t \notin DeclaredIn(store)
  BY Declared DEF CreateTable
<1>7. RowsOf(store)' = RowsOf(store)
  BY <1>2, RowsStay
<1> QED BY <1>1, <1>5, <1>6, <1>7 DEF Promised!Create, Promised!saved

LEMMA DropRefines ==
    ASSUME Typed, NEW t \in Tables, DropTable(t)
    PROVE  Promised!Drop(t)
<1>1. store' = [store EXCEPT ![<<t, Schema>>] = NoRow] /\ saved' = saved
  BY SchemaKeys DEF DropTable, DeleteSchema
<1>2. \A u \in Tables, x \in Texts : store'[<<u, x>>] = store[<<u, x>>]
  BY <1>1, RowKeysOf DEF Typed, Stores
<1>3. \A u \in Tables : store'[<<u, Schema>>] = IF u = t THEN NoRow ELSE store[<<u, Schema>>]
  <2>1. ASSUME NEW u \in Tables
        PROVE  store'[<<u, Schema>>] = IF u = t THEN NoRow ELSE store[<<u, Schema>>]
    <3>1. <<u, Schema>> \in StorageKeys /\ (<<u, Schema>> = <<t, Schema>> <=> u = t)
      BY RowKeysOf
    <3> QED BY <1>1, <3>1 DEF Typed, Stores
  <2> QED BY <2>1
<1>4. DeclaredIn(store)' = DeclaredIn(store) \ {t}
  BY <1>3 DEF DeclaredIn
<1>5. t \in DeclaredIn(store)
  BY Declared DEF DropTable
<1>6. RowsOf(store)' = RowsOf(store)
  BY <1>2, RowsStay
<1> QED BY <1>1, <1>4, <1>5, <1>6 DEF Promised!Drop, Promised!saved

(* More rows of a table are an INSERT.                                     *)
LEMMA InsertRefines ==
    ASSUME Typed, Typed', NEW t \in Tables, t \in FetchAllSchemas, MoreRows(store', store, t),
           saved' = saved
    PROVE  Promised!Insert(t)
<1> DEFINE new == [x \in Texts |-> IF store[<<t, x>>] = NoRow THEN store'[<<t, x>>] ELSE NoRow]
           row == [x \in Texts |-> IF new[x] = NoRow THEN store[<<t, x>>] ELSE new[x]]
<1>1. ASSUME NEW u \in Tables, NEW x \in Texts
      PROVE  /\ store'[<<u, x>>] \in Rows \cup {NoRow}
             /\ \/ store'[<<u, x>>] = store[<<u, x>>]
                \/ u = t /\ store[<<u, x>>] = NoRow
  BY RowKeysOf DEF Typed, Stores, MoreRows
<1>2. new \in [Texts -> Rows \cup {NoRow}] /\ \A x \in Texts : new[x] # NoRow => store[<<t, x>>] = NoRow
  BY <1>1
<1>3. ASSUME NEW u \in Tables, NEW x \in Texts
      PROVE  store'[<<u, x>>] = IF u = t THEN row[x] ELSE store[<<u, x>>]
  BY <1>1
<1>4. RowsOf(store)' = [RowsOf(store) EXCEPT ![t] = row]
  <2>1. row = [x \in Texts |-> row[x]]
    OBVIOUS
  <2> HIDE DEF row
  <2> QED BY <1>3, <2>1, RowsChange
<1>5. \A x \in Texts : RowsOf(store)[t][x] = store[<<t, x>>]
  BY DEF RowsOf
<1>6. row = [x \in Texts |-> IF new[x] = NoRow THEN RowsOf(store)[t][x] ELSE new[x]]
  BY <1>5
<1>7. DeclaredIn(store)' = DeclaredIn(store)
  BY RowKeysOf, SchemasStay DEF MoreRows
<1>8. t \in DeclaredIn(store)
  BY Declared
<1> HIDE DEF new, row
<1>9. \E n \in [Texts -> Rows \cup {NoRow}] :
        /\ \A k \in Texts : n[k] # NoRow => RowsOf(store)[t][k] = NoRow
        /\ RowsOf(store)' = [RowsOf(store) EXCEPT
                              ![t] = [k \in Texts |-> IF n[k] = NoRow THEN RowsOf(store)[t][k] ELSE n[k]]]
  BY <1>2, <1>4, <1>5, <1>6
<1> QED BY <1>7, <1>8, <1>9 DEF Promised!Insert, Promised!saved

(* The rows of a table that are in p become v.                             *)
LEMMA ChosenChange ==
    ASSUME Typed, NEW t \in Tables, NEW p \in SUBSET Rows, NEW v,
           \A sk \in StorageKeys : store'[sk] = IF Reached(t, p, sk) THEN v ELSE store[sk]
    PROVE  /\ RowsOf(store)' = [RowsOf(store) EXCEPT
                 ![t] = [k \in Texts |-> IF k \in Promised!Chosen(t, p) THEN v ELSE RowsOf(store)[t][k]]]
           /\ DeclaredIn(store)' = DeclaredIn(store)
<1> DEFINE row == [x \in Texts |-> IF store[<<t, x>>] \in p THEN v ELSE store[<<t, x>>]]
<1>1. ASSUME NEW u \in Tables, NEW x \in Texts
      PROVE  store'[<<u, x>>] = IF u = t THEN row[x] ELSE store[<<u, x>>]
  BY RowKeysOf DEF Reached
<1>2. RowsOf(store)' = [RowsOf(store) EXCEPT ![t] = row]
  <2>1. row = [x \in Texts |-> row[x]]
    OBVIOUS
  <2> HIDE DEF row
  <2> QED BY <1>1, <2>1, RowsChange
<1>3. \A x \in Texts : RowsOf(store)[t][x] = store[<<t, x>>]
  BY DEF RowsOf
<1>4. row = [k \in Texts |-> IF k \in Promised!Chosen(t, p) THEN v ELSE RowsOf(store)[t][k]]
  BY <1>3 DEF Promised!Chosen
<1>5. DeclaredIn(store)' = DeclaredIn(store)
  BY RowKeysOf, SchemasStay DEF Reached
<1> QED BY <1>2, <1>4, <1>5

LEMMA UpdateRefines ==
    ASSUME Typed, RowsCanonical(store), NEW t \in Tables, NEW p \in SUBSET Rows, NEW r \in Rows,
           Update(t, p, r)
    PROVE  Promised!Update(t, p, r)
<1>1. \A sk \in StorageKeys : store'[sk] = IF Reached(t, p, sk) THEN r ELSE store[sk]
  BY UpdateReaches DEF Typed, Update
<1>2. t \in DeclaredIn(store) /\ saved' = saved
  BY Declared DEF Update
<1>3. /\ RowsOf(store)' = [RowsOf(store) EXCEPT
            ![t] = [k \in Texts |-> IF k \in Promised!Chosen(t, p) THEN r ELSE RowsOf(store)[t][k]]]
      /\ DeclaredIn(store)' = DeclaredIn(store)
  BY <1>1, ChosenChange
<1> QED BY <1>2, <1>3 DEF Promised!Update, Promised!saved

LEMMA DeleteRefines ==
    ASSUME Typed, RowsCanonical(store), NEW t \in Tables, NEW p \in SUBSET Rows, Delete(t, p)
    PROVE  Promised!Delete(t, p)
<1>1. \A sk \in StorageKeys : store'[sk] = IF Reached(t, p, sk) THEN NoRow ELSE store[sk]
  BY DeleteReaches DEF Typed, Delete
<1>2. t \in DeclaredIn(store) /\ saved' = saved
  BY Declared DEF Delete
<1>3. /\ RowsOf(store)' = [RowsOf(store) EXCEPT
            ![t] = [k \in Texts |-> IF k \in Promised!Chosen(t, p) THEN NoRow ELSE RowsOf(store)[t][k]]]
      /\ DeclaredIn(store)' = DeclaredIn(store)
  BY <1>1, ChosenChange
<1> QED BY <1>2, <1>3 DEF Promised!Delete, Promised!saved

-----------------------------------------------------------------------------
(* Every step                                                              *)

LEMMA InsertKeyedAdds ==
    ASSUME Typed, NEW t \in Tables, NEW k \in RowKeys, NEW r \in Rows, InsertKeyed(t, k, r),
           NamesCanonicalKey
    PROVE  MoreRows(store', store, t)
<1>1. PICK x \in Texts : MakeStorageKey(t, k) = <<t, x>> /\ <<t, x>> \in StorageKeys
  BY KeyOfRow
<1>2. Canonical(x)
  <2>1. CASE k.kind = "int"
    <3>1. k.key \in Ints
      BY <2>1 DEF RowKeys, Keys
    <3>2. x = Format(k.key)
      BY <1>1, <2>1 DEF MakeStorageKey
    <3> QED BY <3>1, <3>2, SqlAssumptions DEF SqlAssumptions, Canonical
  <2>2. CASE k.kind # "int"
    <3>1. k.kind = "str"
      BY <2>2 DEF RowKeys, Keys
    <3>2. x = k.key
      BY <1>1, <3>1 DEF MakeStorageKey
    <3> QED BY <3>1, <3>2 DEF NamesCanonicalKey
  <2> QED BY <2>1, <2>2
<1>3. store[<<t, x>>] = NoRow
  BY <1>1 DEF InsertKeyed, FetchData
<1>4. \A sk \in StorageKeys : store'[sk] = IF sk = <<t, x>> THEN r ELSE store[sk]
  <2>1. ASSUME NEW sk \in StorageKeys PROVE store'[sk] = IF sk = <<t, x>> THEN r ELSE store[sk]
    <3>1. (\E p \in {<<k, r>>} : MakeStorageKey(t, p[1]) = sk) <=> sk = <<t, x>>
      BY <1>1
    <3>2. CASE sk = <<t, x>>
      <4> DEFINE q == CHOOSE p \in {<<k, r>>} : MakeStorageKey(t, p[1]) = sk
      <4>1. q \in {<<k, r>>}
        BY <3>1, <3>2
      <4>2. store'[sk] = q[2]
        BY <3>1, <3>2 DEF InsertKeyed, InsertData
      <4> HIDE DEF q
      <4> QED BY <3>2, <4>1, <4>2
    <3>3. CASE sk # <<t, x>>
      BY <3>1, <3>3 DEF InsertKeyed, InsertData
    <3> QED BY <3>2, <3>3
  <2> QED BY <2>1
<1>5. <<t, x>>[1] = t /\ <<t, x>>[2] \in Texts /\ Canonical(<<t, x>>[2])
  BY <1>2
<1> QED BY <1>3, <1>4, <1>5 DEF MoreRows

(* A statement that adds rows, or one that only takes or changes some,     *)
(* keeps the keys canonical.                                               *)
LEMMA StaysCanonical ==
    ASSUME NEW s1, NEW s2, RowsCanonical(s1),
           \A t \in Tables, x \in Texts :
             s2[<<t, x>>] = s1[<<t, x>>] \/ s1[<<t, x>>] # NoRow \/ Canonical(x)
    PROVE  RowsCanonical(s2)
BY DEF RowsCanonical

LEMMA MoreCanonical ==
    ASSUME NEW s1, NEW s2, NEW t, RowsCanonical(s1), MoreRows(s2, s1, t)
    PROVE  RowsCanonical(s2)
<1>1. \A u \in Tables, x \in Texts : s2[<<u, x>>] = s1[<<u, x>>] \/ Canonical(x)
  BY RowKeysOf DEF MoreRows
<1> QED BY <1>1, StaysCanonical

LEMMA StepRefines ==
    ASSUME IInv, [Next]_vars, [NamesCanonicalKey]_vars
    PROVE  IInv' /\ (\/ Promised!Next \/ UNCHANGED <<Promised!tables, Promised!saved>>)
<1>1. Typed /\ Typed' /\ RowsCanonical(store) /\ RowsCanonical(saved)
  BY TypedStep DEF IInv
<1>2. saved' = saved => RowsCanonical(saved)'
  BY <1>1 DEF RowsCanonical
<1> DEFINE Goal == IInv' /\ (Promised!Next \/ UNCHANGED <<Promised!tables, Promised!saved>>)
<1>3. CASE UNCHANGED vars
  BY <1>1, <1>3 DEF vars, IInv, RowsCanonical, Promised!tables, Promised!saved, RowsOf, DeclaredIn
<1>4. ASSUME NEW t \in Tables, CreateTable(t) \/ DropTable(t) PROVE Goal
  <2>1. Promised!Next
    BY <1>1, <1>4, CreateRefines, DropRefines DEF Promised!Next
  <2>2. \A u \in Tables, x \in Texts : store'[<<u, x>>] = store[<<u, x>>]
    <3>1. PICK v : store' = [store EXCEPT ![<<t, Schema>>] = v]
      BY <1>4, SchemaKeys DEF CreateTable, DropTable, InsertSchema, DeleteSchema
    <3> QED BY <1>1, <3>1, RowKeysOf DEF Typed, Stores
  <2>3. RowsCanonical(store') /\ saved' = saved
    BY <1>1, <1>4, <2>2, StaysCanonical DEF CreateTable, DropTable
  <2> QED BY <1>1, <1>2, <2>1, <2>3 DEF IInv, RowsCanonical
<1>5. ASSUME NEW t \in Tables, t \in FetchAllSchemas, MoreRows(store', store, t), saved' = saved
      PROVE  Goal
  <2>1. Promised!Next
    BY <1>1, <1>5, InsertRefines DEF Promised!Next
  <2>2. RowsCanonical(store')
    BY <1>1, <1>5, MoreCanonical
  <2> QED BY <1>1, <1>2, <1>5, <2>1, <2>2 DEF IInv, RowsCanonical
<1>6. ASSUME NEW t \in Tables, NEW new \in NewRows, InsertUnkeyed(t, new) PROVE Goal
  BY <1>1, <1>5, <1>6, NewRowsTyped, AppendDataIs DEF Typed, InsertUnkeyed
<1>7. ASSUME NEW t \in Tables, NEW k \in RowKeys, NEW r \in Rows, InsertKeyed(t, k, r) PROVE Goal
  <2>1. CASE NamesCanonicalKey
    BY <1>1, <1>5, <1>7, <2>1, InsertKeyedAdds DEF InsertKeyed
  <2> QED BY <1>3, <2>1
<1>8. ASSUME NEW t \in Tables, NEW p \in SUBSET Rows, Delete(t, p) PROVE Goal
  <2>1. Promised!Next
    BY <1>1, <1>8, DeleteRefines DEF Promised!Next
  <2>2. \A sk \in StorageKeys : store'[sk] = store[sk] \/ store[sk] # NoRow
    <3>1. \A sk \in StorageKeys : store'[sk] = IF Reached(t, p, sk) THEN NoRow ELSE store[sk]
      BY <1>1, <1>8, DeleteReaches DEF Typed, Delete
    <3>2. NoRow \notin p
      BY SqlAssumptions DEF SqlAssumptions
    <3> QED BY <3>1, <3>2 DEF Reached
  <2>3. RowsCanonical(store') /\ saved' = saved
    <3>1. \A u \in Tables, x \in Texts :
            store'[<<u, x>>] = store[<<u, x>>] \/ store[<<u, x>>] # NoRow \/ Canonical(x)
      BY <2>2, RowKeysOf
    <3> QED BY <1>1, <1>8, <3>1, StaysCanonical DEF Delete
  <2> QED BY <1>1, <1>2, <2>1, <2>3 DEF IInv, RowsCanonical
<1>9. ASSUME NEW t \in Tables, NEW p \in SUBSET Rows, NEW r \in Rows, Update(t, p, r) PROVE Goal
  <2>1. Promised!Next
    BY <1>1, <1>9, UpdateRefines DEF Promised!Next
  <2>2. \A sk \in StorageKeys : store'[sk] = store[sk] \/ store[sk] # NoRow
    <3>1. \A sk \in StorageKeys : store'[sk] = IF Reached(t, p, sk) THEN r ELSE store[sk]
      BY <1>1, <1>9, UpdateReaches DEF Typed, Update
    <3>2. NoRow \notin p
      BY SqlAssumptions DEF SqlAssumptions
    <3> QED BY <3>1, <3>2 DEF Reached
  <2>3. RowsCanonical(store') /\ saved' = saved
    <3>1. \A u \in Tables, x \in Texts :
            store'[<<u, x>>] = store[<<u, x>>] \/ store[<<u, x>>] # NoRow \/ Canonical(x)
      BY <2>2, RowKeysOf
    <3> QED BY <1>1, <1>9, <3>1, StaysCanonical DEF Update
  <2> QED BY <1>1, <1>2, <2>1, <2>3 DEF IInv, RowsCanonical
<1>10. CASE Begin \/ Rollback
  BY <1>1, <1>10 DEF Begin, Rollback, IInv, RowsCanonical, Promised!tables, Promised!saved,
                     RowsOf, DeclaredIn
<1>11. CASE Commit
  BY <1>1, <1>11 DEF Commit, IInv, RowsCanonical, Promised!Next, Promised!Commit,
                     Promised!tables, RowsOf, DeclaredIn
<1>12. CASE Checkout
  BY <1>1, <1>12 DEF Checkout, IInv, RowsCanonical, Promised!Next, Promised!Discard,
                     Promised!saved, RowsOf, DeclaredIn
<1> HIDE DEF Goal
<1>13. Goal
  BY <1>3, <1>4, <1>6, <1>7, <1>8, <1>9, <1>10, <1>11, <1>12 DEF Next, Goal
<1> QED BY <1>13 DEF Goal

LEMMA InitRefines == Init => IInv /\ Promised!Init
<1> SUFFICES ASSUME Init PROVE IInv /\ Promised!Init
  OBVIOUS
<1>1. \A sk \in StorageKeys : store[sk] = NoRow /\ saved[sk] = NoRow
  BY DEF Init
<1>2. RowsCanonical(store) /\ RowsCanonical(saved)
  BY <1>1, RowKeysOf DEF RowsCanonical
<1>3. DeclaredIn(store) = {} /\ DeclaredIn(saved) = {}
  BY <1>1, RowKeysOf DEF DeclaredIn
<1>4. RowsOf(store) = Promised!Empty /\ RowsOf(saved) = Promised!Empty
  <2>1. \A t \in Tables, x \in Texts : store[<<t, x>>] = NoRow /\ saved[<<t, x>>] = NoRow
    BY <1>1, RowKeysOf
  <2> QED BY <2>1 DEF RowsOf, Promised!Empty
<1> QED BY <1>2, <1>3, <1>4, InitTyped DEF IInv, Promised!Init

-----------------------------------------------------------------------------
(* Theorems                                                                *)

(***************************************************************************)
(* Rows are stored under the keys of rows and schemas under a key of their *)
(* own, whatever the keys of the rows are.                                 *)
(***************************************************************************)
THEOREM TypesHold == Spec => []TypeOK
<1>1. Typed => TypeOK
  BY DEF Typed, TypeOK, Stores
<1> QED BY <1>1, InitTyped, TypedStep, PTL DEF Spec

(***************************************************************************)
(* Unless an INSERT names a string key such as 007, which reads as an      *)
(* integer written in another way, each statement changes the tables as a  *)
(* statement on tables does: an INSERT, of one row or of many under the    *)
(* smallest free numbers, overwrites no row; UPDATE and DELETE reach the   *)
(* rows they have seen, in their table, and no other.                      *)
(***************************************************************************)
THEOREM StatementsImplementTables == Spec /\ CanonicalInserts => ImplementsTables
BY InitRefines, StepRefines, PTL DEF Spec, CanonicalInserts, ImplementsTables, Promised!Spec

(***************************************************************************)
(* Whatever the keys of the rows that are there, an INSERT of many rows    *)
(* without keys stores each of them under a counter that was free and      *)
(* leaves every other pair as it was.                                      *)
(***************************************************************************)
THEOREM InsertsAreWhole == Spec => InsertsAddAllRows
<1> DEFINE Whole == \A t \in Tables, new \in NewRows : InsertUnkeyed(t, new) => AddsAllRows(t, new)
<1>1. ASSUME Typed PROVE Whole
  <2> SUFFICES ASSUME NEW t \in Tables, NEW new \in NewRows, InsertUnkeyed(t, new)
               PROVE  AddsAllRows(t, new)
    OBVIOUS
  <2> QED BY <1>1, NewRowsTyped, AppendDataWhole DEF Typed, InsertUnkeyed, AddsAllRows
<1>2. Typed /\ [Next]_vars => Typed' /\ [Whole]_vars
  BY <1>1, TypedStep
<1>3. Spec => [][Whole]_vars
  BY InitTyped, <1>2, PTL DEF Spec
<1> QED BY <1>3 DEF InsertsAddAllRows
=============================================================================

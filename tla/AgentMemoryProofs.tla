------------------------- MODULE AgentMemoryProofs -------------------------
(***************************************************************************)
(* Proofs about AgentMemory: its types, that no call loses what was        *)
(* stored, that a cleanup or a pruning that ends well has done all of its  *)
(* work, and that a thread keeps its limit.                                *)
(***************************************************************************)
EXTENDS AgentMemory, FiniteSetTheorems, TLAPS

-----------------------------------------------------------------------------
(* The types of documents                                                  *)

TypeNames == {"ShortTerm", "Semantic", "Episodic", "Procedural"}

Parts == Threads \cup Names
           \cup {"working", "context", "entity", "relationships", "month", "category",
                 "rules", "archive", NoName}

Tags == {"conversation", "working_memory", "context", "fact", "relationship", "episode",
         "interaction", "procedure", "rule", "consolidated", "summary", "archived"}

(* ids that the stores make, and those that clients choose                 *)
NumberedIds == {"new", "summary"} \X Nat

Ids == NumberedIds \cup {kind.id : kind \in Templates}

Docs == [type : TypeNames, sub : Seq(Parts), tags : SUBSET Tags, ttl : {0, Lifetime},
         id : Ids, born : Nat, low : BOOLEAN, holds : SUBSET Nat]

(* What the stores and the clients give                                    *)
KindOK(kind) ==
    /\ kind.type \in TypeNames /\ kind.sub \in Seq(Parts) /\ kind.tags \in SUBSET Tags
    /\ kind.ttl \in {0, Lifetime}
    /\ kind.id = Fresh \/ kind.id \in Ids \ NumberedIds

(***************************************************************************)
(* A document at time n, when m have been made.                            *)
(***************************************************************************)
Good(d, n, m) ==
    /\ d \in Docs /\ d.born \in 0..n
    /\ d.holds \subseteq 0..(m - 1)
    /\ d.id \in NumberedIds => d.id[2] < m

Collection(S, n, m) ==
    /\ IsFiniteSet(S)
    /\ \A d \in S : Good(d, n, m)
    /\ \A d, e \in S : SameKey(d, e) => d = e

Ops == {"cleanup", "merge", "summarize", "archive"} \cup Prunings

TurnCalls == [op : {"idle", "turn", "clear"}, thread : Threads, todo : SUBSET Docs]

JobCalls == [op : Ops \cup {"idle"}, todo : SUBSET Docs, gone : SUBSET Docs, rest : Seq(Ops),
             since : Nat]

TInv ==
    /\ Collection(docs, now, made)
    /\ Main \in DOMAIN saved /\ branch \in DOMAIN saved /\ DOMAIN saved \subseteq Branches
    /\ \A b \in DOMAIN saved : Collection(saved[b], now, made)
    /\ now \in 0..MaxTime /\ made \in 0..MaxMade /\ calls \in 0..MaxCalls
    /\ turn \in TurnCalls /\ job \in JobCalls
    /\ \A d \in turn.todo \cup job.todo \cup job.gone : Good(d, now, made)
    /\ due \subseteq 0..made /\ misled \in BOOLEAN /\ raced \subseteq {"write", "switch"}

LEMMA TypesAre ==
    /\ {Types[i] : i \in 1..4} = TypeNames
    /\ \A i \in 1..4 : Types[i] \in TypeNames
BY DEF Types, TypeNames

LEMMA TypedInvariant == TInv => TypeOK
<1> SUFFICES ASSUME TInv PROVE TypeOK
  OBVIOUS
<1>1. ASSUME NEW d, Good(d, now, made) PROVE DocumentOK(d)
  BY <1>1, TypesAre DEF Good, DocumentOK, Docs
<1>2. turn.op \in {"idle", "turn", "clear"} /\ turn.thread \in Threads
  BY DEF TInv, TurnCalls
<1>3. job.op \in {"idle", "cleanup", "merge", "summarize", "archive"} \cup Prunings
  BY DEF TInv, JobCalls, Ops
<1> QED BY <1>1, <1>2, <1>3 DEF TInv, TypeOK, Collection

LEMMA TurnIsKind == ASSUME NEW t \in Threads PROVE KindOK(Turn(t))
<1>1. <<t>> \in Seq(Parts) /\ {"conversation"} \in SUBSET Tags
  BY DEF Parts, Tags
<1> QED BY <1>1 DEF Turn, KindOK, TypeNames

(***************************************************************************)
(* What the typed stores and clients store, besides turns, has the types   *)
(* of a document, an id that no store makes, and is not in the namespace   *)
(* of a thread.                                                            *)
(***************************************************************************)
LEMMA TemplatesAreKinds ==
    ASSUME NEW kind \in Templates
    PROVE  KindOK(kind) /\ (kind.type = "ShortTerm" => Len(kind.sub) # 1)
<1>0. kind \in AllTemplates /\ kind.id \in Ids /\ Lifetime \in Nat
  BY MemoryAssumptions DEF Ids
<1> DEFINE Typed(k) == /\ k.type \in TypeNames /\ k.sub \in Seq(Parts) /\ k.tags \in SUBSET Tags
                       /\ k.ttl \in {0, Lifetime}
                       /\ k.id = Fresh \/ k.id \notin NumberedIds
                       /\ k.type = "ShortTerm" => Len(k.sub) # 1
<1>1. ASSUME NEW t \in Threads, NEW n \in Names
      PROVE  Typed(WorkingMemory(t, n)) /\ Typed(SessionContext(t, n))
  <2>1. <<"working", t, n>> \notin NumberedIds /\ <<"context", t, n>> \notin NumberedIds
    BY DEF NumberedIds
  <2>2. <<t, "working">> \in Seq(Parts) /\ <<t, "context">> \in Seq(Parts)
    <3>1. t \in Parts /\ "working" \in Parts /\ "context" \in Parts
      BY DEF Parts
    <3> QED BY <3>1
  <2>3. Len(<<t, "working">>) = 2 /\ Len(<<t, "context">>) = 2
    OBVIOUS
  <2>4. {"working_memory"} \in SUBSET Tags /\ {"context"} \in SUBSET Tags
    BY DEF Tags
  <2>5. /\ WorkingMemory(t, n).type = "ShortTerm" /\ WorkingMemory(t, n).ttl = Lifetime
        /\ WorkingMemory(t, n).sub = <<t, "working">>
        /\ WorkingMemory(t, n).tags = {"working_memory"}
        /\ WorkingMemory(t, n).id = <<"working", t, n>>
    BY DEF WorkingMemory, Turn
  <2>6. /\ SessionContext(t, n).type = "ShortTerm" /\ SessionContext(t, n).ttl = Lifetime
        /\ SessionContext(t, n).sub = <<t, "context">>
        /\ SessionContext(t, n).tags = {"context"}
        /\ SessionContext(t, n).id = <<"context", t, n>>
    BY DEF SessionContext, Turn
  <2> HIDE DEF Tags
  <2> QED BY <2>1, <2>2, <2>3, <2>4, <2>5, <2>6 DEF TypeNames
<1>2. ASSUME NEW n \in Names PROVE Typed(Fact(n)) /\ Typed(Procedure(n)) /\ Typed(Rule(n))
  <2>1. <<"procedure", n>> \notin NumberedIds /\ <<"rule", n>> \notin NumberedIds
    BY DEF NumberedIds
  <2>2. /\ <<"entity", n>> \in Seq(Parts) /\ <<"category">> \in Seq(Parts)
        /\ <<"category", "rules">> \in Seq(Parts)
    <3>1. n \in Parts /\ "entity" \in Parts /\ "category" \in Parts /\ "rules" \in Parts
      BY DEF Parts
    <3> QED BY <3>1
  <2>3. /\ {"fact"} \in SUBSET Tags /\ {"procedure"} \in SUBSET Tags
        /\ {"rule"} \in SUBSET Tags
    BY DEF Tags
  <2>4. /\ Rule(n).type = "Procedural" /\ Rule(n).ttl = 0 /\ Rule(n).tags = {"rule"}
        /\ Rule(n).sub = <<"category", "rules">> /\ Rule(n).id = <<"rule", n>>
    BY DEF Rule, Procedure
  <2>5. Typed(Rule(n))
    BY <2>1, <2>2, <2>3, <2>4 DEF TypeNames
  <2>6. Typed(Fact(n))
    BY <2>1, <2>2, <2>3 DEF TypeNames, Fact
  <2>7. Typed(Procedure(n))
    BY <2>1, <2>2, <2>3 DEF TypeNames, Procedure
  <2> QED BY <2>5, <2>6, <2>7
<1>3. Typed(Relationship) /\ Typed(Episode) /\ Typed(Interaction)
  <2>1. <<"relationships">> \in Seq(Parts) /\ <<"month">> \in Seq(Parts)
    BY DEF Parts
  <2>2. /\ {"relationship"} \in SUBSET Tags /\ {"episode"} \in SUBSET Tags
        /\ {"interaction"} \in SUBSET Tags
    BY DEF Tags
  <2>3. /\ Interaction.type = "Episodic" /\ Interaction.ttl = 0 /\ Interaction.id = Fresh
        /\ Interaction.tags = {"interaction"} /\ Interaction.sub = <<"month">>
    BY DEF Interaction, Episode
  <2> QED BY <2>1, <2>2, <2>3 DEF TypeNames, Relationship, Episode
<1>4. ASSUME NEW i \in 1..4, NEW ttl \in {0, Lifetime},
             NEW id \in {Fresh} \cup {<<"rule", n>> : n \in Names}
      PROVE  Typed(Raw(Types[i], id, ttl))
  <2>1. id = Fresh \/ id \notin NumberedIds
    BY DEF NumberedIds
  <2>2. <<>> \in Seq(Parts) /\ Len(<<>>) = 0
    OBVIOUS
  <2> QED BY <2>1, <2>2, TypesAre DEF Raw
<1>5. Typed(kind)
  <2> HIDE DEF Typed
  <2>1. CASE kind \in UNION {{WorkingMemory(t, n), SessionContext(t, n)} :
                                t \in Threads, n \in Names}
    BY <1>1, <2>1
  <2>2. CASE kind \in UNION {{Fact(n), Procedure(n), Rule(n)} : n \in Names}
    BY <1>2, <2>2
  <2>3. CASE kind \in {Relationship, Episode, Interaction}
    BY <1>3, <2>3
  <2>4. CASE kind \in {Raw(Types[i], id, ttl) : i \in 1..4, ttl \in {0, Lifetime},
                        id \in {Fresh} \cup {<<"rule", n>> : n \in Names}}
    BY <1>4, <2>4
  <2> QED BY <1>0, <2>1, <2>2, <2>3, <2>4 DEF AllTemplates
<1> QED BY <1>0, <1>5 DEF KindOK

(***************************************************************************)
(* A document stays one as time passes and others are made.                *)
(***************************************************************************)
LEMMA GoodStays ==
    ASSUME NEW n \in Nat, NEW n2 \in Nat, NEW m \in Nat, NEW m2 \in Nat, n <= n2, m <= m2,
           NEW d, Good(d, n, m)
    PROVE  Good(d, n2, m2)
<1>1. d.id \in NumberedIds => d.id[2] \in Nat
  BY DEF NumberedIds
<1>2. 0..n \subseteq 0..n2 /\ 0..(m - 1) \subseteq 0..(m2 - 1)
  OBVIOUS
<1> QED BY <1>1, <1>2 DEF Good

LEMMA SubCollection ==
    ASSUME NEW n \in Nat, NEW n2 \in Nat, NEW m \in Nat, NEW m2 \in Nat, n <= n2, m <= m2,
           NEW T, Collection(T, n, m), NEW S \in SUBSET T
    PROVE  Collection(S, n2, m2)
<1>1. IsFiniteSet(S)
  BY FS_Subset DEF Collection
<1>2. \A d \in S : Good(d, n2, m2)
  BY GoodStays DEF Collection
<1> QED BY <1>1, <1>2 DEF Collection

LEMMA SavedCollection ==
    ASSUME NEW n \in Nat, NEW n2 \in Nat, NEW m \in Nat, NEW m2 \in Nat, n <= n2, m <= m2,
           Collection(docs, n, m), NEW d, Good(d, n2, m2)
    PROVE  Collection(Saved(d), n2, m2)
<1> DEFINE S == {e \in docs : ~SameKey(d, e)}
<1>1. Collection(S, n2, m2)
  BY SubCollection
<1>2. IsFiniteSet(S \cup {d})
  BY <1>1, FS_AddElement DEF Collection
<1>3. ASSUME NEW e \in S PROVE ~SameKey(d, e) /\ ~SameKey(e, d)
  BY <1>3 DEF SameKey
<1> HIDE DEF S
<1>4. Saved(d) = S \cup {d}
  BY DEF Saved, S
<1> QED BY <1>1, <1>2, <1>3, <1>4 DEF Collection

(***************************************************************************)
(* The documents that the calls make.                                      *)
(***************************************************************************)
LEMMA DocumentIsGood ==
    ASSUME TInv, NEW kind, KindOK(kind), NEW low \in BOOLEAN
    PROVE  Good(Document(kind, low), now, made + 1)
<1>1. now \in Nat /\ made \in Nat
  BY MemoryAssumptions DEF TInv
<1>2. <<"new", made>> \in NumberedIds /\ <<"new", made>>[2] = made
  BY <1>1 DEF NumberedIds
<1> DEFINE id == IF kind.id = Fresh THEN <<"new", made>> ELSE kind.id
<1>3. id \in Ids /\ (id \in NumberedIds => id[2] < made + 1)
  BY <1>1, <1>2 DEF KindOK, Ids
<1>4. {made} \in SUBSET Nat /\ {made} \subseteq 0..(made + 1 - 1) /\ now \in 0..now
  BY <1>1
<1> HIDE DEF id
<1>5. Document(kind, low) = [type |-> kind.type, sub |-> kind.sub, tags |-> kind.tags,
                             ttl |-> kind.ttl, id |-> id, born |-> now, low |-> low,
                             holds |-> {made}]
  BY DEF Document, id
<1> QED BY <1>1, <1>3, <1>4, <1>5 DEF Good, Docs, KindOK

LEMMA UpdatedIsGood ==
    ASSUME TInv, NEW d \in docs, NEW type \in TypeNames, NEW born \in {d.born, now}
    PROVE  Good([d EXCEPT !.type = type, !.sub = IF type = d.type THEN @ ELSE <<>>,
                          !.born = born, !.holds = {made}], now, made + 1)
<1>1. now \in Nat /\ made \in Nat /\ Good(d, now, made)
  BY MemoryAssumptions DEF TInv, Collection
<1>2. {made} \in SUBSET Nat /\ {made} \subseteq 0..(made + 1 - 1)
  BY <1>1
<1>3. born \in 0..now /\ born \in Nat
  BY <1>1 DEF Good
<1>4. <<>> \in Seq(Parts)
  OBVIOUS
<1> DEFINE sub == IF type = d.type THEN d.sub ELSE <<>>
           new == [d EXCEPT !.type = type, !.sub = IF type = d.type THEN @ ELSE <<>>,
                            !.born = born, !.holds = {made}]
<1>5. sub \in Seq(Parts)
  BY <1>1, <1>4 DEF Good, Docs
<1>6. d.id \in NumberedIds => d.id[2] < made + 1
  <2>1. d.id \in NumberedIds => d.id[2] \in Nat
    BY DEF NumberedIds
  <2> QED BY <1>1, <2>1 DEF Good
<1>7. /\ new \in Docs /\ new.born = born /\ new.holds = {made} /\ new.id = d.id
  BY <1>1, <1>2, <1>3, <1>5 DEF Good, Docs
<1> QED BY <1>2, <1>3, <1>6, <1>7 DEF Good

LEMMA HoldsOfGood ==
    ASSUME NEW n, NEW m, NEW C, \A d \in C : Good(d, n, m)
    PROVE  Holds(C) \subseteq 0..(m - 1)
BY DEF Holds, Good

LEMMA MergedIsGood ==
    ASSUME TInv, NEW C \in SUBSET job.todo, NEW first \in C, NEW l \in {d.low : d \in C}
    PROVE  Good([first EXCEPT !.holds = Holds(C), !.low = l,
                              !.tags = (UNION {d.tags : d \in C}) \cup {"consolidated"}],
                now, made)
<1>1. now \in Nat /\ made \in Nat /\ \A d \in C : Good(d, now, made)
  BY MemoryAssumptions DEF TInv
<1>2. Holds(C) \subseteq 0..(made - 1)
  BY <1>1, HoldsOfGood
<1>3. Holds(C) \in SUBSET Nat
  BY <1>1, <1>2
<1>4. l \in BOOLEAN
  BY <1>1 DEF Good, Docs
<1>5. (UNION {d.tags : d \in C}) \cup {"consolidated"} \in SUBSET Tags
  <2>1. "consolidated" \in Tags
    BY DEF Tags
  <2>2. \A d \in C : d.tags \subseteq Tags
    BY <1>1 DEF Good, Docs
  <2> QED BY <2>1, <2>2
<1>6. first \in Docs
  BY <1>1 DEF Good
<1> DEFINE tags == (UNION {d.tags : d \in C}) \cup {"consolidated"}
           H == Holds(C)
           new == [first EXCEPT !.holds = H, !.low = l, !.tags = tags]
<1>7. /\ new \in Docs /\ new.born = first.born /\ new.holds = H /\ new.id = first.id
  <2> HIDE DEF H, tags
  <2>1. H \in SUBSET Nat /\ tags \in SUBSET Tags
    BY <1>3, <1>5 DEF H, tags
  <2> QED BY <1>4, <1>6, <2>1 DEF Docs
<1>8. Good(new, now, made)
  <2> HIDE DEF new, tags
  <2> QED BY <1>1, <1>2, <1>7 DEF Good
<1> QED BY <1>8

LEMMA SummaryIsGood ==
    ASSUME TInv, NEW S \in SUBSET job.todo, NEW d \in S, NEW l \in {e.low : e \in S},
           NEW words \in SUBSET Holds(S)
    PROVE  Good([d EXCEPT !.id = <<"summary", made>>, !.tags = @ \cup {"summary"},
                          !.ttl = 0, !.born = now, !.low = l, !.holds = words],
                now, made + 1)
<1>1. now \in Nat /\ made \in Nat /\ \A e \in S : Good(e, now, made)
  BY MemoryAssumptions DEF TInv
<1>2. words \subseteq 0..(made - 1)
  BY <1>1, HoldsOfGood
<1>3. words \in SUBSET Nat /\ words \subseteq 0..(made + 1 - 1)
  BY <1>1, <1>2
<1>4. l \in BOOLEAN
  BY <1>1 DEF Good, Docs
<1>5. d \in Docs /\ d.tags \cup {"summary"} \in SUBSET Tags
  <2>1. "summary" \in Tags
    BY DEF Tags
  <2> QED BY <1>1, <2>1 DEF Good, Docs
<1>6. <<"summary", made>> \in Ids /\ <<"summary", made>>[2] = made /\ now \in 0..now
  BY <1>1 DEF Ids, NumberedIds
<1> DEFINE tags == d.tags \cup {"summary"}
           id == <<"summary", made>>
           new == [d EXCEPT !.id = id, !.tags = tags, !.ttl = 0, !.born = now, !.low = l,
                            !.holds = words]
<1>7. new \in Docs /\ new.born = now /\ new.holds = words /\ new.id = id
  <2> HIDE DEF tags, id
  <2>1. tags \in SUBSET Tags /\ id \in Ids
    BY <1>5, <1>6 DEF tags, id
  <2> QED BY <1>1, <1>3, <1>4, <1>5, <2>1 DEF Docs
<1>8. Good(new, now, made + 1)
  <2> HIDE DEF new, tags
  <2> QED BY <1>1, <1>2, <1>3, <1>6, <1>7 DEF Good
<1> QED BY <1>8

(* An archived copy is not under the key of its original.                  *)
LEMMA ArchivedIsGood ==
    ASSUME TInv, NEW d \in job.todo, NEW new, new = InArchive(d)
    PROVE  Good(new, now, made) /\ Len(new.sub) > 1 /\ new.sub # d.sub /\ new.holds = d.holds
<1> DEFINE below == IF d.sub = <<>> THEN <<NoName>> ELSE d.sub
           sub == <<"archive">> \o below
           tags == d.tags \cup {"archived"}
<1>0. new = [d EXCEPT !.sub = sub, !.tags = tags]
  BY DEF InArchive
<1>1. Good(d, now, made)
  BY DEF TInv
<1>2. d \in Docs /\ d.sub \in Seq(Parts) /\ tags \in SUBSET Tags
  <2>1. "archived" \in Tags
    BY DEF Tags
  <2> QED BY <1>1, <2>1 DEF Good, Docs
<1>3. below \in Seq(Parts) /\ Len(below) > 0
  <2>1. NoName \in Parts
    BY DEF Parts
  <2>2. CASE d.sub = <<>>
    <3>1. below = <<NoName>>
      BY <2>2
    <3>2. \A x \in Parts : <<x>> \in Seq(Parts) /\ Len(<<x>>) = 1
      OBVIOUS
    <3> HIDE DEF below
    <3> QED BY <2>1, <3>1, <3>2
  <2>3. CASE d.sub # <<>>
    BY <1>2, <2>3
  <2> QED BY <2>2, <2>3
<1>4. <<"archive">> \in Seq(Parts)
  BY DEF Parts
<1>5. sub \in Seq(Parts) /\ Len(sub) = 1 + Len(below)
  <2> HIDE DEF below
  <2> QED BY <1>3, <1>4
<1>6. sub # d.sub /\ Len(sub) > 1
  <2> HIDE DEF sub
  <2>1. CASE d.sub = <<>>
    <3> HIDE DEF below
    <3> QED BY <1>5, <1>3, <2>1
  <2>2. CASE d.sub # <<>>
    <3>1. below = d.sub
      BY <2>2
    <3> HIDE DEF below
    <3> QED BY <1>2, <1>3, <1>5, <3>1
  <2> QED BY <2>1, <2>2
<1>7. new \in Docs /\ new.sub = sub /\ new.id = d.id /\ new.born = d.born /\ new.holds = d.holds
  <2> HIDE DEF sub, tags
  <2> QED BY <1>0, <1>2, <1>5 DEF Docs
<1>8. Good(new, now, made)
  <2> QED BY <1>1, <1>7 DEF Good
<1> HIDE DEF sub
<1> QED BY <1>6, <1>7, <1>8

-----------------------------------------------------------------------------
(* Every step keeps the types                                              *)

(***************************************************************************)
(* What the actions do to each variable is one of a few things.            *)
(***************************************************************************)
LEMMA TypedStep ==
    ASSUME TInv,
           now' \in now..MaxTime, made' \in made..MaxMade, calls' \in 0..MaxCalls,
           \/ docs' \subseteq docs
           \/ \E x : Good(x, now', made') /\ docs' = Saved(x)
           \/ \E b \in DOMAIN saved : docs' = saved[b],
           Main \in DOMAIN saved', branch' \in DOMAIN saved', DOMAIN saved' \subseteq Branches,
           \A b \in DOMAIN saved' : \/ saved'[b] = docs
                                    \/ \E c \in DOMAIN saved : saved'[b] = saved[c],
           turn' \in TurnCalls, turn'.todo \subseteq turn.todo \cup docs,
           job' \in JobCalls,
           job'.todo \cup job'.gone \subseteq job.todo \cup job.gone \cup docs,
           due' \subseteq 0..made', misled' \in BOOLEAN, raced' \subseteq {"write", "switch"}
    PROVE  TInv'
<1>1. /\ now \in Nat /\ now' \in Nat /\ now <= now' /\ made \in Nat /\ made' \in Nat
      /\ made <= made' /\ now' \in 0..MaxTime /\ made' \in 0..MaxMade
  BY MemoryAssumptions DEF TInv
<1>2. Collection(docs, now, made) /\ \A b \in DOMAIN saved : Collection(saved[b], now, made)
  BY DEF TInv
<1>3. Collection(docs', now', made')
  BY <1>1, <1>2, SubCollection, SavedCollection
<1>4. \A b \in DOMAIN saved' : Collection(saved'[b], now', made')
  BY <1>1, <1>2, SubCollection
<1>5. ASSUME NEW d \in turn'.todo \cup job'.todo \cup job'.gone
      PROVE  Good(d, now', made')
  <2>1. Good(d, now, made)
    BY <1>2 DEF TInv, Collection
  <2> QED BY <1>1, <2>1, GoodStays
<1> QED BY <1>1, <1>3, <1>4, <1>5 DEF TInv

LEMMA CallsAre ==
    ASSUME TInv
    PROVE  /\ now \in now..MaxTime /\ made \in made..MaxMade /\ calls \in 0..MaxCalls
           /\ made \in Nat /\ due \subseteq 0..made
           /\ Make => made' = made + 1 /\ made' \in made..MaxMade /\ due \subseteq 0..made'
           /\ Call => calls' \in 0..MaxCalls
           /\ Idle \in JobCalls /\ Idle.todo = {} /\ Idle.gone = {}
           /\ NoTurn \in TurnCalls /\ NoTurn.todo = {}
           /\ misled \in BOOLEAN /\ raced \subseteq {"write", "switch"}
           /\ Main \in DOMAIN saved /\ branch \in DOMAIN saved /\ DOMAIN saved \subseteq Branches
<1>1. NoTurn \in TurnCalls /\ NoTurn.todo = {}
  <2>1. (CHOOSE t \in Threads : TRUE) \in Threads
    BY MemoryAssumptions
  <2> QED BY <2>1 DEF NoTurn, TurnCalls
<1>2. Idle \in JobCalls /\ Idle.todo = {} /\ Idle.gone = {}
  BY DEF Idle, JobCalls
<1> QED BY <1>1, <1>2, MemoryAssumptions DEF TInv, Make, Call

LEMMA InitTyped == Init => TInv
<1> SUFFICES ASSUME Init PROVE TInv
  OBVIOUS
<1>1. Collection({}, now, made)
  BY FS_EmptySet DEF Collection
<1>2. NoTurn \in TurnCalls /\ NoTurn.todo = {}
  <2>1. (CHOOSE t \in Threads : TRUE) \in Threads
    BY MemoryAssumptions
  <2> QED BY <2>1 DEF NoTurn, TurnCalls
<1>3. Idle \in JobCalls /\ Idle.todo = {} /\ Idle.gone = {}
  BY DEF Idle, JobCalls
<1>4. /\ docs = {} /\ due = {} /\ branch = Main /\ now = 0 /\ made = 0 /\ calls = 0
      /\ turn = NoTurn /\ job = Idle /\ misled = FALSE /\ raced = {}
      /\ DOMAIN saved = {Main} /\ \A b \in DOMAIN saved : saved[b] = {}
  BY DEF Init
<1>5. Main \in Branches /\ 0 \in 0..MaxTime /\ 0 \in 0..MaxMade /\ 0 \in 0..MaxCalls
  BY MemoryAssumptions
<1> QED BY <1>1, <1>2, <1>3, <1>4, <1>5 DEF TInv

(***************************************************************************)
(* A lifecycle call begins with documents of the persistence.              *)
(***************************************************************************)
LEMMA GroupsAreInside == ASSUME NEW S PROVE \A g \in BigGroups(S) : g \subseteq S
BY DEF BigGroups, Groups

LEMMA TodoIsFound ==
    ASSUME NEW op \in Ops
    PROVE  Todo(op) \subseteq docs
<1>1. AllDocs \subseteq docs /\ Live \subseteq docs
  BY DEF AllDocs, Under, Live
<1>2. UNION BigGroups(Live) \subseteq docs
  BY <1>1, GroupsAreInside
<1> QED BY <1>1, <1>2 DEF Todo, Ops, Prunings

LEMMA BegunTyped ==
    ASSUME TInv, NEW op \in Ops, NEW rest \in Seq(Ops)
    PROVE  /\ Begun(op, rest) \in JobCalls /\ Begun(op, rest).todo \subseteq docs
           /\ Begun(op, rest).gone = {}
<1>1. Todo(op) \subseteq docs /\ docs \subseteq Docs
  BY TodoIsFound DEF TInv, Collection, Good
<1>2. now \in Nat
  BY MemoryAssumptions DEF TInv
<1> QED BY <1>1, <1>2 DEF Begun, JobCalls

LEMMA PlansAre ==
    ASSUME NEW plan \in Plans
    PROVE  plan \in Seq(Ops) /\ plan # <<>> /\ plan[1] \in Ops /\ Tail(plan) \in Seq(Ops)
<1>1. plan \in Seq(Ops) /\ plan # <<>>
  <2>1. ASSUME NEW o \in Ops PROVE <<o>> \in Seq(Ops) /\ <<o>> # <<>>
    OBVIOUS
  <2>2. /\ "cleanup" \in Ops /\ "merge" \in Ops /\ "summarize" \in Ops /\ "archive" \in Ops
        /\ "prune" \in Ops /\ "prune_all" \in Ops
    BY DEF Ops, Prunings
  <2>3. /\ <<"cleanup", "merge", "archive", "prune">> \in Seq(Ops)
        /\ <<"cleanup", "merge", "archive", "prune">> # <<>>
    BY <2>2
  <2> QED BY <2>1, <2>2, <2>3 DEF Plans
<1> QED BY <1>1

LEMMA ClientStepTyped == TInv /\ ClientCall => TInv'
<1> SUFFICES ASSUME TInv, ClientCall PROVE TInv'
  OBVIOUS
<1> USE DEF persistence, history, ClientChange, Change
<1>0. turn \in TurnCalls /\ job \in JobCalls
  BY DEF TInv
<1>1. ASSUME NEW kind \in Templates, NEW low \in BOOLEAN, Store(kind, low) PROVE TInv'
  <2>1. Good(Document(kind, low), now', made')
    BY <1>1, CallsAre, DocumentIsGood, TemplatesAreKinds DEF Store
  <2>2. due' \subseteq 0..made'
    BY <1>1, CallsAre DEF Store, Document
  <2> QED BY <1>0, <1>1, <2>1, <2>2, CallsAre, TypedStep DEF Store
<1>2. ASSUME NEW d \in docs, NEW type \in {"ShortTerm", "Semantic"}, NEW born \in {d.born, now},
             Update(d, type, born)
      PROVE  TInv'
  <2> DEFINE new == [d EXCEPT !.type = type, !.sub = IF type = d.type THEN @ ELSE <<>>,
                              !.born = born, !.holds = {made}]
  <2>1. Good(new, now, made + 1)
    BY UpdatedIsGood DEF TypeNames
  <2>2. new.holds = {made}
    BY DEF TInv, Collection, Good, Docs
  <2> HIDE DEF new
  <2>3. docs' = Saved(new) /\ due' = (due \ Holds(Overwritten(new))) \cup new.holds /\ Make /\ Call
        /\ UNCHANGED <<saved, branch, now, turn, job>> /\ misled' \in BOOLEAN
        /\ raced' \subseteq raced \cup {"write"}
    BY <1>2 DEF Update, new
  <2>4. due' \subseteq 0..made'
    BY <2>2, <2>3, CallsAre
  <2> QED BY <1>0, <2>1, <2>3, <2>4, CallsAre, TypedStep
<1>3. ASSUME NEW n \in Names, UpdateRuleStatus(n) PROVE TInv'
  <2>1. PICK d \in Get(<<"rule", n>>) : docs' = Saved(d)
    BY <1>3 DEF UpdateRuleStatus
  <2>2. Good(d, now, made)
    BY <2>1 DEF Get, TInv, Collection
  <2> QED BY <1>0, <1>3, <2>1, <2>2, CallsAre, TypedStep DEF UpdateRuleStatus
<1>4. ASSUME NEW d \in docs, Delete(d.id) PROVE TInv'
  BY <1>0, <1>4, CallsAre, TypedStep DEF Delete
<1>5. CASE Commit
  BY <1>0, <1>5, CallsAre, TypedStep DEF Commit
<1>6. ASSUME NEW b \in DOMAIN saved PROVE Holds(saved[b]) \subseteq 0..made
  BY CallsAre DEF Holds, TInv, Collection, Good
<1>7. CASE Rollback
  BY <1>0, <1>6, <1>7, CallsAre, TypedStep DEF Rollback, SwitchTo
<1>8. CASE Reopen
  BY <1>8, CallsAre, TypedStep DEF Reopen
<1>9. ASSUME NEW b \in Branches, CreateBranch(b) PROVE TInv'
  BY <1>0, <1>6, <1>9, CallsAre, TypedStep DEF CreateBranch, SwitchTo
<1>10. ASSUME NEW b \in Branches, Checkout(b) PROVE TInv'
  BY <1>0, <1>6, <1>10, CallsAre, TypedStep DEF Checkout, SwitchTo
<1> QED BY <1>1, <1>2, <1>3, <1>4, <1>5, <1>7, <1>8, <1>9, <1>10 DEF ClientCall


LEMMA TurnStepTyped == TInv /\ TurnCall => TInv'
<1> SUFFICES ASSUME TInv, TurnCall PROVE TInv'
  OBVIOUS
<1> USE DEF persistence, history, ClientChange, Change
<1>0. /\ turn \in TurnCalls /\ job \in JobCalls /\ docs \subseteq Docs
      /\ \A t \in Threads : ThreadDocs(t) \subseteq docs
  BY DEF TInv, Collection, Good, ThreadDocs, Under
<1>1. ASSUME NEW t \in Threads, TurnBegin(t) PROVE TInv'
  <2>1. PICK S \in SUBSET ThreadDocs(t) : turn' = [op |-> "turn", thread |-> t, todo |-> S]
    BY <1>1 DEF TurnBegin
  <2>2. turn' \in TurnCalls /\ turn'.todo \subseteq docs
    BY <1>0, <2>1 DEF TurnCalls
  <2> QED BY <1>0, <1>1, <2>2, CallsAre, TypedStep DEF TurnBegin
<1>2. ASSUME NEW t \in Threads, ClearBegin(t) PROVE TInv'
  <2>1. turn' \in TurnCalls /\ turn'.todo \subseteq docs
    BY <1>0, <1>2 DEF TurnCalls, ClearBegin
  <2> QED BY <1>0, <1>2, <2>1, CallsAre, TypedStep DEF ClearBegin
<1>3. ASSUME NEW d \in turn.todo, TurnRemove(d) PROVE TInv'
  <2>1. turn' \in TurnCalls /\ turn'.todo \subseteq turn.todo
    BY <1>0, <1>3, CallsAre DEF TurnCalls, TurnRemove
  <2> QED BY <1>0, <1>3, <2>1, CallsAre, TypedStep DEF TurnRemove
<1>4. ASSUME NEW d \in turn.todo, TurnFails(d) PROVE TInv'
  BY <1>0, <1>4, CallsAre, TypedStep DEF TurnFails
<1>5. CASE TurnStore
  <2>1. KindOK(Turn(turn.thread))
    <3>1. turn.thread \in Threads
      BY <1>0 DEF TurnCalls
    <3> QED BY <3>1, TurnIsKind
  <2>2. Good(Document(Turn(turn.thread), FALSE), now', made')
    BY <1>5, <2>1, CallsAre, DocumentIsGood DEF TurnStore
  <2>3. due' \subseteq 0..made'
    BY <1>5, CallsAre DEF TurnStore, Document
  <2> QED BY <1>0, <1>5, <2>2, <2>3, CallsAre, TypedStep DEF TurnStore
<1> QED BY <1>1, <1>2, <1>3, <1>4, <1>5 DEF TurnCall

LEMMA JobStepTyped == TInv /\ JobCall => TInv'
<1> SUFFICES ASSUME TInv, JobCall PROVE TInv'
  OBVIOUS
<1> USE DEF persistence, history, JobChange, Change
<1>0. turn \in TurnCalls /\ job \in JobCalls
  BY DEF TInv
<1>1. ASSUME NEW plan \in Plans, JobBegin(plan) PROVE TInv'
  BY <1>0, <1>1, PlansAre, BegunTyped, CallsAre, TypedStep DEF JobBegin
<1>2. ASSUME NEW d \in job.todo, Cleanup(d) \/ Prune(d) PROVE TInv'
  <2>1. job' \in JobCalls /\ job'.todo \subseteq job.todo /\ job'.gone = job.gone
    BY <1>0, <1>2 DEF Cleanup, Prune, JobCalls
  <2> QED BY <1>0, <1>2, <2>1, CallsAre, TypedStep DEF Cleanup, Prune, JobRemove
<1>3. ASSUME NEW d \in job.todo, Archive(d) PROVE TInv'
  <2>1. job' \in JobCalls /\ job'.todo \subseteq job.todo /\ job'.gone = job.gone
    BY <1>0, <1>3 DEF Archive, JobCalls
  <2>2. Good(InArchive(d), now, made) /\ docs' = Saved(InArchive(d))
    BY <1>3, ArchivedIsGood DEF Archive
  <2> QED BY <1>0, <1>3, <2>1, <2>2, CallsAre, TypedStep DEF Archive
<1>4. ASSUME NEW C \in SUBSET job.todo, MergeCluster(C) PROVE TInv'
  <2>1. PICK first \in C, l \in {d.low : d \in C} :
          /\ docs' = Saved([first EXCEPT !.holds = Holds(C), !.low = l,
                                         !.tags = (UNION {d.tags : d \in C})
                                                    \cup {"consolidated"}])
          /\ job' = [job EXCEPT !.todo = @ \ C, !.gone = @ \cup (C \ {first})]
          /\ misled' \in BOOLEAN /\ raced' = raced
    BY <1>4 DEF MergeCluster
  <2>2. /\ job' \in JobCalls /\ job'.todo \subseteq job.todo
        /\ job'.gone \subseteq job.gone \cup job.todo
    BY <1>0, <2>1 DEF JobCalls
  <2>3. \E new : Good(new, now, made) /\ docs' = Saved(new)
    BY <2>1, MergedIsGood
  <2> QED BY <1>0, <1>4, <2>1, <2>2, <2>3, CallsAre, TypedStep DEF MergeCluster
<1>5. ASSUME NEW g \in BigGroups(job.todo), Summarize(g) PROVE TInv'
  <2>1. PICK S \in SUBSET g, l \in BOOLEAN : \E words \in SUBSET Holds(S) :
          /\ l \in {d.low : d \in S}
          /\ \E d \in S :
               JobChange(Saved([d EXCEPT !.id = <<"summary", made>>, !.tags = @ \cup {"summary"},
                                         !.ttl = 0, !.born = now, !.low = l, !.holds = words]),
                         FALSE)
          /\ job' = [job EXCEPT !.todo = @ \ g, !.gone = S]
          /\ due' = due \ (Holds(S) \ words)
    BY <1>5 DEF Summarize
  <2>2. PICK words \in SUBSET Holds(S), d \in S :
          JobChange(Saved([d EXCEPT !.id = <<"summary", made>>, !.tags = @ \cup {"summary"},
                                    !.ttl = 0, !.born = now, !.low = l, !.holds = words]), FALSE)
    BY <2>1
  <2>3. S \in SUBSET job.todo
    BY GroupsAreInside
  <2>4. /\ job' \in JobCalls /\ job'.todo \subseteq job.todo /\ job'.gone \subseteq job.todo
    BY <1>0, <2>1, <2>3 DEF JobCalls
  <2>5. \E new : Good(new, now, made + 1) /\ docs' = Saved(new)
    BY <2>1, <2>2, <2>3, SummaryIsGood
  <2>6. due' \subseteq due /\ misled' \in BOOLEAN /\ raced' = raced
    BY <2>1, <2>2
  <2> QED BY <1>0, <1>5, <2>4, <2>5, <2>6, CallsAre, TypedStep DEF Summarize
<1>6. ASSUME NEW d \in job.gone, RemoveOriginal(d) PROVE TInv'
  <2>1. job' \in JobCalls /\ job'.todo \subseteq job.todo /\ job'.gone \subseteq job.gone
    BY <1>0, <1>6 DEF RemoveOriginal, JobCalls
  <2> QED BY <1>0, <1>6, <2>1, CallsAre, TypedStep DEF RemoveOriginal, JobRemove
<1>7. ASSUME NEW d, JobFails(d) PROVE TInv'
  BY <1>0, <1>7, CallsAre, TypedStep DEF JobFails
<1>8. CASE JobNext
  <2>1. job.rest = <<>> \/ (Head(job.rest) \in Ops /\ Tail(job.rest) \in Seq(Ops))
    BY <1>0 DEF JobCalls
  <2>2. job' \in JobCalls /\ job'.todo \subseteq docs /\ job'.gone = {}
    BY <1>8, <2>1, BegunTyped, CallsAre DEF JobNext
  <2> QED BY <1>0, <1>8, <2>2, CallsAre, TypedStep DEF JobNext
<1> QED BY <1>1, <1>2, <1>3, <1>4, <1>5, <1>6, <1>7, <1>8 DEF JobCall

LEMMA StepTyped == TInv /\ [Next]_vars => TInv'
<1> SUFFICES ASSUME TInv, [Next]_vars PROVE TInv'
  OBVIOUS
<1>0. turn \in TurnCalls /\ job \in JobCalls
  BY DEF TInv
<1>1. CASE Tick
  <2>1. now' \in now..MaxTime
    BY <1>1, MemoryAssumptions DEF Tick, TInv
  <2> QED BY <1>0, <1>1, <2>1, CallsAre, TypedStep DEF Tick, persistence, history
<1>2. CASE UNCHANGED vars
  BY <1>0, <1>2, CallsAre, TypedStep DEF vars, persistence, history
<1> QED BY <1>1, <1>2, ClientStepTyped, TurnStepTyped, JobStepTyped DEF Next

LEMMA AlwaysTyped == Spec => []TInv
BY InitTyped, StepTyped, PTL DEF Spec

(***************************************************************************)
(* The type invariant: in the memory and on every branch a namespace and   *)
(* an id lead to one document, and the documents that a call under way has *)
(* read were documents.                                                    *)
(***************************************************************************)
THEOREM TypesHold == Spec => []TypeOK
BY AlwaysTyped, TypedInvariant, PTL


-----------------------------------------------------------------------------
(* What was stored is kept                                                 *)

Steady == ~misled /\ "switch" \notin raced

Calm == ~misled /\ raced = {}

(***************************************************************************)
(* A call at rest holds on to nothing; a turn deletes what is below its    *)
(* thread; only merged and summarized documents wait for their deletion.   *)
(***************************************************************************)
Resting ==
    /\ turn.op = "idle" => turn.todo = {}
    /\ \A d \in turn.todo : d.sub # <<>>
    /\ job.op = "idle" => job.todo = {}
    /\ job.gone # {} => job.op \in {"merge", "summarize"}

(***************************************************************************)
(* What is due is held by documents that do not wait for their deletion;   *)
(* what a lifecycle call has read is still there, but for archives, which  *)
(* archiving writes over; and cleanup and pruning have in hand all that    *)
(* they must look at.                                                      *)
(***************************************************************************)
Kept ==
    /\ due \subseteq Holds(docs \ job.gone)
    /\ job.op # "archive" => job.todo \subseteq docs
    /\ job.gone \subseteq docs /\ job.todo \cap job.gone = {}
    /\ job.op = "cleanup" => docs \subseteq job.todo
    /\ job.op = "prune" => \A d \in docs : d.low => d \in job.todo \/ ExpiredAt(d, job.since)
    /\ job.op = "prune_all" => \A d \in docs : d \in job.todo \/ ExpiredAt(d, job.since)

LInv == Resting /\ (Calm => Kept)

(* A delete that does not miss removes the document that it was given.     *)
LEMMA GetFindsOne ==
    ASSUME TInv, NEW d \in docs, Get(d.id) # {}, ~Misses(d)
    PROVE  Get(d.id) = {d}
BY DEF Misses, Get, TInv, Collection

(* Deletions find only what is below the types, and a turn is not.         *)
LEMMA TurnMisses ==
    ASSUME LInv, NEW d \in turn.todo, Get(d.id) # {}
    PROVE  Misses(d)
BY DEF LInv, Resting, Misses, Get, SameKey

LEMMA SavedHolds ==
    ASSUME NEW d
    PROVE  /\ Holds(docs) \ Holds(Overwritten(d)) \subseteq Holds(Saved(d))
           /\ d.holds \subseteq Holds(Saved(d))
BY DEF Holds, Overwritten, Saved

(* A number that no document has had makes a new key.                      *)
LEMMA FreshKey ==
    ASSUME TInv, NEW d, NEW k \in {"new", "summary"}, d.id = <<k, made>>
    PROVE  Overwritten(d) = {} /\ Saved(d) = docs \cup {d} /\ d \notin docs
<1>1. made \in Nat
  BY MemoryAssumptions DEF TInv
<1>2. <<k, made>> \in NumberedIds /\ <<k, made>>[2] = made
  BY <1>1 DEF NumberedIds
<1>3. ASSUME NEW e \in docs PROVE e.id # d.id
  BY <1>1, <1>2 DEF TInv, Collection, Good
<1> QED BY <1>3 DEF Overwritten, Saved, SameKey

(***************************************************************************)
(* The calls of clients come between lifecycle calls, if all is calm.      *)
(***************************************************************************)
LEMMA KeptByClient ==
    ASSUME LInv, NEW S, ClientChange(S, FALSE), job' = job, Calm => due' \subseteq Holds(S)
    PROVE  Calm' => Kept'
<1> SUFFICES ASSUME Calm' PROVE Kept'
  OBVIOUS
<1>1. Calm /\ job.op = "idle" /\ docs' = S
  BY DEF ClientChange, Change, Calm
<1>2. job.todo = {} /\ job.gone = {} /\ job'.todo = {} /\ job'.gone = {} /\ job'.op = "idle"
  BY <1>1 DEF LInv, Resting
<1> QED BY <1>1, <1>2 DEF Kept

LEMMA InitKept == Init => LInv
BY DEF Init, LInv, Resting, NoTurn, Idle, Kept

LEMMA ClientStepKept == TInv /\ LInv /\ ClientCall => LInv'
<1> SUFFICES ASSUME TInv, LInv, ClientCall PROVE LInv'
  OBVIOUS
<1>1. ASSUME NEW S, ClientChange(S, FALSE), job' = job, turn' = turn,
             Calm => due' \subseteq Holds(S)
      PROVE  LInv'
  <2>1. Resting'
    BY <1>1 DEF LInv, Resting
  <2>2. Calm' => Kept'
    BY <1>1, KeptByClient
  <2> QED BY <2>1, <2>2 DEF LInv
<1>2. ASSUME due \subseteq Holds(docs), NEW d
      PROVE  (due \ Holds(Overwritten(d))) \cup d.holds \subseteq Holds(Saved(d))
  BY <1>2, SavedHolds
<1>3. Calm => due \subseteq Holds(docs)
  BY DEF LInv, Kept, Holds
<1>4. ASSUME NEW kind \in Templates, NEW low \in BOOLEAN, Store(kind, low) PROVE LInv'
  <2>1. ClientChange(Saved(Document(kind, low)), FALSE)
    BY <1>4 DEF Store
  <2>2. /\ due' = (due \ Holds(Overwritten(Document(kind, low)))) \cup Document(kind, low).holds
        /\ job' = job /\ turn' = turn
    BY <1>4 DEF Store
  <2> QED BY <1>1, <1>2, <1>3, <2>1, <2>2
<1>5. ASSUME NEW d \in docs, NEW type \in {"ShortTerm", "Semantic"}, NEW born \in {d.born, now},
             Update(d, type, born)
      PROVE  LInv'
  <2> DEFINE new == [d EXCEPT !.type = type, !.sub = IF type = d.type THEN @ ELSE <<>>,
                              !.born = born, !.holds = {made}]
  <2>1. /\ ClientChange(Saved(new), FALSE) /\ job' = job /\ turn' = turn
        /\ due' = (due \ Holds(Overwritten(new))) \cup new.holds
    BY <1>5 DEF Update
  <2> HIDE DEF new
  <2> QED BY <1>1, <1>2, <1>3, <2>1
<1>6. ASSUME NEW n \in Names, UpdateRuleStatus(n) PROVE LInv'
  <2>1. PICK d \in Get(<<"rule", n>>) : ClientChange(Saved(d), FALSE)
    BY <1>6 DEF UpdateRuleStatus
  <2>2. Saved(d) = docs
    BY <2>1 DEF Get, Saved, SameKey, TInv, Collection
  <2>3. job' = job /\ turn' = turn /\ due' = due
    BY <1>6 DEF UpdateRuleStatus
  <2> QED BY <1>1, <1>3, <2>1, <2>2, <2>3
<1>7. ASSUME NEW d \in docs, Delete(d.id) PROVE LInv'
  <2>1. /\ ClientChange(docs \ Get(d.id), FALSE) /\ job' = job /\ turn' = turn
        /\ due' = due \ Holds(Get(d.id))
    BY <1>7 DEF Delete
  <2>2. Calm => due' \subseteq Holds(docs \ Get(d.id))
    BY <1>3, <2>1 DEF Holds
  <2> QED BY <1>1, <2>1, <2>2
<1>8. CASE Commit
  BY <1>8 DEF Commit, history, LInv, Resting, Calm, Kept
<1>9. CASE Reopen
  <2>1. UNCHANGED <<docs, due, misled, raced>> /\ turn' = NoTurn /\ job' = Idle
    BY <1>9 DEF Reopen, persistence, history
  <2>2. Calm => due \subseteq Holds(docs \ {})
    BY DEF LInv, Kept, Holds
  <2> QED BY <2>1, <2>2 DEF LInv, Resting, Calm, Kept, NoTurn, Idle
<1>10. ASSUME NEW b, NEW S, SwitchTo(b, S) PROVE LInv'
  <2>1. /\ docs' = S /\ due' = Holds(S) /\ turn' = turn /\ job' = job
        /\ raced' = raced \cup (IF job.op = "idle" /\ turn.op = "idle" THEN {} ELSE {"switch"})
    BY <1>10 DEF SwitchTo, Change
  <2>2. Resting'
    BY <2>1 DEF LInv, Resting
  <2>3. Calm' => job.op = "idle" /\ job.todo = {} /\ job.gone = {}
    BY <2>1 DEF Calm, LInv, Resting
  <2>4. Calm' => Kept'
    BY <2>1, <2>3 DEF Kept
  <2> QED BY <2>2, <2>4 DEF LInv
<1>11. CASE Rollback
  BY <1>10, <1>11 DEF Rollback
<1>12. ASSUME NEW b \in Branches, CreateBranch(b) \/ Checkout(b) PROVE LInv'
  BY <1>10, <1>12 DEF CreateBranch, Checkout
<1> QED BY <1>4, <1>5, <1>6, <1>7, <1>8, <1>9, <1>11, <1>12 DEF ClientCall


LEMMA TurnStepKept == TInv /\ LInv /\ TurnCall => LInv'
<1> SUFFICES ASSUME TInv, LInv, TurnCall PROVE LInv'
  OBVIOUS
<1>0. TInv'
  BY TurnStepTyped
<1>1. ASSUME NEW t \in Threads, TurnBegin(t) \/ ClearBegin(t) PROVE LInv'
  <2>1. /\ turn'.todo \subseteq ThreadDocs(t) /\ turn'.op # "idle"
        /\ docs' = docs /\ due' = due /\ misled' = misled /\ raced' = raced /\ job' = job
    BY <1>1 DEF TurnBegin, ClearBegin, persistence, history
  <2>2. ASSUME NEW d \in ThreadDocs(t) PROVE d.sub # <<>>
    BY DEF ThreadDocs, Under
  <2> QED BY <2>1, <2>2 DEF LInv, Resting, Calm, Kept
<1>2. ASSUME NEW d \in turn.todo, TurnRemove(d) PROVE LInv'
  <2>1. /\ Get(d.id) # {} /\ ClientChange(docs \ Get(d.id), Misses(d))
        /\ turn' = NoTurn \/ turn' = [turn EXCEPT !.todo = @ \ {d}]
    BY <1>2 DEF TurnRemove
  <2>2. Misses(d)
    BY <2>1, TurnMisses
  <2>3. ~Calm'
    BY <2>1, <2>2 DEF ClientChange, Change, Calm
  <2>4. (turn'.op = "idle" => turn'.todo = {}) /\ turn'.todo \subseteq turn.todo
    <3>1. turn.op # "idle" /\ turn \in TurnCalls
      BY DEF LInv, Resting, TInv
    <3> QED BY <2>1, <3>1 DEF NoTurn, TurnCalls
  <2>5. Resting'
    <3>1. job' = job
      BY <1>2 DEF TurnRemove
    <3> QED BY <2>4, <3>1 DEF LInv, Resting
  <2> QED BY <2>3, <2>5 DEF LInv
<1>3. ASSUME NEW d \in turn.todo, TurnFails(d) PROVE LInv'
  BY <1>3 DEF TurnFails, persistence, history, LInv, Resting, Calm, Kept, NoTurn
<1>4. CASE TurnStore
  <2> DEFINE d == Document(Turn(turn.thread), FALSE)
  <2>1. /\ ClientChange(Saved(d), FALSE) /\ turn' = NoTurn /\ job' = job /\ due' = due \cup d.holds
    BY <1>4 DEF TurnStore
  <2>2. d.id = <<"new", made>>
    BY DEF Document, Turn, Fresh
  <2> HIDE DEF d
  <2>3. Overwritten(d) = {}
    BY <2>2, FreshKey
  <2>4. Calm => due' \subseteq Holds(Saved(d))
    <3>1. Holds({}) = {}
      BY DEF Holds
    <3>2. (due \ Holds(Overwritten(d))) = due
      BY <2>3, <3>1
    <3>3. Calm => due \subseteq Holds(docs)
      BY DEF LInv, Kept, Holds
    <3> QED BY <2>1, <2>3, <3>1, <3>3, SavedHolds
  <2>5. Calm' => Kept'
    BY <2>1, <2>4, KeptByClient
  <2>6. Resting'
    BY <2>1 DEF NoTurn, LInv, Resting
  <2> QED BY <2>5, <2>6 DEF LInv
<1> QED BY <1>1, <1>2, <1>3, <1>4 DEF TurnCall

(***************************************************************************)
(* What a call that begins has in hand                                     *)
(***************************************************************************)
LEMMA AllDocsAre == TInv => AllDocs = docs
<1> SUFFICES ASSUME TInv PROVE docs \subseteq AllDocs
  BY DEF AllDocs, Under
<1> SUFFICES ASSUME NEW d \in docs PROVE d \in AllDocs
  OBVIOUS
<1>1. d.type \in TypeNames /\ d.sub \in Seq(Parts)
  BY DEF TInv, Collection, Good, Docs
<1>2. PICK i \in 1..4 : d.type = Types[i]
  BY <1>1, TypesAre
<1>3. Len(<<>>) <= Len(d.sub) /\ 1..Len(<<>>) = {}
  BY <1>1
<1> QED BY <1>2, <1>3 DEF AllDocs, Under

LEMMA BegunKept ==
    ASSUME TInv, LInv, NEW op \in Ops, NEW rest \in Seq(Ops), job' = Begun(op, rest),
           docs' = docs, due' = due, misled' = misled, raced' = raced, turn' = turn
    PROVE  LInv'
<1>1. job'.op = op /\ job'.todo = Todo(op) /\ job'.gone = {} /\ job'.since = now
  BY DEF Begun
<1>2. Todo(op) \subseteq docs
  BY TodoIsFound
<1>3. op = "cleanup" => Todo(op) = docs
  BY AllDocsAre DEF Todo
<1>4. op = "prune" => \A d \in docs : d.low => d \in Todo(op) \/ ExpiredAt(d, now)
  BY AllDocsAre DEF Todo, Live, Expired
<1>5. op = "prune_all" => \A d \in docs : d \in Todo(op) \/ ExpiredAt(d, now)
  BY AllDocsAre DEF Todo, Live, Expired
<1>6. Calm => due \subseteq Holds(docs \ {})
  BY DEF LInv, Kept, Holds
<1>7. Resting'
  BY <1>1 DEF LInv, Resting, Ops, Prunings
<1>8. Calm => Kept'
  BY <1>1, <1>2, <1>3, <1>4, <1>5, <1>6 DEF Kept
<1> QED BY <1>7, <1>8 DEF LInv, Calm


LEMMA KeptByJob ==
    ASSUME LInv, NEW S, NEW miss \in BOOLEAN, JobChange(S, miss), turn' = turn, job.op # "idle",
           job'.op = job.op, job'.gone # {} => job.op \in {"merge", "summarize"},
           Kept /\ ~miss => Kept'
    PROVE  LInv'
<1>1. Calm' => Calm /\ ~miss
  BY DEF JobChange, Change, Calm
<1>2. Calm' => Kept'
  BY <1>1 DEF LInv
<1> QED BY <1>2 DEF LInv, Resting

(***************************************************************************)
(* The documents of a cluster wait for their deletion once one of them     *)
(* holds the facts of all.                                                 *)
(***************************************************************************)
LEMMA MergeKeeps ==
    ASSUME TInv, Kept, job.op = "merge", NEW C \in SUBSET job.todo, NEW first \in C, NEW new,
           SameKey(new, first), new.holds = Holds(C), docs' = Saved(new), due' = due,
           job' = [job EXCEPT !.todo = @ \ C, !.gone = @ \cup (C \ {first})]
    PROVE  Kept'
<1>1. C \subseteq docs /\ first \in docs /\ \A d, e \in docs : SameKey(d, e) => d = e
  BY DEF Kept, TInv, Collection
<1>2. docs' = (docs \ {first}) \cup {new}
  BY <1>1 DEF Saved, SameKey
<1>3. /\ job'.op = "merge" /\ job'.todo = job.todo \ C
      /\ job'.gone = job.gone \cup (C \ {first})
  BY DEF TInv, JobCalls
<1>4. first \notin job'.gone /\ job'.gone \subseteq docs
  BY <1>1, <1>3 DEF Kept
<1>5. new \notin job'.gone
  BY <1>1, <1>4 DEF SameKey
<1>6. ASSUME NEW x \in due PROVE x \in Holds(docs' \ job'.gone)
  <2>1. PICK d \in docs \ job.gone : x \in d.holds
    BY DEF Holds, Kept
  <2>2. CASE d \in C
    <3>1. x \in new.holds
      BY <2>1, <2>2 DEF Holds
    <3> QED BY <1>2, <1>5, <3>1 DEF Holds
  <2>3. CASE d \notin C
    <3>1. d \in docs' \ job'.gone
      BY <1>2, <1>3, <2>1, <2>3
    <3> QED BY <2>1, <3>1 DEF Holds
  <2> QED BY <2>2, <2>3
<1>7. /\ job'.todo \subseteq docs' /\ job'.gone \subseteq docs' /\ job'.todo \cap job'.gone = {}
  BY <1>1, <1>2, <1>3, <1>4 DEF Kept
<1> QED BY <1>3, <1>6, <1>7 DEF Kept

LEMMA JobStepKept == TInv /\ LInv /\ JobCall => LInv'
<1> SUFFICES ASSUME TInv, LInv, JobCall PROVE LInv'
  OBVIOUS
<1>0. job \in JobCalls /\ Holds({}) = {}
  BY DEF TInv, Holds
<1>1. ASSUME NEW plan \in Plans, JobBegin(plan) PROVE LInv'
  BY <1>1, PlansAre, BegunKept DEF JobBegin, persistence, history
<1>2. ASSUME NEW d \in job.todo, Cleanup(d) \/ Prune(d) PROVE LInv'
  <2>1. /\ JobChange(docs \ Get(d.id), Misses(d)) /\ Get(d.id) # {} /\ turn' = turn
        /\ job.op \in {"cleanup"} \cup Prunings /\ job' = [job EXCEPT !.todo = @ \ {d}]
        /\ due' = due \ d.holds
    BY <1>2 DEF Cleanup, Prune, JobRemove
  <2>2. /\ job'.op = job.op /\ job'.todo = job.todo \ {d} /\ job'.gone = {} /\ job.gone = {}
        /\ job'.since = job.since /\ job.op \notin {"idle", "archive"}
    BY <1>0, <2>1 DEF JobCalls, LInv, Resting, Prunings
  <2>3. ASSUME Kept, ~Misses(d) PROVE Kept'
    <3>1. d \in docs
      BY <2>2, <2>3 DEF Kept
    <3>2. docs' = docs \ {d}
      BY <2>1, <2>3, <3>1, GetFindsOne DEF JobChange, Change
    <3>3. due' \subseteq Holds(docs' \ job'.gone)
      BY <2>1, <2>2, <2>3, <3>2 DEF Kept, Holds
    <3> QED BY <2>2, <2>3, <3>2, <3>3 DEF Kept
  <2>4. Misses(d) \in BOOLEAN
    BY DEF Misses
  <2> QED BY <2>1, <2>2, <2>3, <2>4, KeptByJob
<1>3. ASSUME NEW d \in job.todo, Archive(d) PROVE LInv'
  <2> DEFINE copy == InArchive(d)
             miss == ~(Holds(Overwritten(copy)) \subseteq d.holds)
  <2>1. /\ JobChange(Saved(copy), miss) /\ job.op = "archive" /\ job' = [job EXCEPT !.todo = @ \ {d}]
        /\ turn' = turn /\ due' = due
    BY <1>3 DEF Archive
  <2>2. copy.holds = d.holds
    BY ArchivedIsGood
  <2> HIDE DEF copy
  <2>3. job'.op = "archive" /\ job'.gone = {} /\ job.gone = {}
    BY <1>0, <2>1 DEF JobCalls, LInv, Resting
  <2>4. ASSUME Kept, ~miss PROVE Kept'
    <3>1. docs' = Saved(copy) /\ due \subseteq Holds(docs)
      BY <2>1, <2>3, <2>4 DEF JobChange, Change, Kept
    <3>2. due' \subseteq Holds(docs' \ job'.gone)
      <4>1. Holds(docs) \subseteq Holds(Saved(copy))
        BY <2>2, <2>4, SavedHolds
      <4>2. Holds(docs' \ job'.gone) = Holds(Saved(copy))
        BY <2>3, <3>1 DEF Holds
      <4> QED BY <2>1, <3>1, <4>1, <4>2
    <3> QED BY <2>3, <3>2 DEF Kept
  <2>5. miss \in BOOLEAN
    OBVIOUS
  <2> HIDE DEF miss
  <2> QED BY <2>1, <2>3, <2>4, <2>5, KeptByJob
<1>4. ASSUME NEW C \in SUBSET job.todo, MergeCluster(C) PROVE LInv'
  <2>1. PICK first \in C, l \in {d.low : d \in C} :
          /\ JobChange(Saved([first EXCEPT !.holds = Holds(C), !.low = l,
                                           !.tags = (UNION {d.tags : d \in C})
                                                      \cup {"consolidated"}]), FALSE)
          /\ job' = [job EXCEPT !.todo = @ \ C, !.gone = @ \cup (C \ {first})]
    BY <1>4 DEF MergeCluster
  <2> DEFINE new == [first EXCEPT !.holds = Holds(C), !.low = l,
                                  !.tags = (UNION {d.tags : d \in C}) \cup {"consolidated"}]
  <2>2. first \in Docs
    BY DEF TInv, Good
  <2>3. SameKey(new, first) /\ new.holds = Holds(C)
    BY <2>2 DEF SameKey, Docs
  <2>4. JobChange(Saved(new), FALSE)
    BY <2>1
  <2> HIDE DEF new
  <2>5. job.op = "merge" /\ turn' = turn /\ due' = due /\ docs' = Saved(new) /\ job'.op = job.op
    BY <1>0, <1>4, <2>1, <2>4 DEF MergeCluster, JobChange, Change, JobCalls
  <2>6. Kept => Kept'
    BY <2>1, <2>3, <2>5, MergeKeeps
  <2> QED BY <2>4, <2>5, <2>6, KeptByJob
<1>5. ASSUME NEW g \in BigGroups(job.todo), Summarize(g) PROVE LInv'
  <2>0. PICK S \in SUBSET g, l \in BOOLEAN : \E words \in SUBSET Holds(S) :
          /\ \E d \in S :
               JobChange(Saved([d EXCEPT !.id = <<"summary", made>>, !.tags = @ \cup {"summary"},
                                         !.ttl = 0, !.born = now, !.low = l, !.holds = words]),
                         FALSE)
          /\ job' = [job EXCEPT !.todo = @ \ g, !.gone = S]
          /\ due' = due \ (Holds(S) \ words)
    BY <1>5 DEF Summarize
  <2>1. PICK words \in SUBSET Holds(S), d \in S :
          /\ JobChange(Saved([d EXCEPT !.id = <<"summary", made>>, !.tags = @ \cup {"summary"},
                                       !.ttl = 0, !.born = now, !.low = l, !.holds = words]),
                       FALSE)
          /\ due' = due \ (Holds(S) \ words)
    BY <2>0
  <2> DEFINE new == [d EXCEPT !.id = <<"summary", made>>, !.tags = @ \cup {"summary"},
                              !.ttl = 0, !.born = now, !.low = l, !.holds = words]
  <2>2. g \subseteq job.todo /\ d \in Docs
    BY GroupsAreInside DEF TInv, Good
  <2>3. new.id = <<"summary", made>> /\ new.holds = words
    BY <2>2 DEF Docs
  <2>4. JobChange(Saved(new), FALSE) /\ due' = due \ (Holds(S) \ words)
    BY <2>1
  <2> HIDE DEF new
  <2>5. Saved(new) = docs \cup {new} /\ new \notin docs
    BY <2>3, FreshKey
  <2>6. /\ job.op = "summarize" /\ job.gone = {} /\ turn' = turn /\ docs' = docs \cup {new}
        /\ job'.op = job.op /\ job'.todo = job.todo \ g /\ job'.gone = S
    BY <1>0, <1>5, <2>0, <2>4, <2>5 DEF Summarize, JobChange, Change, JobCalls
  <2>7. ASSUME Kept PROVE Kept'
    <3>1. new \in docs' \ job'.gone
      BY <2>2, <2>5, <2>6, <2>7 DEF Kept
    <3>2. ASSUME NEW x \in due' PROVE x \in Holds(docs' \ job'.gone)
      <4>1. PICK e \in docs : x \in e.holds
        BY <2>4, <2>7 DEF Kept, Holds
      <4>2. CASE e \in S
        <5>1. x \in words
          BY <2>4, <4>1, <4>2 DEF Holds
        <5> QED BY <2>3, <3>1, <5>1 DEF Holds
      <4>3. CASE e \notin S
        BY <2>6, <4>1, <4>3 DEF Holds
      <4> QED BY <4>2, <4>3
    <3> QED BY <2>2, <2>6, <2>7, <3>2 DEF Kept
  <2> QED BY <2>4, <2>6, <2>7, KeptByJob
<1>6. ASSUME NEW d \in job.gone, RemoveOriginal(d) PROVE LInv'
  <2>1. /\ JobChange(docs \ Get(d.id), Misses(d)) /\ Get(d.id) # {} /\ turn' = turn /\ due' = due
        /\ job' = [job EXCEPT !.gone = @ \ {d}, !.todo = IF job.op = "merge" THEN {} ELSE @]
    BY <1>6 DEF RemoveOriginal, JobRemove
  <2>2. /\ job'.op = job.op /\ job'.gone = job.gone \ {d} /\ job'.todo \subseteq job.todo
        /\ job.op \in {"merge", "summarize"}
    BY <1>0, <2>1 DEF JobCalls, LInv, Resting
  <2>3. ASSUME Kept, ~Misses(d) PROVE Kept'
    <3>1. d \in docs
      BY <2>3 DEF Kept
    <3>2. docs' = docs \ {d} /\ docs' \ job'.gone = docs \ job.gone
      BY <2>1, <2>2, <2>3, <3>1, GetFindsOne DEF JobChange, Change
    <3> QED BY <2>1, <2>2, <2>3, <3>2 DEF Kept
  <2>4. Misses(d) \in BOOLEAN
    BY DEF Misses
  <2> QED BY <2>1, <2>2, <2>3, <2>4, KeptByJob
<1>7. ASSUME NEW d, JobFails(d) PROVE LInv'
  <2>1. UNCHANGED <<docs, turn, due, misled, raced>> /\ job' = Idle
    BY <1>7 DEF JobFails, persistence, history
  <2>2. Calm => due \subseteq Holds(docs \ {})
    BY DEF LInv, Kept, Holds
  <2> QED BY <2>1, <2>2 DEF LInv, Resting, Calm, Kept, Idle
<1>8. CASE JobNext
  <2>1. job.rest = <<>> \/ (Head(job.rest) \in Ops /\ Tail(job.rest) \in Seq(Ops))
    BY <1>0 DEF JobCalls
  <2>2. CASE job' = Idle
    <3>1. job'.op = "idle" /\ job'.todo = {} /\ job'.gone = {}
      BY <2>2 DEF Idle
    <3>2. UNCHANGED <<docs, turn, due, misled, raced>>
      BY <1>8 DEF JobNext, persistence, history
    <3>3. Calm => due \subseteq Holds(docs \ {})
      BY DEF LInv, Kept, Holds
    <3> QED BY <3>1, <3>2, <3>3 DEF LInv, Resting, Calm, Kept
  <2>3. CASE job' # Idle
    BY <1>8, <2>1, <2>3, BegunKept DEF JobNext, persistence, history
  <2> QED BY <2>2, <2>3
<1> QED BY <1>1, <1>2, <1>3, <1>4, <1>5, <1>6, <1>7, <1>8 DEF JobCall

LEMMA StepKept == TInv /\ LInv /\ [Next]_vars => LInv'
<1> SUFFICES ASSUME TInv, LInv, [Next]_vars PROVE LInv'
  OBVIOUS
<1>1. CASE Tick \/ UNCHANGED vars
  <2>1. UNCHANGED <<docs, turn, job, due, misled, raced>>
    BY <1>1 DEF Tick, vars, persistence, history
  <2> QED BY <2>1 DEF LInv, Resting, Calm, Kept
<1> QED BY <1>1, ClientStepKept, TurnStepKept, JobStepKept DEF Next

LEMMA AlwaysKept == Spec => [](TInv /\ LInv)
BY InitTyped, StepTyped, InitKept, StepKept, PTL DEF Spec

(***************************************************************************)
(* Unless a call has removed another document than it meant or a call      *)
(* comes into a lifecycle call, every fact that was stored is held by a    *)
(* document, at every step of a merge, a summary, an archival, a cleanup   *)
(* or a pruning and however these end; left out is what was overwritten,   *)
(* deleted, expired or pruned and what the fifty words of a summary do not *)
(* hold of its originals.                                                  *)
(***************************************************************************)
THEOREM NothingIsLost == Spec => []NothingLost
<1>1. LInv => NothingLost
  BY DEF LInv, Calm, Kept, NothingLost, Holds
<1> QED BY <1>1, AlwaysKept, PTL

(***************************************************************************)
(* Under the same conditions a cleanup that ends well has left no document *)
(* that had expired when it began, and a pruning none of low confidence,   *)
(* or none at all, that was live then.                                     *)
(***************************************************************************)
THEOREM SuccessIsComplete == Spec => SuccessMeansDone
<1> DEFINE Complete == ~misled /\ raced = {} /\ JobNext =>
             \A d \in docs : /\ job.op = "cleanup" => ~ExpiredAt(d, job.since)
                             /\ job.op = "prune" => ~d.low \/ ExpiredAt(d, job.since)
                             /\ job.op = "prune_all" => ExpiredAt(d, job.since)
<1>1. TInv /\ LInv /\ [Next]_vars => [Complete]_vars
  <2> SUFFICES ASSUME LInv, ~misled, raced = {}, JobNext, NEW d \in docs
               PROVE  /\ job.op = "cleanup" => ~ExpiredAt(d, job.since)
                      /\ job.op = "prune" => ~d.low \/ ExpiredAt(d, job.since)
                      /\ job.op = "prune_all" => ExpiredAt(d, job.since)
    OBVIOUS
  <2>1. Kept
    BY DEF LInv, Calm
  <2> QED BY <2>1 DEF JobNext, Done, Kept
<1>2. Spec => [][Complete]_vars
  BY <1>1, AlwaysKept, PTL DEF Spec
<1> QED BY <1>2 DEF SuccessMeansDone

-----------------------------------------------------------------------------
(* The limit of a thread                                                   *)

TurnLike(d, t) == d.type = "ShortTerm" /\ d.sub = <<t>> /\ "summary" \notin d.tags

(* What counts as a turn of t at a time; all of it is found below t.       *)
Counted(S, t, time) == {d \in S : TurnLike(d, t) /\ ~ExpiredAt(d, time)}

Bounded(S) == \A t \in Threads : Cardinality(Counted(S, t, now)) <= MaxTurns

(* A later version of d                                                    *)
Follows(e, d) ==
    SameKey(d, e) /\ (\A t \in Threads : TurnLike(d, t) => TurnLike(e, t)) /\ d.born <= e.born
      /\ d.ttl = e.ttl

(***************************************************************************)
(* A turn that is about to be written finds room; and what a merge has in  *)
(* hand of a thread is there in the same or in a later version, so that    *)
(* writing it back takes the place of a turn that counts.                  *)
(***************************************************************************)
BInv ==
    /\ \A d, e \in job.todo : SameKey(d, e) => d = e
    /\ Steady =>
         /\ Bounded(docs) /\ \A b \in DOMAIN saved : Bounded(saved[b])
         /\ turn.op = "turn" /\ turn.todo = {} =>
              Cardinality(Counted(docs, turn.thread, now)) < MaxTurns
         /\ \A d \in job.todo : \A t \in Threads :
              TurnLike(d, t) => \E e \in docs : Follows(e, d)

(* If d counts, it takes the place of a document that does.                *)
Covered(d) ==
    \A t \in Threads : TurnLike(d, t) /\ ~Expired(d) =>
      \E e \in docs : SameKey(d, e) /\ TurnLike(e, t) /\ ~Expired(e)

LEMMA CountedShrinks ==
    ASSUME NEW S, IsFiniteSet(S), NEW R, R \subseteq S, NEW n \in Nat, NEW m \in Nat, n <= m, NEW t,
           \A d \in S : d.born \in Nat /\ d.ttl \in Nat
    PROVE  Cardinality(Counted(R, t, m)) <= Cardinality(Counted(S, t, n))
<1>1. Counted(R, t, m) \subseteq Counted(S, t, n)
  BY DEF Counted, ExpiredAt
<1>2. IsFiniteSet(Counted(S, t, n))
  BY FS_Subset DEF Counted
<1> QED BY <1>1, <1>2, FS_Subset

LEMMA CountStays ==
    ASSUME TInv, NEW d, Covered(d), NEW t \in Threads
    PROVE  Cardinality(Counted(Saved(d), t, now)) <= Cardinality(Counted(docs, t, now))
<1> DEFINE T == Counted(docs, t, now)
           T2 == Counted(Saved(d), t, now)
<1>1. IsFiniteSet(T)
  BY FS_Subset DEF TInv, Collection, Counted
<1>2. T2 \subseteq T \cup {d} /\ (d \in T2 => TurnLike(d, t) /\ ~Expired(d))
  BY DEF Counted, Saved, Expired
<1>3. \A e \in T2 : SameKey(d, e) => e = d
  BY DEF Counted, Saved
<1>4. CASE d \notin T2
  <2>1. T2 \subseteq T
    BY <1>2, <1>4
  <2> HIDE DEF T, T2
  <2>2. Cardinality(T2) <= Cardinality(T)
    BY <1>1, <2>1, FS_Subset
  <2> QED BY <2>2 DEF T, T2
<1>5. CASE d \in T2
  <2>1. PICK e \in docs : SameKey(d, e) /\ TurnLike(e, t) /\ ~Expired(e)
    BY <1>2, <1>5 DEF Covered
  <2>2. e \in T
    BY <2>1 DEF Counted, Expired
  <2>3. T2 \subseteq (T \ {e}) \cup {d}
    BY <1>2, <1>3, <2>1
  <2> DEFINE R == T \ {e}
             U == R \cup {d}
  <2>4. IsFiniteSet(R) /\ Cardinality(R) = Cardinality(T) - 1
    <3> HIDE DEF T
    <3> QED BY <1>1, <2>2, FS_RemoveElement
  <2>5. T2 \subseteq U
    BY <2>3
  <2> HIDE DEF T, T2, R
  <2>6. IsFiniteSet(U) /\ (Cardinality(U) = Cardinality(R) \/ Cardinality(U) = Cardinality(R) + 1)
    BY <2>4, FS_AddElement
  <2> HIDE DEF U
  <2>7. IsFiniteSet(T2) /\ Cardinality(T2) <= Cardinality(U)
    BY <2>5, <2>6, FS_Subset
  <2>8. /\ Cardinality(T2) \in Nat /\ Cardinality(T) \in Nat /\ Cardinality(U) \in Nat
        /\ Cardinality(R) \in Nat
    BY <1>1, <2>4, <2>6, <2>7, FS_CardinalityType
  <2>9. Cardinality(T2) <= Cardinality(T)
    BY <2>4, <2>6, <2>7, <2>8
  <2> QED BY <2>9 DEF T, T2
<1> QED BY <1>4, <1>5

LEMMA CountsAre ==
    ASSUME TInv
    PROVE  /\ \A t : Cardinality(Counted(docs, t, now)) \in Nat
           /\ \A b \in DOMAIN saved : \A t : Cardinality(Counted(saved[b], t, now)) \in Nat
           /\ MaxTurns \in Nat /\ now \in Nat
<1>1. ASSUME NEW S, NEW t, Collection(S, now, made) PROVE Cardinality(Counted(S, t, now)) \in Nat
  BY <1>1, FS_Subset, FS_CardinalityType DEF Collection, Counted
<1> QED BY <1>1, MemoryAssumptions DEF TInv

(***************************************************************************)
(* What a step may do to the documents without a thread getting more turns *)
(***************************************************************************)
Quiet ==
    \/ docs' = docs
    \/ \E id : docs' = docs \ Get(id)
    \/ \E d : /\ docs' = Saved(d) /\ now' = now
              /\ Covered(d)
              /\ \A e \in docs : SameKey(d, e) => \/ Follows(d, e)
                                                  \/ \A t \in Threads : ~TurnLike(e, t)
                                                  \/ \A c \in job'.todo : ~SameKey(c, e)

LEMMA QuietCounts ==
    ASSUME TInv, Quiet, now' \in Nat, now <= now', NEW t \in Threads
    PROVE  Cardinality(Counted(docs', t, now')) <= Cardinality(Counted(docs, t, now))
<1>1. now \in Nat /\ IsFiniteSet(docs) /\ \A d \in docs : d.born \in Nat /\ d.ttl \in Nat
  BY MemoryAssumptions DEF TInv, Collection, Good, Docs
<1>2. CASE docs' \subseteq docs
  BY <1>1, <1>2, CountedShrinks
<1>3. CASE \E d : docs' = Saved(d) /\ now' = now /\ Covered(d)
  BY <1>3, CountStays
<1> QED BY <1>2, <1>3 DEF Quiet

LEMMA FollowsOn ==
    ASSUME TInv, NEW c, NEW d, NEW e, c.born \in Nat, d.born \in Nat, e.born \in Nat,
           Follows(d, c), Follows(e, d)
    PROVE  Follows(e, c)
BY DEF Follows, SameKey

LEMMA QuietFollows ==
    ASSUME TInv, TInv', BInv, Steady, Quiet, NEW c \in job.todo, c \in job'.todo,
           NEW t \in Threads, TurnLike(c, t)
    PROVE  \E e \in docs' : Follows(e, c)
<1>1. PICK e \in docs : Follows(e, c)
  BY DEF BInv
<1>2. TurnLike(e, t) /\ SameKey(c, e) /\ e.sub # <<>>
  <2>1. TurnLike(e, t) /\ SameKey(c, e)
    BY <1>1 DEF Follows
  <2> QED BY <2>1 DEF TurnLike
<1>3. CASE docs' = docs \/ \E id : docs' = docs \ Get(id)
  BY <1>1, <1>2, <1>3 DEF Get
<1>4. CASE \E d : /\ docs' = Saved(d)
                  /\ \A x \in docs : SameKey(d, x) => \/ Follows(d, x)
                                                      \/ \A u \in Threads : ~TurnLike(x, u)
                                                      \/ \A y \in job'.todo : ~SameKey(y, x)
  <2>1. PICK d : /\ docs' = Saved(d)
                 /\ \A x \in docs : SameKey(d, x) => \/ Follows(d, x)
                                                     \/ \A u \in Threads : ~TurnLike(x, u)
                                                     \/ \A y \in job'.todo : ~SameKey(y, x)
    BY <1>4
  <2>2. CASE ~SameKey(d, e)
    BY <1>1, <2>1, <2>2 DEF Saved
  <2>3. CASE SameKey(d, e)
    <3>1. Follows(d, e) /\ d \in docs'
      BY <1>2, <2>1, <2>3 DEF Saved
    <3>2. c.born \in Nat /\ e.born \in Nat /\ d.born \in Nat
      BY <3>1 DEF TInv, Collection, Good, Docs
    <3> QED BY <1>1, <3>1, <3>2, FollowsOn
  <2> QED BY <2>2, <2>3
<1> QED BY <1>3, <1>4 DEF Quiet

LEMMA BoundStays ==
    ASSUME TInv, TInv', BInv, Quiet, now <= now', Steady' => Steady,
           job'.todo \subseteq job.todo \/ (job'.todo \subseteq docs /\ docs' = docs),
           \A b \in DOMAIN saved' : \/ saved'[b] = docs
                                    \/ \E c \in DOMAIN saved : saved'[b] = saved[c],
           \/ turn' = turn
           \/ turn'.op = "turn" /\ turn'.todo = {} =>
                Cardinality(Counted(docs', turn'.thread, now')) < MaxTurns
    PROVE  BInv'
<1>1. \A d, e \in job'.todo : SameKey(d, e) => d = e
  BY DEF BInv, TInv, Collection
<1> SUFFICES ASSUME Steady'
             PROVE  /\ \A t \in Threads : Cardinality(Counted(docs', t, now')) <= MaxTurns
                    /\ \A b \in DOMAIN saved' : \A t \in Threads :
                         Cardinality(Counted(saved'[b], t, now')) <= MaxTurns
                    /\ turn'.op = "turn" /\ turn'.todo = {} =>
                         Cardinality(Counted(docs', turn'.thread, now')) < MaxTurns
                    /\ \A d \in job'.todo : \A t \in Threads :
                         TurnLike(d, t) => \E e \in docs' : Follows(e, d)
  BY <1>1 DEF BInv, Bounded
<1>2. Steady /\ now' \in Nat /\ now \in Nat
  BY CountsAre, MemoryAssumptions DEF TInv
<1>3. ASSUME NEW t \in Threads
      PROVE  /\ Cardinality(Counted(docs', t, now')) <= Cardinality(Counted(docs, t, now))
             /\ Cardinality(Counted(docs', t, now')) \in Nat
             /\ Cardinality(Counted(docs, t, now)) \in Nat /\ MaxTurns \in Nat
             /\ Cardinality(Counted(docs, t, now)) <= MaxTurns
  <2>1. Cardinality(Counted(docs', t, now')) \in Nat
    BY FS_Subset, FS_CardinalityType DEF TInv, Collection, Counted
  <2> QED BY <1>2, <2>1, QuietCounts, CountsAre DEF BInv, Bounded
<1>4. ASSUME NEW b \in DOMAIN saved', NEW t \in Threads
      PROVE  Cardinality(Counted(saved'[b], t, now')) <= MaxTurns
  <2>1. PICK S : /\ saved'[b] = S /\ Collection(S, now, made)
                 /\ Cardinality(Counted(S, t, now)) <= MaxTurns
    BY <1>2, <1>3 DEF BInv, Bounded, TInv
  <2>2. IsFiniteSet(S) /\ \A d \in S : d.born \in Nat /\ d.ttl \in Nat
    BY <2>1, MemoryAssumptions DEF Collection, Good, Docs
  <2>3. Cardinality(Counted(S, t, now')) <= Cardinality(Counted(S, t, now))
    BY <1>2, <2>2, CountedShrinks
  <2>4. /\ Cardinality(Counted(S, t, now')) \in Nat /\ Cardinality(Counted(S, t, now)) \in Nat
        /\ MaxTurns \in Nat
    BY <2>2, FS_Subset, FS_CardinalityType, CountsAre DEF Counted
  <2> QED BY <2>1, <2>3, <2>4
<1>5. turn'.op = "turn" /\ turn'.todo = {} =>
        Cardinality(Counted(docs', turn'.thread, now')) < MaxTurns
  <2>1. CASE turn' = turn
    <3>1. turn.thread \in Threads
      BY DEF TInv, TurnCalls
    <3> QED BY <1>2, <1>3, <2>1, <3>1 DEF BInv
  <2> QED BY <2>1
<1>6. ASSUME NEW d \in job'.todo, NEW t \in Threads, TurnLike(d, t)
      PROVE  \E e \in docs' : Follows(e, d)
  <2>1. CASE d \in job.todo
    BY <1>2, <1>6, <2>1, QuietFollows
  <2>2. CASE d \in docs /\ docs' = docs
    <3>1. d.born \in Nat
      BY <2>2 DEF TInv, Collection, Good, Docs
    <3> QED BY <2>2, <3>1 DEF Follows, SameKey
  <2> QED BY <2>1, <2>2
<1> QED BY <1>3, <1>4, <1>5, <1>6


LEMMA SwitchBounds ==
    ASSUME TInv, LInv, BInv, NEW b \in Branches, NEW c \in DOMAIN saved, SwitchTo(b, saved[c]),
           \A e \in DOMAIN saved' : \E f \in DOMAIN saved : saved'[e] = saved[f]
    PROVE  BInv'
<1>1. /\ docs' = saved[c] /\ turn' = turn /\ job' = job /\ now' = now
      /\ misled' = (misled \/ FALSE)
      /\ raced' = raced \cup (IF job.op = "idle" /\ turn.op = "idle" THEN {} ELSE {"switch"})
  BY DEF SwitchTo, Change
<1>2. Steady' => Steady /\ turn.op = "idle" /\ job.todo = {}
  BY <1>1 DEF Steady, LInv, Resting
<1> QED BY <1>1, <1>2 DEF BInv, Bounded

LEMMA ClientStepBounds == TInv /\ LInv /\ BInv /\ ClientCall => BInv'
<1> SUFFICES ASSUME TInv, LInv, BInv, ClientCall PROVE BInv'
  OBVIOUS
<1>0. TInv' /\ now \in Nat
  BY ClientStepTyped, CountsAre
<1>1. ASSUME NEW S, ClientChange(S, FALSE), job' = job, turn' = turn, saved' = saved, now' = now, Quiet
      PROVE  BInv'
  <2>1. Steady' => Steady
    BY <1>1 DEF ClientChange, Change, Steady
  <2> QED BY <1>0, <1>1, <2>1, BoundStays
<1>2. ASSUME NEW kind \in Templates, NEW low \in BOOLEAN, Store(kind, low) PROVE BInv'
  <2> DEFINE d == Document(kind, low)
  <2>1. /\ ClientChange(Saved(d), FALSE) /\ docs' = Saved(d)
        /\ UNCHANGED <<saved, now, turn, job>>
    BY <1>2 DEF Store, ClientChange, Change
  <2>2. \A t : ~(d.type = "ShortTerm" /\ d.sub = <<t>>)
    <3>1. \A t : Len(<<t>>) = 1
      OBVIOUS
    <3>2. d.type = kind.type /\ d.sub = kind.sub
      BY DEF Document
    <3> HIDE DEF d
    <3> QED BY <3>1, <3>2, TemplatesAreKinds
  <2> HIDE DEF d
  <2>3. Quiet
    <3>1. Covered(d)
      BY <2>2 DEF Covered, TurnLike
    <3>2. ASSUME NEW e \in docs, SameKey(d, e) PROVE \A t \in Threads : ~TurnLike(e, t)
      BY <2>2, <3>2 DEF SameKey, TurnLike
    <3> QED BY <2>1, <3>1, <3>2 DEF Quiet
  <2> QED BY <1>1, <2>1, <2>3
<1>3. ASSUME NEW d \in docs, NEW type \in {"ShortTerm", "Semantic"}, NEW born \in {d.born, now},
             Update(d, type, born)
      PROVE  BInv'
  <2> DEFINE sub == IF type = d.type THEN d.sub ELSE <<>>
             new == [d EXCEPT !.type = type, !.sub = IF type = d.type THEN @ ELSE <<>>,
                              !.born = born, !.holds = {made}]
  <2>1. /\ ClientChange(Saved(new), FALSE) /\ docs' = Saved(new) /\ ~Expired(d)
        /\ UNCHANGED <<saved, now, turn, job>>
    BY <1>3 DEF Update, ClientChange, Change
  <2>2. d \in Docs /\ d.born \in 0..now /\ \A e, f \in docs : SameKey(e, f) => e = f
    BY DEF TInv, Collection, Good
  <2>3. /\ new.type = type /\ new.sub = sub /\ new.born = born /\ new.id = d.id /\ new.ttl = d.ttl
        /\ new.tags = d.tags
    BY <2>2 DEF Docs
  <2> HIDE DEF new
  <2>4. CASE type = d.type
    <3>1. SameKey(new, d) /\ SameKey(d, new) /\ d.born <= new.born
      BY <1>0, <2>2, <2>3, <2>4 DEF SameKey, Docs
    <3>2. \A t : TurnLike(new, t) <=> TurnLike(d, t)
      BY <2>3, <2>4 DEF TurnLike
    <3>3. Covered(new)
      BY <2>1, <3>1, <3>2 DEF Covered
    <3>4. Follows(new, d)
      BY <2>3, <3>1, <3>2 DEF Follows
    <3>5. ASSUME NEW e \in docs, SameKey(new, e) PROVE e = d
      BY <2>2, <3>1, <3>5 DEF SameKey
    <3>6. Quiet
      BY <2>1, <3>3, <3>4, <3>5 DEF Quiet
    <3> QED BY <1>1, <2>1, <3>6
  <2>5. CASE type # d.type
    <3>1. \A t : new.sub # <<t>>
      BY <2>3, <2>5
    <3>2. Covered(new)
      BY <3>1 DEF Covered, TurnLike
    <3>3. ASSUME NEW e \in docs, SameKey(new, e) PROVE \A t \in Threads : ~TurnLike(e, t)
      BY <3>1, <3>3 DEF SameKey, TurnLike
    <3>4. Quiet
      BY <2>1, <3>2, <3>3 DEF Quiet
    <3> QED BY <1>1, <2>1, <3>4
  <2> QED BY <2>4, <2>5
<1>4. ASSUME NEW n \in Names, UpdateRuleStatus(n) PROVE BInv'
  <2>1. PICK d \in Get(<<"rule", n>>) : ClientChange(Saved(d), FALSE)
    BY <1>4 DEF UpdateRuleStatus
  <2>2. Saved(d) = docs
    BY <2>1 DEF Get, Saved, SameKey, TInv, Collection
  <2>3. Quiet /\ UNCHANGED <<saved, now, turn, job>>
    BY <1>4, <2>1, <2>2 DEF UpdateRuleStatus, ClientChange, Change, Quiet
  <2> QED BY <1>1, <2>1, <2>3
<1>5. ASSUME NEW d \in docs, Delete(d.id) PROVE BInv'
  <2>1. ClientChange(docs \ Get(d.id), FALSE) /\ Quiet /\ UNCHANGED <<saved, now, turn, job>>
    BY <1>5 DEF Delete, ClientChange, Change, Quiet
  <2> QED BY <1>1, <2>1
<1>6. CASE Commit
  <2>1. /\ Quiet /\ UNCHANGED <<now, turn, job, misled, raced>>
        /\ \A b \in DOMAIN saved' : saved'[b] = docs \/ \E c \in DOMAIN saved : saved'[b] = saved[c]
    BY <1>6 DEF Commit, Quiet, history
  <2> QED BY <1>0, <2>1, BoundStays DEF Steady
<1>7. CASE Reopen
  <2>1. /\ Quiet /\ UNCHANGED <<now, saved, misled, raced>> /\ job'.todo = {} /\ turn'.op = "idle"
    BY <1>7 DEF Reopen, persistence, history, Quiet, NoTurn, Idle
  <2> QED BY <1>0, <2>1, BoundStays DEF Steady
<1>8. CASE Rollback
  BY <1>8, SwitchBounds, CallsAre DEF Rollback
<1>9. ASSUME NEW b \in Branches, CreateBranch(b) \/ Checkout(b) PROVE BInv'
  BY <1>9, SwitchBounds, CallsAre DEF CreateBranch, Checkout
<1> QED BY <1>2, <1>3, <1>4, <1>5, <1>6, <1>7, <1>8, <1>9 DEF ClientCall


(***************************************************************************)
(* enforce_thread_limit leaves a turn nothing to delete only where there   *)
(* is room for it.                                                         *)
(***************************************************************************)
LEMMA RoomIsFound ==
    ASSUME TInv, NEW t \in Threads, TurnBegin(t), turn'.todo = {}
    PROVE  turn'.thread = t /\ Cardinality(Counted(docs, t, now)) < MaxTurns
<1> DEFINE L == ThreadDocs(t)
           over == Cardinality(L) - MaxTurns + 1
<1>1. turn'.thread = t /\ Cardinality({}) = IF over > 0 THEN over ELSE 0
  BY DEF TurnBegin
<1>2. IsFiniteSet(L) /\ Cardinality(L) \in Nat /\ MaxTurns \in Nat
  BY FS_Subset, FS_CardinalityType, CountsAre DEF ThreadDocs, Under, TInv, Collection
<1>3. Counted(docs, t, now) \subseteq L
  <2> SUFFICES ASSUME NEW d \in Counted(docs, t, now) PROVE d \in L
    OBVIOUS
  <2>1. d \in docs /\ d.type = "ShortTerm" /\ d.sub = <<t>> /\ ~Expired(d)
    BY DEF Counted, TurnLike, Expired
  <2>2. Len(<<t>>) = 1 /\ Len(d.sub) = 1 /\ \A i \in 1..1 : <<t>>[i] = d.sub[i]
    BY <2>1
  <2> QED BY <2>1, <2>2 DEF ThreadDocs, Under
<1> HIDE DEF L
<1>4. Cardinality(L) < MaxTurns
  BY <1>1, <1>2, FS_EmptySet
<1>5. /\ Cardinality(Counted(docs, t, now)) <= Cardinality(L)
      /\ Cardinality(Counted(docs, t, now)) \in Nat
  BY <1>2, <1>3, FS_Subset, FS_CardinalityType
<1> QED BY <1>1, <1>2, <1>4, <1>5

(***************************************************************************)
(* The turn that is written is the only one that a thread gets.            *)
(***************************************************************************)
LEMMA OneTurnMore ==
    ASSUME TInv, NEW d, Saved(d) = docs \cup {d}, NEW u \in Threads, d.sub = <<u>>,
           Bounded(docs), Cardinality(Counted(docs, u, now)) < MaxTurns, NEW t \in Threads
    PROVE  Cardinality(Counted(Saved(d), t, now)) <= MaxTurns
<1> DEFINE T == Counted(docs, t, now)
           T2 == Counted(Saved(d), t, now)
<1>1. IsFiniteSet(T) /\ Cardinality(T) \in Nat /\ MaxTurns \in Nat /\ Cardinality(T) <= MaxTurns
  BY FS_Subset, CountsAre DEF TInv, Collection, Counted, Bounded
<1>2. t # u => T2 = T
  BY DEF Counted, TurnLike
<1>3. T2 \subseteq T \cup {d}
  BY DEF Counted
<1>4. t = u => Cardinality(T) < MaxTurns
  OBVIOUS
<1> HIDE DEF T, T2
<1>5. /\ IsFiniteSet(T \cup {d}) /\ Cardinality(T \cup {d}) \in Nat
      /\ Cardinality(T \cup {d}) = Cardinality(T) \/ Cardinality(T \cup {d}) = Cardinality(T) + 1
  BY <1>1, FS_AddElement, FS_CardinalityType
<1>6. Cardinality(T2) <= Cardinality(T \cup {d}) /\ Cardinality(T2) \in Nat
  BY <1>3, <1>5, FS_Subset, FS_CardinalityType
<1>7. Cardinality(T2) <= MaxTurns
  BY <1>1, <1>2, <1>4, <1>5, <1>6
<1> QED BY <1>7 DEF T2

LEMMA TurnStepBounds == TInv /\ LInv /\ BInv /\ TurnCall => BInv'
<1> SUFFICES ASSUME TInv, LInv, BInv, TurnCall PROVE BInv'
  OBVIOUS
<1>0. TInv' /\ now \in Nat
  BY TurnStepTyped, CountsAre
<1>1. ASSUME NEW t \in Threads, TurnBegin(t) PROVE BInv'
  <2>1. Quiet /\ UNCHANGED <<docs, saved, now, job, misled, raced>>
    BY <1>1 DEF TurnBegin, persistence, history, Quiet
  <2>2. turn'.todo = {} => Cardinality(Counted(docs', turn'.thread, now')) < MaxTurns
    BY <1>1, <2>1, RoomIsFound
  <2> QED BY <1>0, <2>1, <2>2, BoundStays DEF Steady
<1>2. ASSUME NEW t \in Threads, ClearBegin(t) PROVE BInv'
  <2>1. Quiet /\ UNCHANGED <<docs, saved, now, job, misled, raced>> /\ turn'.op = "clear"
    BY <1>2 DEF ClearBegin, persistence, history, Quiet
  <2> QED BY <1>0, <2>1, BoundStays DEF Steady
<1>3. ASSUME NEW d \in turn.todo, TurnRemove(d) PROVE BInv'
  <2>1. Get(d.id) # {} /\ ClientChange(docs \ Get(d.id), Misses(d)) /\ job' = job
    BY <1>3 DEF TurnRemove
  <2>2. Misses(d)
    BY <2>1, TurnMisses
  <2>3. ~Steady'
    BY <2>1, <2>2 DEF ClientChange, Change, Steady
  <2> QED BY <2>1, <2>3 DEF BInv
<1>4. ASSUME NEW d \in turn.todo, TurnFails(d) PROVE BInv'
  <2>1. Quiet /\ UNCHANGED <<docs, saved, now, job, misled, raced>> /\ turn'.op = "idle"
    BY <1>4 DEF TurnFails, persistence, history, Quiet, NoTurn
  <2> QED BY <1>0, <2>1, BoundStays DEF Steady
<1>5. CASE TurnStore
  <2> DEFINE d == Document(Turn(turn.thread), FALSE)
  <2>1. /\ turn.op = "turn" /\ turn.todo = {} /\ ClientChange(Saved(d), FALSE) /\ turn'.op = "idle"
        /\ UNCHANGED <<saved, now, job>>
    BY <1>5 DEF TurnStore, NoTurn
  <2>2. d.id = <<"new", made>> /\ d.sub = <<turn.thread>> /\ turn.thread \in Threads
    BY DEF Document, Turn, Fresh, TInv, TurnCalls
  <2> HIDE DEF d
  <2>3. Saved(d) = docs \cup {d} /\ docs' = Saved(d) /\ (Steady' => Steady)
    BY <2>1, <2>2, FreshKey DEF ClientChange, Change, Steady
  <2>4. ASSUME Steady, NEW t \in Threads PROVE Cardinality(Counted(docs', t, now')) <= MaxTurns
    BY <2>1, <2>2, <2>3, <2>4, OneTurnMore DEF BInv
  <2>5. ASSUME Steady, NEW c \in job.todo, NEW t \in Threads, TurnLike(c, t)
        PROVE  \E e \in docs' : Follows(e, c)
    BY <2>3, <2>5 DEF BInv
  <2>6. Steady => \A b \in DOMAIN saved : Bounded(saved[b])
    BY DEF BInv
  <2> QED BY <2>1, <2>3, <2>4, <2>5, <2>6 DEF BInv, Bounded
<1> QED BY <1>1, <1>2, <1>3, <1>4, <1>5 DEF TurnCall

LEMMA JobStepBounds == TInv /\ LInv /\ BInv /\ JobCall => BInv'
<1> SUFFICES ASSUME TInv, LInv, BInv, JobCall PROVE BInv'
  OBVIOUS
<1>0. TInv' /\ now \in Nat /\ job \in JobCalls
  BY JobStepTyped, CountsAre DEF TInv
<1>1. ASSUME Quiet, job'.todo \subseteq job.todo \/ (job'.todo \subseteq docs /\ docs' = docs),
             UNCHANGED <<misled, raced>> \/ \E S : \E miss \in BOOLEAN : JobChange(S, miss),
             UNCHANGED <<saved, now, turn>>
      PROVE  BInv'
  <2>1. Steady' => Steady
    BY <1>1 DEF JobChange, Change, Steady
  <2> QED BY <1>0, <1>1, <2>1, BoundStays
<1>2. ASSUME NEW plan \in Plans, JobBegin(plan) PROVE BInv'
  <2>1. job'.todo \subseteq docs
    BY <1>2, PlansAre, BegunTyped DEF JobBegin
  <2>2. Quiet /\ UNCHANGED <<docs, saved, now, turn, misled, raced>>
    BY <1>2 DEF JobBegin, persistence, history, Quiet
  <2> QED BY <1>1, <2>1, <2>2
<1>3. ASSUME NEW d, JobRemove(d), job'.todo \subseteq job.todo PROVE BInv'
  <2>1. Quiet /\ UNCHANGED <<saved, now, turn>> /\ \E S : \E miss \in BOOLEAN : JobChange(S, miss)
    <3>1. Misses(d) \in BOOLEAN
      BY DEF Misses
    <3> QED BY <1>3, <3>1 DEF JobRemove, Quiet, JobChange, Change
  <2> QED BY <1>1, <1>3, <2>1
<1>4. ASSUME NEW d \in job.todo, Cleanup(d) \/ Prune(d) PROVE BInv'
  <2>1. JobRemove(d) /\ job'.todo \subseteq job.todo
    BY <1>0, <1>4 DEF Cleanup, Prune, JobCalls
  <2> QED BY <1>3, <2>1
<1>5. ASSUME NEW d \in job.gone, RemoveOriginal(d) PROVE BInv'
  <2>1. JobRemove(d) /\ job'.todo \subseteq job.todo
    BY <1>0, <1>5 DEF RemoveOriginal, JobCalls
  <2> QED BY <1>3, <2>1
<1>6. ASSUME NEW d \in job.todo, Archive(d) PROVE BInv'
  <2> DEFINE new == InArchive(d)
             miss == ~(Holds(Overwritten(new)) \subseteq d.holds)
  <2>1. /\ JobChange(Saved(new), miss) /\ UNCHANGED <<saved, now, turn>> /\ miss \in BOOLEAN
        /\ job' = [job EXCEPT !.todo = @ \ {d}]
    BY <1>6 DEF Archive
  <2>2. Len(new.sub) > 1
    BY ArchivedIsGood
  <2> HIDE DEF new, miss
  <2>3. ASSUME NEW t, new.sub = <<t>> PROVE FALSE
    <3>1. Len(<<t>>) = 1
      OBVIOUS
    <3>2. Len(new.sub) = 1
      BY <2>3, <3>1
    <3> QED BY <2>2, <3>2
  <2>4. Covered(new)
    BY <2>3 DEF Covered, TurnLike
  <2>5. ASSUME NEW e \in docs, SameKey(new, e) PROVE \A t \in Threads : ~TurnLike(e, t)
    BY <2>3, <2>5 DEF SameKey, TurnLike
  <2>6. Quiet /\ job'.todo \subseteq job.todo
    BY <1>0, <2>1, <2>4, <2>5 DEF Quiet, JobChange, Change, JobCalls
  <2> QED BY <1>1, <2>1, <2>6
<1>7. ASSUME NEW C \in SUBSET job.todo, MergeCluster(C) PROVE BInv'
  <2>0. PICK first \in C, l \in {d.low : d \in C} :
          /\ ~Expired(first)
          /\ JobChange(Saved([first EXCEPT !.holds = Holds(C), !.low = l,
                                           !.tags = (UNION {d.tags : d \in C})
                                                      \cup {"consolidated"}]), FALSE)
          /\ job' = [job EXCEPT !.todo = @ \ C, !.gone = @ \cup (C \ {first})]
    BY <1>7 DEF MergeCluster
  <2> DEFINE tags == (UNION {d.tags : d \in C}) \cup {"consolidated"}
             new == [first EXCEPT !.holds = Holds(C), !.low = l, !.tags = tags]
  <2>1. JobChange(Saved(new), FALSE) /\ UNCHANGED <<saved, now, turn>> /\ docs' = Saved(new)
    BY <1>7, <2>0 DEF MergeCluster, JobChange, Change
  <2>2. first \in Docs
    BY DEF TInv, Good
  <2>3. SameKey(new, first) /\ first.tags \subseteq new.tags
    BY <2>2 DEF SameKey, Docs
  <2> HIDE DEF new, tags
  <2>4. job'.todo = job.todo \ C
    BY <1>0, <2>0 DEF JobCalls
  <2>5. Steady => Covered(new)
    <3> SUFFICES ASSUME Steady, NEW t \in Threads, TurnLike(new, t)
                 PROVE  \E e \in docs : SameKey(new, e) /\ TurnLike(e, t) /\ ~Expired(e)
      BY DEF Covered
    <3>1. TurnLike(first, t)
      BY <2>3 DEF TurnLike, SameKey
    <3>2. PICK e \in docs : Follows(e, first)
      BY <3>1 DEF BInv
    <3>3. TurnLike(e, t) /\ SameKey(first, e) /\ first.born <= e.born /\ first.ttl = e.ttl
      BY <3>1, <3>2 DEF Follows
    <3>4. e.born \in Nat /\ first.born \in Nat /\ first.ttl \in Nat
      <4>1. e \in Docs
        BY DEF TInv, Collection, Good
      <4> QED BY <2>2, <4>1, MemoryAssumptions DEF Docs
    <3>5. ~Expired(e)
      BY <1>0, <2>0, <3>3, <3>4 DEF Expired, ExpiredAt
    <3> QED BY <2>3, <3>3, <3>5 DEF SameKey
  <2>6. ASSUME NEW e, SameKey(new, e), NEW c \in job'.todo PROVE ~SameKey(c, e)
    <3>1. SameKey(c, e) => SameKey(c, first)
      BY <2>3, <2>6 DEF SameKey
    <3> QED BY <2>4, <3>1 DEF BInv
  <2>7. CASE Steady
    <3>1. Quiet
      BY <2>1, <2>5, <2>6, <2>7 DEF Quiet
    <3> QED BY <1>1, <2>1, <2>4, <3>1
  <2>8. CASE ~Steady
    <3>1. ~Steady'
      BY <2>1, <2>8 DEF JobChange, Change, Steady
    <3> QED BY <2>4, <3>1 DEF BInv
  <2> QED BY <2>7, <2>8
<1>8. ASSUME NEW g \in BigGroups(job.todo), Summarize(g) PROVE BInv'
  <2>0. PICK S \in SUBSET g, l \in BOOLEAN : \E words \in SUBSET Holds(S) :
          /\ \E d \in S :
               JobChange(Saved([d EXCEPT !.id = <<"summary", made>>, !.tags = @ \cup {"summary"},
                                         !.ttl = 0, !.born = now, !.low = l, !.holds = words]),
                         FALSE)
          /\ job' = [job EXCEPT !.todo = @ \ g, !.gone = S]
    BY <1>8 DEF Summarize
  <2>1. PICK words \in SUBSET Holds(S), d \in S :
          JobChange(Saved([d EXCEPT !.id = <<"summary", made>>, !.tags = @ \cup {"summary"},
                                    !.ttl = 0, !.born = now, !.low = l, !.holds = words]), FALSE)
    BY <2>0
  <2> DEFINE new == [d EXCEPT !.id = <<"summary", made>>, !.tags = @ \cup {"summary"},
                              !.ttl = 0, !.born = now, !.low = l, !.holds = words]
  <2>2. d \in Docs
    BY GroupsAreInside DEF TInv, Good
  <2>3. new.id = <<"summary", made>> /\ "summary" \in new.tags
    BY <2>2 DEF Docs
  <2>4. JobChange(Saved(new), FALSE) /\ docs' = Saved(new)
    BY <2>1 DEF JobChange, Change
  <2> HIDE DEF new
  <2>5. Overwritten(new) = {}
    BY <2>3, FreshKey
  <2>6. UNCHANGED <<saved, now, turn>> /\ job'.todo \subseteq job.todo
    BY <1>0, <1>8, <2>0 DEF Summarize, JobCalls
  <2>7. Quiet
    BY <2>3, <2>4, <2>5, <2>6 DEF Quiet, Covered, TurnLike, Overwritten
  <2> QED BY <1>1, <2>4, <2>6, <2>7
<1>9. ASSUME NEW d, JobFails(d) PROVE BInv'
  <2>1. Quiet /\ UNCHANGED <<docs, saved, now, turn, misled, raced>> /\ job'.todo = {}
    BY <1>9 DEF JobFails, persistence, history, Quiet, Idle
  <2> QED BY <1>1, <2>1
<1>10. CASE JobNext
  <2>1. job.rest = <<>> \/ (Head(job.rest) \in Ops /\ Tail(job.rest) \in Seq(Ops))
    BY <1>0 DEF JobCalls
  <2>2. job'.todo \subseteq docs
    BY <1>10, <2>1, BegunTyped, CallsAre DEF JobNext
  <2>3. Quiet /\ UNCHANGED <<docs, saved, now, turn, misled, raced>>
    BY <1>10 DEF JobNext, persistence, history, Quiet
  <2> QED BY <1>1, <2>2, <2>3
<1> QED BY <1>2, <1>4, <1>5, <1>6, <1>7, <1>8, <1>9, <1>10 DEF JobCall

LEMMA InitBounded == Init => BInv
<1> SUFFICES ASSUME Init PROVE BInv
  OBVIOUS
<1>1. /\ docs = {} /\ job.todo = {} /\ turn.op = "idle"
      /\ \A b \in DOMAIN saved : saved[b] = {}
  BY DEF Init, Idle, NoTurn
<1>2. \A t : Counted({}, t, now) = {}
  BY DEF Counted
<1>3. Bounded({})
  BY <1>2, FS_EmptySet, MemoryAssumptions DEF Bounded
<1> QED BY <1>1, <1>3 DEF BInv

LEMMA StepBounds == TInv /\ LInv /\ BInv /\ [Next]_vars => BInv'
<1> SUFFICES ASSUME TInv, LInv, BInv, [Next]_vars PROVE BInv'
  OBVIOUS
<1>0. TInv'
  BY StepTyped
<1>1. CASE Tick \/ UNCHANGED vars
  <2>1. UNCHANGED <<docs, saved, turn, job, misled, raced>> /\ now <= now' /\ Quiet
    BY <1>1, CountsAre DEF Tick, vars, persistence, history, Quiet
  <2> QED BY <1>0, <2>1, BoundStays DEF Steady
<1> QED BY <1>1, ClientStepBounds, TurnStepBounds, JobStepBounds DEF Next

LEMMA AlwaysBounded == Spec => [](TInv /\ LInv /\ BInv)
BY InitTyped, StepTyped, InitKept, StepKept, InitBounded, StepBounds, PTL DEF Spec

(***************************************************************************)
(* Unless a call has removed another document than it meant or a checkout  *)
(* comes into a call, a thread has no more live turns than                 *)
(* max_memories_per_thread: the limit is read in one access and the turn   *)
(* written in another, and neither a call of another store nor a merge     *)
(* that writes back what it read before adds a turn in between.            *)
(***************************************************************************)
THEOREM ThreadsAreBounded == Spec => []TurnsBounded
<1>1. TInv /\ BInv => TurnsBounded
  <2> SUFFICES ASSUME TInv, BInv, Steady, NEW t \in Threads
               PROVE  Cardinality(TurnsOf(t)) <= MaxTurns
    BY DEF TurnsBounded, Steady
  <2> DEFINE T == Counted(docs, t, now)
  <2>1. IsFiniteSet(T) /\ Cardinality(T) \in Nat /\ MaxTurns \in Nat /\ Cardinality(T) <= MaxTurns
    BY FS_Subset, CountsAre DEF TInv, Collection, Counted, BInv, Bounded
  <2>2. TurnsOf(t) \subseteq T
    BY DEF TurnsOf, ConversationHistory, ThreadDocs, Under, Counted, TurnLike, Expired
  <2> HIDE DEF T
  <2>3. Cardinality(TurnsOf(t)) <= Cardinality(T) /\ Cardinality(TurnsOf(t)) \in Nat
    BY <2>1, <2>2, FS_Subset, FS_CardinalityType
  <2> QED BY <2>1, <2>3
<1> QED BY <1>1, AlwaysBounded, PTL
=============================================================================

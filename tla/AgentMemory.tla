---------------------------- MODULE AgentMemory ----------------------------
(***************************************************************************)
(* The agent memory of src/src/agent: the stores for short-term, semantic, *)
(* episodic and procedural memories and the lifecycle manager work on one  *)
(* BaseMemoryStore, whose persistence is behind one lock that is taken per *)
(* access.  A call that makes several accesses (a turn of a conversation,  *)
(* clear_thread, cleanup_expired, the consolidations, optimize) is split   *)
(* into its steps, and the calls on the other stores come between them;    *)
(* the get and the delete of one delete are one step.                      *)
(*                                                                         *)
(* A document keeps what the calls tell apart: its namespace and id, tags, *)
(* creation, time to live, whether its confidence is below the threshold   *)
(* of pruning, and the facts its content holds.  The persistence is the    *)
(* Git store, call by call (VersionedStore has its steps): a map with      *)
(* uncommitted changes and a committed map per branch.                     *)
(***************************************************************************)
EXTENDS Integers, Sequences, FiniteSets

CONSTANTS Threads,
          Begins,      \* pairs of threads of which the first begins the name of the second
          Names,       \* ids, keys and entities that clients choose
          Templates,   \* what is stored in this instance, besides turns
          Branches, Main,
          MaxTurns,    \* max_memories_per_thread
          MaxMemories, \* max_memories of a summary
          Lifetime,    \* default_ttl
          Age,         \* age from which documents are archived
          MaxTime, MaxMade, MaxCalls  \* bounds: the clock, the documents, the calls

VARIABLES docs,   \* the documents a reader finds, committed or not
          saved,  \* the documents committed on each branch there is
          branch, \* the current branch of the persistence
          now,
          turn,   \* the call of the short-term store
          job,    \* the call of the lifecycle manager
          made,   \* number of documents made so far, by which they get fresh ids
          calls,  \* number of calls so far
          due,    \* history: facts stored and not given up by the call that removed them
          misled, \* history: a call has removed another document than it meant
          raced   \* history: "write" was done in a lifecycle call, "switch" in any call

persistence == <<docs, saved, branch>>
history == <<due, misled, raced>>
vars == <<persistence, now, turn, job, made, calls, history>>

-----------------------------------------------------------------------------
(* Namespaces, documents and the templates of the typed stores             *)

Types == <<"ShortTerm", "Semantic", "Episodic", "Procedural">>

Rank(d) == CHOOSE i \in 1..4 : Types[i] = d.type

Fresh == <<>>

(* rated: the call takes the confidence, which is the highest otherwise.   *)
Turn(t) == [type |-> "ShortTerm", sub |-> <<t>>, id |-> Fresh, ttl |-> Lifetime,
            tags |-> {"conversation"}, rated |-> FALSE]

WorkingMemory(t, k) == [Turn(t) EXCEPT !.sub = <<t, "working">>, !.id = <<"working", t, k>>,
                                       !.tags = {"working_memory"}]

SessionContext(t, k) == [Turn(t) EXCEPT !.sub = <<t, "context">>, !.id = <<"context", t, k>>,
                                        !.tags = {"context"}]

Fact(e) == [type |-> "Semantic", sub |-> <<"entity", e>>, id |-> Fresh, ttl |-> 0,
            tags |-> {"fact"}, rated |-> TRUE]

Relationship == [type |-> "Semantic", sub |-> <<"relationships">>, id |-> Fresh, ttl |-> 0,
                 tags |-> {"relationship"}, rated |-> TRUE]

Episode == [type |-> "Episodic", sub |-> <<"month">>, id |-> Fresh, ttl |-> 0,
            tags |-> {"episode"}, rated |-> TRUE]

Interaction == [Episode EXCEPT !.tags = {"interaction"}, !.rated = FALSE]

Procedure(n) == [type |-> "Procedural", sub |-> <<"category">>, id |-> <<"procedure", n>>,
                 ttl |-> 0, tags |-> {"procedure"}, rated |-> FALSE]

Rule(n) == [Procedure(n) EXCEPT !.sub = <<"category", "rules">>, !.id = <<"rule", n>>,
                                !.tags = {"rule"}]

(* A document a client puts into the namespace of a type itself, with an   *)
(* id of its own, which may be one that a typed store makes, or without.   *)
Raw(type, id, ttl) ==
    [type |-> type, sub |-> <<>>, id |-> id, ttl |-> ttl, tags |-> {}, rated |-> TRUE]

AllTemplates ==
    (UNION {{WorkingMemory(t, n), SessionContext(t, n)} : t \in Threads, n \in Names})
      \cup (UNION {{Fact(n), Procedure(n), Rule(n)} : n \in Names})
      \cup {Relationship, Episode, Interaction}
      \cup {Raw(Types[i], id, ttl) : i \in 1..4, ttl \in {0, Lifetime},
                                     id \in {Fresh} \cup {<<"rule", n>> : n \in Names}}

ASSUME MemoryAssumptions ==
    /\ Main \in Branches /\ Threads # {} /\ Begins \subseteq Threads \X Threads
    /\ MaxTurns \in Nat \ {0} /\ MaxMemories \in Nat \ {0}
    /\ Lifetime \in Nat \ {0} /\ Age \in Nat
    /\ Templates \subseteq AllTemplates
    /\ MaxTime \in Nat /\ MaxMade \in Nat /\ MaxCalls \in Nat

Document(kind, low) ==
    [type |-> kind.type, sub |-> kind.sub, tags |-> kind.tags, ttl |-> kind.ttl,
     id |-> IF kind.id = Fresh THEN <<"new", made>> ELSE kind.id,
     born |-> now, low |-> low, holds |-> {made}]

ExpiredAt(d, time) == d.ttl # 0 /\ time > d.born + d.ttl

Expired(d) == ExpiredAt(d, now)

Holds(S) == UNION {d.holds : d \in S}

-----------------------------------------------------------------------------
(* BaseMemoryStore                                                         *)

SameKey(d, e) == d.type = e.type /\ d.sub = e.sub /\ d.id = e.id

\* mutant: a document is saved beside the one that has its key
SavedBeside(d) == docs \cup {d}

(* A key is the path of the namespace and the id.                          *)
Saved(d) == {e \in docs : ~SameKey(d, e)} \cup {d}

Overwritten(d) == {e \in docs : SameKey(d, e)}

(* The keys that begin with the path of a namespace; a path that ends      *)
(* within a name begins the longer name, too.                              *)
Under(type, sub) ==
    {d \in docs :
      /\ d.type = type /\ Len(sub) <= Len(d.sub)
      /\ \A i \in 1..Len(sub) : \/ sub[i] = d.sub[i]
                                \/ i = Len(sub) /\ <<sub[i], d.sub[i]>> \in Begins}

AllDocs == UNION {Under(Types[i], <<>>) : i \in 1..4}

(* get looks the id up below the four types, where no typed store puts     *)
(* anything, and takes the first it finds.                                 *)
Get(id) ==
    LET found == {d \in docs : d.sub = <<>> /\ d.id = id}
    IN  {d \in found : \A e \in found : Rank(d) <= Rank(e)}

(* delete(d.id) comes upon another document that has the id.               *)
Misses(d) == \E e \in Get(d.id) : ~SameKey(d, e)

Idle == [op |-> "idle", todo |-> {}, gone |-> {}, rest |-> <<>>, since |-> 0]

NoTurn == [op |-> "idle", thread |-> CHOOSE t \in Threads : TRUE, todo |-> {}]

Change(S, miss, races) ==
    /\ docs' = S
    /\ misled' = (misled \/ miss)
    /\ raced' = raced \cup races

(* The effect of a call of a client, which a lifecycle call does not see.  *)
ClientChange(S, miss) == Change(S, miss, IF job.op = "idle" THEN {} ELSE {"write"})

JobChange(S, miss) == Change(S, miss, {})

Make == made < MaxMade /\ made' = made + 1

Call == calls < MaxCalls /\ calls' = calls + 1

Store(kind, low) ==
    LET d == Document(kind, low)
    IN  /\ low => kind.rated
        /\ Make /\ Call
        /\ ClientChange(Saved(d), FALSE)
        /\ due' = (due \ Holds(Overwritten(d))) \cup d.holds
        /\ UNCHANGED <<saved, branch, now, turn, job>>

(* The client has d from a query, which leaves expired documents out, and  *)
(* gives it a new content, perhaps another namespace and new metadata.     *)
Update(d, type, born) ==
    LET new == [d EXCEPT !.type = type, !.sub = IF type = d.type THEN @ ELSE <<>>,
                         !.born = born, !.holds = {made}]
    IN  /\ Make /\ Call /\ ~Expired(d)
        /\ ClientChange(Saved(new), FALSE)
        /\ due' = (due \ Holds(Overwritten(new))) \cup new.holds
        /\ UNCHANGED <<saved, branch, now, turn, job>>

(* update_rule_status does not find the documents of store_rule, which are *)
(* in a sub-namespace, but one that a client has given the id of a rule.   *)
(* What its content holds stays.                                           *)
UpdateRuleStatus(n) ==
    \E d \in Get(<<"rule", n>>) :
      /\ Call /\ ~Expired(d)
      /\ ClientChange(Saved(d), FALSE)
      /\ UNCHANGED <<saved, branch, now, turn, job, made, due>>

Delete(id) ==
    /\ Get(id) # {}
    /\ Call
    /\ ClientChange(docs \ Get(id), FALSE)
    /\ due' = due \ Holds(Get(id))
    /\ UNCHANGED <<saved, branch, now, turn, job, made>>

-----------------------------------------------------------------------------
(* commit, create_branch, checkout and rollback of the persistence         *)

Commit ==
    /\ docs # saved[branch]
    /\ Call
    /\ saved' = [saved EXCEPT ![branch] = docs]
    /\ UNCHANGED <<docs, branch, now, turn, job, made, history>>

(* What is found is what is committed on b from here on, also by the calls *)
(* of the other stores that are under way.                                 *)
SwitchTo(b, S) ==
    /\ Call
    /\ branch' = b
    /\ Change(S, FALSE, IF job.op = "idle" /\ turn.op = "idle" THEN {} ELSE {"switch"})
    /\ due' = Holds(S)
    /\ UNCHANGED <<now, turn, job, made>>

(* Changes that are not committed are given up.                            *)
CreateBranch(b) ==
    /\ b \notin DOMAIN saved
    /\ SwitchTo(b, saved[branch])
    /\ saved' = [c \in DOMAIN saved \cup {b} |-> IF c = b THEN saved[branch] ELSE saved[c]]

Checkout(b) ==
    /\ b \in DOMAIN saved
    /\ SwitchTo(b, saved[b])
    /\ UNCHANGED saved

(* rollback gives checkout the id of a commit; no branch has this name, so *)
(* that it fails, after the uncommitted changes have been given up.        *)
Rollback ==
    /\ SwitchTo(branch, saved[branch])
    /\ UNCHANGED saved

(* The process ends, within calls or not, and another opens the memory; the *)
(* staging area is in a file, so that uncommitted changes are kept.        *)
Reopen ==
    /\ turn.op # "idle" \/ job.op # "idle"
    /\ Call
    /\ turn' = NoTurn /\ job' = Idle
    /\ UNCHANGED <<persistence, now, made, history>>

-----------------------------------------------------------------------------
(* store_conversation_turn and clear_thread of the short-term store        *)

ThreadDocs(t) == {d \in Under("ShortTerm", <<t>>) : ~Expired(d)}

(* get_conversation_history: the turns of other threads too, where their   *)
(* names begin like this one's                                             *)
ConversationHistory(t) == {d \in ThreadDocs(t) : "conversation" \in d.tags}

\* mutant: the limit is reached one turn too late
TurnBeginLate(t) ==
    LET live == ThreadDocs(t)
        over == Cardinality(live) - MaxTurns
    IN  /\ turn.op = "idle"
        /\ Call
        /\ \E oldest \in {S \in SUBSET live :
                            /\ Cardinality(S) = IF over > 0 THEN over ELSE 0
                            /\ \A d \in S, e \in live \ S : d.born <= e.born} :
             turn' = [op |-> "turn", thread |-> t, todo |-> oldest]
        /\ UNCHANGED <<persistence, now, job, made, history>>

(* enforce_thread_limit takes the oldest, so many that there is room for   *)
(* one more.                                                               *)
TurnBegin(t) ==
    LET live == ThreadDocs(t)
        over == Cardinality(live) - MaxTurns + 1
    IN  /\ turn.op = "idle"
        /\ Call
        /\ \E oldest \in {S \in SUBSET live :
                            /\ Cardinality(S) = IF over > 0 THEN over ELSE 0
                            /\ \A d \in S, e \in live \ S : d.born <= e.born} :
             turn' = [op |-> "turn", thread |-> t, todo |-> oldest]
        /\ UNCHANGED <<persistence, now, job, made, history>>

ClearBegin(t) ==
    /\ turn.op = "idle" /\ ThreadDocs(t) # {}
    /\ Call
    /\ turn' = [op |-> "clear", thread |-> t, todo |-> ThreadDocs(t)]
    /\ UNCHANGED <<persistence, now, job, made, history>>

TurnRemove(d) ==
    /\ d \in turn.todo /\ Get(d.id) # {}
    /\ turn' = IF turn = [turn EXCEPT !.op = "clear", !.todo = {d}] THEN NoTurn
               ELSE [turn EXCEPT !.todo = @ \ {d}]
    /\ ClientChange(docs \ Get(d.id), Misses(d))
    /\ due' = due \ d.holds
    /\ UNCHANGED <<saved, branch, now, job, made, calls>>

(* A document in a sub-namespace is not found; the call ends with an error *)
(* and a turn is not stored.                                               *)
TurnFails(d) ==
    /\ d \in turn.todo /\ Get(d.id) = {}
    /\ turn' = NoTurn
    /\ UNCHANGED <<persistence, now, job, made, calls, history>>

TurnStore ==
    LET d == Document(Turn(turn.thread), FALSE)
    IN  /\ turn.op = "turn" /\ turn.todo = {}
        /\ Make
        /\ turn' = NoTurn
        /\ ClientChange(Saved(d), FALSE)
        /\ due' = due \cup d.holds
        /\ UNCHANGED <<saved, branch, now, job, calls>>

-----------------------------------------------------------------------------
(* cleanup_expired, consolidate, archive and optimize                      *)

Groups(S) == {{e \in S : e.type = d.type /\ e.sub = d.sub /\ e.tags = d.tags} : d \in S}

BigGroups(S) == {g \in Groups(S) : Cardinality(g) > MaxMemories}

Live == {d \in AllDocs : ~Expired(d)}

(* The access_threshold of optimize is 0.  No document has been accessed,  *)
(* as mark_accessed is never called, so that a higher one takes them all.  *)
Prunings == {"prune", "prune_all"}

Todo(op) ==
    CASE op = "cleanup"   -> AllDocs
      [] op = "merge"     -> Live
      [] op = "summarize" -> UNION BigGroups(Live)
      [] op = "archive"   -> {d \in Live : d.born + Age <= now}
      [] op = "prune"     -> {d \in Live : d.low}
      [] op = "prune_all" -> Live

Begun(op, rest) == [op |-> op, todo |-> Todo(op), gone |-> {}, rest |-> rest, since |-> now]

Plans == {<<"cleanup">>, <<"merge">>, <<"summarize">>, <<"archive">>, <<"prune">>, <<"prune_all">>,
          <<"cleanup", "merge", "archive", "prune">>}

JobBegin(plan) ==
    /\ job.op = "idle"
    /\ Call
    /\ job' = Begun(plan[1], Tail(plan))
    /\ UNCHANGED <<persistence, now, turn, made, history>>

(* delete takes the id only.                                               *)
JobRemove(d) ==
    /\ Get(d.id) # {}
    /\ JobChange(docs \ Get(d.id), Misses(d))
    /\ UNCHANGED <<saved, branch, now, turn, made, calls>>

Cleanup(d) ==
    /\ job.op = "cleanup" /\ d \in job.todo /\ Expired(d)
    /\ JobRemove(d)
    /\ job' = [job EXCEPT !.todo = @ \ {d}]
    /\ due' = due \ d.holds

Prune(d) ==
    /\ job.op \in Prunings /\ d \in job.todo
    /\ JobRemove(d)
    /\ job' = [job EXCEPT !.todo = @ \ {d}]
    /\ due' = due \ d.holds

\* mutant: the documents of a cluster are all marked for deletion
MergeClusterAll(C) ==
    LET low == {d.low : d \in C}
    IN  /\ job.op = "merge"
        /\ \E first \in C, l \in low :
             /\ \A d \in C : Rank(first) <= Rank(d)
             /\ ~Expired(first)
             /\ JobChange(Saved([first EXCEPT !.holds = Holds(C), !.low = l,
                                              !.tags = (UNION {d.tags : d \in C})
                                                         \cup {"consolidated"}]), FALSE)
             /\ job' = [job EXCEPT !.todo = @ \ C, !.gone = @ \cup C]
        /\ UNCHANGED <<saved, branch, now, turn, made, calls, due>>

(* Which documents are similar is up to the embeddings.  The first of a    *)
(* cluster is one of the first type and becomes the merged one; the others *)
(* are deleted when all clusters are stored.                               *)
MergeCluster(C) ==
    LET low == {d.low : d \in C}
    IN  /\ job.op = "merge"
        /\ \E first \in C, l \in low :
             /\ \A d \in C : Rank(first) <= Rank(d)
             /\ ~Expired(first)
             /\ JobChange(Saved([first EXCEPT !.holds = Holds(C), !.low = l,
                                              !.tags = (UNION {d.tags : d \in C})
                                                         \cup {"consolidated"}]), FALSE)
             /\ job' = [job EXCEPT !.todo = @ \ C, !.gone = @ \cup (C \ {first})]
        /\ UNCHANGED <<saved, branch, now, turn, made, calls, due>>

(* Of each group the documents with the highest confidence are summarized. *)
(* Of their facts the first fifty words of their contents hold some, the   *)
(* others are given up.                                                    *)
Summarize(g) ==
    /\ job.op = "summarize" /\ job.gone = {} /\ g \in BigGroups(job.todo)
    /\ Make
    /\ \E S \in SUBSET g, l \in BOOLEAN : \E words \in SUBSET Holds(S) :
         /\ Cardinality(S) = MaxMemories
         /\ \A d \in S, e \in g \ S : d.low => e.low
         /\ l \in {d.low : d \in S}
         /\ \E d \in S :
              JobChange(Saved([d EXCEPT !.id = <<"summary", made>>, !.tags = @ \cup {"summary"},
                                        !.ttl = 0, !.born = now, !.low = l, !.holds = words]), FALSE)
         /\ job' = [job EXCEPT !.todo = @ \ g, !.gone = S]
         /\ due' = due \ (Holds(S) \ words)
    /\ UNCHANGED <<saved, branch, now, turn, calls>>

(* The originals of a cluster or of a summary                              *)
RemoveOriginal(d) ==
    /\ d \in job.gone
    /\ JobRemove(d)
    /\ job' = [job EXCEPT !.gone = @ \ {d},
                          !.todo = IF job.op = "merge" THEN {} ELSE @]
    /\ UNCHANGED due

NoName == ""

InArchive(d) ==
    [d EXCEPT !.sub = <<"archive">> \o (IF d.sub = <<>> THEN <<NoName>> ELSE d.sub),
              !.tags = @ \cup {"archived"}]

(* update writes a copy into the archive, over an older copy; the original *)
(* stays.                                                                  *)
Archive(d) ==
    LET copy == InArchive(d)
    IN  /\ job.op = "archive" /\ d \in job.todo /\ ~Expired(d)
        /\ JobChange(Saved(copy), ~(Holds(Overwritten(copy)) \subseteq d.holds))
        /\ job' = [job EXCEPT !.todo = @ \ {d}]
        /\ UNCHANGED <<saved, branch, now, turn, made, calls, due>>

(* The first document that cannot be deleted or has expired ends the call. *)
Stuck(d) ==
    \/ /\ \/ job.op \in Prunings /\ d \in job.todo
          \/ job.op = "cleanup" /\ d \in job.todo /\ Expired(d)
          \/ d \in job.gone
       /\ Get(d.id) = {}
    \/ job.op \in {"archive", "merge"} /\ d \in job.todo /\ Expired(d)

JobFails(d) ==
    /\ Stuck(d)
    /\ job' = Idle
    /\ UNCHANGED <<persistence, now, turn, made, calls, history>>

(* cleanup_expired may have passed a document before it expired; which     *)
(* documents are left unmerged is up to the embeddings.                    *)
Done ==
    /\ job.gone = {}
    /\ CASE job.op = "cleanup"   -> \A d \in job.todo : ~ExpiredAt(d, job.since)
         [] job.op = "merge"     -> TRUE
         [] job.op = "summarize" -> BigGroups(job.todo) = {}
         [] OTHER                -> job.todo = {}

\* mutant: a document that is not found does not end cleanup and pruning
JobNextAnyway ==
    /\ job.op # "idle"
    /\ Done \/ \A d \in job.todo : Get(d.id) = {}
    /\ job' = IF job.rest = <<>> THEN Idle ELSE Begun(Head(job.rest), Tail(job.rest))
    /\ UNCHANGED <<persistence, now, turn, made, calls, history>>

JobNext ==
    /\ job.op # "idle" /\ Done
    /\ job' = IF job.rest = <<>> THEN Idle ELSE Begun(Head(job.rest), Tail(job.rest))
    /\ UNCHANGED <<persistence, now, turn, made, calls, history>>

-----------------------------------------------------------------------------

Tick ==
    /\ now < MaxTime
    /\ now' = now + 1
    /\ UNCHANGED <<persistence, turn, job, made, calls, history>>

Init ==
    /\ docs = {} /\ due = {}
    /\ saved = [b \in {Main} |-> {}]
    /\ branch = Main
    /\ now = 0 /\ made = 0 /\ calls = 0
    /\ turn = NoTurn
    /\ job = Idle
    /\ misled = FALSE /\ raced = {}

ClientCall ==
    \/ \E kind \in Templates, low \in BOOLEAN : Store(kind, low)
    \/ \E d \in docs, type \in {"ShortTerm", "Semantic"} : \E born \in {d.born, now} :
         Update(d, type, born)
    \/ \E n \in Names : UpdateRuleStatus(n)
    \/ \E d \in docs : Delete(d.id)
    \/ Commit \/ Rollback \/ Reopen
    \/ \E b \in Branches : CreateBranch(b) \/ Checkout(b)

TurnCall ==
    \/ \E t \in Threads : TurnBegin(t) \/ ClearBegin(t)
    \/ \E d \in turn.todo : TurnRemove(d) \/ TurnFails(d)
    \/ TurnStore

JobCall ==
    \/ \E plan \in Plans : JobBegin(plan)
    \/ \E d \in job.todo : Cleanup(d) \/ Prune(d) \/ Archive(d)
    \/ \E C \in SUBSET job.todo : Cardinality(C) > 1 /\ MergeCluster(C)
    \/ \E g \in BigGroups(job.todo) : Summarize(g)
    \/ \E d \in job.gone : RemoveOriginal(d)
    \/ \E d \in job.todo \cup job.gone : JobFails(d)
    \/ JobNext

Next == ClientCall \/ TurnCall \/ JobCall \/ Tick

Spec == Init /\ [][Next]_vars

-----------------------------------------------------------------------------
(* Properties                                                              *)

DocumentOK(d) ==
    /\ d.type \in {Types[i] : i \in 1..4}
    /\ d.born \in 0..now /\ d.ttl \in {0, Lifetime} /\ d.low \in BOOLEAN
    /\ d.holds \subseteq 0..(made - 1)

(***************************************************************************)
(* Type invariant.  A namespace and an id lead to one document, whatever   *)
(* calls are under way.                                                    *)
(***************************************************************************)
TypeOK ==
    /\ \A d \in docs : DocumentOK(d)
    /\ \A d, e \in docs : SameKey(d, e) => d = e
    /\ Main \in DOMAIN saved /\ branch \in DOMAIN saved /\ DOMAIN saved \subseteq Branches
    /\ \A b \in DOMAIN saved : \A d \in saved[b] : DocumentOK(d)
    /\ now \in 0..MaxTime /\ made \in 0..MaxMade /\ calls \in 0..MaxCalls
    /\ turn.op \in {"idle", "turn", "clear"} /\ turn.thread \in Threads
    /\ job.op \in {"idle", "cleanup", "merge", "summarize", "archive"} \cup Prunings
    /\ \A d \in turn.todo \cup job.todo \cup job.gone : DocumentOK(d)
    /\ due \subseteq 0..made /\ misled \in BOOLEAN /\ raced \subseteq {"write", "switch"}

TurnsOf(t) == {d \in ConversationHistory(t) : d.sub = <<t>> /\ "summary" \notin d.tags}

(***************************************************************************)
(* As long as no call has removed another document than it meant and no    *)
(* checkout comes into a call, a thread has no more live turns than        *)
(* max_memories_per_thread, though the limit is read in one access to the  *)
(* store and the turn written in another, and lifecycle calls and the      *)
(* calls of other stores come between (store_conversation_turn,            *)
(* enforce_thread_limit).                                                  *)
(***************************************************************************)
TurnsBounded ==
    ~misled /\ "switch" \notin raced => \A t \in Threads : Cardinality(TurnsOf(t)) <= MaxTurns

(***************************************************************************)
(* As long as no call has removed another document than it meant and no    *)
(* call comes into a lifecycle call, no lifecycle call loses more than     *)
(* what it is told to delete and what a summary leaves out, also where it  *)
(* fails half way or its process ends: a merged document holds the facts   *)
(* of its originals, and a summary those of its fifty words, before they   *)
(* are deleted, and an archive is written beside its original              *)
(* (merge_similar_memories, summarize_memories, archive_old_memories,      *)
(* cleanup_expired, prune_memories, optimize).                             *)
(***************************************************************************)
NothingLost == ~misled /\ raced = {} => due \subseteq Holds(docs)

(***************************************************************************)
(* As long as no call has removed another document than it meant and no    *)
(* call comes into a lifecycle call, a cleanup that ends well has removed  *)
(* all that had expired when it began, and pruning all live documents of   *)
(* low confidence, or all live documents (cleanup_expired,                 *)
(* prune_memories).                                                        *)
(***************************************************************************)
SuccessMeansDone ==
    [][~misled /\ raced = {} /\ JobNext =>
         \A d \in docs : /\ job.op = "cleanup" => ~ExpiredAt(d, job.since)
                         /\ job.op = "prune" => ~d.low \/ ExpiredAt(d, job.since)
                         /\ job.op = "prune_all" => ExpiredAt(d, job.since)]_vars
=============================================================================

---------------------------- MODULE PythonCalls ----------------------------
(***************************************************************************)
(* The locks of src/src/python.rs: Python threads call the wrappers of the *)
(* tree, the stores, the managers and the agent memory; each wrapper keeps *)
(* its object behind a mutex, some methods give the interpreter's lock     *)
(* (the GIL) up around the mutex, and some take it again below the mutex.  *)
(* Rust threads know no GIL; they call ThreadSafeVersionedKvStore, and     *)
(* managers and worktree stores of their own, of which from_worktree asks  *)
(* that the manager be behind a mutex.  What a method does to its object   *)
(* is a read and a write of a number.                                      *)
(***************************************************************************)
EXTENDS Naturals

CONSTANTS PyThreads, RustThreads,
          Trees, Agents, Stores, Managers, WorktreeStores, SqlStores, SharedStores,
          RustObjects, \* the objects that Rust threads call and Python does not know
          ManagerOf,   \* the manager each worktree store was made with
          NoThread,
          MayPanic,    \* whether a method may panic (an index out of bounds in the tree)
          MaxCalls     \* bound on the number of calls

Threads == PyThreads \cup RustThreads
Objects == Trees \cup Agents \cup Stores \cup Managers \cup WorktreeStores
             \cup SqlStores \cup SharedStores

ASSUME CallAssumptions ==
    /\ NoThread \notin Threads /\ Objects # {}
    /\ PyThreads \cap RustThreads = {}
    /\ SharedStores \subseteq RustObjects
    /\ RustObjects \subseteq SharedStores \cup Managers \cup WorktreeStores
    /\ ManagerOf \in [WorktreeStores -> Managers]
    /\ \A o \in WorktreeStores : o \in RustObjects <=> ManagerOf[o] \in RustObjects
    /\ Agents \cap (Trees \cup Stores \cup Managers \cup WorktreeStores \cup SharedStores) = {}
    /\ SqlStores \cap (Trees \cup Stores \cup Managers \cup WorktreeStores \cup SharedStores) = {}
    /\ WorktreeStores \cap (Trees \cup Stores \cup Managers \cup SharedStores) = {}
    /\ MaxCalls \in Nat /\ MayPanic \in BOOLEAN

VARIABLES gil,      \* the thread that holds the interpreter's lock
          mutex,    \* the thread that holds each object's mutex
          poisoned, \* the objects whose mutex a panic has poisoned
          pc,       \* where each thread is
          call,     \* its call: the object and the shape of the method
          seen,     \* what the method has read from the object
          data,     \* the objects' data
          written,  \* history: how many methods have written each object
          calls,    \* number of calls so far
          running   \* the threads of the process: an interpreter's or a Rust program's

vars == <<gil, mutex, poisoned, pc, call, seen, data, written, calls, running>>

-----------------------------------------------------------------------------
(* The shapes of the methods: whether self is borrowed exclusively         *)
(* (&mut self), whether the mutex is taken within allow_threads, whether   *)
(* with_gil is called while it is held, whether the manager's mutex is     *)
(* taken as well, whether the object is written.                           *)
Shape(alone, freed, convert, managed, writes) ==
    [alone |-> alone, freed |-> freed, convert |-> convert, managed |-> managed, writes |-> writes]

Shapes == [alone : BOOLEAN, freed : BOOLEAN, convert : BOOLEAN, managed : BOOLEAN, writes : BOOLEAN]

(* size, depth, get_root_hash, stats, traverse keep the GIL.               *)
TreeShapes == {Shape(TRUE, TRUE, FALSE, FALSE, TRUE),    \* insert, update, delete, batches
               Shape(FALSE, TRUE, FALSE, FALSE, FALSE),  \* find, proofs, save_config
               Shape(FALSE, FALSE, FALSE, FALSE, FALSE)}

(* The queries make their lists with the GIL and under the mutex.          *)
AgentQuery == Shape(FALSE, TRUE, TRUE, FALSE, FALSE)

(* store_*, checkpoint and optimize                                        *)
AgentStore == Shape(FALSE, TRUE, FALSE, FALSE, TRUE)

\* mutant: the turn is stored without allow_threads
AgentShapesUnderGil == {AgentQuery, Shape(FALSE, FALSE, FALSE, FALSE, TRUE)}

AgentShapes == {AgentQuery, AgentStore}

(* merge and try_merge, and insert, update, delete, commit, branch,        *)
(* create_branch and checkout                                              *)
StoreWrite == Shape(FALSE, FALSE, FALSE, FALSE, TRUE)

(* get_keys_at_ref, diff and the other reads make their lists with the GIL *)
(* that they have never given up.                                          *)
StoreRead == Shape(FALSE, FALSE, FALSE, FALSE, FALSE)

(* generate_proof and verify_proof                                         *)
StoreProof == Shape(FALSE, TRUE, FALSE, FALSE, FALSE)

StoreShapes == {StoreWrite, StoreRead, StoreProof}

ManagerShapes == {Shape(FALSE, FALSE, FALSE, FALSE, w) : w \in BOOLEAN}

(* is_locked, lock and unlock take the manager's mutex below their own.    *)
WorktreeStoreShapes == {s \in Shapes : ~s.alone /\ ~s.freed /\ ~s.convert}

SqlExecute == Shape(FALSE, TRUE, TRUE, FALSE, TRUE)

(* commit does not come back to Python while it holds the mutex; the other *)
(* methods are calls of execute, insert with its strings made before.      *)
SqlShapes == {SqlExecute, Shape(FALSE, TRUE, FALSE, FALSE, TRUE)}

(* Rust has no GIL to give up.  A worktree store that threads share is     *)
(* behind a mutex of theirs, below which it takes its manager's.           *)
RustShapes(o) ==
    {s \in Shapes : ~s.alone /\ s.freed /\ ~s.convert /\ (s.managed => o \in WorktreeStores)}

PyShapes(o) ==
    UNION {IF o \in Trees THEN TreeShapes ELSE {},
           IF o \in Agents THEN AgentShapes ELSE {},
           IF o \in Stores THEN StoreShapes ELSE {},
           IF o \in Managers THEN ManagerShapes ELSE {},
           IF o \in WorktreeStores THEN WorktreeStoreShapes ELSE {},
           IF o \in SqlStores THEN SqlShapes ELSE {}}

NoCall == [object |-> CHOOSE o \in Objects : TRUE, shape |-> Shape(FALSE, FALSE, FALSE, FALSE, FALSE)]

-----------------------------------------------------------------------------
InCall == {"lock", "manager", "read", "write", "gil", "convert", "unlock", "back"}

Object(t) == call[t].object
Manager(t) == ManagerOf[Object(t)]

(* The object whose data a method works on: lock and unlock of a worktree  *)
(* store write the manager's worktrees.                                    *)
Target(t) == IF call[t].shape.managed THEN Manager(t) ELSE Object(t)

Held(t) == {o \in Objects : mutex[o] = t}

Released(t) == [o \in Objects |-> IF mutex[o] = t THEN NoThread ELSE mutex[o]]

(* PyO3 keeps the borrow of self for the whole call, the time without the  *)
(* GIL included.                                                           *)
Borrowers(o) == {t \in PyThreads : pc[t] \in InCall /\ Object(t) = o}

MayBorrow(o, shape) ==
    \A t \in Borrowers(o) : ~call[t].shape.alone /\ ~shape.alone

Goto(t, label) == pc' = [pc EXCEPT ![t] = label]

(* Where a call goes that has let go of its mutexes: back to Python, which *)
(* it may have to wait for, or to the Rust caller.                         *)
AfterUnlock(t) == IF t \in RustThreads THEN "out"
                  ELSE IF call[t].shape.freed THEN "back" ELSE "python"

Leave(t) ==
    /\ Goto(t, AfterUnlock(t))
    /\ call' = IF AfterUnlock(t) = "back" THEN call ELSE [call EXCEPT ![t] = NoCall]

-----------------------------------------------------------------------------
(* The interpreter                                                         *)

Take(t) ==
    /\ t \in PyThreads \cap running /\ pc[t] = "out" /\ gil = NoThread
    /\ gil' = t /\ Goto(t, "python")
    /\ UNCHANGED <<mutex, poisoned, call, seen, data, written, calls, running>>

Yield(t) ==
    /\ pc[t] = "python"
    /\ gil' = NoThread /\ Goto(t, "out")
    /\ UNCHANGED <<mutex, poisoned, call, seen, data, written, calls, running>>

-----------------------------------------------------------------------------
(* A call                                                                  *)

Begin(t, o, shape) ==
    /\ calls < MaxCalls /\ calls' = calls + 1
    /\ call' = [call EXCEPT ![t] = [object |-> o, shape |-> shape]]
    /\ Goto(t, "lock")
    /\ UNCHANGED <<mutex, poisoned, seen, data, written, running>>

CallPython(t, o, shape) ==
    /\ pc[t] = "python" /\ MayBorrow(o, shape)
    /\ Begin(t, o, shape)
    /\ gil' = IF shape.freed THEN NoThread ELSE gil

(* RuntimeError: already borrowed                                          *)
CallRefused(t, o, shape) ==
    /\ pc[t] = "python" /\ ~MayBorrow(o, shape)
    /\ calls < MaxCalls /\ calls' = calls + 1
    /\ UNCHANGED <<gil, mutex, poisoned, pc, call, seen, data, written, running>>

CallRust(t, o, shape) ==
    /\ t \in RustThreads \cap running /\ pc[t] = "out"
    /\ Begin(t, o, shape)
    /\ UNCHANGED gil

(* inner.lock().unwrap()                                                   *)
Lock(t) ==
    /\ pc[t] = "lock" /\ mutex[Object(t)] = NoThread /\ Object(t) \notin poisoned
    /\ mutex' = [mutex EXCEPT ![Object(t)] = t]
    /\ Goto(t, IF call[t].shape.managed THEN "manager" ELSE "read")
    /\ UNCHANGED <<gil, poisoned, call, seen, data, written, calls, running>>

(* A poisoned mutex makes the wrappers panic and the thread-safe store     *)
(* answer with an error, or, in get, with no value.  Nothing is held.      *)
LockPoisoned(t) ==
    /\ pc[t] = "lock" /\ mutex[Object(t)] = NoThread /\ Object(t) \in poisoned
    /\ Leave(t)
    /\ UNCHANGED <<gil, mutex, poisoned, seen, data, written, calls, running>>

\* mutant: a worktree store changes its manager without the manager's mutex
LockManagerAnyway(t) ==
    /\ pc[t] = "manager" /\ Manager(t) \notin poisoned
    /\ mutex' = [mutex EXCEPT ![Manager(t)] = t]
    /\ Goto(t, "read")
    /\ UNCHANGED <<gil, poisoned, call, seen, data, written, calls, running>>

LockManager(t) ==
    /\ pc[t] = "manager" /\ mutex[Manager(t)] = NoThread /\ Manager(t) \notin poisoned
    /\ mutex' = [mutex EXCEPT ![Manager(t)] = t]
    /\ Goto(t, "read")
    /\ UNCHANGED <<gil, poisoned, call, seen, data, written, calls, running>>

(* A panic poisons what the thread holds as it unwinds.                    *)
Unwind(t) ==
    /\ poisoned' = poisoned \cup Held(t)
    /\ mutex' = Released(t)
    /\ seen' = [seen EXCEPT ![t] = 0]
    /\ Leave(t)
    /\ UNCHANGED <<gil, data, written, calls, running>>

LockManagerPoisoned(t) ==
    /\ pc[t] = "manager" /\ mutex[Manager(t)] = NoThread /\ Manager(t) \in poisoned
    /\ Unwind(t)

Panic(t) ==
    /\ MayPanic /\ pc[t] \in {"read", "write"}
    /\ Unwind(t)

Read(t) ==
    /\ pc[t] = "read"
    /\ seen' = [seen EXCEPT ![t] = data[Target(t)]]
    /\ Goto(t, "write")
    /\ UNCHANGED <<gil, mutex, poisoned, call, data, written, calls, running>>

Write(t) ==
    /\ pc[t] = "write"
    /\ IF call[t].shape.writes
       THEN /\ data' = [data EXCEPT ![Target(t)] = seen[t] + 1]
            /\ written' = [written EXCEPT ![Target(t)] = @ + 1]
       ELSE UNCHANGED <<data, written>>
    /\ seen' = [seen EXCEPT ![t] = 0]
    /\ Goto(t, IF call[t].shape.convert THEN "gil" ELSE "unlock")
    /\ UNCHANGED <<gil, mutex, poisoned, call, calls, running>>

(* Python::with_gil while the mutex is held                                *)
WithGil(t) ==
    /\ pc[t] = "gil" /\ gil = NoThread
    /\ gil' = t /\ Goto(t, "convert")
    /\ UNCHANGED <<mutex, poisoned, call, seen, data, written, calls, running>>

\* mutant: the GIL is kept when the lists are made
ConvertKeeping(t) ==
    /\ pc[t] = "convert"
    /\ Goto(t, "unlock")
    /\ UNCHANGED <<gil, mutex, poisoned, call, seen, data, written, calls, running>>

Convert(t) ==
    /\ pc[t] = "convert"
    /\ gil' = NoThread /\ Goto(t, "unlock")
    /\ UNCHANGED <<mutex, poisoned, call, seen, data, written, calls, running>>

\* mutant: the mutex of the manager stays locked
UnlockOwn(t) ==
    /\ pc[t] = "unlock"
    /\ mutex' = [mutex EXCEPT ![Object(t)] = NoThread]
    /\ Leave(t)
    /\ UNCHANGED <<gil, poisoned, seen, data, written, calls, running>>

Unlock(t) ==
    /\ pc[t] = "unlock"
    /\ mutex' = Released(t)
    /\ Leave(t)
    /\ UNCHANGED <<gil, poisoned, seen, data, written, calls, running>>

(* The end of allow_threads                                                *)
Back(t) ==
    /\ pc[t] = "back" /\ gil = NoThread
    /\ gil' = t /\ Goto(t, "python")
    /\ call' = [call EXCEPT ![t] = NoCall]
    /\ UNCHANGED <<mutex, poisoned, seen, data, written, calls, running>>

-----------------------------------------------------------------------------
Init ==
    /\ gil = NoThread
    /\ mutex = [o \in Objects |-> NoThread]
    /\ poisoned = {}
    /\ pc = [t \in Threads |-> "out"]
    /\ call = [t \in Threads |-> NoCall]
    /\ seen = [t \in Threads |-> 0]
    /\ data = [o \in Objects |-> 0]
    /\ written = [o \in Objects |-> 0]
    /\ calls = 0
    /\ running \in {PyThreads, RustThreads}

CallAny(t) ==
    \/ \E o \in Objects \ RustObjects : \E shape \in PyShapes(o) :
         CallPython(t, o, shape) \/ CallRefused(t, o, shape)
    \/ \E o \in RustObjects : \E shape \in RustShapes(o) : CallRust(t, o, shape)

(* The steps that wait for nothing or for a mutex, and those that wait for *)
(* the GIL.                                                                *)
Run(t) ==
    \/ Lock(t) \/ LockPoisoned(t) \/ LockManager(t) \/ LockManagerPoisoned(t)
    \/ Read(t) \/ Write(t) \/ Convert(t) \/ Unlock(t)

Regain(t) == WithGil(t) \/ Back(t)

Next == \E t \in Threads : Take(t) \/ Yield(t) \/ CallAny(t) \/ Run(t) \/ Panic(t) \/ Regain(t)

Spec == Init /\ [][Next]_vars

(* A thread that can run does; the interpreter gives the GIL up at its     *)
(* switch interval and hands it to a thread that waits for it.             *)
FairSpec ==
    /\ Spec
    /\ \A t \in Threads : WF_vars(Run(t)) /\ WF_vars(Yield(t)) /\ SF_vars(Regain(t))

-----------------------------------------------------------------------------
(* Properties                                                              *)

(***************************************************************************)
(* Type invariant, with who holds what: the GIL is with the thread that    *)
(* runs Python, makes its lists, or is in a call that has not given it up; *)
(* each mutex is with the one thread that is past locking it.              *)
(***************************************************************************)
HasGil(t) == \/ pc[t] \in {"python", "convert"}
             \/ pc[t] \in InCall \ {"back"} /\ ~call[t].shape.freed

Locked(t) ==
    IF pc[t] \in {"read", "write", "gil", "convert", "unlock"}
    THEN {Object(t)} \cup (IF call[t].shape.managed THEN {Manager(t)} ELSE {})
    ELSE IF pc[t] = "manager" THEN {Object(t)} ELSE {}

Labels == InCall \cup {"out", "python"}

GilHeld == \A t \in PyThreads : gil = t <=> HasGil(t)

MutexesHeld == \A t \in Threads, o \in Objects : mutex[o] = t <=> o \in Locked(t)

TypeOK ==
    /\ GilHeld /\ MutexesHeld
    /\ gil \in PyThreads \cup {NoThread}
    /\ mutex \in [Objects -> Threads \cup {NoThread}]
    /\ poisoned \subseteq Objects
    /\ pc \in [Threads -> Labels]
    /\ call \in [Threads -> [object : Objects, shape : Shapes]]
    /\ seen \in [Threads -> Nat]
    /\ data \in [Objects -> Nat] /\ written \in [Objects -> Nat]
    /\ calls \in 0..MaxCalls
    /\ running \in {PyThreads, RustThreads}

(***************************************************************************)
(* No update is lost: between the read and the write of a method no other  *)
(* thread writes the object, whether the two hold the GIL or not and       *)
(* whether they come to a manager themselves or through a worktree store.  *)
(***************************************************************************)
NoLostUpdate ==
    /\ data = written
    /\ \A t \in Threads : pc[t] = "write" => seen[t] = data[Target(t)]

(***************************************************************************)
(* No embrace: a thread that waits for the GIL with a mutex in its hand is *)
(* never waited for by the thread that holds the GIL.  python.rs takes the *)
(* two locks in both orders, though never both orders for one object.      *)
(***************************************************************************)
NoEmbrace ==
    \A t, u \in Threads :
      pc[t] = "gil" /\ gil = u =>
        /\ pc[u] = "lock" => mutex[Object(u)] # t
        /\ pc[u] = "manager" => mutex[Manager(u)] # t

(***************************************************************************)
(* Every call ends: no thread is left waiting for a mutex or for the GIL,  *)
(* with panics between the others' steps.                                  *)
(***************************************************************************)
CallsReturn == \A t \in Threads : (pc[t] \in InCall) ~> (pc[t] \notin InCall)
=============================================================================

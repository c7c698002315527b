-------------------------- MODULE PythonCallsProofs --------------------------
(***************************************************************************)
(* Theorems about the locks of the Python bindings, for every number of    *)
(* threads and objects: who holds what is what the program counters say,   *)
(* no update is lost, and no two threads wait for each other.              *)
(***************************************************************************)
EXTENDS PythonCalls, TLAPS

(* What the shapes of the methods have in common: those that come back to  *)
(* the interpreter below a mutex have given its lock up before, and all    *)
(* methods of the objects that do so give it up.                           *)
Calling(t) ==
    LET o == Object(t)
        s == call[t].shape
    IN  /\ s.managed => o \in WorktreeStores
        /\ s.convert => t \in PyThreads /\ s.freed /\ o \in Agents \cup SqlStores
        /\ t \in PyThreads /\ o \in Agents \cup SqlStores => s.freed /\ ~s.managed

CallsFit ==
    \A t \in Threads :
      /\ pc[t] \in InCall => Calling(t)
      /\ pc[t] = "manager" => call[t].shape.managed
      /\ pc[t] \in {"gil", "convert"} => call[t].shape.convert
      /\ t \in RustThreads => pc[t] \notin {"python", "back"}

IInv == TypeOK /\ CallsFit /\ NoLostUpdate

-----------------------------------------------------------------------------
(* The methods Python calls                                                *)

LEMMA ShapeFields ==
    ASSUME NEW a \in BOOLEAN, NEW f \in BOOLEAN, NEW c \in BOOLEAN, NEW m \in BOOLEAN, NEW w \in BOOLEAN
    PROVE  /\ Shape(a, f, c, m, w) \in Shapes
           /\ Shape(a, f, c, m, w).freed <=> f
           /\ Shape(a, f, c, m, w).convert <=> c
           /\ Shape(a, f, c, m, w).managed <=> m
BY DEF Shape, Shapes

LEMMA ObjectsApart ==
    /\ Agents \cap (Trees \cup Stores \cup Managers \cup WorktreeStores \cup SharedStores) = {}
    /\ SqlStores \cap (Trees \cup Stores \cup Managers \cup WorktreeStores \cup SharedStores) = {}
    /\ WorktreeStores \cap (Trees \cup Stores \cup Managers \cup SharedStores) = {}
BY CallAssumptions DEF CallAssumptions

LEMMA PyShapesFit ==
    ASSUME NEW o \in Objects, NEW s \in PyShapes(o)
    PROVE  /\ s \in Shapes
           /\ s.managed => o \in WorktreeStores
           /\ s.convert => s.freed /\ o \in Agents \cup SqlStores
           /\ o \in Agents \cup SqlStores => s.freed /\ ~s.managed
<1>1. CASE s \in TreeShapes /\ o \in Trees
  BY <1>1, ShapeFields, ObjectsApart DEF TreeShapes
<1>2. CASE s \in AgentShapes /\ o \in Agents
  BY <1>2, ShapeFields, ObjectsApart DEF AgentShapes, AgentQuery, AgentStore
<1>3. CASE s \in StoreShapes /\ o \in Stores
  BY <1>3, ShapeFields, ObjectsApart
     DEF StoreShapes, StoreWrite, StoreRead, StoreProof
<1>4. CASE s \in ManagerShapes /\ o \in Managers
  <2>1. PICK w \in BOOLEAN : s = Shape(FALSE, FALSE, FALSE, FALSE, w)
    BY <1>4 DEF ManagerShapes
  <2> QED  BY <1>4, <2>1, ShapeFields, ObjectsApart
<1>5. CASE s \in WorktreeStoreShapes /\ o \in WorktreeStores
  BY <1>5, ObjectsApart DEF WorktreeStoreShapes
<1>6. CASE s \in SqlShapes /\ o \in SqlStores
  BY <1>6, ShapeFields, ObjectsApart DEF SqlShapes, SqlExecute
<1> QED  BY <1>1, <1>2, <1>3, <1>4, <1>5, <1>6 DEF PyShapes

LEMMA RustShapesFit ==
    ASSUME NEW o, NEW s \in RustShapes(o)
    PROVE  s \in Shapes /\ s.freed /\ ~s.convert /\ (s.managed => o \in WorktreeStores)
BY DEF RustShapes

LEMMA NoCallTyped == NoCall \in [object : Objects, shape : Shapes]
BY CallAssumptions, ShapeFields DEF CallAssumptions, NoCall

LEMMA InitIInv == Init => IInv
<1> SUFFICES ASSUME Init PROVE IInv
  OBVIOUS
<1>1. TypeOK
  BY NoCallTyped, CallAssumptions DEF CallAssumptions, Init, TypeOK, GilHeld, MutexesHeld, HasGil, Locked, Labels, InCall, Threads
<1>2. CallsFit /\ NoLostUpdate
  BY DEF Init, CallsFit, NoLostUpdate, InCall
<1> QED  BY <1>1, <1>2 DEF IInv


-----------------------------------------------------------------------------
(* One step                                                                *)

LEMMA TakeKeeps ==
    ASSUME IInv, NEW t \in Threads, Take(t)
    PROVE  IInv'
<1> USE CallAssumptions DEF CallAssumptions, IInv, Take, Goto
<1>1. GilHeld'
  BY DEF TypeOK, CallsFit, Calling, GilHeld, HasGil, InCall, Labels, Threads, Object
<1>2. MutexesHeld'
  BY DEF TypeOK, CallsFit, Calling, MutexesHeld, Locked, InCall, Object, Manager, Threads, Objects
<1>3. TypeOK'
  BY <1>1, <1>2 DEF TypeOK, CallsFit, Calling, Labels, InCall, Object, Manager, Threads, Objects
<1>4. CallsFit'
  BY DEF TypeOK, CallsFit, Calling, Object, InCall, Threads
<1>5. NoLostUpdate'
  BY DEF TypeOK, CallsFit, Calling, NoLostUpdate, InCall, Target, Object, Manager, Threads, Objects
<1> QED  BY <1>3, <1>4, <1>5 DEF IInv

LEMMA YieldKeeps ==
    ASSUME IInv, NEW t \in Threads, Yield(t)
    PROVE  IInv'
<1> USE CallAssumptions DEF CallAssumptions, IInv, Yield, Goto
<1>1. GilHeld'
  BY DEF TypeOK, CallsFit, Calling, GilHeld, HasGil, InCall, Labels, Threads, Object
<1>2. MutexesHeld'
  BY DEF TypeOK, CallsFit, Calling, MutexesHeld, Locked, InCall, Object, Manager, Threads, Objects
<1>3. TypeOK'
  BY <1>1, <1>2 DEF TypeOK, CallsFit, Calling, Labels, InCall, Object, Manager, Threads, Objects
<1>4. CallsFit'
  BY DEF TypeOK, CallsFit, Calling, Object, InCall, Threads
<1>5. NoLostUpdate'
  BY DEF TypeOK, CallsFit, Calling, NoLostUpdate, InCall, Target, Object, Manager, Threads, Objects
<1> QED  BY <1>3, <1>4, <1>5 DEF IInv

LEMMA CallPythonKeeps ==
    ASSUME IInv, NEW t \in Threads, NEW o \in Objects, NEW shape \in PyShapes(o),
           CallPython(t, o, shape)
    PROVE  IInv'
<1> USE CallAssumptions, PyShapesFit DEF CallAssumptions, IInv, CallPython, Goto, Begin
<1>1. GilHeld'
  BY DEF TypeOK, CallsFit, Calling, GilHeld, HasGil, InCall, Labels, Threads, Object
<1>2. MutexesHeld'
  BY DEF TypeOK, CallsFit, Calling, MutexesHeld, Locked, InCall, Object, Manager, Threads, Objects
<1>3. TypeOK'
  BY <1>1, <1>2 DEF TypeOK, CallsFit, Calling, Labels, InCall, Object, Manager, Threads, Objects
<1>4. CallsFit'
  BY DEF TypeOK, CallsFit, Calling, Object, InCall, Threads
<1>5. NoLostUpdate'
  BY DEF TypeOK, CallsFit, Calling, NoLostUpdate, InCall, Target, Object, Manager, Threads, Objects
<1> QED  BY <1>3, <1>4, <1>5 DEF IInv

LEMMA CallRefusedKeeps ==
    ASSUME IInv, NEW t \in Threads, NEW o, NEW shape,
           CallRefused(t, o, shape)
    PROVE  IInv'
<1> USE CallAssumptions DEF CallAssumptions, IInv, CallRefused, Goto
<1>1. GilHeld'
  BY DEF TypeOK, CallsFit, Calling, GilHeld, HasGil, InCall, Labels, Threads, Object
<1>2. MutexesHeld'
  BY DEF TypeOK, CallsFit, Calling, MutexesHeld, Locked, InCall, Object, Manager, Threads, Objects
<1>3. TypeOK'
  BY <1>1, <1>2 DEF TypeOK, CallsFit, Calling, Labels, InCall, Object, Manager, Threads, Objects
<1>4. CallsFit'
  BY DEF TypeOK, CallsFit, Calling, Object, InCall, Threads
<1>5. NoLostUpdate'
  BY DEF TypeOK, CallsFit, Calling, NoLostUpdate, InCall, Target, Object, Manager, Threads, Objects
<1> QED  BY <1>3, <1>4, <1>5 DEF IInv

LEMMA CallRustKeeps ==
    ASSUME IInv, NEW t \in Threads, NEW o \in RustObjects, NEW shape \in RustShapes(o),
           CallRust(t, o, shape)
    PROVE  IInv'
<1> USE CallAssumptions, RustShapesFit DEF CallAssumptions, IInv, CallRust, Goto, Begin
<1>1. GilHeld'
  BY DEF TypeOK, CallsFit, Calling, GilHeld, HasGil, InCall, Labels, Threads, Object
<1>2. MutexesHeld'
  BY DEF TypeOK, CallsFit, Calling, MutexesHeld, Locked, InCall, Object, Manager, Threads, Objects
<1>3. TypeOK'
  BY <1>1, <1>2 DEF TypeOK, CallsFit, Calling, Labels, InCall, Object, Manager, Threads, Objects
<1>4. CallsFit'
  BY DEF TypeOK, CallsFit, Calling, Object, InCall, Threads
<1>5. NoLostUpdate'
  BY DEF TypeOK, CallsFit, Calling, NoLostUpdate, InCall, Target, Object, Manager, Threads, Objects
<1> QED  BY <1>3, <1>4, <1>5 DEF IInv

LEMMA LockKeeps ==
    ASSUME IInv, NEW t \in Threads, Lock(t)
    PROVE  IInv'
<1> USE CallAssumptions DEF CallAssumptions, IInv, Lock, Goto
<1>1. GilHeld'
  BY DEF TypeOK, CallsFit, Calling, GilHeld, HasGil, InCall, Labels, Threads, Object
<1>2. MutexesHeld'
  BY DEF TypeOK, CallsFit, Calling, MutexesHeld, Locked, InCall, Object, Manager, Threads, Objects
<1>3. TypeOK'
  BY <1>1, <1>2 DEF TypeOK, CallsFit, Calling, Labels, InCall, Object, Manager, Threads, Objects
<1>4. CallsFit'
  BY DEF TypeOK, CallsFit, Calling, Object, InCall, Threads
<1>5. NoLostUpdate'
  BY DEF TypeOK, CallsFit, Calling, NoLostUpdate, InCall, Target, Object, Manager, Threads, Objects
<1> QED  BY <1>3, <1>4, <1>5 DEF IInv

LEMMA LockPoisonedKeeps ==
    ASSUME IInv, NEW t \in Threads, LockPoisoned(t)
    PROVE  IInv'
<1> USE CallAssumptions, NoCallTyped DEF CallAssumptions, IInv, LockPoisoned, Goto, Leave, AfterUnlock
<1>1. GilHeld'
  BY DEF TypeOK, CallsFit, Calling, GilHeld, HasGil, InCall, Labels, Threads, Object
<1>2. MutexesHeld'
  BY DEF TypeOK, CallsFit, Calling, MutexesHeld, Locked, InCall, Object, Manager, Threads, Objects
<1>3. TypeOK'
  BY <1>1, <1>2 DEF TypeOK, CallsFit, Calling, Labels, InCall, Object, Manager, Threads, Objects
<1>4. CallsFit'
  BY DEF TypeOK, CallsFit, Calling, Object, InCall, Threads
<1>5. NoLostUpdate'
  BY DEF TypeOK, CallsFit, Calling, NoLostUpdate, InCall, Target, Object, Manager, Threads, Objects
<1> QED  BY <1>3, <1>4, <1>5 DEF IInv

LEMMA LockManagerKeeps ==
    ASSUME IInv, NEW t \in Threads, LockManager(t)
    PROVE  IInv'
<1> USE CallAssumptions DEF CallAssumptions, IInv, LockManager, Goto
<1>1. GilHeld'
  BY DEF TypeOK, CallsFit, Calling, GilHeld, HasGil, InCall, Labels, Threads, Object
<1>2. MutexesHeld'
  BY DEF TypeOK, CallsFit, Calling, MutexesHeld, Locked, InCall, Object, Manager, Threads, Objects
<1>3. TypeOK'
  BY <1>1, <1>2 DEF TypeOK, CallsFit, Calling, Labels, InCall, Object, Manager, Threads, Objects
<1>4. CallsFit'
  BY DEF TypeOK, CallsFit, Calling, Object, InCall, Threads
<1>5. NoLostUpdate'
  BY DEF TypeOK, CallsFit, Calling, NoLostUpdate, InCall, Target, Object, Manager, Threads, Objects
<1> QED  BY <1>3, <1>4, <1>5 DEF IInv

LEMMA LockManagerPoisonedKeeps ==
    ASSUME IInv, NEW t \in Threads, LockManagerPoisoned(t)
    PROVE  IInv'
<1> USE CallAssumptions, NoCallTyped DEF CallAssumptions, IInv, LockManagerPoisoned, Goto, Unwind, Held, Released, Leave, AfterUnlock
<1>1. GilHeld'
  BY DEF TypeOK, CallsFit, Calling, GilHeld, HasGil, InCall, Labels, Threads, Object
<1>2. MutexesHeld'
  BY DEF TypeOK, CallsFit, Calling, MutexesHeld, Locked, InCall, Object, Manager, Threads, Objects
<1>3. TypeOK'
  BY <1>1, <1>2 DEF TypeOK, CallsFit, Calling, Labels, InCall, Object, Manager, Threads, Objects
<1>4. CallsFit'
  BY DEF TypeOK, CallsFit, Calling, Object, InCall, Threads
<1>5. NoLostUpdate'
  BY DEF TypeOK, CallsFit, Calling, NoLostUpdate, InCall, Target, Object, Manager, Threads, Objects
<1> QED  BY <1>3, <1>4, <1>5 DEF IInv

LEMMA PanicKeeps ==
    ASSUME IInv, NEW t \in Threads, Panic(t)
    PROVE  IInv'
<1> USE CallAssumptions, NoCallTyped DEF CallAssumptions, IInv, Panic, Goto, Unwind, Held, Released, Leave, AfterUnlock
<1>1. GilHeld'
  BY DEF TypeOK, CallsFit, Calling, GilHeld, HasGil, InCall, Labels, Threads, Object
<1>2. MutexesHeld'
  BY DEF TypeOK, CallsFit, Calling, MutexesHeld, Locked, InCall, Object, Manager, Threads, Objects
<1>3. TypeOK'
  BY <1>1, <1>2 DEF TypeOK, CallsFit, Calling, Labels, InCall, Object, Manager, Threads, Objects
<1>4. CallsFit'
  BY DEF TypeOK, CallsFit, Calling, Object, InCall, Threads
<1>5. NoLostUpdate'
  BY DEF TypeOK, CallsFit, Calling, NoLostUpdate, InCall, Target, Object, Manager, Threads, Objects
<1> QED  BY <1>3, <1>4, <1>5 DEF IInv

LEMMA ReadKeeps ==
    ASSUME IInv, NEW t \in Threads, Read(t)
    PROVE  IInv'
<1> USE CallAssumptions DEF CallAssumptions, IInv, Read, Goto
<1>0. Target(t) \in Objects /\ mutex[Target(t)] = t
  BY DEF TypeOK, MutexesHeld, Locked, CallsFit, Calling, Target, InCall, Object, Manager, Objects
<1>1. GilHeld'
  BY DEF TypeOK, CallsFit, Calling, GilHeld, HasGil, InCall, Labels, Threads, Object
<1>2. MutexesHeld'
  BY DEF TypeOK, CallsFit, Calling, MutexesHeld, Locked, InCall, Object, Manager, Threads, Objects
<1>3. TypeOK'
  BY <1>0, <1>1, <1>2 DEF TypeOK, CallsFit, Calling, Labels, InCall, Object, Manager, Threads, Objects
<1>4. CallsFit'
  BY DEF TypeOK, CallsFit, Calling, Object, InCall, Threads
<1>5. NoLostUpdate'
  BY <1>0 DEF TypeOK, CallsFit, Calling, NoLostUpdate, InCall, Target, Object, Manager, Threads, Objects
<1> QED  BY <1>3, <1>4, <1>5 DEF IInv

LEMMA WriteKeeps ==
    ASSUME IInv, NEW t \in Threads, Write(t)
    PROVE  IInv'
<1> USE CallAssumptions DEF CallAssumptions, IInv, Write, Goto
<1>0. Target(t) \in Objects /\ mutex[Target(t)] = t
  BY DEF TypeOK, MutexesHeld, Locked, CallsFit, Calling, Target, InCall, Object, Manager, Objects
<1>1. GilHeld'
  BY DEF TypeOK, CallsFit, Calling, GilHeld, HasGil, InCall, Labels, Threads, Object
<1>2. MutexesHeld'
  BY DEF TypeOK, CallsFit, Calling, MutexesHeld, Locked, InCall, Object, Manager, Threads, Objects
<1>3. TypeOK'
  BY <1>0, <1>1, <1>2 DEF TypeOK, CallsFit, Calling, Labels, InCall, Object, Manager, Threads, Objects
<1>4. CallsFit'
  BY DEF TypeOK, CallsFit, Calling, Object, InCall, Threads
<1>5. ASSUME NEW u \in Threads \ {t}, pc[u] = "write"
      PROVE  Target(u) \in Objects /\ Target(u) # Target(t)
  <2>1. Target(u) \in Objects /\ mutex[Target(u)] = u
    BY <1>5 DEF TypeOK, MutexesHeld, Locked, CallsFit, Calling, Target, InCall, Object, Manager, Objects
  <2> QED  BY <1>5, <2>1, <1>0
<1>6. data' = written'
  BY <1>0 DEF TypeOK, NoLostUpdate, Target, Object, Manager
<1>7. ASSUME NEW u \in Threads, pc'[u] = "write"
      PROVE  seen'[u] = data'[Target(u)']
  <2>1. u # t /\ pc[u] = "write" /\ Target(u)' = Target(u) /\ seen'[u] = seen[u]
    BY <1>7 DEF TypeOK, Target, Object, Manager
  <2>2. data'[Target(u)] = data[Target(u)]
    BY <1>7, <2>1, <1>5, <1>0 DEF TypeOK
  <2> QED  BY <1>7, <2>1, <2>2 DEF NoLostUpdate
<1>8. NoLostUpdate'
  BY <1>6, <1>7 DEF NoLostUpdate
<1> QED  BY <1>3, <1>4, <1>8 DEF IInv

LEMMA WithGilKeeps ==
    ASSUME IInv, NEW t \in Threads, WithGil(t)
    PROVE  IInv'
<1> USE CallAssumptions DEF CallAssumptions, IInv, WithGil, Goto
<1>1. GilHeld'
  BY DEF TypeOK, CallsFit, Calling, GilHeld, HasGil, InCall, Labels, Threads, Object
<1>2. MutexesHeld'
  BY DEF TypeOK, CallsFit, Calling, MutexesHeld, Locked, InCall, Object, Manager, Threads, Objects
<1>3. TypeOK'
  BY <1>1, <1>2 DEF TypeOK, CallsFit, Calling, Labels, InCall, Object, Manager, Threads, Objects
<1>4. CallsFit'
  BY DEF TypeOK, CallsFit, Calling, Object, InCall, Threads
<1>5. NoLostUpdate'
  BY DEF TypeOK, CallsFit, Calling, NoLostUpdate, InCall, Target, Object, Manager, Threads, Objects
<1> QED  BY <1>3, <1>4, <1>5 DEF IInv

LEMMA ConvertKeeps ==
    ASSUME IInv, NEW t \in Threads, Convert(t)
    PROVE  IInv'
<1> USE CallAssumptions DEF CallAssumptions, IInv, Convert, Goto
<1>1. GilHeld'
  BY DEF TypeOK, CallsFit, Calling, GilHeld, HasGil, InCall, Labels, Threads, Object
<1>2. MutexesHeld'
  BY DEF TypeOK, CallsFit, Calling, MutexesHeld, Locked, InCall, Object, Manager, Threads, Objects
<1>3. TypeOK'
  BY <1>1, <1>2 DEF TypeOK, CallsFit, Calling, Labels, InCall, Object, Manager, Threads, Objects
<1>4. CallsFit'
  BY DEF TypeOK, CallsFit, Calling, Object, InCall, Threads
<1>5. NoLostUpdate'
  BY DEF TypeOK, CallsFit, Calling, NoLostUpdate, InCall, Target, Object, Manager, Threads, Objects
<1> QED  BY <1>3, <1>4, <1>5 DEF IInv

LEMMA UnlockKeeps ==
    ASSUME IInv, NEW t \in Threads, Unlock(t)
    PROVE  IInv'
<1> USE CallAssumptions, NoCallTyped DEF CallAssumptions, IInv, Unlock, Goto, Released, Leave, AfterUnlock
<1>1. GilHeld'
  BY DEF TypeOK, CallsFit, Calling, GilHeld, HasGil, InCall, Labels, Threads, Object
<1>2. MutexesHeld'
  BY DEF TypeOK, CallsFit, Calling, MutexesHeld, Locked, InCall, Object, Manager, Threads, Objects
<1>3. TypeOK'
  BY <1>1, <1>2 DEF TypeOK, CallsFit, Calling, Labels, InCall, Object, Manager, Threads, Objects
<1>4. CallsFit'
  BY DEF TypeOK, CallsFit, Calling, Object, InCall, Threads
<1>5. NoLostUpdate'
  BY DEF TypeOK, CallsFit, Calling, NoLostUpdate, InCall, Target, Object, Manager, Threads, Objects
<1> QED  BY <1>3, <1>4, <1>5 DEF IInv

LEMMA BackKeeps ==
    ASSUME IInv, NEW t \in Threads, Back(t)
    PROVE  IInv'
<1> USE CallAssumptions, NoCallTyped DEF CallAssumptions, IInv, Back, Goto
<1>1. GilHeld'
  BY DEF TypeOK, CallsFit, Calling, GilHeld, HasGil, InCall, Labels, Threads, Object
<1>2. MutexesHeld'
  BY DEF TypeOK, CallsFit, Calling, MutexesHeld, Locked, InCall, Object, Manager, Threads, Objects
<1>3. TypeOK'
  BY <1>1, <1>2 DEF TypeOK, CallsFit, Calling, Labels, InCall, Object, Manager, Threads, Objects
<1>4. CallsFit'
  BY DEF TypeOK, CallsFit, Calling, Object, InCall, Threads
<1>5. NoLostUpdate'
  BY DEF TypeOK, CallsFit, Calling, NoLostUpdate, InCall, Target, Object, Manager, Threads, Objects
<1> QED  BY <1>3, <1>4, <1>5 DEF IInv

LEMMA NextKeeps == IInv /\ [Next]_vars => IInv'
<1> SUFFICES ASSUME IInv, [Next]_vars PROVE IInv'
  OBVIOUS
<1>1. CASE UNCHANGED vars
  BY <1>1 DEF vars, IInv, TypeOK, GilHeld, HasGil, MutexesHeld, Locked, CallsFit, Calling,
              NoLostUpdate, Object, Manager, Target
<1>2. ASSUME NEW t \in Threads, CallAny(t) PROVE IInv'
  BY <1>2, CallPythonKeeps, CallRefusedKeeps, CallRustKeeps DEF CallAny, Objects
<1>3. ASSUME NEW t \in Threads, Run(t) PROVE IInv'
  BY <1>3, LockKeeps, LockPoisonedKeeps, LockManagerKeeps, LockManagerPoisonedKeeps,
     ReadKeeps, WriteKeeps, ConvertKeeps, UnlockKeeps DEF Run
<1>4. ASSUME NEW t \in Threads, Regain(t) PROVE IInv'
  BY <1>4, WithGilKeeps, BackKeeps DEF Regain
<1> QED  BY <1>1, <1>2, <1>3, <1>4, TakeKeeps, YieldKeeps, PanicKeeps DEF Next

LEMMA Invariant == Spec => []IInv
<1> QED  BY InitIInv, NextKeeps, PTL DEF Spec

-----------------------------------------------------------------------------
(* Type correctness: the interpreter's lock and every mutex are with the   *)
(* thread whose program counter says so, through panics too.               *)
THEOREM LocksAreHeld == Spec => []TypeOK
<1>1. IInv => TypeOK
  BY DEF IInv
<1> QED  BY <1>1, Invariant, PTL

(* The methods of python.rs and of ThreadSafeVersionedKvStore lose no      *)
(* update, however many threads call them.                                 *)
THEOREM UpdatesStay == Spec => []NoLostUpdate
<1>1. IInv => NoLostUpdate
  BY DEF IInv
<1> QED  BY <1>1, Invariant, PTL

(* A thread that waits for the interpreter's lock below a mutex calls an   *)
(* agent memory or a SQL store, of which no method keeps that lock; these  *)
(* are no managers either.                                                 *)
LEMMA NoEmbraceHolds == IInv => NoEmbrace
<1> SUFFICES ASSUME IInv, NEW t \in Threads, NEW u \in Threads, pc[t] = "gil", gil = u
             PROVE  /\ pc[u] = "lock" => mutex[Object(u)] # t
                    /\ pc[u] = "manager" => mutex[Manager(u)] # t
  BY DEF NoEmbrace
<1>1. /\ Object(t) \in Agents \cup SqlStores
      /\ Locked(t) = {Object(t)}
  BY DEF IInv, CallsFit, Calling, InCall, Locked
<1>2. ASSUME NEW o \in Objects, mutex[o] = t PROVE o \in Agents \cup SqlStores
  BY <1>1, <1>2 DEF IInv, TypeOK, MutexesHeld
<1>3. CASE pc[u] = "lock"
  <2>1. u \in PyThreads /\ ~call[u].shape.freed
    BY <1>3, CallAssumptions DEF CallAssumptions, IInv, TypeOK, GilHeld, HasGil, InCall
  <2>2. Object(u) \in Objects \ (Agents \cup SqlStores)
    BY <1>3, <2>1 DEF IInv, TypeOK, CallsFit, Calling, InCall, Object
  <2> QED  BY <1>2, <1>3, <2>2
<1>4. CASE pc[u] = "manager"
  <2>1. Object(u) \in WorktreeStores
    BY <1>4 DEF IInv, CallsFit, Calling, InCall
  <2>2. Manager(u) \in Managers
    BY <2>1, CallAssumptions DEF CallAssumptions, Manager
  <2>3. Manager(u) \in Objects \ (Agents \cup SqlStores)
    BY <2>2, CallAssumptions DEF CallAssumptions, Objects
  <2> QED  BY <1>2, <1>4, <2>3
<1> QED  BY <1>3, <1>4

(* No two threads wait for each other's lock, for any objects and methods  *)
(* of the kinds that python.rs has.                                        *)
THEOREM NobodyEmbraces == Spec => []NoEmbrace
<1> QED  BY Invariant, NoEmbraceHolds, PTL
=============================================================================

-------------------------- MODULE KeyHandleProofs --------------------------
(***************************************************************************)
(* No key is used after its destruction and no device memory is lost, for  *)
(* any number of threads, keys, devices and failures; every thread gets    *)
(* its device back.                                                        *)
(***************************************************************************)
EXTENDS KeyHandle, TLAPS

Inside(t, o) == pc[t] # "idle" /\ on[t] = o

NothingOwned(o) == \A m \in mem : m[1] # o

-----------------------------------------------------------------------------
(* Types and devices, whatever callers do.                                 *)

\* Before a KeyHandle exists nothing is owned, and nobody but the thread of
\* its constructor is inside the object.
Created ==
  /\ \A o \in Objects : heap[o] = "none" => ~ handle[o] /\ NothingOwned(o)
  /\ \A t \in Threads :
       pc[t] # "idle" /\ heap[on[t]] = "none"
         => method[t] = "init" /\ pc[t] \in {"guard", "new", "restore"}

\* Between the constructor and the destructor of its DeviceGuard a thread is
\* on the key's device and the guard remembers its own.
Guarded(t) == pc[t] \notin {"idle", "guard", "forget"}

Devoted ==
  \A t \in Threads :
    IF Guarded(t)
    THEN /\ old[t] = home[t]
         /\ device[on[t]] \in Present => current[t] = device[on[t]]
    ELSE current[t] = home[t]

DeviceInv == TypeOK /\ Created /\ Devoted /\ OnItsDevice

LEMMA InitDeviceInv == Init => DeviceInv
BY KeyHandleAssumption
   DEF Init, DeviceInv, TypeOK, Created, Devoted, OnItsDevice, NothingOwned, Guarded

LEMMA TypeStep ==
  ASSUME TypeOK, NEW t \in Threads, Library(t) \/ Client(t)
  PROVE  TypeOK'
<1> USE KeyHandleAssumption DEF TypeOK
<1>1. CASE Guard(t)
  <2>1. first_step[method[t]] \in {"new", "grow", "free"}
    BY DEF first_step
  <2> QED BY <1>1, <2>1 DEF Guard, cudaSetDevice, Goto
<1>2. CASE New(t)
  BY <1>2 DEF New, Goto, Fault
<1>3. CASE Fails(t)
  BY <1>3 DEF Fails, Goto, Fault
<1>4. CASE Succeeds(t)
  BY <1>4 DEF Succeeds, Goto
<1>5. CASE Allocates(t)
  BY <1>5 DEF Allocates, cudaMalloc, Goto, Fields
<1>6. CASE Out(t)
  BY <1>6 DEF Out, Goto
<1>7. CASE Grow(t)
  BY <1>7 DEF Grow, Goto, Fault, Fields
<1>8. CASE Free(t)
  BY <1>8 DEF Free, Goto, owned
<1>9. CASE Restore(t)
  <2> DEFINE label == IF method[t] \in {"close", "del"} THEN "forget" ELSE "idle"
             fails == method[t] = "init" /\ ~ handle[on[t]]
  <2>1. /\ current' \in [Threads -> Present]
        /\ pc' = [pc EXCEPT ![t] = label] /\ label \in {"idle", "forget"}
        /\ refs' = [refs EXCEPT ![on[t]] = IF fails THEN {} ELSE refs[on[t]]]
        /\ refs' \in [Objects -> SUBSET Threads]
        /\ UNCHANGED <<method, on, old, home, device, handle, heap, mem, faults>>
    BY <1>9 DEF Restore, Goto, cudaSetDevice
  <2>2. ASSUME NEW u \in Threads, pc'[u] # "idle", method'[u] = "init"
        PROVE  refs'[on'[u]] = {u}
    <3>1. u # t /\ pc[u] # "idle" /\ refs[on[u]] = {u}
      BY <1>9, <2>1, <2>2 DEF Restore
    <3>2. fails => on[u] # on[t]
      BY <1>9, <3>1 DEF Restore
    <3> QED BY <2>1, <3>1, <3>2
  <2> HIDE DEF label
  <2> QED BY <2>1, <2>2
<1>10. CASE Forget(t)
  BY <1>10 DEF Forget, Goto
<1>11. ASSUME NEW o \in Objects, NEW d \in Devices, Construct(t, o, d)
       PROVE  TypeOK'
  BY <1>11 DEF Construct, Enter, Goto
<1>12. ASSUME NEW o \in Objects, Call(t, o) \/ Close(t, o)
       PROVE  TypeOK'
  BY <1>12 DEF Call, Close, Admitted, Enter, Goto
<1>13. ASSUME NEW o \in Objects, Drop(t, o)
       PROVE  TypeOK'
  BY <1>13 DEF Drop, Enter, Goto
<1>14. ASSUME NEW o \in Objects, NEW u \in Threads \ refs[o], Share(t, u, o)
       PROVE  TypeOK'
  BY <1>14 DEF Share
<1>15. ASSUME NEW d \in Present \ {current[t]}, SetDevice(t, d)
       PROVE  TypeOK'
  BY <1>15 DEF SetDevice, cudaSetDevice
<1> QED BY <1>1, <1>2, <1>3, <1>4, <1>5, <1>6, <1>7, <1>8, <1>9, <1>10, <1>11,
           <1>12, <1>13, <1>14, <1>15 DEF Library, Client

\* The step that the guard of a method is followed by.
LEMMA FirstStep ==
  ASSUME NEW m \in {"init", "call", "close", "del"}
  PROVE  /\ m = "init" => first_step[m] = "new"
         /\ m = "call" => first_step[m] = "grow"
         /\ m \in {"close", "del"} => first_step[m] = "free"
BY DEF first_step

LEMMA DeviceStep ==
  ASSUME DeviceInv, NEW t \in Threads, Library(t) \/ Client(t)
  PROVE  DeviceInv'
<1> USE KeyHandleAssumption DEF DeviceInv, TypeOK, Created, Devoted, OnItsDevice, NothingOwned, Guarded
<1>0. TypeOK'
  BY TypeStep
<1> SUFFICES Created' /\ Devoted' /\ OnItsDevice'
  BY <1>0
<1>1. CASE Guard(t)
  BY <1>1, FirstStep DEF Guard, cudaSetDevice, Goto
<1>2. CASE New(t)
  BY <1>2 DEF New, Goto, Fault
<1>3. CASE Fails(t)
  BY <1>3 DEF Fails, Goto, Fault
<1>4. CASE Succeeds(t)
  BY <1>4 DEF Succeeds, Goto
<1>5. CASE Allocates(t)
  BY <1>5 DEF Allocates, cudaMalloc, Goto, Fields
<1>6. CASE Out(t)
  BY <1>6 DEF Out, Goto
<1>7. CASE Grow(t)
  BY <1>7 DEF Grow, Goto, Fault, Fields
<1>8. CASE Free(t)
  BY <1>8 DEF Free, Goto, owned
<1>9. CASE Restore(t)
  BY <1>9 DEF Restore, Goto, cudaSetDevice
<1>10. CASE Forget(t)
  BY <1>10 DEF Forget, Goto
<1>11. ASSUME NEW o \in Objects, NEW d \in Devices, Construct(t, o, d)
       PROVE  Created' /\ Devoted' /\ OnItsDevice'
  <2>1. ASSUME NEW u \in Threads, pc[u] # "idle" PROVE on[u] # o
    <3>1. heap[o] = "none" /\ refs[o] = {}
      BY <1>11 DEF Construct
    <3> SUFFICES ASSUME on[u] = o PROVE FALSE
      OBVIOUS
    <3>2. method[u] = "init"
      BY <2>1, <3>1
    <3> QED BY <2>1, <3>1, <3>2
  <2>2. \A m \in mem : m[1] # o
    BY <1>11 DEF Construct
  <2>3. Created'
    BY <1>11, <2>1 DEF Construct, Enter, Goto
  <2>4. Devoted'
    <3> SUFFICES ASSUME NEW u \in Threads
                 PROVE  (IF Guarded(u)
                         THEN /\ old[u] = home[u]
                              /\ device[on[u]] \in Present => current[u] = device[on[u]]
                         ELSE current[u] = home[u])'
      BY DEF Devoted
    <3>1. CASE u = t
      BY <1>11, <3>1 DEF Construct, Enter, Goto
    <3>2. CASE u # t
      BY <1>11, <2>1, <3>2 DEF Construct, Enter, Goto
    <3> QED BY <3>1, <3>2
  <2>5. OnItsDevice'
    BY <1>11, <2>2 DEF Construct
  <2> QED BY <2>3, <2>4, <2>5
<1>12. ASSUME NEW o \in Objects, Call(t, o) \/ Close(t, o)
       PROVE  Created' /\ Devoted' /\ OnItsDevice'
  BY <1>12 DEF Call, Close, Admitted, Enter, Goto
<1>13. ASSUME NEW o \in Objects, Drop(t, o)
       PROVE  Created' /\ Devoted' /\ OnItsDevice'
  BY <1>13 DEF Drop, Enter, Goto
<1>14. ASSUME NEW o \in Objects, NEW u \in Threads \ refs[o], Share(t, u, o)
       PROVE  Created' /\ Devoted' /\ OnItsDevice'
  BY <1>14 DEF Share
<1>15. ASSUME NEW d \in Present \ {current[t]}, SetDevice(t, d)
       PROVE  Created' /\ Devoted' /\ OnItsDevice'
  BY <1>15 DEF SetDevice, cudaSetDevice
<1> QED BY <1>1, <1>2, <1>3, <1>4, <1>5, <1>6, <1>7, <1>8, <1>9, <1>10, <1>11,
           <1>12, <1>13, <1>14, <1>15 DEF Library, Client

\* Types, devices and what exists before a KeyHandle does, without any rule
\* that callers keep.
THEOREM DeviceInvariance == Spec => []DeviceInv
<1>1. DeviceInv /\ [Next]_vars => DeviceInv'
  <2> SUFFICES ASSUME DeviceInv, [Next]_vars PROVE DeviceInv'
    OBVIOUS
  <2>1. CASE UNCHANGED vars
    BY <2>1 DEF vars, DeviceInv, TypeOK, Created, Devoted, OnItsDevice,
                NothingOwned, Guarded
  <2>2. CASE Next
    BY <2>2, DeviceStep DEF Next
  <2> QED BY <2>1, <2>2
<1> QED BY <1>1, InitDeviceInv, PTL DEF Spec

\* The variables keep their types, and only its own thread knows an object
\* whose constructor has not returned.
THEOREM TypeCorrect == Spec => []TypeOK
<1>1. DeviceInv => TypeOK
  BY DEF DeviceInv
<1> QED BY <1>1, DeviceInvariance, PTL

\* Whatever callers do and whatever fails, a thread outside the library is on
\* its own device.
THEOREM DevicesRestored == Spec => []DeviceRestored
<1>1. DeviceInv => DeviceRestored
  BY DEF DeviceInv, Devoted, Guarded, DeviceRestored
<1> QED BY <1>1, DeviceInvariance, PTL

\* Whatever callers do, and on however many devices, a key's memory is on the
\* device it was made for.
THEOREM MemoryOnDevice == Spec => []OnItsDevice
<1>1. DeviceInv => OnItsDevice
  BY DEF DeviceInv
<1> QED BY <1>1, DeviceInvariance, PTL

-----------------------------------------------------------------------------
(* The lives of objects, for callers that let one thread at a time in.     *)

OwnedOnly(o, fields) == \A m \in mem : m[1] = o => m[2] \in fields

\* An object no thread is inside of.
AtRest(o) ==
  IF handle[o] THEN heap[o] = "live" /\ refs[o] # {}
  ELSE heap[o] # "live" /\ NothingOwned(o)

\* A constructor in progress: what it has acquired at each step.
Constructing(t, o) ==
  /\ refs[o] = {t}
  /\ pc[t] \in {"guard", "new", "symbol", "round_keys", "h_pow2", "copy",
                "sync", "out", "restore"}
  /\ handle[o] => pc[t] = "restore" /\ heap[o] = "live"
  /\ ~ handle[o] =>
       /\ pc[t] \in {"symbol", "round_keys", "h_pow2", "copy", "sync", "out"}
            <=> heap[o] = "live"
       /\ pc[t] \in {"guard", "new"} => heap[o] = "none"
       /\ pc[t] \in {"guard", "new", "symbol", "round_keys", "restore"}
            => NothingOwned(o)
       /\ pc[t] = "h_pow2" => OwnedOnly(o, {"d_round_keys"})
       /\ OwnedOnly(o, {"d_round_keys", "d_h_pow2"})

Calling(t, o) ==
  /\ t \in refs[o]
  /\ pc[t] \in {"guard", "grow", "restore"}
  /\ handle[o] /\ heap[o] = "live"

\* close and __del__: the handle is still set after the native call.
Destroying(t, o) ==
  /\ pc[t] \in {"guard", "free", "restore", "forget"}
  /\ handle[o]
  /\ IF pc[t] \in {"guard", "free"} THEN heap[o] = "live"
     ELSE heap[o] = "deleted" /\ NothingOwned(o)

Visiting(t, o) ==
  CASE method[t] = "init"  -> Constructing(t, o)
    [] method[t] = "call"  -> Calling(t, o)
    [] method[t] = "close" -> Destroying(t, o) /\ t \in refs[o]
    [] method[t] = "del"   -> Destroying(t, o) /\ refs[o] = {}

\* At most one thread is inside an object.
Exclusive ==
  \A t, u \in Threads : \A o \in Objects : Inside(t, o) /\ Inside(u, o) => t = u

Lives ==
  \A o \in Objects :
    /\ (\A t \in Threads : ~ Inside(t, o)) => AtRest(o)
    /\ \A t \in Threads : Inside(t, o) => Visiting(t, o)

LifeInv == TypeOK /\ Exclusive /\ Lives

LEMMA InitLifeInv == Init => LifeInv
<1>1. Init => TypeOK
  BY InitDeviceInv DEF DeviceInv
<1> QED BY <1>1 DEF Init, LifeInv, Exclusive, Lives, Inside, AtRest, NothingOwned

\* A step of t inside o: t stays inside or leaves, and what is not of o stays.
LEMMA LibraryLocal ==
  ASSUME TypeOK, NEW t \in Threads, Library(t)
  PROVE  /\ pc[t] # "idle"
         /\ \A u \in Threads \ {t} : pc'[u] = pc[u]
         /\ UNCHANGED <<method, on>>
         /\ \A o \in Objects \ {on[t]} :
              /\ refs'[o] = refs[o] /\ handle'[o] = handle[o] /\ heap'[o] = heap[o]
              /\ \A m : m[1] = o => (m \in mem' <=> m \in mem)
<1> USE DEF TypeOK, Goto
<1>1. CASE Guard(t)
  BY <1>1, FirstStep DEF Guard
<1>2. CASE New(t) \/ Fails(t) \/ Succeeds(t)
  BY <1>2 DEF New, Fails, Succeeds
<1>3. CASE Allocates(t) \/ Out(t)
  BY <1>3 DEF Allocates, cudaMalloc, Out
<1>4. CASE Grow(t)
  BY <1>4 DEF Grow
<1>5. CASE Free(t) \/ Restore(t) \/ Forget(t)
  BY <1>5 DEF Free, owned, Restore, Forget
<1> QED BY <1>1, <1>2, <1>3, <1>4, <1>5 DEF Library

\* What the steps of the library do to the object they are inside of.
LEMMA LibraryVisit ==
  ASSUME LifeInv, NEW t \in Threads, Library(t), NEW o \in Objects, o = on[t]
  PROVE  /\ pc'[t] # "idle" => Visiting(t, o)'
         /\ pc'[t] = "idle" => AtRest(o)'
<1>0. Visiting(t, o) /\ pc[t] # "idle" /\ o \in Objects
  BY LibraryLocal DEF LifeInv, Lives, Inside, TypeOK
<1> USE DEF LifeInv, TypeOK, Goto, NothingOwned, OwnedOnly
<1>1. CASE method[t] = "init"
  <2>0. Constructing(t, o)
    BY <1>0, <1>1 DEF Visiting
  <2> SUFFICES /\ pc'[t] # "idle" => Constructing(t, o)'
               /\ pc'[t] = "idle" => AtRest(o)'
    BY <1>1, LibraryLocal DEF Visiting
  <2>1. CASE Guard(t)
    BY <1>0, <1>1, <2>0, <2>1, FirstStep DEF Guard, Constructing
  <2>2. CASE New(t)
    BY <1>0, <1>1, <2>0, <2>2 DEF New, Constructing
  <2>3. CASE Fails(t)
    BY <1>0, <1>1, <2>0, <2>3 DEF Fails, released, Constructing
  <2>4. CASE Succeeds(t)
    BY <1>0, <1>1, <2>0, <2>4 DEF Succeeds, Constructing
  <2>5. CASE Allocates(t)
    BY <1>0, <1>1, <2>0, <2>5 DEF Allocates, cudaMalloc, Constructing
  <2>6. CASE Out(t)
    BY <1>0, <1>1, <2>0, <2>6 DEF Out, Constructing
  <2>7. CASE Restore(t)
    BY <1>0, <1>1, <2>0, <2>7 DEF Restore, Constructing, AtRest
  <2>8. CASE Grow(t) \/ Free(t) \/ Forget(t)
    BY <2>0, <2>8 DEF Grow, Free, Forget, Constructing
  <2> QED BY <2>1, <2>2, <2>3, <2>4, <2>5, <2>6, <2>7, <2>8 DEF Library
<1>2. CASE method[t] = "call"
  <2>0. Calling(t, o)
    BY <1>0, <1>2 DEF Visiting
  <2> SUFFICES /\ pc'[t] # "idle" => Calling(t, o)'
               /\ pc'[t] = "idle" => AtRest(o)'
    BY <1>2, LibraryLocal DEF Visiting
  <2>1. CASE Guard(t)
    BY <1>0, <1>2, <2>0, <2>1, FirstStep DEF Guard, Calling
  <2>2. CASE Grow(t)
    BY <1>0, <1>2, <2>0, <2>2 DEF Grow, Calling
  <2>3. CASE Restore(t)
    BY <1>0, <1>2, <2>0, <2>3 DEF Restore, Calling, AtRest
  <2>4. CASE \/ New(t) \/ Fails(t) \/ Succeeds(t) \/ Allocates(t) \/ Out(t)
             \/ Free(t) \/ Forget(t)
    BY <2>0, <2>4 DEF New, Fails, Succeeds, Allocates, Out, Free, Forget, Calling
  <2> QED BY <2>1, <2>2, <2>3, <2>4 DEF Library
<1>3. CASE method[t] \in {"close", "del"}
  <2> DEFINE Referred == IF method[t] = "close" THEN t \in refs[o] ELSE refs[o] = {}
  <2>0. Destroying(t, o) /\ Referred
    BY <1>0, <1>3 DEF Visiting
  <2>1. /\ Referred'
        /\ pc'[t] # "idle" => Destroying(t, o)'
        /\ pc'[t] = "idle" => AtRest(o)'
    <3>1. CASE Guard(t)
      BY <1>0, <1>3, <2>0, <3>1, FirstStep DEF Guard, Destroying
    <3>2. CASE Free(t)
      BY <1>0, <1>3, <2>0, <3>2 DEF Free, owned, Destroying
    <3>3. CASE Restore(t)
      BY <1>0, <1>3, <2>0, <3>3 DEF Restore, Destroying
    <3>4. CASE Forget(t)
      BY <1>0, <1>3, <2>0, <3>4 DEF Forget, Destroying, AtRest
    <3>5. CASE \/ New(t) \/ Fails(t) \/ Succeeds(t) \/ Allocates(t) \/ Out(t)
               \/ Grow(t)
      BY <2>0, <3>5 DEF New, Fails, Succeeds, Allocates, Out, Grow, Destroying
    <3> QED BY <3>1, <3>2, <3>3, <3>4, <3>5 DEF Library
  <2> QED BY <1>3, <2>1, LibraryLocal DEF Visiting
<1> QED BY <1>1, <1>2, <1>3

\* What holds of an object stays while its surroundings do.
LEMMA ElsewhereKept ==
  ASSUME NEW o,
         refs'[o] = refs[o], handle'[o] = handle[o], heap'[o] = heap[o],
         \A m : m[1] = o => (m \in mem' <=> m \in mem)
  PROVE  /\ AtRest(o) => AtRest(o)'
         /\ \A t : pc'[t] = pc[t] /\ method'[t] = method[t] /\ Visiting(t, o)
                     => Visiting(t, o)'
BY ZenonT(60) DEF AtRest, Visiting, Constructing, Calling, Destroying, NothingOwned, OwnedOnly

LEMMA LibraryLives ==
  ASSUME LifeInv, NEW t \in Threads, Library(t)
  PROVE  Exclusive' /\ Lives'
<1>1. Exclusive'
  BY LibraryLocal DEF LifeInv, Exclusive, Inside
<1>2. Lives'
  <2> SUFFICES ASSUME NEW o \in Objects
               PROVE  /\ (\A u \in Threads : ~ Inside(u, o)') => AtRest(o)'
                      /\ \A u \in Threads : Inside(u, o)' => Visiting(u, o)'
    BY DEF Lives
  <2>1. CASE o = on[t]
    <3>1. \A u \in Threads : Inside(u, o)' => u = t
      BY <2>1, LibraryLocal DEF LifeInv, Exclusive, Inside
    <3>2. Inside(t, o)' <=> pc'[t] # "idle"
      BY <2>1, LibraryLocal DEF LifeInv, Inside
    <3> QED BY <2>1, <3>1, <3>2, LibraryVisit
  <2>2. CASE o # on[t]
    <3>1. /\ AtRest(o) => AtRest(o)'
          /\ \A u : pc'[u] = pc[u] /\ method'[u] = method[u] /\ Visiting(u, o)
                      => Visiting(u, o)'
      BY <2>2, LibraryLocal, ElsewhereKept DEF LifeInv
    <3>2. \A u \in Threads : /\ Inside(u, o)' <=> Inside(u, o)
                             /\ Inside(u, o) => /\ pc'[u] = pc[u]
                                                /\ method'[u] = method[u]
      BY <2>2, LibraryLocal DEF LifeInv, Inside
    <3> QED BY <3>1, <3>2 DEF LifeInv, Lives
  <2> QED BY <2>1, <2>2
<1> QED BY <1>1, <1>2

\* A thread enters an object that nobody is inside of.
LEMMA EnterLives ==
  ASSUME LifeInv, NEW t \in Threads, NEW o \in Objects, NEW m,
         pc[t] = "idle", Enter(t, o, m), Visiting(t, o)',
         \A u \in Threads : ~ Inside(u, o),
         \A x \in Objects \ {o} :
           refs'[x] = refs[x] /\ handle'[x] = handle[x] /\ heap'[x] = heap[x],
         mem' = mem
  PROVE  Exclusive' /\ Lives'
<1> USE DEF LifeInv, TypeOK, Inside, Enter, Goto
<1>1. Inside(t, o)' /\ \A x \in Objects \ {o} : ~ Inside(t, x)' /\ ~ Inside(t, x)
  OBVIOUS
<1>2. \A u \in Threads \ {t} : /\ pc'[u] = pc[u] /\ method'[u] = method[u]
                               /\ \A x \in Objects : Inside(u, x)' <=> Inside(u, x)
  OBVIOUS
<1>3. Exclusive'
  BY <1>1, <1>2 DEF Exclusive
<1>4. Lives'
  <2> SUFFICES ASSUME NEW x \in Objects
               PROVE  /\ (\A u \in Threads : ~ Inside(u, x)') => AtRest(x)'
                      /\ \A u \in Threads : Inside(u, x)' => Visiting(u, x)'
    BY DEF Lives
  <2>1. CASE x = o
    BY <1>1, <1>2, <2>1
  <2>2. CASE x # o
    <3>1. /\ AtRest(x) => AtRest(x)'
          /\ \A u : pc'[u] = pc[u] /\ method'[u] = method[u] /\ Visiting(u, x)
                      => Visiting(u, x)'
      BY <2>2, ElsewhereKept
    <3> HIDE DEF Inside
    <3> QED BY <1>1, <1>2, <2>2, <3>1 DEF Lives
  <2> QED BY <2>1, <2>2
<1> QED BY <1>3, <1>4

\* A thread inside an object holds a reference to it, except in __del__, when
\* nobody does.
LEMMA Referring ==
  ASSUME LifeInv, NEW u \in Threads, NEW o \in Objects, Inside(u, o)
  PROVE  /\ u \in refs[o] \/ refs[o] = {}
         /\ refs[o] = {} => handle[o] /\ heap[o] # "none"
<1>1. Visiting(u, o) /\ method[u] \in {"init", "call", "close", "del"}
  BY DEF LifeInv, TypeOK, Lives
<1>2. CASE method[u] = "init"
  <2>1. refs[o] = {u}
    BY <1>1, <1>2 DEF Visiting, Constructing
  <2> QED BY <2>1
<1>3. CASE method[u] \in {"call", "close"}
  <2>1. u \in refs[o]
    BY <1>1, <1>3 DEF Visiting, Calling
  <2> QED BY <2>1
<1>4. CASE method[u] = "del"
  BY <1>1, <1>4 DEF Visiting, Destroying
<1> QED BY <1>1, <1>2, <1>3, <1>4

LEMMA UntouchedLives ==
  ASSUME Exclusive, Lives, UNCHANGED <<pc, method, on, refs, handle, heap, mem>>
  PROVE  Exclusive' /\ Lives'
<1>1. \A t, o : Inside(t, o)' <=> Inside(t, o)
  BY DEF Inside
<1>2. Exclusive'
  BY <1>1 DEF Exclusive
<1>3. ASSUME NEW o \in Objects
      PROVE  /\ AtRest(o) => AtRest(o)'
             /\ \A t : Visiting(t, o) => Visiting(t, o)'
  BY ElsewhereKept
<1> QED BY <1>1, <1>2, <1>3 DEF Lives

LEMMA ClientLives ==
  ASSUME LifeInv, OneAtATime, NEW t \in Threads, Client(t)
  PROVE  Exclusive' /\ Lives'
<1> USE DEF LifeInv, TypeOK
<1>1. ASSUME NEW o \in Objects, NEW d \in Devices, Construct(t, o, d)
      PROVE  Exclusive' /\ Lives'
  <2>1. \A u \in Threads : ~ Inside(u, o)
    BY <1>1, Referring DEF Construct
  <2>2. ~ handle[o] /\ NothingOwned(o)
    BY <1>1, <2>1 DEF Lives, Construct, AtRest
  <2>3. Visiting(t, o)'
    BY <1>1, <2>2
       DEF Construct, Enter, Goto, Visiting, Constructing, NothingOwned, OwnedOnly
  <2> QED BY <1>1, <2>1, <2>3, EnterLives DEF Construct
<1>2. ASSUME NEW o \in Objects, Call(t, o) \/ Close(t, o)
      PROVE  Exclusive' /\ Lives'
  <2>1. \A u \in Threads : ~ Inside(u, o)
    BY <1>2 DEF Call, Close, Admitted, Inside
  <2>2. handle[o] /\ heap[o] = "live" /\ t \in refs[o]
    BY <1>2, <2>1 DEF Lives, AtRest, Call, Close, Admitted
  <2>3. Visiting(t, o)'
    <3>1. CASE Call(t, o)
      BY <2>2, <3>1 DEF Call, Enter, Goto, Visiting, Calling
    <3>2. CASE Close(t, o)
      BY <2>2, <3>2 DEF Close, Enter, Goto, Visiting, Destroying
    <3> QED BY <1>2, <3>1, <3>2
  <2> QED BY <1>2, <2>1, <2>3, EnterLives DEF Call, Close, Admitted
<1>3. ASSUME NEW o \in Objects, Drop(t, o)
      PROVE  Exclusive' /\ Lives'
  <2>1. CASE refs[o] = {t} /\ handle[o]
    <3>1. \A u \in Threads : ~ Inside(u, o)
      <4> SUFFICES ASSUME NEW u \in Threads, Inside(u, o) PROVE FALSE
        OBVIOUS
      <4>1. u = t
        BY <2>1, Referring
      <4> QED BY <1>3, <4>1 DEF Drop, Inside
    <3>2. heap[o] = "live"
      BY <2>1, <3>1 DEF Lives, AtRest
    <3>3. Visiting(t, o)'
      BY <1>3, <2>1, <3>2 DEF Drop, Enter, Goto, Visiting, Destroying
    <3>4. \A x \in Objects \ {o} : refs'[x] = refs[x]
      BY <1>3 DEF Drop
    <3> QED BY <1>3, <2>1, <3>1, <3>3, <3>4, EnterLives DEF Drop
  <2>2. CASE ~ (refs[o] = {t} /\ handle[o])
    <3>1. \A u \in Threads, x \in Objects : Inside(u, x)' <=> Inside(u, x)
      BY <1>3, <2>2 DEF Drop, Inside
    <3>2. Exclusive'
      BY <3>1 DEF Exclusive
    <3>3. ASSUME NEW x \in Objects
          PROVE  /\ (\A u \in Threads : ~ Inside(u, x)') => AtRest(x)'
                 /\ \A u \in Threads : Inside(u, x)' => Visiting(u, x)'
      <4>1. CASE x = o
        <5>1. AtRest(o) => AtRest(o)'
          BY <1>3, <2>2 DEF Drop, AtRest, NothingOwned
        <5>2. ASSUME NEW u \in Threads, Inside(u, o) PROVE Visiting(u, o)'
          <6>1. u # t /\ Visiting(u, o) /\ t \in refs[o]
            BY <1>3, <5>2 DEF Drop, Inside, Lives
          <6> QED BY <1>3, <2>2, <6>1
                  DEF Drop, Visiting, Constructing, Calling, Destroying,
                      NothingOwned, OwnedOnly
        <5> QED BY <3>1, <4>1, <5>1, <5>2 DEF Lives
      <4>2. CASE x # o
        <5>1. /\ AtRest(x) => AtRest(x)'
              /\ \A u \in Threads : Visiting(u, x) => Visiting(u, x)'
          BY <1>3, <2>2, <4>2, ElsewhereKept DEF Drop
        <5> QED BY <3>1, <5>1 DEF Lives
      <4> QED BY <4>1, <4>2
    <3> QED BY <3>2, <3>3 DEF Lives
  <2> QED BY <2>1, <2>2
<1>4. ASSUME NEW o \in Objects, NEW u \in Threads \ refs[o], Share(t, u, o)
      PROVE  Exclusive' /\ Lives'
  <2>1. \A v \in Threads, x \in Objects : Inside(v, x)' <=> Inside(v, x)
    BY <1>4 DEF Share, Inside
  <2>2. Exclusive'
    BY <2>1 DEF Exclusive
  <2>3. ASSUME NEW x \in Objects
        PROVE  /\ (\A v \in Threads : ~ Inside(v, x)') => AtRest(x)'
               /\ \A v \in Threads : Inside(v, x)' => Visiting(v, x)'
    <3>1. CASE x = o
      <4>1. AtRest(o) => AtRest(o)'
        BY <1>4 DEF Share, AtRest, NothingOwned
      <4>2. ASSUME NEW v \in Threads, Inside(v, o) PROVE Visiting(v, o)'
        <5>1. v # t /\ Visiting(v, o) /\ t \in refs[o]
          BY <1>4, <4>2 DEF Share, Inside, Lives
        <5> QED BY <1>4, <5>1
                DEF Share, Visiting, Constructing, Calling, Destroying,
                    NothingOwned, OwnedOnly
      <4> QED BY <2>1, <3>1, <4>1, <4>2 DEF Lives
    <3>2. CASE x # o
      <4>1. /\ AtRest(x) => AtRest(x)'
            /\ \A v \in Threads : Visiting(v, x) => Visiting(v, x)'
        BY <1>4, <3>2, ElsewhereKept DEF Share
      <4> QED BY <2>1, <4>1 DEF Lives
    <3> QED BY <3>1, <3>2
  <2> QED BY <2>2, <2>3 DEF Lives
<1>5. ASSUME NEW d \in Present \ {current[t]}, SetDevice(t, d)
      PROVE  Exclusive' /\ Lives'
  BY <1>5, UntouchedLives DEF SetDevice
<1> QED BY <1>1, <1>2, <1>3, <1>4, <1>5 DEF Client

\* What an object owns follows from the one thread that is inside of it.
THEOREM LifeInvariance == ASSUME OneAtATime PROVE Spec => []LifeInv
<1>1. LifeInv /\ [Next]_vars => LifeInv'
  <2> SUFFICES ASSUME LifeInv, [Next]_vars PROVE LifeInv'
    OBVIOUS
  <2>1. CASE UNCHANGED vars
    BY <2>1, UntouchedLives DEF vars, LifeInv, TypeOK
  <2>2. CASE Next
    BY <2>2, TypeStep, LibraryLives, ClientLives DEF Next, LifeInv
  <2> QED BY <2>1, <2>2
<1> QED BY <1>1, InitLifeInv, PTL DEF Spec

\* While callers let one thread at a time into an object, no native call runs
\* on a deleted KeyHandle, with any number of threads, keys and failures.
THEOREM HandlesAlive == ASSUME OneAtATime PROVE Spec => []UsedAlive
<1>1. LifeInv => UsedAlive
  <2> SUFFICES ASSUME LifeInv, NEW t \in Threads, NEW o \in Objects, o = on[t],
                      pc[t] \in {"guard", "grow", "free"}, method[t] # "init"
               PROVE  heap[o] = "live"
    BY DEF UsedAlive, LifeInv, TypeOK
  <2>1. Visiting(t, o) /\ method[t] \in {"call", "close", "del"}
    BY DEF LifeInv, TypeOK, Lives, Inside
  <2> QED BY <2>1 DEF Visiting, Calling, Destroying
<1> QED BY <1>1, LifeInvariance, PTL

\* Under the same rule device memory always has an owner that will free it,
\* whichever step of key_create fails.
THEOREM NothingLeaks == ASSUME OneAtATime PROVE Spec => []NoLeak
<1>1. LifeInv => NoLeak
  <2> SUFFICES ASSUME LifeInv, NEW m \in mem
               PROVE  \/ handle[m[1]] /\ heap[m[1]] = "live" /\ refs[m[1]] # {}
                      \/ \E t \in Threads :
                           /\ on[t] = m[1]
                           /\ \/ method[t] = "init" /\ pc[t] \notin {"idle", "restore"}
                              \/ method[t] = "del" /\ pc[t] \in {"guard", "free"}
    BY DEF NoLeak
  <2>1. PICK o \in Objects : o = m[1]
    BY DEF LifeInv, TypeOK
  <2>2. CASE \A t \in Threads : ~ Inside(t, o)
    BY <2>1, <2>2 DEF LifeInv, Lives, AtRest, NothingOwned
  <2>3. ASSUME NEW t \in Threads, Inside(t, o)
        PROVE  \/ handle[o] /\ heap[o] = "live" /\ refs[o] # {}
               \/ /\ on[t] = o
                  /\ \/ method[t] = "init" /\ pc[t] \notin {"idle", "restore"}
                     \/ method[t] = "del" /\ pc[t] \in {"guard", "free"}
    <3>1. Visiting(t, o)
      BY <2>3 DEF LifeInv, Lives
    <3> QED BY <2>1, <2>3, <3>1
            DEF LifeInv, TypeOK, Inside, Visiting, Constructing, Calling,
                Destroying, NothingOwned
  <2> QED BY <2>1, <2>2, <2>3
<1> QED BY <1>1, LifeInvariance, PTL

=============================================================================

----------------------------- MODULE KeyHandle -----------------------------
(***************************************************************************)
(* The life of a key: GpuAes128GcmKey of gpu_aesgcm.py over key_create,    *)
(* reserve (as seal and open, which grow the workspace the same way) and   *)
(* key_destroy of gpu_aesgcm.cu.  A constructor acquires one resource      *)
(* after the other and any of them can fail; every native call runs under  *)
(* a DeviceGuard; close, __exit__ and __del__ may all follow one another;  *)
(* the interpreter runs other threads while a native call is in progress.  *)
(*                                                                         *)
(* What the kernels compute is the subject of GpuAesGcm, where making and  *)
(* destroying a handle are single steps.                                   *)
(***************************************************************************)
EXTENDS Integers, FiniteSets

CONSTANTS
  Threads,    \* host threads of the interpreter
  Objects,    \* GpuAes128GcmKey objects, each constructed once
  Devices,    \* device numbers a caller may name
  Present,    \* those the machine has
  MaxFaults,  \* bound on the CUDA calls and allocations that fail
  OneAtATime  \* TRUE: callers let one thread at a time into an object

ASSUME KeyHandleAssumption ==
  /\ Present \subseteq Devices /\ Present # {}
  /\ MaxFaults \in Nat /\ OneAtATime \in BOOLEAN

VARIABLES
  pc,       \* where each thread is inside a method; "idle" outside
  method,   \* the method: "init", "call", "close", "del"
  on,       \* the object it is called on
  old,      \* DeviceGuard::old_
  current,  \* each thread's current device
  home,     \* history: the device the thread's own program chose
  device,   \* self.device, which is also h->device
  refs,     \* threads that hold a reference to the object
  handle,   \* whether self._handle is not null
  heap,     \* the KeyHandle: "none", "live", "deleted"
  mem,      \* device memory: <<object, field, device it was allocated on>>
  faults    \* history: calls that failed, bounded by MaxFaults

vars == <<pc, method, on, old, current, home, device, refs, handle, heap, mem,
          faults>>

Fields == {"d_round_keys", "d_h_pow2", "d_nodes_a", "d_nodes_b"}

-----------------------------------------------------------------------------
\* cudaSetDevice, whose result nobody looks at.
cudaSetDevice(t, d) ==
  current' = IF d \in Present THEN [current EXCEPT ![t] = d] ELSE current

Goto(t, label) == pc' = [pc EXCEPT ![t] = label]

Fault == faults < MaxFaults /\ faults' = faults + 1

cudaMalloc(t, o, field) == mem' = mem \cup {<<o, field, current[t]>>}

owned(o) == {m \in mem : m[1] = o}

\* Whether a caller lets t into o now.
Admitted(t, o) ==
  /\ pc[t] = "idle" /\ t \in refs[o]
  /\ OneAtATime => \A u \in Threads : pc[u] # "idle" => on[u] # o

Enter(t, o, m) ==
  /\ Goto(t, "guard")
  /\ method' = [method EXCEPT ![t] = m]
  /\ on' = [on EXCEPT ![t] = o]

-----------------------------------------------------------------------------
(* Python.                                                                 *)

\* __init__ up to the native call.  A constructed object is never unborn again.
Construct(t, o, d) ==
  /\ pc[t] = "idle" /\ refs[o] = {} /\ heap[o] = "none" /\ device[o] = -1
  /\ Enter(t, o, "init")
  /\ refs' = [refs EXCEPT ![o] = {t}]
  /\ device' = [device EXCEPT ![o] = d]
  /\ UNCHANGED <<old, current, home, handle, heap, mem, faults>>

\* reserve, seal_async, open_async: a null handle is refused by the library.
Call(t, o) ==
  /\ Admitted(t, o) /\ handle[o]
  /\ Enter(t, o, "call")
  /\ UNCHANGED <<old, current, home, device, refs, handle, heap, mem, faults>>

\* close and __exit__: a null handle is left alone.
Close(t, o) ==
  /\ Admitted(t, o) /\ handle[o]
  /\ Enter(t, o, "close")
  /\ UNCHANGED <<old, current, home, device, refs, handle, heap, mem, faults>>

Share(t, u, o) ==
  /\ pc[t] = "idle" /\ t \in refs[o]
  /\ refs' = [refs EXCEPT ![o] = @ \cup {u}]
  /\ UNCHANGED <<pc, method, on, old, current, home, device, handle, heap, mem, faults>>

\* The last reference goes: the thread that drops it runs __del__.
Drop(t, o) ==
  /\ pc[t] = "idle" /\ t \in refs[o]
  /\ refs' = [refs EXCEPT ![o] = @ \ {t}]
  /\ IF refs[o] = {t} /\ handle[o]
     THEN Enter(t, o, "del")
     ELSE UNCHANGED <<pc, method, on>>
  /\ UNCHANGED <<old, current, home, device, handle, heap, mem, faults>>

\* A close that trusts the native side to know a destroyed handle.
ForgetNothing(t) ==
  /\ pc[t] = "forget"
  /\ Goto(t, "idle")
  /\ UNCHANGED <<method, on, old, current, home, device, refs, handle, heap, mem, faults>>

\* close and __del__ forget the handle when the native call has returned.
Forget(t) ==
  /\ pc[t] = "forget"
  /\ handle' = [handle EXCEPT ![on[t]] = FALSE]
  /\ Goto(t, "idle")
  /\ UNCHANGED <<method, on, old, current, home, device, refs, heap, mem, faults>>

\* The thread moves to another device between two calls of the library.
SetDevice(t, d) ==
  /\ pc[t] = "idle"
  /\ cudaSetDevice(t, d)
  /\ home' = [home EXCEPT ![t] = d]
  /\ UNCHANGED <<pc, method, on, old, device, refs, handle, heap, mem, faults>>

-----------------------------------------------------------------------------
(* The library.                                                            *)

first_step == [init |-> "new", call |-> "grow", close |-> "free", del |-> "free"]

\* What the destructor will restore is the target.
GuardSavesTarget(t) ==
  /\ pc[t] = "guard"
  /\ old' = [old EXCEPT ![t] = device[on[t]]]
  /\ cudaSetDevice(t, device[on[t]])
  /\ Goto(t, first_step[method[t]])
  /\ UNCHANGED <<method, on, home, device, refs, handle, heap, mem, faults>>

\* The calls that only make and destroy a key switch the device.
GuardLifeOnly(t) ==
  /\ pc[t] = "guard"
  /\ old' = [old EXCEPT ![t] = current[t]]
  /\ IF method[t] = "call" THEN UNCHANGED current
     ELSE cudaSetDevice(t, device[on[t]])
  /\ Goto(t, first_step[method[t]])
  /\ UNCHANGED <<method, on, home, device, refs, handle, heap, mem, faults>>

\* The constructor of DeviceGuard.
Guard(t) ==
  /\ pc[t] = "guard"
  /\ old' = [old EXCEPT ![t] = current[t]]
  /\ cudaSetDevice(t, device[on[t]])
  /\ Goto(t, first_step[method[t]])
  /\ UNCHANGED <<method, on, home, device, refs, handle, heap, mem, faults>>

New(t) ==
  /\ pc[t] = "new"
  /\ \/ /\ heap' = [heap EXCEPT ![on[t]] = "live"]
        /\ Goto(t, "symbol")
        /\ UNCHANGED faults
     \/ Fault /\ Goto(t, "restore") /\ UNCHANGED heap
  /\ UNCHANGED <<method, on, old, current, home, device, refs, handle, mem>>

\* One failure path forgets an allocation.
released_late(step) ==
  IF step = "sync" THEN {"d_h_pow2", "d_round_keys"} ELSE {}

\* What key_create frees when the step fails.
released(step) ==
  CASE step \in {"symbol", "round_keys"} -> {}
    [] step = "h_pow2" -> {"d_round_keys"}
    [] step \in {"copy", "sync"} -> {"d_h_pow2", "d_round_keys"}

Fails(t) ==
  /\ pc[t] \in {"symbol", "round_keys", "h_pow2", "copy", "sync"}
  /\ Fault
  /\ mem' = {m \in mem : ~(m[1] = on[t] /\ m[2] \in released(pc[t]))}
  /\ heap' = [heap EXCEPT ![on[t]] = "deleted"]
  /\ Goto(t, "restore")
  /\ UNCHANGED <<method, on, old, current, home, device, refs, handle>>

\* cudaMemcpyToSymbol, cudaMemcpy, and the kernel with cudaDeviceSynchronize.
Succeeds(t) ==
  /\ \/ pc[t] = "symbol" /\ Goto(t, "round_keys")
     \/ pc[t] = "copy" /\ Goto(t, "sync")
     \/ pc[t] = "sync" /\ Goto(t, "out")
  /\ UNCHANGED <<method, on, old, current, home, device, refs, handle, heap, mem, faults>>

Allocates(t) ==
  /\ \/ pc[t] = "round_keys" /\ cudaMalloc(t, on[t], "d_round_keys") /\ Goto(t, "h_pow2")
     \/ pc[t] = "h_pow2" /\ cudaMalloc(t, on[t], "d_h_pow2") /\ Goto(t, "copy")
  /\ UNCHANGED <<method, on, old, current, home, device, refs, handle, heap, faults>>

\* *out is &self._handle.
Out(t) ==
  /\ pc[t] = "out"
  /\ handle' = [handle EXCEPT ![on[t]] = TRUE]
  /\ Goto(t, "restore")
  /\ UNCHANGED <<method, on, old, current, home, device, refs, heap, mem, faults>>

\* ensure_workspace: kept, grown, or one of the two allocations failed, which
\* leaves the old one.
Grow(t) ==
  /\ pc[t] = "grow"
  /\ \/ UNCHANGED <<mem, faults>>
     \/ /\ mem' = {m \in mem : ~(m[1] = on[t] /\ m[2] \in {"d_nodes_a", "d_nodes_b"})}
                  \cup {<<on[t], f, current[t]>> : f \in {"d_nodes_a", "d_nodes_b"}}
        /\ UNCHANGED faults
     \/ Fault /\ UNCHANGED mem
  /\ Goto(t, "restore")
  /\ UNCHANGED <<method, on, old, current, home, device, refs, handle, heap>>

\* key_destroy frees every pointer that is set and deletes the KeyHandle.
Free(t) ==
  /\ pc[t] = "free"
  /\ mem' = mem \ owned(on[t])
  /\ heap' = [heap EXCEPT ![on[t]] = "deleted"]
  /\ Goto(t, "restore")
  /\ UNCHANGED <<method, on, old, current, home, device, refs, handle, faults>>

\* No destructor on the failure returns.
RestoreOnSuccess(t) ==
  /\ pc[t] = "restore"
  /\ IF method[t] = "init" /\ ~handle[on[t]] THEN UNCHANGED current
     ELSE cudaSetDevice(t, old[t])
  /\ Goto(t, IF method[t] \in {"close", "del"} THEN "forget" ELSE "idle")
  /\ refs' = [refs EXCEPT ![on[t]] =
                IF method[t] = "init" /\ ~handle[on[t]] THEN {} ELSE @]
  /\ UNCHANGED <<method, on, old, home, device, handle, heap, mem, faults>>

\* The destructor of DeviceGuard, on every return, and the return to Python:
\* a failed __init__ raises and drops the only reference.
Restore(t) ==
  /\ pc[t] = "restore"
  /\ cudaSetDevice(t, old[t])
  /\ Goto(t, IF method[t] \in {"close", "del"} THEN "forget" ELSE "idle")
  /\ refs' = [refs EXCEPT ![on[t]] =
                IF method[t] = "init" /\ ~handle[on[t]] THEN {} ELSE @]
  /\ UNCHANGED <<method, on, old, home, device, handle, heap, mem, faults>>

-----------------------------------------------------------------------------
Init ==
  /\ pc = [t \in Threads |-> "idle"]
  /\ method = [t \in Threads |-> "init"]
  /\ on \in [Threads -> Objects]
  /\ current \in [Threads -> Present]
  /\ old = current /\ home = current
  /\ device = [o \in Objects |-> -1]
  /\ refs = [o \in Objects |-> {}]
  /\ handle = [o \in Objects |-> FALSE]
  /\ heap = [o \in Objects |-> "none"]
  /\ mem = {}
  /\ faults = 0

Library(t) ==
  \/ Guard(t) \/ New(t) \/ Fails(t) \/ Succeeds(t) \/ Allocates(t) \/ Out(t)
  \/ Grow(t) \/ Free(t) \/ Restore(t) \/ Forget(t)

Client(t) ==
  \/ \E o \in Objects : \/ \E d \in Devices : Construct(t, o, d)
                        \/ Call(t, o) \/ Close(t, o) \/ Drop(t, o)
                        \/ \E u \in Threads \ refs[o] : Share(t, u, o)
  \/ \E d \in Present \ {current[t]} : SetDevice(t, d)

Next == \E t \in Threads : Library(t) \/ Client(t)

Spec == Init /\ [][Next]_vars

-----------------------------------------------------------------------------
(* Properties.                                                             *)

\* Every variable has its type, and an object whose constructor has not
\* finished is known to one thread only.
TypeOK ==
  /\ pc \in [Threads -> {"idle", "guard", "new", "symbol", "round_keys",
                         "h_pow2", "copy", "sync", "out", "grow", "free",
                         "restore", "forget"}]
  /\ method \in [Threads -> {"init", "call", "close", "del"}]
  /\ on \in [Threads -> Objects]
  /\ old \in [Threads -> Present] /\ current \in [Threads -> Present]
  /\ home \in [Threads -> Present]
  /\ device \in [Objects -> Devices \cup {-1}]
  /\ refs \in [Objects -> SUBSET Threads]
  /\ handle \in [Objects -> BOOLEAN]
  /\ heap \in [Objects -> {"none", "live", "deleted"}]
  /\ mem \subseteq Objects \X Fields \X Present
  /\ faults \in 0 .. MaxFaults
  /\ \A t \in Threads :
       pc[t] # "idle" /\ method[t] = "init" => refs[on[t]] = {t}

\* No native call runs on a KeyHandle that key_destroy has deleted: close
\* forgets the handle, so that __exit__, a second close and __del__ find
\* nothing to destroy.
UsedAlive ==
  \A t \in Threads :
    pc[t] \in {"guard", "grow", "free"} /\ method[t] # "init"
      => heap[on[t]] = "live"

\* Device memory always belongs to a handle that Python still holds in an
\* object somebody refers to, or that a constructor or __del__ in progress
\* will hand over or release: no failure path of key_create loses an
\* allocation, and an object that was never closed is cleaned up when dropped.
NoLeak ==
  \A m \in mem :
    \/ handle[m[1]] /\ heap[m[1]] = "live" /\ refs[m[1]] # {}
    \/ \E t \in Threads :
         /\ on[t] = m[1]
         /\ \/ method[t] = "init" /\ pc[t] \notin {"idle", "restore"}
            \/ method[t] = "del" /\ pc[t] \in {"guard", "free"}

\* A thread outside the library is on the device its own program chose, also
\* after a call that failed or that named a device the machine does not have.
DeviceRestored ==
  \A t \in Threads : pc[t] = "idle" => current[t] = home[t]

\* The memory of a key is on the key's device, whichever devices its threads
\* were on when they created it and when its workspace grew.
OnItsDevice ==
  \A m \in mem : device[m[1]] \in Present => m[3] = device[m[1]]

=============================================================================

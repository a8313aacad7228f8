--------------------------- MODULE GpuAesGcmProofs ---------------------------
(***************************************************************************)
(* Theorems about GpuAesGcm, for any number of host threads, streams,      *)
(* handles and addresses, and any bound on calls, faults and queues.       *)
(***************************************************************************)
EXTENDS GpuAesGcm, TLAPS

CallT == [pc : {"idle"} \cup HostSteps, op : Ops, h : Handles \cup {None},
          s : Streams \cup {None}, n : Nat, iv : Nat, in : NullPtrs,
          out : NullPtrs, count : Nat]
DoneT == [op : Ops, h : Handles \cup {None}, n : Nat, iv : Nat,
          rc : {"none", "OK", "ERR_ALLOC", "ERR_CUDA"}]
HandleT == [state : {"none", "live", "gone"}, h_pow2 : HashKeys,
            a : NullPtrs, b : NullPtrs, cap : Nat]
BufT == [ver : {0, 1, 2}, iv : Int, ct : Cts, tag : Tags, n : Nat,
         plain : {Poison, Zeroed} \cup
                 [kind : {"decrypted"}, key : Handles, frame : Frames, n : Nat],
         auth : {0, 1}]

-----------------------------------------------------------------------------
(* Lemmas on the data.                                                     *)

\* A workspace has a node for each started segment of the terms, the length
\* block included: at least one.
LEMMA NodesNeeded == ASSUME NEW n \in Nat PROVE required_nodes(n) \in Nat \ {0}
<1> DEFINE g == GHASH_SEGMENT_BLOCKS
<1>1. g \in Nat \ {0}
  BY ConstantsAssumption
<1>2. \A x \in Nat, y \in Nat \ {0} : x >= y => x \div y \in Nat \ {0}
  BY SMTT(30)
<1>3. n + 1 + g - 1 \in Nat /\ n + 1 + g - 1 >= g
  BY <1>1
<1> HIDE DEF g
<1>4. (n + 1 + g - 1) \div g \in Nat \ {0}
  BY <1>1, <1>2, <1>3
<1> QED BY <1>4 DEF g, required_nodes

\* A level has half the nodes of the one before it, rounded up.
LEMMA Halving ==
  ASSUME NEW c \in Nat
  PROVE  /\ halved(c) \in Nat
         /\ c > 0 => halved(c) > 0
         /\ halved(c) <= c
BY DEF halved

\* The data that kernels and uploads write is of its type.
LEMMA DataTyped ==
  /\ NoCt \in Cts /\ NoNode \in Nodes /\ NoTag \in Tags
  /\ \A key \in Handles \cup {None}, iv \in Int, root \in Nodes : Tag(key, iv, root) \in Tags
  /\ \A key \in Handles \cup {None}, iv, pt \in Int : [key |-> key, iv |-> iv, pt |-> pt] \in Cts
  /\ Poison.kind = "poison" /\ Zeroed.kind = "zero"
<1>1. NoCt \in Cts
  BY DEF NoCt, Cts
<1>2. NoNode \in Nodes
  BY <1>1 DEF NoNode, Nodes, HashKeys
<1>3. \A key \in Handles \cup {None}, iv \in Int, root \in Nodes : Tag(key, iv, root) \in Tags
  BY DEF Tag, Tags
<1>4. NoTag \in Tags
  BY <1>2, <1>3 DEF NoTag
<1> QED BY <1>1, <1>2, <1>3, <1>4 DEF Cts, Poison, Zeroed

\* What is uploaded is a frame, also when a field of it is changed.
LEMMA UploadTyped ==
  ASSUME NEW key \in Handles, NEW n \in Nat, NEW field \in Uploads
  PROVE  Changed(GcmFrame(key, 0, 0, n), field) \in Frames
<1> DEFINE f == GcmFrame(key, 0, 0, n)
           c == IF n = 0 THEN NoCt ELSE [key |-> key, iv |-> 0, pt |-> 0]
<1>1. c \in Cts
  BY DataTyped
<1> HIDE DEF c
<1>2. [hk |-> key, ct |-> c, lo |-> 0, hi |-> n + 1] \in Nodes
  BY <1>1 DEF Nodes, HashKeys
<1>3. GcmTag(key, 0, c, n) \in Tags
  BY <1>2, DataTyped DEF GcmTag
<1>4. f = [ver |-> 1, iv |-> 0, ct |-> c, tag |-> GcmTag(key, 0, c, n)]
  BY DEF GcmFrame, c
<1>5. f \in Frames
  BY <1>1, <1>3, <1>4 DEF Frames
<1> HIDE DEF f
<1>6. CASE field = "none"
  BY <1>5, <1>6 DEF Changed, f
<1>7. CASE field = "ver"
  <2>1. [f EXCEPT !.ver = 2] \in Frames
    BY <1>5 DEF Frames
  <2> QED BY <1>7, <2>1 DEF Changed, f
<1>8. CASE field = "iv"
  <2>1. [f EXCEPT !.iv = -1] \in Frames
    BY <1>5 DEF Frames
  <2> QED BY <1>8, <2>1 DEF Changed, f
<1>9. CASE field = "ct"
  <2>1. [f.ct EXCEPT !.pt = -1] \in Cts
    BY <1>5 DEF Frames, Cts
  <2>2. [f EXCEPT !.ct = [f.ct EXCEPT !.pt = -1]] \in Frames
    BY <1>5, <2>1 DEF Frames
  <2>3. [f EXCEPT !.ct.pt = -1] = [f EXCEPT !.ct = [f.ct EXCEPT !.pt = -1]]
    BY <1>5 DEF Frames
  <2>4. Changed(f, field) = [f EXCEPT !.ct.pt = -1]
    BY <1>9 DEF Changed
  <2> QED BY <2>2, <2>3, <2>4 DEF f
<1>10. CASE field = "tag"
  <2>1. [f EXCEPT !.tag = NoTag] \in Frames
    BY <1>5, DataTyped DEF Frames
  <2> QED BY <1>10, <2>1 DEF Changed, f
<1> QED BY <1>6, <1>7, <1>8, <1>9, <1>10, ConstantsAssumption

-----------------------------------------------------------------------------
(* Types.                                                                  *)

Launching == {"header", "encrypt", "segment", "combine", "tag", "decrypt"}

\* Between calls a thread holds nothing; a reserve launches nothing.
ShapeOf(c) ==
  /\ c.pc = "idle" => c = Idle
  /\ c.pc # "idle" => c.h \in Handles /\ c.op # "none"
  /\ c.op \in {"seal", "open"} => c.s \in Streams
  /\ c.pc \in Launching => c.op # "reserve"
  /\ c.pc \in {"header", "encrypt"} => c.op = "seal"
  /\ c.pc = "decrypt" => c.op = "open"

CallShape == \A t \in Threads : ShapeOf(call[t])

\* Workspaces are arrays.
MemShape == \A p \in DOMAIN mem : DOMAIN mem[p] \subseteq Nat

TInv == TypeOK /\ CallShape /\ MemShape

\* A step of thread t inside its call: the arguments stay.
Moves(t, pc, in, out, count) ==
  /\ call' \in [Threads -> CallT]
  /\ \A u \in Threads \ {t} : call'[u] = call[u]
  /\ call'[t] = [pc |-> pc, op |-> call[t].op, h |-> call[t].h, s |-> call[t].s,
                 n |-> call[t].n, iv |-> call[t].iv, in |-> in, out |-> out,
                 count |-> count]

\* Thread t returns from its call.
Returns(t, rc) ==
  /\ call' \in [Threads -> CallT] /\ done' \in [Threads -> DoneT]
  /\ \A u \in Threads \ {t} : call'[u] = call[u] /\ done'[u] = done[u]
  /\ call'[t] = Idle
  /\ call[t].op = "reserve" => done' = done
  /\ call[t].op # "reserve" =>
       done'[t] = [op |-> call[t].op, h |-> call[t].h, n |-> call[t].n,
                   iv |-> call[t].iv, rc |-> rc]

\* A launch of thread t: the kernel is the last of the stream of its call, or
\* there was a failure, which the thread remembers.
Launches(t, k) ==
  /\ queue' \in [Streams -> Seq(Kernels)]
  /\ lastErr' \in [Threads -> BOOLEAN] /\ faults' \in Nat
  /\ \/ /\ queue'[call[t].s] = Append(queue[call[t].s], k)
        /\ \A s \in Streams \ {call[t].s} : queue'[s] = queue[s]
        /\ lastErr' = lastErr
     \/ /\ queue' = queue
        /\ lastErr' = [lastErr EXCEPT ![t] = TRUE] /\ lastErr'[t] = TRUE
        /\ k.k \in Faulty

\* What TypeOK says of the two arrays of records.
LEMMA ArraysTyped ==
  ASSUME TypeOK
  PROVE  /\ call \in [Threads -> CallT] /\ done \in [Threads -> DoneT]
         /\ handle \in [Handles -> HandleT] /\ buf \in [Threads -> BufT]
         /\ queue \in [Streams -> Seq(Kernels)]
BY DEF TypeOK, CallT, DoneT, HandleT, BufT

LEMMA ArraysTypedNext ==
  ASSUME /\ call' \in [Threads -> CallT] /\ done' \in [Threads -> DoneT]
         /\ lastErr' \in [Threads -> BOOLEAN]
         /\ handle' \in [Handles -> HandleT]
         /\ DOMAIN mem' \subseteq Ptrs
         /\ \A p \in DOMAIN mem' : mem'[p] \in [DOMAIN mem'[p] -> Nodes]
         /\ queue' \in [Streams -> Seq(Kernels)]
         /\ buf' \in [Threads -> BufT]
         /\ sealed' \subseteq [key : Handles, iv : Int, pt : Nat, n : Nat]
         /\ calls' \in Nat /\ faults' \in Nat
  PROVE  TypeOK'
BY DEF TypeOK, CallT, DoneT, HandleT, BufT

LEMMA IdleTyped ==
  /\ Idle \in CallT /\ Nothing \in DoneT
  /\ Idle.pc = "idle" /\ Idle.h = None /\ Idle.op = "none" /\ Idle.s = None
  /\ Idle.in = None /\ Idle.out = None
BY DEF Idle, Nothing, CallT, DoneT, HostSteps, Ops, NullPtrs

\* Any move of a thread inside its call, from its effect on the array.
LEMMA MoveOf ==
  ASSUME TypeOK, NEW t \in Threads, NEW c \in CallT,
         call' = [call EXCEPT ![t] = c]
  PROVE  /\ call' \in [Threads -> CallT]
         /\ \A u \in Threads \ {t} : call'[u] = call[u]
         /\ call'[t] = c
BY ArraysTyped

LEMMA FieldsTyped ==
  ASSUME TypeOK, NEW t \in Threads
  PROVE  /\ call[t] \in CallT
         /\ call[t].pc \in {"idle"} \cup HostSteps /\ call[t].op \in Ops
         /\ call[t].h \in Handles \cup {None} /\ call[t].s \in Streams \cup {None}
         /\ call[t].n \in Nat /\ call[t].iv \in Nat
         /\ call[t].in \in NullPtrs /\ call[t].out \in NullPtrs
         /\ call[t].count \in Nat
<1>1. call[t] \in CallT
  BY ArraysTyped
<1> QED BY <1>1 DEF CallT

LEMMA GotoMoves ==
  ASSUME TypeOK, NEW t \in Threads, NEW pc \in HostSteps, Goto(t, pc)
  PROVE  Moves(t, pc, call[t].in, call[t].out, call[t].count)
<1> DEFINE c == [call[t] EXCEPT !.pc = pc]
<1>1. call[t] \in CallT /\ call \in [Threads -> CallT]
  BY ArraysTyped
<1>2. /\ c \in CallT
      /\ c = [pc |-> pc, op |-> call[t].op, h |-> call[t].h, s |-> call[t].s,
              n |-> call[t].n, iv |-> call[t].iv, in |-> call[t].in,
              out |-> call[t].out, count |-> call[t].count]
  BY <1>1 DEF CallT
<1>3. call' = [call EXCEPT ![t] = c]
  BY DEF Goto
<1> HIDE DEF c
<1> QED BY <1>2, <1>3, MoveOf DEF Moves

LEMMA ReturnReturns ==
  ASSUME TypeOK, NEW t \in Threads, NEW rc \in {"OK", "ERR_ALLOC", "ERR_CUDA"},
         Return(t, rc)
  PROVE  Returns(t, rc)
<1> DEFINE d == [op |-> call[t].op, h |-> call[t].h, n |-> call[t].n,
                 iv |-> call[t].iv, rc |-> rc]
<1>1. d \in DoneT
  BY FieldsTyped DEF DoneT
<1>2. done \in [Threads -> DoneT]
  BY ArraysTyped
<1>3. call' = [call EXCEPT ![t] = Idle]
      /\ done' = IF call[t].op = "reserve" THEN done ELSE [done EXCEPT ![t] = d]
  BY DEF Return
<1> HIDE DEF d
<1>4. /\ call' \in [Threads -> CallT] /\ call'[t] = Idle
      /\ \A u \in Threads \ {t} : call'[u] = call[u]
  BY <1>3, MoveOf, IdleTyped
<1>5. /\ done' \in [Threads -> DoneT]
      /\ \A u \in Threads \ {t} : done'[u] = done[u]
      /\ call[t].op = "reserve" => done' = done
      /\ call[t].op # "reserve" => done'[t] = d
  BY <1>1, <1>2, <1>3
<1> QED BY <1>4, <1>5 DEF Returns, d

LEMMA LaunchLaunches ==
  ASSUME TypeOK, NEW t \in Threads, call[t].s \in Streams, NEW k \in Kernels,
         launch(t, k)
  PROVE  Launches(t, k)
<1> DEFINE s == call[t].s
<1>1. queue \in [Streams -> Seq(Kernels)] /\ queue[s] \in Seq(Kernels)
  BY ArraysTyped
<1>2. lastErr \in [Threads -> BOOLEAN] /\ faults \in Nat
  BY DEF TypeOK
<1>3. CASE /\ queue' = [queue EXCEPT ![s] = Append(@, k)]
           /\ UNCHANGED <<lastErr, faults>>
  <2>1. Append(queue[s], k) \in Seq(Kernels)
    BY <1>1
  <2>2. queue' \in [Streams -> Seq(Kernels)] /\ queue'[s] = Append(queue[s], k)
        /\ \A r \in Streams \ {s} : queue'[r] = queue[r]
    BY <1>1, <1>3, <2>1
  <2> QED BY <1>2, <1>3, <2>2 DEF Launches
<1>4. CASE /\ Fault(k.k)
           /\ lastErr' = [lastErr EXCEPT ![t] = TRUE]
           /\ UNCHANGED queue
  <2>1. faults' \in Nat /\ k.k \in Faulty
    BY <1>2, <1>4 DEF Fault
  <2> QED BY <1>1, <1>2, <1>4, <2>1 DEF Launches
<1> QED BY <1>3, <1>4 DEF launch

LEMMA MovesShape ==
  ASSUME TInv, NEW t \in Threads, NEW pc \in HostSteps, NEW in, NEW out, NEW count,
         Moves(t, pc, in, out, count), call[t].pc # "idle",
         pc \in Launching => call[t].op # "reserve",
         pc \in {"header", "encrypt"} => call[t].op = "seal",
         pc = "decrypt" => call[t].op = "open"
  PROVE  CallShape'
<1> SUFFICES ASSUME NEW u \in Threads PROVE ShapeOf(call'[u])
  BY DEF CallShape, ShapeOf
<1>1. CASE u = t
  BY <1>1 DEF TInv, CallShape, ShapeOf, Moves, HostSteps
<1>2. CASE u # t
  BY <1>2 DEF TInv, CallShape, ShapeOf, Moves
<1> QED BY <1>1, <1>2

LEMMA ReturnsShape ==
  ASSUME TInv, NEW t \in Threads, NEW rc, Returns(t, rc)
  PROVE  CallShape'
<1> SUFFICES ASSUME NEW u \in Threads PROVE ShapeOf(call'[u])
  BY DEF CallShape, ShapeOf
<1>1. CASE u = t
  BY <1>1, IdleTyped DEF ShapeOf, Returns, Launching
<1>2. CASE u # t
  BY <1>2 DEF TInv, CallShape, ShapeOf, Returns
<1> QED BY <1>1, <1>2

\* The end of ensure_workspace: on to the launches, or back to the caller.
Continues(t) ==
  \/ /\ call[t].op = "seal" /\ done' = done
     /\ Moves(t, "header", call[t].in, call[t].out, call[t].count)
  \/ /\ call[t].op = "open" /\ done' = done
     /\ Moves(t, "segment", call[t].in, call[t].out, call[t].count)
  \/ /\ call[t].op = "reserve" /\ done' = done
     /\ Returns(t, "OK")

LEMMA AfterWorkspaceContinues ==
  ASSUME TypeOK, NEW t \in Threads, AfterWorkspace(t)
  PROVE  Continues(t)
<1>1. "header" \in HostSteps /\ "segment" \in HostSteps
  BY DEF HostSteps
<1>2. CASE call[t].op = "seal" /\ Goto(t, "header") /\ UNCHANGED done
  BY <1>1, <1>2, GotoMoves DEF Continues
<1>3. CASE call[t].op = "open" /\ Goto(t, "segment") /\ UNCHANGED done
  BY <1>1, <1>3, GotoMoves DEF Continues
<1>4. CASE call[t].op = "reserve" /\ Return(t, "OK")
  <2>1. Returns(t, "OK")
    BY <1>4, ReturnReturns
  <2> QED BY <1>4, <2>1 DEF Continues, Returns
<1> QED BY <1>2, <1>3, <1>4 DEF AfterWorkspace

LEMMA ContinuesTyped ==
  ASSUME TInv, NEW t \in Threads, Continues(t), call[t].pc # "idle"
  PROVE  CallShape' /\ call' \in [Threads -> CallT] /\ done' \in [Threads -> DoneT]
<1>1. "header" \in HostSteps /\ "segment" \in HostSteps
  BY DEF HostSteps
<1>2. CASE /\ call[t].op = "seal" /\ done' = done
           /\ Moves(t, "header", call[t].in, call[t].out, call[t].count)
  BY <1>1, <1>2, MovesShape, ArraysTyped DEF TInv, Moves
<1>3. CASE /\ call[t].op = "open" /\ done' = done
           /\ Moves(t, "segment", call[t].in, call[t].out, call[t].count)
  BY <1>1, <1>3, MovesShape, ArraysTyped DEF TInv, Moves
<1>4. CASE Returns(t, "OK")
  BY <1>4, ReturnsShape DEF Returns
<1> QED BY <1>2, <1>3, <1>4 DEF Continues

\* An allocation: size nodes that were never written.
Allocates(p, size) ==
  /\ p \in Ptrs \ DOMAIN mem
  /\ DOMAIN mem' = DOMAIN mem \cup {p}
  /\ \A q \in DOMAIN mem : mem'[q] = mem[q]
  /\ DOMAIN mem'[p] = 0 .. size - 1
  /\ \A i \in 0 .. size - 1 : mem'[p][i] = NoNode

MemTyped ==
  /\ DOMAIN mem \subseteq Ptrs
  /\ \A p \in DOMAIN mem : mem[p] \in [DOMAIN mem[p] -> Nodes]
  /\ MemShape

LEMMA MallocAllocates ==
  ASSUME TypeOK, MemShape, NEW p, NEW size \in Nat, cudaMalloc(p, size)
  PROVE  Allocates(p, size) /\ MemTyped'
<1>1. p \in Ptrs \ DOMAIN mem
  BY DEF cudaMalloc, Addresses
<1> DEFINE new == [i \in 0 .. size - 1 |-> NoNode]
<1>2. new \in [0 .. size - 1 -> Nodes] /\ DOMAIN new = 0 .. size - 1
      /\ \A i \in 0 .. size - 1 : new[i] = NoNode
  BY DataTyped
<1>3. mem' = [q \in DOMAIN mem \cup {p} |-> IF q = p THEN new ELSE mem[q]]
  BY DEF cudaMalloc
<1> HIDE DEF new
<1>4. Allocates(p, size) /\ mem'[p] = new
  BY <1>1, <1>2, <1>3 DEF Allocates
<1>5. MemTyped'
  <2>1. DOMAIN mem' \subseteq Ptrs
    BY <1>1, <1>4 DEF Allocates, TypeOK
  <2>2. ASSUME NEW q \in DOMAIN mem' PROVE mem'[q] \in [DOMAIN mem'[q] -> Nodes]
    <3>1. CASE q = p
      BY <1>2, <1>4, <3>1
    <3>2. CASE q # p
      <4>1. q \in DOMAIN mem /\ mem'[q] = mem[q]
        BY <1>4, <3>2 DEF Allocates
      <4>2. mem[q] \in [DOMAIN mem[q] -> Nodes]
        BY <4>1 DEF TypeOK
      <4> QED BY <4>1, <4>2
    <3> QED BY <3>1, <3>2
  <2>3. ASSUME NEW q \in DOMAIN mem' PROVE DOMAIN mem'[q] \subseteq Nat
    BY <1>4 DEF Allocates, MemShape
  <2> QED BY <2>1, <2>2, <2>3 DEF MemTyped, MemShape
<1> QED BY <1>4, <1>5

LEMMA SmallerMemTyped ==
  ASSUME TypeOK, MemShape, NEW D, D \subseteq DOMAIN mem, mem' = [q \in D |-> mem[q]]
  PROVE  MemTyped'
<1>1. DOMAIN mem' = D /\ \A q \in D : mem'[q] = mem[q]
  OBVIOUS
<1>2. \A q \in D : mem[q] \in [DOMAIN mem[q] -> Nodes]
  BY DEF TypeOK
<1>3. \A q \in DOMAIN mem' : mem'[q] \in [DOMAIN mem'[q] -> Nodes]
                               /\ DOMAIN mem'[q] \subseteq Nat
  BY <1>1, <1>2 DEF MemShape
<1> QED BY <1>1, <1>3 DEF MemTyped, MemShape, TypeOK

LEMMA FreeTyped ==
  ASSUME TypeOK, MemShape, NEW p, cudaFree(p)
  PROVE  MemTyped'
<1>1. CASE p = None
  BY <1>1 DEF cudaFree, TypeOK, MemTyped, MemShape
<1>2. CASE p # None
  <2>1. mem' = [q \in DOMAIN mem \ {p} |-> mem[q]]
    BY <1>2 DEF cudaFree
  <2> QED BY <2>1, SmallerMemTyped
<1> QED BY <1>1, <1>2

LEMMA MallocFailsTyped ==
  ASSUME TypeOK, NEW t \in Threads, cudaMallocFails(t)
  PROVE  lastErr' \in [Threads -> BOOLEAN] /\ faults' \in Nat /\ mem' = mem
<1>1. lastErr \in [Threads -> BOOLEAN] /\ faults \in Nat
  BY DEF TypeOK
<1> QED BY <1>1 DEF cudaMallocFails, Fault

-----------------------------------------------------------------------------
(* The effects of the host's steps, which every invariant below uses.      *)

EnsureEffect(t) ==
  /\ call[t].pc = "workspace" /\ call[t].h \in Handles
  /\ UNCHANGED <<handle, queue, buf, sealed, calls>>
  /\ \/ /\ required_nodes(call[t].n) <= handle[call[t].h].cap
        /\ Continues(t) /\ mem' = mem /\ lastErr' = lastErr /\ faults' = faults
     \/ \E p \in Ptrs :
          /\ required_nodes(call[t].n) > handle[call[t].h].cap
          /\ Allocates(p, required_nodes(call[t].n)) /\ MemTyped'
          /\ Moves(t, "malloc_b", p, call[t].out, call[t].count)
          /\ done' = done /\ lastErr' = lastErr /\ faults' = faults
     \/ /\ Returns(t, "ERR_ALLOC")
        /\ cudaMallocFails(t) /\ mem' = mem

LEMMA HandleOfCall ==
  ASSUME TInv, NEW t \in Threads, call[t].pc # "idle"
  PROVE  /\ call[t].h \in Handles
         /\ handle[call[t].h] \in HandleT /\ handle[call[t].h].cap \in Nat
         /\ handle[call[t].h].a \in NullPtrs /\ handle[call[t].h].b \in NullPtrs
<1>1. call[t].h \in Handles
  BY DEF TInv, CallShape, ShapeOf
<1>2. handle[call[t].h] \in HandleT
  BY <1>1, ArraysTyped DEF TInv
<1> QED BY <1>1, <1>2 DEF HandleT

\* A successful allocation, and where the thread keeps its address.
LEMMA MoveWithIn ==
  ASSUME TypeOK, NEW t \in Threads, NEW p \in NullPtrs, NEW pc \in HostSteps,
         call' = [call EXCEPT ![t].in = p, ![t].pc = pc]
  PROVE  Moves(t, pc, p, call[t].out, call[t].count)
<1>1. call[t] \in CallT /\ call \in [Threads -> CallT]
  BY ArraysTyped
<1> DEFINE c == [pc |-> pc, op |-> call[t].op, h |-> call[t].h, s |-> call[t].s,
                 n |-> call[t].n, iv |-> call[t].iv, in |-> p,
                 out |-> call[t].out, count |-> call[t].count]
           d == [call[t] EXCEPT !.in = p]
           e == [d EXCEPT !.pc = pc]
<1>2. c \in CallT
  BY <1>1, FieldsTyped DEF CallT
<1>3. d = [pc |-> call[t].pc, op |-> call[t].op, h |-> call[t].h, s |-> call[t].s,
           n |-> call[t].n, iv |-> call[t].iv, in |-> p,
           out |-> call[t].out, count |-> call[t].count]
  BY <1>1 DEF CallT
<1>4. e = c
  <2>1. \A r : r = [pc |-> call[t].pc, op |-> call[t].op, h |-> call[t].h,
                    s |-> call[t].s, n |-> call[t].n, iv |-> call[t].iv,
                    in |-> p, out |-> call[t].out, count |-> call[t].count]
               => [r EXCEPT !.pc = pc] = c
    OBVIOUS
  <2> HIDE DEF c, d
  <2> QED BY <1>3, <2>1
<1>5. [call EXCEPT ![t].in = p] = [call EXCEPT ![t] = d]
  OBVIOUS
<1> DEFINE f == [call EXCEPT ![t] = d]
<1>6. f[t] = d /\ call' = [f EXCEPT ![t].pc = pc]
  BY <1>1, <1>5
<1>7. [f EXCEPT ![t].pc = pc] = [f EXCEPT ![t] = e]
  BY <1>6
<1>8. [f EXCEPT ![t] = e] = [call EXCEPT ![t] = e]
  BY <1>1
<1>9. call' = [call EXCEPT ![t] = c]
  BY <1>4, <1>6, <1>7, <1>8
<1> HIDE DEF c
<1> QED BY <1>2, <1>9, MoveOf DEF Moves, c

LEMMA MoveWithOut ==
  ASSUME TypeOK, NEW t \in Threads, NEW p \in NullPtrs, NEW pc \in HostSteps,
         call' = [call EXCEPT ![t].out = p, ![t].pc = pc]
  PROVE  Moves(t, pc, call[t].in, p, call[t].count)
<1>1. call[t] \in CallT /\ call \in [Threads -> CallT]
  BY ArraysTyped
<1> DEFINE c == [pc |-> pc, op |-> call[t].op, h |-> call[t].h, s |-> call[t].s,
                 n |-> call[t].n, iv |-> call[t].iv, in |-> call[t].in,
                 out |-> p, count |-> call[t].count]
           d == [call[t] EXCEPT !.out = p]
           e == [d EXCEPT !.pc = pc]
<1>2. c \in CallT
  BY <1>1, FieldsTyped DEF CallT
<1>3. d = [pc |-> call[t].pc, op |-> call[t].op, h |-> call[t].h, s |-> call[t].s,
           n |-> call[t].n, iv |-> call[t].iv, in |-> call[t].in,
           out |-> p, count |-> call[t].count]
  BY <1>1 DEF CallT
<1>4. e = c
  <2>1. \A r : r = [pc |-> call[t].pc, op |-> call[t].op, h |-> call[t].h,
                    s |-> call[t].s, n |-> call[t].n, iv |-> call[t].iv,
                    in |-> call[t].in, out |-> p, count |-> call[t].count]
               => [r EXCEPT !.pc = pc] = c
    OBVIOUS
  <2> HIDE DEF c, d
  <2> QED BY <1>3, <2>1
<1>5. [call EXCEPT ![t].out = p] = [call EXCEPT ![t] = d]
  OBVIOUS
<1> DEFINE f == [call EXCEPT ![t] = d]
<1>6. f[t] = d /\ call' = [f EXCEPT ![t].pc = pc]
  BY <1>1, <1>5
<1>7. [f EXCEPT ![t].pc = pc] = [f EXCEPT ![t] = e]
  BY <1>6
<1>8. [f EXCEPT ![t] = e] = [call EXCEPT ![t] = e]
  BY <1>1
<1>9. call' = [call EXCEPT ![t] = c]
  BY <1>4, <1>6, <1>7, <1>8
<1> HIDE DEF c
<1> QED BY <1>2, <1>9, MoveOf DEF Moves, c

LEMMA EnsureDoes ==
  ASSUME TInv, NEW t \in Threads, EnsureWorkspace(t)
  PROVE  EnsureEffect(t)
<1>1. call[t].pc = "workspace" /\ UNCHANGED <<handle, queue, buf, sealed, calls>>
  BY DEF EnsureWorkspace
<1>2. /\ call[t].h \in Handles /\ handle[call[t].h].cap \in Nat
      /\ required_nodes(call[t].n) \in Nat \ {0}
  BY <1>1, HandleOfCall, FieldsTyped, NodesNeeded DEF TInv
<1>3. CASE /\ is_kept(call[t].h, call[t].n) /\ AfterWorkspace(t)
           /\ UNCHANGED <<lastErr, faults, mem>>
  BY <1>1, <1>2, <1>3, AfterWorkspaceContinues DEF EnsureEffect, is_kept, TInv
<1>4. ASSUME NEW p \in Ptrs, cudaMalloc(p, required_nodes(call[t].n)),
             ~ is_kept(call[t].h, call[t].n), UNCHANGED done,
             call' = [call EXCEPT ![t].in = p, ![t].pc = "malloc_b"]
      PROVE  EnsureEffect(t)
  <2>1. Moves(t, "malloc_b", p, call[t].out, call[t].count)
    BY <1>4, MoveWithIn DEF TInv, NullPtrs, HostSteps
  <2>2. Allocates(p, required_nodes(call[t].n)) /\ MemTyped'
    BY <1>2, <1>4, MallocAllocates DEF TInv
  <2>3. lastErr' = lastErr /\ faults' = faults
    BY <1>4 DEF cudaMalloc
  <2>4. required_nodes(call[t].n) > handle[call[t].h].cap
    BY <1>2, <1>4 DEF is_kept
  <2> QED BY <1>1, <1>2, <1>4, <2>1, <2>2, <2>3, <2>4 DEF EnsureEffect
<1>5. CASE cudaMallocFails(t) /\ Return(t, "ERR_ALLOC")
  BY <1>1, <1>2, <1>5, ReturnReturns, MallocFailsTyped DEF EnsureEffect, TInv
<1> QED BY <1>3, <1>4, <1>5 DEF EnsureWorkspace

MallocBEffect(t) ==
  /\ call[t].pc = "malloc_b"
  /\ UNCHANGED <<done, handle, queue, buf, sealed, calls>>
  /\ \/ \E p \in Ptrs :
          /\ Allocates(p, required_nodes(call[t].n)) /\ MemTyped'
          /\ Moves(t, "free_a", call[t].in, p, call[t].count)
          /\ lastErr' = lastErr /\ faults' = faults
     \/ /\ Moves(t, "undo", call[t].in, call[t].out, call[t].count)
        /\ cudaMallocFails(t) /\ mem' = mem

LEMMA MallocBDoes ==
  ASSUME TInv, NEW t \in Threads, MallocB(t)
  PROVE  MallocBEffect(t)
<1>1. call[t].pc = "malloc_b" /\ UNCHANGED <<done, handle, queue, buf, sealed, calls>>
  BY DEF MallocB
<1>2. required_nodes(call[t].n) \in Nat \ {0}
  BY FieldsTyped, NodesNeeded DEF TInv
<1>3. ASSUME NEW p \in Ptrs, cudaMalloc(p, required_nodes(call[t].n)),
             call' = [call EXCEPT ![t].out = p, ![t].pc = "free_a"]
      PROVE  MallocBEffect(t)
  <2>1. Moves(t, "free_a", call[t].in, p, call[t].count)
    BY <1>3, MoveWithOut DEF TInv, NullPtrs, HostSteps
  <2>2. Allocates(p, required_nodes(call[t].n)) /\ MemTyped'
    BY <1>2, <1>3, MallocAllocates DEF TInv
  <2>3. lastErr' = lastErr /\ faults' = faults
    BY <1>3 DEF cudaMalloc
  <2> QED BY <1>1, <2>1, <2>2, <2>3 DEF MallocBEffect
<1>4. CASE cudaMallocFails(t) /\ Goto(t, "undo")
  <2>1. Moves(t, "undo", call[t].in, call[t].out, call[t].count)
    BY <1>4, GotoMoves DEF TInv, HostSteps
  <2> QED BY <1>1, <1>4, <2>1, MallocFailsTyped DEF MallocBEffect, TInv
<1> QED BY <1>3, <1>4 DEF MallocB

UndoEffect(t) ==
  /\ call[t].pc = "undo"
  /\ cudaFree(call[t].in) /\ MemTyped'
  /\ Returns(t, "ERR_ALLOC")
  /\ UNCHANGED <<lastErr, handle, queue, buf, sealed, calls, faults>>

LEMMA UndoDoes ==
  ASSUME TInv, NEW t \in Threads, Undo(t)
  PROVE  UndoEffect(t)
BY ReturnReturns, FreeTyped DEF UndoEffect, Undo, TInv

FreeAEffect(t) ==
  /\ call[t].pc = "free_a" /\ call[t].h \in Handles
  /\ cudaFree(handle[call[t].h].a) /\ MemTyped'
  /\ Moves(t, "free_b", call[t].in, call[t].out, call[t].count)
  /\ UNCHANGED <<done, lastErr, handle, queue, buf, sealed, calls, faults>>

LEMMA FreeADoes ==
  ASSUME TInv, NEW t \in Threads, FreeA(t)
  PROVE  FreeAEffect(t)
<1>1. call[t].pc = "free_a" /\ Goto(t, "free_b")
  BY DEF FreeA
<1>2. Moves(t, "free_b", call[t].in, call[t].out, call[t].count)
  BY <1>1, GotoMoves DEF TInv, HostSteps
<1>3. call[t].h \in Handles
  BY <1>1, HandleOfCall
<1> QED BY <1>1, <1>2, <1>3, FreeTyped DEF FreeAEffect, FreeA, TInv

\* What changes in a handle: all of it but its state and its powers of H.
Rebuilt(h, x, y, z) ==
  /\ handle' \in [Handles -> HandleT]
  /\ \A g \in Handles \ {h} : handle'[g] = handle[g]
  /\ handle'[h] = [state |-> handle[h].state, h_pow2 |-> handle[h].h_pow2,
                   a |-> x, b |-> y, cap |-> z]

LEMMA RebuiltOf ==
  ASSUME TypeOK, NEW h \in Handles, NEW x \in NullPtrs, NEW y \in NullPtrs, NEW z \in Nat,
         handle' = [handle EXCEPT ![h].a = x, ![h].b = y, ![h].cap = z]
  PROVE  Rebuilt(h, x, y, z)
<1>1. handle \in [Handles -> HandleT] /\ handle[h] \in HandleT
  BY ArraysTyped
<1> DEFINE r == handle[h]
           new == [state |-> r.state, h_pow2 |-> r.h_pow2, a |-> x, b |-> y, cap |-> z]
           ra == [r EXCEPT !.a = x]
           rb == [ra EXCEPT !.b = y]
           rc == [rb EXCEPT !.cap = z]
           fa == [handle EXCEPT ![h] = ra]
           fb == [fa EXCEPT ![h] = rb]
<1>2. ra = [state |-> r.state, h_pow2 |-> r.h_pow2, a |-> x, b |-> r.b, cap |-> r.cap]
  BY <1>1 DEF HandleT
<1>3. rb = [state |-> r.state, h_pow2 |-> r.h_pow2, a |-> x, b |-> y, cap |-> r.cap]
  <2>1. \A q : q = [state |-> r.state, h_pow2 |-> r.h_pow2, a |-> x, b |-> r.b,
                    cap |-> r.cap]
               => [q EXCEPT !.b = y] = [state |-> r.state, h_pow2 |-> r.h_pow2,
                                        a |-> x, b |-> y, cap |-> r.cap]
    OBVIOUS
  <2> HIDE DEF r, ra
  <2> QED BY <1>2, <2>1
<1>4. rc = new
  <2>1. \A q : q = [state |-> r.state, h_pow2 |-> r.h_pow2, a |-> x, b |-> y,
                    cap |-> r.cap]
               => [q EXCEPT !.cap = z] = new
    OBVIOUS
  <2> HIDE DEF r, rb, new
  <2> QED BY <1>3, <2>1
<1>5. new \in HandleT
  BY <1>1 DEF HandleT
<1>6. fa[h] = ra /\ handle' = [fa EXCEPT ![h].b = y, ![h].cap = z]
  BY <1>1
<1>7. fb[h] = rb /\ handle' = [fb EXCEPT ![h].cap = z]
  BY <1>1, <1>6
<1>8. handle' = [fb EXCEPT ![h] = rc]
  BY <1>7
<1>9. [fb EXCEPT ![h] = rc] = [handle EXCEPT ![h] = rc]
  BY <1>1
<1>10. handle' = [handle EXCEPT ![h] = new]
  BY <1>4, <1>8, <1>9
<1> HIDE DEF new
<1>11. /\ handle' \in [Handles -> HandleT] /\ handle'[h] = new
       /\ \A g \in Handles \ {h} : handle'[g] = handle[g]
  BY <1>1, <1>5, <1>10
<1> QED BY <1>11 DEF Rebuilt, new

FreeBEffect(t) ==
  /\ call[t].pc = "free_b" /\ call[t].h \in Handles
  /\ cudaFree(handle[call[t].h].b) /\ MemTyped'
  /\ Rebuilt(call[t].h, call[t].in, call[t].out, required_nodes(call[t].n))
  /\ Continues(t)
  /\ UNCHANGED <<lastErr, queue, buf, sealed, calls, faults>>

LEMMA FreeBDoes ==
  ASSUME TInv, NEW t \in Threads, FreeB(t)
  PROVE  FreeBEffect(t)
<1>1. call[t].pc = "free_b"
  BY DEF FreeB
<1>2. call[t].h \in Handles /\ required_nodes(call[t].n) \in Nat
      /\ call[t].in \in NullPtrs /\ call[t].out \in NullPtrs
  BY <1>1, HandleOfCall, FieldsTyped, NodesNeeded DEF TInv
<1>3. Rebuilt(call[t].h, call[t].in, call[t].out, required_nodes(call[t].n))
  BY <1>2, RebuiltOf DEF FreeB, TInv
<1> QED BY <1>1, <1>2, <1>3, FreeTyped, AfterWorkspaceContinues DEF FreeBEffect, FreeB, TInv

\* The kernels of a call.
HeaderKernel(t) == [k |-> "header", h |-> call[t].h, b |-> t, iv |-> call[t].iv]
EncryptKernel(t) == [k |-> "encrypt", h |-> call[t].h, b |-> t, n |-> call[t].n,
                     pt |-> call[t].iv]
SegmentKernel(t) == [k |-> "segment", h |-> call[t].h, b |-> t, n |-> call[t].n,
                     out |-> handle[call[t].h].a]
CombineKernel(t) == [k |-> "combine", h |-> call[t].h, b |-> t, n |-> call[t].n,
                     in |-> call[t].in, out |-> call[t].out,
                     count |-> call[t].count]
RootKernel(t, k) == [k |-> k, h |-> call[t].h, b |-> t, n |-> call[t].n,
                     in |-> call[t].in]
DecryptKernel(t) == [k |-> "decrypt", h |-> call[t].h, b |-> t, n |-> call[t].n]

LEMMA KernelsTyped ==
  ASSUME TInv, NEW t \in Threads, call[t].pc # "idle"
  PROVE  /\ HeaderKernel(t) \in Kernels /\ EncryptKernel(t) \in Kernels
         /\ SegmentKernel(t) \in Kernels /\ CombineKernel(t) \in Kernels
         /\ RootKernel(t, "finalize") \in Kernels /\ RootKernel(t, "verify") \in Kernels
         /\ DecryptKernel(t) \in Kernels
<1>1. /\ call[t].h \in Handles /\ handle[call[t].h].a \in NullPtrs
      /\ call[t].n \in Nat /\ call[t].iv \in Nat /\ call[t].in \in NullPtrs
      /\ call[t].out \in NullPtrs /\ call[t].count \in Nat
  BY HandleOfCall, FieldsTyped DEF TInv
<1>2. HeaderKernel(t) \in Kernels
  BY <1>1 DEF HeaderKernel, Kernels
<1>3. EncryptKernel(t) \in Kernels
  BY <1>1 DEF EncryptKernel, Kernels
<1>4. SegmentKernel(t) \in Kernels
  BY <1>1 DEF SegmentKernel, Kernels
<1>5. CombineKernel(t) \in Kernels
  BY <1>1 DEF CombineKernel, Kernels
<1>6. RootKernel(t, "finalize") \in Kernels /\ RootKernel(t, "verify") \in Kernels
  BY <1>1 DEF RootKernel, Kernels
<1>7. DecryptKernel(t) \in Kernels
  BY <1>1 DEF DecryptKernel, Kernels
<1> QED BY <1>2, <1>3, <1>4, <1>5, <1>6, <1>7

HeaderEffect(t) ==
  /\ call[t].pc = "header" /\ call[t].op = "seal" /\ call[t].h \in Handles
  /\ call[t].s \in Streams
  /\ Launches(t, HeaderKernel(t))
  /\ Moves(t, IF call[t].n > 0 THEN "encrypt" ELSE "segment",
           call[t].in, call[t].out, call[t].count)
  /\ UNCHANGED <<done, handle, mem, buf, sealed, calls>>

EncryptEffect(t) ==
  /\ call[t].pc = "encrypt" /\ call[t].op = "seal" /\ call[t].h \in Handles
  /\ call[t].s \in Streams
  /\ Launches(t, EncryptKernel(t))
  /\ Moves(t, "segment", call[t].in, call[t].out, call[t].count)
  /\ UNCHANGED <<done, handle, mem, buf, sealed, calls>>

\* A GHASH launch, with the check that follows it.
GhashEffect(t, in, out, count) ==
  /\ UNCHANGED <<handle, mem, buf, sealed, calls>>
  /\ \/ /\ lastErr'[t] = TRUE
        /\ Returns(t, "ERR_CUDA")
     \/ /\ lastErr'[t] = FALSE
        /\ done' = done
        /\ Moves(t, IF count > 1 THEN "combine" ELSE "tag", in, out, count)

SegmentEffect(t) ==
  /\ call[t].pc = "segment" /\ call[t].op \in {"seal", "open"}
  /\ call[t].h \in Handles /\ call[t].s \in Streams
  /\ Launches(t, SegmentKernel(t))
  /\ GhashEffect(t, handle[call[t].h].a, handle[call[t].h].b, required_nodes(call[t].n))

CombineEffect(t) ==
  /\ call[t].pc = "combine" /\ call[t].op \in {"seal", "open"}
  /\ call[t].h \in Handles /\ call[t].s \in Streams
  /\ Launches(t, CombineKernel(t))
  /\ GhashEffect(t, call[t].out, call[t].in, halved(call[t].count))

PeekReturns(t) ==
  \/ lastErr'[t] = FALSE /\ Returns(t, "OK")
  \/ lastErr'[t] = TRUE /\ Returns(t, "ERR_CUDA")

FinalizeEffect(t) ==
  /\ call[t].pc = "tag" /\ call[t].op = "seal"
  /\ call[t].h \in Handles /\ call[t].s \in Streams
  /\ Launches(t, RootKernel(t, "finalize"))
  /\ PeekReturns(t)
  /\ UNCHANGED <<handle, mem, buf, sealed, calls>>

VerifyEffect(t) ==
  /\ call[t].pc = "tag" /\ call[t].op = "open"
  /\ call[t].h \in Handles /\ call[t].s \in Streams
  /\ Launches(t, RootKernel(t, "verify"))
  /\ \/ /\ call[t].n > 0 /\ done' = done
        /\ Moves(t, "decrypt", call[t].in, call[t].out, call[t].count)
     \/ ~ (call[t].n > 0) /\ PeekReturns(t)
  /\ UNCHANGED <<handle, mem, buf, sealed, calls>>

DecryptEffect(t) ==
  /\ call[t].pc = "decrypt" /\ call[t].op = "open"
  /\ call[t].h \in Handles /\ call[t].s \in Streams
  /\ Launches(t, DecryptKernel(t))
  /\ PeekReturns(t)
  /\ UNCHANGED <<handle, mem, buf, sealed, calls>>

LEMMA LaunchingCall ==
  ASSUME TInv, NEW t \in Threads, call[t].pc \in Launching
  PROVE  /\ call[t].h \in Handles /\ call[t].s \in Streams
         /\ call[t].op \in {"seal", "open"}
         /\ call[t].pc # "idle" /\ call[t].n \in Nat
<1>1. call[t].pc # "idle" /\ call[t].op \in Ops /\ call[t].n \in Nat
  BY FieldsTyped DEF TInv, Launching
<1> QED BY <1>1 DEF TInv, CallShape, ShapeOf, Ops

LEMMA HeaderDoes ==
  ASSUME TInv, NEW t \in Threads, LaunchHeader(t)
  PROVE  HeaderEffect(t)
<1>1. call[t].pc = "header" /\ call[t].pc \in Launching
  BY DEF LaunchHeader, Launching
<1>2. call[t].h \in Handles /\ call[t].s \in Streams /\ call[t].op = "seal" /\ call[t].pc # "idle"
  BY <1>1, LaunchingCall DEF TInv, CallShape, ShapeOf
<1>3. Launches(t, HeaderKernel(t))
  BY <1>2, KernelsTyped, LaunchLaunches DEF LaunchHeader, HeaderKernel, TInv
<1>4. Moves(t, IF call[t].n > 0 THEN "encrypt" ELSE "segment",
            call[t].in, call[t].out, call[t].count)
  BY GotoMoves DEF LaunchHeader, HostSteps, TInv
<1> QED BY <1>1, <1>2, <1>3, <1>4 DEF HeaderEffect, LaunchHeader

LEMMA EncryptDoes ==
  ASSUME TInv, NEW t \in Threads, LaunchEncrypt(t)
  PROVE  EncryptEffect(t)
<1>1. call[t].pc = "encrypt" /\ call[t].pc \in Launching
  BY DEF LaunchEncrypt, Launching
<1>2. call[t].h \in Handles /\ call[t].s \in Streams /\ call[t].op = "seal" /\ call[t].pc # "idle"
  BY <1>1, LaunchingCall DEF TInv, CallShape, ShapeOf
<1>3. Launches(t, EncryptKernel(t))
  BY <1>2, KernelsTyped, LaunchLaunches DEF LaunchEncrypt, EncryptKernel, TInv
<1>4. Moves(t, "segment", call[t].in, call[t].out, call[t].count)
  BY GotoMoves DEF LaunchEncrypt, HostSteps, TInv
<1> QED BY <1>1, <1>2, <1>3, <1>4 DEF EncryptEffect, LaunchEncrypt

\* The assignments after a GHASH launch that succeeded.
LEMMA MoveAlong ==
  ASSUME TypeOK, NEW t \in Threads, NEW x \in NullPtrs, NEW y \in NullPtrs, NEW z \in Nat,
         NEW pc \in HostSteps,
         call' = [call EXCEPT ![t] = [@ EXCEPT !.in = x, !.out = y, !.count = z, !.pc = pc]]
  PROVE  Moves(t, pc, x, y, z)
<1> DEFINE c == [pc |-> pc, op |-> call[t].op, h |-> call[t].h, s |-> call[t].s,
                 n |-> call[t].n, iv |-> call[t].iv, in |-> x, out |-> y, count |-> z]
           e == [call[t] EXCEPT !.in = x, !.out = y, !.count = z, !.pc = pc]
<1>1. call[t] \in CallT /\ call \in [Threads -> CallT]
  BY ArraysTyped
<1>2. c \in CallT
  BY FieldsTyped DEF CallT
<1>3. e = c
  <2> DEFINE q == call[t]
             d1 == [q EXCEPT !.in = x]
             d2 == [d1 EXCEPT !.out = y]
             d3 == [d2 EXCEPT !.count = z]
             d4 == [d3 EXCEPT !.pc = pc]
             R(p, i, o, m) == [pc |-> p, op |-> q.op, h |-> q.h, s |-> q.s, n |-> q.n,
                               iv |-> q.iv, in |-> i, out |-> o, count |-> m]
  <2>1. q = R(q.pc, q.in, q.out, q.count)
    BY <1>1 DEF CallT
  <2>2. \A p, i, o, m, r : r = R(p, i, o, m) =>
          /\ [r EXCEPT !.in = x] = R(p, x, o, m)
          /\ [r EXCEPT !.out = y] = R(p, i, y, m)
          /\ [r EXCEPT !.count = z] = R(p, i, o, z)
          /\ [r EXCEPT !.pc = pc] = R(pc, i, o, m)
    OBVIOUS
  <2>3. c = R(pc, x, y, z) /\ e = d4
    OBVIOUS
  <2> HIDE DEF q, R, c
  <2>4. d1 = R(q.pc, x, q.out, q.count)
    BY <2>1, <2>2
  <2> HIDE DEF d1
  <2>5. d2 = R(q.pc, x, y, q.count)
    BY <2>2, <2>4
  <2> HIDE DEF d2
  <2>6. d3 = R(q.pc, x, y, z)
    BY <2>2, <2>5
  <2> HIDE DEF d3
  <2>7. d4 = R(pc, x, y, z)
    BY <2>2, <2>6
  <2> QED BY <2>3, <2>7
<1>4. call' = [call EXCEPT ![t] = e]
  BY <1>1
<1> HIDE DEF c, e
<1>5. call' = [call EXCEPT ![t] = c]
  BY <1>3, <1>4
<1> QED BY <1>2, <1>5, MoveOf DEF Moves, c

LEMMA SegmentDoes ==
  ASSUME TInv, NEW t \in Threads, LaunchSegment(t)
  PROVE  SegmentEffect(t)
<1> DEFINE m == required_nodes(call[t].n)
           h == call[t].h
<1>1. call[t].pc = "segment" /\ call[t].pc \in Launching
  BY DEF LaunchSegment, Launching
<1>2. h \in Handles /\ call[t].s \in Streams /\ call[t].op \in {"seal", "open"}
      /\ call[t].pc # "idle"
  BY <1>1, LaunchingCall
<1>3. Launches(t, SegmentKernel(t))
  BY <1>2, KernelsTyped, LaunchLaunches DEF LaunchSegment, SegmentKernel, TInv
<1>4. lastErr'[t] \in BOOLEAN
  BY <1>3 DEF Launches
<1>5. m \in Nat /\ handle[h].a \in NullPtrs /\ handle[h].b \in NullPtrs
  BY <1>2, HandleOfCall, FieldsTyped, NodesNeeded DEF TInv
<1>6. ASSUME lastErr'[t] = TRUE
      PROVE  GhashEffect(t, handle[h].a, handle[h].b, m)
  BY <1>6, ReturnReturns DEF LaunchSegment, GhashEffect, TInv
<1>7. ASSUME lastErr'[t] = FALSE
      PROVE  GhashEffect(t, handle[h].a, handle[h].b, m)
  <2>1. /\ call' = [call EXCEPT ![t] =
              [@ EXCEPT !.in = handle[h].a, !.out = handle[h].b, !.count = m,
                        !.pc = IF m > 1 THEN "combine" ELSE "tag"]]
        /\ UNCHANGED <<done, handle, mem, buf, sealed, calls>>
    BY <1>7 DEF LaunchSegment
  <2>2. (IF m > 1 THEN "combine" ELSE "tag") \in HostSteps
    BY DEF HostSteps
  <2> HIDE DEF m
  <2>3. Moves(t, IF m > 1 THEN "combine" ELSE "tag", handle[h].a, handle[h].b, m)
    BY <1>5, <2>1, <2>2, MoveAlong DEF TInv
  <2> QED BY <1>7, <2>1, <2>3 DEF GhashEffect, m
<1>8. GhashEffect(t, handle[h].a, handle[h].b, m)
  BY <1>4, <1>6, <1>7
<1> QED BY <1>1, <1>2, <1>3, <1>8 DEF SegmentEffect

LEMMA CombineDoes ==
  ASSUME TInv, NEW t \in Threads, LaunchCombine(t)
  PROVE  CombineEffect(t)
<1> DEFINE m == halved(call[t].count)
<1>1. call[t].pc = "combine" /\ call[t].pc \in Launching
  BY DEF LaunchCombine, Launching
<1>2. call[t].h \in Handles /\ call[t].s \in Streams /\ call[t].op \in {"seal", "open"}
      /\ call[t].pc # "idle"
  BY <1>1, LaunchingCall
<1>3. Launches(t, CombineKernel(t))
  BY <1>2, KernelsTyped, LaunchLaunches DEF LaunchCombine, CombineKernel, TInv
<1>4. lastErr'[t] \in BOOLEAN
  BY <1>3 DEF Launches
<1>5. m \in Nat /\ call[t].in \in NullPtrs /\ call[t].out \in NullPtrs
  BY FieldsTyped, Halving DEF TInv
<1>6. ASSUME lastErr'[t] = TRUE
      PROVE  GhashEffect(t, call[t].out, call[t].in, m)
  BY <1>6, ReturnReturns DEF LaunchCombine, GhashEffect, TInv
<1>7. ASSUME lastErr'[t] = FALSE
      PROVE  GhashEffect(t, call[t].out, call[t].in, m)
  <2>1. /\ call' = [call EXCEPT ![t] =
              [@ EXCEPT !.in = call[t].out, !.out = call[t].in, !.count = m,
                        !.pc = IF m > 1 THEN "combine" ELSE "tag"]]
        /\ UNCHANGED <<done, handle, mem, buf, sealed, calls>>
    BY <1>7 DEF LaunchCombine
  <2>2. (IF m > 1 THEN "combine" ELSE "tag") \in HostSteps
    BY DEF HostSteps
  <2> HIDE DEF m
  <2>3. Moves(t, IF m > 1 THEN "combine" ELSE "tag", call[t].out, call[t].in, m)
    BY <1>5, <2>1, <2>2, MoveAlong DEF TInv
  <2> QED BY <1>7, <2>1, <2>3 DEF GhashEffect, m
<1>8. GhashEffect(t, call[t].out, call[t].in, m)
  BY <1>4, <1>6, <1>7
<1> QED BY <1>1, <1>2, <1>3, <1>8 DEF CombineEffect

LEMMA PeekedReturns ==
  ASSUME TInv, NEW t \in Threads, lastErr'[t] \in BOOLEAN, Return(t, peeked(t))
  PROVE  PeekReturns(t)
<1>1. CASE lastErr'[t] = TRUE
  <2>1. Return(t, "ERR_CUDA")
    BY <1>1 DEF peeked
  <2> QED BY <1>1, <2>1, ReturnReturns DEF PeekReturns, TInv
<1>2. CASE lastErr'[t] = FALSE
  <2>1. Return(t, "OK")
    BY <1>2 DEF peeked
  <2> QED BY <1>2, <2>1, ReturnReturns DEF PeekReturns, TInv
<1> QED BY <1>1, <1>2

LEMMA FinalizeDoes ==
  ASSUME TInv, NEW t \in Threads, LaunchFinalize(t)
  PROVE  FinalizeEffect(t)
<1>1. call[t].pc = "tag" /\ call[t].pc \in Launching /\ call[t].op = "seal"
  BY DEF LaunchFinalize, Launching
<1>2. call[t].h \in Handles /\ call[t].s \in Streams /\ call[t].pc # "idle"
  BY <1>1, LaunchingCall
<1>3. Launches(t, RootKernel(t, "finalize"))
  BY <1>2, KernelsTyped, LaunchLaunches DEF LaunchFinalize, RootKernel, TInv
<1>4. PeekReturns(t)
  BY <1>3, PeekedReturns DEF Launches, LaunchFinalize
<1> QED BY <1>1, <1>2, <1>3, <1>4 DEF FinalizeEffect, LaunchFinalize

LEMMA VerifyDoes ==
  ASSUME TInv, NEW t \in Threads, LaunchVerify(t)
  PROVE  VerifyEffect(t)
<1>1. call[t].pc = "tag" /\ call[t].pc \in Launching /\ call[t].op = "open"
  BY DEF LaunchVerify, Launching
<1>2. call[t].h \in Handles /\ call[t].s \in Streams /\ call[t].pc # "idle"
  BY <1>1, LaunchingCall
<1>3. Launches(t, RootKernel(t, "verify"))
  BY <1>2, KernelsTyped, LaunchLaunches DEF LaunchVerify, RootKernel, TInv
<1>4. CASE call[t].n > 0
  <2>1. Moves(t, "decrypt", call[t].in, call[t].out, call[t].count)
    BY <1>4, GotoMoves DEF LaunchVerify, HostSteps, TInv
  <2> QED BY <1>1, <1>2, <1>3, <1>4, <2>1 DEF VerifyEffect, LaunchVerify
<1>5. CASE ~ (call[t].n > 0)
  <2>1. PeekReturns(t)
    BY <1>3, <1>5, PeekedReturns DEF Launches, LaunchVerify
  <2> QED BY <1>1, <1>2, <1>3, <1>5, <2>1 DEF VerifyEffect, LaunchVerify
<1> QED BY <1>4, <1>5

LEMMA DecryptDoes ==
  ASSUME TInv, NEW t \in Threads, LaunchDecrypt(t)
  PROVE  DecryptEffect(t)
<1>1. call[t].pc = "decrypt" /\ call[t].pc \in Launching
  BY DEF LaunchDecrypt, Launching
<1>2. call[t].h \in Handles /\ call[t].s \in Streams /\ call[t].pc # "idle" /\ call[t].op = "open"
  BY <1>1, LaunchingCall DEF TInv, CallShape, ShapeOf
<1>3. Launches(t, DecryptKernel(t))
  BY <1>2, KernelsTyped, LaunchLaunches DEF LaunchDecrypt, DecryptKernel, TInv
<1>4. PeekReturns(t)
  BY <1>3, PeekedReturns DEF Launches, LaunchDecrypt
<1> QED BY <1>1, <1>2, <1>3, <1>4 DEF DecryptEffect, LaunchDecrypt

-----------------------------------------------------------------------------
(* The effects of what a caller does.                                      *)

Begins(t, op, h, s, n, iv) ==
  /\ call[t] = Idle /\ handle[h].state = "live"
  /\ calls' = calls + 1
  /\ call' \in [Threads -> CallT]
  /\ \A u \in Threads \ {t} : call'[u] = call[u]
  /\ call'[t] = [pc |-> "workspace", op |-> op, h |-> h, s |-> s, n |-> n,
                 iv |-> iv, in |-> None, out |-> None, count |-> 0]

LEMMA BeginBegins ==
  ASSUME TypeOK, NEW t \in Threads, NEW op \in Ops, NEW h \in Handles,
         NEW s \in Streams \cup {None}, NEW n \in Nat, NEW iv \in Nat,
         Begin(t, op, h, s, n, iv)
  PROVE  Begins(t, op, h, s, n, iv)
<1> DEFINE c == [pc |-> "workspace", op |-> op, h |-> h, s |-> s, n |-> n,
                 iv |-> iv, in |-> None, out |-> None, count |-> 0]
<1>1. c \in CallT
  BY DEF CallT, HostSteps, NullPtrs
<1>3. call' = [call EXCEPT ![t] = c] /\ call[t] = Idle /\ handle[h].state = "live"
      /\ calls' = calls + 1
  BY DEF Begin
<1> HIDE DEF c
<1> QED BY <1>1, <1>3, MoveOf DEF Begins, c

LEMMA BeginsTyped ==
  ASSUME TInv, NEW t \in Threads, NEW op \in {"seal", "open", "reserve"},
         NEW h \in Handles, NEW s, op # "reserve" => s \in Streams, NEW n, NEW iv,
         Begins(t, op, h, s, n, iv)
  PROVE  CallShape' /\ calls' \in Nat
<1>1. calls' \in Nat
  BY DEF TInv, TypeOK, Begins
<1>2. ASSUME NEW u \in Threads PROVE ShapeOf(call'[u])
  <2>1. CASE u = t
    BY <2>1 DEF ShapeOf, Begins, Launching
  <2>2. CASE u # t
    BY <2>2 DEF TInv, CallShape, ShapeOf, Begins
  <2> QED BY <2>1, <2>2
<1> QED BY <1>1, <1>2 DEF CallShape, ShapeOf

\* A write to one buffer of one thread.
LEMMA BufferSet ==
  ASSUME TypeOK, NEW t \in Threads, NEW r \in BufT, buf' = [buf EXCEPT ![t] = r]
  PROVE  /\ buf' \in [Threads -> BufT] /\ buf'[t] = r
         /\ \A u \in Threads \ {t} : buf'[u] = buf[u]
BY ArraysTyped

LEMMA BufferFieldsTyped ==
  ASSUME TypeOK, NEW t \in Threads
  PROVE  /\ buf[t] \in BufT /\ buf[t].ver \in {0, 1, 2} /\ buf[t].iv \in Int
         /\ buf[t].ct \in Cts /\ buf[t].tag \in Tags /\ buf[t].n \in Nat
         /\ buf[t].auth \in {0, 1}
<1>1. buf[t] \in BufT
  BY ArraysTyped
<1> QED BY <1>1 DEF BufT

LEMMA BufferUpdates ==
  ASSUME TypeOK, NEW t \in Threads
  PROVE  /\ \A n \in Nat : [buf[t] EXCEPT !.n = n] \in BufT
         /\ [buf[t] EXCEPT !.ver = 1] \in BufT
         /\ \A ct \in Cts : [buf[t] EXCEPT !.ct = ct] \in BufT
         /\ \A tag \in Tags : [buf[t] EXCEPT !.tag = tag] \in BufT
         /\ \A auth \in {0, 1} : [buf[t] EXCEPT !.auth = auth] \in BufT
         /\ [buf[t] EXCEPT !.plain = Zeroed] \in BufT
         /\ [buf[t] EXCEPT !.plain = Poison] \in BufT
         /\ \A key \in Handles, n \in Nat, f \in Frames :
              [buf[t] EXCEPT !.plain = Decrypted(key, f, n)] \in BufT
<1>1. buf[t] \in BufT
  BY ArraysTyped
<1>2. \A key \in Handles, n \in Nat, f \in Frames :
        Decrypted(key, f, n) \in [kind : {"decrypted"}, key : Handles,
                                  frame : Frames, n : Nat]
  BY DEF Decrypted
<1>3. \A p \in {Poison, Zeroed} \cup
               [kind : {"decrypted"}, key : Handles, frame : Frames, n : Nat] :
        [buf[t] EXCEPT !.plain = p] \in BufT
  BY <1>1 DEF BufT
<1>4. /\ \A n \in Nat : [buf[t] EXCEPT !.n = n] \in BufT
      /\ [buf[t] EXCEPT !.ver = 1] \in BufT
      /\ \A ct \in Cts : [buf[t] EXCEPT !.ct = ct] \in BufT
      /\ \A tag \in Tags : [buf[t] EXCEPT !.tag = tag] \in BufT
      /\ \A auth \in {0, 1} : [buf[t] EXCEPT !.auth = auth] \in BufT
  BY <1>1 DEF BufT
<1> QED BY <1>2, <1>3, <1>4

SealEffect(t, h, s, n, iv) ==
  /\ BufferFree(t, s) /\ HandleFree(h, s)
  /\ Begins(t, "seal", h, s, n, iv)
  /\ done' = [done EXCEPT ![t] = Nothing]
  /\ buf' = [buf EXCEPT ![t] = [buf[t] EXCEPT !.n = n]] /\ buf' \in [Threads -> BufT]
  /\ UNCHANGED <<lastErr, handle, mem, queue, sealed, faults>>

LEMMA SealDoes ==
  ASSUME TInv, NEW t \in Threads, NEW h \in Handles, NEW s \in Streams,
         NEW n \in Lens, CallSeal(t, h, s, n, calls + 1)
  PROVE  SealEffect(t, h, s, n, calls + 1)
<1>1. n \in Nat /\ calls + 1 \in Nat
  BY ConstantsAssumption DEF TInv, TypeOK
<1>2. Begins(t, "seal", h, s, n, calls + 1)
  BY <1>1, BeginBegins DEF CallSeal, Ops, TInv
<1>3. buf' = [buf EXCEPT ![t] = [buf[t] EXCEPT !.n = n]]
  BY DEF CallSeal
<1>4. [buf[t] EXCEPT !.n = n] \in BufT
  BY <1>1, BufferUpdates DEF TInv
<1>5. buf' \in [Threads -> BufT]
  BY <1>3, <1>4, BufferSet DEF TInv
<1> QED BY <1>2, <1>3, <1>5 DEF SealEffect, CallSeal

OpenEffect(t, h, s) ==
  /\ BufferFree(t, s) /\ HandleFree(h, s)
  /\ ClearAuth => /\ buf[t].auth = 0
                  /\ \A k \in KernelsOn(s) : ~ (k.b = t /\ k.k = "verify")
  /\ Begins(t, "open", h, s, buf[t].n, 0)
  /\ done' = [done EXCEPT ![t] = Nothing]
  /\ UNCHANGED <<lastErr, handle, mem, queue, buf, sealed, faults>>

LEMMA OpenDoes ==
  ASSUME TInv, NEW t \in Threads, NEW h \in Handles, NEW s \in Streams, CallOpen(t, h, s)
  PROVE  OpenEffect(t, h, s)
<1>1. buf[t].n \in Nat
  BY BufferFieldsTyped DEF TInv
<1>2. Begins(t, "open", h, s, buf[t].n, 0)
  BY <1>1, BeginBegins DEF CallOpen, Ops, TInv
<1> QED BY <1>2 DEF OpenEffect, CallOpen

ReserveEffect(t, h, n) ==
  /\ \E s \in Streams : HandleFree(h, s)
  /\ Begins(t, "reserve", h, None, n, 0)
  /\ UNCHANGED <<done, lastErr, handle, mem, queue, buf, sealed, faults>>

LEMMA ReserveDoes ==
  ASSUME TInv, NEW t \in Threads, NEW h \in Handles, NEW n \in Lens, CallReserve(t, h, n)
  PROVE  ReserveEffect(t, h, n)
<1>1. n \in Nat
  BY ConstantsAssumption
<1>2. Begins(t, "reserve", h, None, n, 0)
  BY <1>1, BeginBegins DEF CallReserve, Ops, TInv
<1> QED BY <1>2 DEF ReserveEffect, CallReserve

-----------------------------------------------------------------------------
(* The effects of the kernels.                                             *)

LEMMA KernelFields ==
  ASSUME NEW k \in Kernels
  PROVE  /\ k.h \in Handles /\ k.b \in Threads
         /\ k.k \in {"header", "encrypt", "segment", "combine", "finalize",
                    "verify", "decrypt"}
         /\ k.k = "header" => k.iv \in Nat
         /\ k.k = "encrypt" => k.n \in Nat /\ k.pt \in Nat
         /\ k.k = "segment" => k.n \in Nat /\ k.out \in NullPtrs
         /\ k.k = "combine" => /\ k.in \in NullPtrs /\ k.out \in NullPtrs
                               /\ k.count \in Nat /\ k.n \in Nat
         /\ k.k \in {"finalize", "verify"} => k.n \in Nat /\ k.in \in NullPtrs
         /\ k.k = "decrypt" => k.n \in Nat
BY DEF Kernels

\* The device has run the first kernel of stream s.
Runs(s, k) ==
  /\ queue[s] # <<>> /\ k = Head(queue[s]) /\ k \in Kernels
  /\ queue' \in [Streams -> Seq(Kernels)]
  /\ queue'[s] = Tail(queue[s])
  /\ \A r \in Streams \ {s} : queue'[r] = queue[r]
  /\ UNCHANGED <<call, done, lastErr, handle, calls, faults>>

\* A kernel that writes a buffer only.
Writes(k, r) ==
  /\ buf' = [buf EXCEPT ![k.b] = r] /\ r \in BufT
  /\ mem' = mem /\ sealed' = sealed

EncryptedCt(k) == [key |-> k.h, iv |-> buf[k.b].iv, pt |-> k.pt]

RootMatches(k) == SameTag(buf[k.b].tag, Tag(k.h, buf[k.b].iv, load(k.in, 0)))

SegmentNode(k, i) ==
  [hk |-> handle[k.h].h_pow2, ct |-> ciphertext(k.b, k.n),
   lo |-> i * GHASH_SEGMENT_BLOCKS,
   hi |-> smaller((i + 1) * GHASH_SEGMENT_BLOCKS, k.n + 1)]

CombineNode(k, i) ==
  IF 2 * i + 1 >= k.count
  THEN load(k.in, 2 * i)
  ELSE joined(load(k.in, 2 * i), load(k.in, 2 * i + 1), handle[k.h].h_pow2)

\* Nodes 0 .. m - 1 of one workspace are written, with what N says.
Stores(p, m, N) ==
  /\ DOMAIN mem' = DOMAIN mem
  /\ \A q \in DOMAIN mem :
       /\ DOMAIN mem'[q] = DOMAIN mem[q]
       /\ \A i \in DOMAIN mem[q] :
            mem'[q][i] = IF q = p /\ i < m THEN N[i] ELSE mem[q][i]
  /\ buf' = buf /\ sealed' = sealed

LEMMA StoresTyped ==
  ASSUME TInv, NEW p, NEW m, NEW N, N \in [Nat -> Nodes], Stores(p, m, N),
         \A q \in DOMAIN mem : mem'[q] = [i \in DOMAIN mem'[q] |-> mem'[q][i]]
  PROVE  MemTyped'
<1>1. ASSUME NEW q \in DOMAIN mem
      PROVE  mem'[q] \in [DOMAIN mem'[q] -> Nodes] /\ DOMAIN mem'[q] \subseteq Nat
  <2>1. mem[q] \in [DOMAIN mem[q] -> Nodes] /\ DOMAIN mem[q] \subseteq Nat
    BY DEF TInv, TypeOK, MemShape
  <2>2. \A i \in DOMAIN mem[q] : mem'[q][i] \in Nodes
    BY <2>1 DEF Stores
  <2> QED BY <2>1, <2>2 DEF Stores
<1>2. DOMAIN mem' = DOMAIN mem /\ DOMAIN mem \subseteq Ptrs
  BY DEF Stores, TInv, TypeOK
<1> QED BY <1>1, <1>2 DEF MemTyped, MemShape

LEMMA LoadTyped ==
  ASSUME TInv, NEW p, NEW i
  PROVE  load(p, i) \in Nodes
<1>1. CASE p \in DOMAIN mem /\ i \in DOMAIN mem[p]
  BY <1>1 DEF load, TInv, TypeOK
<1>2. CASE ~ (p \in DOMAIN mem /\ i \in DOMAIN mem[p])
  BY <1>2, DataTyped DEF load
<1> QED BY <1>1, <1>2

LEMMA CiphertextTyped ==
  ASSUME TInv, NEW b \in Threads, NEW n
  PROVE  ciphertext(b, n) \in Cts
BY BufferFieldsTyped, DataTyped DEF ciphertext, TInv

LEMMA JoinedTyped ==
  ASSUME NEW a \in Nodes, NEW b \in Nodes, NEW hk
  PROVE  joined(a, b, hk) \in Nodes
<1>1. [a EXCEPT !.hi = b.hi] \in Nodes
  BY DEF Nodes
<1> QED BY <1>1, DataTyped DEF joined

LEMMA SegmentNodeTyped ==
  ASSUME TInv, NEW k \in Kernels, k.k = "segment"
  PROVE  [i \in Nat |-> SegmentNode(k, i)] \in [Nat -> Nodes]
<1> SUFFICES ASSUME NEW i \in Nat PROVE SegmentNode(k, i) \in Nodes
  OBVIOUS
<1>1. k.h \in Handles /\ k.b \in Threads /\ k.n \in Nat
  BY KernelFields
<1>2. handle[k.h].h_pow2 \in HashKeys
  BY <1>1, ArraysTyped DEF HandleT, TInv
<1>3. i * GHASH_SEGMENT_BLOCKS \in Nat /\ (i + 1) * GHASH_SEGMENT_BLOCKS \in Nat
  BY ConstantsAssumption
<1>4. smaller((i + 1) * GHASH_SEGMENT_BLOCKS, k.n + 1) \in Nat
  BY <1>1, <1>3 DEF smaller
<1> QED BY <1>1, <1>2, <1>3, <1>4, CiphertextTyped DEF SegmentNode, Nodes

LEMMA CombineNodeTyped ==
  ASSUME TInv, NEW k \in Kernels
  PROVE  [i \in Nat |-> CombineNode(k, i)] \in [Nat -> Nodes]
BY LoadTyped, JoinedTyped DEF CombineNode

\* What each kernel does.
RunEffect(s, k) ==
  \/ k.k = "header" /\ buf' = [buf EXCEPT ![k.b].ver = 1, ![k.b].iv = k.iv]
     /\ buf' \in [Threads -> BufT] /\ mem' = mem /\ sealed' = sealed
  \/ k.k = "encrypt" /\ buf' = [buf EXCEPT ![k.b] = [buf[k.b] EXCEPT !.ct = EncryptedCt(k)]]
     /\ buf' \in [Threads -> BufT]
     /\ sealed' = sealed \cup {[key |-> k.h, iv |-> buf[k.b].iv, pt |-> k.pt, n |-> k.n]}
     /\ mem' = mem
  \/ k.k = "segment" /\ MemTyped'
     /\ Stores(k.out, required_nodes(k.n), [i \in Nat |-> SegmentNode(k, i)])
  \/ k.k = "combine" /\ MemTyped'
     /\ Stores(k.out, halved(k.count), [i \in Nat |-> CombineNode(k, i)])
  \/ k.k = "finalize"
     /\ Writes(k, [buf[k.b] EXCEPT !.tag = Tag(k.h, buf[k.b].iv, load(k.in, 0))])
  \/ k.k = "verify"
     /\ Writes(k, [buf[k.b] EXCEPT !.auth =
                     IF buf[k.b].ver = 1 /\ RootMatches(k) THEN 1 ELSE 0])
  \/ k.k = "decrypt"
     /\ Writes(k, [buf[k.b] EXCEPT !.plain =
                     IF buf[k.b].auth = 0
                     THEN Zeroed
                     ELSE Decrypted(k.h, FrameOf(k.b, k.n), k.n)])

LEMMA HeadRuns ==
  ASSUME TInv, NEW s \in Streams, queue[s] # <<>>,
         queue' = [queue EXCEPT ![s] = Tail(@)],
         UNCHANGED <<call, done, lastErr, handle, calls, faults>>
  PROVE  Runs(s, Head(queue[s]))
<1>1. queue \in [Streams -> Seq(Kernels)] /\ queue[s] \in Seq(Kernels)
  BY ArraysTyped DEF TInv
<1>2. Head(queue[s]) \in Kernels /\ Tail(queue[s]) \in Seq(Kernels)
  BY <1>1
<1> QED BY <1>1, <1>2 DEF Runs

LEMMA HeaderRuns ==
  ASSUME TInv, NEW s, NEW k \in Kernels, k.k = "header", write_frame_header_kernel(k)
  PROVE  RunEffect(s, k)
<1>1. k.b \in Threads /\ k.iv \in Nat /\ buf \in [Threads -> BufT] /\ buf[k.b] \in BufT
  BY KernelFields, ArraysTyped DEF TInv
<1> DEFINE r == [buf[k.b] EXCEPT !.ver = 1]
           r2 == [r EXCEPT !.iv = k.iv]
           f == [buf EXCEPT ![k.b] = r]
<1>2. r \in BufT
  BY <1>1, BufferUpdates DEF TInv
<1>3. r2 \in BufT
  <2> HIDE DEF r
  <2> QED BY <1>1, <1>2 DEF BufT
<1>4. f \in [Threads -> BufT] /\ f[k.b] = r
  BY <1>1, <1>2
<1>5. buf' = [f EXCEPT ![k.b].iv = k.iv] /\ mem' = mem /\ sealed' = sealed
  BY DEF write_frame_header_kernel
<1>6. buf' = [f EXCEPT ![k.b] = r2]
  BY <1>4, <1>5
<1>7. buf' \in [Threads -> BufT]
  <2> HIDE DEF f, r2
  <2> QED BY <1>3, <1>4, <1>6
<1> QED BY <1>5, <1>7 DEF RunEffect, write_frame_header_kernel

LEMMA EncryptRuns ==
  ASSUME TInv, NEW s, NEW k \in Kernels, k.k = "encrypt", ctr_encrypt(k)
  PROVE  RunEffect(s, k)
<1> DEFINE r == [buf[k.b] EXCEPT !.ct = EncryptedCt(k)]
<1>1. k.b \in Threads /\ k.h \in Handles /\ k.pt \in Nat /\ buf[k.b].iv \in Int
  BY KernelFields, BufferFieldsTyped DEF TInv
<1>2. EncryptedCt(k) \in Cts
  BY <1>1, DataTyped DEF EncryptedCt
<1>3. r \in BufT
  BY <1>1, <1>2, BufferUpdates DEF TInv
<1>4. buf' = [buf EXCEPT ![k.b] = r] /\ mem' = mem
      /\ sealed' = sealed \cup {[key |-> k.h, iv |-> buf[k.b].iv, pt |-> k.pt, n |-> k.n]}
  BY DEF ctr_encrypt, EncryptedCt
<1> HIDE DEF r
<1>5. buf' \in [Threads -> BufT]
  BY <1>1, <1>3, <1>4, BufferSet DEF TInv
<1> QED BY <1>4, <1>5 DEF RunEffect, r

\* The operator store, read as an array of nodes.
LEMMA SegmentRuns ==
  ASSUME TInv, NEW s, NEW k \in Kernels, k.k = "segment", ghash_segment_kernel(k)
  PROVE  RunEffect(s, k)
<1> DEFINE N == [i \in Nat |-> SegmentNode(k, i)]
           m == required_nodes(k.n)
<1>1. mem' = [q \in DOMAIN mem |->
                IF q = k.out
                THEN [i \in DOMAIN mem[q] |-> IF i < m THEN SegmentNode(k, i) ELSE mem[q][i]]
                ELSE mem[q]]
      /\ buf' = buf /\ sealed' = sealed
  BY DEF ghash_segment_kernel, store, SegmentNode
<1>2. \A i \in Nat : N[i] = SegmentNode(k, i)
  OBVIOUS
<1>3. N \in [Nat -> Nodes]
  BY SegmentNodeTyped
<1> HIDE DEF N, m
<1>4. \A q \in DOMAIN mem : mem[q] = [i \in DOMAIN mem[q] |-> mem[q][i]]
                            /\ DOMAIN mem[q] \subseteq Nat
  BY DEF TInv, TypeOK, MemShape
<1>5. \A q \in DOMAIN mem : mem'[q] = [i \in DOMAIN mem'[q] |-> mem'[q][i]]
  BY <1>1, <1>4
<1>6. Stores(k.out, m, N)
  BY <1>1, <1>2, <1>4 DEF Stores
<1>7. MemTyped'
  BY <1>3, <1>5, <1>6, StoresTyped
<1> QED BY <1>6, <1>7 DEF RunEffect, N, m

LEMMA CombineRuns ==
  ASSUME TInv, NEW s, NEW k \in Kernels, k.k = "combine", ghash_combine_kernel(k)
  PROVE  RunEffect(s, k)
<1> DEFINE N == [i \in Nat |-> CombineNode(k, i)]
           m == halved(k.count)
<1>1. mem' = [q \in DOMAIN mem |->
                IF q = k.out
                THEN [i \in DOMAIN mem[q] |-> IF i < m THEN CombineNode(k, i) ELSE mem[q][i]]
                ELSE mem[q]]
      /\ buf' = buf /\ sealed' = sealed
  BY DEF ghash_combine_kernel, store, CombineNode
<1>2. \A i \in Nat : N[i] = CombineNode(k, i)
  OBVIOUS
<1>3. N \in [Nat -> Nodes]
  BY CombineNodeTyped
<1> HIDE DEF N, m
<1>4. \A q \in DOMAIN mem : mem[q] = [i \in DOMAIN mem[q] |-> mem[q][i]]
                            /\ DOMAIN mem[q] \subseteq Nat
  BY DEF TInv, TypeOK, MemShape
<1>5. \A q \in DOMAIN mem : mem'[q] = [i \in DOMAIN mem'[q] |-> mem'[q][i]]
  BY <1>1, <1>4
<1>6. Stores(k.out, m, N)
  BY <1>1, <1>2, <1>4 DEF Stores
<1>7. MemTyped'
  BY <1>3, <1>5, <1>6, StoresTyped
<1> QED BY <1>6, <1>7 DEF RunEffect, N, m

LEMMA FinalizeRuns ==
  ASSUME TInv, NEW s, NEW k \in Kernels, k.k = "finalize", finalize_tag_kernel(k)
  PROVE  RunEffect(s, k)
<1>1. k.b \in Threads /\ k.h \in Handles /\ buf[k.b].iv \in Int
  BY KernelFields, BufferFieldsTyped DEF TInv
<1>2. Tag(k.h, buf[k.b].iv, load(k.in, 0)) \in Tags
  BY <1>1, DataTyped, LoadTyped
<1>3. [buf[k.b] EXCEPT !.tag = Tag(k.h, buf[k.b].iv, load(k.in, 0))] \in BufT
  BY <1>1, <1>2, BufferUpdates DEF TInv
<1> QED BY <1>3 DEF RunEffect, Writes, finalize_tag_kernel

LEMMA VerifyRuns ==
  ASSUME TInv, NEW s, NEW k \in Kernels, k.k = "verify", verify_tag_kernel(k)
  PROVE  RunEffect(s, k)
<1>1. k.b \in Threads
  BY KernelFields
<1>2. [buf[k.b] EXCEPT !.auth =
         IF buf[k.b].ver = 1 /\ RootMatches(k) THEN 1 ELSE 0] \in BufT
  BY <1>1, BufferUpdates DEF TInv
<1>3. /\ buf' = [buf EXCEPT ![k.b] = [buf[k.b] EXCEPT !.auth =
                   IF buf[k.b].ver = 1 /\ RootMatches(k) THEN 1 ELSE 0]]
      /\ mem' = mem /\ sealed' = sealed
  BY DEF verify_tag_kernel, RootMatches
<1> QED BY <1>2, <1>3 DEF RunEffect, Writes

LEMMA FrameTyped ==
  ASSUME TInv, NEW b \in Threads, NEW n
  PROVE  FrameOf(b, n) \in Frames
BY BufferFieldsTyped, CiphertextTyped DEF FrameOf, Frames, TInv

LEMMA DecryptRuns ==
  ASSUME TInv, NEW s, NEW k \in Kernels, k.k = "decrypt", ctr_decrypt(k)
  PROVE  RunEffect(s, k)
<1>1. k.b \in Threads /\ k.h \in Handles /\ k.n \in Nat /\ FrameOf(k.b, k.n) \in Frames
  BY KernelFields, FrameTyped
<1>2. [buf[k.b] EXCEPT !.plain =
         IF buf[k.b].auth = 0
         THEN Zeroed
         ELSE Decrypted(k.h, FrameOf(k.b, k.n), k.n)] \in BufT
  BY <1>1, BufferUpdates DEF TInv
<1> QED BY <1>2 DEF RunEffect, Writes, ctr_decrypt

LEMMA RunDoes ==
  ASSUME TInv, NEW s \in Streams, RunKernel(s)
  PROVE  Runs(s, Head(queue[s])) /\ RunEffect(s, Head(queue[s]))
<1> DEFINE k == Head(queue[s])
<1>1. Runs(s, k)
  BY HeadRuns DEF RunKernel
<1>2. k \in Kernels
  BY <1>1 DEF Runs
<1>3. \/ k.k = "header" /\ write_frame_header_kernel(k)
      \/ k.k = "encrypt" /\ ctr_encrypt(k)
      \/ k.k = "segment" /\ ghash_segment_kernel(k)
      \/ k.k = "combine" /\ ghash_combine_kernel(k)
      \/ k.k = "finalize" /\ finalize_tag_kernel(k)
      \/ k.k = "verify" /\ verify_tag_kernel(k)
      \/ k.k = "decrypt" /\ ctr_decrypt(k)
  BY DEF RunKernel
<1> HIDE DEF k
<1>4. RunEffect(s, k)
  BY <1>2, <1>3, HeaderRuns, EncryptRuns, SegmentRuns, CombineRuns, FinalizeRuns,
     VerifyRuns, DecryptRuns
<1> QED BY <1>1, <1>4 DEF k

-----------------------------------------------------------------------------
(* Frames from elsewhere, and handles.                                     *)

\* Between calls thread t writes its buffer; a handle's kernels do not use it.
ClientWrites(t) ==
  /\ call[t] = Idle /\ BufferQuiet(t)
  /\ buf' \in [Threads -> BufT]
  /\ \A u \in Threads \ {t} : buf'[u] = buf[u]
  /\ done' = [done EXCEPT ![t] = Nothing]
  /\ UNCHANGED <<call, lastErr, handle, mem, queue, sealed, calls, faults>>

LEMMA ClearDoes ==
  ASSUME TInv, NEW t \in Threads, ClearFlag(t)
  PROVE  ClientWrites(t) /\ buf'[t].iv = buf[t].iv
<1> DEFINE r == [buf[t] EXCEPT !.auth = 0]
           r2 == [r EXCEPT !.plain = Poison]
           f == [buf EXCEPT ![t] = r]
<1>1. buf \in [Threads -> BufT] /\ buf[t] \in BufT
  BY ArraysTyped DEF TInv
<1>2. r \in BufT /\ r.iv = buf[t].iv
  BY <1>1 DEF BufT
<1>3. r2 \in BufT /\ r2.iv = buf[t].iv
  <2>1. \A q \in BufT : [q EXCEPT !.plain = Poison] \in BufT
                        /\ [q EXCEPT !.plain = Poison].iv = q.iv
    BY DEF BufT
  <2> HIDE DEF r
  <2> QED BY <1>2, <2>1
<1>4. f \in [Threads -> BufT] /\ f[t] = r /\ \A u \in Threads \ {t} : f[u] = buf[u]
  BY <1>1, <1>2
<1>5. buf' = [f EXCEPT ![t].plain = Poison]
  BY DEF ClearFlag
<1>6. buf' = [f EXCEPT ![t] = r2]
  BY <1>4, <1>5
<1>7. buf' \in [Threads -> BufT] /\ buf'[t] = r2
      /\ \A u \in Threads \ {t} : buf'[u] = buf[u]
  <2> HIDE DEF f, r2
  <2> QED BY <1>3, <1>4, <1>6
<1> QED BY <1>3, <1>7 DEF ClientWrites, ClearFlag

LEMMA CorruptDoes ==
  ASSUME TInv, NEW t \in Threads, Corrupt(t)
  PROVE  ClientWrites(t) /\ buf'[t].iv = buf[t].iv
<1> DEFINE ct == [buf[t].ct EXCEPT !.pt = -1]
           r == [buf[t] EXCEPT !.ct = ct]
<1>1. buf \in [Threads -> BufT] /\ buf[t] \in BufT
  BY ArraysTyped DEF TInv
<1>2. ct \in Cts
  <2>1. \A c \in Cts : [c EXCEPT !.pt = -1] \in Cts
    BY DEF Cts
  <2>2. buf[t].ct \in Cts
    BY <1>1 DEF BufT
  <2> QED BY <2>1, <2>2
<1>3. buf' = [buf EXCEPT ![t] = r]
  BY <1>1 DEF Corrupt
<1> HIDE DEF ct
<1>4. r \in BufT /\ r.iv = buf[t].iv
  BY <1>1, <1>2 DEF BufT
<1>5. /\ buf' \in [Threads -> BufT] /\ buf'[t] = r
      /\ \A u \in Threads \ {t} : buf'[u] = buf[u]
  <2> HIDE DEF r
  <2> QED BY <1>1, <1>3, <1>4
<1> QED BY <1>4, <1>5 DEF ClientWrites, Corrupt

LEMMA UploadDoes ==
  ASSUME TInv, NEW t \in Threads, NEW h \in Handles, NEW n \in Lens, NEW field \in Uploads,
         Upload(t, h, n, field)
  PROVE  ClientWrites(t)
<1> DEFINE f == Changed(GcmFrame(h, 0, 0, n), field)
           r == [buf[t] EXCEPT !.ver = f.ver, !.iv = f.iv, !.ct = f.ct,
                               !.tag = f.tag, !.n = n]
<1>1. buf \in [Threads -> BufT] /\ buf[t] \in BufT /\ n \in Nat
  BY ArraysTyped, ConstantsAssumption DEF TInv
<1>2. f \in Frames
  BY <1>1, UploadTyped
<1>3. buf' = [buf EXCEPT ![t] = r]
  BY DEF Upload
<1>4. r \in BufT
  <2> DEFINE q == buf[t]
             r1 == [q EXCEPT !.ver = f.ver]
             r2 == [r1 EXCEPT !.iv = f.iv]
             r3 == [r2 EXCEPT !.ct = f.ct]
             r4 == [r3 EXCEPT !.tag = f.tag]
             r5 == [r4 EXCEPT !.n = n]
  <2>1. \A p \in BufT :
          /\ \A x \in {0, 1, 2} : [p EXCEPT !.ver = x] \in BufT
          /\ \A x \in Int : [p EXCEPT !.iv = x] \in BufT
          /\ \A x \in Cts : [p EXCEPT !.ct = x] \in BufT
          /\ \A x \in Tags : [p EXCEPT !.tag = x] \in BufT
          /\ \A x \in Nat : [p EXCEPT !.n = x] \in BufT
    BY DEF BufT
  <2> HIDE DEF f
  <2>2. f.ver \in {0, 1, 2} /\ f.iv \in Int /\ f.ct \in Cts /\ f.tag \in Tags
    BY <1>2 DEF Frames
  <2>3. r = r5
    OBVIOUS
  <2> HIDE DEF q, r
  <2>4. q \in BufT
    BY <1>1 DEF q
  <2>5. r1 \in BufT
    BY <2>1, <2>2, <2>4
  <2> HIDE DEF r1
  <2>6. r2 \in BufT
    BY <2>1, <2>2, <2>5
  <2> HIDE DEF r2
  <2>7. r3 \in BufT
    BY <2>1, <2>2, <2>6
  <2> HIDE DEF r3
  <2>8. r4 \in BufT
    BY <2>1, <2>2, <2>7
  <2> HIDE DEF r4
  <2>9. r5 \in BufT
    BY <1>1, <2>1, <2>8
  <2> QED BY <2>3, <2>9
<1> HIDE DEF r
<1>5. /\ buf' \in [Threads -> BufT]
      /\ \A u \in Threads \ {t} : buf'[u] = buf[u]
  BY <1>3, <1>4, BufferSet DEF TInv
<1> QED BY <1>5 DEF ClientWrites, Upload

CreateEffect(t, h) ==
  /\ call[t] = Idle /\ handle[h].state = "none"
  /\ handle' \in [Handles -> HandleT]
  /\ \A g \in Handles \ {h} : handle'[g] = handle[g]
  /\ handle'[h].a = handle[h].a /\ handle'[h].b = handle[h].b
  /\ handle'[h].cap = handle[h].cap
  /\ \/ handle'[h] = handle[h]
     \/ DeviceIdle /\ handle'[h].state = "live" /\ handle'[h].h_pow2 = h
     \/ /\ DeviceIdle /\ handle'[h].state = "live" /\ handle'[h].h_pow2 \in {None, Zeros}
        /\ "init" \in Faulty /\ lastErr'[t] = TRUE
  /\ lastErr' \in [Threads -> BOOLEAN] /\ faults' \in Nat
  /\ lastErr' = lastErr \/ lastErr' = [lastErr EXCEPT ![t] = TRUE]
  /\ UNCHANGED <<call, done, mem, queue, buf, sealed, calls>>

LEMMA CreateDoes ==
  ASSUME TInv, NEW t \in Threads, NEW h \in Handles, KeyCreate(t, h)
  PROVE  CreateEffect(t, h)
<1> DEFINE r == [handle[h] EXCEPT !.state = "live"]
           r2(x) == [r EXCEPT !.h_pow2 = x]
           f == [handle EXCEPT ![h] = r]
<1>1. handle \in [Handles -> HandleT] /\ handle[h] \in HandleT
      /\ lastErr \in [Threads -> BOOLEAN] /\ faults \in Nat
  BY ArraysTyped DEF TInv, TypeOK
<1>2. /\ r \in HandleT /\ r.a = handle[h].a /\ r.b = handle[h].b /\ r.cap = handle[h].cap
      /\ r.state = "live" /\ r.h_pow2 = handle[h].h_pow2
  BY <1>1 DEF HandleT
<1>3. ASSUME NEW x \in HashKeys
      PROVE  /\ r2(x) \in HandleT /\ r2(x).a = handle[h].a /\ r2(x).b = handle[h].b
             /\ r2(x).cap = handle[h].cap /\ r2(x).state = "live" /\ r2(x).h_pow2 = x
  <2>1. \A q \in HandleT :
          LET z == [q EXCEPT !.h_pow2 = x]
          IN  z \in HandleT /\ z.a = q.a /\ z.b = q.b /\ z.cap = q.cap
              /\ z.state = q.state /\ z.h_pow2 = x
    BY DEF HandleT
  <2> HIDE DEF r
  <2> QED BY <1>2, <2>1
<1>4. f \in [Handles -> HandleT] /\ f[h] = r
      /\ \A g \in Handles \ {h} : f[g] = handle[g]
  BY <1>1, <1>2
<1>5. call[t] = Idle /\ handle[h].state = "none"
      /\ UNCHANGED <<call, done, mem, queue, buf, sealed, calls>>
  BY DEF KeyCreate
<1>6. ASSUME NEW x \in HashKeys,
             handle' = [handle EXCEPT ![h].state = "live", ![h].h_pow2 = x]
      PROVE  /\ handle' \in [Handles -> HandleT]
             /\ \A g \in Handles \ {h} : handle'[g] = handle[g]
             /\ handle'[h].a = handle[h].a /\ handle'[h].b = handle[h].b
             /\ handle'[h].cap = handle[h].cap
             /\ handle'[h].state = "live" /\ handle'[h].h_pow2 = x
  <2>1. handle' = [f EXCEPT ![h].h_pow2 = x]
    BY <1>6
  <2>2. handle' = [f EXCEPT ![h] = r2(x)]
    BY <1>4, <2>1
  <2> HIDE DEF f, r, r2
  <2>3. handle' \in [Handles -> HandleT] /\ handle'[h] = r2(x)
        /\ \A g \in Handles \ {h} : handle'[g] = handle[g]
    BY <1>3, <1>4, <2>2
  <2> QED BY <1>3, <2>3
<1>7. CASE /\ DeviceIdle
           /\ handle' = [handle EXCEPT ![h].state = "live", ![h].h_pow2 = h]
           /\ UNCHANGED <<lastErr, faults>>
  BY <1>1, <1>5, <1>6, <1>7 DEF CreateEffect, HashKeys
<1>8. CASE /\ DeviceIdle /\ Fault("init")
           /\ \E left \in {None, Zeros} :
                handle' = [handle EXCEPT ![h].state = "live", ![h].h_pow2 = left]
           /\ lastErr' = [lastErr EXCEPT ![t] = TRUE]
  <2>1. "init" \in Faulty /\ faults' \in Nat /\ lastErr' \in [Threads -> BOOLEAN]
        /\ lastErr'[t] = TRUE
    BY <1>1, <1>8 DEF Fault
  <2>2. PICK left \in {None, Zeros} :
          handle' = [handle EXCEPT ![h].state = "live", ![h].h_pow2 = left]
    BY <1>8
  <2>3. left \in HashKeys
    BY DEF HashKeys
  <2> QED BY <1>5, <1>6, <1>8, <2>1, <2>2, <2>3 DEF CreateEffect
<1>9. CASE /\ Fault("malloc") /\ lastErr' = [lastErr EXCEPT ![t] = TRUE]
           /\ UNCHANGED handle
  BY <1>1, <1>5, <1>9 DEF CreateEffect, Fault
<1> QED BY <1>7, <1>8, <1>9 DEF KeyCreate

Gone == [state |-> "gone", h_pow2 |-> None, a |-> None, b |-> None, cap |-> 0]

DestroyEffect(t, h) ==
  /\ call[t] = Idle /\ handle[h].state = "live"
  /\ \A u \in Threads : call[u].h # h
  /\ DeviceIdle
  /\ mem' = [q \in DOMAIN mem \ {handle[h].a, handle[h].b} |-> mem[q]] /\ MemTyped'
  /\ handle' \in [Handles -> HandleT] /\ handle'[h] = Gone
  /\ \A g \in Handles \ {h} : handle'[g] = handle[g]
  /\ UNCHANGED <<call, done, lastErr, queue, buf, sealed, calls, faults>>

LEMMA DestroyDoes ==
  ASSUME TInv, NEW t \in Threads, NEW h \in Handles, KeyDestroy(t, h)
  PROVE  DestroyEffect(t, h)
<1>1. Gone \in HandleT
  BY DEF Gone, HandleT, NullPtrs, HashKeys
<1>2. handle' = [handle EXCEPT ![h] = Gone]
      /\ mem' = [q \in DOMAIN mem \ {handle[h].a, handle[h].b} |-> mem[q]]
  BY DEF KeyDestroy, Gone
<1>3. handle' \in [Handles -> HandleT] /\ handle'[h] = Gone
      /\ \A g \in Handles \ {h} : handle'[g] = handle[g]
  BY <1>1, <1>2, ArraysTyped DEF TInv
<1>4. MemTyped'
  BY <1>2, SmallerMemTyped DEF TInv
<1> QED BY <1>2, <1>3, <1>4 DEF DestroyEffect, KeyDestroy

-----------------------------------------------------------------------------
(* Type correctness.                                                       *)

\* Every step is one of these.
HostEffect(t) ==
  \/ EnsureEffect(t) \/ MallocBEffect(t) \/ UndoEffect(t) \/ FreeAEffect(t)
  \/ FreeBEffect(t) \/ HeaderEffect(t) \/ EncryptEffect(t) \/ SegmentEffect(t)
  \/ CombineEffect(t) \/ FinalizeEffect(t) \/ VerifyEffect(t) \/ DecryptEffect(t)

ClientEffect(t) ==
  \/ ClientWrites(t) /\ (\/ ClearFlag(t) \/ Corrupt(t)
                         \/ \E h \in Handles, n \in Lens, field \in Uploads :
                              Upload(t, h, n, field))
  \/ \E h \in Handles : CreateEffect(t, h) \/ DestroyEffect(t, h)
  \/ \E h \in Handles, n \in Lens : ReserveEffect(t, h, n)
  \/ \E h \in Handles, s \in Streams : OpenEffect(t, h, s)
  \/ \E h \in Handles, s \in Streams, n \in Lens : SealEffect(t, h, s, n, calls + 1)

DeviceEffect(s) == Runs(s, Head(queue[s])) /\ RunEffect(s, Head(queue[s]))

LEMMA StepDoes ==
  ASSUME TInv, Next
  PROVE  \/ \E t \in Threads : HostEffect(t) \/ ClientEffect(t)
         \/ \E s \in Streams : DeviceEffect(s)
<1>1. ASSUME NEW t \in Threads, HostStep(t) PROVE HostEffect(t)
  BY <1>1, EnsureDoes, MallocBDoes, UndoDoes, FreeADoes, FreeBDoes, HeaderDoes,
     EncryptDoes, SegmentDoes, CombineDoes, FinalizeDoes, VerifyDoes, DecryptDoes
     DEF HostStep, HostEffect
<1>2. ASSUME NEW t \in Threads, Client(t) PROVE ClientEffect(t)
  <2>1. CASE ClearFlag(t) \/ Corrupt(t)
    BY <2>1, ClearDoes, CorruptDoes DEF ClientEffect
  <2>2. ASSUME NEW h \in Handles, KeyCreate(t, h) \/ KeyDestroy(t, h)
        PROVE  ClientEffect(t)
    BY <2>2, CreateDoes, DestroyDoes DEF ClientEffect
  <2>3. ASSUME NEW h \in Handles, NEW n \in Lens, CallReserve(t, h, n)
        PROVE  ClientEffect(t)
    BY <2>3, ReserveDoes DEF ClientEffect
  <2>4. ASSUME NEW h \in Handles, NEW n \in Lens, NEW field \in Uploads,
               Upload(t, h, n, field)
        PROVE  ClientEffect(t)
    BY <2>4, UploadDoes DEF ClientEffect
  <2>5. ASSUME NEW h \in Handles, NEW s \in Streams, CallOpen(t, h, s)
        PROVE  ClientEffect(t)
    BY <2>5, OpenDoes DEF ClientEffect
  <2>6. ASSUME NEW h \in Handles, NEW s \in Streams, NEW n \in Lens,
               CallSeal(t, h, s, n, calls + 1)
        PROVE  ClientEffect(t)
    BY <2>6, SealDoes DEF ClientEffect
  <2> QED BY <1>2, <2>1, <2>2, <2>3, <2>4, <2>5, <2>6 DEF Client
<1>3. ASSUME NEW s \in Streams, RunKernel(s) PROVE DeviceEffect(s)
  BY <1>3, RunDoes DEF DeviceEffect
<1> QED BY <1>1, <1>2, <1>3 DEF Next

LEMMA MemTypedOf == ASSUME TInv PROVE MemTyped
BY DEF TInv, TypeOK, MemTyped

\* What a step leaves alone keeps its type.
LEMMA TypesKept ==
  ASSUME TInv
  PROVE  /\ call' = call => call' \in [Threads -> CallT] /\ CallShape'
         /\ done' = done => done' \in [Threads -> DoneT]
         /\ lastErr' = lastErr => lastErr' \in [Threads -> BOOLEAN]
         /\ handle' = handle => handle' \in [Handles -> HandleT]
         /\ mem' = mem => MemTyped'
         /\ queue' = queue => queue' \in [Streams -> Seq(Kernels)]
         /\ buf' = buf => buf' \in [Threads -> BufT]
         /\ sealed' = sealed => sealed' \subseteq [key : Handles, iv : Int, pt : Nat, n : Nat]
         /\ calls' = calls => calls' \in Nat
         /\ faults' = faults => faults' \in Nat
<1>1. mem' = mem => MemTyped'
  BY MemTypedOf DEF MemTyped, MemShape
<1>2. call' = call => CallShape'
  BY DEF TInv, CallShape, ShapeOf
<1> QED BY <1>1, <1>2, ArraysTyped DEF TInv, TypeOK

LEMMA Assembled ==
  ASSUME /\ call' \in [Threads -> CallT] /\ done' \in [Threads -> DoneT]
         /\ lastErr' \in [Threads -> BOOLEAN]
         /\ handle' \in [Handles -> HandleT]
         /\ MemTyped' /\ CallShape'
         /\ queue' \in [Streams -> Seq(Kernels)]
         /\ buf' \in [Threads -> BufT]
         /\ sealed' \subseteq [key : Handles, iv : Int, pt : Nat, n : Nat]
         /\ calls' \in Nat /\ faults' \in Nat
  PROVE  TInv'
BY ArraysTypedNext DEF TInv, MemTyped

LEMMA MovesTyped ==
  ASSUME TInv, NEW t \in Threads, NEW pc, NEW in, NEW out, NEW count,
         Moves(t, pc, in, out, count)
  PROVE  call' \in [Threads -> CallT]
BY DEF Moves

LEMMA HostStepTyped ==
  ASSUME TInv, NEW t \in Threads, HostEffect(t)
  PROVE  TInv'
<1>1. CASE EnsureEffect(t)
  <2>1. call[t].pc # "idle"
    BY <1>1 DEF EnsureEffect
  <2>2. handle' = handle /\ queue' = queue /\ buf' = buf /\ sealed' = sealed /\ calls' = calls
    BY <1>1 DEF EnsureEffect
  <2>3. CASE Continues(t) /\ mem' = mem /\ lastErr' = lastErr /\ faults' = faults
    BY <2>1, <2>2, <2>3, ContinuesTyped, TypesKept, Assembled
  <2>4. CASE \E p \in Ptrs :
               /\ MemTyped'
               /\ Moves(t, "malloc_b", p, call[t].out, call[t].count)
               /\ done' = done /\ lastErr' = lastErr /\ faults' = faults
    <3>1. PICK p \in Ptrs : MemTyped' /\ Moves(t, "malloc_b", p, call[t].out, call[t].count)
      BY <2>4
    <3>2. CallShape' /\ call' \in [Threads -> CallT]
      BY <2>1, <3>1, MovesShape, MovesTyped DEF HostSteps, Launching
    <3> QED BY <2>2, <2>4, <3>1, <3>2, TypesKept, Assembled
  <2>5. CASE Returns(t, "ERR_ALLOC") /\ cudaMallocFails(t) /\ mem' = mem
    <3>1. CallShape' /\ call' \in [Threads -> CallT] /\ done' \in [Threads -> DoneT]
      BY <2>5, ReturnsShape DEF Returns
    <3>2. lastErr' \in [Threads -> BOOLEAN] /\ faults' \in Nat
      BY <2>5, MallocFailsTyped DEF TInv
    <3> QED BY <2>2, <2>5, <3>1, <3>2, TypesKept, Assembled
  <2> QED BY <1>1, <2>3, <2>4, <2>5 DEF EnsureEffect
<1>2. CASE MallocBEffect(t)
  <2>1. call[t].pc # "idle" /\ call[t].pc = "malloc_b"
    BY <1>2 DEF MallocBEffect
  <2>2. handle' = handle /\ queue' = queue /\ buf' = buf /\ sealed' = sealed
        /\ calls' = calls /\ done' = done
    BY <1>2 DEF MallocBEffect
  <2>3. CASE \E p \in Ptrs :
               /\ MemTyped'
               /\ Moves(t, "free_a", call[t].in, p, call[t].count)
               /\ lastErr' = lastErr /\ faults' = faults
    <3>1. PICK p \in Ptrs : MemTyped' /\ Moves(t, "free_a", call[t].in, p, call[t].count)
      BY <2>3
    <3>2. CallShape' /\ call' \in [Threads -> CallT]
      BY <2>1, <3>1, MovesShape, MovesTyped DEF HostSteps, Launching
    <3> QED BY <2>2, <2>3, <3>1, <3>2, TypesKept, Assembled
  <2>4. CASE /\ Moves(t, "undo", call[t].in, call[t].out, call[t].count)
             /\ cudaMallocFails(t) /\ mem' = mem
    <3>1. CallShape' /\ call' \in [Threads -> CallT]
      BY <2>1, <2>4, MovesShape, MovesTyped DEF HostSteps, Launching
    <3>2. lastErr' \in [Threads -> BOOLEAN] /\ faults' \in Nat
      BY <2>4, MallocFailsTyped DEF TInv
    <3> QED BY <2>2, <2>4, <3>1, <3>2, TypesKept, Assembled
  <2> QED BY <1>2, <2>3, <2>4 DEF MallocBEffect
<1>3. CASE UndoEffect(t)
  <2>1. CallShape' /\ call' \in [Threads -> CallT] /\ done' \in [Threads -> DoneT]
    BY <1>3, ReturnsShape DEF Returns, UndoEffect
  <2> QED BY <1>3, <2>1, TypesKept, Assembled DEF UndoEffect
<1>4. CASE FreeAEffect(t)
  <2>1. call[t].pc # "idle" /\ Moves(t, "free_b", call[t].in, call[t].out, call[t].count)
    BY <1>4 DEF FreeAEffect
  <2>2. CallShape' /\ call' \in [Threads -> CallT]
    BY <2>1, MovesShape, MovesTyped DEF HostSteps, Launching
  <2> QED BY <1>4, <2>2, TypesKept, Assembled DEF FreeAEffect
<1>5. CASE FreeBEffect(t)
  <2>1. CallShape' /\ call' \in [Threads -> CallT] /\ done' \in [Threads -> DoneT]
    BY <1>5, ContinuesTyped DEF FreeBEffect
  <2>2. handle' \in [Handles -> HandleT]
    BY <1>5 DEF FreeBEffect, Rebuilt
  <2> QED BY <1>5, <2>1, <2>2, TypesKept, Assembled DEF FreeBEffect
<1>6. ASSUME NEW k, Launches(t, k), call' \in [Threads -> CallT],
             done' \in [Threads -> DoneT], CallShape',
             UNCHANGED <<handle, mem, buf, sealed, calls>>
      PROVE  TInv'
  BY <1>6, TypesKept, Assembled DEF Launches
<1>7. ASSUME NEW pc \in HostSteps, NEW in, NEW out, NEW count,
             Moves(t, pc, in, out, count), done' = done, call[t].pc # "idle",
             pc \in Launching => call[t].op # "reserve",
             pc \in {"header", "encrypt"} => call[t].op = "seal",
             pc = "decrypt" => call[t].op = "open"
      PROVE  call' \in [Threads -> CallT] /\ done' \in [Threads -> DoneT] /\ CallShape'
  BY <1>7, MovesShape, MovesTyped, TypesKept
<1>8. ASSUME NEW rc, Returns(t, rc)
      PROVE  call' \in [Threads -> CallT] /\ done' \in [Threads -> DoneT] /\ CallShape'
  BY <1>8, ReturnsShape DEF Returns
<1>9. ASSUME NEW in, NEW out, NEW count, GhashEffect(t, in, out, count),
             call[t].pc # "idle", call[t].op \in {"seal", "open"}
      PROVE  call' \in [Threads -> CallT] /\ done' \in [Threads -> DoneT] /\ CallShape'
  <2>1. CASE Returns(t, "ERR_CUDA")
    BY <1>8, <2>1
  <2>2. CASE done' = done /\ Moves(t, IF count > 1 THEN "combine" ELSE "tag", in, out, count)
    <3> DEFINE pc == IF count > 1 THEN "combine" ELSE "tag"
    <3>1. pc \in HostSteps /\ pc \notin {"header", "encrypt", "decrypt"}
      BY DEF HostSteps
    <3> HIDE DEF pc
    <3> QED BY <1>7, <1>9, <2>2, <3>1 DEF pc
  <2> QED BY <1>9, <2>1, <2>2 DEF GhashEffect
<1>10. ASSUME PeekReturns(t)
       PROVE  call' \in [Threads -> CallT] /\ done' \in [Threads -> DoneT] /\ CallShape'
  BY <1>8, <1>10 DEF PeekReturns
<1>11. CASE HeaderEffect(t)
  <2> DEFINE pc == IF call[t].n > 0 THEN "encrypt" ELSE "segment"
  <2>1. pc \in HostSteps /\ pc # "decrypt"
    BY DEF HostSteps
  <2>2. call[t].pc # "idle" /\ call[t].op = "seal" /\ done' = done
        /\ Moves(t, pc, call[t].in, call[t].out, call[t].count)
    BY <1>11 DEF HeaderEffect
  <2> HIDE DEF pc
  <2>3. call' \in [Threads -> CallT] /\ done' \in [Threads -> DoneT] /\ CallShape'
    BY <1>7, <2>1, <2>2
  <2> QED BY <1>6, <1>11, <2>3 DEF HeaderEffect
<1>12. CASE EncryptEffect(t)
  <2>1. call[t].pc # "idle" /\ call[t].op = "seal" /\ done' = done /\ "segment" \in HostSteps
        /\ Moves(t, "segment", call[t].in, call[t].out, call[t].count)
    BY <1>12 DEF EncryptEffect, HostSteps
  <2>2. call' \in [Threads -> CallT] /\ done' \in [Threads -> DoneT] /\ CallShape'
    BY <1>7, <2>1
  <2> QED BY <1>6, <1>12, <2>2 DEF EncryptEffect
<1>13. CASE SegmentEffect(t)
  BY <1>6, <1>9, <1>13 DEF SegmentEffect, GhashEffect
<1>14. CASE CombineEffect(t)
  BY <1>6, <1>9, <1>14 DEF CombineEffect, GhashEffect
<1>15. CASE FinalizeEffect(t)
  BY <1>6, <1>10, <1>15 DEF FinalizeEffect
<1>16. CASE VerifyEffect(t)
  <2>1. CASE /\ done' = done
             /\ Moves(t, "decrypt", call[t].in, call[t].out, call[t].count)
    <3>1. "decrypt" \in HostSteps /\ call[t].op = "open" /\ call[t].pc # "idle"
      BY <1>16 DEF HostSteps, VerifyEffect
    <3>2. call' \in [Threads -> CallT] /\ done' \in [Threads -> DoneT] /\ CallShape'
      BY <1>7, <2>1, <3>1
    <3> QED BY <1>6, <1>16, <3>2 DEF VerifyEffect
  <2>2. CASE PeekReturns(t)
    BY <1>6, <1>10, <1>16, <2>2 DEF VerifyEffect
  <2> QED BY <1>16, <2>1, <2>2 DEF VerifyEffect
<1>17. CASE DecryptEffect(t)
  BY <1>6, <1>10, <1>17 DEF DecryptEffect
<1> QED BY <1>1, <1>2, <1>3, <1>4, <1>5, <1>11, <1>12, <1>13, <1>14, <1>15, <1>16, <1>17
        DEF HostEffect

LEMMA ClientStepTyped ==
  ASSUME TInv, NEW t \in Threads, ClientEffect(t)
  PROVE  TInv'
<1>1. done \in [Threads -> DoneT] /\ [done EXCEPT ![t] = Nothing] \in [Threads -> DoneT]
  BY ArraysTyped, IdleTyped DEF TInv
<1>2. CASE ClientWrites(t)
  BY <1>1, <1>2, TypesKept, Assembled DEF ClientWrites
<1>3. ASSUME NEW h \in Handles, CreateEffect(t, h) PROVE TInv'
  BY <1>3, TypesKept, Assembled DEF CreateEffect
<1>4. ASSUME NEW h \in Handles, DestroyEffect(t, h) PROVE TInv'
  BY <1>4, TypesKept, Assembled DEF DestroyEffect
<1>5. ASSUME NEW h \in Handles, NEW n \in Lens, ReserveEffect(t, h, n) PROVE TInv'
  <2>1. CallShape' /\ calls' \in Nat /\ call' \in [Threads -> CallT]
    BY <1>5, BeginsTyped DEF ReserveEffect, Begins
  <2> QED BY <1>5, <2>1, TypesKept, Assembled DEF ReserveEffect
<1>6. ASSUME NEW h \in Handles, NEW s \in Streams, OpenEffect(t, h, s) PROVE TInv'
  <2>1. CallShape' /\ calls' \in Nat /\ call' \in [Threads -> CallT]
    BY <1>6, BeginsTyped DEF OpenEffect, Begins
  <2> QED BY <1>1, <1>6, <2>1, TypesKept, Assembled DEF OpenEffect
<1>7. ASSUME NEW h \in Handles, NEW s \in Streams, NEW n \in Lens,
             SealEffect(t, h, s, n, calls + 1)
      PROVE  TInv'
  <2>1. CallShape' /\ calls' \in Nat /\ call' \in [Threads -> CallT]
    BY <1>7, BeginsTyped DEF SealEffect, Begins
  <2> QED BY <1>1, <1>7, <2>1, TypesKept, Assembled DEF SealEffect
<1> QED BY <1>2, <1>3, <1>4, <1>5, <1>6, <1>7 DEF ClientEffect

LEMMA DeviceStepTyped ==
  ASSUME TInv, NEW s \in Streams, DeviceEffect(s)
  PROVE  TInv'
<1> DEFINE k == Head(queue[s])
<1>1. Runs(s, k) /\ RunEffect(s, k)
  BY DEF DeviceEffect
<1> HIDE DEF k
<1>2. k \in Kernels /\ k.b \in Threads /\ k.h \in Handles
  BY <1>1, KernelFields DEF Runs
<1>3. MemTyped' /\ buf' \in [Threads -> BufT]
      /\ sealed' \subseteq [key : Handles, iv : Int, pt : Nat, n : Nat]
  <2>1. CASE k.k = "encrypt" /\ buf' \in [Threads -> BufT] /\ mem' = mem
             /\ sealed' = sealed \cup {[key |-> k.h, iv |-> buf[k.b].iv, pt |-> k.pt, n |-> k.n]}
    <3>1. k.pt \in Nat /\ k.n \in Nat /\ buf[k.b].iv \in Int
      BY <1>2, <2>1, KernelFields, BufferFieldsTyped DEF TInv
    <3>2. sealed \subseteq [key : Handles, iv : Int, pt : Nat, n : Nat]
      BY DEF TInv, TypeOK
    <3> QED BY <1>2, <2>1, <3>1, <3>2, TypesKept
  <2>2. ASSUME NEW r, Writes(k, r)
        PROVE  MemTyped' /\ buf' \in [Threads -> BufT]
               /\ sealed' \subseteq [key : Handles, iv : Int, pt : Nat, n : Nat]
    BY <1>2, <2>2, BufferSet, TypesKept DEF Writes, TInv
  <2>3. CASE MemTyped' /\ buf' = buf /\ sealed' = sealed
    BY <2>3, TypesKept
  <2>4. CASE mem' = mem /\ buf' \in [Threads -> BufT] /\ sealed' = sealed
    BY <2>4, TypesKept
  <2> QED BY <1>1, <2>1, <2>2, <2>3, <2>4 DEF RunEffect, Stores
<1> QED BY <1>1, <1>3, TypesKept, Assembled DEF Runs

LEMMA InitTyped == Init => TInv
<1> SUFFICES ASSUME Init PROVE TInv
  OBVIOUS
<1>1. PICK auth \in [Threads -> {0, 1}] :
        buf = [t \in Threads |->
                [ver |-> 0, iv |-> 0, ct |-> NoCt, tag |-> NoTag, n |-> 0,
                 plain |-> Poison, auth |-> auth[t]]]
  BY DEF Init
<1>2. buf \in [Threads -> BufT]
  BY <1>1, DataTyped DEF BufT
<1>3. call \in [Threads -> CallT] /\ done \in [Threads -> DoneT]
      /\ lastErr \in [Threads -> BOOLEAN]
  BY IdleTyped DEF Init
<1>4. handle \in [Handles -> HandleT]
  BY DEF HashKeys, Init, HandleT, NullPtrs
<1>5. DOMAIN mem = {}
  BY DEF Init
<1>6. queue \in [Streams -> Seq(Kernels)] /\ sealed = {} /\ calls \in Nat /\ faults \in Nat
  BY ConstantsAssumption DEF Init
<1>7. TypeOK
  BY <1>2, <1>3, <1>4, <1>5, <1>6 DEF TypeOK, CallT, DoneT, HandleT, BufT
<1>8. CallShape
  BY IdleTyped DEF Init, CallShape, ShapeOf, Launching
<1> QED BY <1>5, <1>7, <1>8 DEF TInv, MemShape

LEMMA NextTyped == TInv /\ [Next]_vars => TInv'
<1> SUFFICES ASSUME TInv, [Next]_vars PROVE TInv'
  OBVIOUS
<1>1. CASE Next
  BY <1>1, StepDoes, HostStepTyped, ClientStepTyped, DeviceStepTyped
<1>2. CASE UNCHANGED vars
  BY <1>2, TypesKept, Assembled DEF vars
<1> QED BY <1>1, <1>2

LEMMA TypeInvariance == Spec => []TInv
BY InitTyped, NextTyped, PTL DEF Spec

\* The variables keep their types, whatever fails and however many threads,
\* streams and handles there are.
THEOREM TypeCorrect == Spec => []TypeOK
<1>1. TInv => TypeOK
  BY DEF TInv
<1> QED BY <1>1, TypeInvariance, PTL

-----------------------------------------------------------------------------
(* Memory: one thread at a time calls with a handle.                       *)

Allocating == {"malloc_b", "undo", "free_a", "free_b"}

\* Between the two frees the first workspace of a handle is gone.
Freed(h) == \E t \in Threads : call[t].pc = "free_b" /\ call[t].h = h

\* Two calls in progress are calls with different handles.
OneCall ==
  \A t, u \in Threads :
    call[t].pc # "idle" /\ call[u].pc # "idle" /\ call[t].h = call[u].h => t = u

\* Only live handles are in use, and only they have a workspace.
LiveUsed ==
  /\ \A t \in Threads : call[t].pc # "idle" => handle[call[t].h].state = "live"
  /\ \A h \in Handles :
       /\ handle[h].state # "live" => handle[h].a = None
       /\ handle[h].a = None <=> handle[h].b = None
       /\ handle[h].a = None <=> handle[h].cap = 0

\* The capacity of a handle is the size of its workspaces; what a growing call
\* holds has the size it asked for.
Sized ==
  /\ \A h \in Handles : \A p \in Held(h) : DOMAIN mem[p] = 0 .. handle[h].cap - 1
  /\ \A t \in Threads :
       /\ call[t].pc \in Allocating =>
            /\ call[t].in # None /\ call[t].in # call[t].out
            /\ call[t].out = None <=> call[t].pc \in {"malloc_b", "undo"}
       /\ call[t].pc = "workspace" => call[t].out = None
       /\ \A p \in Fresh(t) : DOMAIN mem[p] = 0 .. required_nodes(call[t].n) - 1

\* x and y are the workspaces of handle h, in one order or the other.
BothOf(h, x, y) ==
  \/ x = handle[h].a /\ y = handle[h].b
  \/ x = handle[h].b /\ y = handle[h].a

\* A call that has a workspace launches kernels for it.
FitOf(c) ==
  /\ c.pc \in Launching => required_nodes(c.n) <= handle[c.h].cap
  /\ c.pc \in {"combine", "tag"} => BothOf(c.h, c.in, c.out)
  /\ c.pc = "combine" => c.count <= handle[c.h].cap

CallsFit == \A t \in Threads : FitOf(call[t])

QueuedFits(k) ==
  /\ handle[k.h].cap > 0 /\ ~ Freed(k.h)
  /\ k.k = "segment" => k.out = handle[k.h].a /\ required_nodes(k.n) <= handle[k.h].cap
  /\ k.k = "combine" => BothOf(k.h, k.in, k.out) /\ k.count <= handle[k.h].cap
  /\ k.k \in {"finalize", "verify"} => k.in \in {handle[k.h].a, handle[k.h].b}

\* Queued kernels use the present workspaces of their handles.
QueueFits == \A s \in Streams : \A k \in KernelsOn(s) : QueuedFits(k)

MInv == TInv /\ OneCall /\ LiveUsed /\ OneOwner /\ Sized /\ CallsFit /\ QueueFits

LEMMA HeldIs ==
  ASSUME NEW h \in Handles, NEW p
  PROVE  p \in Held(h) <=> /\ p # None
                           /\ p = handle[h].a \/ p = handle[h].b
                           /\ ~ (Freed(h) /\ p = handle[h].a)
BY DEF Held, Freed

LEMMA KernelsAre ==
  ASSUME TInv, NEW s \in Streams
  PROVE  /\ queue[s] \in Seq(Kernels)
         /\ KernelsOn(s) = {queue[s][i] : i \in 1 .. Len(queue[s])}
         /\ \A k \in KernelsOn(s) : k \in Kernels
         /\ DeviceIdle => KernelsOn(s) = {}
<1>1. queue[s] \in Seq(Kernels)
  BY ArraysTyped DEF TInv
<1>2. KernelsOn(s) = {queue[s][i] : i \in 1 .. Len(queue[s])}
  BY <1>1 DEF KernelsOn
<1>3. \A k \in KernelsOn(s) : k \in Kernels
  BY <1>1, <1>2
<1>4. DeviceIdle => KernelsOn(s) = {}
  BY <1>2 DEF DeviceIdle
<1> QED BY <1>1, <1>2, <1>3, <1>4

\* A launch adds its kernel at most; a run adds none.
LEMMA LaunchAdds ==
  ASSUME TInv, NEW t \in Threads, call[t].s \in Streams, NEW k \in Kernels, Launches(t, k)
  PROVE  \A s \in Streams : \A q \in KernelsOn(s)' :
           q \in KernelsOn(s) \/ (q = k /\ s = call[t].s)
<1> SUFFICES ASSUME NEW s \in Streams, NEW q \in KernelsOn(s)'
             PROVE  q \in KernelsOn(s) \/ (q = k /\ s = call[t].s)
  OBVIOUS
<1>1. queue[s] \in Seq(Kernels) /\ queue'[s] \in Seq(Kernels)
  BY KernelsAre DEF Launches
<1>2. PICK i \in 1 .. Len(queue'[s]) : q = queue'[s][i]
  BY <1>1 DEF KernelsOn
<1>3. CASE queue'[s] = queue[s]
  BY <1>1, <1>2, <1>3 DEF KernelsOn
<1>4. CASE s = call[t].s /\ queue'[s] = Append(queue[s], k)
  <2>1. CASE i \in 1 .. Len(queue[s])
    <3>1. q = queue[s][i]
      BY <1>1, <1>2, <1>4, <2>1
    <3> QED BY <1>1, <2>1, <3>1 DEF KernelsOn
  <2>2. CASE i = Len(queue[s]) + 1
    BY <1>1, <1>2, <1>4, <2>2
  <2> QED BY <1>1, <1>2, <1>4, <2>1, <2>2
<1> QED BY <1>3, <1>4 DEF Launches

LEMMA RunAdds ==
  ASSUME TInv, NEW s \in Streams, NEW k, Runs(s, k)
  PROVE  \A r \in Streams : \A q \in KernelsOn(r)' : q \in KernelsOn(r)
<1> SUFFICES ASSUME NEW r \in Streams, NEW q \in KernelsOn(r)'
             PROVE  q \in KernelsOn(r)
  OBVIOUS
<1>1. queue[r] \in Seq(Kernels) /\ queue'[r] \in Seq(Kernels)
  BY KernelsAre DEF Runs
<1>2. PICK i \in 1 .. Len(queue'[r]) : q = queue'[r][i]
  BY <1>1 DEF KernelsOn
<1>3. CASE r = s
  <2>1. queue'[r] = Tail(queue[r]) /\ queue[r] # <<>>
    BY <1>3 DEF Runs
  <2>2. q = queue[r][i + 1] /\ i + 1 \in 1 .. Len(queue[r])
    BY <1>1, <1>2, <2>1
  <2> QED BY <1>1, <2>2 DEF KernelsOn
<1>4. CASE r # s
  BY <1>1, <1>2, <1>4 DEF KernelsOn, Runs
<1> QED BY <1>3, <1>4

\* Steps that neither allocate nor free.
Quiet(t) ==
  /\ \A u \in Threads \ {t} : call'[u] = call[u]
  /\ call[t].pc \notin Allocating /\ call'[t].pc \notin Allocating
  /\ call'[t].pc = "workspace" => call'[t].out = None

WorkspacesKept ==
  /\ \A h \in Handles : /\ handle'[h].a = handle[h].a /\ handle'[h].b = handle[h].b
                        /\ handle'[h].cap = handle[h].cap
  /\ DOMAIN mem' = DOMAIN mem
  /\ \A p \in DOMAIN mem : DOMAIN mem'[p] = DOMAIN mem[p]

LEMMA OwnersLive ==
  ASSUME MInv
  PROVE  /\ \A h \in Handles : \A p \in Held(h) : p \in DOMAIN mem
         /\ \A t \in Threads : \A p \in Fresh(t) : p \in DOMAIN mem
<1>1. ASSUME NEW h \in Handles, NEW p \in Held(h) PROVE p \in DOMAIN mem
  <2>1. handle[h] \in HandleT
    BY ArraysTyped DEF MInv, TInv
  <2>2. p \in Ptrs
    BY <1>1, <2>1 DEF Held, HandleT, NullPtrs
  <2> QED BY <1>1, <2>2 DEF MInv, OneOwner
<1>2. ASSUME NEW t \in Threads, NEW p \in Fresh(t) PROVE p \in DOMAIN mem
  <2>1. p \in Ptrs
    BY <1>2, FieldsTyped DEF Fresh, NullPtrs, MInv, TInv
  <2> QED BY <1>2, <2>1 DEF MInv, OneOwner
<1> QED BY <1>1, <1>2

LEMMA OwnershipKept ==
  ASSUME MInv, NEW t \in Threads, Quiet(t), WorkspacesKept
  PROVE  OneOwner' /\ Sized' /\ \A h \in Handles : Freed(h)' <=> Freed(h)
<1>1. \A h \in Handles : Freed(h)' <=> Freed(h)
  BY DEF Freed, Quiet, Allocating
<1>2. ASSUME NEW h \in Handles PROVE Held(h)' = Held(h)
  <2>1. \A p : p \in Held(h)' <=> /\ p # None
                                  /\ p = handle'[h].a \/ p = handle'[h].b
                                  /\ ~ (Freed(h)' /\ p = handle'[h].a)
    BY DEF Held, Freed
  <2>2. \A p : p \in Held(h)' <=> p \in Held(h)
    BY <1>1, <2>1, HeldIs DEF WorkspacesKept
  <2> QED BY <2>2
<1>3. ASSUME NEW u \in Threads PROVE Fresh(u)' = Fresh(u)
  BY DEF Fresh, Quiet, Allocating
<1>4. OneOwner'
  BY <1>2, <1>3 DEF MInv, OneOwner, WorkspacesKept
<1>5. ASSUME NEW h \in Handles, NEW p \in Held(h)'
      PROVE  DOMAIN mem'[p] = 0 .. handle'[h].cap - 1
  <2>1. p \in Held(h) /\ p \in DOMAIN mem
    BY <1>2, <1>5, OwnersLive
  <2> QED BY <2>1 DEF MInv, Sized, WorkspacesKept
<1>6. ASSUME NEW u \in Threads
      PROVE  /\ call'[u].pc \in Allocating =>
                  /\ call'[u].in # None /\ call'[u].in # call'[u].out
                  /\ call'[u].out = None <=> call'[u].pc \in {"malloc_b", "undo"}
             /\ call'[u].pc = "workspace" => call'[u].out = None
             /\ \A p \in Fresh(u)' : DOMAIN mem'[p] = 0 .. required_nodes(call'[u].n) - 1
  <2>1. CASE u = t
    <3>1. /\ Fresh(u)' = {} /\ call'[u].pc \notin Allocating
          /\ call'[u].pc = "workspace" => call'[u].out = None
      BY <2>1 DEF Quiet, Fresh, Allocating
    <3> QED BY <3>1
  <2>2. CASE u # t
    <3>1. call'[u] = call[u]
      BY <2>2 DEF Quiet
    <3>2. \A p \in Fresh(u)' : p \in Fresh(u) /\ p \in DOMAIN mem
      BY <1>3, OwnersLive
    <3> QED BY <3>1, <3>2 DEF MInv, Sized, WorkspacesKept
  <2> QED BY <2>1, <2>2
<1>7. Sized'
  BY <1>5, <1>6 DEF Sized
<1> QED BY <1>1, <1>4, <1>7

LEMMA OneCallKept ==
  ASSUME MInv, NEW t \in Threads, \A u \in Threads \ {t} : call'[u] = call[u],
         \/ call'[t].pc = "idle"
         \/ call[t].pc # "idle" /\ call'[t].h = call[t].h
  PROVE  OneCall'
BY DEF MInv, OneCall

LEMMA LiveKept ==
  ASSUME MInv, NEW t \in Threads, \A u \in Threads \ {t} : call'[u] = call[u],
         \/ call'[t].pc = "idle"
         \/ call[t].pc # "idle" /\ call'[t].h = call[t].h,
         handle' = handle
  PROVE  LiveUsed'
<1>1. ASSUME NEW u \in Threads, call'[u].pc # "idle"
      PROVE  handle'[call'[u].h].state = "live"
  BY <1>1 DEF MInv, LiveUsed
<1>2. \A h \in Handles :
        /\ handle'[h].state # "live" => handle'[h].a = None
        /\ handle'[h].a = None <=> handle'[h].b = None
        /\ handle'[h].a = None <=> handle'[h].cap = 0
  BY DEF MInv, LiveUsed
<1> QED BY <1>1, <1>2 DEF LiveUsed

\* The handle is the same, and whether it has been freed.
LEMMA FitKept ==
  ASSUME NEW k, handle'[k.h].a = handle[k.h].a, handle'[k.h].b = handle[k.h].b,
         handle'[k.h].cap = handle[k.h].cap, Freed(k.h)' <=> Freed(k.h), QueuedFits(k)
  PROVE  QueuedFits(k)'
BY DEF QueuedFits, BothOf

LEMMA LaunchKeeps ==
  ASSUME MInv, TInv', NEW t \in Threads, NEW k \in Kernels, Launches(t, k),
         call[t].s \in Streams, call[t].pc \in Launching, QueuedFits(k),
         UNCHANGED <<handle, mem>>,
         \A u \in Threads \ {t} : call'[u] = call[u],
         \/ call'[t].pc = "idle"
         \/ call'[t].pc \in Launching /\ call'[t].h = call[t].h,
         FitOf(call'[t])
  PROVE  MInv'
<1>1. call[t].pc # "idle" /\ Quiet(t) /\ WorkspacesKept
  BY DEF Quiet, Launching, Allocating, WorkspacesKept
<1>2. OneCall' /\ LiveUsed'
  BY <1>1, OneCallKept, LiveKept
<1>3. OneOwner' /\ Sized' /\ \A h \in Handles : Freed(h)' <=> Freed(h)
  BY <1>1, OwnershipKept
<1>4. CallsFit'
  <2> SUFFICES ASSUME NEW u \in Threads PROVE FitOf(call[u])'
    BY DEF CallsFit
  <2>1. CASE u = t
    BY <2>1 DEF FitOf, BothOf
  <2>2. CASE u # t
    BY <2>2 DEF FitOf, BothOf, MInv, CallsFit
  <2> QED BY <2>1, <2>2
<1>5. QueueFits'
  <2> SUFFICES ASSUME NEW s \in Streams, NEW q \in KernelsOn(s)' PROVE QueuedFits(q)'
    BY DEF QueueFits
  <2>1. q \in KernelsOn(s) \/ q = k
    BY LaunchAdds DEF MInv
  <2>2. QueuedFits(q) /\ q.h \in Handles
    BY <2>1, KernelsAre, KernelFields DEF MInv, QueueFits
  <2> QED BY <1>3, <2>2, FitKept
<1> QED BY <1>2, <1>3, <1>4, <1>5 DEF MInv

\* The call of a thread that launches owns its handle's workspaces.
LEMMA LaunchingFits ==
  ASSUME MInv, NEW t \in Threads, call[t].pc \in Launching
  PROVE  /\ handle[call[t].h].cap > 0 /\ ~ Freed(call[t].h)
         /\ required_nodes(call[t].n) <= handle[call[t].h].cap
         /\ handle[call[t].h].cap \in Nat /\ required_nodes(call[t].n) \in Nat \ {0}
<1>1. call[t].h \in Handles /\ call[t].pc # "idle" /\ call[t].n \in Nat
  BY LaunchingCall DEF MInv
<1>2. handle[call[t].h].cap \in Nat /\ required_nodes(call[t].n) \in Nat \ {0}
  BY <1>1, HandleOfCall, NodesNeeded DEF MInv
<1>3. required_nodes(call[t].n) <= handle[call[t].h].cap
  BY DEF MInv, CallsFit, FitOf
<1>4. ~ Freed(call[t].h)
  BY <1>1 DEF Freed, MInv, OneCall, Launching
<1> QED BY <1>2, <1>3, <1>4

LEMMA MovesKeep ==
  ASSUME NEW t, NEW pc, NEW in, NEW out, NEW count, Moves(t, pc, in, out, count)
  PROVE  /\ \A u \in Threads \ {t} : call'[u] = call[u]
         /\ call'[t].pc = pc /\ call'[t].h = call[t].h /\ call'[t].n = call[t].n
         /\ call'[t].in = in /\ call'[t].out = out /\ call'[t].count = count
         /\ call'[t].op = call[t].op /\ call'[t].s = call[t].s /\ call'[t].iv = call[t].iv
BY DEF Moves

LEMMA ReturnsKeep ==
  ASSUME NEW t, NEW rc, Returns(t, rc)
  PROVE  /\ \A u \in Threads \ {t} : call'[u] = call[u]
         /\ call'[t].pc = "idle" /\ FitOf(call'[t])
<1>1. call'[t] = Idle /\ \A u \in Threads \ {t} : call'[u] = call[u]
  BY DEF Returns
<1> QED BY <1>1, IdleTyped DEF FitOf, Launching

LEMMA GhashKeeps ==
  ASSUME MInv, TInv', NEW t \in Threads, NEW k \in Kernels, Launches(t, k),
         call[t].s \in Streams, call[t].pc \in Launching, QueuedFits(k),
         NEW in, NEW out, NEW count, GhashEffect(t, in, out, count),
         BothOf(call[t].h, in, out), count <= handle[call[t].h].cap
  PROVE  MInv'
<1>1. CASE Returns(t, "ERR_CUDA")
  BY <1>1, ReturnsKeep, LaunchKeeps DEF GhashEffect
<1>2. CASE Moves(t, IF count > 1 THEN "combine" ELSE "tag", in, out, count)
  <2> DEFINE pc == IF count > 1 THEN "combine" ELSE "tag"
  <2>1. pc \in {"combine", "tag"}
    OBVIOUS
  <2> HIDE DEF pc
  <2>2. /\ \A u \in Threads \ {t} : call'[u] = call[u]
        /\ call'[t].pc = pc /\ call'[t].h = call[t].h /\ call'[t].n = call[t].n
        /\ call'[t].in = in /\ call'[t].out = out /\ call'[t].count = count
    BY <1>2, MovesKeep DEF pc
  <2>3. FitOf(call'[t])
    BY <2>1, <2>2, LaunchingFits DEF FitOf
  <2> QED BY <2>1, <2>2, <2>3, LaunchKeeps DEF GhashEffect, Launching
<1> QED BY <1>1, <1>2 DEF GhashEffect

LEMMA HostLaunchMemory ==
  ASSUME MInv, TInv', NEW t \in Threads,
         \/ HeaderEffect(t) \/ EncryptEffect(t) \/ SegmentEffect(t) \/ CombineEffect(t)
         \/ FinalizeEffect(t) \/ VerifyEffect(t) \/ DecryptEffect(t)
  PROVE  MInv'
<1>1. call[t].pc \in Launching /\ call[t].s \in Streams /\ call[t].h \in Handles
      /\ call[t].pc # "idle"
  BY DEF HeaderEffect, EncryptEffect, SegmentEffect, CombineEffect, FinalizeEffect,
         VerifyEffect, DecryptEffect, Launching
<1>2. /\ handle[call[t].h].cap > 0 /\ ~ Freed(call[t].h)
      /\ required_nodes(call[t].n) <= handle[call[t].h].cap
      /\ handle[call[t].h].cap \in Nat /\ required_nodes(call[t].n) \in Nat \ {0}
  BY <1>1, LaunchingFits
<1>3. ASSUME PeekReturns(t)
      PROVE  /\ \A u \in Threads \ {t} : call'[u] = call[u]
             /\ call'[t].pc = "idle" /\ FitOf(call'[t])
  BY <1>3, ReturnsKeep DEF PeekReturns
<1>4. ASSUME NEW pc \in {"encrypt", "segment", "decrypt"}, NEW in, NEW out, NEW count,
             Moves(t, pc, in, out, count)
      PROVE  /\ \A u \in Threads \ {t} : call'[u] = call[u]
             /\ call'[t].pc \in Launching /\ call'[t].h = call[t].h /\ FitOf(call'[t])
  BY <1>2, <1>4, MovesKeep DEF FitOf, Launching
<1>5. CASE HeaderEffect(t)
  <2> DEFINE pc == IF call[t].n > 0 THEN "encrypt" ELSE "segment"
  <2>1. pc \in {"encrypt", "segment", "decrypt"}
    OBVIOUS
  <2>2. Moves(t, pc, call[t].in, call[t].out, call[t].count)
    BY <1>5 DEF HeaderEffect
  <2> HIDE DEF pc
  <2>3. HeaderKernel(t) \in Kernels
    BY <1>1, KernelsTyped DEF MInv
  <2>4. QueuedFits(HeaderKernel(t))
    BY <1>2 DEF QueuedFits, HeaderKernel
  <2> QED BY <1>1, <1>4, <1>5, <2>1, <2>2, <2>3, <2>4, LaunchKeeps DEF HeaderEffect
<1>6. CASE EncryptEffect(t)
  <2>1. EncryptKernel(t) \in Kernels
    BY <1>1, KernelsTyped DEF MInv
  <2>2. QueuedFits(EncryptKernel(t))
    BY <1>2 DEF QueuedFits, EncryptKernel
  <2> QED BY <1>1, <1>4, <1>6, <2>1, <2>2, LaunchKeeps DEF EncryptEffect
<1>7. CASE SegmentEffect(t)
  <2>1. SegmentKernel(t) \in Kernels
    BY <1>1, KernelsTyped DEF MInv
  <2>2. QueuedFits(SegmentKernel(t))
    BY <1>2 DEF QueuedFits, SegmentKernel
  <2>3. BothOf(call[t].h, handle[call[t].h].a, handle[call[t].h].b)
    BY DEF BothOf
  <2> QED BY <1>1, <1>2, <1>7, <2>1, <2>2, <2>3, GhashKeeps DEF SegmentEffect
<1>8. CASE CombineEffect(t)
  <2>1. CombineKernel(t) \in Kernels
    BY <1>1, KernelsTyped DEF MInv
  <2>2. BothOf(call[t].h, call[t].in, call[t].out) /\ call[t].count <= handle[call[t].h].cap
    BY <1>8 DEF CombineEffect, MInv, CallsFit, FitOf
  <2>3. QueuedFits(CombineKernel(t))
    BY <1>2, <2>2 DEF QueuedFits, CombineKernel
  <2>4. BothOf(call[t].h, call[t].out, call[t].in)
    BY <2>2 DEF BothOf
  <2>5. halved(call[t].count) <= handle[call[t].h].cap
    <3>1. call[t].count \in Nat
      BY FieldsTyped DEF MInv, TInv
    <3>2. halved(call[t].count) \in Nat /\ halved(call[t].count) <= call[t].count
      BY <3>1, Halving
    <3> QED BY <1>2, <2>2, <3>1, <3>2
  <2> QED BY <1>1, <1>8, <2>1, <2>3, <2>4, <2>5, GhashKeeps DEF CombineEffect
<1>9. ASSUME NEW kind \in {"finalize", "verify"}, call[t].pc = "tag"
      PROVE  QueuedFits(RootKernel(t, kind)) /\ RootKernel(t, kind) \in Kernels
  <2>1. BothOf(call[t].h, call[t].in, call[t].out)
    BY <1>9 DEF MInv, CallsFit, FitOf
  <2>2. QueuedFits(RootKernel(t, kind))
    BY <1>2, <2>1 DEF QueuedFits, RootKernel, BothOf
  <2> QED BY <1>1, <2>2, KernelsTyped DEF MInv
<1>10. CASE FinalizeEffect(t)
  BY <1>1, <1>3, <1>9, <1>10, LaunchKeeps DEF FinalizeEffect
<1>11. CASE VerifyEffect(t)
  BY <1>1, <1>3, <1>4, <1>9, <1>11, LaunchKeeps DEF VerifyEffect
<1>12. CASE DecryptEffect(t)
  <2>1. DecryptKernel(t) \in Kernels
    BY <1>1, KernelsTyped DEF MInv
  <2>2. QueuedFits(DecryptKernel(t))
    BY <1>2 DEF QueuedFits, DecryptKernel
  <2> QED BY <1>1, <1>3, <1>12, <2>1, <2>2, LaunchKeeps DEF DecryptEffect
<1> QED BY <1>5, <1>6, <1>7, <1>8, <1>10, <1>11, <1>12

LEMMA FreshIs ==
  ASSUME NEW t \in Threads, NEW p
  PROVE  p \in Fresh(t) <=> /\ call[t].pc \in Allocating /\ p # None
                            /\ p = call[t].in \/ p = call[t].out
BY DEF Fresh, Allocating

\* Steps without kernels, allocations or frees.
LEMMA QuietKeeps ==
  ASSUME MInv, TInv', NEW t \in Threads, Quiet(t), WorkspacesKept,
         OneCall', LiveUsed', FitOf(call[t])',
         \A s \in Streams : \A q \in KernelsOn(s)' : q \in KernelsOn(s)
  PROVE  MInv'
<1>1. OneOwner' /\ Sized' /\ \A h \in Handles : Freed(h)' <=> Freed(h)
  BY OwnershipKept
<1>2. CallsFit'
  <2> SUFFICES ASSUME NEW u \in Threads PROVE FitOf(call[u])'
    BY DEF CallsFit
  <2>1. CASE u # t
    <3>1. FitOf(call[u]) /\ call'[u] = call[u]
      BY <2>1 DEF MInv, CallsFit, Quiet
    <3>2. call[u].pc \in Launching \/ call[u].pc \in {"combine", "tag"} => call[u].h \in Handles
      BY LaunchingCall DEF MInv, Launching
    <3> QED BY <3>1, <3>2 DEF FitOf, BothOf, WorkspacesKept, Launching
  <2> QED BY <2>1
<1>3. QueueFits'
  <2> SUFFICES ASSUME NEW s \in Streams, NEW q \in KernelsOn(s)' PROVE QueuedFits(q)'
    BY DEF QueueFits
  <2>1. QueuedFits(q) /\ q.h \in Handles
    BY KernelsAre, KernelFields DEF MInv, QueueFits
  <2> QED BY <1>1, <2>1, FitKept DEF WorkspacesKept
<1> QED BY <1>1, <1>2, <1>3 DEF MInv

\* What an allocating step of thread t leaves to show about the others.
LEMMA OthersFit ==
  ASSUME MInv, NEW t \in Threads, NEW h \in Handles, call[t].h = h, call[t].pc # "idle",
         \A u \in Threads \ {t} : call'[u] = call[u],
         \A g \in Handles \ {h} : handle'[g] = handle[g],
         FitOf(call[t])'
  PROVE  CallsFit'
<1> SUFFICES ASSUME NEW u \in Threads PROVE FitOf(call[u])'
  BY DEF CallsFit
<1>1. CASE u # t /\ call[u].pc \in Launching
  <2>1. FitOf(call[u]) /\ call'[u] = call[u] /\ call[u].h \in Handles /\ call[u].h # h
    BY <1>1, LaunchingCall DEF MInv, CallsFit, OneCall
  <2> QED BY <2>1 DEF FitOf, BothOf
<1>2. CASE u # t /\ call[u].pc \notin Launching
  BY <1>2 DEF FitOf, Launching
<1> QED BY <1>1, <1>2

LEMMA AllocateKeeps ==
  ASSUME MInv, TInv', NEW t \in Threads, NEW p \in Ptrs,
         Allocates(p, required_nodes(call[t].n)),
         handle' = handle, queue' = queue,
         NEW pc, NEW in, NEW out, NEW count, Moves(t, pc, in, out, count),
         \/ /\ call[t].pc = "workspace" /\ pc = "malloc_b" /\ in = p /\ out = call[t].out
         \/ /\ call[t].pc = "malloc_b" /\ pc = "free_a" /\ in = call[t].in /\ out = p
  PROVE  MInv'
<1>1. /\ \A u \in Threads \ {t} : call'[u] = call[u]
      /\ call'[t].pc = pc /\ call'[t].h = call[t].h /\ call'[t].n = call[t].n
      /\ call'[t].in = in /\ call'[t].out = out
      /\ call[t].pc # "idle" /\ pc \in {"malloc_b", "free_a"}
  BY MovesKeep
<1>2. p # None /\ p \notin DOMAIN mem /\ DOMAIN mem' = DOMAIN mem \cup {p}
      /\ DOMAIN mem'[p] = 0 .. required_nodes(call[t].n) - 1
      /\ \A q \in DOMAIN mem : mem'[q] = mem[q]
  BY ConstantsAssumption DEF Allocates
<1>3. /\ \A h \in Handles : \A q \in Held(h) : q \in DOMAIN mem
      /\ \A u \in Threads : \A q \in Fresh(u) : q \in DOMAIN mem
  BY OwnersLive
<1>4. \A h \in Handles : Freed(h)' <=> Freed(h)
  BY <1>1 DEF Freed
<1>5. \A h \in Handles : Held(h)' = Held(h)
  <2> SUFFICES ASSUME NEW h \in Handles PROVE Held(h)' = Held(h)
    OBVIOUS
  <2>1. \A q : q \in Held(h)' <=> /\ q # None
                                  /\ q = handle'[h].a \/ q = handle'[h].b
                                  /\ ~ (Freed(h)' /\ q = handle'[h].a)
    BY DEF Held, Freed
  <2> QED BY <1>4, <2>1, HeldIs
<1>6. \A u \in Threads \ {t} : Fresh(u)' = Fresh(u)
  BY <1>1 DEF Fresh
<1>7. /\ call[t].pc = "malloc_b" =>
           call[t].in # None /\ call[t].out = None /\ call[t].in # p
      /\ call[t].pc = "workspace" => call[t].out = None
  <2>1. /\ call[t].pc = "malloc_b" => call[t].in # None /\ call[t].out = None
        /\ call[t].pc = "workspace" => call[t].out = None
    BY DEF MInv, Sized, Allocating
  <2>2. call[t].pc = "malloc_b" => call[t].in \in Fresh(t)
    BY <2>1, FreshIs DEF Allocating
  <2> QED BY <1>2, <1>3, <2>1, <2>2
<1>8. \A q : q \in Fresh(t)' <=> q \in Fresh(t) \/ q = p
  <2>1. \A q : q \in Fresh(t)' <=> q # None /\ (q = in \/ q = out)
    BY <1>1 DEF Fresh
  <2>2. CASE call[t].pc = "workspace"
    <3>1. Fresh(t) = {}
      BY <2>2 DEF Fresh
    <3> QED BY <1>2, <1>7, <2>1, <2>2, <3>1
  <2>3. CASE call[t].pc = "malloc_b"
    <3>1. \A q : q \in Fresh(t) <=> q = call[t].in
      BY <1>7, <2>3 DEF Fresh
    <3> QED BY <1>2, <1>7, <2>1, <2>3, <3>1
  <2> QED BY <2>2, <2>3
<1>9. OneOwner'
  <2>1. \A q \in Ptrs : q \in DOMAIN mem' <=> \/ \E h \in Handles : q \in Held(h)'
                                             \/ \E u \in Threads : q \in Fresh(u)'
    BY <1>2, <1>5, <1>6, <1>8 DEF MInv, OneOwner
  <2>2. \A u, v \in Threads : u # v => Fresh(u)' \cap Fresh(v)' = {}
    <3> SUFFICES ASSUME NEW u \in Threads, NEW v \in Threads, u # v, NEW q,
                        q \in Fresh(u)', q \in Fresh(v)'
                 PROVE  FALSE
      OBVIOUS
    <3>1. Fresh(u) \cap Fresh(v) = {}
      BY DEF MInv, OneOwner
    <3> QED BY <1>2, <1>3, <1>6, <1>8, <3>1
  <2>3. \A h \in Handles, u \in Threads : Held(h)' \cap Fresh(u)' = {}
    <3> SUFFICES ASSUME NEW h \in Handles, NEW u \in Threads, NEW q,
                        q \in Held(h)', q \in Fresh(u)'
                 PROVE  FALSE
      OBVIOUS
    <3>1. Held(h) \cap Fresh(u) = {}
      BY DEF MInv, OneOwner
    <3> QED BY <1>2, <1>3, <1>5, <1>6, <1>8, <3>1
  <2>4. /\ \A h \in Handles : handle'[h].a = handle'[h].b => handle'[h].a = None
        /\ \A g, h \in Handles : g # h => Held(g)' \cap Held(h)' = {}
    BY <1>5 DEF MInv, OneOwner
  <2> QED BY <2>1, <2>2, <2>3, <2>4 DEF OneOwner
<1>10. Sized'
  <2>1. \A h \in Handles : \A q \in Held(h)' : DOMAIN mem'[q] = 0 .. handle'[h].cap - 1
    BY <1>2, <1>3, <1>5 DEF MInv, Sized
  <2>2. ASSUME NEW u \in Threads
        PROVE  /\ call'[u].pc \in Allocating =>
                    /\ call'[u].in # None /\ call'[u].in # call'[u].out
                    /\ call'[u].out = None <=> call'[u].pc \in {"malloc_b", "undo"}
               /\ call'[u].pc = "workspace" => call'[u].out = None
               /\ \A q \in Fresh(u)' : DOMAIN mem'[q] = 0 .. required_nodes(call'[u].n) - 1
    <3>1. CASE u = t
      <4>1. /\ in # None /\ in # out
            /\ out = None <=> pc \in {"malloc_b", "undo"}
        BY <1>2, <1>7
      <4>2. \A q \in Fresh(t)' : DOMAIN mem'[q] = 0 .. required_nodes(call[t].n) - 1
        BY <1>2, <1>3, <1>8 DEF MInv, Sized
      <4> QED BY <1>1, <3>1, <4>1, <4>2
    <3>2. CASE u # t
      BY <1>1, <1>2, <1>3, <1>6, <3>2 DEF MInv, Sized
    <3> QED BY <3>1, <3>2
  <2> QED BY <2>1, <2>2 DEF Sized
<1>11. OneCall' /\ LiveUsed'
  BY <1>1, OneCallKept, LiveKept
<1>12. CallsFit'
  <2>1. FitOf(call[t])'
    BY <1>1 DEF FitOf, Launching
  <2>2. call[t].h \in Handles
    BY <1>1, HandleOfCall DEF MInv
  <2> QED BY <1>1, <2>1, <2>2, OthersFit
<1>13. QueueFits'
  <2> SUFFICES ASSUME NEW s \in Streams, NEW q \in KernelsOn(s)' PROVE QueuedFits(q)'
    BY DEF QueueFits
  <2>1. q \in KernelsOn(s)
    BY DEF KernelsOn
  <2>2. QueuedFits(q) /\ q.h \in Handles
    BY <2>1, KernelsAre, KernelFields DEF MInv, QueueFits
  <2> QED BY <1>4, <2>2, FitKept
<1> QED BY <1>9, <1>10, <1>11, <1>12, <1>13 DEF MInv

\* Steps that move no call and touch no workspace.
LEMMA StillKeeps ==
  ASSUME MInv, TInv', call' = call, handle' = handle, WorkspacesKept,
         \A s \in Streams : \A q \in KernelsOn(s)' : q \in KernelsOn(s)
  PROVE  MInv'
<1>1. /\ \A h \in Handles : Held(h)' = Held(h)
      /\ \A u \in Threads : Fresh(u)' = Fresh(u)
      /\ \A h \in Handles : Freed(h)' <=> Freed(h)
  BY DEF Held, Fresh, Freed
<1>2. OneCall' /\ LiveUsed' /\ CallsFit'
  BY DEF MInv, OneCall, LiveUsed, CallsFit, FitOf, BothOf
<1>3. OneOwner'
  BY <1>1 DEF MInv, OneOwner, WorkspacesKept
<1>4. Sized'
  <2>1. \A h \in Handles : \A p \in Held(h)' : DOMAIN mem'[p] = 0 .. handle'[h].cap - 1
    BY <1>1, OwnersLive DEF MInv, Sized, WorkspacesKept
  <2>2. \A u \in Threads : \A p \in Fresh(u)' :
          DOMAIN mem'[p] = 0 .. required_nodes(call'[u].n) - 1
    BY <1>1, OwnersLive DEF MInv, Sized, WorkspacesKept
  <2> QED BY <2>1, <2>2 DEF MInv, Sized
<1>5. QueueFits'
  <2> SUFFICES ASSUME NEW s \in Streams, NEW q \in KernelsOn(s)' PROVE QueuedFits(q)'
    BY DEF QueueFits
  <2>1. QueuedFits(q) /\ q.h \in Handles
    BY KernelsAre, KernelFields DEF MInv, QueueFits
  <2> QED BY <1>1, <2>1, FitKept
<1> QED BY <1>2, <1>3, <1>4, <1>5 DEF MInv

LEMMA ContinuesKeeps ==
  ASSUME NEW t, Continues(t)
  PROVE  /\ \A u \in Threads \ {t} : call'[u] = call[u]
         /\ \/ call'[t] = Idle /\ call'[t].pc = "idle"
            \/ /\ call'[t].pc \in {"header", "segment"}
               /\ call'[t].h = call[t].h /\ call'[t].n = call[t].n
BY MovesKeep, IdleTyped DEF Continues, Returns

LEMMA EnsureMemory ==
  ASSUME MInv, TInv', NEW t \in Threads, EnsureEffect(t)
  PROVE  MInv'
<1>1. call[t].pc = "workspace" /\ handle' = handle /\ queue' = queue
      /\ call[t].h \in Handles
  BY DEF EnsureEffect
<1>2. \A s \in Streams : \A q \in KernelsOn(s)' : q \in KernelsOn(s)
  BY <1>1 DEF KernelsOn
<1>3. CASE /\ required_nodes(call[t].n) <= handle[call[t].h].cap
           /\ Continues(t) /\ mem' = mem
  <2>1. /\ \A u \in Threads \ {t} : call'[u] = call[u]
        /\ \/ call'[t].pc = "idle"
           \/ /\ call'[t].pc \in {"header", "segment"}
              /\ call'[t].h = call[t].h /\ call'[t].n = call[t].n
    BY <1>3, ContinuesKeeps
  <2>2. Quiet(t) /\ WorkspacesKept
    BY <1>1, <1>3, <2>1 DEF Quiet, WorkspacesKept, Allocating
  <2>3. OneCall' /\ LiveUsed'
    BY <1>1, <2>1, OneCallKept, LiveKept
  <2>4. FitOf(call[t])'
    BY <1>1, <1>3, <2>1 DEF FitOf, Launching
  <2> QED BY <1>2, <2>2, <2>3, <2>4, QuietKeeps
<1>4. CASE \E p \in Ptrs :
             /\ Allocates(p, required_nodes(call[t].n))
             /\ Moves(t, "malloc_b", p, call[t].out, call[t].count)
  BY <1>1, <1>4, AllocateKeeps
<1>5. CASE Returns(t, "ERR_ALLOC") /\ mem' = mem
  <2>1. /\ \A u \in Threads \ {t} : call'[u] = call[u]
        /\ call'[t].pc = "idle" /\ FitOf(call'[t])
    BY <1>5, ReturnsKeep
  <2>2. Quiet(t) /\ WorkspacesKept
    BY <1>1, <1>5, <2>1 DEF Quiet, WorkspacesKept, Allocating
  <2>3. OneCall' /\ LiveUsed'
    BY <1>1, <2>1, OneCallKept, LiveKept
  <2>4. FitOf(call[t])'
    BY <2>1 DEF FitOf, Launching
  <2> QED BY <1>2, <2>2, <2>3, <2>4, QuietKeeps
<1> QED BY <1>3, <1>4, <1>5 DEF EnsureEffect

LEMMA MallocBMemory ==
  ASSUME MInv, TInv', NEW t \in Threads, MallocBEffect(t)
  PROVE  MInv'
<1>1. call[t].pc = "malloc_b" /\ handle' = handle /\ queue' = queue
  BY DEF MallocBEffect
<1>2. CASE \E p \in Ptrs :
             /\ Allocates(p, required_nodes(call[t].n))
             /\ Moves(t, "free_a", call[t].in, p, call[t].count)
  BY <1>1, <1>2, AllocateKeeps
<1>3. CASE Moves(t, "undo", call[t].in, call[t].out, call[t].count) /\ mem' = mem
  <2>1. /\ \A u \in Threads \ {t} : call'[u] = call[u]
        /\ call'[t].pc = "undo" /\ call'[t].h = call[t].h /\ call'[t].n = call[t].n
        /\ call'[t].in = call[t].in /\ call'[t].out = call[t].out
    BY <1>3, MovesKeep
  <2>2. \A h \in Handles : Freed(h)' <=> Freed(h)
    BY <1>1, <2>1 DEF Freed
  <2>3. \A h \in Handles : Held(h)' = Held(h)
    <3> SUFFICES ASSUME NEW h \in Handles PROVE Held(h)' = Held(h)
      OBVIOUS
    <3>1. \A q : q \in Held(h)' <=> /\ q # None
                                    /\ q = handle'[h].a \/ q = handle'[h].b
                                    /\ ~ (Freed(h)' /\ q = handle'[h].a)
      BY DEF Held, Freed
    <3> QED BY <1>1, <2>2, <3>1, HeldIs
  <2>4. \A u \in Threads : Fresh(u)' = Fresh(u)
    BY <1>1, <2>1 DEF Fresh
  <2>5. OneOwner'
    BY <1>1, <1>3, <2>3, <2>4 DEF MInv, OneOwner
  <2>6. Sized'
    <3>1. \A h \in Handles : \A q \in Held(h)' : DOMAIN mem'[q] = 0 .. handle'[h].cap - 1
      BY <1>1, <1>3, <2>3 DEF MInv, Sized
    <3>2. ASSUME NEW u \in Threads
          PROVE  /\ call'[u].pc \in Allocating =>
                      /\ call'[u].in # None /\ call'[u].in # call'[u].out
                      /\ call'[u].out = None <=> call'[u].pc \in {"malloc_b", "undo"}
                 /\ call'[u].pc = "workspace" => call'[u].out = None
                 /\ \A q \in Fresh(u)' : DOMAIN mem'[q] = 0 .. required_nodes(call'[u].n) - 1
      <4>1. CASE u = t
        <5>1. /\ call[t].in # None /\ call[t].in # call[t].out /\ call[t].out = None
              /\ \A q \in Fresh(t) : DOMAIN mem[q] = 0 .. required_nodes(call[t].n) - 1
          BY <1>1 DEF MInv, Sized, Allocating
        <5> QED BY <1>3, <2>1, <2>4, <4>1, <5>1
      <4>2. CASE u # t
        BY <1>3, <2>1, <2>4, <4>2 DEF MInv, Sized
      <4> QED BY <4>1, <4>2
    <3> QED BY <3>1, <3>2 DEF Sized
  <2>7. OneCall' /\ LiveUsed'
    BY <1>1, <2>1, OneCallKept, LiveKept
  <2>8. CallsFit'
    <3>1. FitOf(call[t])'
      BY <2>1 DEF FitOf, Launching
    <3>2. call[t].h \in Handles /\ call[t].pc # "idle"
      BY <1>1, HandleOfCall DEF MInv
    <3> QED BY <1>1, <2>1, <3>1, <3>2, OthersFit
  <2>9. QueueFits'
    <3> SUFFICES ASSUME NEW s \in Streams, NEW q \in KernelsOn(s)' PROVE QueuedFits(q)'
      BY DEF QueueFits
    <3>1. q \in KernelsOn(s)
      BY <1>1 DEF KernelsOn
    <3>2. QueuedFits(q) /\ q.h \in Handles
      BY <3>1, KernelsAre, KernelFields DEF MInv, QueueFits
    <3> QED BY <1>1, <2>2, <3>2, FitKept
  <2> QED BY <2>5, <2>6, <2>7, <2>8, <2>9 DEF MInv
<1> QED BY <1>2, <1>3 DEF MallocBEffect

\* A free, null or not.
Frees(p) ==
  /\ DOMAIN mem' = DOMAIN mem \ {p}
  /\ \A q \in DOMAIN mem' : mem'[q] = mem[q]
  /\ p # None => DeviceIdle

LEMMA FreeFrees ==
  ASSUME TInv, NEW p, cudaFree(p)
  PROVE  Frees(p)
<1>1. None \notin DOMAIN mem
  BY ConstantsAssumption DEF TInv, TypeOK
<1>2. CASE p = None
  BY <1>1, <1>2 DEF cudaFree, Frees
<1>3. CASE p # None
  BY <1>3 DEF cudaFree, Frees
<1> QED BY <1>2, <1>3

\* Queued kernels are those of handles that keep their workspaces.
LEMMA QueueKept ==
  ASSUME MInv, NEW h \in Handles, queue' = queue,
         \A g \in Handles \ {h} : handle'[g] = handle[g] /\ (Freed(g)' <=> Freed(g)),
         \A s \in Streams : \A k \in KernelsOn(s) : k.h # h
  PROVE  QueueFits'
<1> SUFFICES ASSUME NEW s \in Streams, NEW q \in KernelsOn(s)' PROVE QueuedFits(q)'
  BY DEF QueueFits
<1>1. q \in KernelsOn(s)
  BY DEF KernelsOn
<1>2. QueuedFits(q) /\ q.h \in Handles \ {h}
  BY <1>1, KernelsAre, KernelFields DEF MInv, QueueFits
<1> QED BY <1>2, FitKept

\* A thread frees one pointer that it or its handle owns.
LEMMA FreeKeeps ==
  ASSUME MInv, NEW t \in Threads, NEW p, Frees(p), handle' = handle,
         \A u \in Threads \ {t} : call'[u] = call[u],
         \A h \in Handles : Held(h)' = Held(h) \ {p},
         \A u \in Threads : Fresh(u)' = Fresh(u) \ {p},
         call'[t].pc \in Allocating =>
           /\ call'[t].in # None /\ call'[t].in # call'[t].out
           /\ call'[t].out = None <=> call'[t].pc \in {"malloc_b", "undo"}
           /\ call'[t].n = call[t].n,
         call'[t].pc # "workspace"
  PROVE  OneOwner' /\ Sized'
<1>1. OneOwner'
  <2>1. ASSUME NEW q \in Ptrs
        PROVE  q \in DOMAIN mem' <=> \/ \E h \in Handles : q \in Held(h)'
                                     \/ \E u \in Threads : q \in Fresh(u)'
    BY DEF MInv, OneOwner, Frees
  <2>2. /\ \A g, h \in Handles : g # h => Held(g)' \cap Held(h)' = {}
        /\ \A u, v \in Threads : u # v => Fresh(u)' \cap Fresh(v)' = {}
        /\ \A h \in Handles, u \in Threads : Held(h)' \cap Fresh(u)' = {}
    BY DEF MInv, OneOwner
  <2>3. \A h \in Handles : handle'[h].a = handle'[h].b => handle'[h].a = None
    BY DEF MInv, OneOwner
  <2> QED BY <2>1, <2>2, <2>3 DEF OneOwner
<1>2. Sized'
  <2>1. ASSUME NEW h \in Handles, NEW q \in Held(h)'
        PROVE  DOMAIN mem'[q] = 0 .. handle'[h].cap - 1
    <3>1. q \in Held(h) /\ q \in DOMAIN mem'
      BY <2>1, OwnersLive DEF Frees
    <3> QED BY <3>1 DEF MInv, Sized, Frees
  <2>2. ASSUME NEW u \in Threads, NEW q \in Fresh(u)'
        PROVE  DOMAIN mem'[q] = 0 .. required_nodes(call'[u].n) - 1
    <3>1. q \in Fresh(u) /\ q \in DOMAIN mem'
      BY <2>2, OwnersLive DEF Frees
    <3>2. call'[u].n = call[u].n
      <4>1. call'[u].pc \in Allocating
        BY <2>2 DEF Fresh, Allocating
      <4> QED BY <4>1
    <3> QED BY <3>1, <3>2 DEF MInv, Sized, Frees
  <2>3. ASSUME NEW u \in Threads
        PROVE  /\ call'[u].pc \in Allocating =>
                    /\ call'[u].in # None /\ call'[u].in # call'[u].out
                    /\ call'[u].out = None <=> call'[u].pc \in {"malloc_b", "undo"}
               /\ call'[u].pc = "workspace" => call'[u].out = None
    <3>1. CASE u = t
      BY <3>1
    <3>2. CASE u # t
      BY <3>2 DEF MInv, Sized
    <3> QED BY <3>1, <3>2
  <2> QED BY <2>1, <2>2, <2>3 DEF Sized
<1> QED BY <1>1, <1>2

LEMMA UndoMemory ==
  ASSUME MInv, TInv', NEW t \in Threads, UndoEffect(t)
  PROVE  MInv'
<1>1. call[t].pc = "undo" /\ handle' = handle /\ queue' = queue /\ Frees(call[t].in)
  BY FreeFrees DEF UndoEffect, MInv
<1>2. /\ \A u \in Threads \ {t} : call'[u] = call[u]
      /\ call'[t].pc = "idle" /\ FitOf(call'[t])
  BY ReturnsKeep DEF UndoEffect
<1>3. call[t].in # None /\ call[t].out = None /\ call[t].in \in Fresh(t)
  <2>1. call[t].in # None /\ call[t].out = None
    BY <1>1 DEF MInv, Sized, Allocating
  <2> QED BY <1>1, <2>1, FreshIs DEF Allocating
<1>4. \A h \in Handles : Freed(h)' <=> Freed(h)
  BY <1>1, <1>2 DEF Freed
<1>5. \A h \in Handles : Held(h)' = Held(h) \ {call[t].in}
  <2> SUFFICES ASSUME NEW h \in Handles PROVE Held(h)' = Held(h) \ {call[t].in}
    OBVIOUS
  <2>1. \A q : q \in Held(h)' <=> /\ q # None
                                  /\ q = handle'[h].a \/ q = handle'[h].b
                                  /\ ~ (Freed(h)' /\ q = handle'[h].a)
    BY DEF Held, Freed
  <2>2. call[t].in \notin Held(h)
    BY <1>3 DEF MInv, OneOwner
  <2> QED BY <1>1, <1>4, <2>1, <2>2, HeldIs
<1>6. \A u \in Threads : Fresh(u)' = Fresh(u) \ {call[t].in}
  <2> SUFFICES ASSUME NEW u \in Threads PROVE Fresh(u)' = Fresh(u) \ {call[t].in}
    OBVIOUS
  <2>1. CASE u = t
    BY <1>1, <1>2, <1>3, <2>1 DEF Fresh
  <2>2. CASE u # t
    <3>1. Fresh(u)' = Fresh(u)
      BY <1>2, <2>2 DEF Fresh
    <3> QED BY <1>3, <2>2, <3>1 DEF MInv, OneOwner
  <2> QED BY <2>1, <2>2
<1>7. OneOwner' /\ Sized'
  <2>1. call'[t].pc \notin Allocating /\ call'[t].pc # "workspace"
    BY <1>2 DEF Allocating
  <2> QED BY <1>1, <1>2, <1>5, <1>6, <2>1, FreeKeeps
<1>8. OneCall' /\ LiveUsed'
  BY <1>1, <1>2, OneCallKept, LiveKept
<1>9. call[t].h \in Handles /\ call[t].pc # "idle"
  BY <1>1, HandleOfCall DEF MInv
<1>10. CallsFit'
  <2>1. FitOf(call[t])'
    BY <1>2 DEF FitOf, Launching
  <2> QED BY <1>1, <1>2, <1>9, <2>1, OthersFit
<1>11. QueueFits'
  <2>1. \A s \in Streams : KernelsOn(s) = {}
    BY <1>1, <1>3, KernelsAre DEF Frees, MInv
  <2> QED BY <1>1, <1>4, <1>9, <2>1, QueueKept
<1> QED BY <1>7, <1>8, <1>10, <1>11 DEF MInv

\* No other call has the handle of the call of thread t.
LEMMA NotFreedTwice ==
  ASSUME MInv, NEW t \in Threads, call[t].pc # "idle"
  PROVE  Freed(call[t].h) <=> call[t].pc = "free_b"
<1>1. CASE call[t].pc = "free_b"
  BY <1>1 DEF Freed
<1>2. ASSUME NEW u \in Threads, call[u].pc = "free_b", call[u].h = call[t].h
      PROVE  u = t
  BY <1>2 DEF MInv, OneCall
<1> QED BY <1>1, <1>2 DEF Freed

LEMMA FreeAMemory ==
  ASSUME MInv, TInv', NEW t \in Threads, FreeAEffect(t)
  PROVE  MInv'
<1> DEFINE h == call[t].h
           p == handle[h].a
<1>1. call[t].pc = "free_a" /\ handle' = handle /\ queue' = queue /\ Frees(p)
      /\ h \in Handles
  BY FreeFrees DEF FreeAEffect, MInv
<1>2. /\ \A u \in Threads \ {t} : call'[u] = call[u]
      /\ call'[t].pc = "free_b" /\ call'[t].h = h /\ call'[t].n = call[t].n
      /\ call'[t].in = call[t].in /\ call'[t].out = call[t].out
  BY MovesKeep DEF FreeAEffect
<1>3. ~ Freed(h)
  BY <1>1, NotFreedTwice
<1>4. p # None => p \in Held(h)
  BY <1>1, <1>3, HeldIs
<1>5. \A g \in Handles : Freed(g)' <=> g = h \/ Freed(g)
  BY <1>1, <1>2 DEF Freed
<1> HIDE DEF p, h
<1>6. \A g \in Handles : Held(g)' = Held(g) \ {p}
  <2> SUFFICES ASSUME NEW g \in Handles PROVE Held(g)' = Held(g) \ {p}
    OBVIOUS
  <2>1. \A q : q \in Held(g)' <=> /\ q # None
                                  /\ q = handle'[g].a \/ q = handle'[g].b
                                  /\ ~ (Freed(g)' /\ q = handle'[g].a)
    BY DEF Held, Freed
  <2>2. CASE g = h
    <3>1. ~ Freed(g) /\ p = handle[g].a
      BY <1>3, <2>2 DEF p
    <3> QED BY <1>1, <1>5, <2>1, <2>2, <3>1, HeldIs
  <2>3. CASE g # h
    <3>1. \A q : q \in Held(g)' <=> q \in Held(g)
      BY <1>1, <1>5, <2>1, <2>3, HeldIs
    <3>2. p \notin Held(g)
      <4>1. p # None => Held(g) \cap Held(h) = {}
        BY <1>1, <2>3 DEF MInv, OneOwner
      <4> QED BY <1>4, <4>1, HeldIs
    <3> QED BY <3>1, <3>2
  <2> QED BY <2>2, <2>3
<1>7. \A u \in Threads : Fresh(u)' = Fresh(u) \ {p}
  <2> SUFFICES ASSUME NEW u \in Threads PROVE Fresh(u)' = Fresh(u) \ {p}
    OBVIOUS
  <2>1. Fresh(u)' = Fresh(u)
    BY <1>1, <1>2 DEF Fresh
  <2>2. p \notin Fresh(u)
    <3>1. p # None => Held(h) \cap Fresh(u) = {}
      BY <1>1 DEF MInv, OneOwner
    <3> QED BY <1>4, <3>1, FreshIs
  <2> QED BY <2>1, <2>2
<1>8. OneOwner' /\ Sized'
  <2>1. /\ call[t].in # None /\ call[t].in # call[t].out /\ call[t].out # None
    BY <1>1 DEF MInv, Sized, Allocating
  <2> QED BY <1>1, <1>2, <1>6, <1>7, <2>1, FreeKeeps
<1>9. OneCall' /\ LiveUsed'
  BY <1>1, <1>2, OneCallKept, LiveKept DEF h
<1>10. CallsFit'
  <2>1. FitOf(call[t])'
    BY <1>2 DEF FitOf, Launching
  <2> QED BY <1>1, <1>2, <2>1, OthersFit DEF h
<1>11. QueueFits'
  <2>1. ASSUME NEW s \in Streams, NEW k \in KernelsOn(s) PROVE k.h # h
    <3>1. CASE p = None
      <4>1. handle[h].cap = 0
        BY <1>1, <3>1 DEF MInv, LiveUsed, p
      <4> QED BY <4>1 DEF MInv, QueueFits, QueuedFits
    <3>2. CASE p # None
      BY <1>1, <3>2, KernelsAre DEF Frees, MInv
    <3> QED BY <3>1, <3>2
  <2> QED BY <1>1, <1>5, <2>1, QueueKept
<1> QED BY <1>8, <1>9, <1>10, <1>11 DEF MInv

LEMMA FreeBMemory ==
  ASSUME MInv, TInv', NEW t \in Threads, FreeBEffect(t)
  PROVE  MInv'
<1> DEFINE h == call[t].h
           p == handle[h].b
           x == call[t].in
           y == call[t].out
           m == required_nodes(call[t].n)
<1>1. call[t].pc = "free_b" /\ queue' = queue /\ Frees(p) /\ h \in Handles
      /\ Rebuilt(h, x, y, m) /\ Continues(t)
  BY FreeFrees DEF FreeBEffect, MInv
<1>2. /\ \A u \in Threads \ {t} : call'[u] = call[u]
      /\ \/ call'[t] = Idle /\ call'[t].pc = "idle"
         \/ /\ call'[t].pc \in {"header", "segment"}
            /\ call'[t].h = h /\ call'[t].n = call[t].n
  BY <1>1, ContinuesKeeps
<1>3. /\ handle'[h].a = x /\ handle'[h].b = y /\ handle'[h].cap = m
      /\ handle'[h].state = handle[h].state
      /\ \A g \in Handles \ {h} : handle'[g] = handle[g]
  BY <1>1 DEF Rebuilt
<1>4. /\ x # None /\ y # None /\ x # y
      /\ \A q : q \in Fresh(t) <=> q = x \/ q = y
      /\ \A q \in {x, y} : DOMAIN mem[q] = 0 .. m - 1
  <2>1. x # None /\ y # None /\ x # y
    BY <1>1 DEF MInv, Sized, Allocating
  <2>2. \A q : q \in Fresh(t) <=> q = x \/ q = y
    BY <1>1, <2>1, FreshIs DEF Allocating
  <2>3. \A q \in Fresh(t) : DOMAIN mem[q] = 0 .. m - 1
    BY DEF MInv, Sized
  <2> QED BY <2>1, <2>2, <2>3
<1>5. m \in Nat \ {0}
  BY FieldsTyped, NodesNeeded DEF MInv, TInv
<1>6. call[t].pc # "idle" /\ Freed(h) /\ \A u \in Threads : call[u].pc = "free_b" /\ call[u].h = h => u = t
  BY <1>1, NotFreedTwice DEF MInv, OneCall
<1>7. \A g \in Handles : Freed(g)' <=> g # h /\ Freed(g)
  BY <1>1, <1>2, <1>6 DEF Freed
<1>8. \A q : q \in Held(h) <=> q = p /\ p # None
  <2>1. handle[h].a = p => p = None
    BY <1>1 DEF MInv, OneOwner
  <2> QED BY <1>1, <1>6, <2>1, HeldIs
<1> HIDE DEF h, p, x, y, m
<1>9. \A g \in Handles : \A q : q \in Held(g)' <=> IF g = h THEN q = x \/ q = y ELSE q \in Held(g)
  <2> SUFFICES ASSUME NEW g \in Handles, NEW q
               PROVE  q \in Held(g)' <=> IF g = h THEN q = x \/ q = y ELSE q \in Held(g)
    OBVIOUS
  <2>1. q \in Held(g)' <=> /\ q # None
                           /\ q = handle'[g].a \/ q = handle'[g].b
                           /\ ~ (Freed(g)' /\ q = handle'[g].a)
    BY DEF Held, Freed
  <2>2. Freed(g)' <=> g # h /\ Freed(g)
    BY <1>7
  <2>3. q \in Held(g) <=> /\ q # None
                          /\ q = handle[g].a \/ q = handle[g].b
                          /\ ~ (Freed(g) /\ q = handle[g].a)
    BY HeldIs
  <2>4. CASE g = h
    <3>1. ~ Freed(g)' /\ handle'[g].a = x /\ handle'[g].b = y
      BY <1>3, <2>2, <2>4
    <3> QED BY <1>4, <2>1, <2>4, <3>1
  <2>5. CASE g # h
    <3>1. (Freed(g)' <=> Freed(g)) /\ handle'[g] = handle[g]
      BY <1>3, <2>2, <2>5
    <3> QED BY <2>1, <2>3, <2>5, <3>1
  <2> QED BY <2>4, <2>5
<1>10. Fresh(t)' = {} /\ \A u \in Threads \ {t} : Fresh(u)' = Fresh(u)
  BY <1>2 DEF Fresh
<1>11. /\ \A g \in Handles \ {h} : p \notin Held(g)
       /\ \A u \in Threads : p \notin Fresh(u)
  <2>1. CASE p = None
    BY <2>1, HeldIs, FreshIs
  <2>2. CASE p # None
    BY <1>1, <1>8, <2>2 DEF MInv, OneOwner
  <2> QED BY <2>1, <2>2
<1>12. p # x /\ p # y
  BY <1>4, <1>11
<1>13. OneOwner'
  <2>1. ASSUME NEW q \in Ptrs
        PROVE  q \in DOMAIN mem' <=> \/ \E g \in Handles : q \in Held(g)'
                                     \/ \E u \in Threads : q \in Fresh(u)'
    <3>1. q \in DOMAIN mem' <=> /\ q # p
                                /\ \/ \E g \in Handles : q \in Held(g)
                                   \/ \E u \in Threads : q \in Fresh(u)
      BY <1>1 DEF MInv, OneOwner, Frees
    <3>2. (\E g \in Handles : q \in Held(g)') <=>
             q = x \/ q = y \/ \E g \in Handles \ {h} : q \in Held(g)
      BY <1>1, <1>9
    <3>3. (\E u \in Threads : q \in Fresh(u)') <=> \E u \in Threads \ {t} : q \in Fresh(u)
      BY <1>10
    <3>4. (\E g \in Handles : q \in Held(g)) <=>
             (q = p /\ p # None) \/ \E g \in Handles \ {h} : q \in Held(g)
      BY <1>1, <1>8
    <3>5. (\E u \in Threads : q \in Fresh(u)) <=>
             q = x \/ q = y \/ \E u \in Threads \ {t} : q \in Fresh(u)
      BY <1>4
    <3> QED BY <1>11, <1>12, <3>1, <3>2, <3>3, <3>4, <3>5
  <2>2. \A g \in Handles : handle'[g].a = handle'[g].b => handle'[g].a = None
    BY <1>3, <1>4 DEF MInv, OneOwner
  <2>3. ASSUME NEW g \in Handles, NEW k \in Handles, g # k
        PROVE  Held(g)' \cap Held(k)' = {}
    <3>1. Held(g) \cap Held(k) = {}
      BY <2>3 DEF MInv, OneOwner
    <3>2. Held(g) \cap Fresh(t) = {} /\ Held(k) \cap Fresh(t) = {}
      BY DEF MInv, OneOwner
    <3> QED BY <1>4, <1>9, <2>3, <3>1, <3>2
  <2>4. \A u, v \in Threads : u # v => Fresh(u)' \cap Fresh(v)' = {}
    BY <1>10 DEF MInv, OneOwner
  <2>5. ASSUME NEW g \in Handles, NEW u \in Threads
        PROVE  Held(g)' \cap Fresh(u)' = {}
    <3>1. CASE u = t
      BY <1>10, <3>1
    <3>2. CASE u # t
      <4>1. Fresh(u)' = Fresh(u) /\ Fresh(u) \cap Fresh(t) = {} /\ Held(g) \cap Fresh(u) = {}
        BY <1>10, <3>2 DEF MInv, OneOwner
      <4> QED BY <1>4, <1>9, <4>1
    <3> QED BY <3>1, <3>2
  <2> QED BY <2>1, <2>2, <2>3, <2>4, <2>5 DEF OneOwner
<1>14. Sized'
  <2>1. ASSUME NEW g \in Handles, NEW q \in Held(g)'
        PROVE  DOMAIN mem'[q] = 0 .. handle'[g].cap - 1
    <3>1. q \in Ptrs
      <4>1. handle'[g] \in HandleT
        BY <1>1 DEF Rebuilt
      <4>2. handle'[g].a \in NullPtrs /\ handle'[g].b \in NullPtrs
        BY <4>1 DEF HandleT
      <4> QED BY <2>1, <4>2 DEF Held, NullPtrs
    <3>2. q \in DOMAIN mem'
      BY <1>13, <2>1, <3>1 DEF OneOwner
    <3>3. mem'[q] = mem[q]
      BY <1>1, <3>2 DEF Frees
    <3>4. CASE g = h
      BY <1>3, <1>4, <1>9, <2>1, <3>3, <3>4
    <3>5. CASE g # h
      <4>1. q \in Held(g) /\ handle'[g] = handle[g]
        BY <1>3, <1>9, <2>1, <3>5
      <4> QED BY <3>3, <4>1 DEF MInv, Sized
    <3> QED BY <3>4, <3>5
  <2>2. ASSUME NEW u \in Threads
        PROVE  /\ call'[u].pc \in Allocating =>
                    /\ call'[u].in # None /\ call'[u].in # call'[u].out
                    /\ call'[u].out = None <=> call'[u].pc \in {"malloc_b", "undo"}
               /\ call'[u].pc = "workspace" => call'[u].out = None
               /\ \A q \in Fresh(u)' : DOMAIN mem'[q] = 0 .. required_nodes(call'[u].n) - 1
    <3>1. CASE u = t
      BY <1>2, <1>10, <3>1 DEF Allocating
    <3>2. CASE u # t
      <4>1. call'[u] = call[u] /\ Fresh(u)' = Fresh(u)
        BY <1>2, <1>10, <3>2
      <4>2. \A q \in Fresh(u) : mem'[q] = mem[q]
        BY <1>1, <1>11, OwnersLive DEF Frees
      <4> QED BY <4>1, <4>2 DEF MInv, Sized
    <3> QED BY <3>1, <3>2
  <2> QED BY <2>1, <2>2 DEF Sized
<1>15. OneCall'
  BY <1>2, <1>6, OneCallKept DEF h
<1>16. LiveUsed'
  <2>1. handle[h].state = "live"
    BY <1>6 DEF MInv, LiveUsed, h
  <2>2. ASSUME NEW u \in Threads, call'[u].pc # "idle"
        PROVE  handle'[call'[u].h].state = "live"
    <3>1. CASE call'[u].h = h
      BY <1>3, <2>1, <3>1
    <3>2. CASE call'[u].h # h
      <4>1. u # t
        BY <1>2, <2>2, <3>2
      <4>2. call'[u] = call[u] /\ call[u].pc # "idle" /\ call[u].h \in Handles \ {h}
        BY <1>2, <2>2, <3>2, <4>1, HandleOfCall DEF MInv
      <4> QED BY <1>3, <4>2 DEF MInv, LiveUsed
    <3> QED BY <3>1, <3>2
  <2>3. ASSUME NEW g \in Handles
        PROVE  /\ handle'[g].state # "live" => handle'[g].a = None
               /\ handle'[g].a = None <=> handle'[g].b = None
               /\ handle'[g].a = None <=> handle'[g].cap = 0
    <3>1. CASE g = h
      BY <1>3, <1>4, <1>5, <2>1, <3>1
    <3>2. CASE g # h
      BY <1>3, <3>2 DEF MInv, LiveUsed
    <3> QED BY <3>1, <3>2
  <2> QED BY <2>2, <2>3 DEF LiveUsed
<1>17. CallsFit'
  <2>1. FitOf(call[t])'
    <3>1. CASE call'[t].pc = "idle"
      BY <3>1 DEF FitOf, Launching
    <3>2. CASE /\ call'[t].pc \in {"header", "segment"}
               /\ call'[t].h = h /\ call'[t].n = call[t].n
      BY <1>3, <1>5, <3>2 DEF FitOf, m
    <3> QED BY <1>2, <3>1, <3>2
  <2> QED BY <1>1, <1>2, <1>3, <1>6, <2>1, OthersFit DEF h
<1>18. QueueFits'
  <2>1. \A s \in Streams : \A k \in KernelsOn(s) : k.h # h
    BY <1>6 DEF MInv, QueueFits, QueuedFits
  <2> QED BY <1>1, <1>3, <1>7, <2>1, QueueKept
<1> QED BY <1>13, <1>14, <1>15, <1>16, <1>17, <1>18 DEF MInv

\* A caller's step that frees nothing and starts nothing.
LEMMA BetweenCalls ==
  ASSUME MInv, TInv', NEW t \in Threads, call[t] = Idle, call' = call, queue' = queue,
         WorkspacesKept, LiveUsed'
  PROVE  MInv'
<1>1. call[t].pc = "idle" /\ call'[t].pc = "idle"
  BY IdleTyped
<1>2. Quiet(t)
  BY <1>1 DEF Quiet, Allocating
<1>3. OneCall'
  BY <1>1, OneCallKept
<1>4. FitOf(call[t])'
  BY <1>1 DEF FitOf, Launching
<1>5. \A s \in Streams : \A q \in KernelsOn(s)' : q \in KernelsOn(s)
  BY DEF KernelsOn
<1> QED BY <1>2, <1>3, <1>4, <1>5, QuietKeeps

LEMMA WritesMemory ==
  ASSUME MInv, TInv', NEW t \in Threads, ClientWrites(t)
  PROVE  MInv'
<1>1. call[t] = Idle /\ call' = call /\ queue' = queue /\ handle' = handle /\ mem' = mem
  BY DEF ClientWrites
<1>2. WorkspacesKept /\ LiveUsed'
  BY <1>1 DEF WorkspacesKept, MInv, LiveUsed
<1> QED BY <1>1, <1>2, BetweenCalls

LEMMA CreateMemory ==
  ASSUME MInv, TInv', NEW t \in Threads, NEW h \in Handles, CreateEffect(t, h)
  PROVE  MInv'
<1>1. /\ call[t] = Idle /\ call' = call /\ queue' = queue /\ mem' = mem
      /\ handle[h].state = "none"
      /\ \A g \in Handles \ {h} : handle'[g] = handle[g]
      /\ handle'[h].a = handle[h].a /\ handle'[h].b = handle[h].b
      /\ handle'[h].cap = handle[h].cap
      /\ (handle'[h].state = handle[h].state \/ handle'[h].state = "live")
  BY DEF CreateEffect
<1>2. WorkspacesKept
  BY <1>1 DEF WorkspacesKept
<1>3. LiveUsed'
  <2>1. ASSUME NEW u \in Threads, call'[u].pc # "idle"
        PROVE  handle'[call'[u].h].state = "live"
    <3>1. handle[call[u].h].state = "live" /\ call[u].h \in Handles
      BY <1>1, <2>1, HandleOfCall DEF MInv, LiveUsed
    <3> QED BY <1>1, <3>1
  <2>2. ASSUME NEW g \in Handles
        PROVE  /\ handle'[g].state # "live" => handle'[g].a = None
               /\ handle'[g].a = None <=> handle'[g].b = None
               /\ handle'[g].a = None <=> handle'[g].cap = 0
    <3>1. CASE g = h
      BY <1>1, <3>1 DEF MInv, LiveUsed
    <3>2. CASE g # h
      BY <1>1, <3>2 DEF MInv, LiveUsed
    <3> QED BY <3>1, <3>2
  <2> QED BY <2>1, <2>2 DEF LiveUsed
<1> QED BY <1>1, <1>2, <1>3, BetweenCalls

LEMMA DestroyMemory ==
  ASSUME MInv, TInv', NEW t \in Threads, NEW h \in Handles, DestroyEffect(t, h)
  PROVE  MInv'
<1> DEFINE x == handle[h].a
           y == handle[h].b
<1>1. /\ call' = call /\ queue' = queue /\ DeviceIdle
      /\ \A u \in Threads : call[u].h # h
      /\ handle'[h] = Gone /\ \A g \in Handles \ {h} : handle'[g] = handle[g]
      /\ mem' = [q \in DOMAIN mem \ {x, y} |-> mem[q]]
  BY DEF DestroyEffect
<1>2. DOMAIN mem' = DOMAIN mem \ {x, y} /\ \A q \in DOMAIN mem' : mem'[q] = mem[q]
  BY <1>1
<1>3. handle'[h].a = None /\ handle'[h].b = None /\ handle'[h].cap = 0
      /\ handle'[h].state = "gone"
  BY <1>1 DEF Gone
<1>4. \A g \in Handles : Freed(g)' <=> Freed(g)
  BY <1>1 DEF Freed
<1>5. ~ Freed(h)
  BY <1>1 DEF Freed
<1>6. \A q : q \in Held(h) <=> q # None /\ (q = x \/ q = y)
  BY <1>5, HeldIs
<1> HIDE DEF x, y
<1>7. \A g \in Handles : \A q : q \in Held(g)' <=> g # h /\ q \in Held(g)
  <2> SUFFICES ASSUME NEW g \in Handles, NEW q
               PROVE  q \in Held(g)' <=> g # h /\ q \in Held(g)
    OBVIOUS
  <2>1. q \in Held(g)' <=> /\ q # None
                           /\ q = handle'[g].a \/ q = handle'[g].b
                           /\ ~ (Freed(g)' /\ q = handle'[g].a)
    BY DEF Held, Freed
  <2>2. Freed(g)' <=> Freed(g)
    BY <1>4
  <2>3. q \in Held(g) <=> /\ q # None
                          /\ q = handle[g].a \/ q = handle[g].b
                          /\ ~ (Freed(g) /\ q = handle[g].a)
    BY HeldIs
  <2>4. CASE g = h
    BY <1>3, <2>1, <2>4
  <2>5. CASE g # h
    <3>1. handle'[g] = handle[g]
      BY <1>1, <2>5
    <3> QED BY <2>1, <2>2, <2>3, <2>5, <3>1
  <2> QED BY <2>4, <2>5
<1>8. \A u \in Threads : Fresh(u)' = Fresh(u)
  BY <1>1 DEF Fresh
<1>9. OneOwner'
  <2>1. ASSUME NEW q \in Ptrs
        PROVE  q \in DOMAIN mem' <=> \/ \E g \in Handles : q \in Held(g)'
                                     \/ \E u \in Threads : q \in Fresh(u)'
    <3>1. q # None
      BY ConstantsAssumption
    <3>2. q \in DOMAIN mem <=> \/ \E g \in Handles : q \in Held(g)
                               \/ \E u \in Threads : q \in Fresh(u)
      BY DEF MInv, OneOwner
    <3>3. CASE q = x \/ q = y
      <4>1. q \in Held(h) /\ q \notin DOMAIN mem'
        BY <1>2, <1>6, <3>1, <3>3
      <4>2. /\ \A g \in Handles \ {h} : q \notin Held(g)
            /\ \A u \in Threads : q \notin Fresh(u)
        BY <4>1 DEF MInv, OneOwner
      <4> QED BY <1>7, <1>8, <4>1, <4>2
    <3>4. CASE q # x /\ q # y
      <4>1. q \notin Held(h)
        BY <1>6, <3>4
      <4> QED BY <1>2, <1>7, <1>8, <3>2, <3>4, <4>1
    <3> QED BY <3>3, <3>4
  <2>2. \A g \in Handles : handle'[g].a = handle'[g].b => handle'[g].a = None
    BY <1>1, <1>3 DEF MInv, OneOwner
  <2>3. /\ \A g, k \in Handles : g # k => Held(g)' \cap Held(k)' = {}
        /\ \A u, v \in Threads : u # v => Fresh(u)' \cap Fresh(v)' = {}
        /\ \A g \in Handles, u \in Threads : Held(g)' \cap Fresh(u)' = {}
    BY <1>7, <1>8 DEF MInv, OneOwner
  <2> QED BY <2>1, <2>2, <2>3 DEF OneOwner
<1>10. Sized'
  <2>1. ASSUME NEW g \in Handles, NEW q \in Held(g)'
        PROVE  DOMAIN mem'[q] = 0 .. handle'[g].cap - 1
    <3>1. g # h /\ q \in Held(g) /\ handle'[g] = handle[g] /\ q \in DOMAIN mem
      BY <1>1, <1>7, <2>1, OwnersLive
    <3>2. q # x /\ q # y
      <4>1. Held(g) \cap Held(h) = {} /\ q # None
        BY <3>1, HeldIs DEF MInv, OneOwner
      <4> QED BY <1>6, <3>1, <4>1
    <3> QED BY <1>2, <3>1, <3>2 DEF MInv, Sized
  <2>2. ASSUME NEW u \in Threads, NEW q \in Fresh(u)'
        PROVE  DOMAIN mem'[q] = 0 .. required_nodes(call'[u].n) - 1
    <3>1. q \in Fresh(u) /\ q \in DOMAIN mem
      BY <1>8, <2>2, OwnersLive
    <3>2. q # x /\ q # y
      <4>1. Held(h) \cap Fresh(u) = {} /\ q # None
        BY <3>1, FreshIs DEF MInv, OneOwner
      <4> QED BY <1>6, <3>1, <4>1
    <3> QED BY <1>1, <1>2, <3>1, <3>2 DEF MInv, Sized
  <2> QED BY <1>1, <2>1, <2>2 DEF MInv, Sized
<1>11. OneCall'
  BY <1>1 DEF MInv, OneCall
<1>12. LiveUsed'
  <2>1. ASSUME NEW u \in Threads, call'[u].pc # "idle"
        PROVE  handle'[call'[u].h].state = "live"
    <3>1. handle[call[u].h].state = "live" /\ call[u].h \in Handles \ {h}
      BY <1>1, <2>1, HandleOfCall DEF MInv, LiveUsed
    <3> QED BY <1>1, <3>1
  <2>2. ASSUME NEW g \in Handles
        PROVE  /\ handle'[g].state # "live" => handle'[g].a = None
               /\ handle'[g].a = None <=> handle'[g].b = None
               /\ handle'[g].a = None <=> handle'[g].cap = 0
    <3>1. CASE g = h
      BY <1>3, <3>1
    <3>2. CASE g # h
      BY <1>1, <3>2 DEF MInv, LiveUsed
    <3> QED BY <3>1, <3>2
  <2> QED BY <2>1, <2>2 DEF LiveUsed
<1>13. CallsFit'
  <2> SUFFICES ASSUME NEW u \in Threads PROVE FitOf(call[u])'
    BY DEF CallsFit
  <2>1. CASE call[u].pc \in Launching
    <3>1. call[u].h \in Handles \ {h} /\ FitOf(call[u])
      BY <1>1, <2>1, LaunchingCall DEF MInv, CallsFit
    <3> QED BY <1>1, <3>1 DEF FitOf, BothOf
  <2>2. CASE call[u].pc \notin Launching
    BY <1>1, <2>2 DEF FitOf, Launching
  <2> QED BY <2>1, <2>2
<1>14. QueueFits'
  <2>1. \A s \in Streams : KernelsOn(s) = {}
    BY <1>1, KernelsAre DEF MInv
  <2> QED BY <1>1, <1>4, <2>1, QueueKept
<1> QED BY <1>9, <1>10, <1>11, <1>12, <1>13, <1>14 DEF MInv

\* The only place where it matters that calls with a handle are serialised.
LEMMA BeginMemory ==
  ASSUME SerialCalls, MInv, TInv', NEW t \in Threads, NEW op, NEW h \in Handles, NEW s,
         NEW n, NEW iv, Begins(t, op, h, s, n, iv), NEW r, HandleFree(h, r),
         UNCHANGED <<handle, mem, queue>>
  PROVE  MInv'
<1>1. /\ call[t].pc = "idle" /\ handle[h].state = "live"
      /\ \A u \in Threads \ {t} : call'[u] = call[u]
      /\ call'[t].pc = "workspace" /\ call'[t].h = h /\ call'[t].out = None
  BY IdleTyped DEF Begins
<1>2. Quiet(t) /\ WorkspacesKept
  BY <1>1 DEF Quiet, WorkspacesKept, Allocating
<1>3. \A u \in Threads : call[u].h # h
  BY DEF HandleFree
<1>4. OneCall'
  BY <1>1, <1>3 DEF MInv, OneCall
<1>5. LiveUsed'
  BY <1>1 DEF MInv, LiveUsed
<1>6. FitOf(call[t])'
  BY <1>1 DEF FitOf, Launching
<1>7. \A q \in Streams : \A k \in KernelsOn(q)' : k \in KernelsOn(q)
  BY DEF KernelsOn
<1> QED BY <1>2, <1>4, <1>5, <1>6, <1>7, QuietKeeps

LEMMA DeviceMemory ==
  ASSUME MInv, TInv', NEW s \in Streams, DeviceEffect(s)
  PROVE  MInv'
<1> DEFINE k == Head(queue[s])
<1>1. Runs(s, k) /\ RunEffect(s, k)
  BY DEF DeviceEffect
<1> HIDE DEF k
<1>2. call' = call /\ handle' = handle
  BY <1>1 DEF Runs
<1>3. WorkspacesKept
  BY <1>1, <1>2 DEF WorkspacesKept, RunEffect, Writes, Stores
<1>4. \A r \in Streams : \A q \in KernelsOn(r)' : q \in KernelsOn(r)
  BY <1>1, RunAdds DEF MInv
<1> QED BY <1>2, <1>3, <1>4, StillKeeps

LEMMA InitMemory == Init => MInv
<1> SUFFICES ASSUME Init PROVE MInv
  OBVIOUS
<1>1. TInv
  BY InitTyped
<1>2. /\ \A t \in Threads : call[t] = Idle /\ call[t].pc = "idle"
      /\ \A h \in Handles : /\ handle[h].state = "none" /\ handle[h].a = None
                            /\ handle[h].b = None /\ handle[h].cap = 0
      /\ DOMAIN mem = {}
      /\ \A s \in Streams : queue[s] = <<>>
  BY IdleTyped DEF Init
<1>3. \A h \in Handles : Held(h) = {}
  BY <1>2, HeldIs
<1>4. \A t \in Threads : Fresh(t) = {}
  BY <1>2 DEF Fresh
<1>5. OneOwner
  BY <1>2, <1>3, <1>4 DEF OneOwner
<1>6. OneCall /\ LiveUsed /\ Sized /\ CallsFit
  BY <1>2, <1>3, <1>4 DEF OneCall, LiveUsed, Sized, CallsFit, FitOf, Launching, Allocating
<1>7. QueueFits
  BY <1>1, <1>2, KernelsAre DEF QueueFits, DeviceIdle
<1> QED BY <1>1, <1>5, <1>6, <1>7 DEF MInv

LEMMA NextMemory == ASSUME SerialCalls PROVE MInv /\ [Next]_vars => MInv'
<1> SUFFICES ASSUME MInv, [Next]_vars PROVE MInv'
  OBVIOUS
<1>1. TInv'
  BY NextTyped DEF MInv
<1>2. ASSUME NEW t \in Threads, HostEffect(t) PROVE MInv'
  BY <1>1, <1>2, EnsureMemory, MallocBMemory, UndoMemory, FreeAMemory, FreeBMemory,
     HostLaunchMemory DEF HostEffect
<1>3. ASSUME NEW t \in Threads, ClientEffect(t) PROVE MInv'
  <2>1. CASE ClientWrites(t)
    BY <1>1, <2>1, WritesMemory
  <2>2. ASSUME NEW h \in Handles, CreateEffect(t, h) \/ DestroyEffect(t, h)
        PROVE  MInv'
    BY <1>1, <2>2, CreateMemory, DestroyMemory
  <2>3. ASSUME NEW h \in Handles, NEW n \in Lens, ReserveEffect(t, h, n)
        PROVE  MInv'
    BY <1>1, <2>3, BeginMemory DEF ReserveEffect
  <2>4. ASSUME NEW h \in Handles, NEW s \in Streams, OpenEffect(t, h, s)
        PROVE  MInv'
    BY <1>1, <2>4, BeginMemory DEF OpenEffect
  <2>5. ASSUME NEW h \in Handles, NEW s \in Streams, NEW n \in Lens,
               SealEffect(t, h, s, n, calls + 1)
        PROVE  MInv'
    BY <1>1, <2>5, BeginMemory DEF SealEffect
  <2> QED BY <1>3, <2>1, <2>2, <2>3, <2>4, <2>5 DEF ClientEffect
<1>4. ASSUME NEW s \in Streams, DeviceEffect(s) PROVE MInv'
  BY <1>1, <1>4, DeviceMemory
<1>5. CASE Next
  <2>1. TInv
    BY DEF MInv
  <2> QED BY <1>2, <1>3, <1>4, <1>5, <2>1, StepDoes
<1>6. CASE UNCHANGED vars
  <2>1. call' = call /\ handle' = handle /\ WorkspacesKept /\ queue' = queue
    BY <1>6 DEF vars, WorkspacesKept
  <2>2. \A s \in Streams : \A q \in KernelsOn(s)' : q \in KernelsOn(s)
    BY <2>1 DEF KernelsOn
  <2> QED BY <1>1, <2>1, <2>2, StillKeeps
<1> QED BY <1>5, <1>6

LEMMA MemoryInvariance == ASSUME SerialCalls PROVE Spec => []MInv
<1>1. MInv /\ [Next]_vars => MInv'
  BY NextMemory
<1> QED BY <1>1, InitMemory, PTL DEF Spec

\* Callers that do not overlap their calls with one handle leak no workspace,
\* share none and free none twice, whichever allocations fail.
THEOREM WorkspacesOwned == ASSUME SerialCalls PROVE Spec => []OneOwner
<1>1. MInv => OneOwner
  BY DEF MInv
<1> QED BY <1>1, MemoryInvariance, PTL

\* What a queued kernel is given.
LEMMA QueuedKernelFits ==
  ASSUME MInv, NEW s \in Streams, NEW k \in KernelsOn(s)
  PROVE  KernelFits(k)
<1>1. k \in Kernels /\ k.h \in Handles /\ QueuedFits(k)
  BY KernelsAre, KernelFields DEF MInv, QueueFits
<1> DEFINE h == k.h
           c == handle[h].cap
<1>2. c \in Nat /\ c > 0 /\ ~ Freed(h)
  <2>1. handle[h] \in HandleT
    BY <1>1, ArraysTyped DEF MInv, TInv
  <2> QED BY <1>1, <2>1 DEF HandleT, QueuedFits
<1>3. handle[h].a # None /\ handle[h].b # None /\ handle[h].state = "live"
      /\ handle[h].a # handle[h].b
  BY <1>1, <1>2 DEF MInv, LiveUsed, OneOwner
<1>4. handle[h].a \in Held(h) /\ handle[h].b \in Held(h)
  BY <1>1, <1>2, <1>3, HeldIs
<1>5. \A p \in {handle[h].a, handle[h].b} : p \in DOMAIN mem /\ DOMAIN mem[p] = 0 .. c - 1
  BY <1>1, <1>4, OwnersLive DEF MInv, Sized
<1>6. \A p \in {handle[h].a, handle[h].b} : \A m \in Nat : m <= c => Holds(p, m)
  BY <1>2, <1>5 DEF Holds
<1> HIDE DEF h, c
<1>7. ASSUME k.k = "segment" PROVE Holds(k.out, required_nodes(k.n))
  <2>1. k.n \in Nat
    BY <1>1, <1>7, KernelFields
  <2>2. k.out = handle[h].a /\ required_nodes(k.n) <= c /\ required_nodes(k.n) \in Nat
    BY <1>1, <1>7, <2>1, NodesNeeded DEF QueuedFits, h, c
  <2> QED BY <1>6, <2>2
<1>8. ASSUME k.k = "combine"
      PROVE  Holds(k.in, k.count) /\ Holds(k.out, halved(k.count)) /\ k.in # k.out
  <2>1. BothOf(h, k.in, k.out) /\ k.count <= c /\ k.count \in Nat
    BY <1>1, <1>8, KernelFields DEF QueuedFits, h, c
  <2>2. halved(k.count) \in Nat /\ halved(k.count) <= c
    BY <1>2, <2>1, Halving
  <2> QED BY <1>3, <1>6, <2>1, <2>2 DEF BothOf
<1>9. ASSUME k.k \in {"finalize", "verify"} PROVE Holds(k.in, 1)
  <2>1. k.in \in {handle[h].a, handle[h].b}
    BY <1>1, <1>9 DEF QueuedFits, h
  <2> QED BY <1>2, <1>6, <2>1
<1> QED BY <1>3, <1>7, <1>8, <1>9 DEF KernelFits, h

\* Whatever is destroyed, reallocated or resized while kernels are queued, a
\* kernel finds its key live and its workspaces allocated and large enough.
THEOREM KernelsAlwaysFit == ASSUME SerialCalls PROVE Spec => []KernelsFit
<1>1. MInv => KernelsFit
  BY QueuedKernelFits DEF KernelsFit
<1> QED BY <1>1, MemoryInvariance, PTL

-----------------------------------------------------------------------------
(* IVs: a launch of the header kernel does not fail.                       *)

\* Where a kernel of buffer b at place i of stream q runs, the IV in the frame
\* is iv: the last kernel of b before it is the header kernel that writes iv,
\* or there is none and iv, x, is there already.
Before(q, i, b, x, iv) ==
  \/ \E j \in 1 .. i - 1 :
       /\ q[j].k = "header" /\ q[j].b = b /\ q[j].iv = iv
       /\ \A m \in j + 1 .. i - 1 : q[m].b # b
  \/ x = iv /\ \A m \in 1 .. i - 1 : q[m].b # b

\* The kernels of a buffer are on one stream, that of its call.
OneStreamEach ==
  /\ \A r, s \in Streams : \A k \in KernelsOn(r), q \in KernelsOn(s) : k.b = q.b => r = s
  /\ \A t \in Threads : call[t].op \in {"seal", "open"} => BufferFree(t, call[t].s)

\* An encryption finds the IV its caller passed: those queued, and those to come.
EncryptsReady ==
  \A s \in Streams : \A i \in 1 .. Len(queue[s]) :
    queue[s][i].k = "encrypt" =>
      Before(queue[s], i, queue[s][i].b, buf[queue[s][i].b].iv, queue[s][i].pt)

CallsReady ==
  \A t \in Threads :
    call[t].pc = "encrypt" =>
      Before(queue[call[t].s], Len(queue[call[t].s]) + 1, t, buf[t].iv, call[t].iv)

SealedUnderTheirIV == \A x \in sealed : x.iv = x.pt

IVInv == TInv /\ OneStreamEach /\ EncryptsReady /\ CallsReady /\ SealedUnderTheirIV

\* A launch changes nothing before it.
LEMMA BeforeAppend ==
  ASSUME NEW q \in Seq(Kernels), NEW k \in Kernels, NEW i \in 1 .. Len(q) + 1,
         NEW b, NEW x, NEW iv, Before(q, i, b, x, iv)
  PROVE  Before(Append(q, k), i, b, x, iv)
<1>1. \A m \in 1 .. i - 1 : Append(q, k)[m] = q[m]
  OBVIOUS
<1> DEFINE r == Append(q, k)
<1> HIDE DEF r
<1>2. \A m \in 1 .. i - 1 : r[m] = q[m]
  BY <1>1 DEF r
<1>3. Before(r, i, b, x, iv)
  BY <1>2 DEF Before
<1> QED BY <1>3 DEF r

\* A kernel of another buffer may be launched in between.
LEMMA BeforeGrows ==
  ASSUME NEW q \in Seq(Kernels), NEW k \in Kernels, NEW b, NEW x, NEW iv, k.b # b,
         Before(q, Len(q) + 1, b, x, iv)
  PROVE  Before(Append(q, k), Len(q) + 2, b, x, iv)
<1>1. /\ \A m \in 1 .. Len(q) : Append(q, k)[m] = q[m]
      /\ Append(q, k)[Len(q) + 1] = k
  OBVIOUS
<1> DEFINE r == Append(q, k)
           n == Len(q)
<1>2. n \in Nat
  OBVIOUS
<1> HIDE DEF r, n
<1>3. \A m \in 1 .. n : r[m] = q[m]
  BY <1>1 DEF r, n
<1>4. r[n + 1].b # b
  BY <1>1 DEF r, n
<1>5. Before(q, n + 1, b, x, iv)
  BY DEF n
<1>6. Before(r, n + 2, b, x, iv)
  BY <1>2, <1>3, <1>4, <1>5, SMTT(30) DEF Before
<1> QED BY <1>6 DEF r, n

\* After the launch of its header the IV is what the header writes.
LEMMA BeforeHeader ==
  ASSUME NEW q \in Seq(Kernels), NEW k \in Kernels, k.k = "header", NEW x
  PROVE  Before(Append(q, k), Len(q) + 2, k.b, x, k.iv)
<1>1. Append(q, k)[Len(q) + 1] = k /\ Len(q) \in Nat
  OBVIOUS
<1> QED BY <1>1 DEF Before

\* When the first kernel has run, what it wrote is there.
LEMMA BeforeTail ==
  ASSUME NEW q \in Seq(Kernels), q # <<>>, NEW i \in 2 .. Len(q) + 1,
         NEW b, NEW x, NEW y, NEW iv, Before(q, i, b, x, iv),
         Head(q).k = "header" /\ Head(q).b = b => y = Head(q).iv,
         Head(q).b # b => y = x
  PROVE  Before(Tail(q), i - 1, b, y, iv)
<1> DEFINE r == Tail(q)
           n == Len(q)
<1>1. n \in Nat /\ Head(q) = q[1] /\ \A m \in 1 .. n - 1 : r[m] = q[m + 1]
  OBVIOUS
<1> HIDE DEF r, n
<1>2. i \in 2 .. n + 1
  BY DEF n
<1>3. ASSUME NEW j \in 1 .. i - 1, q[j].k = "header", q[j].b = b, q[j].iv = iv,
             \A m \in j + 1 .. i - 1 : q[m].b # b
      PROVE  Before(r, i - 1, b, y, iv)
  <2>1. \A m \in j .. i - 2 : m \in 1 .. n - 1 /\ m + 1 \in j + 1 .. i - 1 /\ r[m].b # b
    <3> SUFFICES ASSUME NEW m \in j .. i - 2
                 PROVE  m \in 1 .. n - 1 /\ m + 1 \in j + 1 .. i - 1 /\ r[m].b # b
      OBVIOUS
    <3>1. m \in 1 .. n - 1 /\ m + 1 \in j + 1 .. i - 1
      BY <1>1, <1>2
    <3> QED BY <1>1, <1>3, <3>1
  <2>2. CASE j = 1
    <3>1. y = iv
      BY <1>1, <1>3, <2>2
    <3>2. \A m \in 1 .. i - 2 : r[m].b # b
      BY <2>1, <2>2
    <3> QED BY <1>2, <3>1, <3>2 DEF Before
  <2>3. CASE j # 1
    <3>1. j - 1 \in 1 .. i - 2 /\ j - 1 \in 1 .. n - 1 /\ (j - 1) + 1 = j
      BY <1>1, <1>2, <2>3
    <3>2. r[j - 1] = q[j]
      BY <1>1, <3>1
    <3> QED BY <1>2, <1>3, <2>1, <3>1, <3>2 DEF Before
  <2> QED BY <2>2, <2>3
<1>4. ASSUME x = iv, \A m \in 1 .. i - 1 : q[m].b # b
      PROVE  Before(r, i - 1, b, y, iv)
  <2>1. 1 \in 1 .. i - 1 /\ y = iv
    BY <1>1, <1>2, <1>4
  <2>2. ASSUME NEW m \in 1 .. i - 2 PROVE r[m].b # b
    <3>1. m \in 1 .. n - 1 /\ m + 1 \in 1 .. i - 1
      BY <1>1, <1>2
    <3> QED BY <1>1, <1>4, <3>1
  <2> QED BY <1>2, <2>1, <2>2 DEF Before
<1>5. Before(r, i - 1, b, y, iv)
  BY <1>3, <1>4 DEF Before
<1> QED BY <1>5 DEF r

\* Steps of thread t, or of none, that launch and run nothing.
LEMMA StillIV ==
  ASSUME IVInv, TInv', NEW t \in Threads, queue' = queue, sealed' = sealed,
         \A b \in Threads \ {t} : buf'[b].iv = buf[b].iv,
         buf'[t].iv = buf[t].iv \/ BufferQuiet(t),
         \A u \in Threads \ {t} : call'[u] = call[u],
         call'[t].pc # "encrypt" \/ (call' = call /\ buf'[t].iv = buf[t].iv),
         call'[t].op \in {"seal", "open"} => BufferFree(t, call'[t].s)
  PROVE  IVInv'
<1>1. \A s \in Streams : KernelsOn(s)' = KernelsOn(s)
  BY DEF KernelsOn
<1>2. OneStreamEach'
  <2>1. ASSUME NEW u \in Threads, call'[u].op \in {"seal", "open"}
        PROVE  BufferFree(u, call'[u].s)
    BY <2>1 DEF IVInv, OneStreamEach
  <2>2. ASSUME NEW u \in Threads, call'[u].op \in {"seal", "open"}
        PROVE  BufferFree(u, call[u].s)'
    BY <1>1, <2>1, <2>2 DEF BufferFree
  <2> QED BY <1>1, <2>2 DEF IVInv, OneStreamEach
<1>3. EncryptsReady'
  <2> SUFFICES ASSUME NEW s \in Streams, NEW i \in 1 .. Len(queue[s]),
                      queue[s][i].k = "encrypt"
               PROVE  Before(queue[s], i, queue[s][i].b, buf'[queue[s][i].b].iv, queue[s][i].pt)
    BY DEF EncryptsReady
  <2>1. queue[s][i] \in KernelsOn(s) /\ queue[s][i].b \in Threads
    BY KernelsAre, KernelFields DEF IVInv
  <2>2. buf'[queue[s][i].b].iv = buf[queue[s][i].b].iv
    BY <2>1 DEF BufferQuiet
  <2> QED BY <2>2 DEF IVInv, EncryptsReady
<1>4. CallsReady'
  <2> SUFFICES ASSUME NEW u \in Threads, call'[u].pc = "encrypt"
               PROVE  Before(queue[call'[u].s], Len(queue[call'[u].s]) + 1, u, buf'[u].iv, call'[u].iv)
    BY DEF CallsReady
  <2>1. call'[u] = call[u] /\ buf'[u].iv = buf[u].iv
    OBVIOUS
  <2> QED BY <2>1 DEF IVInv, CallsReady
<1> QED BY <1>2, <1>3, <1>4 DEF IVInv, SealedUnderTheirIV

\* Launches of thread t in its seal or open.
LEMMA LaunchIV ==
  ASSUME IVInv, TInv', NEW t \in Threads, NEW k \in Kernels, Launches(t, k), k.b = t,
         call[t].s \in Streams, call[t].op \in {"seal", "open"},
         buf' = buf, sealed' = sealed,
         \A u \in Threads \ {t} : call'[u] = call[u],
         k.k = "encrypt" => call[t].pc = "encrypt" /\ k.pt = call[t].iv,
         \/ call'[t].op \notin {"seal", "open"} /\ call'[t].pc # "encrypt"
         \/ call'[t].op = call[t].op /\ call'[t].s = call[t].s,
         call'[t].pc = "encrypt" =>
           k.k = "header" /\ k.iv = call'[t].iv /\ "header" \notin Faulty
  PROVE  IVInv'
<1> DEFINE s == call[t].s
<1>1. \A r \in Streams : \A q \in KernelsOn(r)' : q \in KernelsOn(r) \/ (q = k /\ r = s)
  BY LaunchAdds DEF IVInv
<1>2. \A r \in Streams : queue[r] \in Seq(Kernels)
  BY KernelsAre DEF IVInv
<1>3. BufferFree(t, s)
  BY DEF IVInv, OneStreamEach
<1>4. \/ queue'[s] = Append(queue[s], k) /\ \A r \in Streams \ {s} : queue'[r] = queue[r]
      \/ queue' = queue /\ k.k \in Faulty
  BY DEF Launches
<1> HIDE DEF s
<1>5. s \in Streams
  BY DEF s
<1>6. OneStreamEach'
  <2>1. ASSUME NEW r \in Streams, NEW z \in Streams,
               NEW p \in KernelsOn(r)', NEW q \in KernelsOn(z)', p.b = q.b
        PROVE  r = z
    <3>1. p \in KernelsOn(r) \/ (p = k /\ r = s)
      BY <1>1
    <3>2. q \in KernelsOn(z) \/ (q = k /\ z = s)
      BY <1>1
    <3>3. \A x \in Streams : \A y \in KernelsOn(x) : y.b = t => x = s
      BY <1>3 DEF BufferFree
    <3> QED BY <2>1, <3>1, <3>2, <3>3 DEF IVInv, OneStreamEach
  <2>2. ASSUME NEW u \in Threads, call'[u].op \in {"seal", "open"},
               NEW r \in Streams \ {call'[u].s}, NEW q \in KernelsOn(r)'
        PROVE  q.b # u
    <3>1. CASE u = t
      <4>1. call'[u].s = s
        BY <2>2, <3>1 DEF s
      <4>2. q \in KernelsOn(r)
        BY <1>1, <2>2, <4>1
      <4> QED BY <1>3, <2>2, <3>1, <4>1, <4>2 DEF BufferFree
    <3>2. CASE u # t
      <4>1. call'[u] = call[u] /\ BufferFree(u, call[u].s)
        BY <2>2, <3>2 DEF IVInv, OneStreamEach
      <4>2. q \in KernelsOn(r) \/ q = k
        BY <1>1
      <4> QED BY <2>2, <3>2, <4>1, <4>2 DEF BufferFree
    <3> QED BY <3>1, <3>2
  <2>3. \A u \in Threads : call'[u].op \in {"seal", "open"} => BufferFree(u, call[u].s)'
    BY <2>2 DEF BufferFree
  <2> QED BY <2>1, <2>3 DEF OneStreamEach
<1>7. EncryptsReady'
  <2> SUFFICES ASSUME NEW r \in Streams, NEW i \in 1 .. Len(queue'[r]),
                      queue'[r][i].k = "encrypt"
               PROVE  Before(queue'[r], i, queue'[r][i].b, buf[queue'[r][i].b].iv,
                             queue'[r][i].pt)
    BY DEF EncryptsReady
  <2>1. CASE queue'[r] = queue[r]
    BY <2>1 DEF IVInv, EncryptsReady
  <2>2. CASE r = s /\ queue'[s] = Append(queue[s], k)
    <3>1. CASE i \in 1 .. Len(queue[s])
      <4>1. queue'[r][i] = queue[r][i] /\ i \in 1 .. Len(queue[r]) + 1 /\ i \in 1 .. Len(queue[r])
        BY <1>2, <1>5, <2>2, <3>1
      <4>2. Before(queue[r], i, queue[r][i].b, buf[queue[r][i].b].iv, queue[r][i].pt)
        BY <4>1 DEF IVInv, EncryptsReady
      <4>3. Before(Append(queue[r], k), i, queue[r][i].b, buf[queue[r][i].b].iv, queue[r][i].pt)
        BY <1>2, <4>1, <4>2, BeforeAppend
      <4> QED BY <2>2, <4>1, <4>3
    <3>2. CASE i = Len(queue[s]) + 1
      <4>1. queue'[r][i] = k
        BY <1>2, <1>5, <2>2, <3>2
      <4>2. Before(queue[s], i, t, buf[t].iv, k.pt)
        BY <3>2, <4>1 DEF IVInv, CallsReady, s
      <4>3. Before(Append(queue[s], k), i, t, buf[t].iv, k.pt)
        <5>1. i \in 1 .. Len(queue[s]) + 1
          BY <1>2, <1>5, <3>2
        <5> QED BY <1>2, <1>5, <4>2, <5>1, BeforeAppend
      <4> QED BY <2>2, <4>1, <4>3
    <3>3. i \in 1 .. Len(queue[s]) + 1
      BY <1>2, <1>5, <2>2
    <3>4. Len(queue[s]) \in Nat
      BY <1>2, <1>5
    <3> QED BY <3>1, <3>2, <3>3, <3>4
  <2> QED BY <1>4, <2>1, <2>2
<1>8. CallsReady'
  <2> SUFFICES ASSUME NEW u \in Threads, call'[u].pc = "encrypt"
               PROVE  Before(queue'[call'[u].s], Len(queue'[call'[u].s]) + 1, u, buf[u].iv,
                             call'[u].iv)
    BY DEF CallsReady
  <2>1. CASE u = t
    <3>1. k.k = "header" /\ k.iv = call'[u].iv /\ call'[u].s = s
          /\ queue'[s] = Append(queue[s], k)
      BY <1>4, <2>1 DEF s
    <3>2. Before(Append(queue[s], k), Len(queue[s]) + 2, k.b, buf[u].iv, k.iv)
      BY <1>2, <1>5, <3>1, BeforeHeader
    <3>3. Len(Append(queue[s], k)) + 1 = Len(queue[s]) + 2
      BY <1>2, <1>5
    <3> QED BY <2>1, <3>1, <3>2, <3>3
  <2>2. CASE u # t
    <3> DEFINE r == call[u].s
    <3>1. call'[u] = call[u] /\ r \in Streams
          /\ Before(queue[r], Len(queue[r]) + 1, u, buf[u].iv, call[u].iv)
      BY <2>2, LaunchingCall DEF IVInv, CallsReady, Launching
    <3> HIDE DEF r
    <3>2. CASE queue'[r] = queue[r]
      BY <3>1, <3>2 DEF r
    <3>3. CASE queue'[r] = Append(queue[r], k)
      <4>1. Before(Append(queue[r], k), Len(queue[r]) + 2, u, buf[u].iv, call[u].iv)
        BY <1>2, <2>2, <3>1, BeforeGrows
      <4>2. Len(Append(queue[r], k)) + 1 = Len(queue[r]) + 2
        BY <1>2, <3>1
      <4> QED BY <3>1, <3>3, <4>1, <4>2 DEF r
    <3> QED BY <1>4, <3>1, <3>2, <3>3
  <2> QED BY <2>1, <2>2
<1> QED BY <1>6, <1>7, <1>8 DEF IVInv, SealedUnderTheirIV

\* Only the header kernel writes an IV, and only in its own buffer.
LEMMA RunWritesIV ==
  ASSUME TInv, NEW s \in Streams, NEW k \in Kernels, RunEffect(s, k)
  PROVE  /\ \A b \in Threads \ {k.b} : buf'[b] = buf[b]
         /\ k.k = "header" => buf'[k.b].iv = k.iv
         /\ k.k # "header" => buf'[k.b].iv = buf[k.b].iv
<1>1. k.b \in Threads /\ buf \in [Threads -> BufT] /\ buf[k.b] \in BufT
  BY KernelFields, ArraysTyped DEF TInv
<1>2. ASSUME NEW r, buf' = [buf EXCEPT ![k.b] = r]
      PROVE  buf'[k.b] = r /\ \A b \in Threads \ {k.b} : buf'[b] = buf[b]
  BY <1>1, <1>2
<1>3. CASE k.k = "header" /\ buf' = [buf EXCEPT ![k.b].ver = 1, ![k.b].iv = k.iv]
  <2> DEFINE r == [buf[k.b] EXCEPT !.ver = 1]
             f == [buf EXCEPT ![k.b] = r]
  <2>1. f \in [Threads -> BufT] /\ f[k.b] = r /\ r \in BufT
        /\ \A b \in Threads \ {k.b} : f[b] = buf[b]
    BY <1>1, BufferUpdates DEF TInv
  <2>2. buf' = [f EXCEPT ![k.b].iv = k.iv]
    BY <1>3
  <2>3. buf' = [f EXCEPT ![k.b] = [r EXCEPT !.iv = k.iv]]
    BY <2>1, <2>2
  <2>4. [r EXCEPT !.iv = k.iv].iv = k.iv
    <3>1. \A p \in BufT : [p EXCEPT !.iv = k.iv].iv = k.iv
      BY DEF BufT
    <3> HIDE DEF r
    <3> QED BY <2>1, <3>1
  <2> DEFINE r2 == [r EXCEPT !.iv = k.iv]
  <2>5. buf'[k.b] = r2 /\ \A b \in Threads \ {k.b} : buf'[b] = buf[b]
    <3> HIDE DEF f, r2
    <3>1. buf' = [f EXCEPT ![k.b] = r2]
      BY <2>3 DEF r2
    <3> QED BY <1>1, <2>1, <3>1
  <2> QED BY <1>3, <2>4, <2>5
<1>4. CASE k.k = "encrypt" /\ buf' = [buf EXCEPT ![k.b] = [buf[k.b] EXCEPT !.ct = EncryptedCt(k)]]
  <2>1. [buf[k.b] EXCEPT !.ct = EncryptedCt(k)].iv = buf[k.b].iv
    BY <1>1 DEF BufT
  <2> QED BY <1>2, <1>4, <2>1
<1>5. CASE buf' = buf /\ k.k # "header"
  BY <1>5
<1>6. CASE /\ k.k = "finalize"
           /\ Writes(k, [buf[k.b] EXCEPT !.tag = Tag(k.h, buf[k.b].iv, load(k.in, 0))])
  <2>1. [buf[k.b] EXCEPT !.tag = Tag(k.h, buf[k.b].iv, load(k.in, 0))].iv = buf[k.b].iv
    BY <1>1 DEF BufT
  <2> QED BY <1>2, <1>6, <2>1 DEF Writes
<1>7. CASE /\ k.k = "verify"
           /\ Writes(k, [buf[k.b] EXCEPT !.auth =
                           IF buf[k.b].ver = 1 /\ RootMatches(k) THEN 1 ELSE 0])
  <2>1. [buf[k.b] EXCEPT !.auth =
           IF buf[k.b].ver = 1 /\ RootMatches(k) THEN 1 ELSE 0].iv = buf[k.b].iv
    BY <1>1 DEF BufT
  <2> QED BY <1>2, <1>7, <2>1 DEF Writes
<1>8. CASE /\ k.k = "decrypt"
           /\ Writes(k, [buf[k.b] EXCEPT !.plain =
                           IF buf[k.b].auth = 0
                           THEN Zeroed
                           ELSE Decrypted(k.h, FrameOf(k.b, k.n), k.n)])
  <2>1. [buf[k.b] EXCEPT !.plain =
           IF buf[k.b].auth = 0 THEN Zeroed
           ELSE Decrypted(k.h, FrameOf(k.b, k.n), k.n)].iv = buf[k.b].iv
    BY <1>1 DEF BufT
  <2> QED BY <1>2, <1>8, <2>1 DEF Writes
<1> QED BY <1>3, <1>4, <1>5, <1>6, <1>7, <1>8 DEF RunEffect, Stores

LEMMA DeviceIV ==
  ASSUME IVInv, TInv', NEW s \in Streams, DeviceEffect(s)
  PROVE  IVInv'
<1> DEFINE k == Head(queue[s])
           q == queue[s]
<1>1. Runs(s, k) /\ RunEffect(s, k)
  BY DEF DeviceEffect
<1>2. q \in Seq(Kernels) /\ q # <<>> /\ \A r \in Streams : queue[r] \in Seq(Kernels)
  BY <1>1, KernelsAre DEF IVInv, Runs
<1>3. Len(q) \in Nat \ {0} /\ k = q[1] /\ Len(Tail(q)) = Len(q) - 1
      /\ \A i \in 1 .. Len(q) - 1 : Tail(q)[i] = q[i + 1]
  BY <1>2
<1> HIDE DEF k
<1>4. k \in Kernels /\ k.b \in Threads /\ k \in KernelsOn(s) /\ call' = call
      /\ queue'[s] = Tail(q)
      /\ \A r \in Streams \ {s} : queue'[r] = queue[r]
  <2>1. k \in KernelsOn(s)
    BY <1>3, KernelsAre DEF IVInv
  <2> QED BY <1>1, <2>1, KernelFields DEF Runs
<1>5. \A r \in Streams : \A p \in KernelsOn(r)' : p \in KernelsOn(r)
  BY <1>1, RunAdds DEF IVInv
<1>6. /\ \A b \in Threads \ {k.b} : buf'[b] = buf[b]
      /\ k.k = "header" => buf'[k.b].iv = k.iv
      /\ k.k # "header" => buf'[k.b].iv = buf[k.b].iv
  BY <1>1, <1>4, RunWritesIV DEF IVInv
<1>7. OneStreamEach'
  <2>1. ASSUME NEW u \in Threads, call[u].op \in {"seal", "open"}
        PROVE  BufferFree(u, call[u].s)'
    <3>1. BufferFree(u, call[u].s)
      BY <2>1 DEF IVInv, OneStreamEach
    <3> QED BY <1>4, <1>5, <3>1 DEF BufferFree
  <2> QED BY <1>4, <1>5, <2>1 DEF IVInv, OneStreamEach
<1>8. ASSUME NEW i \in 2 .. Len(q) + 1, NEW b \in Threads, NEW iv,
             Before(q, i, b, buf[b].iv, iv)
      PROVE  Before(Tail(q), i - 1, b, buf'[b].iv, iv)
  <2>1. k.k = "header" /\ k.b = b => buf'[b].iv = k.iv
    BY <1>6
  <2>2. k.b # b => buf'[b].iv = buf[b].iv
    BY <1>6
  <2>3. k.b = b /\ k.k # "header" => buf'[b].iv = buf[b].iv
    BY <1>6
  <2> HIDE DEF q
  <2> QED BY <1>2, <1>8, <2>1, <2>2, BeforeTail DEF k, q
<1>9. EncryptsReady'
  <2> SUFFICES ASSUME NEW r \in Streams, NEW i \in 1 .. Len(queue'[r]),
                      queue'[r][i].k = "encrypt"
               PROVE  Before(queue'[r], i, queue'[r][i].b, buf'[queue'[r][i].b].iv,
                             queue'[r][i].pt)
    BY DEF EncryptsReady
  <2>1. CASE r = s
    <3>1. queue'[r] = Tail(q) /\ i \in 1 .. Len(q) - 1
      BY <1>3, <1>4, <2>1
    <3>2. queue'[r][i] = q[i + 1] /\ i + 1 \in 1 .. Len(q) /\ i + 1 \in 2 .. Len(q) + 1
          /\ (i + 1) - 1 = i
      BY <1>3, <3>1
    <3>3. Before(q, i + 1, q[i + 1].b, buf[q[i + 1].b].iv, q[i + 1].pt)
      BY <3>2 DEF IVInv, EncryptsReady
    <3>4. q[i + 1].b \in Threads
      BY <1>2, <3>2, KernelFields
    <3>5. Before(Tail(q), (i + 1) - 1, q[i + 1].b, buf'[q[i + 1].b].iv, q[i + 1].pt)
      BY <1>8, <3>2, <3>3, <3>4
    <3> QED BY <3>1, <3>2, <3>5
  <2>2. CASE r # s
    <3>1. queue'[r] = queue[r]
      BY <1>4, <2>2
    <3>2. queue[r][i] \in KernelsOn(r) /\ queue[r][i].b \in Threads
      BY <3>1, KernelsAre, KernelFields DEF IVInv
    <3>3. queue[r][i].b # k.b
      BY <1>4, <2>2, <3>2 DEF IVInv, OneStreamEach
    <3> QED BY <1>6, <3>1, <3>2, <3>3 DEF IVInv, EncryptsReady
  <2> QED BY <2>1, <2>2
<1>10. CallsReady'
  <2> SUFFICES ASSUME NEW u \in Threads, call[u].pc = "encrypt"
               PROVE  Before(queue'[call[u].s], Len(queue'[call[u].s]) + 1, u, buf'[u].iv,
                             call[u].iv)
    BY <1>4 DEF CallsReady
  <2> DEFINE r == call[u].s
  <2>1. r \in Streams /\ call[u].op \in {"seal", "open"}
        /\ Before(queue[r], Len(queue[r]) + 1, u, buf[u].iv, call[u].iv)
    BY LaunchingCall DEF IVInv, CallsReady, Launching
  <2> HIDE DEF r
  <2>2. CASE r = s
    <3>1. Len(q) + 1 \in 2 .. Len(q) + 1 /\ Len(queue'[r]) + 1 = (Len(q) + 1) - 1
      <4>1. Len(queue'[r]) = Len(q) - 1 /\ Len(q) \in Nat \ {0}
        BY <1>3, <1>4, <2>2
      <4> HIDE DEF q
      <4> QED BY <4>1
    <3>2. Before(Tail(q), (Len(q) + 1) - 1, u, buf'[u].iv, call[u].iv)
      BY <1>8, <2>1, <2>2, <3>1
    <3> QED BY <1>4, <2>2, <3>1, <3>2 DEF r
  <2>3. CASE r # s
    <3>1. k.b # u
      BY <1>4, <2>1, <2>3 DEF IVInv, OneStreamEach, BufferFree, r
    <3>2. queue'[r] = queue[r] /\ buf'[u] = buf[u]
      BY <1>4, <1>6, <2>1, <2>3, <3>1
    <3> QED BY <2>1, <3>2 DEF r
  <2> QED BY <2>2, <2>3
<1>11. SealedUnderTheirIV'
  <2>1. CASE k.k = "encrypt"
             /\ sealed' = sealed \cup {[key |-> k.h, iv |-> buf[k.b].iv, pt |-> k.pt, n |-> k.n]}
    <3>1. Before(q, 1, k.b, buf[k.b].iv, k.pt)
      <4>1. 1 \in 1 .. Len(queue[s]) /\ queue[s][1] = k
        BY <1>3
      <4> QED BY <2>1, <4>1 DEF IVInv, EncryptsReady
    <3>2. buf[k.b].iv = k.pt
      BY <3>1 DEF Before
    <3> QED BY <2>1, <3>2 DEF IVInv, SealedUnderTheirIV
  <2>2. CASE sealed' = sealed
    BY <2>2 DEF IVInv, SealedUnderTheirIV
  <2> QED BY <1>1, <2>1, <2>2 DEF RunEffect, Writes, Stores
<1> QED BY <1>7, <1>9, <1>10, <1>11 DEF IVInv

LEMMA NextIV ==
  ASSUME "header" \notin Faulty, IVInv, [Next]_vars
  PROVE  IVInv'
<1>1. TInv' /\ TInv
  BY NextTyped DEF IVInv
<1>2. ASSUME NEW t \in Threads, HostEffect(t) PROVE IVInv'
  <2>1. ASSUME NEW pc, NEW in, NEW out, NEW count, Moves(t, pc, in, out, count)
        PROVE  /\ \A u \in Threads \ {t} : call'[u] = call[u]
               /\ call'[t].op = call[t].op /\ call'[t].s = call[t].s
               /\ call'[t].pc = pc /\ call'[t].iv = call[t].iv
    BY <2>1, MovesKeep
  <2>2. ASSUME NEW rc, Returns(t, rc)
        PROVE  /\ \A u \in Threads \ {t} : call'[u] = call[u]
               /\ call'[t].op \notin {"seal", "open"} /\ call'[t].pc = "idle"
    <3>1. call'[t] = Idle /\ \A u \in Threads \ {t} : call'[u] = call[u]
      BY <2>2 DEF Returns
    <3> QED BY <3>1, IdleTyped
  <2>3. ASSUME \A u \in Threads \ {t} : call'[u] = call[u],
               \/ call'[t].op \notin {"seal", "open"}
               \/ call'[t].op = call[t].op /\ call'[t].s = call[t].s,
               call'[t].pc # "encrypt",
               UNCHANGED <<queue, buf, sealed>>
        PROVE  IVInv'
    <3>1. call'[t].op \in {"seal", "open"} => BufferFree(t, call'[t].s)
      BY <2>3 DEF IVInv, OneStreamEach
    <3> QED BY <1>1, <2>3, <3>1, StillIV
  <2>4. CASE EnsureEffect(t)
    BY <2>1, <2>2, <2>3, <2>4 DEF EnsureEffect, Continues
  <2>5. CASE MallocBEffect(t)
    BY <2>1, <2>2, <2>3, <2>5 DEF MallocBEffect
  <2>6. CASE UndoEffect(t)
    BY <2>2, <2>3, <2>6 DEF UndoEffect
  <2>7. CASE FreeAEffect(t)
    BY <2>1, <2>3, <2>7 DEF FreeAEffect
  <2>8. CASE FreeBEffect(t)
    BY <2>1, <2>2, <2>3, <2>8 DEF FreeBEffect, Continues
  <2>9. ASSUME NEW k \in Kernels, Launches(t, k), k.b = t, k.k # "encrypt",
               call[t].s \in Streams, call[t].op \in {"seal", "open"},
               UNCHANGED <<buf, sealed>>,
               \A u \in Threads \ {t} : call'[u] = call[u],
               \/ call'[t].op \notin {"seal", "open"}
               \/ call'[t].op = call[t].op /\ call'[t].s = call[t].s,
               call'[t].pc # "encrypt"
        PROVE  IVInv'
    BY <1>1, <2>9, LaunchIV
  <2>10. ASSUME PeekReturns(t)
         PROVE  /\ \A u \in Threads \ {t} : call'[u] = call[u]
                /\ call'[t].op \notin {"seal", "open"} /\ call'[t].pc = "idle"
    BY <2>2, <2>10 DEF PeekReturns
  <2>11. ASSUME NEW in, NEW out, NEW count, GhashEffect(t, in, out, count)
         PROVE  /\ UNCHANGED <<buf, sealed>>
                /\ \A u \in Threads \ {t} : call'[u] = call[u]
                /\ \/ call'[t].op \notin {"seal", "open"}
                   \/ call'[t].op = call[t].op /\ call'[t].s = call[t].s
                /\ call'[t].pc # "encrypt"
    <3>1. CASE Returns(t, "ERR_CUDA")
      BY <2>2, <2>11, <3>1 DEF GhashEffect
    <3>2. CASE Moves(t, IF count > 1 THEN "combine" ELSE "tag", in, out, count)
      BY <2>1, <2>11, <3>2 DEF GhashEffect
    <3> QED BY <2>11, <3>1, <3>2 DEF GhashEffect
  <2>12. CASE HeaderEffect(t)
    <3> DEFINE pc == IF call[t].n > 0 THEN "encrypt" ELSE "segment"
               k == HeaderKernel(t)
    <3>1. k \in Kernels /\ k.b = t /\ k.k = "header" /\ k.iv = call[t].iv
      BY <1>1, <2>12, KernelsTyped DEF HeaderEffect, HeaderKernel
    <3>2. Moves(t, pc, call[t].in, call[t].out, call[t].count)
      BY <2>12 DEF HeaderEffect
    <3>3. /\ \A u \in Threads \ {t} : call'[u] = call[u]
          /\ call'[t].op = call[t].op /\ call'[t].s = call[t].s /\ call'[t].iv = call[t].iv
      BY <2>1, <3>2
    <3>4. Launches(t, k) /\ call[t].s \in Streams /\ call[t].op \in {"seal", "open"}
          /\ buf' = buf /\ sealed' = sealed
      BY <2>12 DEF HeaderEffect
    <3> HIDE DEF k, pc
    <3> QED BY <1>1, <3>1, <3>3, <3>4, LaunchIV
  <2>13. CASE EncryptEffect(t)
    <3> DEFINE k == EncryptKernel(t)
    <3>1. k \in Kernels /\ k.b = t /\ k.pt = call[t].iv /\ call[t].pc = "encrypt"
      BY <1>1, <2>13, KernelsTyped DEF EncryptEffect, EncryptKernel
    <3>2. Moves(t, "segment", call[t].in, call[t].out, call[t].count)
      BY <2>13 DEF EncryptEffect
    <3>3. /\ \A u \in Threads \ {t} : call'[u] = call[u]
          /\ call'[t].op = call[t].op /\ call'[t].s = call[t].s /\ call'[t].pc = "segment"
      BY <2>1, <3>2
    <3>4. Launches(t, k) /\ call[t].s \in Streams /\ call[t].op \in {"seal", "open"}
          /\ buf' = buf /\ sealed' = sealed
      BY <2>13 DEF EncryptEffect
    <3> HIDE DEF k
    <3> QED BY <1>1, <3>1, <3>3, <3>4, LaunchIV
  <2>14. CASE SegmentEffect(t)
    <3>1. SegmentKernel(t) \in Kernels /\ SegmentKernel(t).b = t
          /\ SegmentKernel(t).k # "encrypt"
      BY <1>1, <2>14, KernelsTyped DEF SegmentEffect, SegmentKernel
    <3> QED BY <2>9, <2>11, <2>14, <3>1 DEF SegmentEffect
  <2>15. CASE CombineEffect(t)
    <3>1. CombineKernel(t) \in Kernels /\ CombineKernel(t).b = t
          /\ CombineKernel(t).k # "encrypt"
      BY <1>1, <2>15, KernelsTyped DEF CombineEffect, CombineKernel
    <3> QED BY <2>9, <2>11, <2>15, <3>1 DEF CombineEffect
  <2>16. CASE FinalizeEffect(t)
    <3>1. RootKernel(t, "finalize") \in Kernels /\ RootKernel(t, "finalize").b = t
          /\ RootKernel(t, "finalize").k # "encrypt"
      BY <1>1, <2>16, KernelsTyped DEF FinalizeEffect, RootKernel
    <3> QED BY <2>9, <2>10, <2>16, <3>1 DEF FinalizeEffect
  <2>17. CASE VerifyEffect(t)
    <3>1. RootKernel(t, "verify") \in Kernels /\ RootKernel(t, "verify").b = t
          /\ RootKernel(t, "verify").k # "encrypt"
      BY <1>1, <2>17, KernelsTyped DEF VerifyEffect, RootKernel
    <3> QED BY <2>1, <2>9, <2>10, <2>17, <3>1 DEF VerifyEffect
  <2>18. CASE DecryptEffect(t)
    <3>1. DecryptKernel(t) \in Kernels /\ DecryptKernel(t).b = t
          /\ DecryptKernel(t).k # "encrypt"
      BY <1>1, <2>18, KernelsTyped DEF DecryptEffect, DecryptKernel
    <3> QED BY <2>9, <2>10, <2>18, <3>1 DEF DecryptEffect
  <2> QED BY <1>2, <2>4, <2>5, <2>6, <2>7, <2>8, <2>12, <2>13, <2>14, <2>15, <2>16, <2>17,
             <2>18 DEF HostEffect
<1>3. ASSUME NEW t \in Threads, ClientEffect(t) PROVE IVInv'
  <2>1. CASE ClientWrites(t)
    <3>1. /\ call' = call /\ queue' = queue /\ sealed' = sealed /\ BufferQuiet(t)
          /\ call'[t].pc # "encrypt" /\ call'[t].op \notin {"seal", "open"}
          /\ \A u \in Threads \ {t} : buf'[u].iv = buf[u].iv
      BY <2>1, IdleTyped DEF ClientWrites
    <3>2. call'[t].op \in {"seal", "open"} => BufferFree(t, call'[t].s)
      BY <3>1
    <3> QED BY <1>1, <3>1, <3>2, StillIV
  <2>2. ASSUME NEW h \in Handles, CreateEffect(t, h) \/ DestroyEffect(t, h)
        PROVE  IVInv'
    <3>1. call' = call /\ queue' = queue /\ sealed' = sealed /\ buf' = buf
      BY <2>2 DEF CreateEffect, DestroyEffect
    <3>2. call'[t].op \in {"seal", "open"} => BufferFree(t, call'[t].s)
      BY <3>1 DEF IVInv, OneStreamEach
    <3> QED BY <1>1, <3>1, <3>2, StillIV
  <2>3. ASSUME NEW op, NEW h, NEW s, NEW n, NEW iv, Begins(t, op, h, s, n, iv),
               op # "reserve" => BufferFree(t, s), op \in {"seal", "open", "reserve"},
               queue' = queue, sealed' = sealed,
               \A u \in Threads : buf'[u].iv = buf[u].iv
        PROVE  IVInv'
    <3>1. /\ \A u \in Threads \ {t} : call'[u] = call[u]
          /\ call'[t].op = op /\ call'[t].s = s /\ call'[t].pc = "workspace"
      BY <2>3 DEF Begins
    <3>2. call'[t].op \in {"seal", "open"} => BufferFree(t, call'[t].s)
      BY <2>3, <3>1
    <3> QED BY <1>1, <2>3, <3>1, <3>2, StillIV
  <2>4. ASSUME NEW h \in Handles, NEW n \in Lens, ReserveEffect(t, h, n)
        PROVE  IVInv'
    BY <2>3, <2>4 DEF ReserveEffect
  <2>5. ASSUME NEW h \in Handles, NEW s \in Streams, OpenEffect(t, h, s)
        PROVE  IVInv'
    BY <2>3, <2>5 DEF OpenEffect
  <2>6. ASSUME NEW h \in Handles, NEW s \in Streams, NEW n \in Lens,
               SealEffect(t, h, s, n, calls + 1)
        PROVE  IVInv'
    <3>1. [buf[t] EXCEPT !.n = n].iv = buf[t].iv
      BY <1>1, BufferFieldsTyped DEF BufT, TInv
    <3>2. \A u \in Threads : buf'[u].iv = buf[u].iv
      <4> DEFINE r == [buf[t] EXCEPT !.n = n]
      <4>1. buf' = [buf EXCEPT ![t] = r] /\ buf \in [Threads -> BufT]
        BY <1>1, <2>6, ArraysTyped DEF SealEffect, TInv
      <4> HIDE DEF r
      <4> QED BY <3>1, <4>1 DEF r
    <3> QED BY <2>3, <2>6, <3>2 DEF SealEffect
  <2> QED BY <1>3, <2>1, <2>2, <2>4, <2>5, <2>6 DEF ClientEffect
<1>4. ASSUME NEW s \in Streams, DeviceEffect(s) PROVE IVInv'
  BY <1>1, <1>4, DeviceIV
<1>5. CASE Next
  BY <1>1, <1>2, <1>3, <1>4, <1>5, StepDoes
<1>6. CASE UNCHANGED vars
  <2>1. queue' = queue /\ call' = call /\ buf' = buf /\ sealed' = sealed
    BY <1>6 DEF vars
  <2>2. OneStreamEach' /\ EncryptsReady' /\ CallsReady' /\ SealedUnderTheirIV'
    BY <2>1 DEF IVInv, OneStreamEach, EncryptsReady, CallsReady, SealedUnderTheirIV,
                BufferFree, KernelsOn
  <2> QED BY <1>1, <2>2 DEF IVInv
<1> QED BY <1>5, <1>6

LEMMA InitIV == Init => IVInv
<1> SUFFICES ASSUME Init PROVE IVInv
  OBVIOUS
<1>1. TInv
  BY InitTyped
<1>2. /\ \A t \in Threads : call[t].pc = "idle" /\ call[t].op = "none"
      /\ \A s \in Streams : queue[s] = <<>> /\ Len(queue[s]) = 0
      /\ sealed = {}
  BY IdleTyped DEF Init
<1>3. \A s \in Streams : KernelsOn(s) = {}
  BY <1>1, <1>2, KernelsAre DEF DeviceIdle
<1> QED BY <1>1, <1>2, <1>3
        DEF IVInv, OneStreamEach, EncryptsReady, CallsReady, SealedUnderTheirIV

\* When no launch of the header kernel fails, each encryption uses the IV that
\* its caller passed, although the kernel reads it back from the frame, however
\* many seals and opens of however many threads and streams are interleaved and
\* whatever else fails.
THEOREM NoncesAreUnique ==
  ASSUME "header" \notin Faulty PROVE Spec => []NoncesUnique
<1>1. IVInv /\ [Next]_vars => IVInv'
  BY NextIV
<1>2. IVInv => NoncesUnique
  BY DEF IVInv, SealedUnderTheirIV, NoncesUnique
<1> QED BY <1>1, <1>2, InitIV, PTL DEF Spec

=============================================================================

-------------------------- MODULE GpuPipelineProofs --------------------------
(***************************************************************************)
(* The frames that seals leave, what opens decide and publish, and the     *)
(* refinement of AeadEndpoint: theorems for any number of host threads,    *)
(* streams, handles and addresses, any bound on calls and queues, and any  *)
(* failing CUDA calls; the hash-key launch of key_create may fail too when *)
(* one thread makes all the calls (InitSeen).                              *)
(*                                                                         *)
(* The kernels of a call are queued long before they run, among those of   *)
(* other calls and of the handle's next ones.  Two invariants say what     *)
(* they will compute.  CInv: each GHASH kernel will find the level of the  *)
(* tree that its predecessor leaves (Ready), because a level that is not   *)
(* there yet is written by a kernel in front of it, and nothing between    *)
(* the two writes there.  FutureInv: the data of a buffer, run through the *)
(* kernels queued for it (Trace), ends as the host side of the call, or    *)
(* its result, says (Ends), and is at no moment on the way a forgery       *)
(* (Sound).                                                                *)
(***************************************************************************)
EXTENDS GpuAesGcmProofs

\* No handle is in use whose hash-key kernel failed to launch in another
\* thread: only the thread that saw the failure is told of it, and under powers
\* of H left undefined a seal's tag is not that of GCM and an open accepts what
\* such a seal made (the run gpu_zero_powers).
InitSeen == "init" \notin Faulty \/ \A t, u \in Threads : t = u

-----------------------------------------------------------------------------
(* The nodes of a workspace.                                               *)

\* The root of a hash over a ciphertext of n blocks and the length block.
Root(hk, ct, n) == [hk |-> hk, ct |-> ct, lo |-> 0, hi |-> n + 1]

\* The first count nodes of workspace p are one level of the hash, with the
\* key of handle h, over the n blocks in buffer b: S terms to a node.
Level(p, count, h, b, n) ==
  \E S \in Nat \ {0} :
    /\ (count - 1) * S < n + 1 /\ n + 1 <= count * S
    /\ \A i \in 0 .. count - 1 :
         load(p, i) = [hk |-> handle[h].h_pow2, ct |-> ciphertext(b, n),
                       lo |-> i * S, hi |-> smaller((i + 1) * S, n + 1)]

\* A segment of G terms for each started G terms.
LEMMA Covering ==
  ASSUME NEW n \in Nat
  PROVE  /\ (required_nodes(n) - 1) * GHASH_SEGMENT_BLOCKS < n + 1
         /\ n + 1 <= required_nodes(n) * GHASH_SEGMENT_BLOCKS
<1> DEFINE g == GHASH_SEGMENT_BLOCKS
           q == (n + 1 + g - 1) \div g
<1>1. g \in Nat \ {0}
  BY ConstantsAssumption
<1>2. \A x \in Nat, y \in Nat \ {0} :
        /\ x \div y \in Nat
        /\ y * (x \div y) <= x /\ x < y * (x \div y) + y
  BY SMTT(30)
<1>3. n + 1 + g - 1 \in Nat
  BY <1>1
<1> HIDE DEF g
<1>4. q \in Nat /\ g * q <= n + 1 + g - 1 /\ n + 1 + g - 1 < g * q + g
  BY <1>1, <1>2, <1>3
<1> HIDE DEF q
<1>5. (q - 1) * g = g * q - g /\ q * g = g * q
  BY <1>1, <1>4
<1>6. g * q \in Nat
  BY <1>1, <1>4
<1>7. (q - 1) * g < n + 1 /\ n + 1 <= q * g
  BY <1>1, <1>4, <1>5, <1>6
<1> QED BY <1>7 DEF required_nodes, g, q

\* A level of one node is the root.
LEMMA LevelOne ==
  ASSUME NEW p, NEW h, NEW b, NEW n \in Nat, Level(p, 1, h, b, n)
  PROVE  load(p, 0) = Root(handle[h].h_pow2, ciphertext(b, n), n)
<1>1. PICK S \in Nat \ {0} :
        /\ n + 1 <= 1 * S
        /\ \A i \in 0 .. 1 - 1 :
             load(p, i) = [hk |-> handle[h].h_pow2, ct |-> ciphertext(b, n),
                           lo |-> i * S, hi |-> smaller((i + 1) * S, n + 1)]
  BY DEF Level
<1>2. 0 \in 0 .. 1 - 1 /\ 0 * S = 0 /\ (0 + 1) * S = S /\ 1 * S = S
  OBVIOUS
<1>3. smaller(S, n + 1) = n + 1
  BY <1>1, <1>2 DEF smaller
<1> QED BY <1>1, <1>2, <1>3 DEF Root

\* What the level is made of has not changed.
LEMMA LevelKept ==
  ASSUME NEW p, NEW count, NEW h, NEW b, NEW n, Level(p, count, h, b, n),
         handle'[h].h_pow2 = handle[h].h_pow2, ciphertext(b, n)' = ciphertext(b, n),
         \A i : load(p, i)' = load(p, i)
  PROVE  Level(p, count, h, b, n)'
BY DEF Level

\* The nodes that a kernel has stored.
LEMMA StoredNodes ==
  ASSUME NEW p, NEW m \in Nat, NEW N, Stores(p, m, N), Holds(p, m)
  PROVE  \A i \in 0 .. m - 1 : load(p, i)' = N[i]
BY DEF Stores, Holds, load

\* The segment kernel starts a level.
LEMMA SegmentLevel ==
  ASSUME TInv, NEW k \in Kernels, k.k = "segment", handle' = handle,
         Holds(k.out, required_nodes(k.n)),
         Stores(k.out, required_nodes(k.n), [i \in Nat |-> SegmentNode(k, i)])
  PROVE  Level(k.out, required_nodes(k.n), k.h, k.b, k.n)'
<1> DEFINE N == [i \in Nat |-> SegmentNode(k, i)]
           m == required_nodes(k.n)
           g == GHASH_SEGMENT_BLOCKS
<1>1. k.n \in Nat
  BY KernelFields
<1>2. m \in Nat /\ g \in Nat \ {0} /\ (m - 1) * g < k.n + 1 /\ k.n + 1 <= m * g
  BY <1>1, NodesNeeded, Covering, ConstantsAssumption
<1>3. \A i \in Nat : N[i] = SegmentNode(k, i)
  OBVIOUS
<1>4. ciphertext(k.b, k.n)' = ciphertext(k.b, k.n)
  BY DEF Stores, ciphertext
<1> HIDE DEF N, m, g
<1>5. \A i \in 0 .. m - 1 : load(k.out, i)' = SegmentNode(k, i)
  BY <1>2, <1>3, StoredNodes DEF N, m
<1>6. \A i \in 0 .. m - 1 :
        load(k.out, i)' = [hk |-> handle'[k.h].h_pow2, ct |-> ciphertext(k.b, k.n)',
                           lo |-> i * g, hi |-> smaller((i + 1) * g, k.n + 1)]
  BY <1>4, <1>5 DEF SegmentNode, g
<1> QED BY <1>2, <1>6 DEF Level, m

\* Half as many nodes of twice as many terms cover the same.
LEMMA Doubling ==
  ASSUME NEW n \in Nat, NEW c \in Nat, c > 1, NEW S \in Nat \ {0},
         (c - 1) * S < n + 1, n + 1 <= c * S
  PROVE  /\ 2 * S \in Nat \ {0}
         /\ (halved(c) - 1) * (2 * S) < n + 1
         /\ n + 1 <= halved(c) * (2 * S)
<1>1. PICK d \in Nat : d = halved(c) /\ (c = 2 * d \/ c = 2 * d - 1) /\ d > 0
  BY DEF halved
<1>2. PICK x \in Nat : x = d * S
  OBVIOUS
<1>3. (d - 1) * (2 * S) = 2 * x - 2 * S /\ d * (2 * S) = 2 * x
  BY <1>1, <1>2
<1>4. CASE c = 2 * d
  <2>1. c * S = 2 * x /\ (c - 1) * S = 2 * x - S
    BY <1>1, <1>2, <1>4
  <2> QED BY <1>1, <1>2, <1>3, <2>1
<1>5. CASE c = 2 * d - 1
  <2>1. c * S = 2 * x - S /\ (c - 1) * S = 2 * x - 2 * S
    BY <1>1, <1>2, <1>5
  <2> QED BY <1>1, <1>2, <1>3, <2>1
<1> QED BY <1>1, <1>4, <1>5

\* The combine kernel makes the next level of the one it finds.
LEMMA CombineLevel ==
  ASSUME TInv, NEW k \in Kernels, k.k = "combine", k.count > 1, handle' = handle,
         Level(k.in, k.count, k.h, k.b, k.n), Holds(k.out, halved(k.count)),
         Stores(k.out, halved(k.count), [i \in Nat |-> CombineNode(k, i)])
  PROVE  Level(k.out, halved(k.count), k.h, k.b, k.n)'
<1> DEFINE N == [i \in Nat |-> CombineNode(k, i)]
           c == k.count
           m == halved(c)
           n == k.n
           hk == handle[k.h].h_pow2
           ct == ciphertext(k.b, n)
           node(lo, hi) == [hk |-> hk, ct |-> ct, lo |-> lo, hi |-> hi]
<1>1. n \in Nat /\ c \in Nat /\ m \in Nat
  BY KernelFields, Halving
<1>2. PICK S \in Nat \ {0} :
        /\ (c - 1) * S < n + 1 /\ n + 1 <= c * S
        /\ \A i \in 0 .. c - 1 :
             load(k.in, i) = node(i * S, smaller((i + 1) * S, n + 1))
  BY DEF Level
<1>3. /\ 2 * S \in Nat \ {0} /\ (m - 1) * (2 * S) < n + 1 /\ n + 1 <= m * (2 * S)
  BY <1>1, <1>2, Doubling
<1>4. \A i \in Nat : N[i] = CombineNode(k, i)
  OBVIOUS
<1>5. ciphertext(k.b, n)' = ct /\ handle'[k.h].h_pow2 = hk
  BY DEF Stores, ciphertext
<1> HIDE DEF N
<1>6. \A i \in 0 .. m - 1 : load(k.out, i)' = CombineNode(k, i)
  BY <1>1, <1>4, StoredNodes DEF N
<1>7. ASSUME NEW i \in 0 .. m - 1
      PROVE  CombineNode(k, i) = node(i * (2 * S), smaller((i + 1) * (2 * S), n + 1))
  <2>1. 2 * i \in 0 .. c - 1
    BY <1>1 DEF halved
  <2> DEFINE a == load(k.in, 2 * i)
             b == load(k.in, 2 * i + 1)
  <2>2. a = node((2 * i) * S, smaller((2 * i + 1) * S, n + 1))
    BY <1>2, <2>1
  <2>3. PICK x \in Nat : x = i * S
    BY <1>1
  <2>4. /\ (2 * i) * S = 2 * x /\ i * (2 * S) = 2 * x
        /\ (2 * i + 1) * S = 2 * x + S /\ (2 * i + 2) * S = 2 * x + 2 * S
        /\ (i + 1) * (2 * S) = 2 * x + 2 * S
    BY <1>1, <2>3
  <2> HIDE DEF node, a, b
  <2>5. CASE 2 * i + 1 >= c
    <3>1. c = 2 * i + 1 /\ c * S = 2 * x + S
      BY <1>1, <2>1, <2>4, <2>5
    <3>2. smaller(2 * x + S, n + 1) = n + 1 /\ smaller(2 * x + 2 * S, n + 1) = n + 1
      BY <1>1, <1>2, <2>3, <3>1 DEF smaller
    <3>3. CombineNode(k, i) = a
      BY <2>5 DEF CombineNode, a
    <3> QED BY <2>2, <2>4, <3>2, <3>3
  <2>6. CASE ~ (2 * i + 1 >= c)
    <3>1. 2 * i + 1 \in 0 .. c - 1 /\ (2 * i + 1) + 1 = 2 * i + 2
      BY <1>1, <2>1, <2>6
    <3>2. b = node((2 * i + 1) * S, smaller((2 * i + 2) * S, n + 1))
      BY <1>2, <3>1 DEF b
    <3>3. 2 * x + S < n + 1
      <4> DEFINE e == c - 1 - (2 * i + 1)
      <4>1. e \in Nat /\ 2 * i + 1 \in Nat /\ c - 1 = (2 * i + 1) + e
        BY <1>1, <3>1
      <4> HIDE DEF e
      <4>2. \A u, v, z \in Nat : (u + v) * z = u * z + v * z /\ v * z \in Nat
        OBVIOUS
      <4>3. (c - 1) * S = (2 * i + 1) * S + e * S /\ e * S \in Nat
        BY <4>1, <4>2
      <4> QED BY <1>1, <1>2, <2>3, <2>4, <4>3
    <3>4. smaller(2 * x + S, n + 1) = 2 * x + S
      BY <3>3 DEF smaller
    <3>5. a = node(2 * x, 2 * x + S) /\ b = node(2 * x + S, smaller(2 * x + 2 * S, n + 1))
      BY <2>2, <2>4, <3>2, <3>4
    <3>6. joined(a, b, hk) = node(2 * x, smaller(2 * x + 2 * S, n + 1))
      <4> DEFINE y == smaller(2 * x + 2 * S, n + 1)
      <4> HIDE DEF y
      <4>1. a = node(2 * x, 2 * x + S) /\ b = node(2 * x + S, y)
        BY <3>5 DEF y
      <4>2. /\ a.hk = hk /\ b.hk = hk /\ a.ct = b.ct /\ a.hi = b.lo
            /\ [a EXCEPT !.hi = b.hi] = node(2 * x, y)
        BY <4>1 DEF node
      <4> QED BY <4>2 DEF joined, y
    <3>7. CombineNode(k, i) = joined(a, b, hk)
      BY <2>6 DEF CombineNode, a, b
    <3> QED BY <2>4, <3>6, <3>7
  <2> QED BY <2>5, <2>6
<1>8. \A i \in 0 .. m - 1 :
        load(k.out, i)' = [hk |-> handle'[k.h].h_pow2, ct |-> ciphertext(k.b, n)',
                           lo |-> i * (2 * S), hi |-> smaller((i + 1) * (2 * S), n + 1)]
  BY <1>5, <1>6, <1>7
<1> QED BY <1>3, <1>8 DEF Level

-----------------------------------------------------------------------------
(* Steps, as the invariants below need them.                               *)

\* What the threads other than t know and hold stays.
Others(t) ==
  \A u \in Threads \ {t} :
    /\ call'[u] = call[u] /\ done'[u] = done[u] /\ lastErr'[u] = lastErr[u]
    /\ buf'[u] = buf[u]

\* Thread t is in the same call.
Continued(t) ==
  /\ call'[t].op = call[t].op /\ call'[t].h = call[t].h /\ call'[t].s = call[t].s
  /\ call'[t].n = call[t].n /\ call'[t].iv = call[t].iv

\* Thread t launches kernel k and goes on in its call or returns.
LaunchFrame(t, k) ==
  /\ k \in Kernels /\ k.b = t /\ k.h = call[t].h
  /\ call[t].pc \in Launching /\ call[t].op \in {"seal", "open"}
  /\ call[t].h \in Handles /\ call[t].s \in Streams
  /\ Launches(t, k) /\ UNCHANGED <<handle, mem, buf, sealed, calls>>
  /\ Others(t)
  /\ lastErr[t] => lastErr'[t]
  /\ \/ call'[t] = Idle
     \/ Continued(t) /\ done'[t] = done[t] /\ call'[t].pc \in Launching

LaunchEffect(t) ==
  \/ HeaderEffect(t) \/ EncryptEffect(t) \/ SegmentEffect(t) \/ CombineEffect(t)
  \/ FinalizeEffect(t) \/ VerifyEffect(t) \/ DecryptEffect(t)

LEMMA ErrorsKept ==
  ASSUME TInv, NEW t \in Threads, NEW k, Launches(t, k)
  PROVE  /\ \A u \in Threads \ {t} : lastErr'[u] = lastErr[u]
         /\ lastErr[t] => lastErr'[t]
<1>1. lastErr \in [Threads -> BOOLEAN]
  BY DEF TInv, TypeOK
<1>2. lastErr' = lastErr \/ lastErr' = [lastErr EXCEPT ![t] = TRUE]
  BY DEF Launches
<1> QED BY <1>1, <1>2

\* A move leaves the other threads and the results alone.
LEMMA MovesContinue ==
  ASSUME NEW t \in Threads, NEW pc, NEW in, NEW out, NEW count,
         Moves(t, pc, in, out, count)
  PROVE  /\ \A u \in Threads \ {t} : call'[u] = call[u]
         /\ Continued(t) /\ call'[t].pc = pc
BY MovesKeep DEF Continued

LEMMA ReturnsDone ==
  ASSUME NEW t \in Threads, NEW rc, Returns(t, rc)
  PROVE  /\ \A u \in Threads \ {t} : call'[u] = call[u] /\ done'[u] = done[u]
         /\ call'[t] = Idle
         /\ done'[t] = done[t] \/ done'[t].rc = rc
<1>1. call[t].op = "reserve" \/ done'[t].rc = rc
  BY DEF Returns
<1> QED BY <1>1 DEF Returns

\* Where a launch leaves the call of its thread.
LEMMA LaunchEnds ==
  ASSUME NEW t \in Threads, call[t].op \in {"seal", "open"}, LaunchEffect(t)
  PROVE  /\ \A u \in Threads \ {t} : call'[u] = call[u] /\ done'[u] = done[u]
         /\ \/ call'[t] = Idle
            \/ Continued(t) /\ done'[t] = done[t] /\ call'[t].pc \in Launching
<1>1. ASSUME NEW pc \in Launching, NEW in, NEW out, NEW count,
             Moves(t, pc, in, out, count), done' = done
      PROVE  /\ \A u \in Threads \ {t} : call'[u] = call[u] /\ done'[u] = done[u]
             /\ Continued(t) /\ done'[t] = done[t] /\ call'[t].pc \in Launching
  BY <1>1, MovesContinue
<1>2. ASSUME NEW rc, Returns(t, rc)
      PROVE  /\ \A u \in Threads \ {t} : call'[u] = call[u] /\ done'[u] = done[u]
             /\ call'[t] = Idle
  BY <1>2, ReturnsDone
<1>3. ASSUME PeekReturns(t)
      PROVE  /\ \A u \in Threads \ {t} : call'[u] = call[u] /\ done'[u] = done[u]
             /\ call'[t] = Idle
  BY <1>2, <1>3 DEF PeekReturns
<1>4. ASSUME NEW in, NEW out, NEW count, GhashEffect(t, in, out, count)
      PROVE  /\ \A u \in Threads \ {t} : call'[u] = call[u] /\ done'[u] = done[u]
             /\ \/ call'[t] = Idle
                \/ Continued(t) /\ done'[t] = done[t] /\ call'[t].pc \in Launching
  <2> DEFINE pc == IF count > 1 THEN "combine" ELSE "tag"
  <2>1. pc \in Launching
    BY DEF Launching
  <2> HIDE DEF pc
  <2>2. Returns(t, "ERR_CUDA") \/ (done' = done /\ Moves(t, pc, in, out, count))
    BY <1>4 DEF GhashEffect, pc
  <2> QED BY <1>1, <1>2, <2>1, <2>2
<1>5. CASE HeaderEffect(t)
  <2> DEFINE pc == IF call[t].n > 0 THEN "encrypt" ELSE "segment"
  <2>1. pc \in Launching
    BY DEF Launching
  <2>2. done' = done /\ Moves(t, pc, call[t].in, call[t].out, call[t].count)
    BY <1>5 DEF HeaderEffect
  <2> HIDE DEF pc
  <2> QED BY <1>1, <2>1, <2>2
<1>6. CASE EncryptEffect(t)
  BY <1>1, <1>6 DEF EncryptEffect, Launching
<1>7. CASE SegmentEffect(t)
  BY <1>4, <1>7 DEF SegmentEffect
<1>8. CASE CombineEffect(t)
  BY <1>4, <1>8 DEF CombineEffect
<1>9. CASE FinalizeEffect(t)
  BY <1>3, <1>9 DEF FinalizeEffect
<1>10. CASE VerifyEffect(t)
  BY <1>1, <1>3, <1>10 DEF VerifyEffect, Launching
<1>11. CASE DecryptEffect(t)
  BY <1>3, <1>11 DEF DecryptEffect
<1> QED BY <1>5, <1>6, <1>7, <1>8, <1>9, <1>10, <1>11 DEF LaunchEffect

\* The kernel of each launch.
KernelOf(t) ==
  CASE call[t].pc = "header" -> HeaderKernel(t)
    [] call[t].pc = "encrypt" -> EncryptKernel(t)
    [] call[t].pc = "segment" -> SegmentKernel(t)
    [] call[t].pc = "combine" -> CombineKernel(t)
    [] call[t].pc = "tag" /\ call[t].op = "seal" -> RootKernel(t, "finalize")
    [] call[t].pc = "tag" /\ call[t].op = "open" -> RootKernel(t, "verify")
    [] call[t].pc = "decrypt" -> DecryptKernel(t)

LEMMA LaunchFrames ==
  ASSUME TInv, NEW t \in Threads, LaunchEffect(t)
  PROVE  LaunchFrame(t, KernelOf(t))
<1> DEFINE k == KernelOf(t)
<1>1. /\ call[t].pc \in Launching /\ call[t].op \in {"seal", "open"}
      /\ call[t].h \in Handles /\ call[t].s \in Streams /\ call[t].pc # "idle"
      /\ UNCHANGED <<handle, mem, buf, sealed, calls>>
  BY DEF LaunchEffect, HeaderEffect, EncryptEffect, SegmentEffect, CombineEffect,
         FinalizeEffect, VerifyEffect, DecryptEffect, GhashEffect, Launching
<1>2. k \in Kernels /\ k.b = t /\ k.h = call[t].h /\ Launches(t, k)
  <2>1. CASE HeaderEffect(t)
    BY <1>1, <2>1, KernelsTyped DEF HeaderEffect, KernelOf, HeaderKernel
  <2>2. CASE EncryptEffect(t)
    BY <1>1, <2>2, KernelsTyped DEF EncryptEffect, KernelOf, EncryptKernel
  <2>3. CASE SegmentEffect(t)
    BY <1>1, <2>3, KernelsTyped DEF SegmentEffect, KernelOf, SegmentKernel
  <2>4. CASE CombineEffect(t)
    BY <1>1, <2>4, KernelsTyped DEF CombineEffect, KernelOf, CombineKernel
  <2>5. CASE FinalizeEffect(t)
    BY <1>1, <2>5, KernelsTyped DEF FinalizeEffect, KernelOf, RootKernel
  <2>6. CASE VerifyEffect(t)
    BY <1>1, <2>6, KernelsTyped DEF VerifyEffect, KernelOf, RootKernel
  <2>7. CASE DecryptEffect(t)
    BY <1>1, <2>7, KernelsTyped DEF DecryptEffect, KernelOf, DecryptKernel
  <2> QED BY <2>1, <2>2, <2>3, <2>4, <2>5, <2>6, <2>7 DEF LaunchEffect
<1> HIDE DEF k
<1>3. Others(t) /\ (lastErr[t] => lastErr'[t])
  BY <1>1, <1>2, LaunchEnds, ErrorsKept DEF Others
<1>4. \/ call'[t] = Idle
      \/ Continued(t) /\ done'[t] = done[t] /\ call'[t].pc \in Launching
  BY <1>1, LaunchEnds
<1> QED BY <1>1, <1>2, <1>3, <1>4 DEF LaunchFrame, k

\* The device data of a buffer: all of it but the length its thread goes by.
View(b) == [ver |-> buf[b].ver, iv |-> buf[b].iv, ct |-> buf[b].ct,
            tag |-> buf[b].tag, auth |-> buf[b].auth, plain |-> buf[b].plain]

\* A write of the caller to its buffer: a cleared flag, or another frame.
Rewritten(t) ==
  /\ BufferQuiet(t) /\ call'[t] = Idle /\ done'[t] = Nothing
  /\ buf'[t].plain \in {buf[t].plain, Poison}
  /\ \/ buf'[t].tag \in {buf[t].tag, NoTag}
     \/ \E key \in Handles, n \in Lens : buf'[t].tag = GcmFrame(key, 0, 0, n).tag

\* Thread t begins a seal or an open.
Begun(t) ==
  /\ call'[t].pc = "workspace" /\ call'[t].op \in {"seal", "open"}
  /\ call'[t].h \in Handles /\ call'[t].s \in Streams
  /\ BufferFree(t, call'[t].s) /\ HandleFree(call'[t].h, call'[t].s)
  /\ done'[t] = Nothing
  /\ call'[t].op = "open" /\ ClearAuth =>
       /\ buf[t].auth = 0
       /\ \A k \in KernelsOn(call'[t].s) : ~ (k.b = t /\ k.k = "verify")

\* Thread t takes a step that launches nothing, and starts no GHASH.
StillFrame(t) ==
  /\ queue' = queue /\ sealed' = sealed /\ Others(t)
  /\ lastErr[t] => lastErr'[t]
  /\ DeviceIdle \/ \A h \in Handles : handle'[h].h_pow2 = handle[h].h_pow2
  /\ done'[t] = done[t] \/ done'[t].rc # "OK"
  /\ \/ call'[t] = Idle
     \/ call'[t].op = "reserve" /\ call'[t].pc = "workspace"
     \/ Continued(t) /\ done'[t] = done[t] /\ call[t].pc # "decrypt"
     \/ Begun(t)
  /\ call'[t].pc \notin {"encrypt", "combine", "tag", "decrypt"}
  /\ call'[t].pc = "segment" => call'[t].op = "open"
  /\ View(t)' = View(t) \/ Rewritten(t)

StillEffect(t) ==
  \/ EnsureEffect(t) \/ MallocBEffect(t) \/ UndoEffect(t) \/ FreeAEffect(t)
  \/ FreeBEffect(t) \/ ClientEffect(t)

LEMMA MallocErrors ==
  ASSUME TInv, NEW t \in Threads, cudaMallocFails(t)
  PROVE  /\ \A u \in Threads \ {t} : lastErr'[u] = lastErr[u]
         /\ lastErr[t] => lastErr'[t]
<1>1. lastErr \in [Threads -> BOOLEAN] /\ lastErr' = [lastErr EXCEPT ![t] = TRUE]
  BY DEF TInv, TypeOK, cudaMallocFails
<1> QED BY <1>1

\* The steps of ensure_workspace.
LEMMA WorkspaceFrames ==
  ASSUME TInv, NEW t \in Threads,
         \/ EnsureEffect(t) \/ MallocBEffect(t) \/ UndoEffect(t)
         \/ FreeAEffect(t) \/ FreeBEffect(t)
  PROVE  StillFrame(t)
<1>1. /\ queue' = queue /\ sealed' = sealed /\ buf' = buf
      /\ call[t].pc # "decrypt"
  BY DEF EnsureEffect, MallocBEffect, UndoEffect, FreeAEffect, FreeBEffect
<1>2. \A h \in Handles : handle'[h].h_pow2 = handle[h].h_pow2
  <2>1. CASE FreeBEffect(t)
    <3>1. Rebuilt(call[t].h, call[t].in, call[t].out, required_nodes(call[t].n))
      BY <2>1 DEF FreeBEffect
    <3> QED BY <3>1 DEF Rebuilt
  <2>2. CASE handle' = handle
    BY <2>2
  <2> QED BY <2>1, <2>2 DEF EnsureEffect, MallocBEffect, UndoEffect, FreeAEffect
<1> DEFINE Ended ==
      /\ \A u \in Threads \ {t} : call'[u] = call[u] /\ done'[u] = done[u]
      /\ done'[t] = done[t] \/ done'[t].rc # "OK"
      /\ call'[t] = Idle \/ (Continued(t) /\ done'[t] = done[t])
      /\ call'[t].pc \notin {"encrypt", "combine", "tag", "decrypt"}
      /\ call'[t].pc = "segment" => call'[t].op = "open"
      Errs ==
      /\ \A u \in Threads \ {t} : lastErr'[u] = lastErr[u]
      /\ lastErr[t] => lastErr'[t]
<1>3. ASSUME NEW pc \in {"malloc_b", "undo", "free_a", "free_b", "header"},
             NEW in, NEW out, NEW count, Moves(t, pc, in, out, count), done' = done
      PROVE  Ended
  BY <1>3, MovesContinue
<1>4. ASSUME Returns(t, "ERR_ALLOC") PROVE Ended
  BY <1>4, ReturnsDone, IdleTyped
<1>5. ASSUME Continues(t) PROVE Ended
  <2>1. ASSUME call[t].op = "open", done' = done,
               Moves(t, "segment", call[t].in, call[t].out, call[t].count)
        PROVE  Ended
    BY <2>1, MovesContinue DEF Continued
  <2>2. ASSUME Returns(t, "OK"), done' = done
        PROVE  Ended
    BY <2>2, ReturnsDone, IdleTyped
  <2> QED BY <1>3, <1>5, <2>1, <2>2 DEF Continues
<1> HIDE DEF Ended, Errs
<1>6. ASSUME lastErr' = lastErr PROVE Errs
  BY <1>6 DEF Errs
<1>7. ASSUME cudaMallocFails(t) PROVE Errs
  BY <1>7, MallocErrors DEF Errs
<1>8. Ended
  BY <1>3, <1>4, <1>5 DEF EnsureEffect, MallocBEffect, UndoEffect, FreeAEffect, FreeBEffect
<1>9. Errs
  BY <1>6, <1>7 DEF EnsureEffect, MallocBEffect, UndoEffect, FreeAEffect, FreeBEffect
<1>10. View(t)' = View(t)
  BY <1>1 DEF View
<1> QED BY <1>1, <1>2, <1>8, <1>9, <1>10 DEF StillFrame, Others, Ended, Errs

LEMMA ClearRewrites ==
  ASSUME TInv, NEW t \in Threads, ClearFlag(t)
  PROVE  Rewritten(t)
<1> DEFINE r == [buf[t] EXCEPT !.auth = 0]
           r2 == [r EXCEPT !.plain = Poison]
<1>1. buf \in [Threads -> BufT] /\ buf[t] \in BufT /\ done \in [Threads -> DoneT]
  BY ArraysTyped DEF TInv
<1>2. buf' = [[buf EXCEPT ![t] = r] EXCEPT ![t].plain = Poison]
  BY DEF ClearFlag
<1>3. buf'[t] = r2
  BY <1>1, <1>2
<1>4. r2.plain = Poison /\ r2.tag = buf[t].tag
  BY <1>1 DEF BufT
<1>5. call' = call /\ call[t] = Idle /\ BufferQuiet(t) /\ done'[t] = Nothing
  BY <1>1 DEF ClearFlag
<1> HIDE DEF r2
<1> QED BY <1>3, <1>4, <1>5 DEF Rewritten

\* Altered ciphertext.
LEMMA CorruptRewrites ==
  ASSUME TInv, NEW t \in Threads, Corrupt(t)
  PROVE  Rewritten(t) /\ buf'[t].n = buf[t].n
<1> DEFINE ct == [buf[t].ct EXCEPT !.pt = -1]
           r == [buf[t] EXCEPT !.ct = ct]
<1>1. buf \in [Threads -> BufT] /\ buf[t] \in BufT /\ done \in [Threads -> DoneT]
  BY ArraysTyped DEF TInv
<1>2. call' = call /\ call[t] = Idle /\ BufferQuiet(t) /\ done'[t] = Nothing
      /\ buf' = [buf EXCEPT ![t].ct.pt = -1]
  BY <1>1 DEF Corrupt
<1>3. buf' = [buf EXCEPT ![t] = r]
  BY <1>1, <1>2
<1> HIDE DEF ct
<1>4. r.plain = buf[t].plain /\ r.tag = buf[t].tag /\ r.n = buf[t].n
  BY <1>1 DEF BufT
<1> HIDE DEF r
<1>5. buf'[t] = r
  BY <1>1, <1>3
<1> QED BY <1>2, <1>4, <1>5 DEF Rewritten

LEMMA UploadRewrites ==
  ASSUME TInv, NEW t \in Threads, NEW h \in Handles, NEW n \in Lens, NEW field \in Uploads,
         Upload(t, h, n, field)
  PROVE  Rewritten(t)
<1> DEFINE g == GcmFrame(h, 0, 0, n)
           f == Changed(g, field)
           r == [buf[t] EXCEPT !.ver = f.ver, !.iv = f.iv, !.ct = f.ct,
                               !.tag = f.tag, !.n = n]
<1>1. buf \in [Threads -> BufT] /\ buf[t] \in BufT /\ done \in [Threads -> DoneT]
  BY ArraysTyped DEF TInv
<1>2. call' = call /\ call[t] = Idle /\ BufferQuiet(t) /\ done'[t] = Nothing
      /\ buf' = [buf EXCEPT ![t] = r]
  BY <1>1 DEF Upload
<1>3. buf'[t] = r
  BY <1>1, <1>2
<1>4. f.tag = g.tag \/ f.tag = NoTag
  <2> DEFINE ct == IF n = 0 THEN NoCt ELSE [key |-> h, iv |-> 0, pt |-> 0]
             tag == GcmTag(h, 0, ct, n)
  <2>1. g = [ver |-> 1, iv |-> 0, ct |-> ct, tag |-> tag]
    BY DEF GcmFrame
  <2> HIDE DEF g, ct, tag
  <2>2. /\ [g EXCEPT !.ver = 2].tag = g.tag
        /\ [g EXCEPT !.iv = -1].tag = g.tag
        /\ [g EXCEPT !.ct.pt = -1].tag = g.tag
        /\ [g EXCEPT !.tag = NoTag].tag = NoTag
    BY <2>1
  <2>3. field \in {"none", "ver", "iv", "ct", "tag"}
    BY ConstantsAssumption
  <2> QED BY <2>2, <2>3 DEF Changed
<1>5. r.plain = buf[t].plain /\ r.tag = f.tag
  <2> HIDE DEF f
  <2> QED BY <1>1 DEF BufT
<1> HIDE DEF r, f
<1> QED BY <1>2, <1>3, <1>4, <1>5 DEF Rewritten

LEMMA ClientFrames ==
  ASSUME TInv, NEW t \in Threads, ClientEffect(t)
  PROVE  StillFrame(t)
<1>1. done \in [Threads -> DoneT] /\ lastErr \in [Threads -> BOOLEAN]
      /\ buf \in [Threads -> BufT]
  BY ArraysTyped DEF TInv, TypeOK
<1>2. CASE ClientWrites(t) /\ (\/ ClearFlag(t) \/ Corrupt(t)
                               \/ \E h \in Handles, n \in Lens, field \in Uploads :
                                    Upload(t, h, n, field))
  <2>1. Rewritten(t)
    BY <1>2, ClearRewrites, CorruptRewrites, UploadRewrites
  <2> QED BY <1>1, <1>2, <2>1, IdleTyped DEF ClientWrites, StillFrame, Others, Nothing
<1>3. ASSUME NEW h \in Handles, CreateEffect(t, h) PROVE StillFrame(t)
  <2>1. DeviceIdle \/ \A g \in Handles : handle'[g].h_pow2 = handle[g].h_pow2
    BY <1>3 DEF CreateEffect
  <2>2. /\ queue' = queue /\ sealed' = sealed /\ call' = call /\ done' = done
        /\ buf' = buf /\ call[t] = Idle
        /\ lastErr' = lastErr \/ lastErr' = [lastErr EXCEPT ![t] = TRUE]
    BY <1>3 DEF CreateEffect
  <2> QED BY <1>1, <2>1, <2>2, IdleTyped DEF StillFrame, Others, View
<1>4. ASSUME NEW h \in Handles, DestroyEffect(t, h) PROVE StillFrame(t)
  <2>1. /\ DeviceIdle
        /\ queue' = queue /\ sealed' = sealed /\ call' = call /\ done' = done
        /\ buf' = buf /\ call[t] = Idle /\ lastErr' = lastErr
    BY <1>4 DEF DestroyEffect
  <2> QED BY <2>1, IdleTyped DEF StillFrame, Others, View
<1>5. ASSUME NEW h \in Handles, NEW n \in Lens, ReserveEffect(t, h, n) PROVE StillFrame(t)
  <2>1. /\ queue' = queue /\ sealed' = sealed /\ done' = done /\ buf' = buf
        /\ lastErr' = lastErr /\ handle' = handle
        /\ Begins(t, "reserve", h, None, n, 0)
    BY <1>5 DEF ReserveEffect
  <2>2. /\ \A u \in Threads \ {t} : call'[u] = call[u]
        /\ call'[t].op = "reserve" /\ call'[t].pc = "workspace"
    BY <2>1 DEF Begins
  <2> QED BY <2>1, <2>2 DEF StillFrame, Others, View
<1>6. ASSUME NEW op \in {"seal", "open"}, NEW h \in Handles, NEW s \in Streams, NEW n, NEW iv,
             Begins(t, op, h, s, n, iv), BufferFree(t, s), HandleFree(h, s),
             done' = [done EXCEPT ![t] = Nothing],
             UNCHANGED <<lastErr, handle, queue, sealed>>,
             \A u \in Threads \ {t} : buf'[u] = buf[u], View(t)' = View(t),
             op = "open" /\ ClearAuth =>
               /\ buf[t].auth = 0
               /\ \A k \in KernelsOn(s) : ~ (k.b = t /\ k.k = "verify")
      PROVE  StillFrame(t)
  <2>1. /\ \A u \in Threads \ {t} : call'[u] = call[u]
        /\ call'[t].op = op /\ call'[t].pc = "workspace" /\ call'[t].h = h /\ call'[t].s = s
    BY <1>6 DEF Begins
  <2>2. done'[t] = Nothing /\ Nothing.rc # "OK" /\ \A u \in Threads \ {t} : done'[u] = done[u]
    BY <1>1, <1>6 DEF Nothing
  <2>3. Begun(t)
    BY <1>6, <2>1, <2>2 DEF Begun
  <2> QED BY <1>6, <2>1, <2>2, <2>3 DEF StillFrame, Others
<1>7. ASSUME NEW h \in Handles, NEW s \in Streams, OpenEffect(t, h, s) PROVE StillFrame(t)
  <2>1. View(t)' = View(t)
    BY <1>7 DEF OpenEffect, View
  <2> QED BY <1>6, <1>7, <2>1 DEF OpenEffect
<1>8. ASSUME NEW h \in Handles, NEW s \in Streams, NEW n \in Lens,
             SealEffect(t, h, s, n, calls + 1)
      PROVE  StillFrame(t)
  <2> DEFINE r == [buf[t] EXCEPT !.n = n]
  <2>1. buf[t] \in BufT /\ buf' = [buf EXCEPT ![t] = r]
    BY <1>1, <1>8 DEF SealEffect
  <2>2. /\ r.ver = buf[t].ver /\ r.iv = buf[t].iv /\ r.ct = buf[t].ct
        /\ r.tag = buf[t].tag /\ r.auth = buf[t].auth /\ r.plain = buf[t].plain
    BY <2>1 DEF BufT
  <2> HIDE DEF r
  <2>3. View(t)' = View(t) /\ \A u \in Threads \ {t} : buf'[u] = buf[u]
    BY <1>1, <2>1, <2>2 DEF View
  <2> QED BY <1>6, <1>8, <2>3 DEF SealEffect
<1> QED BY <1>2, <1>3, <1>4, <1>5, <1>7, <1>8 DEF ClientEffect

LEMMA StillFrames ==
  ASSUME TInv, NEW t \in Threads, StillEffect(t)
  PROVE  StillFrame(t)
BY WorkspaceFrames, ClientFrames DEF StillEffect

\* Every step launches a kernel, runs one or does neither.
LEMMA StepIs ==
  ASSUME TInv, Next
  PROVE  \/ \E t \in Threads : LaunchEffect(t) \/ StillEffect(t)
         \/ \E s \in Streams : DeviceEffect(s)
BY StepDoes DEF HostEffect, LaunchEffect, StillEffect

-----------------------------------------------------------------------------
(* Streams: what uses a buffer or a handle is on one of them.              *)

StreamsApart ==
  /\ \A r, s \in Streams : \A k \in KernelsOn(r), q \in KernelsOn(s) :
       k.b = q.b \/ k.h = q.h => r = s
  /\ \A t \in Threads : call[t].op \in {"seal", "open"} =>
       \A r \in Streams \ {call[t].s} : \A k \in KernelsOn(r) : k.b # t /\ k.h # call[t].h

LEMMA LaunchApart ==
  ASSUME MInv, StreamsApart, NEW t \in Threads, NEW k, LaunchFrame(t, k)
  PROVE  StreamsApart'
<1>1. /\ k \in Kernels /\ k.b = t /\ k.h = call[t].h /\ call[t].s \in Streams
      /\ call[t].op \in {"seal", "open"} /\ call[t].pc # "idle" /\ Others(t)
      /\ call'[t] = Idle \/ Continued(t)
  BY DEF LaunchFrame, Launching
<1>2. \A s \in Streams : \A q \in KernelsOn(s)' :
        q \in KernelsOn(s) \/ (q = k /\ s = call[t].s)
  BY <1>1, LaunchAdds DEF LaunchFrame, MInv
<1>3. ASSUME NEW r \in Streams, NEW s \in Streams, NEW p \in KernelsOn(r)',
             NEW q \in KernelsOn(s)', p.b = q.b \/ p.h = q.h
      PROVE  r = s
  BY <1>1, <1>2, <1>3 DEF StreamsApart
<1>4. ASSUME NEW u \in Threads, call'[u].op \in {"seal", "open"},
             NEW r \in Streams \ {call'[u].s}, NEW q \in KernelsOn(r)'
      PROVE  q.b # u /\ q.h # call'[u].h
  <2>1. CASE u = t
    <3>1. call'[t].s = call[t].s /\ call'[t].h = call[t].h
      BY <1>1, <1>4, <2>1 DEF Continued, Idle
    <3>2. q \in KernelsOn(r)
      BY <1>2, <1>4, <2>1, <3>1
    <3> QED BY <1>1, <1>4, <2>1, <3>1, <3>2 DEF StreamsApart
  <2>2. CASE u # t
    <3>1. call'[u] = call[u]
      BY <1>1, <2>2 DEF Others
    <3>2. call[u].pc # "idle"
      BY <1>4, <3>1 DEF MInv, TInv, CallShape, ShapeOf, Idle
    <3>3. call[u].h # call[t].h
      BY <1>1, <2>2, <3>2 DEF MInv, OneCall
    <3> QED BY <1>1, <1>2, <1>4, <2>2, <3>1, <3>3 DEF StreamsApart
  <2> QED BY <2>1, <2>2
<1> QED BY <1>3, <1>4 DEF StreamsApart

LEMMA StillApart ==
  ASSUME MInv, StreamsApart, NEW t \in Threads, StillFrame(t)
  PROVE  StreamsApart'
<1>1. \A s \in Streams : KernelsOn(s)' = KernelsOn(s)
  BY DEF StillFrame, KernelsOn
<1>2. ASSUME NEW u \in Threads, call'[u].op \in {"seal", "open"},
             NEW r \in Streams \ {call'[u].s}, NEW q \in KernelsOn(r)
      PROVE  q.b # u /\ q.h # call'[u].h
  <2>1. CASE u # t
    BY <1>2, <2>1 DEF StillFrame, Others, StreamsApart
  <2>2. CASE u = t
    <3>1. Continued(t) \/ Begun(t)
      BY <1>2, <2>2 DEF StillFrame, Idle
    <3>2. CASE Continued(t)
      BY <1>2, <2>2, <3>2 DEF Continued, StreamsApart
    <3>3. CASE Begun(t)
      BY <1>2, <2>2, <3>3 DEF Begun, BufferFree, HandleFree
    <3> QED BY <3>1, <3>2, <3>3
  <2> QED BY <2>1, <2>2
<1> QED BY <1>1, <1>2 DEF StreamsApart

LEMMA RunApart ==
  ASSUME MInv, StreamsApart, NEW s \in Streams, DeviceEffect(s)
  PROVE  StreamsApart'
<1>1. /\ call' = call
      /\ \A r \in Streams : \A q \in KernelsOn(r)' : q \in KernelsOn(r)
  BY RunAdds DEF DeviceEffect, Runs, MInv
<1> QED BY <1>1 DEF StreamsApart

\* All kernels of a buffer are on the stream of any of them.
LEMMA OneStream ==
  ASSUME StreamsApart, NEW s \in Streams, NEW k \in KernelsOn(s)
  PROVE  BufferFree(k.b, s)
BY DEF StreamsApart, BufferFree


-----------------------------------------------------------------------------
(* The GHASH of a call: each kernel finds the level that its predecessor   *)
(* left, whatever other calls launch on the stream in between.             *)

\* A level of the hash of a call, and that it is in the workspace.
LevelOf(h, b, n, in, count) == [h |-> h, b |-> b, n |-> n, in |-> in, count |-> count]
IsThere(v) == Level(v.in, v.count, v.h, v.b, v.n)

\* Kernel f makes level v.
Feeds(f, v) ==
  /\ f.k = "segment" \/ f.k = "combine"
  /\ f.h = v.h /\ f.b = v.b /\ f.n = v.n /\ f.out = v.in
  /\ f.k = "segment" => v.count = required_nodes(v.n)
  /\ f.k = "combine" => v.count = halved(f.count)

\* Kernel f has nothing to do with level v.
Apart(f, v) == f.h # v.h /\ f.b # v.b

\* A kernel at place i of stream q finds level v: one before it makes it, or it
\* is there already, and the kernels in between are of other calls.
Ready(q, i, v, there) ==
  \/ \E j \in 1 .. i - 1 :
       Feeds(q[j], v) /\ \A m \in j + 1 .. i - 1 : Apart(q[m], v)
  \/ there /\ \A m \in 1 .. i - 1 : Apart(q[m], v)

Needs(k, count) == LevelOf(k.h, k.b, k.n, k.in, count)
ReadyAt(s, i, v) == Ready(queue[s], i, v, IsThere(v))

\* Kernel k waits for level v.
WaitsFor(k, v) ==
  \/ k.k = "combine" /\ v = Needs(k, k.count)
  \/ k.k \in {"finalize", "verify"} /\ v = Needs(k, 1)

QueueChains ==
  \A s \in Streams : \A i \in 1 .. Len(queue[s]) :
    /\ queue[s][i].k = "combine" => queue[s][i].count > 1
    /\ \A v : WaitsFor(queue[s][i], v) => ReadyAt(s, i, v)

LevelOfCall(t) == LevelOf(call[t].h, t, call[t].n, call[t].in, call[t].count)

CallChains ==
  \A t \in Threads : call[t].pc \in {"combine", "tag"} =>
    /\ ReadyAt(call[t].s, Len(queue[call[t].s]) + 1, LevelOfCall(t))
    /\ call[t].pc = "tag" <=> call[t].count = 1
    /\ call[t].count > 0
    /\ ~ lastErr[t]

CInv == MInv /\ StreamsApart /\ QueueChains /\ CallChains

LEMMA ReadyAppend ==
  ASSUME NEW q \in Seq(Kernels), NEW k \in Kernels, NEW i \in 1 .. Len(q) + 1,
         NEW v, NEW there, Ready(q, i, v, there)
  PROVE  Ready(Append(q, k), i, v, there)
<1> DEFINE r == Append(q, k)
<1>1. \A m \in 1 .. i - 1 : r[m] = q[m]
  OBVIOUS
<1> HIDE DEF r
<1>2. Ready(r, i, v, there)
  BY <1>1 DEF Ready
<1> QED BY <1>2 DEF r

LEMMA ReadyGrows ==
  ASSUME NEW q \in Seq(Kernels), NEW k \in Kernels, NEW v, NEW there, Apart(k, v),
         Ready(q, Len(q) + 1, v, there)
  PROVE  Ready(Append(q, k), Len(q) + 2, v, there)
<1> DEFINE r == Append(q, k)
           n == Len(q)
<1>1. n \in Nat /\ r[n + 1] = k /\ \A m \in 1 .. n : r[m] = q[m]
  OBVIOUS
<1>2. Ready(q, n + 1, v, there)
  OBVIOUS
<1> HIDE DEF r, n
<1>3. Ready(r, n + 2, v, there)
  <2>1. ASSUME NEW j \in 1 .. n, Feeds(q[j], v), \A m \in j + 1 .. n : Apart(q[m], v)
        PROVE  Ready(r, n + 2, v, there)
    <3>1. j \in 1 .. n + 1 /\ Feeds(r[j], v) /\ \A m \in j + 1 .. n + 1 : Apart(r[m], v)
      BY <1>1, <2>1
    <3> QED BY <1>1, <3>1 DEF Ready
  <2>2. ASSUME there, \A m \in 1 .. n : Apart(q[m], v)
        PROVE  Ready(r, n + 2, v, there)
    <3>1. \A m \in 1 .. n + 1 : Apart(r[m], v)
      BY <1>1, <2>2
    <3> QED BY <1>1, <2>2, <3>1 DEF Ready
  <2>3. (n + 1) - 1 = n
    BY <1>1
  <2> QED BY <1>2, <2>1, <2>2, <2>3 DEF Ready
<1> QED BY <1>3 DEF r, n

LEMMA ReadyFed ==
  ASSUME NEW q \in Seq(Kernels), NEW k \in Kernels, NEW v, NEW there, Feeds(k, v)
  PROVE  Ready(Append(q, k), Len(q) + 2, v, there)
<1>1. Append(q, k)[Len(q) + 1] = k /\ Len(q) \in Nat
  OBVIOUS
<1> QED BY <1>1 DEF Ready

\* When the first kernel has run, the level that it made is there.
LEMMA ReadyTail ==
  ASSUME NEW q \in Seq(Kernels), q # <<>>, NEW i \in 2 .. Len(q) + 1,
         NEW v, NEW there, NEW now, Ready(q, i, v, there),
         Feeds(Head(q), v) => now,
         Apart(Head(q), v) /\ there => now
  PROVE  Ready(Tail(q), i - 1, v, now)
<1> DEFINE r == Tail(q)
           n == Len(q)
<1>1. n \in Nat /\ Head(q) = q[1] /\ \A m \in 1 .. n - 1 : r[m] = q[m + 1]
  OBVIOUS
<1> HIDE DEF r, n
<1>2. i \in 2 .. n + 1
  BY DEF n
<1>3. ASSUME NEW j \in 1 .. i - 1, Feeds(q[j], v),
             \A m \in j + 1 .. i - 1 : Apart(q[m], v)
      PROVE  Ready(r, i - 1, v, now)
  <2>1. \A m \in j .. i - 2 : m \in 1 .. n - 1 /\ m + 1 \in j + 1 .. i - 1 /\ Apart(r[m], v)
    <3> SUFFICES ASSUME NEW m \in j .. i - 2
                 PROVE  m \in 1 .. n - 1 /\ m + 1 \in j + 1 .. i - 1 /\ Apart(r[m], v)
      OBVIOUS
    <3>1. m \in 1 .. n - 1 /\ m + 1 \in j + 1 .. i - 1
      BY <1>1, <1>2
    <3> QED BY <1>1, <1>3, <3>1
  <2>2. CASE j = 1
    <3>1. now
      BY <1>1, <1>3, <2>2
    <3>2. \A m \in 1 .. i - 2 : Apart(r[m], v)
      BY <2>1, <2>2
    <3> QED BY <1>2, <3>1, <3>2 DEF Ready
  <2>3. CASE j # 1
    <3>1. j - 1 \in 1 .. i - 2 /\ j - 1 \in 1 .. n - 1 /\ (j - 1) + 1 = j
      BY <1>1, <1>2, <2>3
    <3>2. r[j - 1] = q[j]
      BY <1>1, <3>1
    <3> QED BY <1>2, <1>3, <2>1, <3>1, <3>2 DEF Ready
  <2> QED BY <2>2, <2>3
<1>4. ASSUME there, \A m \in 1 .. i - 1 : Apart(q[m], v)
      PROVE  Ready(r, i - 1, v, now)
  <2>1. 1 \in 1 .. i - 1 /\ now
    BY <1>1, <1>2, <1>4
  <2>2. ASSUME NEW m \in 1 .. i - 2 PROVE Apart(r[m], v)
    <3>1. m \in 1 .. n - 1 /\ m + 1 \in 1 .. i - 1
      BY <1>1, <1>2
    <3> QED BY <1>1, <1>4, <3>1
  <2> QED BY <1>2, <2>1, <2>2 DEF Ready
<1>5. Ready(r, i - 1, v, now)
  BY <1>3, <1>4 DEF Ready
<1> QED BY <1>5 DEF r

\* What a queued kernel or a call of another thread uses.
InUse(t, h) ==
  \/ \E s \in Streams : \E k \in KernelsOn(s) : k.h = h
  \/ \E u \in Threads \ {t} : call[u].pc \in {"combine", "tag"} /\ call[u].h = h

\* The workspaces of a handle that has them.
LEMMA BothHeld ==
  ASSUME MInv, NEW h \in Handles, handle[h].cap > 0, ~ Freed(h)
  PROVE  /\ handle[h].state = "live" /\ handle[h].a # handle[h].b
         /\ \A p \in {handle[h].a, handle[h].b} : p \in Held(h) /\ p \in DOMAIN mem
<1>1. handle[h].a # None /\ handle[h].b # None /\ handle[h].state = "live"
      /\ handle[h].a # handle[h].b
  BY DEF MInv, LiveUsed, OneOwner
<1>2. handle[h].a \in Held(h) /\ handle[h].b \in Held(h)
  BY <1>1, HeldIs
<1> QED BY <1>1, <1>2, OwnersLive

LEMMA CallHasWorkspace ==
  ASSUME MInv, NEW u \in Threads, call[u].pc \in {"combine", "tag"}
  PROVE  /\ call[u].h \in Handles /\ call[u].s \in Streams /\ call[u].pc # "idle"
         /\ call[u].op \in {"seal", "open"} /\ call[u].n \in Nat
         /\ handle[call[u].h].cap > 0 /\ ~ Freed(call[u].h)
         /\ call[u].in \in {handle[call[u].h].a, handle[call[u].h].b}
<1>1. /\ call[u].pc \in Launching /\ call[u].h \in Handles /\ call[u].s \in Streams
      /\ call[u].op \in {"seal", "open"} /\ call[u].n \in Nat /\ call[u].pc # "idle"
  BY LaunchingCall DEF Launching, MInv
<1>2. required_nodes(call[u].n) <= handle[call[u].h].cap
      /\ BothOf(call[u].h, call[u].in, call[u].out)
  BY <1>1 DEF MInv, CallsFit, FitOf
<1>3. handle[call[u].h].cap > 0
  <2>1. required_nodes(call[u].n) \in Nat \ {0}
    BY <1>1, NodesNeeded
  <2>2. handle[call[u].h].cap \in Nat
    BY <1>1, ArraysTyped DEF MInv, TInv, HandleT
  <2> QED BY <1>2, <2>1, <2>2
<1>4. ~ Freed(call[u].h)
  BY <1>1, NotFreedTwice
<1> QED BY <1>1, <1>2, <1>3, <1>4 DEF BothOf

LEMMA UsedHeld ==
  ASSUME MInv, NEW t, NEW h \in Handles, InUse(t, h)
  PROVE  handle[h].cap > 0 /\ ~ Freed(h)
<1>1. ASSUME NEW s \in Streams, NEW k \in KernelsOn(s), k.h = h
      PROVE  handle[h].cap > 0 /\ ~ Freed(h)
  BY <1>1 DEF MInv, QueueFits, QueuedFits
<1> QED BY <1>1, CallHasWorkspace DEF InUse


\* Steps that launch and run nothing leave alone what is in use.
Untouched(h) ==
  /\ handle'[h] = handle[h]
  /\ \A p \in {handle[h].a, handle[h].b} : \A i : load(p, i)' = load(p, i)

LEMMA MallocUntouched ==
  ASSUME NEW p, NEW size, Allocates(p, size)
  PROVE  \A x : \A i : load(x, i)' = load(x, i)
<1> SUFFICES ASSUME NEW x, NEW i PROVE load(x, i)' = load(x, i)
  OBVIOUS
<1>1. CASE x = p
  BY <1>1 DEF Allocates, load
<1>2. CASE x # p
  BY <1>2 DEF Allocates, load
<1> QED BY <1>1, <1>2

LEMMA FreeUntouched ==
  ASSUME NEW p, NEW x, Frees(x), p # x
  PROVE  \A i : load(p, i)' = load(p, i)
BY DEF Frees, load

LEMMA StillUntouched ==
  ASSUME MInv, NEW t \in Threads, StillEffect(t), NEW h \in Handles, InUse(t, h)
  PROVE  Untouched(h)
<1>1. /\ handle[h].cap > 0 /\ ~ Freed(h) /\ handle[h].state = "live"
      /\ handle[h].a # handle[h].b
      /\ \A p \in {handle[h].a, handle[h].b} : p \in Held(h) /\ p \in DOMAIN mem
  BY UsedHeld, BothHeld
<1>2. ASSUME DeviceIdle
      PROVE  \E u \in Threads \ {t} : call[u].pc # "idle" /\ call[u].h = h
  <2>1. \A s \in Streams : KernelsOn(s) = {}
    BY <1>2, KernelsAre DEF MInv
  <2> QED BY <2>1, CallHasWorkspace DEF InUse
<1>3. ASSUME DeviceIdle, call[t].pc # "idle" PROVE call[t].h # h
  BY <1>2, <1>3 DEF MInv, OneCall
<1>4. ASSUME mem' = mem, handle'[h] = handle[h] PROVE Untouched(h)
  BY <1>4 DEF Untouched, load
<1>5. ASSUME NEW p, NEW size, Allocates(p, size), handle' = handle PROVE Untouched(h)
  BY <1>5, MallocUntouched DEF Untouched
<1>6. ASSUME NEW x, cudaFree(x), handle'[h] = handle[h], x # None => x \notin Held(h)
      PROVE  Untouched(h)
  <2>1. Frees(x)
    BY <1>6, FreeFrees DEF MInv
  <2>2. x # handle[h].a /\ x # handle[h].b
    BY <1>1, <1>6, HeldIs
  <2> QED BY <1>6, <2>1, <2>2, FreeUntouched DEF Untouched
<1>7. ASSUME NEW x, cudaFree(x), x # None PROVE DeviceIdle
  BY <1>7 DEF cudaFree
<1>8. CASE EnsureEffect(t)
  BY <1>4, <1>5, <1>8 DEF EnsureEffect
<1>9. CASE MallocBEffect(t)
  BY <1>4, <1>5, <1>9 DEF MallocBEffect
<1>10. CASE UndoEffect(t)
  <2>1. call[t].in # None => call[t].in \in Fresh(t)
    BY <1>10, FreshIs DEF UndoEffect, Allocating
  <2> QED BY <1>6, <1>10, <2>1 DEF UndoEffect, MInv, OneOwner
<1>11. CASE FreeAEffect(t)
  <2> DEFINE g == call[t].h
  <2>1. g \in Handles /\ call[t].pc = "free_a" /\ ~ Freed(g)
    BY <1>11, NotFreedTwice DEF FreeAEffect
  <2>2. handle[g].a # None => handle[g].a \notin Held(h)
    <3> SUFFICES ASSUME handle[g].a # None PROVE handle[g].a \notin Held(h)
      OBVIOUS
    <3>1. handle[g].a \in Held(g)
      BY <2>1, HeldIs
    <3>2. g # h
      BY <1>3, <1>7, <1>11, <2>1 DEF FreeAEffect
    <3> QED BY <2>1, <3>1, <3>2 DEF MInv, OneOwner
  <2> QED BY <1>6, <1>11, <2>2 DEF FreeAEffect
<1>12. CASE FreeBEffect(t)
  <2> DEFINE g == call[t].h
  <2>1. g \in Handles /\ call[t].pc = "free_b" /\ Freed(g)
        /\ cudaFree(handle[g].b) /\ Rebuilt(g, call[t].in, call[t].out, required_nodes(call[t].n))
    BY <1>12 DEF FreeBEffect, Freed
  <2>2. g # h
    BY <1>1, <2>1
  <2>3. handle[g].b # None => handle[g].b \notin Held(h)
    <3> SUFFICES ASSUME handle[g].b # None PROVE handle[g].b \notin Held(h)
      OBVIOUS
    <3>1. handle[g].b # handle[g].a
      BY <2>1 DEF MInv, OneOwner
    <3>2. handle[g].b \in Held(g)
      BY <2>1, <3>1, HeldIs
    <3> QED BY <2>1, <2>2, <3>2 DEF MInv, OneOwner
  <2>4. handle'[h] = handle[h]
    BY <2>1, <2>2 DEF Rebuilt
  <2> QED BY <1>6, <2>1, <2>3, <2>4
<1>13. CASE ClientWrites(t)
  BY <1>4, <1>13 DEF ClientWrites
<1>14. ASSUME NEW g \in Handles, CreateEffect(t, g) PROVE Untouched(h)
  BY <1>1, <1>4, <1>14 DEF CreateEffect
<1>15. ASSUME NEW g \in Handles, DestroyEffect(t, g) PROVE Untouched(h)
  <2>1. g # h
    BY <1>2, <1>15 DEF DestroyEffect
  <2>2. handle'[h] = handle[h]
    BY <1>15, <2>1 DEF DestroyEffect
  <2>3. ASSUME NEW p \in {handle[h].a, handle[h].b} PROVE p \notin {handle[g].a, handle[g].b}
    <3>1. p \in Held(h) /\ p # None
      BY <1>1, HeldIs
    <3>2. ~ Freed(g)
      BY <1>15 DEF DestroyEffect, Freed
    <3> QED BY <2>1, <3>1, <3>2, HeldIs DEF MInv, OneOwner
  <2>4. ASSUME NEW p \in {handle[h].a, handle[h].b}, NEW i PROVE load(p, i)' = load(p, i)
    <3>1. mem' = [q \in DOMAIN mem \ {handle[g].a, handle[g].b} |-> mem[q]]
      BY <1>15 DEF DestroyEffect
    <3> QED BY <2>3, <3>1 DEF load
  <2> QED BY <2>2, <2>4 DEF Untouched
<1>16. CASE mem' = mem /\ handle' = handle
  BY <1>4, <1>16
<1>17. ASSUME ClientEffect(t) PROVE Untouched(h)
  BY <1>13, <1>14, <1>15, <1>16, <1>17 DEF ClientEffect, ReserveEffect, OpenEffect, SealEffect
<1> QED BY <1>8, <1>9, <1>10, <1>11, <1>12, <1>17 DEF StillEffect

\* So a level that a queued kernel or another thread waits for stays.
LEMMA StillLevel ==
  ASSUME MInv, NEW t \in Threads, StillEffect(t), NEW v, v.h \in Handles,
         InUse(t, v.h), v.in \in {handle[v.h].a, handle[v.h].b},
         buf'[v.b].ct = buf[v.b].ct, IsThere(v)
  PROVE  IsThere(v)'
<1>1. Untouched(v.h)
  BY StillUntouched
<1>2. ciphertext(v.b, v.n)' = ciphertext(v.b, v.n)
  BY DEF ciphertext
<1>3. handle'[v.h].h_pow2 = handle[v.h].h_pow2 /\ \A i : load(v.in, i)' = load(v.in, i)
  BY <1>1 DEF Untouched
<1>4. Level(v.in, v.count, v.h, v.b, v.n)
  BY DEF IsThere
<1>5. Level(v.in, v.count, v.h, v.b, v.n)'
  BY <1>2, <1>3, <1>4, LevelKept
<1> QED BY <1>5 DEF IsThere

\* The kernels of other calls write elsewhere.
LEMMA RunUntouched ==
  ASSUME MInv, NEW s \in Streams, NEW k \in KernelsOn(s), RunEffect(s, k),
         NEW h \in Handles, handle[h].cap > 0, ~ Freed(h), k.h # h,
         NEW p \in {handle[h].a, handle[h].b}
  PROVE  \A i : load(p, i)' = load(p, i)
<1>1. k \in Kernels /\ k.h \in Handles /\ QueuedFits(k)
  BY KernelsAre, KernelFields DEF MInv, QueueFits
<1>2. p \in Held(h)
  BY BothHeld
<1>3. \A x \in {handle[k.h].a, handle[k.h].b} : x \in Held(k.h)
  BY <1>1, BothHeld DEF QueuedFits
<1>4. p \notin {handle[k.h].a, handle[k.h].b}
  BY <1>1, <1>2, <1>3 DEF MInv, OneOwner
<1>5. ASSUME NEW x \in {handle[k.h].a, handle[k.h].b}, NEW m, NEW N, Stores(x, m, N)
      PROVE  \A i : load(p, i)' = load(p, i)
  BY <1>4, <1>5 DEF Stores, load
<1>6. CASE mem' = mem
  BY <1>6 DEF load
<1>7. k.k \in {"segment", "combine"} => k.out \in {handle[k.h].a, handle[k.h].b}
  BY <1>1 DEF QueuedFits, BothOf
<1> QED BY <1>5, <1>6, <1>7 DEF RunEffect, Writes


\* Level v is in a workspace that its handle keeps.
Placed(v) ==
  /\ v.h \in Handles /\ v.b \in Threads /\ handle[v.h].cap > 0 /\ ~ Freed(v.h)
  /\ v.in \in {handle[v.h].a, handle[v.h].b}

LEMMA WaitedPlaced ==
  ASSUME MInv, NEW s \in Streams, NEW k \in KernelsOn(s), NEW v, WaitsFor(k, v)
  PROVE  Placed(v) /\ v.h = k.h /\ v.b = k.b
<1>1. k \in Kernels /\ k.h \in Handles /\ k.b \in Threads /\ QueuedFits(k)
  BY KernelsAre, KernelFields DEF MInv, QueueFits
<1>2. v.h = k.h /\ v.b = k.b /\ v.in = k.in /\ k.k \in {"combine", "finalize", "verify"}
  BY DEF WaitsFor, Needs, LevelOf
<1> QED BY <1>1, <1>2 DEF Placed, QueuedFits, BothOf

LEMMA CallPlaced ==
  ASSUME MInv, NEW t \in Threads, call[t].pc \in {"combine", "tag"}
  PROVE  Placed(LevelOfCall(t))
BY CallHasWorkspace DEF Placed, LevelOfCall, LevelOf

LEMMA HeadKernel ==
  ASSUME TInv, NEW s \in Streams, NEW k, Runs(s, k)
  PROVE  /\ queue[s] \in Seq(Kernels) /\ queue[s] # <<>> /\ k = queue[s][1]
         /\ k = Head(queue[s]) /\ Len(queue[s]) \in Nat \ {0} /\ k \in KernelsOn(s) /\ k \in Kernels
         /\ k.h \in Handles /\ k.b \in Threads
         /\ Len(Tail(queue[s])) = Len(queue[s]) - 1
         /\ \A i \in 1 .. Len(queue[s]) - 1 : Tail(queue[s])[i] = queue[s][i + 1]
<1>1. queue[s] \in Seq(Kernels) /\ queue[s] # <<>> /\ k = Head(queue[s]) /\ k \in Kernels
  BY KernelsAre DEF Runs
<1>2. k = queue[s][1] /\ Len(queue[s]) \in Nat \ {0} /\ Len(Tail(queue[s])) = Len(queue[s]) - 1
      /\ \A i \in 1 .. Len(queue[s]) - 1 : Tail(queue[s])[i] = queue[s][i + 1]
  BY <1>1
<1>3. k \in KernelsOn(s)
  BY <1>2, KernelsAre
<1> QED BY <1>1, <1>2, <1>3, KernelFields

\* The level that the first kernel of a stream waits for is there.
LEMMA HeadFinds ==
  ASSUME TInv, QueueChains, NEW s \in Streams, NEW k, Runs(s, k), NEW v, WaitsFor(k, v)
  PROVE  IsThere(v) /\ (k.k = "combine" => k.count > 1)
<1>1. 1 \in 1 .. Len(queue[s]) /\ queue[s][1] = k
  BY HeadKernel
<1>2. Ready(queue[s], 1, v, IsThere(v)) /\ (k.k = "combine" => k.count > 1)
  BY <1>1 DEF QueueChains, ReadyAt
<1> QED BY <1>2 DEF Ready

\* A run leaves the levels of other calls there, and makes its own.
LEMMA RunLevel ==
  ASSUME MInv, QueueChains, NEW s \in Streams, NEW k, Runs(s, k), RunEffect(s, k),
         NEW v
  PROVE  /\ Apart(k, v) /\ Placed(v) /\ IsThere(v) => IsThere(v)'
         /\ Feeds(k, v) => IsThere(v)'
<1>1. k \in KernelsOn(s) /\ k \in Kernels /\ KernelFits(k) /\ handle' = handle /\ TInv
  BY HeadKernel, QueuedKernelFits DEF MInv, Runs
<1>2. ASSUME Apart(k, v), Placed(v), IsThere(v) PROVE IsThere(v)'
  <2>1. \A i : load(v.in, i)' = load(v.in, i)
    BY <1>1, <1>2, RunUntouched DEF Apart, Placed
  <2>2. buf'[v.b] = buf[v.b]
    BY <1>1, <1>2, RunWritesIV DEF Apart, Placed
  <2>3. ciphertext(v.b, v.n)' = ciphertext(v.b, v.n) /\ handle'[v.h].h_pow2 = handle[v.h].h_pow2
    BY <1>1, <2>2 DEF ciphertext
  <2>4. Level(v.in, v.count, v.h, v.b, v.n)
    BY <1>2 DEF IsThere
  <2>5. Level(v.in, v.count, v.h, v.b, v.n)'
    BY <2>1, <2>3, <2>4, LevelKept
  <2> QED BY <2>5 DEF IsThere
<1>3. ASSUME Feeds(k, v), k.k = "segment" PROVE IsThere(v)'
  <2>1. Stores(k.out, required_nodes(k.n), [i \in Nat |-> SegmentNode(k, i)])
    BY <1>3 DEF RunEffect
  <2>2. Level(k.out, required_nodes(k.n), k.h, k.b, k.n)'
    BY <1>1, <1>3, <2>1, SegmentLevel DEF KernelFits
  <2> QED BY <1>3, <2>2 DEF IsThere, Feeds
<1>4. ASSUME Feeds(k, v), k.k = "combine" PROVE IsThere(v)'
  <2>1. Stores(k.out, halved(k.count), [i \in Nat |-> CombineNode(k, i)])
    BY <1>4 DEF RunEffect
  <2>2. WaitsFor(k, Needs(k, k.count))
    BY <1>4 DEF WaitsFor
  <2>3. IsThere(Needs(k, k.count)) /\ k.count > 1
    BY <1>1, <1>4, <2>2, HeadFinds
  <2>4. Level(k.in, k.count, k.h, k.b, k.n)
    BY <2>3 DEF IsThere, Needs, LevelOf
  <2>5. Level(k.out, halved(k.count), k.h, k.b, k.n)'
    BY <1>1, <1>4, <2>1, <2>3, <2>4, CombineLevel DEF KernelFits
  <2> QED BY <1>4, <2>5 DEF IsThere, Feeds
<1> QED BY <1>2, <1>3, <1>4 DEF Feeds


LEMMA DeviceChains ==
  ASSUME CInv, NEW s \in Streams, DeviceEffect(s)
  PROVE  QueueChains' /\ CallChains'
<1> DEFINE q == queue[s]
<1>1. PICK k : k = Head(queue[s])
  OBVIOUS
<1>2. Runs(s, k) /\ RunEffect(s, k) /\ MInv /\ TInv /\ StreamsApart /\ QueueChains /\ CallChains
  BY <1>1 DEF DeviceEffect, CInv, MInv
<1>3. /\ q \in Seq(Kernels) /\ q # <<>> /\ k = q[1] /\ k = Head(q) /\ Len(q) \in Nat \ {0}
      /\ k \in KernelsOn(s) /\ k.h \in Handles /\ k.b \in Threads
      /\ Len(Tail(q)) = Len(q) - 1
      /\ \A i \in 1 .. Len(q) - 1 : Tail(q)[i] = q[i + 1]
  BY <1>2, HeadKernel
<1>4. /\ queue'[s] = Tail(q) /\ \A r \in Streams \ {s} : queue'[r] = queue[r]
      /\ call' = call /\ lastErr' = lastErr
  BY <1>2 DEF Runs
<1>5. ASSUME NEW v, Placed(v), NEW i \in 2 .. Len(q) + 1, ReadyAt(s, i, v)
      PROVE  ReadyAt(s, i - 1, v)'
  <2>1. Ready(q, i, v, IsThere(v))
    BY <1>5 DEF ReadyAt
  <2>2. Feeds(Head(q), v) => IsThere(v)'
    BY <1>2, <1>3, RunLevel
  <2>3. Apart(Head(q), v) /\ IsThere(v) => IsThere(v)'
    BY <1>2, <1>3, <1>5, RunLevel
  <2> HIDE DEF q
  <2>4. Ready(Tail(q), i - 1, v, IsThere(v)')
    BY <1>3, <1>5, <2>1, <2>2, <2>3, ReadyTail
  <2> QED BY <1>4, <2>4 DEF ReadyAt
<1>6. ASSUME NEW v, Placed(v), NEW r \in Streams \ {s}, NEW i, ReadyAt(r, i, v), Apart(k, v)
      PROVE  ReadyAt(r, i, v)'
  <2>1. IsThere(v) => IsThere(v)'
    BY <1>2, <1>6, RunLevel
  <2>2. queue'[r] = queue[r]
    BY <1>4, <1>6
  <2>3. Ready(queue[r], i, v, IsThere(v)')
    BY <1>6, <2>1 DEF ReadyAt, Ready
  <2> QED BY <2>2, <2>3 DEF ReadyAt
<1> HIDE DEF q
<1>7. QueueChains'
  <2> SUFFICES ASSUME NEW r \in Streams, NEW i \in 1 .. Len(queue'[r])
               PROVE  /\ queue'[r][i].k = "combine" => queue'[r][i].count > 1
                      /\ \A v : WaitsFor(queue'[r][i], v) => ReadyAt(r, i, v)'
    BY DEF QueueChains, WaitsFor, Needs
  <2>1. CASE r = s
    <3>1. i \in 1 .. Len(q) - 1 /\ queue'[r][i] = q[i + 1] /\ i + 1 \in 1 .. Len(q)
          /\ i + 1 \in 2 .. Len(q) + 1 /\ (i + 1) - 1 = i
      BY <1>3, <1>4, <2>1
    <3>2. /\ q[i + 1].k = "combine" => q[i + 1].count > 1
          /\ \A v : WaitsFor(q[i + 1], v) => ReadyAt(s, i + 1, v)
      BY <1>2, <3>1 DEF QueueChains, q
    <3>3. q[i + 1] \in KernelsOn(s)
      BY <1>2, <3>1, KernelsAre DEF q
    <3>4. ASSUME NEW v, WaitsFor(queue'[r][i], v) PROVE ReadyAt(r, i, v)'
      <4>1. Placed(v) /\ ReadyAt(s, i + 1, v)
        BY <1>2, <3>1, <3>2, <3>3, <3>4, WaitedPlaced
      <4>2. ReadyAt(s, (i + 1) - 1, v)'
        BY <1>5, <3>1, <4>1
      <4> QED BY <2>1, <3>1, <4>2
    <3> QED BY <3>1, <3>2, <3>4
  <2>2. CASE r # s
    <3>1. queue'[r] = queue[r]
      BY <1>4, <2>2
    <3>2. queue[r][i] \in KernelsOn(r)
      BY <1>2, <3>1, KernelsAre
    <3>3. ASSUME NEW v, WaitsFor(queue'[r][i], v) PROVE ReadyAt(r, i, v)'
      <4>1. Placed(v) /\ v.h = queue[r][i].h /\ v.b = queue[r][i].b /\ ReadyAt(r, i, v)
        BY <1>2, <3>1, <3>2, <3>3, WaitedPlaced DEF QueueChains
      <4>2. Apart(k, v)
        BY <1>2, <1>3, <2>2, <3>2, <4>1 DEF StreamsApart, Apart
      <4> QED BY <1>6, <2>2, <4>1, <4>2
    <3> QED BY <1>2, <3>1, <3>3 DEF QueueChains
  <2> QED BY <2>1, <2>2
<1>8. CallChains'
  <2> SUFFICES ASSUME NEW u \in Threads, call[u].pc \in {"combine", "tag"}
               PROVE  ReadyAt(call[u].s, Len(queue[call[u].s]) + 1, LevelOfCall(u))'
    BY <1>2, <1>4 DEF CallChains
  <2>1. PICK v : v = LevelOfCall(u)
    OBVIOUS
  <2>2. PICK r : r = call[u].s
    OBVIOUS
  <2>3. LevelOfCall(u)' = v /\ call'[u].s = r
    BY <1>4, <2>1, <2>2 DEF LevelOfCall
  <2>4. r \in Streams /\ Placed(v) /\ ReadyAt(r, Len(queue[r]) + 1, v) /\ v.b = u /\ v.h = call[u].h
        /\ call[u].op \in {"seal", "open"}
    BY <1>2, <2>1, <2>2, CallPlaced, CallHasWorkspace DEF CallChains, LevelOfCall, LevelOf
  <2>5. PICK m : m = Len(queue'[r]) + 1
    OBVIOUS
  <2>6. ReadyAt(r, m, v)'
    <3>1. CASE r = s
      <4>1. PICK i : i = Len(q) + 1
        OBVIOUS
      <4>2. i \in 2 .. Len(q) + 1 /\ m = i - 1
        <5>1. Len(q) \in Nat \ {0} /\ Len(queue'[r]) = Len(q) - 1
          BY <1>3, <1>4, <3>1
        <5> QED BY <2>5, <4>1, <5>1
      <4>3. ReadyAt(s, i, v)
        BY <2>4, <3>1, <4>1 DEF q
      <4>4. ReadyAt(s, i - 1, v)'
        BY <1>5, <2>4, <4>2, <4>3
      <4> QED BY <3>1, <4>2, <4>4
    <3>2. CASE r # s
      <4>1. Apart(k, v) /\ queue'[r] = queue[r]
        BY <1>2, <1>3, <1>4, <2>2, <2>4, <3>2 DEF StreamsApart, Apart
      <4>2. ReadyAt(r, m, v)
        BY <2>4, <2>5, <4>1
      <4> QED BY <1>6, <2>4, <3>2, <4>1, <4>2
    <3> QED BY <3>1, <3>2
  <2>7. Ready(queue'[r], Len(queue'[r]) + 1, v, IsThere(v)')
    BY <2>5, <2>6 DEF ReadyAt
  <2> QED BY <2>3, <2>7 DEF ReadyAt
<1> QED BY <1>7, <1>8


\* What a launched kernel waits for is what its call has launched so far.
LEMMA LaunchedWaits ==
  ASSUME CInv, NEW t \in Threads, LaunchEffect(t), NEW k, k = KernelOf(t)
  PROVE  /\ k.k = "combine" => k.count > 1
         /\ \A v : WaitsFor(k, v) => call[t].pc \in {"combine", "tag"} /\ v = LevelOfCall(t)
<1>1. CallChains /\ TInv
  BY DEF CInv, MInv
<1>2. CASE k.k \notin {"combine", "finalize", "verify"}
  BY <1>2 DEF WaitsFor
<1>3. CASE CombineEffect(t)
  <2>1. call[t].pc = "combine" /\ k = CombineKernel(t)
    BY <1>3 DEF CombineEffect, KernelOf
  <2>2. call[t].count \in Nat
    BY <1>1, FieldsTyped DEF TInv
  <2>3. k.count > 1
    BY <1>1, <2>1, <2>2 DEF CallChains, CombineKernel
  <2> QED BY <2>1, <2>3 DEF WaitsFor, Needs, LevelOf, LevelOfCall, CombineKernel
<1>4. ASSUME NEW name \in {"finalize", "verify"}, k = RootKernel(t, name), call[t].pc = "tag"
      PROVE  /\ k.k # "combine"
             /\ \A v : WaitsFor(k, v) => call[t].pc \in {"combine", "tag"} /\ v = LevelOfCall(t)
  <2>1. call[t].count = 1
    BY <1>1, <1>4 DEF CallChains
  <2> QED BY <1>4, <2>1 DEF WaitsFor, Needs, LevelOf, LevelOfCall, RootKernel
<1>5. CASE FinalizeEffect(t)
  BY <1>4, <1>5 DEF FinalizeEffect, KernelOf
<1>6. CASE VerifyEffect(t)
  BY <1>4, <1>6 DEF VerifyEffect, KernelOf
<1>7. CASE HeaderEffect(t)
  BY <1>2, <1>7 DEF HeaderEffect, KernelOf, HeaderKernel
<1>8. CASE EncryptEffect(t)
  BY <1>2, <1>8 DEF EncryptEffect, KernelOf, EncryptKernel
<1>9. CASE SegmentEffect(t)
  BY <1>2, <1>9 DEF SegmentEffect, KernelOf, SegmentKernel
<1>10. CASE DecryptEffect(t)
  BY <1>2, <1>10 DEF DecryptEffect, KernelOf, DecryptKernel
<1> QED BY <1>3, <1>5, <1>6, <1>7, <1>8, <1>9, <1>10 DEF LaunchEffect

\* A call that goes on with its GHASH has launched what it then waits for.
LEMMA GhashFeeds ==
  ASSUME TInv, NEW t \in Threads, NEW k, Launches(t, k), NEW n \in Nat, NEW in, NEW out,
         NEW count \in Nat \ {0}, GhashEffect(t, in, out, count), call[t].n = n,
         Feeds(k, LevelOf(call[t].h, t, n, in, count)), call'[t].pc \in {"combine", "tag"}
  PROVE  /\ queue'[call[t].s] = Append(queue[call[t].s], k)
         /\ Feeds(k, LevelOfCall(t)') /\ call'[t].s = call[t].s /\ ~ lastErr'[t]
         /\ call'[t].pc = "tag" <=> call'[t].count = 1
         /\ call'[t].count > 0
<1>1. call'[t] # Idle
  BY DEF Idle
<1>2. lastErr'[t] = FALSE /\ Moves(t, IF count > 1 THEN "combine" ELSE "tag", in, out, count)
  BY <1>1 DEF GhashEffect, Returns
<1>3. /\ call'[t].pc = IF count > 1 THEN "combine" ELSE "tag"
      /\ call'[t].h = call[t].h /\ call'[t].n = n /\ call'[t].s = call[t].s
      /\ call'[t].in = in /\ call'[t].count = count
  BY <1>2 DEF Moves
<1>4. LevelOfCall(t)' = LevelOf(call[t].h, t, n, in, count)
  BY <1>3 DEF LevelOfCall, LevelOf
<1>5. queue'[call[t].s] = Append(queue[call[t].s], k)
  BY <1>2 DEF Launches
<1> QED BY <1>2, <1>3, <1>4, <1>5

LEMMA LaunchFeeds ==
  ASSUME CInv, NEW t \in Threads, LaunchEffect(t), NEW k, k = KernelOf(t),
         call'[t].pc \in {"combine", "tag"}
  PROVE  /\ queue'[call[t].s] = Append(queue[call[t].s], k)
         /\ Feeds(k, LevelOfCall(t)') /\ call'[t].s = call[t].s /\ ~ lastErr'[t]
         /\ call'[t].pc = "tag" <=> call'[t].count = 1
         /\ call'[t].count > 0
<1>1. CallChains /\ TInv /\ call[t].n \in Nat /\ call[t].count \in Nat
  BY FieldsTyped DEF CInv, MInv, TInv
<1>2. CASE SegmentEffect(t)
  <2>1. k = SegmentKernel(t) /\ Launches(t, k)
        /\ GhashEffect(t, handle[call[t].h].a, handle[call[t].h].b, required_nodes(call[t].n))
    BY <1>2 DEF SegmentEffect, KernelOf
  <2>2. required_nodes(call[t].n) \in Nat \ {0}
    BY <1>1, NodesNeeded
  <2>3. Feeds(k, LevelOf(call[t].h, t, call[t].n, handle[call[t].h].a,
                         required_nodes(call[t].n)))
    BY <2>1 DEF Feeds, LevelOf, SegmentKernel
  <2> QED BY <1>1, <2>1, <2>2, <2>3, GhashFeeds
<1>3. CASE CombineEffect(t)
  <2>1. k = CombineKernel(t) /\ Launches(t, k) /\ call[t].pc = "combine"
        /\ GhashEffect(t, call[t].out, call[t].in, halved(call[t].count))
    BY <1>3 DEF CombineEffect, KernelOf
  <2>2. call[t].count > 0
    BY <1>1, <2>1 DEF CallChains
  <2>3. halved(call[t].count) \in Nat \ {0}
    BY <1>1, <2>2 DEF halved
  <2>4. Feeds(k, LevelOf(call[t].h, t, call[t].n, call[t].out, halved(call[t].count)))
    BY <2>1 DEF Feeds, LevelOf, CombineKernel
  <2> QED BY <1>1, <2>1, <2>3, <2>4, GhashFeeds
<1>4. ASSUME NEW pc, NEW in, NEW out, NEW count, Moves(t, pc, in, out, count)
      PROVE  call'[t].pc = pc
  BY <1>4, MovesKeep
<1>5. ASSUME NEW rc, Returns(t, rc) PROVE FALSE
  BY <1>5 DEF Returns, Idle
<1>6. ~ PeekReturns(t)
  BY <1>5 DEF PeekReturns
<1>7. ~ HeaderEffect(t) /\ ~ EncryptEffect(t)
  BY <1>4 DEF HeaderEffect, EncryptEffect
<1>8. ~ FinalizeEffect(t) /\ ~ VerifyEffect(t) /\ ~ DecryptEffect(t)
  BY <1>4, <1>6 DEF FinalizeEffect, VerifyEffect, DecryptEffect
<1> QED BY <1>2, <1>3, <1>7, <1>8 DEF LaunchEffect

LEMMA SameThere ==
  ASSUME UNCHANGED <<handle, mem, buf>>
  PROVE  \A v : IsThere(v) <=> IsThere(v)'
BY DEF IsThere, Level, load, ciphertext


LEMMA LaunchChains ==
  ASSUME CInv, NEW t \in Threads, LaunchEffect(t)
  PROVE  QueueChains' /\ CallChains'
<1>1. PICK k : k = KernelOf(t)
  OBVIOUS
<1>2. PICK s : s = call[t].s
  OBVIOUS
<1>3. LaunchFrame(t, k) /\ MInv /\ TInv /\ QueueChains /\ CallChains
  BY <1>1, LaunchFrames DEF CInv, MInv
<1>4. /\ k \in Kernels /\ k.b = t /\ k.h = call[t].h /\ s \in Streams /\ Others(t)
      /\ call[t].pc # "idle"
      /\ \A v : IsThere(v) <=> IsThere(v)'
      /\ \/ queue'[s] = Append(queue[s], k) /\ \A r \in Streams \ {s} : queue'[r] = queue[r]
         \/ queue' = queue
  BY <1>2, <1>3, SameThere DEF LaunchFrame, Launches, Launching
<1>5. \A r \in Streams : queue[r] \in Seq(Kernels)
  BY <1>3, KernelsAre
<1>6. ASSUME NEW r \in Streams, NEW v, NEW i \in 1 .. Len(queue[r]) + 1, ReadyAt(r, i, v)
      PROVE  ReadyAt(r, i, v)'
  <2>1. Ready(queue[r], i, v, IsThere(v)')
    BY <1>4, <1>6 DEF ReadyAt, Ready
  <2>2. CASE queue'[r] = queue[r]
    BY <2>1, <2>2 DEF ReadyAt
  <2>3. CASE queue'[r] = Append(queue[r], k)
    <3>1. Ready(Append(queue[r], k), i, v, IsThere(v)')
      BY <1>4, <1>5, <1>6, <2>1, ReadyAppend
    <3> QED BY <2>3, <3>1 DEF ReadyAt
  <2> QED BY <1>4, <2>2, <2>3
<1>7. QueueChains'
  <2> SUFFICES ASSUME NEW r \in Streams, NEW i \in 1 .. Len(queue'[r])
               PROVE  /\ queue'[r][i].k = "combine" => queue'[r][i].count > 1
                      /\ \A v : WaitsFor(queue'[r][i], v) => ReadyAt(r, i, v)'
    BY DEF QueueChains, WaitsFor, Needs
  <2>1. ASSUME i \in 1 .. Len(queue[r]), queue'[r][i] = queue[r][i]
        PROVE  /\ queue'[r][i].k = "combine" => queue'[r][i].count > 1
               /\ \A v : WaitsFor(queue'[r][i], v) => ReadyAt(r, i, v)'
    <3>1. i \in 1 .. Len(queue[r]) + 1
      BY <1>5, <2>1
    <3>2. \A v : WaitsFor(queue[r][i], v) => ReadyAt(r, i, v)
      BY <1>3, <2>1 DEF QueueChains
    <3>3. \A v : WaitsFor(queue[r][i], v) => ReadyAt(r, i, v)'
      BY <1>6, <3>1, <3>2
    <3> QED BY <1>3, <2>1, <3>3 DEF QueueChains
  <2>2. CASE queue'[r] = queue[r]
    BY <2>1, <2>2
  <2>3. CASE r = s /\ queue'[s] = Append(queue[s], k)
    <3>1. /\ i \in 1 .. Len(queue[r]) => queue'[r][i] = queue[r][i]
          /\ i \notin 1 .. Len(queue[r]) => i = Len(queue[r]) + 1 /\ queue'[r][i] = k
      BY <1>4, <1>5, <2>3
    <3>2. CASE i \notin 1 .. Len(queue[r])
      <4>1. /\ k.k = "combine" => k.count > 1
            /\ \A v : WaitsFor(k, v) => call[t].pc \in {"combine", "tag"} /\ v = LevelOfCall(t)
        BY <1>1, LaunchedWaits
      <4>2. \A v : WaitsFor(k, v) => ReadyAt(r, i, v)
        BY <1>2, <1>3, <2>3, <3>1, <3>2, <4>1 DEF CallChains
      <4>3. i \in 1 .. Len(queue[r]) + 1
        BY <1>5, <3>1, <3>2
      <4>4. \A v : WaitsFor(k, v) => ReadyAt(r, i, v)'
        BY <1>6, <4>2, <4>3
      <4> QED BY <3>1, <3>2, <4>1, <4>4
    <3> QED BY <2>1, <3>1, <3>2
  <2> QED BY <1>4, <2>2, <2>3
<1>8. CallChains'
  <2> SUFFICES ASSUME NEW u \in Threads, call'[u].pc \in {"combine", "tag"}
               PROVE  /\ ReadyAt(call[u].s, Len(queue[call[u].s]) + 1, LevelOfCall(u))'
                      /\ call'[u].pc = "tag" <=> call'[u].count = 1
                      /\ call'[u].count > 0
                      /\ ~ lastErr'[u]
    BY DEF CallChains
  <2>1. CASE u = t
    <3>1. /\ queue'[s] = Append(queue[s], k) /\ Feeds(k, LevelOfCall(t)') /\ call'[t].s = s
          /\ ~ lastErr'[t] /\ (call'[t].pc = "tag" <=> call'[t].count = 1) /\ call'[t].count > 0
      BY <1>1, <1>2, <2>1, LaunchFeeds
    <3>2. PICK v : v = LevelOfCall(t)'
      OBVIOUS
    <3>3. Len(queue'[s]) + 1 = Len(queue[s]) + 2
      BY <1>4, <1>5, <3>1
    <3>4. Ready(queue'[s], Len(queue'[s]) + 1, v, IsThere(v)')
      <4>1. Ready(Append(queue[s], k), Len(queue[s]) + 2, v, IsThere(v)')
        BY <1>4, <1>5, <3>1, <3>2, ReadyFed
      <4> QED BY <3>1, <3>3, <4>1
    <3> QED BY <2>1, <3>1, <3>2, <3>4 DEF ReadyAt
  <2>2. CASE u # t
    <3>1. call'[u] = call[u] /\ lastErr'[u] = lastErr[u]
      BY <1>4, <2>2 DEF Others
    <3>2. PICK v : v = LevelOfCall(u)
      OBVIOUS
    <3>3. PICK r : r = call[u].s
      OBVIOUS
    <3>4. r \in Streams /\ ReadyAt(r, Len(queue[r]) + 1, v) /\ v.b = u /\ v.h = call[u].h
          /\ v = LevelOfCall(u)' /\ call[u].pc # "idle"
      BY <1>3, <3>1, <3>2, <3>3, CallHasWorkspace DEF CallChains, LevelOfCall, LevelOf
    <3>5. Ready(queue'[r], Len(queue'[r]) + 1, v, IsThere(v)')
      <4>1. Ready(queue[r], Len(queue[r]) + 1, v, IsThere(v)')
        BY <1>4, <3>4 DEF ReadyAt, Ready
      <4>2. CASE queue'[r] = queue[r]
        BY <4>1, <4>2
      <4>3. CASE queue'[r] = Append(queue[r], k)
        <5>1. Apart(k, v)
          BY <1>3, <1>4, <2>2, <3>4 DEF Apart, MInv, OneCall
        <5>2. Ready(Append(queue[r], k), Len(queue[r]) + 2, v, IsThere(v)')
          BY <1>4, <1>5, <3>4, <4>1, <5>1, ReadyGrows
        <5>3. Len(queue'[r]) + 1 = Len(queue[r]) + 2
          BY <1>5, <3>4, <4>3
        <5> QED BY <4>3, <5>2, <5>3
      <4> QED BY <1>4, <3>4, <4>2, <4>3
    <3> QED BY <1>3, <3>1, <3>3, <3>4, <3>5 DEF CallChains, ReadyAt
  <2> QED BY <2>1, <2>2
<1> QED BY <1>7, <1>8

LEMMA StillChains ==
  ASSUME CInv, NEW t \in Threads, StillEffect(t)
  PROVE  QueueChains' /\ CallChains'
<1>1. MInv /\ TInv /\ QueueChains /\ CallChains /\ StillFrame(t)
  BY StillFrames DEF CInv, MInv
<1>2. /\ queue' = queue /\ Others(t) /\ call'[t].pc \notin {"combine", "tag"}
      /\ View(t)' = View(t) \/ BufferQuiet(t)
  BY <1>1 DEF StillFrame, Rewritten
<1>3. ASSUME NEW v, Placed(v), InUse(t, v.h), buf'[v.b].ct = buf[v.b].ct,
             NEW r \in Streams, NEW i, ReadyAt(r, i, v)
      PROVE  ReadyAt(r, i, v)'
  <2>1. IsThere(v) => IsThere(v)'
    BY <1>1, <1>3, StillLevel DEF Placed
  <2>2. Ready(queue[r], i, v, IsThere(v)')
    BY <1>3, <2>1 DEF ReadyAt, Ready
  <2> QED BY <1>2, <2>2 DEF ReadyAt
<1>4. QueueChains'
  <2> SUFFICES ASSUME NEW r \in Streams, NEW i \in 1 .. Len(queue[r]), NEW v,
                      WaitsFor(queue[r][i], v)
               PROVE  ReadyAt(r, i, v)'
    BY <1>1, <1>2 DEF QueueChains, WaitsFor, Needs
  <2>1. queue[r][i] \in KernelsOn(r)
    BY <1>1, KernelsAre
  <2>2. Placed(v) /\ v.h = queue[r][i].h /\ v.b = queue[r][i].b /\ ReadyAt(r, i, v)
    BY <1>1, <2>1, WaitedPlaced DEF QueueChains
  <2>3. InUse(t, v.h)
    BY <2>1, <2>2 DEF InUse
  <2>4. buf'[v.b].ct = buf[v.b].ct
    <3>1. CASE v.b = t
      <4>1. ~ BufferQuiet(t)
        BY <2>1, <2>2, <3>1 DEF BufferQuiet
      <4> QED BY <1>2, <3>1, <4>1 DEF View
    <3>2. CASE v.b # t
      BY <1>2, <2>2, <3>2 DEF Others, Placed
    <3> QED BY <3>1, <3>2
  <2> QED BY <1>3, <2>2, <2>3, <2>4
<1>5. CallChains'
  <2> SUFFICES ASSUME NEW u \in Threads, call'[u].pc \in {"combine", "tag"}
               PROVE  /\ ReadyAt(call[u].s, Len(queue[call[u].s]) + 1, LevelOfCall(u))'
                      /\ call'[u].pc = "tag" <=> call'[u].count = 1
                      /\ call'[u].count > 0
                      /\ ~ lastErr'[u]
    BY DEF CallChains
  <2>1. u # t /\ call'[u] = call[u] /\ lastErr'[u] = lastErr[u] /\ buf'[u] = buf[u]
    BY <1>2 DEF Others
  <2>2. PICK v : v = LevelOfCall(u)
    OBVIOUS
  <2>3. PICK r : r = call[u].s
    OBVIOUS
  <2>4. PICK i : i = Len(queue[r]) + 1
    OBVIOUS
  <2>5. r \in Streams /\ ReadyAt(r, i, v) /\ v.b = u /\ v.h = call[u].h /\ v = LevelOfCall(u)'
        /\ Placed(v)
    BY <1>1, <2>1, <2>2, <2>3, <2>4, CallPlaced, CallHasWorkspace
       DEF CallChains, LevelOfCall, LevelOf
  <2>6. InUse(t, v.h)
    BY <2>1, <2>5 DEF InUse
  <2>7. ReadyAt(r, i, v)'
    BY <1>3, <2>1, <2>5, <2>6
  <2> QED BY <1>1, <1>2, <2>1, <2>3, <2>4, <2>5, <2>7 DEF CallChains, ReadyAt
<1> QED BY <1>4, <1>5


LEMMA InitChains == Init => CInv
<1> SUFFICES ASSUME Init PROVE CInv
  OBVIOUS
<1>1. \A s \in Streams : queue[s] = <<>>
  BY DEF Init
<1>2. \A s \in Streams : KernelsOn(s) = {}
  BY <1>1 DEF KernelsOn
<1>3. \A s \in Streams : 1 .. Len(queue[s]) = {}
  BY <1>1
<1>4. \A t \in Threads : call[t] = Idle
  BY DEF Init
<1> QED BY <1>2, <1>3, <1>4, InitMemory DEF CInv, StreamsApart, QueueChains, CallChains, Idle

LEMMA NextChains == ASSUME SerialCalls, CInv, Next PROVE CInv'
<1>1. MInv' /\ TInv /\ MInv /\ StreamsApart
  BY NextMemory DEF CInv, MInv
<1>2. ASSUME NEW t \in Threads, LaunchEffect(t) PROVE CInv'
  BY <1>1, <1>2, LaunchChains, LaunchFrames, LaunchApart DEF CInv
<1>3. ASSUME NEW t \in Threads, StillEffect(t) PROVE CInv'
  BY <1>1, <1>3, StillChains, StillFrames, StillApart DEF CInv
<1>4. ASSUME NEW s \in Streams, DeviceEffect(s) PROVE CInv'
  BY <1>1, <1>4, DeviceChains, RunApart DEF CInv
<1> QED BY <1>1, <1>2, <1>3, <1>4, StepIs

\* The tag kernels find the root of the hash of their call's ciphertext.
LEMMA RootRight ==
  ASSUME CInv, NEW s \in Streams, NEW k, Runs(s, k), k.k \in {"finalize", "verify"}
  PROVE  load(k.in, 0) = Root(handle[k.h].h_pow2, ciphertext(k.b, k.n), k.n)
<1>1. TInv /\ QueueChains /\ k \in Kernels /\ k.n \in Nat
  BY HeadKernel, KernelFields DEF CInv, MInv
<1>2. WaitsFor(k, Needs(k, 1))
  BY DEF WaitsFor
<1>3. IsThere(Needs(k, 1))
  BY <1>1, <1>2, HeadFinds
<1>4. Level(k.in, 1, k.h, k.b, k.n)
  BY <1>3 DEF IsThere, Needs, LevelOf
<1> QED BY <1>1, <1>4, LevelOne


-----------------------------------------------------------------------------
(* The device data of a buffer, and what each kernel makes of it.          *)

Ct(x, n) == IF n = 0 THEN NoCt ELSE x.ct
FrameIn(x, n) == [ver |-> x.ver, iv |-> x.iv, ct |-> Ct(x, n), tag |-> x.tag]

\* The powers of H in the handles.
Powers == [h \in Handles |-> handle[h].h_pow2]

Accepts(k, x, H) ==
  x.ver = 1 /\ SameTag(x.tag, Tag(k.h, x.iv, Root(H[k.h], Ct(x, k.n), k.n)))

After(k, x, H) ==
  [ver |-> IF k.k = "header" THEN 1 ELSE x.ver,
   iv |-> IF k.k = "header" THEN k.iv ELSE x.iv,
   ct |-> IF k.k = "encrypt" THEN [key |-> k.h, iv |-> x.iv, pt |-> k.pt] ELSE x.ct,
   tag |-> IF k.k = "finalize"
           THEN Tag(k.h, x.iv, Root(H[k.h], Ct(x, k.n), k.n))
           ELSE x.tag,
   auth |-> IF k.k = "verify" THEN (IF Accepts(k, x, H) THEN 1 ELSE 0) ELSE x.auth,
   plain |-> IF k.k = "decrypt"
             THEN (IF x.auth = 0 THEN Zeroed ELSE Decrypted(k.h, FrameIn(x, k.n), k.n))
             ELSE x.plain]

LEMMA ViewIs ==
  ASSUME NEW b, NEW n
  PROVE  FrameOf(b, n) = FrameIn(View(b), n) /\ ciphertext(b, n) = Ct(View(b), n)
BY DEF FrameOf, FrameIn, View, Ct, ciphertext

LEMMA HeaderView ==
  ASSUME TInv, NEW k \in Kernels, k.k = "header", NEW H,
         buf' = [buf EXCEPT ![k.b].ver = 1, ![k.b].iv = k.iv]
  PROVE  View(k.b)' = After(k, View(k.b), H)
<1>1. k.b \in Threads /\ buf \in [Threads -> BufT] /\ buf[k.b] \in BufT
  BY KernelFields, ArraysTyped DEF TInv
<1> DEFINE r == [buf[k.b] EXCEPT !.ver = 1]
           f == [buf EXCEPT ![k.b] = r]
           r2 == [r EXCEPT !.iv = k.iv]
<1>2. f \in [Threads -> BufT] /\ f[k.b] = r /\ r \in BufT
  BY <1>1, BufferUpdates DEF TInv
<1>3. buf' = [f EXCEPT ![k.b].iv = k.iv]
  OBVIOUS
<1>4. buf' = [f EXCEPT ![k.b] = r2]
  BY <1>2, <1>3
<1>5. /\ r.ver = 1 /\ r.ct = buf[k.b].ct /\ r.tag = buf[k.b].tag /\ r.auth = buf[k.b].auth
      /\ r.plain = buf[k.b].plain
  BY <1>1 DEF BufT
<1>6. /\ r2.ver = 1 /\ r2.iv = k.iv /\ r2.ct = buf[k.b].ct /\ r2.tag = buf[k.b].tag
      /\ r2.auth = buf[k.b].auth /\ r2.plain = buf[k.b].plain
  <2> HIDE DEF r
  <2> QED BY <1>2, <1>5 DEF BufT
<1>7. buf'[k.b] = r2
  <2> HIDE DEF f, r2
  <2> QED BY <1>1, <1>2, <1>4
<1> HIDE DEF r2
<1> QED BY <1>6, <1>7 DEF View, After

\* What a kernel that writes one field leaves.
LEMMA FieldViews ==
  ASSUME TInv, NEW b \in Threads, NEW x
  PROVE  /\ buf' = [buf EXCEPT ![b] = [buf[b] EXCEPT !.ct = x]] =>
              View(b)' = [ver |-> buf[b].ver, iv |-> buf[b].iv, ct |-> x, tag |-> buf[b].tag,
                          auth |-> buf[b].auth, plain |-> buf[b].plain]
         /\ buf' = [buf EXCEPT ![b] = [buf[b] EXCEPT !.tag = x]] =>
              View(b)' = [ver |-> buf[b].ver, iv |-> buf[b].iv, ct |-> buf[b].ct, tag |-> x,
                          auth |-> buf[b].auth, plain |-> buf[b].plain]
         /\ buf' = [buf EXCEPT ![b] = [buf[b] EXCEPT !.auth = x]] =>
              View(b)' = [ver |-> buf[b].ver, iv |-> buf[b].iv, ct |-> buf[b].ct,
                          tag |-> buf[b].tag, auth |-> x, plain |-> buf[b].plain]
         /\ buf' = [buf EXCEPT ![b] = [buf[b] EXCEPT !.plain = x]] =>
              View(b)' = [ver |-> buf[b].ver, iv |-> buf[b].iv, ct |-> buf[b].ct,
                          tag |-> buf[b].tag, auth |-> buf[b].auth, plain |-> x]
<1>1. buf \in [Threads -> BufT] /\ buf[b] \in BufT
  BY ArraysTyped DEF TInv
<1>2. ASSUME NEW r, buf' = [buf EXCEPT ![b] = r] PROVE buf'[b] = r
  BY <1>1, <1>2
<1>3. ASSUME buf' = [buf EXCEPT ![b] = [buf[b] EXCEPT !.ct = x]]
      PROVE  View(b)' = [ver |-> buf[b].ver, iv |-> buf[b].iv, ct |-> x, tag |-> buf[b].tag,
                         auth |-> buf[b].auth, plain |-> buf[b].plain]
  <2> DEFINE r == [buf[b] EXCEPT !.ct = x]
  <2>1. buf'[b] = r
    BY <1>2, <1>3
  <2>2. /\ r.ver = buf[b].ver /\ r.iv = buf[b].iv /\ r.ct = x /\ r.tag = buf[b].tag
        /\ r.auth = buf[b].auth /\ r.plain = buf[b].plain
    BY <1>1 DEF BufT
  <2> HIDE DEF r
  <2> QED BY <2>1, <2>2 DEF View
<1>4. ASSUME buf' = [buf EXCEPT ![b] = [buf[b] EXCEPT !.tag = x]]
      PROVE  View(b)' = [ver |-> buf[b].ver, iv |-> buf[b].iv, ct |-> buf[b].ct, tag |-> x,
                         auth |-> buf[b].auth, plain |-> buf[b].plain]
  <2> DEFINE r == [buf[b] EXCEPT !.tag = x]
  <2>1. buf'[b] = r
    BY <1>2, <1>4
  <2>2. /\ r.ver = buf[b].ver /\ r.iv = buf[b].iv /\ r.ct = buf[b].ct /\ r.tag = x
        /\ r.auth = buf[b].auth /\ r.plain = buf[b].plain
    BY <1>1 DEF BufT
  <2> HIDE DEF r
  <2> QED BY <2>1, <2>2 DEF View
<1>5. ASSUME buf' = [buf EXCEPT ![b] = [buf[b] EXCEPT !.auth = x]]
      PROVE  View(b)' = [ver |-> buf[b].ver, iv |-> buf[b].iv, ct |-> buf[b].ct,
                         tag |-> buf[b].tag, auth |-> x, plain |-> buf[b].plain]
  <2> DEFINE r == [buf[b] EXCEPT !.auth = x]
  <2>1. buf'[b] = r
    BY <1>2, <1>5
  <2>2. /\ r.ver = buf[b].ver /\ r.iv = buf[b].iv /\ r.ct = buf[b].ct /\ r.tag = buf[b].tag
        /\ r.auth = x /\ r.plain = buf[b].plain
    BY <1>1 DEF BufT
  <2> HIDE DEF r
  <2> QED BY <2>1, <2>2 DEF View
<1>6. ASSUME buf' = [buf EXCEPT ![b] = [buf[b] EXCEPT !.plain = x]]
      PROVE  View(b)' = [ver |-> buf[b].ver, iv |-> buf[b].iv, ct |-> buf[b].ct,
                         tag |-> buf[b].tag, auth |-> buf[b].auth, plain |-> x]
  <2> DEFINE r == [buf[b] EXCEPT !.plain = x]
  <2>1. buf'[b] = r
    BY <1>2, <1>6
  <2>2. /\ r.ver = buf[b].ver /\ r.iv = buf[b].iv /\ r.ct = buf[b].ct /\ r.tag = buf[b].tag
        /\ r.auth = buf[b].auth /\ r.plain = x
    BY <1>1 DEF BufT
  <2> HIDE DEF r
  <2> QED BY <2>1, <2>2 DEF View
<1> QED BY <1>3, <1>4, <1>5, <1>6

\* The run of a kernel, whose hash is that of its call, is After.
LEMMA RunView ==
  ASSUME CInv, NEW s \in Streams, NEW k, Runs(s, k), RunEffect(s, k)
  PROVE  /\ View(k.b)' = After(k, View(k.b), Powers)
         /\ \A b \in Threads \ {k.b} : buf'[b] = buf[b]
<1> DEFINE b == k.b
           x == View(b)
           hk == handle[k.h].h_pow2
           root == Root(hk, Ct(x, k.n), k.n)
<1>1. TInv /\ k \in Kernels /\ b \in Threads /\ k.h \in Handles /\ Powers[k.h] = hk
  BY HeadKernel DEF CInv, MInv, Powers
<1>2. \A c \in Threads \ {k.b} : buf'[c] = buf[c]
  BY <1>1, RunWritesIV
<1>3. k.k \in {"finalize", "verify"} => load(k.in, 0) = root /\ k.n \in Nat
  <2> SUFFICES ASSUME k.k \in {"finalize", "verify"}
               PROVE  load(k.in, 0) = root /\ k.n \in Nat
    OBVIOUS
  <2>1. load(k.in, 0) = Root(hk, ciphertext(b, k.n), k.n)
    BY RootRight
  <2> QED BY <1>1, <2>1, ViewIs, KernelFields
<1>4. /\ x.ver = buf[b].ver /\ x.iv = buf[b].iv /\ x.ct = buf[b].ct /\ x.tag = buf[b].tag
      /\ x.auth = buf[b].auth /\ x.plain = buf[b].plain
  BY DEF View
<1>5. CASE k.k = "header"
  BY <1>1, <1>2, <1>5, HeaderView DEF RunEffect
<1>6. CASE k.k = "encrypt"
  <2>1. buf' = [buf EXCEPT ![b] = [buf[b] EXCEPT !.ct = EncryptedCt(k)]]
    BY <1>6 DEF RunEffect
  <2>2. View(b)' = [ver |-> x.ver, iv |-> x.iv, ct |-> EncryptedCt(k), tag |-> x.tag,
                    auth |-> x.auth, plain |-> x.plain]
    BY <1>1, <1>4, <2>1, FieldViews
  <2> QED BY <1>2, <1>4, <1>6, <2>2 DEF After, EncryptedCt
<1>7. CASE k.k \in {"segment", "combine"}
  <2>1. buf' = buf
    BY <1>7 DEF RunEffect, Stores
  <2>2. View(b)' = x
    BY <2>1 DEF View
  <2>3. x = After(k, x, Powers)
    BY <1>7 DEF View, After
  <2> QED BY <1>2, <2>2, <2>3
<1>8. CASE k.k = "finalize"
  <2>1. buf' = [buf EXCEPT ![b] = [buf[b] EXCEPT !.tag = Tag(k.h, buf[b].iv, load(k.in, 0))]]
    BY <1>8 DEF RunEffect, Writes
  <2>2. View(b)' = [ver |-> x.ver, iv |-> x.iv, ct |-> x.ct, tag |-> Tag(k.h, x.iv, root),
                    auth |-> x.auth, plain |-> x.plain]
    BY <1>1, <1>3, <1>4, <1>8, <2>1, FieldViews
  <2> QED BY <1>1, <1>2, <1>8, <2>2 DEF After
<1>9. CASE k.k = "verify"
  <2> DEFINE auth == IF buf[b].ver = 1 /\ RootMatches(k) THEN 1 ELSE 0
  <2>1. buf' = [buf EXCEPT ![b] = [buf[b] EXCEPT !.auth = auth]]
    BY <1>9 DEF RunEffect, Writes
  <2>2. View(b)' = [ver |-> x.ver, iv |-> x.iv, ct |-> x.ct, tag |-> x.tag,
                    auth |-> auth, plain |-> x.plain]
    BY <1>1, <1>4, <2>1, FieldViews
  <2>4. RootMatches(k) <=> SameTag(x.tag, Tag(k.h, x.iv, root))
    BY <1>3, <1>4, <1>9 DEF RootMatches
  <2>5. auth = IF Accepts(k, x, Powers) THEN 1 ELSE 0
    BY <1>1, <1>4, <2>4 DEF Accepts
  <2> HIDE DEF auth
  <2> QED BY <1>2, <1>9, <2>2, <2>5 DEF After
<1>10. CASE k.k = "decrypt"
  <2> DEFINE p == IF buf[b].auth = 0 THEN Zeroed ELSE Decrypted(k.h, FrameOf(b, k.n), k.n)
  <2>1. buf' = [buf EXCEPT ![b] = [buf[b] EXCEPT !.plain = p]]
    BY <1>10 DEF RunEffect, Writes
  <2>2. View(b)' = [ver |-> x.ver, iv |-> x.iv, ct |-> x.ct, tag |-> x.tag,
                    auth |-> x.auth, plain |-> p]
    BY <1>1, <1>4, <2>1, FieldViews
  <2>3. p = IF x.auth = 0 THEN Zeroed ELSE Decrypted(k.h, FrameIn(x, k.n), k.n)
    BY <1>4, ViewIs
  <2> HIDE DEF p
  <2> QED BY <1>2, <1>10, <2>2, <2>3 DEF After
<1> QED BY <1>1, <1>5, <1>6, <1>7, <1>8, <1>9, <1>10, KernelFields


-----------------------------------------------------------------------------
(* Keys, lengths and results.                                              *)

\* The powers of a handle are those of its key, or undefined; where that is
\* seen, every thread knows of an error.
KeysOf ==
  /\ \A h \in Handles : handle[h].h_pow2 \in {h, None, Zeros}
  /\ InitSeen => \A h \in Handles : handle[h].state = "live" =>
       handle[h].h_pow2 = h \/ \A t \in Threads : lastErr[t]

LengthsKnown ==
  \A t \in Threads : /\ buf[t].n \in Lens \cup {0}
                     /\ call[t].op = "seal" => call[t].n \in Lens
                     /\ call[t].op = "open" => call[t].n \in Lens \cup {0}

DoneCleared == \A t \in Threads : call[t].op \in {"seal", "open"} => done[t] = Nothing

LEMMA ErrorsStay ==
  ASSUME TInv, Next
  PROVE  \A t \in Threads : lastErr[t] => lastErr'[t]
<1>1. ASSUME NEW t \in Threads, NEW k, LaunchFrame(t, k)
      PROVE  \A u \in Threads : lastErr[u] => lastErr'[u]
  BY <1>1 DEF LaunchFrame, Others
<1>2. ASSUME NEW t \in Threads, StillFrame(t)
      PROVE  \A u \in Threads : lastErr[u] => lastErr'[u]
  BY <1>2 DEF StillFrame, Others
<1>3. ASSUME NEW s \in Streams, DeviceEffect(s)
      PROVE  \A u \in Threads : lastErr[u] => lastErr'[u]
  BY <1>3 DEF DeviceEffect, Runs
<1> QED BY <1>1, <1>2, <1>3, StepIs, LaunchFrames, StillFrames

LEMMA NextKeys ==
  ASSUME TInv, KeysOf, Next
  PROVE  KeysOf'
<1>1. \A t \in Threads : lastErr[t] => lastErr'[t]
  BY ErrorsStay
<1>2. ASSUME \A h \in Handles : handle'[h].h_pow2 = handle[h].h_pow2
                                /\ handle'[h].state = handle[h].state
      PROVE  KeysOf'
  BY <1>1, <1>2 DEF KeysOf
<1>3. ASSUME handle' = handle PROVE KeysOf'
  BY <1>2, <1>3
<1>4. ASSUME NEW t \in Threads, LaunchEffect(t) PROVE KeysOf'
  BY <1>3, <1>4, LaunchFrames DEF LaunchFrame
<1>5. ASSUME NEW s \in Streams, DeviceEffect(s) PROVE KeysOf'
  BY <1>3, <1>5 DEF DeviceEffect, Runs
<1>6. ASSUME NEW t \in Threads, StillEffect(t) PROVE KeysOf'
  <2>1. CASE FreeBEffect(t)
    <3>1. PICK h \in Handles : \E x, y, z : Rebuilt(h, x, y, z)
      BY <2>1 DEF FreeBEffect
    <3> QED BY <1>2, <3>1 DEF Rebuilt
  <2>2. ASSUME NEW h \in Handles, CreateEffect(t, h) PROVE KeysOf'
    <3>1. \A g \in Handles \ {h} : handle'[g] = handle[g]
      BY <2>2 DEF CreateEffect
    <3>2. handle'[h].h_pow2 \in {h, None, Zeros}
      BY <2>2 DEF CreateEffect, KeysOf
    <3>3. ASSUME InitSeen, handle'[h].state = "live"
          PROVE  handle'[h].h_pow2 = h \/ \A u \in Threads : lastErr'[u]
      BY <1>1, <2>2, <3>3 DEF CreateEffect, KeysOf, InitSeen
    <3>4. ASSUME InitSeen, NEW g \in Handles \ {h}, handle'[g].state = "live"
          PROVE  handle'[g].h_pow2 = g \/ \A u \in Threads : lastErr'[u]
      BY <1>1, <3>1, <3>4 DEF KeysOf
    <3> QED BY <3>1, <3>2, <3>3, <3>4 DEF KeysOf
  <2>3. ASSUME NEW h \in Handles, DestroyEffect(t, h) PROVE KeysOf'
    <3>1. /\ \A g \in Handles \ {h} : handle'[g] = handle[g]
          /\ handle'[h].h_pow2 = None /\ handle'[h].state # "live"
      BY <2>3 DEF DestroyEffect, Gone
    <3> QED BY <1>1, <3>1 DEF KeysOf
  <2> QED BY <1>3, <1>6, <2>1, <2>2, <2>3
          DEF StillEffect, EnsureEffect, MallocBEffect, UndoEffect, FreeAEffect, ClientEffect,
              ClientWrites, ReserveEffect, OpenEffect, SealEffect
<1> QED BY <1>4, <1>5, <1>6, StepIs

LEMMA NextDone ==
  ASSUME TInv, DoneCleared, Next
  PROVE  DoneCleared'
<1>1. ASSUME NEW t \in Threads, Others(t),
             \/ call'[t] = Idle
             \/ call'[t].op = "reserve"
             \/ Continued(t) /\ done'[t] = done[t]
             \/ Begun(t)
      PROVE  DoneCleared'
  BY <1>1 DEF DoneCleared, Others, Continued, Begun, Idle
<1>2. ASSUME NEW t \in Threads, NEW k, LaunchFrame(t, k) PROVE DoneCleared'
  BY <1>1, <1>2 DEF LaunchFrame
<1>3. ASSUME NEW t \in Threads, StillFrame(t) PROVE DoneCleared'
  BY <1>1, <1>3 DEF StillFrame
<1>4. ASSUME NEW s \in Streams, DeviceEffect(s) PROVE DoneCleared'
  BY <1>4 DEF DeviceEffect, Runs, DoneCleared
<1> QED BY <1>2, <1>3, <1>4, StepIs, LaunchFrames, StillFrames

\* No kernel writes the length.
LEMMA RunLength ==
  ASSUME TInv, NEW s \in Streams, NEW k \in Kernels, RunEffect(s, k)
  PROVE  \A b \in Threads : buf'[b].n = buf[b].n
<1>1. k.b \in Threads /\ buf \in [Threads -> BufT] /\ buf[k.b] \in BufT
  BY KernelFields, ArraysTyped DEF TInv
<1>2. ASSUME NEW r, buf' = [buf EXCEPT ![k.b] = r], r.n = buf[k.b].n
      PROVE  \A b \in Threads : buf'[b].n = buf[b].n
  <2>1. buf'[k.b] = r /\ \A b \in Threads \ {k.b} : buf'[b] = buf[b]
    BY <1>1, <1>2
  <2> QED BY <1>2, <2>1
<1>3. \A x : /\ [buf[k.b] EXCEPT !.ct = x].n = buf[k.b].n
             /\ [buf[k.b] EXCEPT !.tag = x].n = buf[k.b].n
             /\ [buf[k.b] EXCEPT !.auth = x].n = buf[k.b].n
             /\ [buf[k.b] EXCEPT !.plain = x].n = buf[k.b].n
  BY <1>1 DEF BufT
<1>4. CASE k.k = "header"
  <2> DEFINE r == [buf[k.b] EXCEPT !.ver = 1]
             f == [buf EXCEPT ![k.b] = r]
             r2 == [r EXCEPT !.iv = k.iv]
  <2>1. f \in [Threads -> BufT] /\ f[k.b] = r /\ r \in BufT
        /\ \A b \in Threads \ {k.b} : f[b] = buf[b]
    BY <1>1, BufferUpdates DEF TInv
  <2>2. buf' = [f EXCEPT ![k.b].iv = k.iv]
    BY <1>4 DEF RunEffect
  <2>3. buf' = [f EXCEPT ![k.b] = r2]
    BY <2>1, <2>2
  <2>4. r.n = buf[k.b].n
    BY <1>1 DEF BufT
  <2>5. r2.n = buf[k.b].n
    <3> HIDE DEF r
    <3> QED BY <2>1, <2>4 DEF BufT
  <2>6. buf'[k.b] = r2 /\ \A b \in Threads \ {k.b} : buf'[b] = buf[b]
    <3> HIDE DEF f, r2
    <3> QED BY <1>1, <2>1, <2>3
  <2> HIDE DEF r2
  <2> QED BY <2>5, <2>6
<1>5. CASE buf' = buf
  BY <1>5
<1> QED BY <1>2, <1>3, <1>4, <1>5 DEF RunEffect, Writes, Stores

LEMMA NextLengths ==
  ASSUME TInv, LengthsKnown, Next
  PROVE  LengthsKnown'
<1>0. buf \in [Threads -> BufT]
  BY ArraysTyped DEF TInv
<1>1. ASSUME NEW t \in Threads, \A u \in Threads \ {t} : call'[u] = call[u],
             \A u \in Threads : buf'[u].n \in Lens \cup {0},
             call'[t].op = "seal" => call'[t].n \in Lens,
             call'[t].op = "open" => call'[t].n \in Lens \cup {0}
      PROVE  LengthsKnown'
  BY <1>1 DEF LengthsKnown
<1>2. ASSUME NEW t \in Threads, Others(t), buf' = buf,
             call'[t] = Idle \/ Continued(t) \/ call'[t].op = "reserve"
      PROVE  LengthsKnown'
  BY <1>1, <1>2 DEF LengthsKnown, Others, Continued, Idle
<1>3. ASSUME NEW t \in Threads, LaunchEffect(t) PROVE LengthsKnown'
  BY <1>2, <1>3, LaunchFrames DEF LaunchFrame
<1>4. ASSUME NEW s \in Streams, DeviceEffect(s) PROVE LengthsKnown'
  <2>1. Head(queue[s]) \in Kernels
    BY <1>4 DEF DeviceEffect, Runs
  <2>2. \A b \in Threads : buf'[b].n = buf[b].n
    BY <1>4, <2>1, RunLength DEF DeviceEffect
  <2> QED BY <1>4, <2>2 DEF DeviceEffect, Runs, LengthsKnown
<1>5. ASSUME NEW t \in Threads, StillEffect(t) PROVE LengthsKnown'
  <2>1. StillFrame(t)
    BY <1>5, StillFrames
  <2>2. Others(t) /\ (call'[t] = Idle \/ call'[t].op = "reserve" \/ Continued(t) \/ Begun(t))
    BY <2>1 DEF StillFrame
  <2>3. ASSUME NEW h \in Handles, NEW s \in Streams, OpenEffect(t, h, s) PROVE LengthsKnown'
    BY <1>1, <2>2, <2>3 DEF OpenEffect, Begins, LengthsKnown, Others
  <2>4. ASSUME NEW h \in Handles, NEW s \in Streams, NEW n \in Lens,
               SealEffect(t, h, s, n, calls + 1)
        PROVE  LengthsKnown'
    <3>1. buf[t] \in BufT /\ buf' = [buf EXCEPT ![t] = [buf[t] EXCEPT !.n = n]]
      BY <1>0, <2>4 DEF SealEffect
    <3>2. [buf[t] EXCEPT !.n = n].n = n
      BY <3>1 DEF BufT
    <3>3. buf'[t].n = n
      BY <1>0, <3>1, <3>2
    <3>4. \A u \in Threads : buf'[u].n \in Lens \cup {0}
      BY <2>2, <3>3 DEF Others, LengthsKnown
    <3>5. call'[t].op = "seal" /\ call'[t].n = n
      BY <2>4 DEF SealEffect, Begins
    <3> QED BY <1>1, <2>2, <3>4, <3>5 DEF Others
  <2>5. ASSUME ClearFlag(t) PROVE LengthsKnown'
    <3> DEFINE r == [buf[t] EXCEPT !.auth = 0]
               r2 == [r EXCEPT !.plain = Poison]
    <3>1. buf' = [[buf EXCEPT ![t] = r] EXCEPT ![t].plain = Poison]
      BY <2>5 DEF ClearFlag
    <3>2. buf'[t] = r2 /\ call' = call
      BY <1>0, <2>5, <3>1 DEF ClearFlag
    <3>3. r2.n = buf[t].n
      BY <1>0 DEF BufT
    <3> HIDE DEF r2
    <3>4. \A u \in Threads : buf'[u].n = buf[u].n
      BY <2>2, <3>2, <3>3 DEF Others
    <3> QED BY <3>2, <3>4 DEF LengthsKnown
  <2>10. ASSUME Corrupt(t) PROVE LengthsKnown'
    <3>0. buf'[t].n = buf[t].n
      BY <2>10, CorruptRewrites
    <3>1. buf'[t].n = buf[t].n /\ call' = call
      BY <2>10, <3>0 DEF Corrupt
    <3>2. \A u \in Threads : buf'[u].n = buf[u].n
      BY <2>2, <3>1 DEF Others
    <3> QED BY <3>1, <3>2 DEF LengthsKnown
  <2>6. ASSUME NEW h \in Handles, NEW n \in Lens, NEW field \in Uploads, Upload(t, h, n, field)
        PROVE  LengthsKnown'
    <3> DEFINE f == Changed(GcmFrame(h, 0, 0, n), field)
               r == [buf[t] EXCEPT !.ver = f.ver, !.iv = f.iv, !.ct = f.ct,
                                   !.tag = f.tag, !.n = n]
    <3>1. buf' = [buf EXCEPT ![t] = r] /\ call' = call
      BY <2>6 DEF Upload
    <3> HIDE DEF f
    <3>2. r.n = n
      BY <1>0 DEF BufT
    <3> HIDE DEF r
    <3>3. \A u \in Threads : buf'[u].n \in Lens \cup {0}
      BY <1>0, <2>2, <3>1, <3>2 DEF Others, LengthsKnown
    <3> QED BY <3>1, <3>3 DEF LengthsKnown
  <2>7. ASSUME \/ EnsureEffect(t) \/ MallocBEffect(t) \/ UndoEffect(t)
               \/ FreeAEffect(t) \/ FreeBEffect(t)
        PROVE  LengthsKnown'
    <3>1. buf' = buf /\ call[t].pc \in {"workspace", "malloc_b", "undo", "free_a", "free_b"}
      BY <2>7 DEF EnsureEffect, MallocBEffect, UndoEffect, FreeAEffect, FreeBEffect
    <3>2. ASSUME NEW pc, NEW in, NEW out, NEW count, Moves(t, pc, in, out, count)
          PROVE  LengthsKnown'
      BY <1>2, <2>2, <3>1, <3>2, MovesContinue
    <3>3. ASSUME NEW rc, Returns(t, rc) PROVE LengthsKnown'
      BY <1>2, <2>2, <3>1, <3>3, ReturnsDone
    <3> QED BY <2>7, <3>2, <3>3 DEF EnsureEffect, MallocBEffect, UndoEffect, FreeAEffect,
                                    FreeBEffect, Continues
  <2>8. ASSUME NEW h \in Handles, CreateEffect(t, h) \/ DestroyEffect(t, h) PROVE LengthsKnown'
    BY <1>2, <2>2, <2>8 DEF CreateEffect, DestroyEffect
  <2>9. ASSUME NEW h \in Handles, NEW n \in Lens, ReserveEffect(t, h, n) PROVE LengthsKnown'
    BY <1>2, <2>2, <2>9 DEF ReserveEffect, Begins
  <2> QED BY <1>5, <2>3, <2>4, <2>5, <2>6, <2>7, <2>8, <2>9, <2>10
      DEF StillEffect, ClientEffect
<1> QED BY <1>3, <1>4, <1>5, StepIs


\* An open that returned OK has launched its last kernel: an encryption that
\* is queued from a seal before it is not the last kernel of the buffer.
Answered ==
  \A t \in Threads, s \in Streams :
    done[t].op = "open" /\ done[t].rc = "OK" =>
      \A i \in 1 .. Len(queue[s]) :
        queue[s][i].b = t /\ queue[s][i].k = "encrypt" =>
          \E j \in i + 1 .. Len(queue[s]) : queue[s][j].b = t

\* OK is returned after a launch that worked.
LEMMA LaunchOK ==
  ASSUME TInv, NEW t \in Threads, LaunchEffect(t), NEW k, k = KernelOf(t),
         done[t] = Nothing, done'[t].rc = "OK"
  PROVE  /\ ~ lastErr'[t] /\ call'[t] = Idle
         /\ queue'[call[t].s] = Append(queue[call[t].s], k)
         /\ \A s \in Streams \ {call[t].s} : queue'[s] = queue[s]
         /\ lastErr' = lastErr
         /\ \/ FinalizeEffect(t) /\ k = RootKernel(t, "finalize")
            \/ VerifyEffect(t) /\ ~ (call[t].n > 0) /\ k = RootKernel(t, "verify")
            \/ DecryptEffect(t) /\ k = DecryptKernel(t)
         /\ done'[t] = [op |-> call[t].op, h |-> call[t].h, n |-> call[t].n,
                        iv |-> call[t].iv, rc |-> "OK"]
<1>1. done'[t] # Nothing /\ done' # done
  BY DEF Nothing
<1>2. ~ Returns(t, "ERR_CUDA")
  BY <1>1, ReturnsDone DEF Nothing
<1>3. ~ HeaderEffect(t) /\ ~ EncryptEffect(t) /\ ~ SegmentEffect(t) /\ ~ CombineEffect(t)
  BY <1>1, <1>2 DEF HeaderEffect, EncryptEffect, SegmentEffect, CombineEffect, GhashEffect
<1>4. /\ Launches(t, k) /\ lastErr'[t] = FALSE /\ Returns(t, "OK") /\ call[t].op # "reserve"
      /\ \/ FinalizeEffect(t) /\ k = RootKernel(t, "finalize")
         \/ VerifyEffect(t) /\ ~ (call[t].n > 0) /\ k = RootKernel(t, "verify")
         \/ DecryptEffect(t) /\ k = DecryptKernel(t)
  BY <1>1, <1>2, <1>3
     DEF LaunchEffect, FinalizeEffect, VerifyEffect, DecryptEffect, PeekReturns, KernelOf
<1> QED BY <1>4 DEF Launches, Returns

LEMMA NextAnswered ==
  ASSUME TInv, StreamsApart, DoneCleared, Answered, Next
  PROVE  Answered'
<1>1. ASSUME NEW t \in Threads, LaunchEffect(t) PROVE Answered'
  <2>1. PICK k : k = KernelOf(t)
    OBVIOUS
  <2>2. LaunchFrame(t, k)
    BY <1>1, <2>1, LaunchFrames
  <2>3. PICK r : r = call[t].s
    OBVIOUS
  <2>4. /\ k \in Kernels /\ k.b = t /\ r \in Streams /\ Others(t) /\ call[t].op \in {"seal", "open"}
        /\ \/ queue'[r] = Append(queue[r], k) /\ \A s \in Streams \ {r} : queue'[s] = queue[s]
           \/ queue' = queue
    BY <2>2, <2>3 DEF LaunchFrame, Launches
  <2>5. done[t] = Nothing
    BY <2>4 DEF DoneCleared
  <2> SUFFICES ASSUME NEW u \in Threads, NEW s \in Streams, done'[u].op = "open",
                      done'[u].rc = "OK", NEW i \in 1 .. Len(queue'[s]),
                      queue'[s][i].b = u, queue'[s][i].k = "encrypt"
               PROVE  \E j \in i + 1 .. Len(queue'[s]) : queue'[s][j].b = u
    BY DEF Answered
  <2>6. queue[s] \in Seq(Kernels)
    BY KernelsAre
  <2>7. CASE u # t
    <3>1. done'[u] = done[u]
      BY <2>4, <2>7 DEF Others
    <3>2. CASE queue'[s] = queue[s]
      BY <3>1, <3>2 DEF Answered
    <3>3. CASE queue'[s] = Append(queue[s], k)
      <4>1. i \in 1 .. Len(queue[s]) /\ queue'[s][i] = queue[s][i]
        BY <2>4, <2>6, <2>7, <3>3
      <4>2. PICK j \in i + 1 .. Len(queue[s]) : queue[s][j].b = u
        BY <3>1, <4>1 DEF Answered
      <4>3. j \in i + 1 .. Len(queue'[s]) /\ queue'[s][j] = queue[s][j]
        BY <2>4, <2>6, <3>3, <4>1, <4>2
      <4> QED BY <4>2, <4>3
    <3> QED BY <2>4, <3>2, <3>3
  <2>8. CASE u = t
    <3>1. /\ queue'[r] = Append(queue[r], k) /\ \A z \in Streams \ {r} : queue'[z] = queue[z]
          /\ k = RootKernel(t, "finalize") \/ k = RootKernel(t, "verify") \/ k = DecryptKernel(t)
      BY <1>1, <2>1, <2>3, <2>5, <2>8, LaunchOK
    <3>2. k.k # "encrypt"
      BY <3>1 DEF RootKernel, DecryptKernel
    <3>3. CASE s # r
      <4>1. queue[s][i] \in KernelsOn(s) /\ queue'[s] = queue[s]
        BY <2>6, <3>1, <3>3, KernelsAre
      <4> QED BY <2>3, <2>4, <2>8, <3>3, <4>1 DEF StreamsApart
    <3>4. CASE s = r
      <4>1. /\ Len(queue'[s]) = Len(queue[s]) + 1 /\ Len(queue[s]) \in Nat
            /\ queue'[s][Len(queue[s]) + 1] = k
        BY <2>4, <2>6, <3>1, <3>4
      <4>2. i # Len(queue[s]) + 1
        BY <3>2, <4>1
      <4>3. Len(queue[s]) + 1 \in i + 1 .. Len(queue'[s])
        BY <4>1, <4>2
      <4> QED BY <2>4, <2>8, <4>1, <4>3
    <3> QED BY <3>3, <3>4
  <2> QED BY <2>7, <2>8
<1>2. ASSUME NEW t \in Threads, StillEffect(t) PROVE Answered'
  <2>1. /\ queue' = queue /\ \A u \in Threads \ {t} : done'[u] = done[u]
        /\ done'[t] = done[t] \/ done'[t].rc # "OK"
    BY <1>2, StillFrames DEF StillFrame, Others
  <2> QED BY <2>1 DEF Answered
<1>3. ASSUME NEW s \in Streams, DeviceEffect(s) PROVE Answered'
  <2>1. PICK k : k = Head(queue[s])
    OBVIOUS
  <2>2. Runs(s, k)
    BY <1>3, <2>1 DEF DeviceEffect
  <2> SUFFICES ASSUME NEW u \in Threads, NEW r \in Streams, done'[u].op = "open",
                      done'[u].rc = "OK", NEW i \in 1 .. Len(queue'[r]),
                      queue'[r][i].b = u, queue'[r][i].k = "encrypt"
               PROVE  \E j \in i + 1 .. Len(queue'[r]) : queue'[r][j].b = u
    BY DEF Answered
  <2>3. done' = done
    BY <2>2 DEF Runs
  <2>4. CASE r # s
    BY <2>2, <2>3, <2>4 DEF Runs, Answered
  <2>5. CASE r = s
    <3> DEFINE q == queue[s]
    <3>1. /\ Len(q) \in Nat \ {0} /\ Len(Tail(q)) = Len(q) - 1 /\ queue'[r] = Tail(q)
          /\ \A j \in 1 .. Len(q) - 1 : Tail(q)[j] = q[j + 1]
      BY <2>2, <2>5, HeadKernel DEF Runs
    <3> HIDE DEF q
    <3>2. i + 1 \in 1 .. Len(q) /\ queue'[r][i] = q[i + 1]
      BY <3>1
    <3>3. PICK j \in i + 1 + 1 .. Len(q) : q[j].b = u
      BY <2>3, <3>2 DEF Answered, q
    <3>4. j - 1 \in i + 1 .. Len(Tail(q)) /\ j - 1 \in 1 .. Len(q) - 1 /\ (j - 1) + 1 = j
      BY <3>1, <3>2
    <3>5. Tail(q)[j - 1] = q[j]
      BY <3>1, <3>4
    <3> QED BY <3>1, <3>3, <3>4, <3>5
  <2> QED BY <2>4, <2>5
<1> QED BY <1>1, <1>2, <1>3, StepIs


-----------------------------------------------------------------------------
(* What holds of the data of a buffer, now or once some of the queued      *)
(* kernels have run.                                                       *)

\* The message of an encryption.  Thread t knows a message to be sealed when it
\* is committed or t has launched its encryption.
Message(k) == [key |-> k.h, n |-> k.n, pt |-> k.pt]
Knows(t, m) ==
  \/ m \in Committed
  \/ \E s \in Streams : \E k \in KernelsOn(s) : k.k = "encrypt" /\ k.b = t /\ m = Message(k)

\* A tag that a hash under its own key produced is that of a known message.
TagKnown(t, tag) ==
  LET r == tag.root
  IN  tag.rk \in Handles /\ r.hk = tag.rk /\ r.lo = 0 /\ r.hi > 0 =>
        /\ r.hi - 1 \in Lens
        /\ r.hi > 1 => Knows(t, [key |-> tag.rk, n |-> r.hi - 1, pt |-> r.ct.pt])

Sound(t, x) ==
  /\ TagKnown(t, x.tag)
  /\ x.auth \in {0, 1}
  /\ ClearAuth /\ InitSeen /\ x.plain.kind = "decrypted" =>
       Authentic(x.plain.key, x.plain.frame, x.plain.n)

\* The flag of a verification says whether the frame is authentic, when the
\* powers of H are those of the key.
Verdict(x, h, n) == InitSeen => (x.auth = 1 <=> Authentic(h, FrameIn(x, n), n))

\* What the kernels that the call of t has launched leave in the end.
Written(t, x) ==
  LET c == call[t]
  IN  /\ x.ver = 1 /\ x.iv = c.iv
      /\ c.n > 0 => /\ x.ct = [key |-> c.h, iv |-> c.iv, pt |-> c.iv]
                    /\ Knows(t, [key |-> c.h, n |-> c.n, pt |-> c.iv])

SealEnds(t, x) ==
  /\ call[t].pc = "encrypt" /\ ~ lastErr[t] => x.ver = 1 /\ x.iv = call[t].iv
  /\ call[t].op = "seal" /\ call[t].pc \in {"segment", "combine", "tag"} /\ ~ lastErr[t] =>
       Written(t, x)
  /\ done[t].op = "seal" /\ done[t].rc = "OK" /\ InitSeen =>
       FrameIn(x, done[t].n) = GcmFrame(done[t].h, done[t].iv, done[t].iv, done[t].n)

OpenEnds(t, x) ==
  /\ call[t].op = "open" /\ call[t].pc # "decrypt" /\ ClearAuth => x.auth = 0
  /\ call[t].pc = "decrypt" =>
       /\ ClearAuth /\ InitSeen /\ x.auth = 1 =>
            Authentic(call[t].h, FrameIn(x, call[t].n), call[t].n)
       /\ ~ lastErr[t] => Verdict(x, call[t].h, call[t].n)
  /\ done[t].op = "open" /\ done[t].rc = "OK" =>
       /\ done[t].h \in Handles
       /\ Verdict(x, done[t].h, done[t].n)
       /\ done[t].n > 0 =>
            x.plain = IF x.auth = 0
                      THEN Zeroed
                      ELSE Decrypted(done[t].h, FrameIn(x, done[t].n), done[t].n)

Ends(t, x) == SealEnds(t, x) /\ OpenEnds(t, x)

LEMMA KnowsSame ==
  ASSUME queue' = queue, sealed' = sealed
  PROVE  \A t \in Threads : \A m : Knows(t, m) => Knows(t, m)'
BY DEF Knows, Committed, KernelsOn

\* A kernel that is launched is queued with those before it.
LEMMA QueuedStay ==
  ASSUME TInv, NEW s \in Streams, NEW k, queue'[s] = Append(queue[s], k)
  PROVE  k \in KernelsOn(s)' /\ \A q \in KernelsOn(s) : q \in KernelsOn(s)'
<1>1. queue[s] \in Seq(Kernels) /\ KernelsOn(s) = {queue[s][i] : i \in 1 .. Len(queue[s])}
  BY KernelsAre
<1>2. /\ DOMAIN queue'[s] = 1 .. Len(queue[s]) + 1 /\ Len(queue[s]) \in Nat
      /\ \A i \in 1 .. Len(queue[s]) : queue'[s][i] = queue[s][i]
      /\ queue'[s][Len(queue[s]) + 1] = k
  BY <1>1
<1>3. Len(queue[s]) + 1 \in 1 .. Len(queue[s]) + 1
      /\ \A i \in 1 .. Len(queue[s]) : i \in 1 .. Len(queue[s]) + 1
  BY <1>2
<1> QED BY <1>1, <1>2, <1>3 DEF KernelsOn

\* No kernel leaves a queue at a launch.
LEMMA LaunchStays ==
  ASSUME TInv, NEW t \in Threads, call[t].s \in Streams, NEW k, Launches(t, k)
  PROVE  \A s \in Streams : \A q \in KernelsOn(s) : q \in KernelsOn(s)'
<1> SUFFICES ASSUME NEW s \in Streams PROVE \A q \in KernelsOn(s) : q \in KernelsOn(s)'
  OBVIOUS
<1>1. CASE queue'[s] = queue[s]
  BY <1>1 DEF KernelsOn
<1>2. CASE queue'[s] = Append(queue[s], k)
  BY <1>2, QueuedStay
<1> QED BY <1>1, <1>2 DEF Launches

\* The other kernels stay queued.
LEMMA RunLeaves ==
  ASSUME TInv, NEW s \in Streams, NEW k, Runs(s, k), NEW r \in Streams, NEW q \in KernelsOn(r)
  PROVE  q = k \/ q \in KernelsOn(r)'
<1>1. CASE r # s
  BY <1>1 DEF Runs, KernelsOn
<1>2. CASE r = s
  <2>1. /\ queue[s] \in Seq(Kernels) /\ k = queue[s][1] /\ Len(queue[s]) \in Nat \ {0}
        /\ queue'[s] = Tail(queue[s]) /\ Len(Tail(queue[s])) = Len(queue[s]) - 1
        /\ \A i \in 1 .. Len(queue[s]) - 1 : Tail(queue[s])[i] = queue[s][i + 1]
    BY HeadKernel DEF Runs
  <2>2. PICK i \in 1 .. Len(queue[s]) : q = queue[s][i]
    BY <1>2, KernelsAre
  <2>3. CASE i = 1
    BY <2>1, <2>2, <2>3
  <2>4. CASE i # 1
    <3>1. i - 1 \in 1 .. Len(queue[s]) - 1 /\ (i - 1) + 1 = i
      BY <2>1, <2>4
    <3>2. queue'[s][i - 1] = q
      BY <2>1, <2>2, <3>1
    <3>3. DOMAIN queue'[s] = 1 .. Len(queue[s]) - 1
      BY <2>1
    <3> QED BY <1>2, <3>1, <3>2, <3>3 DEF KernelsOn
  <2> QED BY <2>3, <2>4
<1> QED BY <1>1, <1>2

LEMMA LaunchKnows ==
  ASSUME TInv, NEW t \in Threads, NEW k, LaunchFrame(t, k)
  PROVE  /\ \A u \in Threads : \A m : Knows(u, m) => Knows(u, m)'
         /\ k.k = "encrypt" /\ queue'[call[t].s] = Append(queue[call[t].s], k) =>
              Knows(t, Message(k))'
<1>1. sealed' = sealed /\ k \in Kernels /\ call[t].s \in Streams /\ Launches(t, k) /\ k.b = t
  BY DEF LaunchFrame
<1>2. \A s \in Streams : queue'[s] = Append(queue[s], k) => k \in KernelsOn(s)'
  BY QueuedStay
<1>3. \A s \in Streams : \A q \in KernelsOn(s) : q \in KernelsOn(s)'
  BY <1>1, LaunchStays
<1>4. Committed' = Committed
  BY <1>1 DEF Committed
<1>5. \A u \in Threads : \A m : Knows(u, m) => Knows(u, m)'
  BY <1>3, <1>4 DEF Knows
<1>6. k.k = "encrypt" /\ queue'[call[t].s] = Append(queue[call[t].s], k) => Knows(t, Message(k))'
  BY <1>1, <1>2 DEF Knows
<1> QED BY <1>5, <1>6

LEMMA RunKnows ==
  ASSUME TInv, NEW s \in Streams, NEW k, Runs(s, k), RunEffect(s, k)
  PROVE  \A u \in Threads : \A m : Knows(u, m) => Knows(u, m)'
<1>1. sealed \subseteq sealed'
  BY DEF RunEffect, Writes, Stores
<1>2. Committed \subseteq Committed'
  BY <1>1 DEF Committed
<1>3. k.k = "encrypt" => Message(k) \in Committed'
  <2> SUFFICES ASSUME k.k = "encrypt" PROVE Message(k) \in Committed'
    OBVIOUS
  <2>1. [key |-> k.h, iv |-> buf[k.b].iv, pt |-> k.pt, n |-> k.n] \in sealed'
    BY DEF RunEffect
  <2>2. \A x \in sealed' : [key |-> x.key, n |-> x.n, pt |-> x.pt] \in Committed'
    BY DEF Committed
  <2> QED BY <2>1, <2>2 DEF Message
<1>4. \A r \in Streams : \A q \in KernelsOn(r) : q = k \/ q \in KernelsOn(r)'
  BY RunLeaves
<1> QED BY <1>2, <1>3, <1>4 DEF Knows

\* What is known stays known.
LEMMA SoundKept ==
  ASSUME NEW t \in Threads, NEW x, Sound(t, x), \A m : Knows(t, m) => Knows(t, m)'
  PROVE  Sound(t, x)'
BY DEF Sound, TagKnown

LEMMA EndsKept ==
  ASSUME NEW t \in Threads, NEW x, Ends(t, x), \A m : Knows(t, m) => Knows(t, m)',
         call'[t] = call[t], done'[t] = done[t], lastErr'[t] = lastErr[t]
  PROVE  Ends(t, x)'
<1>1. Written(t, x) => Written(t, x)'
  BY DEF Written
<1>2. SealEnds(t, x)'
  BY <1>1 DEF Ends, SealEnds
<1>3. OpenEnds(t, x)'
  BY DEF Ends, OpenEnds
<1> QED BY <1>2, <1>3 DEF Ends


-----------------------------------------------------------------------------
(* A launch: what the buffer will hold after the kernel.                   *)

\* The launch of k by t makes y of x, the data before it.
Pushed(t, k, x, y) ==
  \/ queue'[call[t].s] = Append(queue[call[t].s], k) /\ lastErr' = lastErr /\ y = After(k, x, Powers)
  \/ lastErr'[t] = TRUE /\ y = x

Facts == CInv /\ KeysOf /\ LengthsKnown /\ DoneCleared

LEMMA SealGoesOn ==
  ASSUME NEW t \in Threads, NEW y, done'[t] = Nothing, call'[t].op = "seal",
         call'[t].pc # "decrypt",
         ~ lastErr'[t] /\ call'[t].pc = "encrypt" => y.ver = 1 /\ y.iv = call'[t].iv,
         ~ lastErr'[t] /\ call'[t].pc # "encrypt" => Written(t, y)'
  PROVE  Ends(t, y)'
BY DEF Ends, SealEnds, OpenEnds, Nothing

LEMMA OpenGoesOn ==
  ASSUME NEW t \in Threads, NEW y, done'[t] = Nothing, call'[t].op = "open",
         call'[t].pc # "encrypt",
         call'[t].pc # "decrypt" /\ ClearAuth => y.auth = 0,
         call'[t].pc = "decrypt" =>
           /\ ClearAuth /\ InitSeen /\ y.auth = 1 =>
                Authentic(call'[t].h, FrameIn(y, call'[t].n), call'[t].n)
           /\ ~ lastErr'[t] => Verdict(y, call'[t].h, call'[t].n)
  PROVE  Ends(t, y)'
BY DEF Ends, SealEnds, OpenEnds, Nothing, Verdict, InitSeen

LEMMA ReturnEnds ==
  ASSUME NEW t \in Threads, NEW y, call'[t] = Idle,
         done'[t].op = "seal" /\ done'[t].rc = "OK" /\ InitSeen =>
           FrameIn(y, done'[t].n) = GcmFrame(done'[t].h, done'[t].iv, done'[t].iv, done'[t].n),
         done'[t].op = "open" /\ done'[t].rc = "OK" =>
           /\ done'[t].h \in Handles
           /\ Verdict(y, done'[t].h, done'[t].n)
           /\ done'[t].n > 0 =>
                y.plain = IF y.auth = 0
                          THEN Zeroed
                          ELSE Decrypted(done'[t].h, FrameIn(y, done'[t].n), done'[t].n)
  PROVE  Ends(t, y)'
BY DEF Ends, SealEnds, OpenEnds, Idle, Verdict, InitSeen

\* What a call that launches is about.
LEMMA LaunchFacts ==
  ASSUME Facts, NEW t \in Threads, LaunchEffect(t), NEW k, k = KernelOf(t)
  PROVE  /\ TInv /\ LaunchFrame(t, k) /\ done[t] = Nothing
         /\ call[t].pc \in {"combine", "tag"} => ~ lastErr[t]
         /\ call[t].h \in Handles /\ Powers[call[t].h] = handle[call[t].h].h_pow2
         /\ handle[call[t].h].h_pow2 \in {call[t].h, None, Zeros} /\ call[t].h # None
         /\ InitSeen /\ ~ lastErr[t] => handle[call[t].h].h_pow2 = call[t].h
         /\ call[t].n \in Nat /\ (call[t].op = "seal" => call[t].n \in Lens)
         /\ \A m : Knows(t, m) => Knows(t, m)'
<1>1. TInv /\ MInv /\ LaunchFrame(t, k)
  BY LaunchFrames DEF Facts, CInv, MInv
<1>2. /\ call[t].h \in Handles /\ call[t].pc # "idle" /\ call[t].op \in {"seal", "open"}
      /\ call[t].pc \in Launching
  BY <1>1 DEF LaunchFrame, Launching
<1>3. handle[call[t].h].state = "live"
  BY <1>1, <1>2 DEF MInv, LiveUsed
<1>4. call[t].h # None
  BY <1>2, ConstantsAssumption
<1>5. call[t].n \in Nat /\ (call[t].op = "seal" => call[t].n \in Lens)
  BY <1>1, <1>2, LaunchingCall DEF Facts, LengthsKnown
<1>6. \A m : Knows(t, m) => Knows(t, m)'
  BY <1>1, LaunchKnows
<1> QED BY <1>1, <1>2, <1>3, <1>4, <1>5, <1>6
        DEF Facts, CInv, CallChains, KeysOf, DoneCleared, Powers

\* The data that a kernel does not write.
LEMMA AfterKeeps ==
  ASSUME NEW k, NEW x, NEW H
  PROVE  LET y == After(k, x, H)
         IN  /\ k.k # "header" => y.ver = x.ver /\ y.iv = x.iv
             /\ k.k # "encrypt" => y.ct = x.ct
             /\ k.k # "finalize" => y.tag = x.tag
             /\ k.k # "verify" => y.auth = x.auth
             /\ k.k # "decrypt" => y.plain = x.plain
             /\ k.k \in {"verify", "decrypt"} => \A n : FrameIn(y, n) = FrameIn(x, n)
BY DEF After, FrameIn, Ct

\* A tag that stays is known as before; so is the plaintext.
LEMMA SoundStays ==
  ASSUME NEW t \in Threads, NEW x, NEW y, Sound(t, x),
         \A m : Knows(t, m) => Knows(t, m)',
         y.tag = x.tag, y.auth \in {0, 1}, y.plain = x.plain
  PROVE  Sound(t, y)'
BY DEF Sound, TagKnown

LEMMA WriteEnds ==
  ASSUME Facts, NEW t \in Threads, HeaderEffect(t) \/ EncryptEffect(t), NEW k, k = KernelOf(t),
         NEW x, Sound(t, x), Ends(t, x), NEW y, Pushed(t, k, x, y)
  PROVE  Sound(t, y)' /\ Ends(t, y)'
<1> DEFINE K == \A m : Knows(t, m) => Knows(t, m)'
<1>0. LaunchEffect(t)
  BY DEF LaunchEffect
<1>1. /\ done[t] = Nothing /\ K /\ x.auth \in {0, 1} /\ call[t].n \in Nat
      /\ LaunchFrame(t, k) /\ TInv
  BY <1>0, LaunchFacts DEF Sound
<1> HIDE DEF K
<1>2. call[t].op = "seal" /\ done'[t] = Nothing
  BY <1>1 DEF HeaderEffect, EncryptEffect
<1>3. k.k \in {"header", "encrypt"} /\ (lastErr[t] => lastErr'[t])
  BY <1>1 DEF HeaderEffect, EncryptEffect, KernelOf, HeaderKernel, EncryptKernel, LaunchFrame
<1>4. y.tag = x.tag /\ y.auth = x.auth /\ y.plain = x.plain
  BY <1>3, AfterKeeps DEF Pushed
<1>5. Sound(t, y)'
  BY <1>1, <1>4, SoundStays DEF K
<1>6. CASE HeaderEffect(t)
  <2>1. k = HeaderKernel(t) /\ k.k = "header" /\ k.iv = call[t].iv
    BY <1>6 DEF HeaderEffect, KernelOf, HeaderKernel
  <2>2. /\ Continued(t)
        /\ call'[t].pc = IF call[t].n > 0 THEN "encrypt" ELSE "segment"
    BY <1>6, MovesContinue DEF HeaderEffect
  <2>3. ~ lastErr'[t] => y.ver = 1 /\ y.iv = call[t].iv
    BY <2>1 DEF Pushed, After
  <2>4. call'[t].pc # "encrypt" => ~ (call'[t].n > 0)
    BY <2>2 DEF Continued
  <2>5. ~ lastErr'[t] /\ call'[t].pc # "encrypt" => Written(t, y)'
    BY <2>2, <2>3, <2>4 DEF Written, Continued
  <2>6. Ends(t, y)'
    BY <1>2, <2>2, <2>3, <2>5, SealGoesOn DEF Continued
  <2> QED BY <1>5, <2>6
<1>7. CASE EncryptEffect(t)
  <2>1. /\ k = EncryptKernel(t) /\ k.k = "encrypt" /\ k.h = call[t].h /\ k.pt = call[t].iv
        /\ k.n = call[t].n
    BY <1>7 DEF EncryptEffect, KernelOf, EncryptKernel
  <2>2. Continued(t) /\ call'[t].pc = "segment"
    BY <1>7, MovesContinue DEF EncryptEffect
  <2>3. ASSUME ~ lastErr'[t]
        PROVE  /\ y.ver = 1 /\ y.iv = call[t].iv
               /\ y.ct = [key |-> call[t].h, iv |-> call[t].iv, pt |-> call[t].iv]
               /\ Knows(t, Message(k))'
    <3>1. queue'[call[t].s] = Append(queue[call[t].s], k) /\ y = After(k, x, Powers) /\ ~ lastErr[t]
      BY <1>3, <2>3 DEF Pushed
    <3>2. x.ver = 1 /\ x.iv = call[t].iv
      BY <1>7, <3>1 DEF Ends, SealEnds, EncryptEffect
    <3>3. Knows(t, Message(k))'
      BY <1>1, <2>1, <3>1, LaunchKnows
    <3>4. y.ver = x.ver /\ y.iv = x.iv /\ y.ct = [key |-> k.h, iv |-> x.iv, pt |-> k.pt]
      BY <2>1, <3>1 DEF After
    <3> QED BY <2>1, <3>2, <3>3, <3>4
  <2>4. ~ lastErr'[t] => Written(t, y)'
    BY <2>1, <2>2, <2>3 DEF Written, Continued, Message
  <2>5. Ends(t, y)'
    BY <1>2, <2>2, <2>4, SealGoesOn DEF Continued
  <2> QED BY <1>5, <2>5
<1> QED BY <1>6, <1>7


LEMMA HashEnds ==
  ASSUME Facts, NEW t \in Threads, SegmentEffect(t) \/ CombineEffect(t), NEW k, k = KernelOf(t),
         NEW x, Sound(t, x), Ends(t, x), NEW y, Pushed(t, k, x, y)
  PROVE  Sound(t, y)' /\ Ends(t, y)'
<1> DEFINE K == \A m : Knows(t, m) => Knows(t, m)'
<1>0. LaunchEffect(t)
  BY DEF LaunchEffect
<1>1. /\ done[t] = Nothing /\ K /\ x.auth \in {0, 1} /\ LaunchFrame(t, k)
      /\ lastErr[t] => lastErr'[t]
  BY <1>0, LaunchFacts DEF Sound, LaunchFrame
<1> HIDE DEF K
<1>2. k.k \in {"segment", "combine"}
  BY DEF SegmentEffect, CombineEffect, KernelOf, SegmentKernel, CombineKernel
<1>3. y.ver = x.ver /\ y.iv = x.iv /\ y.ct = x.ct /\ y.tag = x.tag /\ y.auth = x.auth
      /\ y.plain = x.plain
  BY <1>2, AfterKeeps DEF Pushed
<1>4. Sound(t, y)'
  BY <1>1, <1>3, SoundStays DEF K
<1>5. /\ call[t].op \in {"seal", "open"} /\ call[t].pc \in {"segment", "combine"}
      /\ \/ Returns(t, "ERR_CUDA")
         \/ /\ done' = done /\ Continued(t)
            /\ call'[t].pc \in {"combine", "tag"}
  <2>1. ASSUME NEW in, NEW out, NEW count, GhashEffect(t, in, out, count)
        PROVE  \/ Returns(t, "ERR_CUDA")
               \/ /\ done' = done /\ Continued(t)
                  /\ call'[t].pc \in {"combine", "tag"}
    <3> DEFINE pc == IF count > 1 THEN "combine" ELSE "tag"
    <3>1. pc \in {"combine", "tag"}
      OBVIOUS
    <3> HIDE DEF pc
    <3>2. Returns(t, "ERR_CUDA") \/ (done' = done /\ Moves(t, pc, in, out, count))
      BY <2>1 DEF GhashEffect, pc
    <3> QED BY <3>1, <3>2, MovesContinue
  <2> QED BY <2>1 DEF SegmentEffect, CombineEffect
<1>6. CASE Returns(t, "ERR_CUDA")
  <2>1. call'[t] = Idle /\ done'[t].rc # "OK"
    BY <1>1, <1>6, ReturnsDone DEF Nothing
  <2> QED BY <1>4, <2>1, ReturnEnds
<1>7. CASE done' = done /\ Continued(t) /\ call'[t].pc \in {"combine", "tag"} /\ call[t].op = "seal"
  <2>1. ~ lastErr'[t] => Written(t, x)
    BY <1>1, <1>5, <1>7 DEF Ends, SealEnds
  <2>2. Written(t, x) => Written(t, y)'
    BY <1>1, <1>3, <1>7 DEF Written, Continued, K
  <2>3. Ends(t, y)'
    BY <1>1, <1>7, <2>1, <2>2, SealGoesOn DEF Continued
  <2> QED BY <1>4, <2>3
<1>8. CASE done' = done /\ Continued(t) /\ call'[t].pc \in {"combine", "tag"} /\ call[t].op = "open"
  <2>1. ClearAuth => x.auth = 0
    BY <1>5, <1>8 DEF Ends, OpenEnds
  <2>2. Ends(t, y)'
    BY <1>1, <1>3, <1>8, <2>1, OpenGoesOn DEF Continued
  <2> QED BY <1>4, <2>2
<1> QED BY <1>5, <1>6, <1>7, <1>8

LEMMA FinalizeEnds ==
  ASSUME Facts, NEW t \in Threads, FinalizeEffect(t), NEW k, k = KernelOf(t),
         NEW x, Sound(t, x), Ends(t, x), NEW y, Pushed(t, k, x, y)
  PROVE  Sound(t, y)' /\ Ends(t, y)'
<1>0. LaunchEffect(t)
  BY DEF LaunchEffect
<1>1. PICK h, n, iv : h = call[t].h /\ n = call[t].n /\ iv = call[t].iv
  OBVIOUS
<1>2. PICK hk : hk = handle[h].h_pow2
  OBVIOUS
<1>3. /\ done[t] = Nothing /\ x.auth \in {0, 1} /\ LaunchFrame(t, k)
      /\ lastErr[t] => lastErr'[t]
      /\ h \in Handles /\ n \in Lens /\ n \in Nat /\ h # None
      /\ InitSeen /\ ~ lastErr[t] => hk = h
      /\ Powers[h] = hk /\ ~ lastErr[t] /\ call[t].op = "seal" /\ call[t].pc = "tag"
  BY <1>0, <1>1, <1>2, LaunchFacts DEF Sound, LaunchFrame, FinalizeEffect
<1>4. \A m : Knows(t, m) => Knows(t, m)'
  BY <1>0, LaunchFacts
<1>5. k.k = "finalize" /\ k.h = h /\ k.n = n
  BY <1>1, <1>3 DEF KernelOf, RootKernel
<1>6. Written(t, x)
  BY <1>3 DEF Ends, SealEnds
<1>7. /\ x.ver = 1 /\ x.iv = iv
      /\ n > 0 => x.ct = [key |-> h, iv |-> iv, pt |-> iv]
  BY <1>1, <1>6 DEF Written
<1>8. n > 0 => Knows(t, [key |-> h, n |-> n, pt |-> iv])
  BY <1>1, <1>6 DEF Written
<1>9. /\ call'[t] = Idle /\ (done'[t].rc = "OK" => ~ lastErr'[t])
      /\ done'[t] = [op |-> "seal", h |-> h, n |-> n, iv |-> iv, rc |-> done'[t].rc]
  BY <1>1, <1>3 DEF FinalizeEffect, PeekReturns, Returns
<1>10. CASE lastErr'[t] = TRUE /\ y = x
  <2>1. Sound(t, y)'
    BY <1>4, <1>10, SoundKept
  <2>2. Ends(t, y)'
    BY <1>9, <1>10, ReturnEnds
  <2> QED BY <2>1, <2>2
<1>11. CASE y = After(k, x, Powers)
  <2> DEFINE ct == Ct(x, n)
  <2>1. /\ y.ver = 1 /\ y.iv = iv /\ y.ct = x.ct /\ y.auth = x.auth /\ y.plain = x.plain
        /\ y.tag = Tag(h, iv, Root(hk, ct, n))
    BY <1>3, <1>5, <1>7, <1>11 DEF After
  <2>2. ct = IF n = 0 THEN NoCt ELSE [key |-> h, iv |-> iv, pt |-> iv]
    BY <1>3, <1>7 DEF Ct
  <2>3. Sound(t, y)'
    <3>1. n + 1 - 1 = n /\ (n + 1 > 1 => n > 0)
      BY <1>3
    <3>2. n > 0 => Knows(t, [key |-> h, n |-> n, pt |-> iv])'
      BY <1>4, <1>8
    <3>3. n > 0 => ct.pt = iv
      BY <1>3, <2>2
    <3>4. y.tag.rk = h /\ y.tag.root.hi = n + 1 /\ y.tag.root.ct = ct
      BY <2>1 DEF Tag, Root
    <3> HIDE DEF ct
    <3>5. TagKnown(t, y.tag)'
      BY <1>3, <3>1, <3>2, <3>3, <3>4 DEF TagKnown
    <3> QED BY <1>3, <2>1, <3>5 DEF Sound
  <2>4. ASSUME InitSeen, ~ lastErr'[t]
        PROVE  FrameIn(y, n) = GcmFrame(h, iv, iv, n)
    <3>1. hk = h
      BY <1>3, <2>4
    <3>2. Ct(y, n) = ct
      BY <2>1 DEF Ct
    <3>3. y.tag = GcmTag(h, iv, ct, n)
      BY <2>1, <3>1 DEF GcmTag, Root
    <3> QED BY <2>1, <2>2, <3>2, <3>3 DEF FrameIn, GcmFrame
  <2>5. Ends(t, y)'
    BY <1>9, <2>4, ReturnEnds
  <2> QED BY <2>3, <2>5
<1> QED BY <1>10, <1>11 DEF Pushed


\* The flag of a verification under the powers of the key: the root is never
\* that of zeroed powers, so the tags compare as they are.
LEMMA VerdictGiven ==
  ASSUME NEW k, k.k = "verify", NEW x, k.h \in Handles, Powers[k.h] = k.h,
         NEW y, y = After(k, x, Powers)
  PROVE  y.auth = 1 <=> Authentic(k.h, FrameIn(y, k.n), k.n)
<1> DEFINE ct == Ct(x, k.n)
<1>1. y.auth = IF Accepts(k, x, Powers) THEN 1 ELSE 0
  BY DEF After
<1>2. FrameIn(y, k.n) = [ver |-> x.ver, iv |-> x.iv, ct |-> ct, tag |-> x.tag]
  BY AfterKeeps DEF FrameIn
<1>3. Authentic(k.h, FrameIn(y, k.n), k.n) <=>
        x.ver = 1 /\ x.tag = Tag(k.h, x.iv, Root(k.h, ct, k.n))
  BY <1>2 DEF Authentic, GcmTag, Root
<1> DEFINE tag == Tag(k.h, x.iv, Root(k.h, ct, k.n))
<1>4. tag.root.hk # Zeros
  <2>1. tag.root.hk = k.h
    BY DEF Tag, Root
  <2> QED BY <2>1, ConstantsAssumption
<1>5. SameTag(x.tag, tag) <=> x.tag = tag
  <2> HIDE DEF tag
  <2> QED BY <1>4 DEF SameTag
<1>6. Accepts(k, x, Powers) <=> x.ver = 1 /\ x.tag = tag
  BY <1>5 DEF Accepts
<1> QED BY <1>1, <1>3, <1>6

LEMMA VerifyEnds ==
  ASSUME Facts, NEW t \in Threads, VerifyEffect(t), NEW k, k = KernelOf(t),
         NEW x, Sound(t, x), Ends(t, x), NEW y, Pushed(t, k, x, y)
  PROVE  Sound(t, y)' /\ Ends(t, y)'
<1>0. LaunchEffect(t)
  BY DEF LaunchEffect
<1>1. PICK h, n : h = call[t].h /\ n = call[t].n
  OBVIOUS
<1>2. PICK hk : hk = handle[h].h_pow2
  OBVIOUS
<1>3. /\ done[t] = Nothing /\ x.auth \in {0, 1} /\ LaunchFrame(t, k)
      /\ lastErr[t] => lastErr'[t]
      /\ h \in Handles /\ n \in Nat
      /\ InitSeen /\ ~ lastErr[t] => hk = h
      /\ Powers[h] = hk /\ ~ lastErr[t] /\ call[t].op = "open" /\ call[t].pc = "tag"
  BY <1>0, <1>1, <1>2, LaunchFacts DEF Sound, LaunchFrame, VerifyEffect
<1>4. \A m : Knows(t, m) => Knows(t, m)'
  BY <1>0, LaunchFacts
<1>5. k.k = "verify" /\ k.h = h /\ k.n = n
  BY <1>1, <1>3 DEF KernelOf, RootKernel
<1>6. ClearAuth => x.auth = 0
  BY <1>3 DEF Ends, OpenEnds
<1>7. /\ y.tag = x.tag /\ y.plain = x.plain /\ y.auth \in {0, 1}
      /\ ClearAuth /\ InitSeen /\ y.auth = 1 => Authentic(h, FrameIn(y, n), n)
      /\ ~ lastErr'[t] => Verdict(y, h, n)
  <2>1. CASE lastErr'[t] = TRUE /\ y = x
    BY <1>3, <1>6, <2>1
  <2>2. CASE y = After(k, x, Powers)
    <3>1. y.auth \in {0, 1}
      BY <1>5, <2>2 DEF After
    <3>2. y.tag = x.tag /\ y.plain = x.plain
      BY <1>5, <2>2, AfterKeeps
    <3>3. InitSeen => (y.auth = 1 <=> Authentic(h, FrameIn(y, n), n))
      BY <1>3, <1>5, <2>2, VerdictGiven
    <3> QED BY <3>1, <3>2, <3>3 DEF Verdict
  <2> QED BY <2>1, <2>2 DEF Pushed
<1>8. Sound(t, y)'
  BY <1>4, <1>7, SoundStays
<1>9. CASE n > 0
  <2>1. done'[t] = Nothing /\ Continued(t) /\ call'[t].pc = "decrypt"
    BY <1>1, <1>3, <1>9, MovesContinue DEF VerifyEffect
  <2>2. call'[t].op = "open" /\ call'[t].h = h /\ call'[t].n = n
    BY <1>1, <1>3, <2>1 DEF Continued
  <2>3. Ends(t, y)'
    BY <1>7, <2>1, <2>2, OpenGoesOn
  <2> QED BY <1>8, <2>3
<1>10. CASE ~ (n > 0)
  <2>1. /\ call'[t] = Idle /\ (done'[t].rc = "OK" => ~ lastErr'[t])
        /\ done'[t].op = "open" /\ done'[t].h = h /\ done'[t].n = n
    BY <1>1, <1>3, <1>10 DEF VerifyEffect, PeekReturns, Returns
  <2>2. Ends(t, y)'
    BY <1>3, <1>7, <1>10, <2>1, ReturnEnds
  <2> QED BY <1>8, <2>2
<1> QED BY <1>9, <1>10

LEMMA DecryptEnds ==
  ASSUME Facts, NEW t \in Threads, DecryptEffect(t), NEW k, k = KernelOf(t),
         NEW x, Sound(t, x), Ends(t, x), NEW y, Pushed(t, k, x, y)
  PROVE  Sound(t, y)' /\ Ends(t, y)'
<1>0. LaunchEffect(t)
  BY DEF LaunchEffect
<1>1. PICK h, n : h = call[t].h /\ n = call[t].n
  OBVIOUS
<1>2. /\ done[t] = Nothing /\ x.auth \in {0, 1} /\ LaunchFrame(t, k)
      /\ lastErr[t] => lastErr'[t]
      /\ call[t].op = "open" /\ call[t].pc = "decrypt" /\ h \in Handles
  BY <1>0, <1>1, LaunchFacts DEF Sound, LaunchFrame, DecryptEffect
<1>3. \A m : Knows(t, m) => Knows(t, m)'
  BY <1>0, LaunchFacts
<1>4. k.k = "decrypt" /\ k.h = h /\ k.n = n
  BY <1>1, <1>2 DEF KernelOf, DecryptKernel
<1>5. /\ ClearAuth /\ InitSeen /\ x.auth = 1 => Authentic(h, FrameIn(x, n), n)
      /\ ~ lastErr[t] => Verdict(x, h, n)
  BY <1>1, <1>2 DEF Ends, OpenEnds
<1>6. /\ call'[t] = Idle /\ (done'[t].rc = "OK" => ~ lastErr'[t])
      /\ done'[t].op = "open" /\ done'[t].h = h /\ done'[t].n = n
  BY <1>1, <1>2 DEF DecryptEffect, PeekReturns, Returns
<1>7. CASE lastErr'[t] = TRUE /\ y = x
  <2>1. Sound(t, y)'
    BY <1>3, <1>7, SoundKept
  <2>2. Ends(t, y)'
    BY <1>6, <1>7, ReturnEnds
  <2> QED BY <2>1, <2>2
<1>8. CASE y = After(k, x, Powers)
  <2> DEFINE f == FrameIn(x, n)
             d == Decrypted(h, f, n)
  <2>1. /\ FrameIn(y, n) = f /\ y.tag = x.tag /\ y.auth = x.auth
        /\ y.plain = IF x.auth = 0 THEN Zeroed ELSE d
    <3>1. /\ \A m : FrameIn(y, m) = FrameIn(x, m)
          /\ y.tag = x.tag /\ y.auth = x.auth
      <4>1. k.k \in {"verify", "decrypt"} /\ k.k # "finalize" /\ k.k # "verify"
        BY <1>4
      <4> QED BY <1>8, <4>1, AfterKeeps
    <3>2. y.plain = IF k.k = "decrypt"
                    THEN IF x.auth = 0 THEN Zeroed
                         ELSE Decrypted(k.h, FrameIn(x, k.n), k.n)
                    ELSE x.plain
      BY <1>8 DEF After
    <3> QED BY <1>4, <3>1, <3>2
  <2>2. /\ d.kind = "decrypted" /\ d.key = h /\ d.frame = f /\ d.n = n
        /\ Zeroed.kind # "decrypted"
    BY DEF Decrypted, Zeroed
  <2>3. ClearAuth /\ InitSeen /\ y.plain.kind = "decrypted" =>
          Authentic(y.plain.key, y.plain.frame, y.plain.n)
    BY <1>2, <1>5, <2>1, <2>2
  <2>4. Sound(t, y)'
    BY <1>2, <1>3, <2>1, <2>3 DEF Sound, TagKnown
  <2>5. Verdict(x, h, n) => Verdict(y, h, n)
    BY <2>1 DEF Verdict
  <2>6. ~ lastErr'[t] => Verdict(y, h, n)
    BY <1>2, <1>5, <2>5
  <2>7. y.plain = IF y.auth = 0 THEN Zeroed ELSE Decrypted(h, FrameIn(y, n), n)
    BY <2>1
  <2>8. Ends(t, y)'
    <3> HIDE DEF f, d
    <3> QED BY <1>2, <1>6, <2>6, <2>7, ReturnEnds
  <2> QED BY <2>4, <2>8
<1> QED BY <1>7, <1>8 DEF Pushed

\* What a launch leaves in the end is sound, and what its call is for.
LEMMA LaunchSound ==
  ASSUME Facts, NEW t \in Threads, LaunchEffect(t), NEW k, k = KernelOf(t),
         NEW x, Sound(t, x), Ends(t, x), NEW y, Pushed(t, k, x, y)
  PROVE  Sound(t, y)' /\ Ends(t, y)'
BY WriteEnds, HashEnds, FinalizeEnds, VerifyEnds, DecryptEnds DEF LaunchEffect

-----------------------------------------------------------------------------
(* The run that is to come of the kernels on a stream, as far as the buffer *)
(* of one thread goes: what the buffer holds after each of them.           *)

Trace(w, q, t, H) ==
  /\ \A i \in 1 .. Len(q) : q[i].b = t => w[i] = After(q[i], w[i - 1], H)
  /\ \A i, j \in 0 .. Len(q) :
       i <= j /\ (\A m \in i + 1 .. j : q[m].b # t) => w[j] = w[i]
  /\ \A i, j \in 0 .. Len(q) :
       i <= j /\ (\A m \in i + 1 .. j : ~ (q[m].b = t /\ q[m].k = "verify")) =>
         w[j].auth = w[i].auth

Future(t, s) ==
  \E w : /\ Trace(w, queue[s], t, Powers)
         /\ w[0] = View(t)
         /\ \A i \in 0 .. Len(queue[s]) : Sound(t, w[i])
         /\ Ends(t, w[Len(queue[s])])

\* On each stream that the kernels of a buffer may be on.
FutureInv == \A t \in Threads, s \in Streams : BufferFree(t, s) => Future(t, s)

Extended(w, n, y) == [i \in 0 .. n + 1 |-> IF i = n + 1 THEN y ELSE w[i]]
Shifted(w, n) == [i \in 0 .. n - 1 |-> w[i + 1]]
Constant(x, n) == [i \in 0 .. n |-> x]

LEMMA TraceExtends ==
  ASSUME NEW q \in Seq(Kernels), NEW k \in Kernels, NEW t, NEW H, NEW w, Trace(w, q, t, H),
         NEW y, y = IF k.b = t THEN After(k, w[Len(q)], H) ELSE w[Len(q)]
  PROVE  Trace(Extended(w, Len(q), y), Append(q, k), t, H)
<1> DEFINE n == Len(q)
           r == Append(q, k)
           v == Extended(w, n, y)
<1>1. /\ n \in Nat /\ Len(r) = n + 1 /\ r[n + 1] = k
      /\ \A i \in 1 .. n : r[i] = q[i]
  OBVIOUS
<1>2. v[n + 1] = y /\ \A i \in 0 .. n : v[i] = w[i]
  BY <1>1 DEF Extended
<1>3. k.b = t => y = After(k, w[n], H)
  OBVIOUS
<1>4. k.b # t => y = w[n]
  OBVIOUS
<1>5. /\ \A i \in 1 .. n : q[i].b = t => w[i] = After(q[i], w[i - 1], H)
      /\ \A i, j \in 0 .. n :
           i <= j /\ (\A m \in i + 1 .. j : q[m].b # t) => w[j] = w[i]
      /\ \A i, j \in 0 .. n :
           i <= j /\ (\A m \in i + 1 .. j : ~ (q[m].b = t /\ q[m].k = "verify")) =>
             w[j].auth = w[i].auth
  BY DEF Trace
<1> HIDE DEF n, r, v
<1>6. ASSUME NEW i \in 1 .. n + 1, r[i].b = t
      PROVE  v[i] = After(r[i], v[i - 1], H)
  <2>1. CASE i = n + 1
    <3>1. v[i - 1] = w[n]
      BY <1>1, <1>2, <2>1
    <3> QED BY <1>1, <1>2, <1>3, <1>6, <2>1, <3>1
  <2>2. CASE i # n + 1
    <3>1. i \in 1 .. n /\ i - 1 \in 0 .. n /\ i \in 0 .. n
      BY <1>1, <2>2
    <3>2. v[i - 1] = w[i - 1] /\ v[i] = w[i] /\ r[i] = q[i]
      BY <1>1, <1>2, <3>1
    <3> QED BY <1>5, <1>6, <3>1, <3>2
  <2> QED BY <2>1, <2>2
<1>7. ASSUME NEW i \in 0 .. n + 1, NEW j \in 0 .. n + 1, i <= j,
             \A m \in i + 1 .. j : r[m].b # t
      PROVE  v[j] = v[i]
  <2>1. CASE j = n + 1 /\ i # n + 1
    <3>1. n + 1 \in i + 1 .. j /\ i \in 0 .. n /\ n \in 0 .. n /\ i <= n
      BY <1>1, <2>1
    <3>2. v[j] = w[n] /\ v[i] = w[i]
      BY <1>1, <1>2, <1>4, <1>7, <2>1, <3>1
    <3>3. \A m \in i + 1 .. n : m \in i + 1 .. j /\ m \in 1 .. n
      BY <1>1, <2>1
    <3>4. \A m \in i + 1 .. n : q[m].b # t
      BY <1>1, <1>7, <3>3
    <3> QED BY <1>5, <3>1, <3>2, <3>4
  <2>2. CASE j # n + 1
    <3>1. i \in 0 .. n /\ j \in 0 .. n
      BY <1>1, <1>7, <2>2
    <3>2. v[j] = w[j] /\ v[i] = w[i]
      BY <1>2, <3>1
    <3>3. \A m \in i + 1 .. j : m \in 1 .. n
      BY <1>1, <3>1
    <3>4. \A m \in i + 1 .. j : q[m].b # t
      BY <1>1, <1>7, <3>3
    <3> QED BY <1>5, <1>7, <3>1, <3>2, <3>4
  <2>3. CASE i = n + 1
    BY <1>1, <1>7, <2>3
  <2> QED BY <2>1, <2>2, <2>3
<1>8. ASSUME NEW i \in 0 .. n + 1, NEW j \in 0 .. n + 1, i <= j,
             \A m \in i + 1 .. j : ~ (r[m].b = t /\ r[m].k = "verify")
      PROVE  v[j].auth = v[i].auth
  <2>1. CASE j = n + 1 /\ i # n + 1
    <3>1. n + 1 \in i + 1 .. j /\ i \in 0 .. n /\ n \in 0 .. n /\ i <= n
      BY <1>1, <2>1
    <3>2. ~ (k.b = t /\ k.k = "verify")
      BY <1>1, <1>8, <3>1
    <3>3. y.auth = w[n].auth
      BY <1>3, <1>4, <3>2, AfterKeeps
    <3>4. v[j].auth = w[n].auth /\ v[i] = w[i]
      BY <1>2, <2>1, <3>1, <3>3
    <3>5. \A m \in i + 1 .. n : m \in i + 1 .. j /\ m \in 1 .. n
      BY <1>1, <2>1
    <3>6. \A m \in i + 1 .. n : ~ (q[m].b = t /\ q[m].k = "verify")
      BY <1>1, <1>8, <3>5
    <3> QED BY <1>5, <3>1, <3>4, <3>6
  <2>2. CASE j # n + 1
    <3>1. i \in 0 .. n /\ j \in 0 .. n
      BY <1>1, <1>8, <2>2
    <3>2. v[j] = w[j] /\ v[i] = w[i]
      BY <1>2, <3>1
    <3>3. \A m \in i + 1 .. j : m \in 1 .. n
      BY <1>1, <3>1
    <3>4. \A m \in i + 1 .. j : ~ (q[m].b = t /\ q[m].k = "verify")
      BY <1>1, <1>8, <3>3
    <3> QED BY <1>5, <1>8, <3>1, <3>2, <3>4
  <2>3. CASE i = n + 1
    BY <1>1, <1>8, <2>3
  <2> QED BY <2>1, <2>2, <2>3
<1>9. Trace(v, r, t, H)
  BY <1>1, <1>6, <1>7, <1>8 DEF Trace
<1> QED BY <1>9 DEF n, r, v

LEMMA TraceShifts ==
  ASSUME NEW q \in Seq(Kernels), q # <<>>, NEW t, NEW H, NEW w, Trace(w, q, t, H)
  PROVE  Trace(Shifted(w, Len(q)), Tail(q), t, H)
<1> DEFINE n == Len(q)
           r == Tail(q)
           v == Shifted(w, n)
<1>1. /\ n \in Nat \ {0} /\ Len(r) = n - 1
      /\ \A i \in 1 .. n - 1 : r[i] = q[i + 1]
  OBVIOUS
<1>2. \A i \in 0 .. n - 1 : v[i] = w[i + 1]
  BY <1>1 DEF Shifted
<1>3. /\ \A i \in 1 .. n : q[i].b = t => w[i] = After(q[i], w[i - 1], H)
      /\ \A i, j \in 0 .. n :
           i <= j /\ (\A m \in i + 1 .. j : q[m].b # t) => w[j] = w[i]
      /\ \A i, j \in 0 .. n :
           i <= j /\ (\A m \in i + 1 .. j : ~ (q[m].b = t /\ q[m].k = "verify")) =>
             w[j].auth = w[i].auth
  BY DEF Trace
<1> HIDE DEF n, r, v
<1>4. ASSUME NEW i \in 1 .. n - 1, r[i].b = t
      PROVE  v[i] = After(r[i], v[i - 1], H)
  <2>1. i + 1 \in 1 .. n /\ i \in 0 .. n - 1 /\ i - 1 \in 0 .. n - 1 /\ (i - 1) + 1 = i
        /\ (i + 1) - 1 = i
    BY <1>1
  <2>2. v[i] = w[i + 1] /\ v[i - 1] = w[i] /\ r[i] = q[i + 1]
    BY <1>1, <1>2, <2>1
  <2>3. w[i + 1] = After(q[i + 1], w[(i + 1) - 1], H)
    BY <1>3, <1>4, <2>1, <2>2
  <2> QED BY <2>1, <2>2, <2>3
<1>5. ASSUME NEW i \in 0 .. n - 1, NEW j \in 0 .. n - 1, i <= j
      PROVE  /\ i + 1 \in 0 .. n /\ j + 1 \in 0 .. n /\ i + 1 <= j + 1
             /\ v[i] = w[i + 1] /\ v[j] = w[j + 1]
             /\ \A m \in i + 1 + 1 .. j + 1 : m - 1 \in i + 1 .. j /\ r[m - 1] = q[m]
  <2>1. i + 1 \in 0 .. n /\ j + 1 \in 0 .. n /\ i + 1 <= j + 1
    BY <1>1, <1>5
  <2>2. \A m \in i + 1 + 1 .. j + 1 :
          m - 1 \in i + 1 .. j /\ m - 1 \in 1 .. n - 1 /\ (m - 1) + 1 = m
    BY <1>1, <1>5
  <2> QED BY <1>1, <1>2, <2>1, <2>2
<1>6. ASSUME NEW i \in 0 .. n - 1, NEW j \in 0 .. n - 1, i <= j,
             \A m \in i + 1 .. j : r[m].b # t
      PROVE  v[j] = v[i]
  <2>1. \A m \in i + 1 + 1 .. j + 1 : q[m].b # t
    BY <1>5, <1>6
  <2> QED BY <1>3, <1>5, <1>6, <2>1
<1>7. ASSUME NEW i \in 0 .. n - 1, NEW j \in 0 .. n - 1, i <= j,
             \A m \in i + 1 .. j : ~ (r[m].b = t /\ r[m].k = "verify")
      PROVE  v[j].auth = v[i].auth
  <2>1. \A m \in i + 1 + 1 .. j + 1 : ~ (q[m].b = t /\ q[m].k = "verify")
    BY <1>5, <1>7
  <2> QED BY <1>3, <1>5, <1>7, <2>1
<1>8. Trace(v, r, t, H)
  BY <1>1, <1>4, <1>6, <1>7 DEF Trace
<1> QED BY <1>8 DEF n, r, v

LEMMA TraceConstant ==
  ASSUME NEW q, Len(q) \in Nat, NEW t, NEW H, NEW x, \A i \in 1 .. Len(q) : q[i].b # t
  PROVE  Trace(Constant(x, Len(q)), q, t, H)
BY DEF Trace, Constant


\* A trace makes a future.
LEMMA FutureSame ==
  ASSUME NEW u, NEW s, NEW q, NEW H, NEW w, Trace(w, q, u, H), queue'[s] = q, Powers' = H,
         w[0] = View(u)', \A i \in 0 .. Len(q) : Sound(u, w[i])', Ends(u, w[Len(q)])'
  PROVE  Future(u, s)'
<1>1. Trace(w, queue'[s], u, Powers')
  OBVIOUS
<1>2. \A i \in 0 .. Len(queue'[s]) : Sound(u, w[i])'
  OBVIOUS
<1>3. PICK z : z = w[Len(q)]
  OBVIOUS
<1>4. Ends(u, z)' /\ w[Len(queue'[s])] = z
  BY <1>3
<1> QED BY <1>1, <1>2, <1>4 DEF Future

LEMMA FutureGrows ==
  ASSUME NEW u, NEW s, NEW q \in Seq(Kernels), NEW k \in Kernels, NEW H, NEW w,
         Trace(w, q, u, H), queue'[s] = Append(q, k), Powers' = H, w[0] = View(u)',
         NEW y, y = IF k.b = u THEN After(k, w[Len(q)], H) ELSE w[Len(q)],
         \A i \in 0 .. Len(q) : Sound(u, w[i])', Sound(u, y)', Ends(u, y)'
  PROVE  Future(u, s)'
<1> DEFINE n == Len(q)
           v == Extended(w, n, y)
           r == Append(q, k)
<1>1. Trace(v, r, u, H)
  BY TraceExtends
<1>2. n \in Nat /\ Len(r) = n + 1
  OBVIOUS
<1>3. v[n + 1] = y /\ \A i \in 0 .. n : v[i] = w[i]
  BY <1>2 DEF Extended
<1> HIDE DEF v, r
<1>4. v[0] = View(u)' /\ v[Len(r)] = y
  BY <1>2, <1>3
<1>5. \A i \in 0 .. Len(r) : Sound(u, v[i])'
  <2> SUFFICES ASSUME NEW i \in 0 .. Len(r) PROVE Sound(u, v[i])'
    OBVIOUS
  <2>1. i = n + 1 \/ i \in 0 .. n
    BY <1>2
  <2> QED BY <1>3, <2>1
<1>6. queue'[s] = r
  BY DEF r
<1>7. Ends(u, v[Len(r)])'
  BY <1>4
<1> QED BY <1>1, <1>4, <1>5, <1>6, <1>7, FutureSame

LEMMA LaunchFuture ==
  ASSUME Facts, FutureInv, NEW t \in Threads, LaunchEffect(t)
  PROVE  FutureInv'
<1>1. PICK k : k = KernelOf(t)
  OBVIOUS
<1>2. PICK r : r = call[t].s
  OBVIOUS
<1>3. PICK H : H = Powers
  OBVIOUS
<1>4. /\ TInv /\ LaunchFrame(t, k) /\ k \in Kernels /\ k.b = t /\ r \in Streams /\ Others(t)
      /\ \/ /\ queue'[r] = Append(queue[r], k) /\ \A s \in Streams \ {r} : queue'[s] = queue[s]
            /\ lastErr' = lastErr
         \/ queue' = queue /\ lastErr'[t] = TRUE
      /\ buf' = buf /\ handle' = handle
  BY <1>1, <1>2, LaunchFacts DEF LaunchFrame, Launches
<1>5. /\ Powers' = H
      /\ \A u \in Threads : View(u)' = View(u)
      /\ \A u \in Threads : \A m : Knows(u, m) => Knows(u, m)'
  BY <1>3, <1>4, LaunchKnows DEF Powers, View
<1> SUFFICES ASSUME NEW u \in Threads, NEW s \in Streams, BufferFree(u, s)'
             PROVE  Future(u, s)'
  BY DEF FutureInv
<1>6. BufferFree(u, s)
  <2> SUFFICES ASSUME NEW z \in Streams \ {s}, NEW p \in KernelsOn(z) PROVE p.b # u
    BY DEF BufferFree
  <2>1. p \in KernelsOn(z)'
    <3>1. CASE queue'[z] = queue[z]
      BY <3>1 DEF KernelsOn
    <3>2. CASE queue'[z] = Append(queue[z], k)
      BY <1>4, <3>2, QueuedStay
    <3> QED BY <1>4, <3>1, <3>2
  <2> QED BY <2>1 DEF BufferFree
<1>7. PICK q : q = queue[s]
  OBVIOUS
<1>8. q \in Seq(Kernels) /\ Len(q) \in Nat
  BY <1>4, <1>7, KernelsAre
<1>9. PICK w : /\ Trace(w, q, u, H) /\ w[0] = View(u)
               /\ \A i \in 0 .. Len(q) : Sound(u, w[i])
               /\ Ends(u, w[Len(q)])
  BY <1>3, <1>6, <1>7 DEF FutureInv, Future
<1>10. w[0] = View(u)' /\ \A i \in 0 .. Len(q) : Sound(u, w[i])'
  BY <1>5, <1>9, SoundKept
<1>11. PICK x : x = w[Len(q)]
  OBVIOUS
<1>12. Sound(u, x) /\ Ends(u, x) /\ Sound(u, x)'
  BY <1>8, <1>9, <1>10, <1>11
<1>13. CASE u # t
  <2>1. Ends(u, x)'
    <3>1. call'[u] = call[u] /\ done'[u] = done[u] /\ lastErr'[u] = lastErr[u]
      BY <1>4, <1>13 DEF Others
    <3> QED BY <1>5, <1>12, <3>1, EndsKept
  <2>2. CASE queue'[s] = q
    BY <1>5, <1>9, <1>10, <1>11, <2>1, <2>2, FutureSame
  <2>3. CASE queue'[s] = Append(q, k)
    <3>1. x = IF k.b = u THEN After(k, w[Len(q)], H) ELSE w[Len(q)]
      BY <1>4, <1>11, <1>13
    <3> QED BY <1>4, <1>5, <1>8, <1>9, <1>10, <1>12, <2>1, <2>3, <3>1, FutureGrows
  <2> QED BY <1>4, <1>7, <2>2, <2>3
<1>14. CASE u = t /\ queue'[r] = Append(queue[r], k) /\ lastErr' = lastErr
  <2>1. k \in KernelsOn(r)'
    BY <1>4, <1>14, QueuedStay
  <2>2. s = r
    BY <1>4, <1>14, <2>1 DEF BufferFree
  <2>3. PICK y : y = After(k, x, H)
    OBVIOUS
  <2>4. Pushed(t, k, x, y)
    BY <1>2, <1>3, <1>14, <2>3 DEF Pushed
  <2>5. Sound(t, y)' /\ Ends(t, y)'
    BY <1>1, <1>12, <1>14, <2>4, LaunchSound
  <2>6. y = IF k.b = u THEN After(k, w[Len(q)], H) ELSE w[Len(q)]
    BY <1>4, <1>11, <1>14, <2>3
  <2>7. queue'[s] = Append(q, k)
    BY <1>7, <1>14, <2>2
  <2> QED BY <1>4, <1>5, <1>8, <1>9, <1>10, <1>14, <2>5, <2>6, <2>7, FutureGrows
<1>15. CASE u = t /\ queue' = queue /\ lastErr'[t] = TRUE
  <2>1. Pushed(t, k, x, x)
    BY <1>15 DEF Pushed
  <2>2. Ends(t, x)'
    BY <1>1, <1>12, <1>15, <2>1, LaunchSound
  <2> QED BY <1>5, <1>7, <1>9, <1>10, <1>11, <1>15, <2>2, FutureSame
<1> QED BY <1>4, <1>13, <1>14, <1>15


\* A trace without a kernel of the thread goes by any powers.
LEMMA TraceIdle ==
  ASSUME NEW w, NEW q, NEW t, NEW H, NEW G, Trace(w, q, t, H),
         H = G \/ \A i \in 1 .. Len(q) : q[i].b # t
  PROVE  Trace(w, q, t, G)
BY DEF Trace

\* The tags that a caller can write are those of committed messages.
LEMMA UploadKnown ==
  ASSUME NEW t, NEW key \in Handles, NEW n \in Lens
  PROVE  TagKnown(t, GcmFrame(key, 0, 0, n).tag)
<1> DEFINE ct == IF n = 0 THEN NoCt ELSE [key |-> key, iv |-> 0, pt |-> 0]
<1>1. GcmFrame(key, 0, 0, n).tag = Tag(key, 0, Root(key, ct, n))
  BY DEF GcmFrame, GcmTag, Root
<1>2. n \in Nat
  BY ConstantsAssumption
<1>3. n + 1 - 1 = n /\ (n + 1 > 1 => n > 0)
  BY <1>2
<1>4. n > 0 => ct.pt = 0
  BY <1>2
<1>5. Knows(t, [key |-> key, n |-> n, pt |-> 0])
  BY DEF Knows, Committed
<1> HIDE DEF ct
<1>6. PICK tag : tag = GcmFrame(key, 0, 0, n).tag
  OBVIOUS
<1>7. tag.rk = key /\ tag.root.hi = n + 1 /\ tag.root.ct = ct
  BY <1>1, <1>6 DEF Tag, Root
<1>8. tag.root.hi - 1 = n /\ (tag.root.hi > 1 => tag.root.ct.pt = 0)
  <2>1. ct.pt = tag.root.ct.pt
    BY <1>7
  <2> QED BY <1>2, <1>3, <1>4, <1>7, <2>1
<1>9. tag.root.hi > 1 => Knows(t, [key |-> tag.rk, n |-> tag.root.hi - 1, pt |-> tag.root.ct.pt])
  BY <1>5, <1>7, <1>8
<1>10. TagKnown(t, tag)
  BY <1>8, <1>9 DEF TagKnown
<1> QED BY <1>6, <1>10

LEMMA NoTagKnown == ASSUME NEW t PROVE TagKnown(t, NoTag)
BY ConstantsAssumption DEF TagKnown, NoTag, Tag, NoNode

LEMMA RewrittenSound ==
  ASSUME TInv', NEW t \in Threads, Rewritten(t), Sound(t, View(t)),
         queue' = queue, sealed' = sealed, NEW X, X = View(t)'
  PROVE  Sound(t, X)' /\ Ends(t, X)'
<1>1. \A m : Knows(t, m) => Knows(t, m)'
  BY KnowsSame
<1>2. X.auth \in {0, 1}
  <2>1. buf' \in [Threads -> BufT]
    BY DEF TInv, TypeOK, BufT
  <2> QED BY <2>1 DEF View, BufT
<1>3. X.tag = buf'[t].tag /\ X.plain = buf'[t].plain
  BY DEF View
<1>4. TagKnown(t, X.tag)'
  <2>1. CASE X.tag = buf[t].tag
    <3>1. TagKnown(t, X.tag)
      BY <2>1 DEF Sound, View
    <3> QED BY <1>1, <3>1 DEF TagKnown
  <2>2. CASE X.tag = NoTag
    <3>1. TagKnown(t, X.tag)
      BY <2>2, NoTagKnown
    <3> QED BY <1>1, <3>1 DEF TagKnown
  <2>3. ASSUME NEW key \in Handles, NEW n \in Lens, X.tag = GcmFrame(key, 0, 0, n).tag
        PROVE  TagKnown(t, X.tag)'
    <3>1. TagKnown(t, X.tag)
      BY <2>3, UploadKnown
    <3> QED BY <1>1, <3>1 DEF TagKnown
  <2> QED BY <1>3, <2>1, <2>2, <2>3 DEF Rewritten
<1>5. ClearAuth /\ InitSeen /\ X.plain.kind = "decrypted" =>
        Authentic(X.plain.key, X.plain.frame, X.plain.n)
  BY <1>3 DEF Rewritten, Sound, View, Poison
<1>6. Sound(t, X)'
  BY <1>2, <1>4, <1>5 DEF Sound
<1>7. Ends(t, X)'
  BY ReturnEnds DEF Rewritten, Nothing
<1> QED BY <1>6, <1>7

\* The thread of a step that launches nothing is as far as it was.
LEMMA StillEnds ==
  ASSUME NEW t \in Threads, StillFrame(t), NEW x, Ends(t, x),
         Begun(t) /\ call'[t].op = "open" /\ ClearAuth => x.auth = 0
  PROVE  Ends(t, x)'
<1>1. done'[t] = done[t] \/ done'[t].rc # "OK"
  BY DEF StillFrame
<1>2. /\ call'[t].pc \notin {"encrypt", "combine", "tag", "decrypt"}
      /\ call'[t].pc = "segment" => call'[t].op = "open"
  BY DEF StillFrame
<1>3. SealEnds(t, x)'
  BY <1>1, <1>2 DEF Ends, SealEnds, InitSeen
<1>4. ASSUME call'[t].op = "open", ClearAuth PROVE x.auth = 0
  <2>1. (Continued(t) /\ call[t].pc # "decrypt") \/ Begun(t)
    BY <1>4 DEF StillFrame, Idle
  <2> QED BY <1>4, <2>1 DEF Ends, OpenEnds, Continued
<1>5. OpenEnds(t, x)'
  BY <1>1, <1>2, <1>4 DEF Ends, OpenEnds, Verdict, InitSeen
<1> QED BY <1>3, <1>5 DEF Ends

LEMMA StillFuture ==
  ASSUME TInv, TInv', FutureInv, NEW t \in Threads, StillFrame(t)
  PROVE  FutureInv'
<1>1. PICK H : H = Powers
  OBVIOUS
<1>2. PICK G : G = Powers'
  OBVIOUS
<1>3. /\ queue' = queue /\ sealed' = sealed /\ Others(t)
      /\ DeviceIdle \/ H = G
      /\ View(t)' = View(t) \/ Rewritten(t)
  BY <1>1, <1>2 DEF StillFrame, Powers
<1>4. /\ \A s \in Streams : KernelsOn(s)' = KernelsOn(s)
      /\ \A u \in Threads : \A m : Knows(u, m) => Knows(u, m)'
      /\ \A u \in Threads \ {t} : View(u)' = View(u)
  BY <1>3, KnowsSame DEF KernelsOn, Others, View
<1> SUFFICES ASSUME NEW u \in Threads, NEW s \in Streams, BufferFree(u, s)'
             PROVE  Future(u, s)'
  BY DEF FutureInv
<1>5. BufferFree(u, s)
  BY <1>4 DEF BufferFree
<1>6. PICK q : q = queue[s]
  OBVIOUS
<1>7. /\ q \in Seq(Kernels) /\ Len(q) \in Nat
      /\ KernelsOn(s) = {q[i] : i \in 1 .. Len(q)}
      /\ DeviceIdle => Len(q) = 0
  <2>1. DeviceIdle => q = <<>>
    BY <1>6 DEF DeviceIdle
  <2> QED BY <1>6, <2>1, KernelsAre
<1>8. PICK w : /\ Trace(w, q, u, H) /\ w[0] = View(u)
               /\ \A i \in 0 .. Len(q) : Sound(u, w[i])
               /\ Ends(u, w[Len(q)])
  BY <1>1, <1>5, <1>6 DEF FutureInv, Future
<1>9. Trace(w, q, u, G)
  BY <1>3, <1>7, <1>8, TraceIdle
<1>10. \A i \in 0 .. Len(q) : Sound(u, w[i])'
  BY <1>4, <1>8, SoundKept
<1>11. PICK x : x = w[Len(q)]
  OBVIOUS
<1>12. CASE u # t
  <2>1. call'[u] = call[u] /\ done'[u] = done[u] /\ lastErr'[u] = lastErr[u]
    BY <1>3, <1>12 DEF Others
  <2>2. Ends(u, x)'
    BY <1>4, <1>8, <1>11, <2>1, EndsKept
  <2> QED BY <1>2, <1>3, <1>4, <1>6, <1>8, <1>9, <1>10, <1>11, <1>12, <2>2, FutureSame
<1>13. CASE u = t /\ View(t)' = View(t)
  <2>1. ASSUME Begun(t), call'[t].op = "open", ClearAuth PROVE x.auth = 0
    <3>1. \A p \in KernelsOn(s) : ~ (p.b = t /\ p.k = "verify")
      BY <2>1 DEF Begun, BufferFree
    <3>2. \A m \in 1 .. Len(q) : ~ (q[m].b = t /\ q[m].k = "verify")
      BY <1>7, <3>1
    <3>3. w[Len(q)].auth = w[0].auth
      <4>1. 0 \in 0 .. Len(q) /\ Len(q) \in 0 .. Len(q) /\ 0 <= Len(q) /\ 0 + 1 = 1
        BY <1>7
      <4> QED BY <1>8, <1>13, <3>2, <4>1 DEF Trace
    <3> QED BY <1>8, <1>11, <1>13, <2>1, <3>3 DEF Begun, View
  <2>2. Ends(t, x)'
    BY <1>8, <1>11, <1>13, <2>1, StillEnds
  <2> QED BY <1>2, <1>3, <1>6, <1>8, <1>9, <1>10, <1>11, <1>13, <2>2, FutureSame
<1>14. CASE u = t /\ Rewritten(t)
  <2>1. PICK X : X = View(t)'
    OBVIOUS
  <2>2. 0 \in 0 .. Len(q)
    BY <1>7
  <2>3. Sound(t, View(t))
    BY <1>8, <1>14, <2>2
  <2>4. Sound(t, X)' /\ Ends(t, X)'
    BY <1>3, <1>14, <2>1, <2>3, RewrittenSound
  <2>5. \A i \in 1 .. Len(q) : q[i].b # t
    BY <1>7, <1>14 DEF Rewritten, BufferQuiet
  <2>6. PICK v : v = Constant(X, Len(q))
    OBVIOUS
  <2>7. Trace(v, q, t, G)
    BY <1>7, <2>5, <2>6, TraceConstant
  <2>8. Len(q) \in 0 .. Len(q) /\ \A i \in 0 .. Len(q) : v[i] = X
    BY <1>7, <2>6 DEF Constant
  <2> QED BY <1>2, <1>3, <1>6, <1>14, <2>1, <2>2, <2>4, <2>7, <2>8, FutureSame
<1> QED BY <1>3, <1>12, <1>13, <1>14


\* The future of a buffer when the first kernel of its stream has run.
LEMMA FutureShifts ==
  ASSUME NEW u, NEW s, NEW q \in Seq(Kernels), q # <<>>, NEW H, NEW w, Trace(w, q, u, H),
         queue'[s] = Tail(q), Powers' = H, w[1] = View(u)',
         \A i \in 0 .. Len(q) : Sound(u, w[i])', Ends(u, w[Len(q)])'
  PROVE  Future(u, s)'
<1> DEFINE n == Len(q)
           r == Tail(q)
           v == Shifted(w, n)
<1>1. Trace(v, r, u, H)
  BY TraceShifts
<1>2. n \in Nat \ {0} /\ Len(r) = n - 1
  OBVIOUS
<1>3. /\ \A i \in 0 .. n - 1 : v[i] = w[i + 1] /\ i + 1 \in 0 .. n
      /\ 0 \in 0 .. n - 1 /\ n - 1 \in 0 .. n - 1 /\ (n - 1) + 1 = n /\ 0 + 1 = 1
  BY <1>2 DEF Shifted
<1> HIDE DEF v, r
<1>4. v[0] = View(u)' /\ v[Len(r)] = w[n]
  BY <1>2, <1>3
<1>5. \A i \in 0 .. Len(r) : Sound(u, v[i])'
  <2> SUFFICES ASSUME NEW i \in 0 .. Len(r) PROVE Sound(u, v[i])'
    OBVIOUS
  <2>1. v[i] = w[i + 1] /\ i + 1 \in 0 .. n
    BY <1>2, <1>3
  <2>2. PICK j : j = i + 1
    OBVIOUS
  <2> QED BY <2>1, <2>2
<1>6. queue'[s] = r
  BY DEF r
<1>7. Ends(u, v[Len(r)])'
  BY <1>4
<1> QED BY <1>1, <1>4, <1>5, <1>6, <1>7, FutureSame

LEMMA RunFuture ==
  ASSUME CInv, FutureInv, NEW s \in Streams, NEW k, Runs(s, k), RunEffect(s, k)
  PROVE  FutureInv'
<1>1. PICK H : H = Powers
  OBVIOUS
<1>2. /\ TInv /\ StreamsApart /\ k \in KernelsOn(s)
      /\ \A u \in Threads : call'[u] = call[u] /\ done'[u] = done[u] /\ lastErr'[u] = lastErr[u]
      /\ \A r \in Streams \ {s} : queue'[r] = queue[r]
      /\ queue'[s] = Tail(queue[s]) /\ Powers' = H
      /\ \A u \in Threads : \A m : Knows(u, m) => Knows(u, m)'
  BY <1>1, HeadKernel, RunKnows DEF CInv, MInv, Runs, Powers
<1>3. /\ View(k.b)' = After(k, View(k.b), H)
      /\ \A u \in Threads \ {k.b} : View(u)' = View(u)
  BY <1>1, RunView DEF View
<1> SUFFICES ASSUME NEW u \in Threads, NEW z \in Streams, BufferFree(u, z)'
             PROVE  Future(u, z)'
  BY DEF FutureInv
<1>4. PICK q : q = queue[s]
  OBVIOUS
<1>5. /\ q \in Seq(Kernels) /\ q # <<>> /\ k = q[1] /\ Len(q) \in Nat \ {0}
      /\ 0 \in 0 .. Len(q) /\ 1 \in 0 .. Len(q) /\ Len(q) \in 0 .. Len(q) /\ 1 \in 1 .. Len(q)
      /\ 1 <= Len(q) /\ 1 - 1 = 0
      /\ queue'[s] = Tail(q)
  BY <1>2, <1>4, HeadKernel
<1>6. CASE k.b = u
  <2>1. BufferFree(u, s)
    BY <1>2, <1>6, OneStream
  <2>2. PICK w : /\ Trace(w, q, u, H) /\ w[0] = View(u)
                 /\ \A i \in 0 .. Len(q) : Sound(u, w[i])
                 /\ Ends(u, w[Len(q)])
    BY <1>1, <1>4, <2>1 DEF FutureInv, Future
  <2>3. w[1] = View(u)'
    <3>1. w[1] = After(q[1], w[0], H)
      BY <1>5, <1>6, <2>2 DEF Trace
    <3> QED BY <1>3, <1>5, <1>6, <2>2, <3>1
  <2>4. \A i \in 0 .. Len(q) : Sound(u, w[i])'
    BY <1>2, <2>2, SoundKept
  <2>5. PICK x : x = w[Len(q)]
    OBVIOUS
  <2>6. Ends(u, x)'
    BY <1>2, <2>2, <2>5, EndsKept
  <2>7. CASE z = s
    BY <1>2, <1>5, <2>2, <2>3, <2>4, <2>5, <2>6, <2>7, FutureShifts
  <2>8. CASE z # s
    <3>1. PICK p : p = queue[z]
      OBVIOUS
    <3>2. p \in Seq(Kernels) /\ Len(p) \in Nat /\ queue'[z] = p
          /\ KernelsOn(z) = {p[i] : i \in 1 .. Len(p)}
      BY <1>2, <2>8, <3>1, KernelsAre
    <3>3. \A i \in 1 .. Len(p) : p[i].b # u
      BY <2>1, <2>8, <3>2 DEF BufferFree
    <3>4. \A m \in 1 + 1 .. Len(q) : q[m].b # u
      <4> SUFFICES ASSUME NEW m \in 1 + 1 .. Len(q) PROVE q[m].b # u
        OBVIOUS
      <4>1. m - 1 \in 1 .. Len(q) - 1 /\ (m - 1) + 1 = m
        BY <1>5
      <4>2. DOMAIN Tail(q) = 1 .. Len(q) - 1 /\ Tail(q)[m - 1] = q[m]
        BY <1>5, <4>1
      <4>3. q[m] \in KernelsOn(s)'
        BY <1>5, <4>1, <4>2 DEF KernelsOn
      <4> QED BY <2>8, <4>3 DEF BufferFree
    <3>5. x = w[1]
      BY <1>5, <2>2, <2>5, <3>4 DEF Trace
    <3>6. PICK v : v = Constant(x, Len(p))
      OBVIOUS
    <3>7. Trace(v, p, u, H)
      BY <3>2, <3>3, <3>6, TraceConstant
    <3>8. \A i \in 0 .. Len(p) : v[i] = x
      BY <3>6 DEF Constant
    <3>9. 0 \in 0 .. Len(p) /\ Len(p) \in 0 .. Len(p) /\ Sound(u, x)' /\ v[0] = View(u)'
          /\ v[Len(p)] = x
      BY <1>5, <2>3, <2>4, <2>5, <3>2, <3>5, <3>8
    <3>10. \A i \in 0 .. Len(p) : Sound(u, v[i])'
      BY <3>8, <3>9
    <3> QED BY <1>2, <2>6, <3>2, <3>7, <3>9, <3>10, FutureSame
  <2> QED BY <2>7, <2>8
<1>7. CASE k.b # u
  <2>1. BufferFree(u, z)
    BY <1>2, <1>7, RunLeaves DEF BufferFree
  <2>2. PICK p : p = queue[z]
    OBVIOUS
  <2>3. PICK w : /\ Trace(w, p, u, H) /\ w[0] = View(u)
                 /\ \A i \in 0 .. Len(p) : Sound(u, w[i])
                 /\ Ends(u, w[Len(p)])
    BY <1>1, <2>1, <2>2 DEF FutureInv, Future
  <2>4. w[0] = View(u)'
    BY <1>3, <1>7, <2>3
  <2>5. \A i \in 0 .. Len(p) : Sound(u, w[i])'
    BY <1>2, <2>3, SoundKept
  <2>6. PICK x : x = w[Len(p)]
    OBVIOUS
  <2>7. Ends(u, x)'
    BY <1>2, <2>3, <2>6, EndsKept
  <2>8. CASE z # s
    BY <1>2, <2>2, <2>3, <2>4, <2>5, <2>6, <2>7, <2>8, FutureSame
  <2>9. CASE z = s
    <3>1. p = q
      BY <1>4, <2>2, <2>9
    <3>2. w[1] = w[0]
      <4>1. \A m \in 0 + 1 .. 1 : q[m].b # u
        BY <1>5, <1>7
      <4>2. 0 <= 1
        OBVIOUS
      <4> QED BY <1>5, <2>3, <3>1, <4>1, <4>2 DEF Trace
    <3> QED BY <1>2, <1>5, <2>3, <2>4, <2>5, <2>6, <2>7, <2>9, <3>1, <3>2, FutureShifts
  <2> QED BY <2>8, <2>9
<1> QED BY <1>6, <1>7


-----------------------------------------------------------------------------
(* The invariant.                                                          *)

PipeInv == Facts /\ Answered /\ FutureInv

LEMMA InitPipeline == Init => PipeInv
<1> SUFFICES ASSUME Init PROVE PipeInv
  OBVIOUS
<1>1. /\ \A s \in Streams : queue[s] = <<>> /\ Len(queue[s]) = 0
      /\ \A t \in Threads : call[t] = Idle /\ done[t] = Nothing
      /\ \A h \in Handles : handle[h].h_pow2 = None /\ handle[h].state # "live"
  BY DEF Init
<1>2. PICK auth \in [Threads -> {0, 1}] :
        buf = [t \in Threads |->
                 [ver |-> 0, iv |-> 0, ct |-> NoCt, tag |-> NoTag, n |-> 0,
                  plain |-> Poison, auth |-> auth[t]]]
  BY DEF Init
<1>3. \A t \in Threads : /\ buf[t].n = 0 /\ buf[t].tag = NoTag /\ buf[t].plain = Poison
                         /\ buf[t].auth \in {0, 1}
  BY <1>2
<1>4. KeysOf /\ LengthsKnown /\ DoneCleared /\ Answered
  BY <1>1, <1>3 DEF KeysOf, LengthsKnown, DoneCleared, Answered, Idle, Nothing
<1>5. ASSUME NEW t \in Threads, NEW s \in Streams
      PROVE  Future(t, s)
  <2> DEFINE x == View(t)
  <2>1. Sound(t, x)
    BY <1>3, NoTagKnown DEF Sound, View, Poison
  <2>2. Ends(t, x)
    BY <1>1 DEF Ends, SealEnds, OpenEnds, Idle, Nothing
  <2> DEFINE w == Constant(x, 0)
  <2>3. Trace(w, queue[s], t, Powers)
    <3>1. 1 .. Len(queue[s]) = {}
      BY <1>1
    <3> HIDE DEF x
    <3> QED BY <1>1, <3>1, TraceConstant
  <2>4. w[0] = x /\ \A i \in 0 .. 0 : w[i] = x
    BY DEF Constant
  <2> HIDE DEF w
  <2>5. \A i \in 0 .. Len(queue[s]) : Sound(t, w[i])
    BY <1>1, <2>1, <2>4
  <2>6. Ends(t, w[Len(queue[s])])
    BY <1>1, <2>2, <2>4
  <2> QED BY <2>3, <2>4, <2>5, <2>6 DEF Future
<1> QED BY <1>4, <1>5, InitChains DEF PipeInv, Facts, FutureInv

LEMMA StutterPipeline ==
  ASSUME PipeInv, CInv', UNCHANGED vars
  PROVE  PipeInv'
<1>1. /\ call' = call /\ done' = done /\ lastErr' = lastErr /\ handle' = handle /\ queue' = queue
      /\ buf' = buf /\ sealed' = sealed
  BY DEF vars
<1>2. KeysOf' /\ LengthsKnown' /\ DoneCleared' /\ Answered'
  BY <1>1 DEF PipeInv, Facts, KeysOf, LengthsKnown, DoneCleared, Answered, InitSeen
<1>3. ASSUME NEW u \in Threads, NEW s \in Streams, BufferFree(u, s)'
      PROVE  Future(u, s)'
  <2>1. BufferFree(u, s)
    BY <1>1, <1>3 DEF BufferFree, KernelsOn
  <2>2. PICK q, H : q = queue[s] /\ H = Powers
    OBVIOUS
  <2>3. PICK w : /\ Trace(w, q, u, H) /\ w[0] = View(u)
                 /\ \A i \in 0 .. Len(q) : Sound(u, w[i])
                 /\ Ends(u, w[Len(q)])
    BY <2>1, <2>2 DEF PipeInv, FutureInv, Future
  <2>4. \A m : Knows(u, m) => Knows(u, m)'
    BY <1>1, KnowsSame
  <2>5. \A i \in 0 .. Len(q) : Sound(u, w[i])'
    BY <2>3, <2>4, SoundKept
  <2>6. PICK x : x = w[Len(q)]
    OBVIOUS
  <2>7. Ends(u, x)'
    BY <1>1, <2>3, <2>4, <2>6, EndsKept
  <2>8. Powers' = H /\ View(u)' = View(u) /\ queue'[s] = q
    BY <1>1, <2>2 DEF Powers, View
  <2> QED BY <2>3, <2>5, <2>6, <2>7, <2>8, FutureSame
<1> QED BY <1>2, <1>3 DEF PipeInv, Facts, FutureInv

LEMMA NextPipeline == ASSUME SerialCalls PROVE PipeInv /\ [Next]_vars => PipeInv'
<1> SUFFICES ASSUME PipeInv, [Next]_vars PROVE PipeInv'
  OBVIOUS
<1>1. TInv /\ CInv /\ StreamsApart /\ FutureInv /\ Facts
  BY DEF PipeInv, Facts, CInv, MInv
<1>2. TInv'
  BY <1>1, NextTyped
<1>3. CASE Next
  <2>1. CInv' /\ KeysOf' /\ LengthsKnown' /\ DoneCleared' /\ Answered'
    BY <1>1, <1>3, NextChains, NextKeys, NextLengths, NextDone, NextAnswered DEF PipeInv, Facts
  <2>2. ASSUME NEW t \in Threads, LaunchEffect(t) PROVE FutureInv'
    BY <1>1, <2>2, LaunchFuture
  <2>3. ASSUME NEW t \in Threads, StillEffect(t) PROVE FutureInv'
    BY <1>1, <1>2, <2>3, StillFrames, StillFuture
  <2>4. ASSUME NEW s \in Streams, DeviceEffect(s) PROVE FutureInv'
    <3>1. PICK k : k = Head(queue[s])
      OBVIOUS
    <3> QED BY <1>1, <2>4, <3>1, RunFuture DEF DeviceEffect
  <2>5. FutureInv'
    BY <1>1, <1>3, <2>2, <2>3, <2>4, StepIs
  <2> QED BY <2>1, <2>5 DEF PipeInv, Facts
<1>4. CASE UNCHANGED vars
  <2>1. CInv'
    <3>1. MInv'
      BY <1>1, NextMemory DEF CInv
    <3>2. StreamsApart' /\ QueueChains' /\ CallChains'
      <4>1. /\ call' = call /\ lastErr' = lastErr /\ handle' = handle /\ queue' = queue
            /\ buf' = buf /\ mem' = mem
        BY <1>4 DEF vars
      <4>2. StreamsApart'
        BY <1>1, <4>1 DEF StreamsApart, KernelsOn
      <4>3. \A v, s, i : ReadyAt(s, i, v) => ReadyAt(s, i, v)'
        BY <4>1 DEF ReadyAt, Ready, IsThere, Level, load, ciphertext
      <4>4. QueueChains'
        BY <1>1, <4>1, <4>3 DEF CInv, QueueChains
      <4>5. CallChains'
        BY <1>1, <4>1, <4>3 DEF CInv, CallChains, LevelOfCall
      <4> QED BY <4>2, <4>4, <4>5
    <3> QED BY <3>1, <3>2 DEF CInv
  <2> QED BY <1>4, <2>1, StutterPipeline
<1> QED BY <1>3, <1>4

\* At every moment each queued GHASH kernel will find in the workspace the level
\* of the tree it was launched for, and each buffer will hold, when its stream
\* has run, what the host side of its last call goes by.  What it says of
\* finished seals, flags and plaintext, it says where InitSeen holds.
THEOREM PipelineInvariance ==
  ASSUME SerialCalls PROVE Spec => []PipeInv
<1>1. PipeInv /\ [Next]_vars => PipeInv'
  BY NextPipeline
<1> QED BY <1>1, InitPipeline, PTL DEF Spec


-----------------------------------------------------------------------------
(* What a thread finds once its stream has run.                            *)

\* Which is the end of the future when no kernel of the buffer is queued.
LEMMA QuietEnds ==
  ASSUME PipeInv, NEW t \in Threads, BufferQuiet(t)
  PROVE  Sound(t, View(t)) /\ Ends(t, View(t))
<1>1. PICK s : s \in Streams
  BY ConstantsAssumption
<1>2. TInv /\ FutureInv /\ BufferFree(t, s)
  BY DEF PipeInv, Facts, CInv, MInv, BufferQuiet, BufferFree
<1>3. PICK q : q = queue[s]
  OBVIOUS
<1>4. Len(q) \in Nat /\ KernelsOn(s) = {q[i] : i \in 1 .. Len(q)}
  BY <1>1, <1>2, <1>3, KernelsAre
<1>5. \A m \in 0 + 1 .. Len(q) : q[m].b # t
  BY <1>1, <1>4 DEF BufferQuiet
<1>6. PICK w : /\ Trace(w, q, t, Powers) /\ w[0] = View(t)
               /\ \A i \in 0 .. Len(q) : Sound(t, w[i])
               /\ Ends(t, w[Len(q)])
  BY <1>1, <1>2, <1>3 DEF FutureInv, Future
<1>7. 0 \in 0 .. Len(q) /\ Len(q) \in 0 .. Len(q) /\ 0 <= Len(q)
  BY <1>4
<1>8. w[Len(q)] = w[0]
  BY <1>5, <1>6, <1>7 DEF Trace
<1> QED BY <1>6, <1>7, <1>8

LEMMA AlwaysSound ==
  ASSUME PipeInv, NEW t \in Threads
  PROVE  Sound(t, View(t))
<1>1. TInv /\ FutureInv /\ StreamsApart
  BY DEF PipeInv, Facts, CInv, MInv
<1>2. PICK s : s \in Streams /\ BufferFree(t, s)
  <2>1. CASE BufferQuiet(t)
    BY <2>1, ConstantsAssumption DEF BufferQuiet, BufferFree
  <2>2. CASE ~ BufferQuiet(t)
    <3>1. PICK s \in Streams : \E k \in KernelsOn(s) : k.b = t
      BY <2>2 DEF BufferQuiet
    <3> QED BY <1>1, <3>1, OneStream
  <2> QED BY <2>1, <2>2
<1>3. Future(t, s) /\ 0 \in 0 .. Len(queue[s])
  <2>1. Len(queue[s]) \in Nat
    BY <1>1, <1>2, KernelsAre
  <2> QED BY <1>1, <1>2, <2>1 DEF FutureInv
<1> QED BY <1>3 DEF Future

\* A seal that returned OK has left, when its kernels have run, the frame that
\* AES-128-GCM prescribes: in one launch order of its kernels on one stream,
\* with a hash tree of any height, with workspaces that other calls with the
\* handle use, enlarge or replace, and whatever launches and allocations fail.
\* The exception is a thread that is not told of a hash key left undefined.
THEOREM SealsAreCorrect ==
  ASSUME SerialCalls, InitSeen PROVE Spec => []SealedFramesCorrect
<1>1. PipeInv => SealedFramesCorrect
  <2> SUFFICES ASSUME PipeInv, NEW t \in Threads, done[t].op = "seal", done[t].rc = "OK",
                      BufferQuiet(t)
               PROVE  FrameOf(t, done[t].n)
                        = GcmFrame(done[t].h, done[t].iv, done[t].iv, done[t].n)
    BY DEF SealedFramesCorrect
  <2>1. Ends(t, View(t))
    BY QuietEnds
  <2>2. FrameOf(t, done[t].n) = FrameIn(View(t), done[t].n)
    BY ViewIs
  <2> QED BY <2>1, <2>2 DEF Ends, SealEnds
<1> QED BY <1>1, PipelineInvariance, PTL

\* An open that returned OK has left, when its kernels have run, a flag that
\* says whether the frame is authentic, and the plaintext or zeros by it.
THEOREM OpensAreDecided ==
  ASSUME SerialCalls, InitSeen PROVE Spec => []OpensDecide
<1>1. PipeInv => OpensDecide
  <2> SUFFICES ASSUME PipeInv, NEW t \in Threads, done[t].op = "open", done[t].rc = "OK",
                      BufferQuiet(t), NEW h, h = done[t].h, NEW n, n = done[t].n,
                      NEW f, f = FrameOf(t, n)
               PROVE  /\ buf[t].auth = IF Authentic(h, f, n) THEN 1 ELSE 0
                      /\ n > 0 => buf[t].plain = IF Authentic(h, f, n)
                                                 THEN Decrypted(h, f, n)
                                                 ELSE Zeroed
    BY DEF OpensDecide
  <2>1. Sound(t, View(t)) /\ Ends(t, View(t))
    BY QuietEnds
  <2>2. f = FrameIn(View(t), n) /\ View(t).auth = buf[t].auth /\ View(t).plain = buf[t].plain
    BY ViewIs DEF View
  <2>3. buf[t].auth \in {0, 1}
    BY <2>1, <2>2 DEF Sound
  <2>4. /\ Verdict(View(t), h, n)
        /\ n > 0 => buf[t].plain = IF buf[t].auth = 0 THEN Zeroed ELSE Decrypted(h, f, n)
    BY <2>1, <2>2 DEF Ends, OpenEnds
  <2>5. buf[t].auth = 1 <=> Authentic(h, f, n)
    BY <2>2, <2>4 DEF Verdict
  <2> QED BY <2>3, <2>4, <2>5
<1> QED BY <1>1, PipelineInvariance, PTL

\* Where callers clear auth_ok before an open, the plaintext in a buffer is at
\* every moment that of an authentic frame: also while an open runs, and after
\* one whose verification was never launched.  The exception is a thread that
\* is not told of a hash key left undefined.
THEOREM PlaintextIsAuthentic ==
  ASSUME SerialCalls, ClearAuth, InitSeen PROVE Spec => []PlaintextAuthentic
<1>1. PipeInv => PlaintextAuthentic
  <2> SUFFICES ASSUME PipeInv, NEW t \in Threads, buf[t].plain.kind = "decrypted"
               PROVE  Authentic(buf[t].plain.key, buf[t].plain.frame, buf[t].plain.n)
    BY DEF PlaintextAuthentic
  <2> QED BY AlwaysSound DEF Sound, View
<1> QED BY <1>1, PipelineInvariance, PTL


-----------------------------------------------------------------------------
(* The refinement: an open is asked, and answered once.                    *)

\* An open of t has returned, and its kernels may still be queued.
Returned(t) == call[t].op # "open" /\ done[t].op = "open"
Known(t) == done[t].rc # "OK" \/ BufferQuiet(t)

LEMMA Opens ==
  ASSUME NEW t \in Threads
  PROVE  /\ call[t].op = "open" => OpenOf(t) = Endpoint!Pending(call[t].h, call[t].n)
         /\ call[t].op # "open" /\ done[t].op # "open" => OpenOf(t) = Endpoint!Unused
         /\ Returned(t) /\ Known(t) => OpenOf(t) = Answer(t)
         /\ Returned(t) /\ ~ Known(t) => OpenOf(t) = Endpoint!Pending(done[t].h, done[t].n)
         /\ done[t].rc # "OK" => Answer(t) = Endpoint!Refused
<1>1. CASE call[t].op = "open"
  BY <1>1 DEF OpenOf, Returned, Endpoint!Pending, Answer, Endpoint!Refused
<1>2. CASE call[t].op # "open"
  BY <1>2 DEF OpenOf, Returned, Known, Endpoint!Pending, Endpoint!Unused, Answer, Endpoint!Refused
<1> QED BY <1>1, <1>2

LEMMA OpensNext ==
  ASSUME NEW t \in Threads
  PROVE  /\ call'[t].op = "open" => OpenOf(t)' = Endpoint!Pending(call'[t].h, call'[t].n)
         /\ call'[t].op # "open" /\ done'[t].op # "open" => OpenOf(t)' = Endpoint!Unused
         /\ Returned(t)' /\ Known(t)' => OpenOf(t)' = Answer(t)'
         /\ Returned(t)' /\ ~ Known(t)' => OpenOf(t)' = Endpoint!Pending(done'[t].h, done'[t].n)
         /\ done'[t].rc # "OK" => Answer(t)' = Endpoint!Refused
<1>1. CASE call'[t].op = "open"
  BY <1>1 DEF OpenOf, Returned, Endpoint!Pending, Answer, Endpoint!Refused
<1>2. CASE call'[t].op # "open"
  BY <1>2 DEF OpenOf, Returned, Known, Endpoint!Pending, Endpoint!Unused, Answer, Endpoint!Refused
<1> QED BY <1>1, <1>2

\* A thread whose calls, results and buffer stay sees what it saw, while it is
\* as quiet as it was.
LEMMA OpenSame ==
  ASSUME NEW t \in Threads, done'[t] = done[t], View(t)' = View(t),
         BufferQuiet(t)' <=> BufferQuiet(t),
         \/ call'[t].op # "open" /\ call[t].op # "open"
         \/ /\ call'[t].op = "open" /\ call[t].op = "open"
            /\ call'[t].h = call[t].h /\ call'[t].n = call[t].n
  PROVE  OpenOf(t)' = OpenOf(t)
<1>1. CASE call[t].op = "open"
  BY <1>1, Opens, OpensNext
<1>2. CASE call[t].op # "open" /\ done[t].op # "open"
  BY <1>2, Opens, OpensNext
<1>3. CASE call[t].op # "open" /\ done[t].op = "open"
  <2>1. Returned(t) /\ Returned(t)' /\ (Known(t)' <=> Known(t))
    BY <1>3 DEF Returned, Known
  <2>2. Answer(t)' = Answer(t)
    BY DEF Answer, View
  <2> QED BY <2>1, <2>2, Opens, OpensNext
<1> QED BY <1>1, <1>2, <1>3

\* A step that tells no thread anything new is a commit or a stutter.
LEMMA Commits ==
  ASSUME Committed \subseteq Committed', \A t \in Threads : OpenOf(t)' = OpenOf(t)
  PROVE  [Endpoint!Next]_Endpoint!vars
<1>1. [t \in Threads |-> OpenOf(t)]' = [t \in Threads |-> OpenOf(t)]
  OBVIOUS
<1>2. Endpoint!Commit
  BY <1>1 DEF Endpoint!Commit
<1> QED BY <1>2 DEF Endpoint!Next

\* A step that tells one.
LEMMA Tells ==
  ASSUME Committed' = Committed, NEW t \in Threads,
         \A u \in Threads \ {t} : OpenOf(u)' = OpenOf(u),
         \/ OpenOf(t)' = OpenOf(t)
         \/ OpenOf(t)' = Endpoint!Unused
         \/ \E key \in Handles, n \in Lens \cup {0} : OpenOf(t)' = Endpoint!Pending(key, n)
         \/ OpenOf(t).state = "pending" /\ OpenOf(t)' = Endpoint!Refused
         \/ \E m \in Committed : /\ OpenOf(t) = Endpoint!Pending(m.key, m.n)
                                 /\ OpenOf(t)' = Endpoint!Accepted(m)
  PROVE  [Endpoint!Next]_Endpoint!vars
<1> DEFINE open == [u \in Threads |-> OpenOf(u)]
<1>1. \A x : OpenOf(t)' = x => open' = [open EXCEPT ![t] = x]
  OBVIOUS
<1>2. open[t] = OpenOf(t)
  OBVIOUS
<1>3. CASE OpenOf(t)' = OpenOf(t)
  BY <1>3, Commits
<1>4. CASE OpenOf(t)' = Endpoint!Unused
  <2>1. Endpoint!Forget(t)
    BY <1>1, <1>4 DEF Endpoint!Forget
  <2> QED BY <2>1 DEF Endpoint!Next
<1>5. ASSUME NEW key \in Handles, NEW n \in Lens \cup {0}, OpenOf(t)' = Endpoint!Pending(key, n)
      PROVE  [Endpoint!Next]_Endpoint!vars
  <2>1. Endpoint!Ask(t)
    BY <1>1, <1>5 DEF Endpoint!Ask
  <2> QED BY <2>1 DEF Endpoint!Next
<1>6. CASE OpenOf(t).state = "pending" /\ OpenOf(t)' = Endpoint!Refused
  <2>1. Endpoint!Refuse(t)
    BY <1>1, <1>2, <1>6 DEF Endpoint!Refuse
  <2> QED BY <2>1 DEF Endpoint!Next
<1>7. ASSUME NEW m \in Committed, OpenOf(t) = Endpoint!Pending(m.key, m.n),
             OpenOf(t)' = Endpoint!Accepted(m)
      PROVE  [Endpoint!Next]_Endpoint!vars
  <2>1. Endpoint!Accept(t)
    BY <1>1, <1>2, <1>7 DEF Endpoint!Accept
  <2> QED BY <2>1 DEF Endpoint!Next
<1> QED BY <1>3, <1>4, <1>5, <1>6, <1>7

\* An answer that accepts gives a message that was sealed.
Genuine ==
  \A t \in Threads :
    done[t].op = "open" /\ done[t].rc = "OK" /\ BufferQuiet(t) =>
      \/ Answer(t) = Endpoint!Refused
      \/ \E m \in Committed : /\ m.key = done[t].h /\ m.n = done[t].n
                              /\ Answer(t) = Endpoint!Accepted(m)

LEMMA AnswersGenuine == ASSUME InitSeen PROVE PipeInv => Genuine
<1> SUFFICES ASSUME PipeInv, NEW t \in Threads, done[t].op = "open", done[t].rc = "OK",
                    BufferQuiet(t), buf[t].auth = 1, NEW h, h = done[t].h, NEW n, n = done[t].n
             PROVE  \E m \in Committed : /\ m.key = h /\ m.n = n
                                         /\ Answer(t) = Endpoint!Accepted(m)
  BY DEF Genuine, Answer, Endpoint!Refused
<1>1. Sound(t, View(t)) /\ Ends(t, View(t))
  BY QuietEnds
<1>2. n \in Nat
  <2>1. done \in [Threads -> DoneT]
    BY ArraysTyped DEF PipeInv, Facts, CInv, MInv, TInv
  <2> QED BY <2>1 DEF DoneT
<1>3. PICK x : x = View(t)
  OBVIOUS
<1>4. /\ h \in Handles /\ Authentic(h, FrameIn(x, n), n)
      /\ n > 0 => buf[t].plain = Decrypted(h, FrameIn(x, n), n)
  <2>1. View(t).auth = 1 /\ View(t).plain = buf[t].plain
    BY DEF View
  <2> QED BY <1>1, <1>3, <2>1 DEF Ends, OpenEnds, Verdict
<1>5. x.tag = Tag(h, x.iv, Root(h, Ct(x, n), n))
  BY <1>4 DEF Authentic, GcmTag, FrameIn, Root
<1>6. TagKnown(t, x.tag)
  BY <1>1, <1>3 DEF Sound
<1>7. n + 1 > 0 /\ (n + 1) - 1 = n /\ (n > 0 => n + 1 > 1) /\ (n # 0 <=> n > 0)
  BY <1>2
<1>8. PICK r : r = x.tag.root
  OBVIOUS
<1>9. x.tag.rk = h /\ r.hk = h /\ r.lo = 0 /\ r.hi = n + 1 /\ r.ct = Ct(x, n)
  BY <1>5, <1>8 DEF Tag, Root
<1>10. n \in Lens /\ (n > 0 => Knows(t, [key |-> h, n |-> n, pt |-> Ct(x, n).pt]))
  <2>1. r.hi - 1 = n /\ r.hi > 0 /\ (n > 0 => r.hi > 1)
    BY <1>7, <1>9
  <2> QED BY <1>4, <1>6, <1>8, <1>9, <2>1 DEF TagKnown
<1>11. \A m : Knows(t, m) => m \in Committed
  BY DEF Knows, BufferQuiet
<1>12. CASE n = 0
  <2> DEFINE m == [key |-> h, n |-> n, pt |-> 0]
  <2>1. m \in Committed
    BY <1>4, <1>10 DEF Committed
  <2>2. Answer(t) = Endpoint!Accepted(m)
    BY <1>12 DEF Answer, Endpoint!Accepted
  <2> QED BY <2>1, <2>2
<1>13. CASE n > 0
  <2> DEFINE m == [key |-> h, n |-> n, pt |-> Ct(x, n).pt]
  <2>1. m \in Committed
    BY <1>10, <1>11, <1>13
  <2>2. buf[t].plain.kind = "decrypted" /\ buf[t].plain.frame = FrameIn(x, n)
    BY <1>4, <1>13 DEF Decrypted
  <2>3. FrameIn(x, n).ct = Ct(x, n)
    BY DEF FrameIn
  <2>4. Answer(t) = Endpoint!Accepted(m)
    BY <1>7, <1>13, <2>2, <2>3 DEF Answer, Endpoint!Accepted
  <2> QED BY <2>1, <2>4
<1> QED BY <1>7, <1>12, <1>13


\* The calls and the results of a thread after a step that launches nothing.
LEMMA StillReturns ==
  ASSUME TInv, NEW t \in Threads, StillEffect(t)
  PROVE  \/ Continued(t) /\ done'[t] = done[t]
         \/ Begun(t)
         \/ call[t].op # "open" /\ call'[t].op # "open" /\ done'[t] = done[t]
         \/ call'[t] = Idle /\ done'[t] = Nothing
         \/ /\ call[t].op # "reserve" /\ call'[t] = Idle
            /\ done'[t].op = call[t].op /\ done'[t].rc # "OK"
<1> DEFINE Ended == \/ Continued(t) /\ done'[t] = done[t]
                    \/ call[t].op # "open" /\ call'[t].op # "open" /\ done'[t] = done[t]
                    \/ /\ call[t].op # "reserve" /\ call'[t] = Idle
                       /\ done'[t].op = call[t].op /\ done'[t].rc # "OK"
<1>1. ASSUME NEW pc, NEW in, NEW out, NEW count, Moves(t, pc, in, out, count), done' = done
      PROVE  Ended
  BY <1>1, MovesContinue
<1>2. ASSUME Returns(t, "ERR_ALLOC") PROVE Ended
  <2>1. call'[t] = Idle /\ call'[t].op = "none"
    BY <1>2, IdleTyped DEF Returns
  <2>2. CASE call[t].op = "reserve"
    BY <1>2, <2>1, <2>2 DEF Returns
  <2>3. CASE call[t].op # "reserve"
    BY <1>2, <2>1, <2>3 DEF Returns
  <2> QED BY <2>2, <2>3
<1>3. ASSUME Continues(t) PROVE Ended
  <2>1. ASSUME call[t].op = "reserve", Returns(t, "OK") PROVE Ended
    BY <2>1, IdleTyped DEF Returns
  <2> QED BY <1>1, <1>3, <2>1 DEF Continues
<1>4. CASE EnsureEffect(t) \/ MallocBEffect(t) \/ UndoEffect(t) \/ FreeAEffect(t) \/ FreeBEffect(t)
  <2>1. Ended
    <3> HIDE DEF Ended
    <3> QED BY <1>1, <1>2, <1>3, <1>4
            DEF EnsureEffect, MallocBEffect, UndoEffect, FreeAEffect, FreeBEffect
  <2> QED BY <2>1
<1>5. ASSUME call[t] = Idle, call' = call, done' = done PROVE Ended
  BY <1>5, IdleTyped
<1>6. CASE ClientEffect(t)
  <2>1. StillFrame(t) /\ done \in [Threads -> DoneT]
    BY <1>6, ClientFrames, ArraysTyped DEF TInv
  <2>2. CASE ClientWrites(t)
    BY <2>1, <2>2 DEF ClientWrites
  <2>3. ASSUME NEW h \in Handles, CreateEffect(t, h) \/ DestroyEffect(t, h) PROVE Ended
    <3> HIDE DEF Ended
    <3> QED BY <1>5, <2>3 DEF CreateEffect, DestroyEffect
  <2>4. ASSUME NEW h \in Handles, NEW n \in Lens, ReserveEffect(t, h, n) PROVE Ended
    <3>1. call[t].op = "none" /\ call'[t].op = "reserve" /\ done' = done
      BY <2>4, IdleTyped DEF ReserveEffect, Begins
    <3> QED BY <3>1
  <2>5. ASSUME NEW op \in {"seal", "open"}, NEW h, NEW s, NEW n, NEW iv,
               Begins(t, op, h, s, n, iv)
        PROVE  Begun(t)
    <3>1. call'[t].pc = "workspace" /\ call'[t].op = op
      BY <2>5 DEF Begins
    <3>2. call[t] = Idle /\ call[t].op = "none" /\ Idle.pc = "idle"
      BY <2>5, IdleTyped DEF Begins
    <3> QED BY <2>1, <3>1, <3>2 DEF StillFrame, Continued
  <2> QED BY <1>6, <2>2, <2>3, <2>4, <2>5 DEF ClientEffect, OpenEffect, SealEffect
<1> QED BY <1>4, <1>6 DEF StillEffect

\* A launch is followed by another, or by the return of the call.
LEMMA LaunchReturns ==
  ASSUME NEW t \in Threads, LaunchEffect(t)
  PROVE  \/ Continued(t) /\ done'[t] = done[t]
         \/ /\ call'[t] = Idle /\ done'[t].op = call[t].op
            /\ done'[t].h = call[t].h /\ done'[t].n = call[t].n
<1>1. call[t].op # "reserve"
  BY DEF LaunchEffect, HeaderEffect, EncryptEffect, SegmentEffect, CombineEffect,
         FinalizeEffect, VerifyEffect, DecryptEffect
<1> DEFINE Ended == \/ Continued(t) /\ done'[t] = done[t]
                    \/ /\ call'[t] = Idle /\ done'[t].op = call[t].op
                       /\ done'[t].h = call[t].h /\ done'[t].n = call[t].n
<1>2. ASSUME NEW pc, NEW in, NEW out, NEW count, Moves(t, pc, in, out, count), done' = done
      PROVE  Ended
  BY <1>2, MovesContinue
<1>3. ASSUME NEW rc, Returns(t, rc) PROVE Ended
  BY <1>1, <1>3 DEF Returns
<1> SUFFICES Ended
  OBVIOUS
<1> HIDE DEF Ended
<1>4. CASE HeaderEffect(t)
  <2> DEFINE pc == IF call[t].n > 0 THEN "encrypt" ELSE "segment"
  <2>1. Moves(t, pc, call[t].in, call[t].out, call[t].count) /\ done' = done
    BY <1>4 DEF HeaderEffect
  <2> HIDE DEF pc
  <2> QED BY <1>2, <2>1
<1>5. ASSUME NEW in, NEW out, NEW count, GhashEffect(t, in, out, count) PROVE Ended
  <2> DEFINE pc == IF count > 1 THEN "combine" ELSE "tag"
  <2>1. Returns(t, "ERR_CUDA") \/ (done' = done /\ Moves(t, pc, in, out, count))
    BY <1>5 DEF GhashEffect
  <2> HIDE DEF pc
  <2> QED BY <1>2, <1>3, <2>1
<1>6. ASSUME PeekReturns(t) PROVE Ended
  BY <1>3, <1>6 DEF PeekReturns
<1> QED BY <1>2, <1>4, <1>5, <1>6
        DEF LaunchEffect, EncryptEffect, SegmentEffect, CombineEffect, FinalizeEffect,
            VerifyEffect, DecryptEffect


\* Calls that were no open and have left no open are none for the endpoint.
LEMMA NotOpen ==
  ASSUME NEW t \in Threads, call'[t].op # "open", done'[t].op # "open"
  PROVE  OpenOf(t)' = Endpoint!Unused
BY OpensNext

\* An open that fails is refused at once.
LEMMA Fails ==
  ASSUME NEW t \in Threads, call[t].op = "open", call'[t] = Idle, done'[t].op = "open",
         done'[t].rc # "OK"
  PROVE  OpenOf(t).state = "pending" /\ OpenOf(t)' = Endpoint!Refused
<1>1. OpenOf(t) = Endpoint!Pending(call[t].h, call[t].n)
  BY Opens
<1>2. Returned(t)' /\ Known(t)'
  BY IdleTyped DEF Returned, Known
<1> QED BY <1>1, <1>2, OpensNext DEF Endpoint!Pending

LEMMA StillTells ==
  ASSUME PipeInv, LengthsKnown', NEW t \in Threads, StillEffect(t)
  PROVE  [Endpoint!Next]_Endpoint!vars
<1>1. TInv /\ StillFrame(t) /\ queue' = queue /\ sealed' = sealed /\ Others(t)
  BY StillFrames DEF PipeInv, Facts, CInv, MInv, StillFrame
<1>2. Committed' = Committed /\ \A u \in Threads : BufferQuiet(u)' <=> BufferQuiet(u)
  BY <1>1 DEF Committed, BufferQuiet, KernelsOn
<1>3. ASSUME NEW u \in Threads \ {t} PROVE OpenOf(u)' = OpenOf(u)
  <2>1. call'[u] = call[u] /\ done'[u] = done[u] /\ View(u)' = View(u)
    BY <1>1, <1>3 DEF Others, View
  <2> QED BY <1>2, <2>1, OpenSame
<1>4. CASE Rewritten(t)
  <2>1. OpenOf(t)' = Endpoint!Unused
    BY <1>4, IdleTyped, NotOpen DEF Rewritten, Nothing
  <2> QED BY <1>2, <1>3, <2>1, Tells
<1>5. CASE View(t)' = View(t)
  <2>1. CASE done'[t] = done[t] /\ (Continued(t) \/ (call[t].op # "open" /\ call'[t].op # "open"))
    <3>1. OpenOf(t)' = OpenOf(t)
      BY <1>2, <1>5, <2>1, OpenSame DEF Continued
    <3> QED BY <1>2, <1>3, <3>1, Tells
  <2>2. CASE Begun(t)
    <3>1. CASE call'[t].op = "open"
      <4>1. call'[t].h \in Handles /\ call'[t].n \in Lens \cup {0}
        BY <2>2, <3>1 DEF Begun, LengthsKnown
      <4>2. OpenOf(t)' = Endpoint!Pending(call'[t].h, call'[t].n)
        BY <3>1, OpensNext
      <4> QED BY <1>2, <1>3, <4>1, <4>2, Tells
    <3>2. CASE call'[t].op # "open"
      <4>1. OpenOf(t)' = Endpoint!Unused
        BY <2>2, <3>2, NotOpen DEF Begun, Nothing
      <4> QED BY <1>2, <1>3, <4>1, Tells
    <3> QED BY <3>1, <3>2
  <2>3. CASE call'[t] = Idle /\ done'[t] = Nothing
    <3>1. OpenOf(t)' = Endpoint!Unused
      BY <2>3, IdleTyped, NotOpen DEF Nothing
    <3> QED BY <1>2, <1>3, <3>1, Tells
  <2>4. CASE call'[t] = Idle /\ done'[t].op = call[t].op /\ done'[t].rc # "OK"
    <3>1. CASE call[t].op = "open"
      <4>1. OpenOf(t).state = "pending" /\ OpenOf(t)' = Endpoint!Refused
        BY <2>4, <3>1, Fails
      <4> QED BY <1>2, <1>3, <4>1, Tells
    <3>2. CASE call[t].op # "open"
      <4>1. OpenOf(t)' = Endpoint!Unused
        BY <2>4, <3>2, IdleTyped, NotOpen
      <4> QED BY <1>2, <1>3, <4>1, Tells
    <3> QED BY <3>1, <3>2
  <2> QED BY <1>1, <2>1, <2>2, <2>3, <2>4, StillReturns
<1> QED BY <1>1, <1>4, <1>5 DEF StillFrame

LEMMA LaunchTells ==
  ASSUME PipeInv, NEW t \in Threads, LaunchEffect(t)
  PROVE  [Endpoint!Next]_Endpoint!vars
<1>1. PICK k : k = KernelOf(t)
  OBVIOUS
<1>2. Facts /\ TInv /\ LaunchFrame(t, k) /\ done[t] = Nothing
  BY <1>1, LaunchFacts DEF PipeInv
<1>3. /\ k \in Kernels /\ k.b = t /\ call[t].s \in Streams /\ Launches(t, k) /\ Others(t)
      /\ sealed' = sealed /\ buf' = buf /\ call[t].op \in {"seal", "open"}
  BY <1>2 DEF LaunchFrame
<1>4. Committed' = Committed /\ \A u \in Threads : View(u)' = View(u)
  BY <1>3 DEF Committed, View
<1>5. \A s \in Streams : \A q \in KernelsOn(s) : q \in KernelsOn(s)'
  BY <1>2, <1>3, LaunchStays
<1>6. \A s \in Streams : \A q \in KernelsOn(s)' : q \in KernelsOn(s) \/ q = k
  BY <1>2, <1>3, LaunchAdds
<1>7. ASSUME NEW u \in Threads \ {t} PROVE OpenOf(u)' = OpenOf(u)
  <2>1. call'[u] = call[u] /\ done'[u] = done[u] /\ View(u)' = View(u)
    BY <1>3, <1>4, <1>7 DEF Others
  <2>2. BufferQuiet(u)' <=> BufferQuiet(u)
    BY <1>3, <1>5, <1>6, <1>7 DEF BufferQuiet
  <2> QED BY <2>1, <2>2, OpenSame
<1>8. CASE call[t].op = "seal"
  <2>1. call'[t].op # "open" /\ done'[t].op # "open"
    BY <1>2, <1>8, LaunchReturns, IdleTyped DEF Continued, Nothing
  <2>2. OpenOf(t)' = Endpoint!Unused
    BY <2>1, NotOpen
  <2> QED BY <1>4, <1>7, <2>2, Tells
<1>9. CASE call[t].op = "open"
  <2>1. OpenOf(t) = Endpoint!Pending(call[t].h, call[t].n)
    BY <1>9, Opens
  <2>2. CASE Continued(t)
    <3>1. OpenOf(t)' = OpenOf(t)
      BY <1>9, <2>1, <2>2, OpensNext DEF Continued
    <3> QED BY <1>4, <1>7, <3>1, Tells
  <2>3. CASE /\ call'[t] = Idle /\ done'[t].op = "open"
             /\ done'[t].h = call[t].h /\ done'[t].n = call[t].n
    <3>1. CASE done'[t].rc # "OK"
      <4>1. OpenOf(t).state = "pending" /\ OpenOf(t)' = Endpoint!Refused
        BY <1>9, <2>3, <3>1, Fails
      <4> QED BY <1>4, <1>7, <4>1, Tells
    <3>2. CASE done'[t].rc = "OK"
      <4>1. PICK s \in Streams : queue'[s] = Append(queue[s], k)
        BY <1>1, <1>2, <1>3, <3>2, LaunchOK
      <4>2. k \in KernelsOn(s)'
        BY <1>2, <4>1, QueuedStay
      <4>3. ~ BufferQuiet(t)'
        BY <1>3, <4>2 DEF BufferQuiet
      <4>4. Returned(t)' /\ ~ Known(t)'
        BY <2>3, <3>2, <4>3, IdleTyped DEF Returned, Known
      <4>5. OpenOf(t)' = OpenOf(t)
        BY <2>1, <2>3, <4>4, OpensNext
      <4> QED BY <1>4, <1>7, <4>5, Tells
    <3> QED BY <3>1, <3>2
  <2> QED BY <1>9, <2>2, <2>3, LaunchReturns
<1> QED BY <1>3, <1>8, <1>9


\* The threads whose buffer the kernel does not write see what they saw; the
\* kernel that gives a buffer its last data gives its open an answer.
LEMMA RunTells ==
  ASSUME PipeInv, Genuine', NEW s \in Streams, NEW k, Runs(s, k), RunEffect(s, k)
  PROVE  [Endpoint!Next]_Endpoint!vars
<1>1. /\ CInv /\ TInv /\ StreamsApart /\ Answered
      /\ call' = call /\ done' = done
      /\ k \in KernelsOn(s) /\ k \in Kernels /\ k.b \in Threads
  BY HeadKernel DEF PipeInv, Facts, CInv, MInv, Runs
<1>2. PICK t : t = k.b
  OBVIOUS
<1>3. t \in Threads /\ ~ BufferQuiet(t)
  BY <1>1, <1>2 DEF BufferQuiet
<1>4. \A u \in Threads \ {t} : View(u)' = View(u)
  BY <1>1, <1>2, RunView DEF View
<1>5. ASSUME NEW u \in Threads \ {t} PROVE OpenOf(u)' = OpenOf(u)
  <2>1. BufferQuiet(u)' <=> BufferQuiet(u)
    BY <1>1, <1>2, <1>5, RunAdds, RunLeaves DEF BufferQuiet
  <2> QED BY <1>1, <1>4, <1>5, <2>1, OpenSame
<1>6. ASSUME ~ (Returned(t) /\ Known(t)), ~ (Returned(t) /\ Known(t)')
      PROVE  OpenOf(t)' = OpenOf(t)
  <2>1. Returned(t)' <=> Returned(t)
    BY <1>1 DEF Returned
  <2>2. CASE Returned(t)
    BY <1>1, <1>3, <1>6, <2>1, <2>2, Opens, OpensNext
  <2>3. CASE ~ Returned(t)
    BY <1>1, <1>3, <2>1, <2>3, Opens, OpensNext DEF Returned
  <2> QED BY <2>2, <2>3
<1>7. ASSUME Returned(t), done[t].rc # "OK" PROVE OpenOf(t)' = OpenOf(t)
  <2>1. Returned(t)' /\ Known(t) /\ Known(t)'
    BY <1>1, <1>7 DEF Returned, Known
  <2> QED BY <1>1, <1>3, <1>7, <2>1, Opens, OpensNext
<1>8. Known(t) <=> done[t].rc # "OK"
  BY <1>3 DEF Known
<1>9. Known(t)' <=> done[t].rc # "OK" \/ BufferQuiet(t)'
  BY <1>1 DEF Known
<1>10. Committed \subseteq Committed'
  BY DEF RunEffect, Writes, Stores, Committed
<1>11. CASE ~ (Returned(t) /\ done[t].rc = "OK" /\ BufferQuiet(t)')
  <2>1. OpenOf(t)' = OpenOf(t)
    BY <1>6, <1>7, <1>8, <1>9, <1>11
  <2> QED BY <1>5, <1>10, <2>1, Commits
<1>12. CASE Returned(t) /\ done[t].rc = "OK" /\ BufferQuiet(t)'
  <2>1. done[t].op = "open" /\ Returned(t)' /\ Known(t)'
    BY <1>1, <1>9, <1>12 DEF Returned
  <2>2. k.k # "encrypt"
    <3> SUFFICES ASSUME k.k = "encrypt" PROVE FALSE
      OBVIOUS
    <3> DEFINE q == queue[s]
    <3>1. /\ Len(q) \in Nat \ {0} /\ Len(Tail(q)) = Len(q) - 1 /\ queue'[s] = Tail(q) /\ k = q[1]
          /\ q \in Seq(Kernels) /\ q # <<>>
          /\ \A i \in 1 .. Len(q) - 1 : Tail(q)[i] = q[i + 1]
      BY HeadKernel, <1>1 DEF Runs
    <3>2. 1 \in 1 .. Len(q)
      BY <3>1
    <3>3. PICK j \in 1 + 1 .. Len(q) : q[j].b = t
      BY <1>2, <1>3, <1>12, <2>1, <3>1, <3>2, <1>1 DEF Answered
    <3> HIDE DEF q
    <3>4. j - 1 \in 1 .. Len(q) - 1 /\ (j - 1) + 1 = j
      BY <3>1, <3>3
    <3>5. queue'[s][j - 1] = q[j] /\ DOMAIN queue'[s] = 1 .. Len(q) - 1
      BY <3>1, <3>4
    <3>6. q[j] \in KernelsOn(s)'
      BY <3>4, <3>5 DEF KernelsOn
    <3> QED BY <1>12, <3>3, <3>6 DEF BufferQuiet
  <2>3. Committed' = Committed
    <3>1. sealed' = sealed
      BY <2>2 DEF RunEffect, Writes, Stores
    <3> QED BY <3>1 DEF Committed
  <2>4. OpenOf(t) = Endpoint!Pending(done[t].h, done[t].n)
    BY <1>3, <1>8, <1>12, Opens
  <2>5. OpenOf(t)' = Answer(t)'
    BY <1>3, <2>1, OpensNext
  <2>6. \/ Answer(t)' = Endpoint!Refused
        \/ \E m \in Committed' : /\ m.key = done[t].h /\ m.n = done[t].n
                                 /\ Answer(t)' = Endpoint!Accepted(m)
    BY <1>1, <1>3, <1>12, <2>1 DEF Genuine
  <2>7. CASE Answer(t)' = Endpoint!Refused
    <3>1. OpenOf(t).state = "pending"
      BY <2>4 DEF Endpoint!Pending
    <3> QED BY <1>3, <1>5, <2>3, <2>5, <2>7, <3>1, Tells
  <2>8. ASSUME NEW m \in Committed, m.key = done[t].h, m.n = done[t].n,
               Answer(t)' = Endpoint!Accepted(m)
        PROVE  [Endpoint!Next]_Endpoint!vars
    <3>1. OpenOf(t) = Endpoint!Pending(m.key, m.n) /\ OpenOf(t)' = Endpoint!Accepted(m)
      BY <2>4, <2>5, <2>8
    <3> QED BY <1>3, <1>5, <2>3, <2>8, <3>1, Tells
  <2> QED BY <2>3, <2>6, <2>7, <2>8
<1> QED BY <1>11, <1>12

LEMMA EndpointInit == Init => Endpoint!Init
<1> SUFFICES ASSUME Init PROVE [t \in Threads |-> OpenOf(t)] = [t \in Threads |-> Endpoint!Unused]
  BY DEF Endpoint!Init
<1>1. \A t \in Threads : call[t].op # "open" /\ done[t].op # "open"
  BY DEF Init, Idle, Nothing
<1>2. \A t \in Threads : OpenOf(t) = Endpoint!Unused
  BY <1>1, Opens
<1> QED BY <1>2

LEMMA EndpointStep ==
  PipeInv /\ PipeInv' /\ Genuine' /\ [Next]_vars => [Endpoint!Next]_Endpoint!vars
<1> SUFFICES ASSUME PipeInv, PipeInv', Genuine', [Next]_vars
             PROVE  [Endpoint!Next]_Endpoint!vars
  OBVIOUS
<1>1. TInv /\ LengthsKnown'
  BY DEF PipeInv, Facts, CInv, MInv
<1>2. CASE Next
  <2>1. ASSUME NEW s \in Streams, DeviceEffect(s) PROVE [Endpoint!Next]_Endpoint!vars
    <3>1. PICK k : k = Head(queue[s])
      OBVIOUS
    <3> QED BY <2>1, <3>1, RunTells DEF DeviceEffect
  <2> QED BY <1>1, <1>2, <2>1, StepIs, LaunchTells, StillTells
<1>3. CASE UNCHANGED vars
  <2>1. call' = call /\ done' = done /\ queue' = queue /\ buf' = buf /\ sealed' = sealed
    BY <1>3 DEF vars
  <2>2. Committed' = Committed /\ \A t \in Threads : BufferQuiet(t)' <=> BufferQuiet(t)
    BY <2>1 DEF Committed, BufferQuiet, KernelsOn
  <2>3. \A t \in Threads : View(t)' = View(t)
    BY <2>1 DEF View
  <2>4. \A t \in Threads : OpenOf(t)' = OpenOf(t)
    BY <2>1, <2>2, <2>3, OpenSame
  <2> QED BY <2>2, <2>4, Commits
<1> QED BY <1>2, <1>3

\* The asynchronous backend is an endpoint: an open is answered once, when its
\* call has failed or its stream has run, and it is accepted only with the
\* plaintext of a message sealed under its key and with its length; where no
\* thread uses a hash key whose failed initialization another thread saw.
THEOREM ImplementsEndpoint == ASSUME SerialCalls, InitSeen PROVE Spec => IsEndpoint
<1>1. PipeInv /\ [Next]_vars => PipeInv'
  BY NextPipeline
<1> QED BY <1>1, InitPipeline, AnswersGenuine, EndpointInit, EndpointStep, PTL
        DEF Spec, IsEndpoint, Endpoint!Spec

=============================================================================

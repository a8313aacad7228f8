----------------------------- MODULE GpuAesGcm -----------------------------
(***************************************************************************)
(* The asynchronous seal and open of gpu_aesgcm.cu: host threads call the  *)
(* C interface, which enqueues kernels on CUDA streams; the device runs    *)
(* the kernels of a stream in order and those of different streams in any  *)
(* order.  Every host call is split at its CUDA calls, so that threads     *)
(* interleave between two launches of one operation.                       *)
(*                                                                         *)
(* A kernel is one step here: GhashTree is the detail of the GHASH kernels.*)
(* Data is symbolic.  A plaintext is named by the call that seals it, a    *)
(* ciphertext records the key, IV and plaintext it was computed from, and  *)
(* a GHASH node the hash key, the ciphertext and the terms it covers, so   *)
(* that two tags are equal only if they were computed from equal inputs,   *)
(* or with powers of H that are all zero.  The key of a handle is the      *)
(* handle, and so is its hash key.                                         *)
(***************************************************************************)
EXTENDS Integers, Sequences

CONSTANTS
  Threads,              \* host threads; each owns a frame, an output buffer
                        \* and an auth_ok flag in device memory
  Streams,              \* CUDA streams
  Handles,              \* key handles
  Ptrs,                 \* addresses cudaMalloc can return for a workspace
  None,                 \* a null pointer, no handle, no stream; as a hash key,
                        \* powers of H that are those of no key
  Zeros,                \* powers of H that are all zero
  Lens,                 \* plaintext lengths, in cipher blocks
  GHASH_SEGMENT_BLOCKS, \* terms a node of the segment kernel hashes (64)
  Uploads,              \* how uploaded frames differ from authentic ones; with
                        \* "ct", sealed ones are altered in their buffer too
  QueueDepth,           \* bound: kernels a stream holds before a launch waits
  MaxCalls,             \* bound: seals, opens and reserves
  MaxFaults,            \* bound: CUDA calls that fail
  Faulty,               \* which may fail: kernels, by name, and "malloc"
  ClearAuth,            \* do callers clear auth_ok before an open?
  SerialCalls           \* does one thread at a time call with a handle?

ASSUME ConstantsAssumption ==
  /\ Streams # {} \* there is always the default stream
  /\ Lens \subseteq Nat
  /\ GHASH_SEGMENT_BLOCKS \in Nat \ {0}
  /\ Uploads \subseteq {"none", "ver", "iv", "ct", "tag"}
  /\ QueueDepth \in Nat \ {0}
  /\ MaxCalls \in Nat /\ MaxFaults \in Nat
  /\ ClearAuth \in BOOLEAN /\ SerialCalls \in BOOLEAN
  /\ None \notin Handles \cup Ptrs \cup Streams
  /\ Zeros \notin Handles \cup {None}

VARIABLES
  call,    \* per thread: the C call it is in, its locals and its next step
  done,    \* per thread: the last seal or open of its buffers that returned
  lastErr, \* per thread: cudaPeekAtLastError() # cudaSuccess
  handle,  \* the KeyHandle objects
  mem,     \* live workspace allocations and their nodes
  queue,   \* per stream: the kernels launched and not run
  buf,     \* per thread: its device buffers
  sealed,  \* history: every encryption: key, IV, plaintext and length
  calls, faults \* history: calls made, faults left

vars == <<call, done, lastErr, handle, mem, queue, buf, sealed, calls, faults>>

-----------------------------------------------------------------------------
(* Data.                                                                   *)

required_nodes(n) == (n + 1 + GHASH_SEGMENT_BLOCKS - 1) \div GHASH_SEGMENT_BLOCKS

halved_up(count) == (count + 2) \div 2
halved(count) == (count + 1) \div 2

smaller(a, b) == IF a < b THEN a ELSE b

NoCt == [key |-> None, iv |-> 0, pt |-> 0]

\* A node that was never written, or joins what does not belong together.
NoNode == [hk |-> None, ct |-> NoCt, lo |-> 0, hi |-> 0]

\* What finalize_tag_kernel stores: E_K(J0) xor the root.
Tag(key, iv, root) == [rk |-> key, iv |-> iv, root |-> root]
NoTag == Tag(None, 0, NoNode)

\* Equal bytes.  Powers of H that are zero hash every ciphertext to zero:
\* the tag is then E_K(J0), whatever was hashed.
SameTag(a, b) ==
  \/ a = b
  \/ /\ a.rk = b.rk /\ a.iv = b.iv
     /\ a.root.hk = Zeros /\ b.root.hk = Zeros

\* The ciphertext of n blocks in a buffer: none of its bytes when n is 0.
ciphertext(b, n) == IF n = 0 THEN NoCt ELSE buf[b].ct

FrameOf(b, n) == [ver |-> buf[b].ver, iv |-> buf[b].iv,
                  ct |-> ciphertext(b, n), tag |-> buf[b].tag]

\* The frame AES-128-GCM prescribes for a key, an IV and a plaintext.
GcmTag(key, iv, ct, n) ==
  Tag(key, iv, [hk |-> key, ct |-> ct, lo |-> 0, hi |-> n + 1])
GcmFrame(key, iv, pt, n) ==
  LET ct == IF n = 0 THEN NoCt ELSE [key |-> key, iv |-> iv, pt |-> pt]
  IN  [ver |-> 1, iv |-> iv, ct |-> ct, tag |-> GcmTag(key, iv, ct, n)]

Authentic(key, frame, n) ==
  frame.ver = 1 /\ frame.tag = GcmTag(key, frame.iv, frame.ct, n)

Poison == [kind |-> "poison"]
Zeroed == [kind |-> "zero"]
Decrypted(key, frame, n) ==
  [kind |-> "decrypted", key |-> key, frame |-> frame, n |-> n]

-----------------------------------------------------------------------------
(* The CUDA runtime.                                                       *)

Idle == [pc |-> "idle", op |-> "none", h |-> None, s |-> None, n |-> 0,
         iv |-> 0, in |-> None, out |-> None, count |-> 0]
Nothing == [op |-> "none", h |-> None, n |-> 0, iv |-> 0, rc |-> "none"]

DeviceIdle == \A s \in Streams : queue[s] = <<>>

KernelsOn(s) == {queue[s][i] : i \in DOMAIN queue[s]}

\* The next CUDA call of a kind fails.
Fault(kind) ==
  /\ kind \in Faulty
  /\ faults > 0
  /\ faults' = faults - 1

\* kernel<<<...>>>(...): a launch waits for room in the stream; a failed one
\* enqueues nothing and leaves an error that cudaPeekAtLastError reports to
\* this thread from then on.
launch(t, kernel) ==
  \/ /\ Len(queue[call[t].s]) < QueueDepth
     /\ queue' = [queue EXCEPT ![call[t].s] = Append(@, kernel)]
     /\ UNCHANGED <<lastErr, faults>>
  \/ /\ Fault(kernel.k)
     /\ lastErr' = [lastErr EXCEPT ![t] = TRUE]
     /\ UNCHANGED queue

\* The addresses that a pointer still holds, live or not.
Referenced ==
  {handle[h].a : h \in Handles} \cup {handle[h].b : h \in Handles} \cup
  {call[t].in : t \in Threads} \cup {call[t].out : t \in Threads} \cup
  UNION {{k[f] : f \in {"in", "out"} \cap DOMAIN k} :
           k \in UNION {KernelsOn(s) : s \in Streams}}

\* What cudaMalloc may return: an address that dangling pointers hold, or
\* one that stands for all the others, which nothing can tell apart.
Addresses ==
  LET free  == Ptrs \ DOMAIN mem
      fresh == free \ Referenced
  IN  (free \cap Referenced) \cup
      (IF fresh = {} THEN {} ELSE {CHOOSE p \in fresh : TRUE})

cudaMalloc(p, size) ==
  /\ p \in Addresses
  /\ mem' = [q \in DOMAIN mem \cup {p} |->
               IF q = p THEN [i \in 0 .. size - 1 |-> NoNode] ELSE mem[q]]
  /\ UNCHANGED <<lastErr, faults>>

cudaMallocFails(t) ==
  /\ \/ Fault("malloc")
     \/ Ptrs \subseteq DOMAIN mem /\ UNCHANGED faults
  /\ lastErr' = [lastErr EXCEPT ![t] = TRUE]
  /\ UNCHANGED mem

\* cudaFree of a pointer that may be null: it waits for the device.
cudaFree(p) ==
  IF p = None
  THEN UNCHANGED mem
  ELSE /\ DeviceIdle
       /\ mem' = [q \in DOMAIN mem \ {p} |-> mem[q]]

-----------------------------------------------------------------------------
(* What a caller may do.                                                   *)

\* gpu_aesgcm_api.h: the operations of a handle that overlap are on one
\* stream.  SerialCalls adds that its host calls do not overlap.
HandleFree(h, s) ==
  /\ \A r \in Streams \ {s} : \A k \in KernelsOn(r) : k.h # h
  /\ \A u \in Threads :
       call[u].h = h => ~ SerialCalls /\ call[u].s = s

\* The kernels that use the buffers of thread t are all on stream s.
BufferFree(t, s) ==
  \A r \in Streams \ {s} : \A k \in KernelsOn(r) : k.b # t
BufferQuiet(t) == \A r \in Streams : \A k \in KernelsOn(r) : k.b # t

Begin(t, op, h, s, n, iv) ==
  /\ call[t] = Idle
  /\ handle[h].state = "live"
  /\ calls < MaxCalls
  /\ calls' = calls + 1
  /\ call' = [call EXCEPT ![t] =
       [pc |-> "workspace", op |-> op, h |-> h, s |-> s, n |-> n, iv |-> iv,
        in |-> None, out |-> None, count |-> 0]]

\* A seal.  The plaintext is named by the IV.
CallSeal(t, h, s, n, iv) ==
  /\ BufferFree(t, s) /\ HandleFree(h, s)
  /\ Begin(t, "seal", h, s, n, iv)
  /\ done' = [done EXCEPT ![t] = Nothing]
  /\ buf' = [buf EXCEPT ![t].n = n]
  /\ UNCHANGED <<lastErr, handle, mem, queue, sealed, faults>>

\* An open takes the frame of its thread's buffer, and its length.
CallOpen(t, h, s) ==
  /\ BufferFree(t, s) /\ HandleFree(h, s)
  /\ ClearAuth => /\ buf[t].auth = 0
                  /\ \A k \in KernelsOn(s) : ~ (k.b = t /\ k.k = "verify")
  /\ Begin(t, "open", h, s, buf[t].n, 0)
  /\ done' = [done EXCEPT ![t] = Nothing]
  /\ UNCHANGED <<lastErr, handle, mem, queue, buf, sealed, faults>>

\* A reserve has no stream, so that no call overlaps it; the kernels of the
\* handle may still be queued.
CallReserve(t, h, n) ==
  /\ \E s \in Streams : HandleFree(h, s)
  /\ \A u \in Threads : call[u].h # h
  /\ Begin(t, "reserve", h, None, n, 0)
  /\ UNCHANGED <<done, lastErr, handle, mem, queue, buf, sealed, faults>>

\* cudaMemset of the auth_ok flag and of the output before an open.
ClearFlag(t) ==
  /\ call[t] = Idle
  /\ BufferQuiet(t)
  /\ buf' = [buf EXCEPT ![t].auth = 0, ![t].plain = Poison]
  /\ done' = [done EXCEPT ![t] = Nothing]
  /\ UNCHANGED <<call, lastErr, handle, mem, queue, sealed, calls, faults>>

\* cudaMemcpy of a frame sealed elsewhere (IV and plaintext 0), intact or
\* with one field changed.
Changed(frame, field) ==
  CASE field = "none" -> frame
    [] field = "ver"  -> [frame EXCEPT !.ver = 2]
    [] field = "iv"   -> [frame EXCEPT !.iv = -1]
    [] field = "ct"   -> [frame EXCEPT !.ct.pt = -1]
    [] field = "tag"  -> [frame EXCEPT !.tag = NoTag]

Upload(t, key, n, field) ==
  LET f == Changed(GcmFrame(key, 0, 0, n), field)
  IN  /\ call[t] = Idle
      /\ BufferQuiet(t)
      /\ calls < MaxCalls
      /\ buf' = [buf EXCEPT ![t] =
                   [@ EXCEPT !.ver = f.ver, !.iv = f.iv, !.ct = f.ct,
                             !.tag = f.tag, !.n = n]]
      /\ done' = [done EXCEPT ![t] = Nothing]
      /\ UNCHANGED <<call, lastErr, handle, mem, queue, sealed, calls, faults>>

\* A byte of the ciphertext in the buffer is changed after a seal.
Corrupt(t) ==
  /\ "ct" \in Uploads
  /\ call[t] = Idle
  /\ BufferQuiet(t)
  /\ buf[t].n > 0
  /\ buf' = [buf EXCEPT ![t].ct.pt = -1]
  /\ done' = [done EXCEPT ![t] = Nothing]
  /\ UNCHANGED <<call, lastErr, handle, mem, queue, sealed, calls, faults>>

-----------------------------------------------------------------------------
(* Key handles.  No other thread knows a handle that is being created, so  *)
(* creation is one step; it ends in cudaDeviceSynchronize.                 *)

\* The hash-key kernel is launched without a check of its launch: when that
\* fails the call returns success, and the powers of H are what the memory
\* happens to hold: zeros, or something else that is no key's.
KeyCreate(t, h) ==
  /\ call[t] = Idle
  /\ handle[h].state = "none"
  /\ \/ /\ DeviceIdle
        /\ handle' = [handle EXCEPT ![h].state = "live", ![h].h_pow2 = h]
        /\ UNCHANGED <<lastErr, faults>>
     \/ /\ DeviceIdle
        /\ Fault("init")
        /\ \E left \in {None, Zeros} :
             handle' = [handle EXCEPT ![h].state = "live", ![h].h_pow2 = left]
        /\ lastErr' = [lastErr EXCEPT ![t] = TRUE]
     \/ /\ Fault("malloc")
        /\ lastErr' = [lastErr EXCEPT ![t] = TRUE]
        /\ UNCHANGED handle
  /\ UNCHANGED <<call, done, mem, queue, buf, sealed, calls>>

KeyDestroyAsync(t, h) ==
  /\ call[t] = Idle
  /\ handle[h].state = "live"
  /\ \A u \in Threads : call[u].h # h
  /\ mem' = [q \in DOMAIN mem \ {handle[h].a, handle[h].b} |-> mem[q]]
  /\ handle' = [handle EXCEPT ![h] =
       [state |-> "gone", h_pow2 |-> None, a |-> None, b |-> None, cap |-> 0]]
  /\ UNCHANGED <<call, done, lastErr, queue, buf, sealed, calls, faults>>

\* The kernels of the handle may still be queued: the first cudaFree waits
\* for them.  No call with the handle is in progress.
KeyDestroy(t, h) ==
  /\ call[t] = Idle
  /\ handle[h].state = "live"
  /\ \A u \in Threads : call[u].h # h
  /\ DeviceIdle
  /\ mem' = [q \in DOMAIN mem \ {handle[h].a, handle[h].b} |-> mem[q]]
  /\ handle' = [handle EXCEPT ![h] =
       [state |-> "gone", h_pow2 |-> None, a |-> None, b |-> None, cap |-> 0]]
  /\ UNCHANGED <<call, done, lastErr, queue, buf, sealed, calls, faults>>

-----------------------------------------------------------------------------
(* The host side of a call, one CUDA call a step.                          *)

Goto(t, pc) == call' = [call EXCEPT ![t].pc = pc]

Return(t, rc) ==
  /\ call' = [call EXCEPT ![t] = Idle]
  /\ done' = IF call[t].op = "reserve"
             THEN done
             ELSE [done EXCEPT ![t] =
                     [op |-> call[t].op, h |-> call[t].h, n |-> call[t].n,
                      iv |-> call[t].iv, rc |-> rc]]

raw_error(t) == IF lastErr'[t] THEN "cudaError" ELSE "cudaSuccess"
unchecked(t) == "OK"
\* cuda_rc(cudaPeekAtLastError()), evaluated after a launch of this step.
peeked(t) == IF lastErr'[t] THEN "ERR_CUDA" ELSE "OK"

\* The first step after a successful ensure_workspace.
AfterWorkspace(t) ==
  \/ call[t].op = "seal" /\ Goto(t, "header") /\ UNCHANGED done
  \/ call[t].op = "open" /\ Goto(t, "segment") /\ UNCHANGED done
  \/ call[t].op = "reserve" /\ Return(t, "OK")

\* A workspace is kept when it is large enough.
is_kept(h, n) == required_nodes(n) <= handle[h].cap

\* ensure_workspace, up to its first cudaMalloc.
EnsureWorkspace(t) ==
  LET kept == is_kept(call[t].h, call[t].n)
  IN  /\ call[t].pc = "workspace"
      /\ \/ /\ kept
            /\ AfterWorkspace(t)
            /\ UNCHANGED <<lastErr, faults, mem>>
         \/ /\ ~ kept
            /\ \E p \in Ptrs :
                 /\ cudaMalloc(p, required_nodes(call[t].n))
                 /\ call' = [call EXCEPT ![t].in = p, ![t].pc = "malloc_b"]
            /\ UNCHANGED done
         \/ /\ ~ kept
            /\ cudaMallocFails(t)
            /\ Return(t, "ERR_ALLOC")
      /\ UNCHANGED <<handle, queue, buf, sealed, calls>>

MallocB(t) ==
  /\ call[t].pc = "malloc_b"
  /\ \/ \E p \in Ptrs :
          /\ cudaMalloc(p, required_nodes(call[t].n))
          /\ call' = [call EXCEPT ![t].out = p, ![t].pc = "free_a"]
     \/ /\ cudaMallocFails(t)
        /\ Goto(t, "undo")
  /\ UNCHANGED <<done, handle, queue, buf, sealed, calls>>

UndoWithoutFree(t) ==
  /\ call[t].pc = "undo"
  /\ Return(t, "ERR_ALLOC")
  /\ UNCHANGED <<lastErr, handle, mem, queue, buf, sealed, calls, faults>>

\* The second allocation failed: the first one is freed.
Undo(t) ==
  /\ call[t].pc = "undo"
  /\ cudaFree(call[t].in)
  /\ Return(t, "ERR_ALLOC")
  /\ UNCHANGED <<lastErr, handle, queue, buf, sealed, calls, faults>>

FreeA(t) ==
  /\ call[t].pc = "free_a"
  /\ cudaFree(handle[call[t].h].a)
  /\ Goto(t, "free_b")
  /\ UNCHANGED <<done, lastErr, handle, queue, buf, sealed, calls, faults>>

\* The second free, and the assignments after it.
FreeB(t) ==
  LET h == call[t].h
  IN  /\ call[t].pc = "free_b"
      /\ cudaFree(handle[h].b)
      /\ handle' = [handle EXCEPT ![h].a = call[t].in, ![h].b = call[t].out,
                                  ![h].cap = required_nodes(call[t].n)]
      /\ AfterWorkspace(t)
      /\ UNCHANGED <<lastErr, queue, buf, sealed, calls, faults>>

\* Seal: the header, whose launch is not checked.
LaunchHeader(t) ==
  /\ call[t].pc = "header"
  /\ launch(t, [k |-> "header", h |-> call[t].h, b |-> t, iv |-> call[t].iv])
  /\ Goto(t, IF call[t].n > 0 THEN "encrypt" ELSE "segment")
  /\ UNCHANGED <<done, handle, mem, buf, sealed, calls>>

\* Seal: CTR encryption, with the IV the frame holds; not checked.
LaunchEncrypt(t) ==
  /\ call[t].pc = "encrypt"
  /\ launch(t, [k |-> "encrypt", h |-> call[t].h, b |-> t, n |-> call[t].n,
                pt |-> call[t].iv])
  /\ Goto(t, "segment")
  /\ UNCHANGED <<done, handle, mem, buf, sealed, calls>>

\* enqueue_ghash.  Its own call of ensure_workspace finds the capacity the
\* caller has ensured.
LaunchSegment(t) ==
  LET h == call[t].h
      n == call[t].n
      count == required_nodes(n)
  IN  /\ call[t].pc = "segment"
      /\ launch(t, [k |-> "segment", h |-> h, b |-> t, n |-> n,
                    out |-> handle[h].a])
      /\ IF lastErr'[t]
         THEN Return(t, "ERR_CUDA")
         ELSE /\ call' = [call EXCEPT ![t] =
                   [@ EXCEPT !.in = handle[h].a, !.out = handle[h].b,
                             !.count = count,
                             !.pc = IF count > 1 THEN "combine" ELSE "tag"]]
              /\ UNCHANGED done
      /\ UNCHANGED <<handle, mem, buf, sealed, calls>>

\* The kernel is not given n, which names the operation it belongs to.
LaunchCombine(t) ==
  LET count == call[t].count
      next == halved(count)
  IN  /\ call[t].pc = "combine"
      /\ launch(t, [k |-> "combine", h |-> call[t].h, b |-> t, n |-> call[t].n,
                    in |-> call[t].in, out |-> call[t].out, count |-> count])
      /\ IF lastErr'[t]
         THEN Return(t, "ERR_CUDA")
         ELSE /\ call' = [call EXCEPT ![t] =
                   [@ EXCEPT !.in = call[t].out, !.out = call[t].in,
                             !.count = next,
                             !.pc = IF next > 1 THEN "combine" ELSE "tag"]]
              /\ UNCHANGED done
      /\ UNCHANGED <<handle, mem, buf, sealed, calls>>

\* Seal: the tag, and the only check since the last GHASH launch.
LaunchFinalize(t) ==
  /\ call[t].pc = "tag"
  /\ call[t].op = "seal"
  /\ launch(t, [k |-> "finalize", h |-> call[t].h, b |-> t, n |-> call[t].n,
                in |-> call[t].in])
  /\ Return(t, peeked(t))
  /\ UNCHANGED <<handle, mem, buf, sealed, calls>>

\* Open: the verification, not checked before the decryption is launched.
LaunchVerify(t) ==
  /\ call[t].pc = "tag"
  /\ call[t].op = "open"
  /\ launch(t, [k |-> "verify", h |-> call[t].h, b |-> t, n |-> call[t].n,
                in |-> call[t].in])
  /\ IF call[t].n > 0
     THEN Goto(t, "decrypt") /\ UNCHANGED done
     ELSE Return(t, peeked(t))
  /\ UNCHANGED <<handle, mem, buf, sealed, calls>>

LaunchDecrypt(t) ==
  /\ call[t].pc = "decrypt"
  /\ launch(t, [k |-> "decrypt", h |-> call[t].h, b |-> t, n |-> call[t].n])
  /\ Return(t, peeked(t))
  /\ UNCHANGED <<handle, mem, buf, sealed, calls>>

-----------------------------------------------------------------------------
(* The kernels.  A pointer that is not live holds no nodes: KernelsFit     *)
(* says that no kernel is ever given one.                                  *)

load(p, i) ==
  IF p \in DOMAIN mem /\ i \in DOMAIN mem[p] THEN mem[p][i] ELSE NoNode

\* Store f(i) in the nodes 0 .. m - 1.
store(p, m, f(_)) ==
  mem' = [q \in DOMAIN mem |->
            IF q = p
            THEN [i \in DOMAIN mem[q] |-> IF i < m THEN f(i) ELSE mem[q][i]]
            ELSE mem[q]]

write_version_kernel(k) ==
  /\ buf' = [buf EXCEPT ![k.b].ver = 1]
  /\ UNCHANGED <<mem, sealed>>

write_frame_header_kernel(k) ==
  /\ buf' = [buf EXCEPT ![k.b].ver = 1, ![k.b].iv = k.iv]
  /\ UNCHANGED <<mem, sealed>>

\* ctr_crypt_kernel without a gate.
ctr_encrypt(k) ==
  LET ct == [key |-> k.h, iv |-> buf[k.b].iv, pt |-> k.pt]
  IN  /\ buf' = [buf EXCEPT ![k.b].ct = ct]
      /\ sealed' = sealed \cup {[key |-> k.h, iv |-> ct.iv, pt |-> k.pt, n |-> k.n]}
      /\ UNCHANGED mem

ghash_segment_kernel(k) ==
  LET node(i) == [hk |-> handle[k.h].h_pow2, ct |-> ciphertext(k.b, k.n),
                  lo |-> i * GHASH_SEGMENT_BLOCKS,
                  hi |-> smaller((i + 1) * GHASH_SEGMENT_BLOCKS, k.n + 1)]
  IN  /\ store(k.out, required_nodes(k.n), node)
      /\ UNCHANGED <<buf, sealed>>

joined_swapped(a, b, hk) ==
  IF a.hk = hk /\ b.hk = hk /\ a.ct = b.ct /\ b.hi = a.lo
  THEN [b EXCEPT !.hi = a.hi]
  ELSE NoNode

\* Two nodes hash a range together only if they are neighbours in one hash.
joined(a, b, hk) ==
  IF a.hk = hk /\ b.hk = hk /\ a.ct = b.ct /\ a.hi = b.lo
  THEN [a EXCEPT !.hi = b.hi]
  ELSE NoNode

ghash_combine_kernel(k) ==
  LET node(i) == IF 2 * i + 1 >= k.count
                 THEN load(k.in, 2 * i)
                 ELSE joined(load(k.in, 2 * i), load(k.in, 2 * i + 1),
                             handle[k.h].h_pow2)
  IN  /\ store(k.out, halved(k.count), node)
      /\ UNCHANGED <<buf, sealed>>

finalize_tag_kernel(k) ==
  /\ buf' = [buf EXCEPT ![k.b].tag = Tag(k.h, buf[k.b].iv, load(k.in, 0))]
  /\ UNCHANGED <<mem, sealed>>

verify_tag_only(k) ==
  LET match == SameTag(buf[k.b].tag, Tag(k.h, buf[k.b].iv, load(k.in, 0)))
  IN  /\ buf' = [buf EXCEPT ![k.b].auth = IF match THEN 1 ELSE 0]
      /\ UNCHANGED <<mem, sealed>>

verify_version_only(k) ==
  /\ buf' = [buf EXCEPT ![k.b].auth = IF buf[k.b].ver = 1 THEN 1 ELSE 0]
  /\ UNCHANGED <<mem, sealed>>

\* The tag is compared with what the root gives, also when the powers of H
\* were undefined.
verify_tag_kernel(k) ==
  LET match == SameTag(buf[k.b].tag, Tag(k.h, buf[k.b].iv, load(k.in, 0)))
  IN  /\ buf' = [buf EXCEPT ![k.b].auth =
                   IF buf[k.b].ver = 1 /\ match THEN 1 ELSE 0]
      /\ UNCHANGED <<mem, sealed>>

ctr_decrypt_ungated(k) ==
  /\ buf' = [buf EXCEPT ![k.b].plain = Decrypted(k.h, FrameOf(k.b, k.n), k.n)]
  /\ UNCHANGED <<mem, sealed>>

\* ctr_crypt_kernel gated by auth_ok.
ctr_decrypt(k) ==
  /\ buf' = [buf EXCEPT ![k.b].plain =
               IF buf[k.b].auth = 0
               THEN Zeroed
               ELSE Decrypted(k.h, FrameOf(k.b, k.n), k.n)]
  /\ UNCHANGED <<mem, sealed>>

\* The device runs the first kernel of a stream.
RunKernel(s) ==
  /\ queue[s] # <<>>
  /\ LET k == Head(queue[s])
     IN  \/ k.k = "header" /\ write_frame_header_kernel(k)
         \/ k.k = "encrypt" /\ ctr_encrypt(k)
         \/ k.k = "segment" /\ ghash_segment_kernel(k)
         \/ k.k = "combine" /\ ghash_combine_kernel(k)
         \/ k.k = "finalize" /\ finalize_tag_kernel(k)
         \/ k.k = "verify" /\ verify_tag_kernel(k)
         \/ k.k = "decrypt" /\ ctr_decrypt(k)
  /\ queue' = [queue EXCEPT ![s] = Tail(@)]
  /\ UNCHANGED <<call, done, lastErr, handle, calls, faults>>

-----------------------------------------------------------------------------
Init ==
  /\ call = [t \in Threads |-> Idle]
  /\ done = [t \in Threads |-> Nothing]
  /\ lastErr = [t \in Threads |-> FALSE]
  /\ handle = [h \in Handles |->
       [state |-> "none", h_pow2 |-> None, a |-> None, b |-> None, cap |-> 0]]
  /\ mem = [p \in {} |-> [i \in {} |-> NoNode]]
  /\ queue = [s \in Streams |-> <<>>]
  /\ \E auth \in [Threads -> {0, 1}] : \* device memory comes uninitialized
       buf = [t \in Threads |->
                [ver |-> 0, iv |-> 0, ct |-> NoCt, tag |-> NoTag, n |-> 0,
                 plain |-> Poison, auth |-> auth[t]]]
  /\ sealed = {}
  /\ calls = 0
  /\ faults = MaxFaults

HostStep(t) ==
  \/ EnsureWorkspace(t) \/ MallocB(t) \/ Undo(t) \/ FreeA(t) \/ FreeB(t)
  \/ LaunchHeader(t) \/ LaunchEncrypt(t)
  \/ LaunchSegment(t) \/ LaunchCombine(t)
  \/ LaunchFinalize(t) \/ LaunchVerify(t) \/ LaunchDecrypt(t)

Client(t) ==
  \/ ClearFlag(t) \/ Corrupt(t)
  \/ \E h \in Handles :
       \/ KeyCreate(t, h) \/ KeyDestroy(t, h)
       \/ \E n \in Lens :
            CallReserve(t, h, n) \/ \E field \in Uploads : Upload(t, h, n, field)
       \/ \E s \in Streams :
            \* every seal is given an IV of its own
            CallOpen(t, h, s) \/ \E n \in Lens : CallSeal(t, h, s, n, calls + 1)

Next ==
  \/ \E t \in Threads : HostStep(t) \/ Client(t)
  \/ \E s \in Streams : RunKernel(s)

\* A thread inside a call goes on, and the device runs what is queued.
\* Nothing obliges a client to make another call.
Fairness ==
  /\ \A t \in Threads : WF_vars(HostStep(t))
  /\ \A s \in Streams : WF_vars(RunKernel(s))

Spec == Init /\ [][Next]_vars /\ Fairness

-----------------------------------------------------------------------------
(* Properties.                                                             *)

Cts == [key : Handles \cup {None}, iv : Int, pt : Int]
HashKeys == Handles \cup {None, Zeros}
Nodes == [hk : HashKeys, ct : Cts, lo : Nat, hi : Nat]
Tags == [rk : Handles \cup {None}, iv : Int, root : Nodes]
Frames == [ver : {0, 1, 2}, iv : Int, ct : Cts, tag : Tags]
NullPtrs == Ptrs \cup {None}
Kernels ==
       [k : {"header"}, h : Handles, b : Threads, iv : Nat]
  \cup [k : {"encrypt"}, h : Handles, b : Threads, n : Nat, pt : Nat]
  \cup [k : {"segment"}, h : Handles, b : Threads, n : Nat, out : NullPtrs]
  \cup [k : {"combine"}, h : Handles, b : Threads, n : Nat, in : NullPtrs,
        out : NullPtrs, count : Nat]
  \cup [k : {"finalize", "verify"}, h : Handles, b : Threads, n : Nat,
        in : NullPtrs]
  \cup [k : {"decrypt"}, h : Handles, b : Threads, n : Nat]
Ops == {"none", "seal", "open", "reserve"}
HostSteps == {"workspace", "malloc_b", "undo", "free_a", "free_b", "header",
              "encrypt", "segment", "combine", "tag", "decrypt"}

\* The types of the variables.
TypeOK ==
  /\ call \in [Threads ->
       [pc : {"idle"} \cup HostSteps, op : Ops, h : Handles \cup {None},
        s : Streams \cup {None}, n : Nat, iv : Nat, in : NullPtrs,
        out : NullPtrs, count : Nat]]
  /\ done \in [Threads ->
       [op : Ops, h : Handles \cup {None}, n : Nat, iv : Nat,
        rc : {"none", "OK", "ERR_ALLOC", "ERR_CUDA"}]]
  /\ lastErr \in [Threads -> BOOLEAN]
  /\ handle \in [Handles ->
       [state : {"none", "live", "gone"}, h_pow2 : HashKeys,
        a : NullPtrs, b : NullPtrs, cap : Nat]]
  /\ DOMAIN mem \subseteq Ptrs
  /\ \A p \in DOMAIN mem : mem[p] \in [DOMAIN mem[p] -> Nodes]
  /\ queue \in [Streams -> Seq(Kernels)]
  /\ buf \in [Threads ->
       [ver : {0, 1, 2}, iv : Int, ct : Cts, tag : Tags, n : Nat,
        plain : {Poison, Zeroed} \cup
                [kind : {"decrypted"}, key : Handles, frame : Frames, n : Nat],
        auth : {0, 1}]]
  /\ sealed \subseteq [key : Handles, iv : Int, pt : Nat, n : Nat]
  /\ calls \in Nat /\ faults \in Nat

Holds(p, m) == p \in DOMAIN mem /\ 0 .. m - 1 \subseteq DOMAIN mem[p]

KernelFits(k) ==
  /\ handle[k.h].state = "live"
  /\ k.k = "segment" => Holds(k.out, required_nodes(k.n))
  /\ k.k = "combine" => /\ Holds(k.in, k.count)
                        /\ Holds(k.out, halved(k.count))
                        /\ k.in # k.out
  /\ k.k \in {"finalize", "verify"} => Holds(k.in, 1)

\* No kernel runs with a destroyed key, a freed workspace or one that is too
\* small for it, although handles are destroyed and workspaces replaced
\* while kernels that use them are queued.
KernelsFit == \A s \in Streams : \A k \in KernelsOn(s) : KernelFits(k)

\* The pointers a growing ensure_workspace holds in its locals.
Fresh(t) == IF call[t].pc \in {"malloc_b", "undo", "free_a", "free_b"}
            THEN {call[t].in, call[t].out} \ {None}
            ELSE {}

\* The workspaces of a handle: between the two frees of ensure_workspace its
\* first pointer is one to freed memory.
Held(h) ==
  {handle[h].a, handle[h].b} \
    ({None} \cup {handle[call[t].h].a :
                   t \in {u \in Threads : call[u].pc = "free_b" /\ call[u].h = h}})

\* Every live allocation has an owner that will free it, and only one; what
\* an owner will free is live. No failure between the two allocations and
\* the two frees of ensure_workspace leaks a workspace, shares it or frees it
\* twice.
OneOwner ==
  /\ \A p \in Ptrs :
       p \in DOMAIN mem <=> \/ \E h \in Handles : p \in Held(h)
                            \/ \E t \in Threads : p \in Fresh(t)
  /\ \A h \in Handles : handle[h].a = handle[h].b => handle[h].a = None
  /\ \A g, h \in Handles : g # h => Held(g) \cap Held(h) = {}
  /\ \A t, u \in Threads : t # u => Fresh(t) \cap Fresh(u) = {}
  /\ \A h \in Handles, t \in Threads : Held(h) \cap Fresh(t) = {}

\* "Asynchronously produce [version=1][12-byte IV][ciphertext][16-byte tag]":
\* once the kernels of a seal that returned OK have run, the buffer holds
\* the frame AES-GCM prescribes.
SealedFramesCorrect ==
  \A t \in Threads :
    done[t].op = "seal" /\ done[t].rc = "OK" /\ BufferQuiet(t) =>
      FrameOf(t, done[t].n)
        = GcmFrame(done[t].h, done[t].iv, done[t].iv, done[t].n)

\* "auth_ok receives 1 -> tag/version valid, 0 -> authentication failed. On
\* authentication failure, dst is zero-filled": what an open that returned
\* OK leaves behind decides the authenticity of the frame.
OpensDecide ==
  \A t \in Threads :
    done[t].op = "open" /\ done[t].rc = "OK" /\ BufferQuiet(t) =>
      LET n  == done[t].n
          f  == FrameOf(t, n)
          ok == Authentic(done[t].h, f, n)
      IN  /\ buf[t].auth = IF ok THEN 1 ELSE 0
          /\ n > 0 => buf[t].plain = IF ok THEN Decrypted(done[t].h, f, n)
                                          ELSE Zeroed

\* "No unauthenticated plaintext is intentionally published": whatever rc
\* the open returned, and at every moment.
PlaintextAuthentic ==
  \A t \in Threads :
    buf[t].plain.kind = "decrypted" =>
      Authentic(buf[t].plain.key, buf[t].plain.frame, buf[t].plain.n)

\* The messages sealed: those of the seals here and those of the frames that
\* were sealed elsewhere.
Committed ==
  {[key |-> x.key, n |-> x.n, pt |-> x.pt] : x \in sealed} \cup
  [key : Handles, n : Lens, pt : {0}]

\* The same promise in a weaker form: a plaintext that is published was sealed
\* under its key, with its length, here or elsewhere.
PlaintextSealed ==
  \A t \in Threads :
    LET p == buf[t].plain
    IN  p.kind = "decrypted" =>
          [key |-> p.key, n |-> p.n, pt |-> p.frame.ct.pt] \in Committed

\* A caller that never repeats an IV never has two plaintexts encrypted
\* under one IV and key, although the kernel takes the IV from the frame.
NoncesUnique ==
  \A x, y \in sealed : x.key = y.key /\ x.iv = y.iv => x.pt = y.pt

\* What a caller knows of the open of a buffer: when it has failed, or once
\* the stream has run.
Answer(t) ==
  LET d == done[t]
      published == buf[t].plain
      pt == IF d.n = 0 THEN 0
            ELSE IF published.kind = "decrypted" THEN published.frame.ct.pt ELSE -1
  IN  IF d.rc = "OK" /\ buf[t].auth = 1
      THEN [state |-> "accepted", message |-> [key |-> d.h, n |-> d.n, pt |-> pt]]
      ELSE [state |-> "refused"]

OpenOf(t) ==
  LET asked == IF call[t].op = "open" THEN call[t] ELSE done[t]
  IN  CASE asked.op # "open" -> [state |-> "unused"]
        [] /\ call[t].op # "open" /\ done[t].op = "open"
           /\ done[t].rc # "OK" \/ BufferQuiet(t)         -> Answer(t)
        [] OTHER -> [state |-> "pending", key |-> asked.h, n |-> asked.n]

Endpoint == INSTANCE AeadEndpoint WITH
  Slots <- Threads, Keys <- Handles, Sizes <- Lens \cup {0},
  committed <- Committed, open <- [t \in Threads |-> OpenOf(t)]

\* An open that a caller may believe (OK, and auth_ok set once the stream has
\* run) yields a plaintext that was sealed with its key and length, and what
\* it yields does not change under the other operations of the handle.
IsEndpoint == Endpoint!Spec

\* Every call returns: a growing ensure_workspace waits for the device, and
\* the device for nothing.
CallsReturn == \A t \in Threads : call[t] # Idle ~> call[t] = Idle

=============================================================================

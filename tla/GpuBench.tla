------------------------------ MODULE GpuBench ------------------------------
(***************************************************************************)
(* bench_gpu_aesgcm.py, on the engine of GpuAesGcm: one host thread times  *)
(* seals and opens between two CUDA events, while any one CUDA call of its *)
(* own, made through cuda_runtime.py, or of the engine may fail and raise  *)
(* an exception through its with and finally blocks.                       *)
(*                                                                         *)
(* The script is the sequence Script of its calls.  The thread's buffer of *)
(* GpuAesGcm is d_frame, d_out and d_auth.                                 *)
(***************************************************************************)
EXTENDS GpuAesGcm, FiniteSets, SequencesExt

CONSTANTS
  thread, key, stream, \* the only thread and key handle; the created stream
  default_stream,      \* the stream of cudaMemset
  SIZES,               \* a sequence of plaintext lengths
  WARMUP, ITERATIONS   \* untimed and timed operations of each kind and size

ASSUME BenchAssumption ==
  /\ Threads = {thread} /\ Handles = {key}
  /\ Streams = {stream, default_stream} /\ stream # default_stream
  /\ SIZES \in Seq(Lens \ {0}) /\ SIZES # <<>>
  /\ WARMUP \in Nat /\ ITERATIONS \in Nat \ {0}
  /\ ~ ClearAuth

VARIABLES
  pc,         \* the next call of Script
  raised,     \* is an exception propagating?
  live,       \* the buffers, events and streams that exist
  filled,     \* does d_plain hold the pattern 0xA5?
  iv_counter, \* the next IV
  samples,    \* the operations whose elapsed time was taken
  trace       \* history: what ran on the stream since the event start

bench_vars == <<pc, raised, live, filled, iv_counter, samples, trace>>
all_vars == <<vars, bench_vars>>

-----------------------------------------------------------------------------
(* The script.                                                             *)

\* The blocks that run also after an exception: the finally of each size,
\* the exit of "with GpuAes128GcmKey" and the last finally.
WithExit == Len(SIZES) + 1
LastFinally == Len(SIZES) + 2

closed_on_success == {LastFinally}
\* The blocks around the body of the with statement.
InWith == {WithExit, LastFinally}

\* A call: its operation, the object and length it is for, the block it
\* belongs to (0: none) and the blocks around it.
Instr(op, on, n, block, around) ==
  [op |-> op, on |-> on, n |-> n, block |-> block, around |-> around]

\* The calls of the try of size number j.
Try(j, op, on) == Instr(op, on, SIZES[j], 0, {j} \cup InWith)

Repeat(k, calls_of) == FlattenSeq([i \in 1 .. k |-> calls_of])

seal_once(j) == <<Try(j, "seal", "d_frame"), Try(j, "check", "seal")>>

open_once(j) == <<Try(j, "memset_async", "d_auth"),
                  Try(j, "open", "d_out"), Try(j, "check", "open")>>

measure(j, enqueue, name) ==
  Repeat(WARMUP, enqueue \o <<Try(j, "stream_sync", "stream")>>) \o
  Repeat(ITERATIONS,
    <<Try(j, "record", "start")>> \o enqueue \o
    <<Try(j, "record", "end"), Try(j, "event_sync", "end"),
      Try(j, "elapsed", name)>>)

OneSize(j) ==
  LET malloc(name) == Instr("malloc", name, SIZES[j], 0, InWith)
      free(name) == Instr("free", name, SIZES[j], j, InWith)
      build == seal_once(j) \o <<Try(j, "stream_sync", "stream")>>
  IN  <<malloc("d_plain"), malloc("d_frame"), malloc("d_out"), malloc("d_auth"),
        Try(j, "memset", "d_plain")>> \o
      build \o measure(j, seal_once(j), "seal") \o
      build \o measure(j, open_once(j), "open") \o
      <<free("d_auth"), free("d_out"), free("d_frame"), free("d_plain")>>

first_len == SIZES[1]

\* max(SIZES_MIB)
reserved_len ==
  CHOOSE n \in ToSet(SIZES) : \A m \in ToSet(SIZES) : m <= n

Script ==
  LET outside(op, on) == Instr(op, on, 0, 0, {})
      in_with(op, n) == Instr(op, "key", n, 0, InWith)
      at_end(op, on) == Instr(op, on, 0, LastFinally, {})
  IN  <<outside("create", "stream"), outside("create", "start"),
        outside("create", "end"), Instr("key", "key", 0, 0, {LastFinally}),
        in_with("reserve", reserved_len), in_with("reserved", reserved_len)>> \o
      FlattenSeq([j \in DOMAIN SIZES |-> OneSize(j)]) \o
      <<Instr("close", "key", 0, WithExit, {LastFinally}),
        at_end("destroy", "end"), at_end("destroy", "start"),
        at_end("destroy", "stream")>>

Finished == pc > Len(Script)
Current == Script[pc]

\* The next call after pc that is in one of some blocks.
NextIn(blocks) ==
  LET later == {k \in pc + 1 .. Len(Script) : Script[k].block \in blocks}
  IN  IF later = {} THEN Len(Script) + 1
      ELSE CHOOSE k \in later : \A l \in later : k <= l

\* After a call that succeeds: while an exception propagates, the rest of
\* the block and then the blocks around it.
Proceed ==
  /\ pc' = IF raised THEN NextIn(Current.around \cup {Current.block}) ELSE pc + 1
  /\ UNCHANGED raised

Raise ==
  /\ pc' = NextIn(Current.around)
  /\ raised' = TRUE

\* The thread is at a call of some operation, and not inside the engine.
At(op) == ~ Finished /\ Current.op = op /\ call[thread] = Idle

-----------------------------------------------------------------------------
(* cuda_runtime.py: a call fails with an exception and without effect.     *)

check_fails(op) ==
  /\ At(op)
  /\ Fault("runtime")
  /\ Raise
  /\ UNCHANGED <<call, done, lastErr, handle, mem, queue, buf, sealed, calls,
                 live, filled, iv_counter, samples, trace>>

RuntimeOps == {"create", "malloc", "memset", "memset_async", "record",
               "stream_sync", "event_sync", "elapsed", "free", "destroy"}

\* stream_create, event_create.
Create ==
  /\ At("create")
  /\ live' = live \cup {Current.on}
  /\ Proceed
  /\ UNCHANGED <<vars, filled, iv_counter, samples, trace>>

\* What cudaMalloc returns is not initialized.  iv_counter starts anew with
\* the buffers of a size.
Malloc ==
  /\ At("malloc")
  /\ live' = live \cup {Current.on}
  /\ filled' = (filled /\ Current.on # "d_plain")
  /\ CASE Current.on = "d_frame" ->
            buf' = [buf EXCEPT ![thread].ver = 0, ![thread].iv = 0,
                               ![thread].ct = NoCt, ![thread].tag = NoTag]
       [] Current.on = "d_out"   -> buf' = [buf EXCEPT ![thread].plain = Poison]
       [] Current.on = "d_auth"  ->
            \E auth \in {0, 1} : buf' = [buf EXCEPT ![thread].auth = auth]
       [] OTHER                  -> UNCHANGED buf
  /\ Proceed
  /\ iv_counter' = 1
  /\ UNCHANGED <<call, done, lastErr, handle, mem, queue, sealed, calls, faults,
                 samples, trace>>

\* cudaMemset, cudaMemsetAsync and cudaEventRecord enqueue their work.
Enqueue(op, on_stream) ==
  /\ At(op)
  /\ Len(queue[on_stream]) < QueueDepth
  /\ queue' = [queue EXCEPT ![on_stream] =
                 Append(@, [k |-> op, on |-> Current.on, h |-> None, b |-> None])]
  /\ Proceed
  /\ UNCHANGED <<call, done, lastErr, handle, mem, buf, sealed, calls, faults,
                 live, filled, iv_counter, samples, trace>>

Memset == Enqueue("memset", default_stream)
MemsetAsync == Enqueue("memset_async", stream)
Record == Enqueue("record", stream)

StreamSync ==
  /\ At("stream_sync")
  /\ queue[stream] = <<>>
  /\ Proceed
  /\ UNCHANGED <<vars, live, filled, iv_counter, samples, trace>>

EventSync ==
  /\ At("event_sync")
  /\ \A k \in KernelsOn(stream) : ~ (k.k = "record" /\ k.on = Current.on)
  /\ Proceed
  /\ UNCHANGED <<vars, live, filled, iv_counter, samples, trace>>

\* event_elapsed_ms; both events have happened.
Elapsed ==
  /\ At("elapsed")
  /\ samples' = Append(samples, [op |-> Current.on, n |-> Current.n])
  /\ Proceed
  /\ UNCHANGED <<vars, live, filled, iv_counter, trace>>

Free ==
  /\ At("free")
  /\ DeviceIdle
  /\ live' = live \ {Current.on}
  /\ Proceed
  /\ UNCHANGED <<vars, filled, iv_counter, samples, trace>>

\* event_destroy, stream_destroy: none of them waits.
Destroy ==
  /\ At("destroy")
  /\ live' = live \ {Current.on}
  /\ Proceed
  /\ UNCHANGED <<vars, filled, iv_counter, samples, trace>>

-----------------------------------------------------------------------------
(* Calls of the engine.                                                    *)

\* GpuAes128GcmKey.__init__ raises unless it gets a handle.
Key ==
  /\ At("key")
  /\ KeyCreate(thread, key)
  /\ IF handle'[key].state = "live" THEN Proceed ELSE Raise
  /\ UNCHANGED <<live, filled, iv_counter, samples, trace>>

Reserve ==
  /\ At("reserve")
  /\ CallReserve(thread, key, Current.n)
  /\ Proceed
  /\ UNCHANGED <<live, filled, iv_counter, samples, trace>>

\* A reserve returned OK if and only if it leaves the capacity asked for.
Reserved ==
  /\ At("reserved")
  /\ IF is_kept(key, Current.n) THEN Proceed ELSE Raise
  /\ UNCHANGED <<vars, live, filled, iv_counter, samples, trace>>

Seal ==
  /\ At("seal")
  /\ CallSeal(thread, key, stream, Current.n, iv_counter)
  /\ iv_counter' = iv_counter + 1
  /\ Proceed
  /\ UNCHANGED <<live, filled, samples, trace>>

Open ==
  /\ At("open")
  /\ CallOpen(thread, key, stream)
  /\ Proceed
  /\ UNCHANGED <<live, filled, iv_counter, samples, trace>>

\* GpuAesGcmLibrary.check of the return code.
Check ==
  /\ At("check")
  /\ IF done[thread].rc = "OK" THEN Proceed ELSE Raise
  /\ UNCHANGED <<vars, live, filled, iv_counter, samples, trace>>

\* The exit of the with block.
Close ==
  /\ At("close")
  /\ KeyDestroy(thread, key)
  /\ Proceed
  /\ UNCHANGED <<live, filled, iv_counter, samples, trace>>

Host ==
  /\ HostStep(thread)
  /\ UNCHANGED bench_vars

-----------------------------------------------------------------------------
(* The device.                                                             *)

\* cudaStreamCreate: work on the stream waits for that of the default stream.
MayRun(s) == s = stream => queue[default_stream] = <<>>

\* What ran, as the trace keeps it.
Ran(k) == IF k.k = "encrypt" /\ ~ filled THEN "encrypt_undefined" ELSE k.k

Device(s) ==
  LET k == Head(queue[s])
      pop == queue' = [queue EXCEPT ![s] = Tail(@)]
      rest == UNCHANGED <<call, done, lastErr, handle, mem, sealed, calls, faults>>
  IN  /\ queue[s] # <<>>
      /\ MayRun(s)
      /\ \/ k.k = "memset" /\ filled' = TRUE /\ pop /\ rest /\ UNCHANGED buf
         \/ /\ k.k = "memset_async"
            /\ buf' = [buf EXCEPT ![thread].auth = 0]
            /\ pop /\ rest /\ UNCHANGED filled
         \/ k.k = "record" /\ pop /\ rest /\ UNCHANGED <<buf, filled>>
         \/ /\ k.k \notin {"memset", "memset_async", "record"}
            /\ RunKernel(s) /\ UNCHANGED filled
      /\ trace' = CASE s = default_stream               -> trace
                    [] k.k = "record" /\ k.on = "start" -> <<>>
                    [] k.k = "record" /\ k.on = "end"   -> Append(trace, "end")
                    [] OTHER                            -> Append(trace, Ran(k))
      /\ UNCHANGED <<pc, raised, live, iv_counter, samples>>

-----------------------------------------------------------------------------
BenchInit ==
  /\ Init
  /\ pc = 1
  /\ raised = FALSE
  /\ live = {}
  /\ filled = FALSE
  /\ iv_counter = 1
  /\ samples = <<>>
  /\ trace = <<>>

Step ==
  \/ \E op \in RuntimeOps : check_fails(op)
  \/ Create \/ Malloc \/ Free \/ Destroy
  \/ Memset \/ MemsetAsync \/ Record
  \/ StreamSync \/ EventSync \/ Elapsed
  \/ Key \/ Reserve \/ Reserved \/ Seal \/ Open \/ Check \/ Close

BenchNext == Step \/ Host \/ \E s \in Streams : Device(s)

\* The script goes on, and the device runs what is queued.
BenchFairness ==
  /\ WF_all_vars(Step \/ Host)
  /\ \A s \in Streams : WF_all_vars(Device(s))

BenchSpec == BenchInit /\ [][BenchNext]_all_vars /\ BenchFairness

-----------------------------------------------------------------------------
(* Properties.                                                             *)

\* The kernels of an operation on n blocks of ciphertext, in order.
Chain(op, n) ==
  LET count == required_nodes(n)
      rounds == CHOOSE r \in 0 .. count :
                  2 ^ r >= count /\ (r > 0 => 2 ^ (r - 1) < count)
      ghash == <<"segment">> \o [i \in 1 .. rounds |-> "combine"]
  IN  IF op = "seal"
      THEN <<"header", "encrypt">> \o ghash \o <<"finalize">>
      ELSE <<"memset_async">> \o ghash \o <<"verify", "decrypt">>

\* The operation that was timed did what it is to do.
Right(op, n) ==
  LET d == done[thread]
      frame == FrameOf(thread, n)
  IN  /\ d.op = op /\ d.n = n
      /\ op = "seal" => frame = GcmFrame(key, d.iv, d.iv, n)
      /\ op = "open" => /\ Authentic(key, frame, n)
                        /\ buf[thread].auth = 1
                        /\ buf[thread].plain = Decrypted(key, frame, n)

\* Every time that is taken is the time of all the kernels of one operation
\* of the size it is attributed to and of nothing else, on an initialized
\* plaintext and with the right result (the script never reads auth_ok), in
\* the workspace reserved "outside the timed path".
SamplesGenuine ==
  [][samples' # samples =>
       LET last == samples'[Len(samples')]
       IN  /\ trace = Chain(last.op, last.n) \o <<"end">>
           /\ Right(last.op, last.n)
           /\ handle[key].cap = required_nodes(reserved_len)]_all_vars

\* Whichever call fails, the script comes to its end, and then the key is
\* destroyed, the workspace freed and nothing left to run that uses them.
KeyClosed ==
  <>[](/\ Finished
       /\ handle[key].state # "live"
       /\ DOMAIN mem = {}
       /\ \A k \in KernelsOn(stream) : k.h = None)

=============================================================================

# ConfKV in TLA+

ConfKV seals the persistent objects of an LLM key/value cache with AES-128-GCM,
on the GPU (CUDA) or on the CPU (OpenSSL), into one frame format:
`[version | 12-byte IV | ciphertext | 16-byte tag]`. This directory holds a
model of that code, the TLC runs that check it on small instances and the
proofs that hold for every size. Paths below are relative to
`src/experiments/gpu_kv_seal/`.

- [Inventory](#inventory): the components and what makes them correct
- [Modules](#modules): what models what
- [Runs](#runs): what each run checks, its bounds, and what it shows
- [Findings](#findings)
- [Proofs](#proofs)
- [What is not modelled](#what-is-not-modelled)
- [Plan](#plan): what comes next

## Inventory

| Component | State it keeps | Operations | What is hard | Correct when |
|---|---|---|---|---|
| Parallel GHASH (`gpu/gpu_aesgcm.cu`: `required_nodes`, `ghash_segment_kernel`, `ghash_combine_kernel`, `enqueue_ghash`) | two workspace buffers of nodes, registers of the threads | one segment kernel, then combine kernels until one node is left | odd levels, partial last blocks, the length block, threads past the end, ping-pong buffers, nodes of earlier operations | the root is the GHASH of the ciphertext; no access outside the workspace; the chain ends |
| GPU seal/open engine (`gpu/gpu_aesgcm.cu`, `gpu/gpu_aesgcm_api.h`) | the key handle (round keys, powers of H, workspace, capacity), device buffers, `auth_ok`, the last error of each host thread | `key_create`, `key_destroy`, `reserve`, `seal_async`, `open_async` | kernels run after the call has returned; a workspace replaced or a key destroyed with kernels queued; launches that are checked late or never; a gate that lives in device memory; several threads and streams | frames of successful seals are GCM frames; nothing unauthenticated is published; kernels only touch live memory; nothing leaks; calls return |
| Native CPU AES-GCM (`native/cpu_seal_openssl.cpp`) | one `EVP_CIPHER_CTX` per thread | `seal`, `open` | a context reused after a failure, decryption before authentication, chunked updates, an IV drawn into the output | the same promises, and nothing provisional left after a failure |
| LMCache serde integration (`integration/native_aesgcm_serde.py`) | the keys of a serializer; worker threads, processors and buffers belong to LMCache | the factory, `serialize`, `deserialize` | concurrent tasks on shared frames, processors closed and made anew with other keys, lengths taken from buffers, errors of three kinds | every task is answered, and `True` means the plaintext is whole and authentic |
| Python key binding (`gpu/gpu_aesgcm.py`) | the native handle of a key | construct, `reserve`, `seal_async`, `open_async`, `close`, `__del__` | close against a running call, double destroy, partial creation | each handle is destroyed once, after its last use |
| Frame arithmetic and counters (`frame_size`, the argument checks, `ctr_crypt_kernel`) | the bytes of the buffers | seal and open of any length | `size_t` wrap-around, negative lengths, the limit of 2^32 - 2 blocks, padded and stale buffers | no key-stream byte is used twice, a frame is complete and inside its buffer, a failed open leaves zeros |
| Field arithmetic (`gf_mul`, `gf_pow_from_table`, `init_hash_key_kernel`) | the table of powers of H | one loop each | bits carried between two words, the reduction | the product is the one of the field |
| CUDA harness (`gpu/cuda_runtime.py`) | the library it has loaded; buffers, streams and events belong to the scripts | one CUDA runtime call each, an exception on failure | every call can raise, and some return before their work is done | no failure goes unreported, and a script that fails still destroys its key |
| CPU paper benchmark (`scripts/run_cpu_paper_bench.sh`, `bench_seal_worker.py`, `bench_open_worker.py`, `bench_optimized_cpu.py`, `summarize_results.py`) | raw CSV files, per-process rows, summary | a process for each mode, size and repetition; the summary over all files | processes that die half way through a file, backends that are wrong without reporting it, first touches of pages inside the timing | the summary is that of complete, warm and verified samples, or there is none |
| GPU benchmark (`scripts/bench_gpu_aesgcm.py`) | streams, events, buffers, the IV counter | seals and opens between two events | return codes of asynchronous calls, exceptions through three nested blocks, work on the default stream, `auth_ok` never read | each time taken is that of one whole correct operation; the key is always destroyed |
| AES-128, gates and tests, build | none that outlives a call | | | |

How they interact. A client (tests and the GPU benchmark today, LMCache later) owns
streams, device buffers and the `auth_ok` flag; it calls the engine through the
binding. The engine enqueues kernels and returns; host and device share the
key handle's workspace, and the engine's only view of what happened to a launch
is `cudaPeekAtLastError`, an error flag per host thread that nothing in the code clears.
On the CPU path, LMCache's `AsyncSerdeProcessor` runs `serialize` and
`deserialize` on worker threads; each calls into the shared library with raw
buffer addresses, and the library uses the context of the calling thread. The
two paths meet in the frame: what one seals the other opens.

The hazards, each at its line and with the properties that cover it, are in
`PROJECT.json`.

## Modules

| Module | Models | Level of detail |
|---|---|---|
| `GhashTree` | the parallel GHASH | one step per loop iteration or return of a GPU thread; field elements as formal sums |
| `GhashTreeProofs` | theorems about `GhashTree` | |
| `GpuAesGcm` | the seal/open engine | one step per CUDA call of a host thread, one per kernel on the device |
| `GpuAesGcmProofs` | theorems about `GpuAesGcm`: types, memory and nonces | |
| `GpuPipelineProofs` | theorems about what its kernels compute, and that it implements `AeadEndpoint` | |
| `NativeSerde` | serde and native library | one step per EVP call (calls that only change the context are grouped), one per chunk |
| `NativeSerdeProofs` | theorems about `NativeSerde`: its seals | |
| `NativeEndpointProofs` | theorems about its opens, and that it implements `AeadEndpoint` | |
| `GhashField` | the field arithmetic under `GhashTree` | one step per loop iteration of a kernel; `gf_mul` as a function |
| `CtrFrame` | lengths, checks, counters and every byte of a frame | one step per call, per single-threaded kernel and per thread of `ctr_crypt_kernel` |
| `CtrFrameProofs` | theorems about `CtrFrame`: what is written where, its key stream, and what opens | |
| `AeadEndpoint` | what both backends promise their user | the abstract specification that `GpuAesGcm` and `NativeSerde` implement |
| `PaperBench` | the CPU paper benchmark, from the runner's loops to the summary | one step per operation of a process, per file operation and per stage of the summary |
| `PaperBenchProofs` | theorems about `PaperBench` | |
| `GpuBench` | the GPU benchmark, on top of `GpuAesGcm` | one step per call of the script |
| `KeyHandle` | the Python key over `key_create`, `key_destroy` and `DeviceGuard` | one step per resource acquired, per guard, per return |
| `KeyHandleProofs` | theorems about `KeyHandle` | |
| `MC...` | small instances for TLC | |

`GpuBench` extends `GpuAesGcm` and runs its actions as those of the only host
thread, so script, engine and device are composed. The other modules share no
variables. Each takes what another one establishes as a single step:
`GhashTree` multiplies formally (`GhashField` shows that `gf_mul` does),
`CtrFrame` and `GpuAesGcm` take the GHASH of a ciphertext as a value
(`GhashTree`), `GpuAesGcm` runs `ctr_crypt_kernel` in one step (`CtrFrame`) and
makes and destroys handles in one step (`KeyHandle`).

### AeadEndpoint

The state is what a user of sealed objects may believe: the messages that have
been sealed (`committed`), and for each plaintext buffer whether its latest
open is pending, refused, or accepted with a message. `Accept` is possible only
with a committed message of the key and length that were asked for, and an
answer does not change before the buffer is used again. `IsEndpoint`, in both
`GpuAesGcm` and `NativeSerde`, is `AeadEndpoint!Spec` under the mapping given by
two definitions there:

| | `GpuAesGcm` | `NativeSerde` |
|---|---|---|
| `Committed` | plaintexts the encryption kernel has run on, and those of the frames that are uploaded | messages of the seals that were reported as successful |
| `OpenOf` | pending until the call has failed or its kernels have run, then accepted if the call returned `OK` and `auth_ok` is 1 | pending until the processor reports the task, then accepted if it reports success |
| the message of an accepted open | what the published plaintext was decrypted from | the content of the destination buffer, if all of it is of one seal |

A destination of the native path in which an unsuccessful open left something it
had decrypted maps to no state of the abstract specification, so `IsEndpoint`
also says that nothing provisional is left.

### GhashTree

`enqueue_ghash` starts an operation of any length in `Lengths`, sizes the
workspace (`ensure_workspace`) and launches the segment kernel; `SegmentStep`
and `SegmentReturn` are the threads of that kernel, `CombineReturn` those of
the combine kernel, in any order. `FirstCombine`, `NextCombine` and
`SingleNode` are the chain the host has put into the stream: a kernel starts
when the one before it has finished. `SegmentReturn` includes the early return
of the surplus threads. Nodes keep what earlier operations left in them.

A field element is the set of the pairs `<<X, e>>` of a term X of the hash and
an exponent: the formal sum of the products X * H^e over GF(2). `bxor` is
symmetric difference and multiplication by H^k adds k to the exponents. An
equality of such sets holds for every key and every ciphertext. The identities
used are those of a commutative ring of characteristic 2; that `gf_mul` and
`gf_pow_from_table` implement that product is the subject of `GhashField`.

`Ghash` is the reference: the definition of NIST SP 800-38D written down
without looking at the kernels.

### GpuAesGcm

| Definition | Code |
|---|---|
| `call[t].pc` | where host thread t is inside `seal_async`, `open_async` or `reserve` |
| `EnsureWorkspace`, `MallocB`, `Undo`, `FreeA`, `FreeB` | `ensure_workspace`, split at its `cudaMalloc` and `cudaFree` calls |
| `LaunchHeader`, `LaunchEncrypt`, `LaunchSegment`, `LaunchCombine`, `LaunchFinalize`, `LaunchVerify`, `LaunchDecrypt` | the launches, each with the check that follows it in the code, or without one |
| `KeyCreate`, `KeyDestroy` | `key_create`, `key_destroy` |
| `RunKernel` and the kernel operators | the device running the first kernel of a stream |
| `CallSeal`, `CallOpen`, `CallReserve`, `ClearFlag`, `Upload`, `Corrupt` | what a caller does, with the rules it must keep (`HandleFree`, `BufferFree`) |
| `buf[t]` | the frame, the plaintext and the `auth_ok` flag of the buffers thread t passes |

Data is symbolic: a ciphertext records the key, IV and plaintext it was
computed from, a tag its key, IV and GHASH root, a node the range it covers.
Two tags are equal only if they were computed from equal inputs, which is the
assumption that nobody forges a tag. `SameTag` is the comparison of
`verify_tag_kernel`, and has the exception: powers of H that are zero hash
everything to zero. The powers of a handle (`h_pow2`) are those of its key, or,
when their kernel was never launched, what the memory held: some fixed garbage
(`None`), under which a seal and an open of one handle agree, or `Zeros`. A kernel
is one step because `GhashTree` shows what the kernels compute whatever the order of their threads.

Assumed of CUDA, which is outside the repository: kernels of one stream run
in order; a launch that fails enqueues nothing and sets the thread's last
error, which `cudaPeekAtLastError` reports without clearing it;
`cudaDeviceSynchronize` does not report such a failure; `cudaFree` waits for
the device; a stream holds a bounded number of kernels and a launch waits for
room. `KeyCreate` is one step because no other thread knows the handle yet;
`Fault("malloc")` in it stands for any allocation or copy that fails and is
checked.

The rules of the caller: overlapping operations of one handle are on one stream
(`gpu_aesgcm_api.h:55-56`); a buffer is not used by two streams at once; every
seal has an IV of its own; a handle is not destroyed during a call with it.
Pointers are interchangeable, and the next allocation takes the first free one
(`Addresses`), so that states which differ only in the choice of addresses are not
told apart twice; an address that anything still refers to (`Referenced`) may be
the one chosen, as with `cudaMalloc`. `ClearAuth` says whether callers clear `auth_ok` before an open, as the tests
and the benchmark do. `SerialCalls` says that two host threads are not inside calls
with one handle at the same time. No document states that rule, but the
workspace needs it: launches of two calls can interleave in one stream
([Findings](#findings)).

### NativeSerde

| Definition | Code |
|---|---|
| `Create`, `Close` | the factory, with its refusals; the end of a processor, whose tasks have been answered |
| `get_key`, `Keys` | LMCache's key provider: a function of the master key and the cache salt (external) |
| `SubmitSerialize`, `SubmitDeserialize`, `taken` | LMCache's processor: a FIFO executor (external) |
| `Tamper` | a stored frame that changes, as in `scripts/test_native_security.py` |
| `refused`, `Take` | `serialize`, `deserialize` up to the native call |
| `Version` | `frame[0] != 1` |
| `Context` | the `thread_local` constructor, the null check, `EVP_CIPHER_CTX_reset` |
| `Rand` | `dst[0] = 1` and `RAND_bytes` |
| `InitSeal`, `InitOpen`, `SetTag` | cipher, IV length, key and IV; the expected tag |
| `EncryptUpdate`, `DecryptUpdate` | one iteration of the update loops; a chunk stands for up to `INT_MAX` bytes |
| `EncryptFinal`, `GetTag`, `DecryptFinal` | the end of a seal and of an open |
| `Return` | the return code, and what `serialize`/`deserialize` make of it |

A frame buffer is a row of cells, so that a wrong length finds the tag in the
wrong place, as it does in the code. Two pending tasks never write one buffer
(LMCache allocates them); a frame may be rewritten by a seal, or changed, while
an open reads it. The processor gives a destination its full size before a
seal, and the length `serialize` returned after it.

### GhashField

Blocks are two words of `WORD` bits, as integers; `gf_mul`, with `bit_of` and
`times_x`, is the code's loop. `init_hash_key_kernel` and `gf_pow_from_table`
are the two kernel loops, `Multiply` their use. The reference represents a
polynomial as the set of its exponents: `IsProduct(z, a, b)` says that z is the
remainder of a * b, through the existence of a quotient.

### CtrFrame

| Definition | Code |
|---|---|
| `CallSeal`, `CallOpen` | the argument checks of `seal_async` and `open_async`; a refused call changes nothing |
| `frame_size`, `block_count` | the `size_t` arithmetic, modulo `SIZE_WRAP` |
| `grid_size`, `to_int`, `launched` | the number of CUDA blocks, cast to `int`, and the threads they start; a grid that is no positive `int` is not launched |
| `ctr_crypt_kernel`, `EncryptThread`, `DecryptThread` | one thread of the kernel, in any order |
| `write_frame_header_kernel`, `finalize_tag_kernel`, `verify_tag_kernel` | the single-threaded kernels |
| `Flip` | a stored frame that changes, as in `scripts/test_gpu_security.py` |

A byte is a formal XOR: the set of its summands. Two tags are equal only for
equal ciphertexts, lengths and IVs. Both buffers keep what earlier calls left
in them, so that a short frame is sealed over a long one and opened with the
wrong length.

### PaperBench

| Definition | Code |
|---|---|
| `RUN_ID`, `Points`, `AfterExit` | the three loops of the runner, under `set -e` |
| `Start`, `pretouched` | the set-up of a process: its mode, key and buffers |
| `Warm`, `Timed` | the warm-up and the timed loop |
| `Check`, `verified` | the correctness check after the timing; it opens the output file when it succeeds |
| `Write`, `Report` | the rows of the CSV file; the printed statistics and the exit |
| `Die`, `SummarizerDies` | an exception or a signal, at any point |
| `TimesOf`, `PerProcess`, `RowsOf`, `Summarize` | `summarize_results.py` |

The three worker scripts have the same shape; each definition is mapped at one
of them, and their differences are in `pretouched`, `Operated` and `verified`.
A buffer is known by its content and by whether its pages were touched. A
backend that is wrong without reporting it is wrong in every operation of its
process: the check sees one operation and nothing else could be asked of it.
The durations of the timed operations are chosen at the start (`clock`), the
same for all modes and sizes.

### GpuBench

`Script` is the sequence of the calls the script makes, each with the block it
belongs to and the blocks around it: the `finally` of each size, the exit of
`with GpuAes128GcmKey`, the outer `finally`. An exception continues at the
next call of a block around (`Raise`), as Python does; a call that fails
inside a `finally` abandons the rest of it. Calls of the engine are the actions
of `GpuAesGcm`; calls of the harness fail without an effect
(`check_fails`). `cudaMemset` works on the default stream, and a stream made
with `cudaStreamCreate` waits for it (`MayRun`). `trace` is a history variable:
what has run on the stream since the event `start`.

Each size starts again with IV 1 under the same key and the same pattern
(`bench_gpu_aesgcm.py:139`). An IV is so used again, with plaintexts of which one
is a prefix of the other; nothing of the benchmark is kept. It is the reason
why `NoncesUnique` is not asked of this run.

### KeyHandle

| Definition | Code |
|---|---|
| `Construct`, `Call`, `Close`, `Drop`, `Forget` | `__init__`, the methods that use the handle, `close` with `__exit__`, `__del__`, and the assignment after the native call |
| `Guard`, `Restore` | constructor and destructor of `DeviceGuard`; `cudaSetDevice` of an absent device changes nothing |
| `New`, `Succeeds`, `Allocates`, `Fails`, `Out` | `key_create`, with the clean-up of each failure |
| `Grow`, `Free` | `ensure_workspace` in a call, `key_destroy` |

The interpreter lets other threads run during a native call, so threads
interleave between all of these. `OneAtATime` is a rule of the caller: one
thread at a time is inside an object. No document states it and the code needs
it: without it two concurrent `close` calls destroy one handle twice. A
`cudaFree` that fails is not modelled (its result is ignored everywhere, and it
only fails when the context is lost).

## Runs

| Run | Instance | Question | States |
|---|---|---|---|
| `ghash_tree` | blocks of 2 bytes, segments of 2 terms, CUDA blocks of 2 threads, lengths 0, 1, 4, 9, 16 | is the root the GHASH, whatever the order of the threads and the operations | 20 thousand |
| `ghash_field` | GF(2^4), two words of 2 bits, all keys, exponents 0 to 15, all factors | do the loops compute in the field | 6 thousand |
| `ctr_frame` | blocks of 2 bytes, header 2, tag 1, a 2-bit counter, lengths 0 to 7, buffers of 5, 7 and 10, 3 calls, one changed byte per frame | is every byte right at and beyond the counter's limit | 150 thousand |
| `key_handle` | 2 threads, 2 keys, 2 devices and an absent one, 1 failure | do key handles leak, outlive or precede their use, or end on the wrong device | 1.1 million |
| `gpu_faults` | 1 thread, 1 stream, 2 handles, lengths 0, 1 and 5, 2 calls, 1 failure of any call, all altered frames | can return codes and `auth_ok` be trusted when a call fails, and do the opens of two keys implement the endpoint | 1.8 million |
| `gpu_streams` | 2 threads, 2 streams, 1 handle, 3 calls, a failing allocation | is the sharing rule of the header enough, with workspaces growing and keys destroyed, and does every call return | 220 thousand |
| `native_faults` | 1 worker, 2 processors with different master keys, 3 tasks, lengths 0 to 3 in buffers of 2, 1 failure, 1 change | is what a task reports true, whatever the context has been through, and is every task answered | 800 thousand |
| `native_workers` | 2 workers, 2 salts, 4 tasks | a frame rewritten while it is opened | 3.1 million |
| `paper_bench` | 6 modes, 2 sizes, 3 repetitions of 2 timed operations, 1 failure | is a summary that exists the one of complete, warm and verified samples | 390 thousand |
| `gpu_bench` | 3 sizes, of 1, 2 and 3 nodes, 2 timed operations of each kind, 2 failures of any calls | what do the reported times measure, and is the key destroyed | 15 thousand |
| `gpu_stale_flag`, `gpu_zero_powers` | 1 or 2 threads, 1 handle, 1 failure of the launch in question | the findings | |

Why the bounds suffice. `GhashTree`: five segments give the chain 5, 3, 2, 1,
in which the last node is carried over at the first two levels and combined at the third; length
0 is the length block alone, 1 and 9 end in a partial block, 4 fills a segment
and pushes the length block into the next node; the shorter operations after
longer ones read a workspace with old nodes. The theorems remove these bounds.
`GhashField`: both words, the carry between them and both branches of the
reduction occur; 128 bits are more of the same rounds. `CtrFrame`: two
blocks are all that the 2-bit counter has left after 0 and J0, so lengths 5 to 7
are refused by a seal and accepted by an open; the third call sees the remains
of the two before. `KeyHandle`: one failure is what a constructor can meet before it
gives up; the third device is the one whose `cudaSetDevice` fails.
`GpuAesGcm`: lengths of one and of three nodes make a workspace grow and be
kept, and give chains of none and of two combine kernels (both buffers are the
root's). In `gpu_faults` an operation meets a failure and a second call shows
the damage, with the same key or with the other; frames of both keys, intact
or altered, can be uploaded in between. In `gpu_streams` two calls overlap and
a third one comes after. One failure is what a return code has to report, and
the sticky error makes later failures no different. `QueueDepth` 3 is less than the
kernels of one seal, so launches do wait. The names of the two keys are
interchangeable in `gpu_faults` (symmetry, which no liveness run uses).
`NativeSerde`: two chunks show the first and the last; three tasks are a seal,
an open and a seal over it, and a fourth is a second open. `PaperBench`: two
timed operations give the median of an even number, three processes that of an
odd one; the second size shows that the groups are kept apart. `GpuBench`: the
first size is not the largest, so that a workspace reserved for it would have to
grow in a timed call; the second failure is the one that meets a block that
cleans up after the first.

`CHECK_DEADLOCK FALSE` appears where the caller stops after its last call or
task, when every key is closed and dropped, or when a script has ended: such a
system has nothing left to do.

Fairness. The device runs the queued kernels and the threads of a launched one
(`WF` of `Device`, `RunKernel`), a host thread inside a call and a worker with
a task go on (`WF` of `HostStep`, `Work`), and a script goes on to its next call
(`BenchFairness`: `WF` of `Step \/ Host`). None of these blocks on anything but
the actions just named. Nothing obliges a caller to call, clear or submit.

### Properties

`GhashTree`: `RootIsGhash`, `InBounds`; `NodesAreSegments` is the invariant
behind them; `ChainEnds`.

`GhashField`: `MulIsProduct`, `PowerLoop` (the loop invariant of the powers,
which the table of squares enters).

`CtrFrame`: `KeystreamOnce` (no two bytes of a frame share a byte of key
stream, and none uses the tag's), `FrameComplete` (an accepted seal leaves the
whole frame, within the capacity, and nothing else), `FailedOpenZeroes` (for
every length whose grid fits an `int`, also one no seal accepts), `OpensExact` (an open succeeds exactly
for an intact frame of that length, and yields its plaintext).

`KeyHandle`: `UsedAlive`, `NoLeak`, `DeviceRestored`, `OnItsDevice`.

`GpuAesGcm`: `KernelsFit` (no kernel runs on freed, foreign or undersized
memory), `OneOwner` (every allocation has exactly one owner, a handle or a call
that is replacing its workspaces, through all failure paths of
`ensure_workspace`), `SealedFramesCorrect` (a seal that returned OK leaves
the frame GCM prescribes), `OpensDecide` (an open that returned OK leaves the
right flag and the plaintext or zeros), `PlaintextAuthentic` (nothing
unauthenticated is published, whatever was returned, at any moment),
`NoncesUnique`, `CallsReturn`, and `IsEndpoint`, which relates what successive
opens of a buffer answer to what was sealed before. `PlaintextSealed`, the
promise of `gpu_zero_powers`, is weaker than `PlaintextAuthentic`: a published
plaintext was sealed under its key, with whatever tag.

`NativeSerde`: `IsEndpoint` (success means one whole sealed plaintext, failure
that nothing decrypted is left), `SealedFramesCorrect`, `NoncesUnique`,
`IntactFramesOpen`, `TasksAnswered`.

`PaperBench`: `SummaryFaithful` (a summary covers every mode, size, process and
sample, and its figures are the medians they are called and agree with each other), `SummaryVerified`
(no summary contains a checked mode whose backend was wrong), `TimedWarm` (no
timed operation touches a page for the first time), `RawRetained` (finished raw
files never change).

`GpuBench`: `SamplesGenuine` (a time is that of all kernels of one operation, of
the size it is reported for, with the right result), `KeyClosed`.

Each property of a passing run has a mutant in `PROJECT.json`: a plausible bug
in one definition, with which TLC finds the property violated.

## Findings

**A verification that does not launch leaves the gate to a stale flag**
(`gpu_stale_flag`). `open_async` checks the last error after the GHASH chain
and then again only after the decryption is in the stream. If the launch of
`verify_tag_kernel` fails in between, `ctr_crypt_kernel` reads an `auth_ok`
that nobody wrote: uninitialized memory, or 1 from the frame opened before. The
call returns `ERR_CUDA` and the plaintext is published. With callers that clear
the flag (`ClearAuth = TRUE`) `gpu_faults` shows the same property to hold: the
decryption then zero-fills. A check after the verification launch, or a
`cudaMemsetAsync` of the flag inside `open_async`, would remove the condition.

**A hash-key kernel that does not launch goes unnoticed, and altered frames are
accepted** (`gpu_zero_powers`). `key_create` returns OK with undefined powers of
H. In the creating thread the sticky last error makes the next seal fail; in any
other thread a seal returns OK with a wrong tag, and an open accepts that frame,
because it computes the same wrong tag. If the memory held zeros, every ciphertext
hashes to zero, and the tag depends on key and IV alone: in the run a byte of a
sealed ciphertext changes, and the open publishes a plaintext nobody sealed, with
`auth_ok = 1` and OK. A check of the last error in `key_create` would remove this.

Five more things the models show are recorded as hazards. After a header launch
that failed, the encryption uses the IV of the frame the buffer held before (the
call does return `ERR_CUDA`). Two host threads that close one key destroy it
twice. A key made for a device that is not there is accepted and lives on the
current one. The fourth is that the header's rule for a shared handle, no
overlapping operations on different streams (`gpu_aesgcm_api.h:55-56`), is not
enough: two host threads that obey it, on one stream, still interleave the launches
of `enqueue_ghash`, the segment kernel of one call overwrites the nodes that the
finalization of the other is about to read, and a seal returns OK with the tag of
the other's hash. `MCGpuSharedStream.cfg`, an instance of `MCGpuAesGcm` with
`SerialCalls = FALSE` beside the listed runs, lets TLC find that trace; the calls
have to be serialized, which is what `SerialCalls` assumes in the passing runs.
The fifth is a length near the largest `size_t`: `frame_size` and the block count
both wrap, so a plaintext length of at least 2^64 - 15 passes the capacity check of
a small buffer and the block limit, nothing is encrypted and the tag is written over
the header. No buffer has that length, but a negative Python `int` passed to
`seal_async` becomes one; only `GpuAesGcmLibrary.frame_size` checks for it.
With such a length in `Lengths` TLC finds `FrameComplete` violated; for all
others it is proved. Long before that, from 2^43 bytes on, the number of CUDA
blocks of an open no longer fits the `int` it is cast to: too few threads start,
or none.

A difference between the two back ends: an open on the GPU zero-fills its
destination for every rejected frame, the native one only from the first update
on, and leaves the destination as it was for a wrong version or a failing setup.
What `IsEndpoint` promises for the native path is that no decrypted byte is left.

A limit of the GPU benchmark: the four buffers of a size are allocated before the
`try` that frees them, so an allocation that fails leaves the ones before it to
the end of the process. `KeyClosed` therefore speaks of the key and its
workspace only.

Two limits of the paper benchmark, which `SummaryVerified` respects and the
hazards record. The correctness check of `bench_seal_worker.py` covers one
operation of `lmcache_total`; the modes `stock_breakdown` and `raw_aes` are timed
without any comparison (`CheckedModes`). And only the last timed operation is
compared, so a backend that is wrong now and then passes.

## Proofs

Eight modules hold theorems, checked with TLAPS for every value of the constants
that the named assumptions of the modules allow: any number of threads, workers,
streams, handles, buffers, keys, devices, lengths and failures. The hypotheses
below are rules of the caller, or of the environment; the instances of the runs
obey the same ones unless a run is about breaking them.

| Hypothesis | What it says | Why it is there |
|---|---|---|
| `NoWrap` (`CtrFrame`) | no length makes a size wrap around, or a grid exceed an `int` | near 2^64 `SealsComplete` is false, from 2^43 on `FailuresZero` ([Findings](#findings)) |
| `OneAtATime` (`KeyHandle`) | one thread at a time is inside a key object | two concurrent `close` calls destroy one handle twice |
| `SerialCalls` (`GpuAesGcm`) | calls with one handle do not overlap | two growing calls would replace each other's workspace, and two chains share one ([Findings](#findings)) |
| `InitSeen` (`GpuAesGcm`) | the launch of the hash-key kernel does not fail, or there is only one host thread | another thread than the creating one is not told, seals with wrong tags and accepts them, and under zeros accepts altered frames ([Findings](#findings)) |
| `ClearAuth` (`GpuAesGcm`) | callers clear `auth_ok` before an open | a verification that does not launch leaves the flag as it was ([Findings](#findings)) |
| `"header" \notin Faulty` (`GpuAesGcm`) | the launch of a header does not fail | without the header, an encryption uses the IV of the frame the buffer held before ([Findings](#findings)) |
| `DistinctPoints` (`PaperBench`) | no mode and no size is twice in its loop, as in `configs/cpu_paper.env` | a repeated point would overwrite the file of its first process |

| Module | Theorem | Statement, beside `Spec =>` |
|---|---|---|
| `GhashTreeProofs` | `TypeCorrect`, `NodesCorrect` | `[]TypeOK`, `[]NodesAreSegments` |
| | `RootCorrect` | `[]RootIsGhash` |
| | `AccessesInBounds` | `[]InBounds` |
| `CtrFrameProofs` | `TypeCorrect` | `[]TypeOK`, under `NoWrap` |
| | `SealsComplete`, `FailuresZero` | `[]FrameComplete`, `[]FailedOpenZeroes`, under `NoWrap` |
| | `StreamUsedOnce` | `[]KeystreamOnce`, under `NoWrap` |
| | `OpensSucceedExactly` | `[]OpensExact`, under `NoWrap` |
| `KeyHandleProofs` | `TypeCorrect` | `[]TypeOK` |
| | `DevicesRestored`, `MemoryOnDevice` | `[]DeviceRestored`, `[]OnItsDevice` |
| | `HandlesAlive`, `NothingLeaks` | `[]UsedAlive`, `[]NoLeak`, under `OneAtATime` |
| `GpuAesGcmProofs` | `TypeCorrect` | `[]TypeOK` |
| | `WorkspacesOwned`, `KernelsAlwaysFit` | `[]OneOwner`, `[]KernelsFit`, under `SerialCalls` |
| | `NoncesAreUnique` | `[]NoncesUnique`, if no header launch fails |
| `GpuPipelineProofs` | `PipelineInvariance` | `[]PipeInv`, the invariant of what is queued, under `SerialCalls`; its parts about finished seals, flags and plaintext have `InitSeen` as a premise |
| | `SealsAreCorrect`, `OpensAreDecided` | `[]SealedFramesCorrect`, `[]OpensDecide`, under `SerialCalls` and `InitSeen` |
| | `PlaintextIsAuthentic` | `[]PlaintextAuthentic`, under `SerialCalls`, `InitSeen` and `ClearAuth` |
| | `ImplementsEndpoint` | `IsEndpoint`, under `SerialCalls` and `InitSeen`: every step is one of `AeadEndpoint` or a stutter |
| `NativeSerdeProofs` | `TypeCorrect` | `[]TypeOK` |
| | `NonceUniqueness`, `FramesCorrect` | `[]NoncesUnique`, `[]SealedFramesCorrect` |
| `NativeEndpointProofs` | `IntactOpens` | `[]IntactFramesOpen` |
| | `ImplementsEndpoint` | `IsEndpoint`: every step is one of `AeadEndpoint` or a stutter |
| `PaperBenchProofs` | `SamplesWarm`, `SamplesVerified` | `[]TimedWarm`, `[]SummaryVerified` |
| | `FilesRetained` | `RawRetained`, under `DistinctPoints` |
| | `SummariesComplete` | `[]SummaryComplete`: a summary exists only of complete files of all processes, and covers every mode at every size |
| | `SummariesFaithful` | `[]SummaryFaithful`: its medians are the medians, and with an odd number of processes its throughputs and latencies agree |

All proofs have one shape: an inductive invariant, a lemma `...Step` for each
action that says it is kept, and a lemma for each operator the steps share. The
invariants:

**`GhashTree`.** `IInv` is `TypeOK`, `NodesAreSegments`, `LevelsCover`.
`RootIsGhash` is not inductive: that the last node covers everything follows
only from knowing which range of terms every node of every level covers, and
that is what `NodesAreSegments` says with the history variable `span`, the
number of terms a full node of the level covers. `LevelsCover` ties `count`
and `span` to the total number of terms, so that the last level's single node
covers all of them, the odd node's range is the clamped one, and indices stay
in the workspace. The algebra is in two lemmas: `ExtendSegment` (an iteration of
the segment kernel extends a hashed range by one term) and `CombineSegments` (the
product with H^LB aligns two neighbouring ranges); both rest on `MulShifts` and
`XorJoins`, whose disjointness argument is that the products of one range have
pairwise different exponents. `RootCorrect` finally equates the range over all
terms with the reference: `GcmBlocks` (the rounding-up division is the number of
blocks) and `TermIsGcmBlock` (what the kernel loads is the padded block).

**`CtrFrame`, what is written.** `IInv` says of every byte, while threads are
still to run, that it is finished exactly when the thread of its block is not in
`todo`. `BlockOf` and `BlocksCover` are the arithmetic of blocks, `LaunchCovers`
gives every block a thread, and `BlockBytes` joins them: a thread writes the
bytes whose block is its own. The block limit enters in `EncryptThreadStep`,
where the counter of an accepted seal never reaches its width;
`DecryptThreadStep` needs no limit, because the gate comes first.

**`CtrFrame`, what opens.** `KInv` adds where key stream may come from: a byte
holds key stream of earlier seals only (`KeysOf`), and a frame is the last seal's,
intact or with one changed byte, with remains of earlier seals behind it
(`Contents`, `Stale`). An open of a wrong length meets these remains: the tag it
compares with is then made of other summands, and since every summand of a tag
names its seal, its length and its place, equality of tags implies the intact
frame of that length. `OpensExact` follows during decryption because the gate is
1 exactly then. Two bytes share no key stream because a counter below the limit
determines the block and the tag has counter 1. The IV needs one byte at least,
which is why `WidthsAssumption` asks for a header of more than one (it has 13).

**`KeyHandle`.** `DeviceInv` (for any callers) says that between the constructor
and the destructor of its `DeviceGuard` a thread is on the key's device and the
guard remembers its own. `LifeInv` says of every object either what it owns at
rest, or, for the thread inside it, what its method has acquired or released at
each step (`Constructing`, `Calling`, `Destroying`). `NoLeak` and `UsedAlive` are
read off from it; the failures of `key_create` are the cases of `Constructing`.

**`GpuAesGcm`, types.** `TInv` adds to `TypeOK` which fields a call has at which
step (`CallShape`) and that a workspace is an array.

**`GpuAesGcm`, memory.** `KernelsFit` speaks of queued kernels and is not
inductive: whether a kernel fits depends on the workspaces of its handle when it
runs. `MInv` adds that one call at a time uses a handle (`OneCall`, from
`SerialCalls`, the only place that hypothesis enters), that used handles are live
and have two workspaces or none (`LiveUsed`), that every allocation has one owner
(`OneOwner`) and the size its owner believes (`Sized`), that a call which
launches kernels has a workspace that is large enough (`CallsFit`), and that what
is queued uses the present workspaces of its handle (`QueueFits`). A workspace is
freed only when the device is idle, because `cudaFree` waits, so `QueueFits`
survives its replacement. The proof corrected the property: `OneOwner` had said
that the pointers of a handle are always its own. Between the two `cudaFree` calls
of `ensure_workspace` the first pointer of the handle is one to freed memory, and
another thread's allocation for another handle may have its address. `Held` now
leaves that pointer out.

**`GpuAesGcm`, nonces.** An encryption reads the IV from the frame when it runs,
long after the call that passed it has returned. `IVInv` says, of each queued
encryption and of each call that is about to launch one, that the last header
queued before it for the same buffer writes its IV, or that there is none and the
buffer holds it (`Before`), and that the kernels of a buffer are on one stream
(`OneStreamEach`). It needs no `SerialCalls`.

**`GpuAesGcm`, what the pipeline computes.** The three properties of frames speak of
buffers whose kernels have run, and host and device are any number of kernels
apart, so no invariant of the present buffer is inductive. Two invariants say what
the queued kernels will compute.

`CInv`, for the hash. A call asks for a level of its tree: `count` nodes at an
address, covering its ciphertext (`Level`). A queued GHASH kernel finds the level it
needs (`Ready`): either a kernel in front of it writes that level, with only kernels
between the two that write neither there nor to the ciphertext (`Feeds`, `Apart`), or
no kernel in front of it does and the level is in memory. The same holds of the level
that a call inside its chain is about to read (`CallChains`). A launch gives the new
kernel its feeder (`LaunchFeeds`), a run turns the feeder into memory (`RunLevel`),
and a replacement of the workspace finds the device idle (`StillLevel`). The levels
are those of `GhashTree`: `SegmentLevel`, `CombineLevel` and `Covering` are the
arithmetic of halving a level with an odd node at its end, and `RootRight` is the
result, that the root a finalization or verification loads is the hash of all blocks
of its buffer. Reasoning about it needed the length of the operation in the combine
kernel's record, which the kernel itself is not given.

`FutureInv`, for the buffers. `After` is what one kernel makes of the data of a buffer
when its hash is right; `Trace` runs the data through the kernels of a stream. For each
buffer, on the stream that may use it, every point of the trace is `Sound` (a tag that a
hash under its own key produced is that of a known message; with `ClearAuth` and
`InitSeen`, a decrypted plaintext is authentic), and its end is what the host side says (`Ends`): a header
written, a ciphertext written, and the results of a seal and of an open that returned OK.
A launch extends the trace by one kernel and the end by one obligation (`WriteEnds`,
`HashEnds`, `FinalizeEnds`, `VerifyEnds`, `DecryptEnds`), with a failed launch covered
by the sticky error, which bars OK; a run of the device drops its first element
(`RunFuture`); and a client writes a buffer only when the trace of it is constant. When
the stream of a buffer has run, the trace has one point, the buffer itself (`QuietEnds`),
and the three theorems are read off.

**`GpuAesGcm`, the refinement.** `IsEndpoint` maps every launch, allocation and
failure of ensure_workspace to a stutter, the beginning of a call to `Ask` or `Forget`,
the return of an error to `Refuse`, and the run of the last kernel of a buffer to
`Accept` or `Refuse` (`StillTells`, `LaunchTells`, `RunTells`). An acceptance is of a
committed message because the flag is 1 only for an authentic frame, and `Sound` names
the message of its tag. An encryption is no open's last kernel (`Answered`), so a commit
and an answer never fall into one step. `ClearAuth` is not needed: what a stale flag
publishes comes with an error code. `InitSeen` is: under undefined powers of H
`verify_tag_kernel` compares one wrong tag with another, and can find them equal. That
the flag is 1 exactly for an authentic frame (`Verdict`) is proved for the powers of the
key (`VerdictGiven`), which every thread that has seen no error uses.

**`NativeSerde`, seals.** `NInv`: the tasks taken are those of the workers and the
answered ones (`Queueing`); of two pending seals none writes the frame of the
other (`OneWriter`); how far the updates of a task have come (`Progress`) and what
a seal has put into its frame at each step (`Sealing`); the last writer of a frame
and what its task has reported (`LastWriter`, `SealsAnswered`). A frame has one
writer from the IV it draws to the tag it writes, so the IV that `InitSeal` reads
back is its own (`OwnIvs`), and the frame of an answered seal is complete.

**`NativeSerde`, opens and the refinement.** `EInv` adds what an open has read of
the frame it saw (`Opening`), that a tag found anywhere is that of a successful
seal (`TagsKnown`), that only the latest task of a destination may be unanswered
(`OneReader`), and what the destination holds while it waits, while chunks are
decrypted into it, and when the task is answered (`Waiting`, `Reading`,
`Answers`). The refinement has two parts. `View` computes the mapping `OpenOf` from
`EInv`: pending, refused, or accepted with the message of the only seal the
destination can come from. Then each action is a step of the abstract endpoint:
`SubmitDeserialize` is its call, the answer of an open its acceptance or refusal,
the successful answer of a seal its commitment, and every other action leaves the mapped variables alone.
An acceptance is of a committed message because the tags agreed and `TagsKnown`
names the seal.

**`PaperBench`.** `SampleInv` says that a process past its first warm-up operation
has touched its pages, or never will (`Idle`), that its rows are those of the
operations it has timed (`Faithful`), that a backend which is not right never
leaves what its check looks for (`VerifiedIsRight`), and the same of the files.
`FileInv` adds that, until a process fails, there is one closed file for each
process that has ended (`Progress`), and that the rows of both tables are functions
of the clock of the processes (`Summarized`). `Digits` is the arithmetic of the
three loops: a point is known by its mode, size and repetition (`RunsDiffer`,
`PointsCover`). For the medians, `SortedSequence` shows that in a strict total order
each of the numbers 0 to n - 1 counts the predecessors of exactly one of n elements
(an injection between sets of one size is a bijection), so no induction is needed to
sort; `AscendingRanks` turns the k-th position of a sorted sequence into the k-th
smallest value, which is how `IsMedian` speaks of it. `TimesRead` and `RowsRead` say
that the rows read back from the files, and from `per_process.csv`, are those that
were measured, in their order. The throughputs of a size descend as the latencies
ascend, and the middle from above of an odd number of values is the middle from
below (`OneMiddle`): the two medians of a row are of the same process.

Six places of the models were changed because a proof did not go through. In three
of them the alternatives of a CASE overlapped: in `Published` (`NativeSerde`), `OpenOf`
(`GpuAesGcm`) and `Operated` (`PaperBench`). TLC takes the first one that is true,
but the expression may mean any of them. `OpenOf` also kept an open that had returned
an error pending until its stream had run, although its caller already knows; and
`ConstantsAssumption` of `GpuAesGcm` did not say that there is a stream at all. The
last is the sorting of `PaperBench`: `SortSeq` of module TLC, and all that the
community modules build on it, has no definition the prover can expand, so the model
has one of its own (`Sorted`, `Order`: the element with k - 1 predecessors comes k-th).

Only model-checked:

- everything in `GhashField` (`MulIsProduct`, `PowerLoop`), whose loops are
  recursive operators;
- `SamplesGenuine` of `GpuBench`: the script is a sequence flattened from those of its
  sizes and repetitions, so that where a call stands in it, and which calls are
  around it, is an induction over the data, which the provers do not have;
- all liveness (`ChainEnds`, `CallsReturn`, `TasksAnswered`, `KeyClosed`), since
  liveness under fairness, and `ENABLED`, are outside what the prover handles.

## What is not modelled

AES rounds, S-box and key expansion (arithmetic on fixed 128-bit values without
state); gates, tests and build scripts (sequential, no state of their own: what
the tests do to frames and flags is the client of `GpuAesGcm` and
`NativeSerde`, what they assert is where properties come from); LMCache itself (a
submodule; its processor and key provider are modelled as the integration uses
them); kernels of one handle on several devices; kernels that fail while they
run (every later CUDA call of the process then fails); a caller that times out
and releases buffers still in use. Of the benchmarks: metadata files, printed
statistics, percentiles and deviations.

## Plan

The modules were written in the order of importance: `GhashTree` with its
proofs, `GpuAesGcm`, `NativeSerde`, `CtrFrame` with its proofs, `KeyHandle`,
`GhashField`, then `AeadEndpoint` with the two refinements and the benchmarks.
The proofs of `KeyHandle`, `CtrFrame`, `NativeSerde` with its refinement,
the memory and the nonces of `GpuAesGcm`, and `PaperBench` followed, and last the
pipeline of `GpuAesGcm` with its refinement and the medians of `PaperBench`. Every
safety property the provers can reach is proved; what could still be added is model:
the metadata files and the percentiles of the paper benchmark.

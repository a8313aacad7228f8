---------------------------- MODULE NativeSerde ----------------------------
(***************************************************************************)
(* The CPU path: the serializer and deserializer of native_aesgcm_serde.py *)
(* run by the worker threads of an AsyncSerdeProcessor, and under them     *)
(* cpu_seal_openssl.cpp, one EVP call a step.  Each worker has one cipher  *)
(* context, which its seals and opens use in turn.  Processors are created *)
(* and closed one after the other; the frames outlive them.                *)
(*                                                                         *)
(* A frame buffer holds a version, an IV and a row of cells: the chunks of *)
(* a ciphertext of n chunks and, in cell n, the tag.  A chunk is what one  *)
(* EVP update handles.  Data is symbolic: a plaintext and an IV are named  *)
(* by the task that seals, and equal values come from equal inputs.        *)
(***************************************************************************)
EXTENDS Integers, Sequences

CONSTANTS
  Workers,     \* threads of a processor (max_workers)
  Frames,      \* frame buffers
  Outs,        \* plaintext buffers of the opens
  Masters,     \* master keys, by the path of their file
  Salts,       \* cache salts
  AesBits,     \* values of the option aes_bits
  Lens,        \* plaintext lengths, in chunks
  Capacity,    \* ciphertext chunks a frame buffer has room for
  None,        \* no key, no buffer, no path
  Faulty,      \* calls that may fail, by name
  Tampers,     \* fields of a stored frame that may change
  MaxProcessors, \* bound: processors created
  MaxTasks,    \* bound: tasks submitted
  MaxFaults,   \* bound: calls that fail
  MaxTampers   \* bound: changes of stored frames

ASSUME ConstantsAssumption ==
  /\ Lens \subseteq Nat
  /\ Capacity \in Nat
  /\ Tampers \subseteq {"ver", "iv", "ct", "tag"}
  /\ MaxProcessors \in Nat /\ MaxTasks \in Nat
  /\ MaxFaults \in Nat /\ MaxTampers \in Nat
  /\ None \notin Frames \cup Outs \cup Masters \cup Salts

VARIABLES
  master,  \* the master key of the processor; None when there is none
  tasks,   \* every task submitted, in order
  taken,   \* the tasks the workers have taken: the executor is FIFO
  worker,  \* per worker: its task, its next step and its EVP context
  frame,   \* the frame buffers
  out,     \* the plaintext buffers
  sealed,  \* history: every ciphertext chunk produced
  processors, faults, tampers \* history: processors, failures, changes left

vars == <<master, processors, tasks, taken, worker, frame, out, sealed, faults, tampers>>

-----------------------------------------------------------------------------
(* Data.                                                                   *)

Chunk(key, iv, pt, i) == [key |-> key, iv |-> iv, pt |-> pt, i |-> i]
GcmTag(key, iv, cts) == [key |-> key, iv |-> iv, cts |-> cts]
Junk == Chunk(None, 0, 0, 0)
NoTag == GcmTag(None, 0, <<>>)

\* What a chunk of a plaintext buffer holds: what it held before the open,
\* zeros, or a cell decrypted as chunk i under a key and an IV.
Stale == [kind |-> "stale"]
Zero == [kind |-> "zero"]
Decrypted(key, iv, c, i) ==
  [kind |-> "decrypted", key |-> key, iv |-> iv, c |-> c, i |-> i]

\* An EVP context after EVP_CIPHER_CTX_reset.
Reset == [state |-> "ready", key |-> None, iv |-> 0, tag |-> NoTag,
          cts |-> <<>>]

\* The ciphertext GCM prescribes for seal task s, and its tag.
CtOf(s) == [i \in 1 .. tasks[s].n |-> Chunk(tasks[s].key, s, s, i - 1)]
TagOf(s) == GcmTag(tasks[s].key, s, CtOf(s))

-----------------------------------------------------------------------------
(* The caller and the processor.                                           *)

\* HkdfKeyProvider.get_key: one data key for a master key and a cache salt.
Keys == Masters \X Salts
get_key(salt) == <<master, salt>>

Pending(t) == tasks[t].state \in {"queued", "running"}

\* A thread that has not called the C functions has no context yet.
NewWorker == [pc |-> "idle", task |-> 0, ctx |-> [Reset EXCEPT !.state = "unborn"]]

\* create_native_aesgcm_serde: it refuses other key sizes and an empty path.
Create(aes_bits, master_key_path) ==
  /\ aes_bits = 128 /\ master_key_path # None
  /\ master = None
  /\ processors > 0
  /\ processors' = processors - 1
  /\ master' = master_key_path
  /\ worker' = [w \in Workers |-> NewWorker]
  /\ UNCHANGED <<tasks, taken, frame, out, sealed, faults, tampers>>

\* The caller closes a processor when its tasks are answered; the threads end
\* and free their contexts.
Close ==
  /\ master # None
  /\ \A t \in DOMAIN tasks : ~ Pending(t)
  /\ master' = None
  /\ worker' = [w \in Workers |-> NewWorker]
  /\ UNCHANGED <<processors, tasks, taken, frame, out, sealed, faults, tampers>>

Submit(op, key, n, f, o) ==
  /\ master # None
  /\ Len(tasks) < MaxTasks
  /\ tasks' = Append(tasks, [op |-> op, key |-> key, n |-> n, f |-> f, o |-> o,
                             state |-> "queued", seen |-> 0])

\* submit_serialize: two pending tasks never write one buffer.
SubmitSerialize(f, n, salt) ==
  /\ \A t \in DOMAIN tasks :
       Pending(t) => ~ (tasks[t].op = "seal" /\ tasks[t].f = f)
  /\ Submit("seal", get_key(salt), n, f, None)
  /\ UNCHANGED <<master, processors, taken, worker, frame, out, sealed, faults, tampers>>

\* submit_deserialize.  The frame may be rewritten while it is opened.
SubmitDeserialize(f, o, n, salt) ==
  /\ \A t \in DOMAIN tasks : Pending(t) => tasks[t].o # o
  /\ Submit("open", get_key(salt), n, f, o)
  /\ out' = [out EXCEPT ![o] = [i \in 0 .. n - 1 |-> Stale]]
  /\ UNCHANGED <<master, processors, taken, worker, frame, sealed, faults, tampers>>

\* The relay or the storage changes a frame.
Tamper(f, field) ==
  /\ tampers > 0
  /\ tampers' = tampers - 1
  /\ \A t \in DOMAIN tasks :
       Pending(t) => ~ (tasks[t].op = "seal" /\ tasks[t].f = f)
  /\ LET n == frame[f].used
         g == CASE field = "ver" -> [frame[f] EXCEPT !.ver = 2]
                [] field = "iv"  -> [frame[f] EXCEPT !.iv = 0]
                [] field = "ct"  -> [frame[f] EXCEPT !.cell[0] = Junk]
                [] field = "tag" -> [frame[f] EXCEPT !.cell[n] = NoTag]
     IN  frame' = [frame EXCEPT ![f] = [g EXCEPT !.by = 0]]
  /\ UNCHANGED <<master, processors, tasks, taken, worker, out, sealed, faults>>

-----------------------------------------------------------------------------
(* A worker.                                                               *)

\* The next call of a kind fails.
Fault(kind) ==
  /\ kind \in Faulty
  /\ faults > 0
  /\ faults' = faults - 1

At(w, op, pc) ==
  /\ worker[w].pc = pc
  /\ tasks[worker[w].task].op \in op

Goto(w, pc) ==
  /\ worker' = [worker EXCEPT ![w].pc = pc]
  /\ UNCHANGED tasks

return_unreported(w, result) ==
  /\ worker' = [worker EXCEPT ![w].pc = "idle", ![w].task = 0]
  /\ tasks' = [tasks EXCEPT ![worker[w].task].state =
                 IF result = "error" THEN @ ELSE result]

\* The C function returns, serialize or deserialize raises or not, and the
\* processor records the outcome.
Return(w, result) ==
  /\ worker' = [worker EXCEPT ![w].pc = "idle", ![w].task = 0]
  /\ tasks' = [tasks EXCEPT ![worker[w].task].state = result]

room_unchecked(k) ==
  \/ k.n = 0
  \/ k.op = "open" /\ frame[k.f].used < k.n

longer_only(k) ==
  \/ k.n = 0
  \/ k.op = "seal" /\ Capacity < k.n
  \/ k.op = "open" /\ frame[k.f].used <= k.n

\* serialize and deserialize refuse buffers that are too small and, through
\* _address, empty ones.  What they let through also passes the argument
\* checks of the C functions.
refused(k) ==
  \/ k.n = 0
  \/ k.op = "seal" /\ Capacity < k.n
  \/ k.op = "open" /\ frame[k.f].used < k.n

\* An open remembers the completed seal whose frame it is given, if any.
SealSeen(k) ==
  LET s == frame[k.f].by
  IN  IF /\ k.op = "open" /\ s # 0 /\ tasks[s].state = "ok"
         /\ tasks[s].key = k.key /\ tasks[s].n = k.n
      THEN s ELSE 0

Take(w) ==
  LET t == taken + 1
      k == tasks[t]
  IN  /\ worker[w].pc = "idle"
      /\ taken < Len(tasks)
      /\ taken' = t
      /\ \/ /\ refused(k)
            /\ tasks' = [tasks EXCEPT ![t].state = "error",
                                      ![t].seen = SealSeen(k)]
            /\ UNCHANGED worker
         \/ /\ ~ refused(k)
            /\ tasks' = [tasks EXCEPT ![t].state = "running",
                                      ![t].seen = SealSeen(k)]
            /\ worker' = [worker EXCEPT
                 ![w].task = t,
                 ![w].pc = IF k.op = "seal" THEN "context" ELSE "version"]
      /\ UNCHANGED <<frame, out, sealed, faults, tampers>>

\* Open: the version is checked before anything else is touched.
Version(w) ==
  /\ At(w, {"open"}, "version")
  /\ IF frame[tasks[worker[w].task].f].ver = 1
     THEN Goto(w, "context")
     ELSE Return(w, "error")
  /\ UNCHANGED <<taken, frame, out, sealed, faults, tampers>>

\* The first call of a thread constructs tls_ctx; when EVP_CIPHER_CTX_new
\* fails the thread has no context ever after.  Every call resets it.
Context(w) ==
  /\ At(w, {"seal", "open"}, "context")
  /\ \/ /\ worker[w].ctx.state \in {"unborn", "ready"}
        /\ worker' = [worker EXCEPT
             ![w].ctx = Reset,
             ![w].pc = IF At(w, {"seal"}, "context") THEN "rand" ELSE "init"]
        /\ UNCHANGED <<tasks, faults>>
     \/ /\ worker[w].ctx.state \in {"unborn", "ready"}
        /\ Fault("reset")
        /\ Return(w, "error")
     \/ /\ worker[w].ctx.state = "unborn"
        /\ Fault("new")
        /\ worker' = [worker EXCEPT ![w].pc = "idle", ![w].task = 0,
                                    ![w].ctx.state = "null"]
        /\ tasks' = [tasks EXCEPT ![worker[w].task].state = "error"]
     \/ /\ worker[w].ctx.state = "null"
        /\ Return(w, "error")
        /\ UNCHANGED faults
  /\ UNCHANGED <<taken, frame, out, sealed, tampers>>

\* EVP calls that only change the context: one fails and the operation
\* returns at once, or they leave context c and the operation goes on.
EvpCall(w, op, pc, c, next) ==
  /\ At(w, op, pc)
  /\ \/ Fault(pc) /\ Return(w, "error")
     \/ /\ worker' = [worker EXCEPT ![w].ctx = c, ![w].pc = next]
        /\ UNCHANGED <<tasks, faults>>
  /\ UNCHANGED <<taken, frame, out, sealed, tampers>>

\* The context after the cipher, the IV length, the key and the IV are set.
\* A seal too reads the IV from the frame.
keyed(w) ==
  LET k == tasks[worker[w].task]
  IN  [worker[w].ctx EXCEPT !.key = k.key, !.iv = frame[k.f].iv, !.cts = <<>>]

InitSeal(w) == EvpCall(w, {"seal"}, "init", keyed(w), "update")
InitOpen(w) == EvpCall(w, {"open"}, "init", keyed(w), "settag")

SetTag(w) ==
  LET k == tasks[worker[w].task]
  IN  EvpCall(w, {"open"}, "settag",
              [worker[w].ctx EXCEPT !.tag = frame[k.f].cell[k.n]], "update")

rand_unchecked(w) ==
  LET t == worker[w].task
      f == tasks[t].f
  IN  /\ At(w, {"seal"}, "rand")
      /\ \/ /\ frame' = [frame EXCEPT ![f].ver = 1, ![f].iv = t, ![f].by = t]
            /\ UNCHANGED faults
         \/ /\ Fault("rand")
            /\ frame' = [frame EXCEPT ![f].ver = 1, ![f].by = t]
      /\ Goto(w, "init")
      /\ UNCHANGED <<taken, out, sealed, tampers>>

\* Seal: the version byte, then RAND_bytes into the frame.
Rand(w) ==
  LET t == worker[w].task
      f == tasks[t].f
  IN  /\ At(w, {"seal"}, "rand")
      /\ \/ /\ frame' = [frame EXCEPT ![f].ver = 1, ![f].iv = t, ![f].by = t]
            /\ Goto(w, "init")
            /\ UNCHANGED faults
         \/ /\ Fault("rand")
            /\ frame' = [frame EXCEPT ![f].ver = 1, ![f].by = t]
            /\ Return(w, "error")
      /\ UNCHANGED <<taken, out, sealed, tampers>>

last_dropped(w, i) ==
  IF i + 2 < tasks[worker[w].task].n THEN "update" ELSE "final"

\* The step after chunk i of the update loops.
AfterChunk(w, i) ==
  IF i + 1 < tasks[worker[w].task].n THEN "update" ELSE "final"

\* encrypt_update_all, one chunk.  A failed update may have written it.
EncryptUpdate(w) ==
  LET t == worker[w].task
      c == worker[w].ctx
      i == Len(c.cts)
      x == Chunk(c.key, c.iv, t, i)
      Written == /\ frame' = [frame EXCEPT ![tasks[t].f].cell[i] = x]
                 /\ sealed' = sealed \cup {x}
  IN  /\ At(w, {"seal"}, "update")
      /\ \/ /\ Written
            /\ worker' = [worker EXCEPT ![w].ctx.cts = Append(@, x),
                                        ![w].pc = AfterChunk(w, i)]
            /\ UNCHANGED <<tasks, faults>>
         \/ /\ Fault("update")
            /\ Written \/ UNCHANGED <<frame, sealed>>
            /\ Return(w, "error")
      /\ UNCHANGED <<taken, out, tampers>>

EncryptFinal(w) == EvpCall(w, {"seal"}, "final", worker[w].ctx, "gettag")

\* The tag ends the frame; the processor then gives the buffer its length.
GetTag(w) ==
  LET k == tasks[worker[w].task]
      c == worker[w].ctx
  IN  /\ At(w, {"seal"}, "gettag")
      /\ \/ /\ frame' = [frame EXCEPT
                 ![k.f].cell[k.n] = GcmTag(c.key, c.iv, c.cts),
                 ![k.f].used = k.n]
            /\ Return(w, "ok")
            /\ UNCHANGED faults
         \/ /\ Fault("gettag")
            /\ Return(w, "error")
            /\ UNCHANGED frame
      /\ UNCHANGED <<taken, out, sealed, tampers>>

\* OPENSSL_cleanse of the whole plaintext.
Cleanse(o) == out' = [out EXCEPT ![o] = [i \in DOMAIN out[o] |-> Zero]]

update_not_cleansed(w) ==
  LET k == tasks[worker[w].task]
      c == worker[w].ctx
      i == Len(c.cts)
      x == frame[k.f].cell[i]
  IN  /\ At(w, {"open"}, "update")
      /\ \/ /\ out' = [out EXCEPT ![k.o][i] = Decrypted(c.key, c.iv, x, i)]
            /\ worker' = [worker EXCEPT ![w].ctx.cts = Append(@, x),
                                        ![w].pc = AfterChunk(w, i)]
            /\ UNCHANGED <<tasks, faults>>
         \/ /\ Fault("update")
            /\ Return(w, "error")
            /\ UNCHANGED out
      /\ UNCHANGED <<taken, frame, sealed, tampers>>

\* decrypt_update_all, one chunk: plaintext not yet authenticated.  When an
\* update fails, what was decrypted is wiped.
DecryptUpdate(w) ==
  LET k == tasks[worker[w].task]
      c == worker[w].ctx
      i == Len(c.cts)
      x == frame[k.f].cell[i]
  IN  /\ At(w, {"open"}, "update")
      /\ \/ /\ out' = [out EXCEPT ![k.o][i] = Decrypted(c.key, c.iv, x, i)]
            /\ worker' = [worker EXCEPT ![w].ctx.cts = Append(@, x),
                                        ![w].pc = AfterChunk(w, i)]
            /\ UNCHANGED <<tasks, faults>>
         \/ /\ Fault("update")
            /\ Cleanse(k.o)
            /\ Return(w, "error")
      /\ UNCHANGED <<taken, frame, sealed, tampers>>

same_origin(c) == c.tag.key = c.key /\ c.tag.iv = c.iv

\* What EVP_DecryptFinal_ex compares.
authentic(c) == c.tag = GcmTag(c.key, c.iv, c.cts)

\* The plaintext is authenticated, or wiped; -11 becomes InvalidTag.
DecryptFinal(w) ==
  LET c == worker[w].ctx
  IN  /\ At(w, {"open"}, "final")
      /\ \/ /\ authentic(c)
            /\ Return(w, "ok")
            /\ UNCHANGED <<out, faults>>
         \/ /\ IF authentic(c) THEN Fault("final") ELSE UNCHANGED faults
            /\ Cleanse(tasks[worker[w].task].o)
            /\ Return(w, "invalid_tag")
      /\ UNCHANGED <<taken, frame, sealed, tampers>>

-----------------------------------------------------------------------------
Init ==
  /\ tasks = <<>>
  /\ taken = 0
  /\ master = None
  /\ processors = MaxProcessors
  /\ worker = [w \in Workers |-> NewWorker]
  /\ frame = [f \in Frames |->
       [ver |-> 0, iv |-> 0, cell |-> [i \in 0 .. Capacity |-> Junk],
        used |-> Capacity, by |-> 0]]
  /\ out = [o \in Outs |-> [i \in {} |-> Stale]]
  /\ sealed = {}
  /\ faults = MaxFaults
  /\ tampers = MaxTampers

Work(w) ==
  \/ Take(w) \/ Version(w) \/ Context(w)
  \/ Rand(w) \/ InitSeal(w) \/ EncryptUpdate(w) \/ EncryptFinal(w) \/ GetTag(w)
  \/ InitOpen(w) \/ SetTag(w) \/ DecryptUpdate(w) \/ DecryptFinal(w)

Caller ==
  \/ Close
  \/ \E bits \in AesBits, path \in Masters \cup {None} : Create(bits, path)
  \/ \E f \in Frames :
       \/ \E n \in Lens, salt \in Salts :
            \/ SubmitSerialize(f, n, salt)
            \/ \E o \in Outs : SubmitDeserialize(f, o, n, salt)
       \/ \E field \in Tampers : Tamper(f, field)

Next ==
  \/ Caller
  \/ \E w \in Workers : Work(w) /\ UNCHANGED <<master, processors>>

\* A worker thread goes on while it has something to do; nothing obliges a
\* caller to submit.
Spec == Init /\ [][Next]_vars /\ \A w \in Workers :
          WF_vars(Work(w) /\ UNCHANGED <<master, processors>>)

-----------------------------------------------------------------------------
(* Properties.                                                             *)

NullKeys == Keys \cup {None}
Chunks == [key : NullKeys, iv : Nat, pt : Nat, i : Nat]
Tags == [key : NullKeys, iv : Nat, cts : Seq(Chunks)]
Cells == Chunks \cup Tags
Contexts == [state : {"unborn", "ready", "null"}, key : NullKeys, iv : Nat,
             tag : Cells, cts : Seq(Cells)]
Steps == {"idle", "version", "context", "rand", "init", "settag", "update",
          "final", "gettag"}
States == {"queued", "running", "ok", "invalid_tag", "error"}

\* The types of the variables; a frame's length never exceeds its buffer.
TypeOK ==
  /\ tasks \in Seq([op : {"seal", "open"}, key : Keys, n : Nat, f : Frames,
                     o : Outs \cup {None}, state : States, seen : Nat])
  /\ taken \in 0 .. Len(tasks)
  /\ worker \in [Workers ->
       [pc : Steps, task : 0 .. taken, ctx : Contexts]]
  /\ frame \in [Frames ->
       [ver : {0, 1, 2}, iv : Nat, cell : [0 .. Capacity -> Cells],
        used : 0 .. Capacity, by : 0 .. taken]]
  /\ DOMAIN out = Outs
  /\ \A o \in Outs : out[o] \in [DOMAIN out[o] ->
       {Stale, Zero} \cup [kind : {"decrypted"}, key : NullKeys, iv : Nat,
                           c : Cells, i : Nat]]
  /\ sealed \subseteq Chunks
  /\ master \in Masters \cup {None}
  /\ processors \in Nat /\ faults \in Nat /\ tampers \in Nat

\* The messages of the seals that were answered with success.
Committed ==
  {[key |-> tasks[s].key, n |-> tasks[s].n, pt |-> s] :
     s \in {r \in DOMAIN tasks : tasks[r].op = "seal" /\ tasks[r].state = "ok"}}

\* The buffer of open t holds the whole plaintext of seal s.
Yields(t, s) ==
  /\ tasks[s].n = tasks[t].n
  /\ \A i \in 1 .. tasks[s].n :
       out[tasks[t].o][i - 1] = Decrypted(tasks[s].key, s, CtOf(s)[i], i - 1)

\* What open t has published: nothing while it is pending, and nothing when
\* it was answered without success and no chunk it decrypted is left.
Published(t) ==
  LET k == tasks[t]
      kept == {i \in DOMAIN out[k.o] : out[k.o][i].kind = "decrypted"}
      from == {s \in DOMAIN tasks : tasks[s].op = "seal" /\ Yields(t, s)}
  IN  CASE Pending(t) -> [state |-> "pending", key |-> k.key, n |-> k.n]
        [] ~ Pending(t) /\ k.state # "ok" /\ kept = {} -> [state |-> "refused"]
        [] k.state = "ok" /\ from # {} ->
             [state |-> "accepted", message |->
                [key |-> k.key, n |-> k.n, pt |-> CHOOSE s \in from : TRUE]]
        [] OTHER -> [state |-> "leaked"]

OpenOf(o) ==
  LET uses == {t \in DOMAIN tasks : tasks[t].o = o}
  IN  IF uses = {} THEN [state |-> "unused"]
      ELSE Published(CHOOSE t \in uses : \A u \in uses : u <= t)

Endpoint == INSTANCE AeadEndpoint WITH
  Slots <- Outs, Sizes <- Lens,
  committed <- Committed, open <- [o \in Outs |-> OpenOf(o)]

\* "Serializer/Deserializer API", "async tamper rejection", "failure-path
\* plaintext zeroization": an open that succeeds yields the whole plaintext
\* of one completed seal with its key and length, although the frame may be
\* rewritten chunk by chunk while it is read and sealed by a processor that
\* is gone; one that fails leaves nothing it decrypted, by whichever of its
\* returns; and the answer stays.
IsEndpoint == Endpoint!Spec

\* A frame whose seal succeeded and that nothing has written since is the
\* frame GCM prescribes for its key, IV and plaintext, whatever the buffer
\* and the worker's context held before.
SealedFramesCorrect ==
  \A f \in Frames :
    LET s == frame[f].by
    IN  s # 0 /\ tasks[s].state = "ok" =>
          /\ frame[f].ver = 1 /\ frame[f].iv = s /\ frame[f].used = tasks[s].n
          /\ \A i \in 1 .. tasks[s].n : frame[f].cell[i - 1] = CtOf(s)[i]
          /\ frame[f].cell[tasks[s].n] = TagOf(s)

\* Two plaintexts are never encrypted under one key and IV, although the IV
\* is drawn into, and read back from, a buffer that held another frame.
NoncesUnique ==
  \A x, y \in sealed : x.key = y.key /\ x.iv = y.iv => x.pt = y.pt

\* While no call fails, an intact frame opens: what the worker's context
\* did before, for a seal or for an open that was rejected, does not matter.
IntactFramesOpen ==
  \A t \in DOMAIN tasks :
    LET s == tasks[t].seen
    IN  s # 0 /\ frame[tasks[t].f].by = s /\ faults = MaxFaults =>
          tasks[t].state \in {"running", "ok"}

\* Every task submitted is answered, whichever of its calls fail.
TasksAnswered ==
  \A t \in 1 .. MaxTasks :
    t \in DOMAIN tasks ~> t \in DOMAIN tasks /\ ~ Pending(t)

=============================================================================

------------------------------ MODULE CtrFrame ------------------------------
(***************************************************************************)
(* Lengths, counters and positions of a frame: the arguments seal_async    *)
(* and open_async accept, the threads of ctr_crypt_kernel, and what the    *)
(* kernels of one call leave in every byte of the buffers.  size_t wraps   *)
(* at SIZE_WRAP, the counter of the cipher at COUNTER_WRAP, and the size   *)
(* of a grid is cut to an int.                                             *)
(*                                                                         *)
(* A byte is a formal XOR, written as the set of its summands: a byte of a *)
(* plaintext, a byte of the key stream for one IV and counter, a byte of   *)
(* the GHASH of a ciphertext, a byte some earlier program left.  The empty *)
(* set is zero.  The GHASH itself is the subject of GhashTree.             *)
(***************************************************************************)
EXTENDS Integers

CONSTANTS
  AES_BLOCK,    \* bytes of a cipher block (16)
  HEADER_LEN,   \* version byte and IV (13)
  TAG_LEN,      \* bytes of the tag (16)
  THREADS,      \* threads per CUDA block of ctr_crypt_kernel (256)
  COUNTER_WRAP, \* values of the 32-bit counter (2^32)
  SIZE_WRAP,    \* values of size_t (2^64)
  INT_MAX,      \* largest int (2^31 - 1)
  Memory,       \* bytes of device memory behind each of the two pointers
  Capacities,   \* sizes of the frame buffer that callers pass
  Lengths,      \* plaintext lengths that callers pass
  MaxCalls      \* bound on the calls of a behaviour

ASSUME WidthsAssumption ==
  /\ AES_BLOCK \in Nat \ {0} /\ TAG_LEN \in Nat \ {0} /\ THREADS \in Nat \ {0}
  /\ HEADER_LEN \in Nat \ {0, 1}
  /\ COUNTER_WRAP \in Nat /\ COUNTER_WRAP > 2
  /\ SIZE_WRAP \in Nat \ {0} /\ INT_MAX \in Nat
  /\ Memory \in Nat /\ MaxCalls \in Nat
  /\ Capacities \subseteq 0 .. Memory
  /\ Lengths \subseteq 0 .. SIZE_WRAP - 1

VARIABLES
  phase,         \* what the stream has reached: see TypeOK
  plaintext_len, \* argument of the call in progress
  capacity,      \* dst_capacity of a seal, frame_len of an open
  frame, plain,  \* the memory behind the two pointers
  auth_ok,       \* the flag in device memory
  todo,          \* threads of ctr_crypt_kernel that have not returned
  seals,         \* number of the last seal; names its plaintext and its IV
  stored,        \* history: length of the intact frame in the buffer, or -1
  before,        \* history: what the call's output held when it was made
  calls          \* history: calls made, bounded by MaxCalls

vars == <<phase, plaintext_len, capacity, frame, plain, auth_ok, todo, seals,
          stored, before, calls>>

-----------------------------------------------------------------------------
(* Bytes.                                                                  *)

bxor(a, b) == (a \ b) \cup (b \ a)

text(p) == {<<"text", seals, p>>}

\* A read past the buffer the caller passed returns something foreign.
at(p) == IF p < capacity THEN frame[p] ELSE {<<"beyond", p>>}

\* The IV the kernels read back from the frame.
iv == [i \in 1 .. HEADER_LEN - 1 |-> at(i)]

\* aes128_encrypt_block of make_counter_block(iv, counter), byte j.
stream_block(counter, j) == {<<"key", iv, counter % COUNTER_WRAP, j>>}

-----------------------------------------------------------------------------
(* Sizes and argument checks.                                              *)

frame_size(n) == (n + HEADER_LEN + TAG_LEN) % SIZE_WRAP

\* A last block that is not full is forgotten.
block_count_floor(n) == n \div AES_BLOCK

block_count(n) == ((n + AES_BLOCK - 1) % SIZE_WRAP) \div AES_BLOCK

\* One block more than there are counters.
seal_accepts_one_more(n, cap) ==
  cap >= frame_size(n) /\ block_count(n) <= COUNTER_WRAP - 1

\* The checks of seal_async on capacity and number of blocks.
seal_accepts(n, cap) ==
  cap >= frame_size(n) /\ block_count(n) <= COUNTER_WRAP - 2

\* open_async: a padded frame is accepted, and any number of blocks.
open_accepts(n, cap) == cap >= frame_size(n)

-----------------------------------------------------------------------------
(* ctr_crypt_kernel.                                                       *)

\* static_cast<int>
to_int(x) == ((x + INT_MAX + 1) % (2 * INT_MAX + 2)) - (INT_MAX + 1)

grid_size(n) == (block_count(n) + THREADS - 1) \div THREADS
grid(n) == to_int(grid_size(n))

\* The threads of the grid.  There are none for no blocks, when the kernel
\* is not launched, and for a grid that is no positive int, whose launch
\* fails.
launched(n) == 0 .. grid(n) * THREADS - 1

\* The bytes that thread t writes, if it writes.
block(t) ==
  {p \in t * AES_BLOCK .. t * AES_BLOCK + AES_BLOCK - 1 :
     t < block_count(plaintext_len) /\ p < plaintext_len}

\* The first data block takes the counter of J0.
ctr_from_j0(t) == t + 1

\* J0 has the counter 1; the first data block has 2.
ctr(t) == t + 2

\* The counter is looked at before the gate.
ctr_crypt_counter_first(t, p, src, old, open_gate) ==
  IF p \notin block(t) \/ ctr(t) > COUNTER_WRAP - 1 THEN old
  ELSE IF ~open_gate THEN {}
  ELSE bxor(src, stream_block(ctr(t), p % AES_BLOCK))

\* What thread t leaves in byte p of dst, given that byte of src, what dst
\* held there, and whether the authentication gate is open.
ctr_crypt_kernel(t, p, src, old, open_gate) ==
  IF p \notin block(t) THEN old
  ELSE IF ~open_gate THEN {}
  ELSE IF ctr(t) > COUNTER_WRAP - 1 THEN old
  ELSE bxor(src, stream_block(ctr(t), p % AES_BLOCK))

-----------------------------------------------------------------------------
(* The tag.                                                                *)

\* The ciphertext that enters the GHASH, with its length.
hashed ==
  <<[p \in {q \in 0 .. plaintext_len - 1 :
              q \div AES_BLOCK < block_count(plaintext_len)} |->
       at(HEADER_LEN + p)],
    plaintext_len>>

tag_byte(i) == bxor(stream_block(1, i), {<<"ghash", hashed, i>>})

tag_position == (HEADER_LEN + plaintext_len) % SIZE_WRAP

\* The accumulated difference itself.
verdict_diff ==
  IF /\ at(0) = {<<"version">>}
     /\ \A i \in 0 .. TAG_LEN - 1 : at(tag_position + i) = tag_byte(i)
  THEN 0 ELSE 255

\* The flag verify_tag_kernel writes.
verdict ==
  IF /\ at(0) = {<<"version">>}
     /\ \A i \in 0 .. TAG_LEN - 1 : at(tag_position + i) = tag_byte(i)
  THEN 1 ELSE 0

-----------------------------------------------------------------------------
Idle == phase \in {"idle", "sealed"} \/ (phase = "decrypt" /\ todo = {})

CallSeal(n, cap) ==
  /\ Idle /\ calls < MaxCalls
  /\ seal_accepts(n, cap)
  /\ phase' = "header"
  /\ plaintext_len' = n /\ capacity' = cap
  /\ seals' = seals + 1 /\ calls' = calls + 1
  /\ stored' = -1
  /\ before' = frame
  /\ UNCHANGED <<frame, plain, auth_ok, todo>>

write_frame_header_kernel ==
  /\ phase = "header"
  /\ phase' = "encrypt"
  /\ frame' = [p \in DOMAIN frame |->
                 IF p = 0 THEN {<<"version">>}
                 ELSE IF p < HEADER_LEN THEN {<<"iv", seals, p>>}
                 ELSE frame[p]]
  /\ todo' = launched(plaintext_len)
  /\ UNCHANGED <<plaintext_len, capacity, plain, auth_ok, seals, stored,
                 before, calls>>

EncryptThread(t) ==
  /\ phase = "encrypt" /\ t \in todo
  /\ todo' = todo \ {t}
  /\ frame' = [q \in DOMAIN frame |->
                 ctr_crypt_kernel(t, q - HEADER_LEN, text(q - HEADER_LEN),
                                  frame[q], TRUE)]
  /\ UNCHANGED <<phase, plaintext_len, capacity, plain, auth_ok, seals,
                 stored, before, calls>>

finalize_tag_kernel ==
  /\ phase = "encrypt" /\ todo = {}
  /\ phase' = "sealed"
  /\ frame' = [p \in DOMAIN frame |->
                 IF p - tag_position \in 0 .. TAG_LEN - 1
                 THEN tag_byte(p - tag_position) ELSE frame[p]]
  /\ stored' = plaintext_len
  /\ UNCHANGED <<plaintext_len, capacity, plain, auth_ok, todo, seals, before,
                 calls>>

CallOpen(n, cap) ==
  /\ Idle /\ calls < MaxCalls
  /\ open_accepts(n, cap)
  /\ phase' = "verify"
  /\ plaintext_len' = n /\ capacity' = cap
  /\ calls' = calls + 1
  /\ before' = plain
  /\ UNCHANGED <<frame, plain, auth_ok, todo, seals, stored>>

verify_tag_kernel ==
  /\ phase = "verify"
  /\ phase' = "decrypt"
  /\ auth_ok' = verdict
  /\ todo' = launched(plaintext_len)
  /\ UNCHANGED <<plaintext_len, capacity, frame, plain, seals, stored, before,
                 calls>>

DecryptThread(t) ==
  /\ phase = "decrypt" /\ t \in todo
  /\ todo' = todo \ {t}
  /\ plain' = [p \in DOMAIN plain |->
                 ctr_crypt_kernel(t, p, at(HEADER_LEN + p), plain[p],
                                  auth_ok # 0)]
  /\ UNCHANGED <<phase, plaintext_len, capacity, frame, auth_ok, seals,
                 stored, before, calls>>

\* A byte of the stored frame is changed between two calls.
Flip(p) ==
  /\ Idle /\ stored >= 0 /\ p < frame_size(stored)
  /\ frame' = [frame EXCEPT ![p] = bxor(@, {<<"flip">>})]
  /\ stored' = -1
  /\ phase' = "idle"
  /\ UNCHANGED <<plaintext_len, capacity, plain, auth_ok, todo, seals, before,
                 calls>>

-----------------------------------------------------------------------------
\* The flag and both buffers hold what an earlier program left in them.
Init ==
  /\ phase = "idle"
  /\ plaintext_len = 0 /\ capacity = 0 /\ seals = 0 /\ calls = 0
  /\ stored = -1
  /\ frame = [p \in 0 .. Memory - 1 |-> {<<"old", p>>}]
  /\ plain = [p \in 0 .. Memory - 1 |-> {<<"old", p>>}]
  /\ before = plain
  /\ auth_ok \in {0, 1}
  /\ todo = {}

Next ==
  \/ \E n \in Lengths, cap \in Capacities : CallSeal(n, cap) \/ CallOpen(n, cap)
  \/ write_frame_header_kernel
  \/ \E t \in todo : EncryptThread(t) \/ DecryptThread(t)
  \/ finalize_tag_kernel
  \/ verify_tag_kernel
  \/ \E p \in DOMAIN frame : Flip(p)

Spec == Init /\ [][Next]_vars

-----------------------------------------------------------------------------
(* Properties.                                                             *)

\* What holds of every length that is the length of a buffer: no size_t
\* computation of a call wraps, and no grid is larger than an int.
NoWrap ==
  \A n \in Lengths : /\ n + HEADER_LEN + TAG_LEN + AES_BLOCK <= SIZE_WRAP
                     /\ grid_size(n) <= INT_MAX

\* Every variable has its type; the flag is 0 or 1 whatever was verified.
TypeOK ==
  /\ phase \in {"idle", "header", "encrypt", "sealed", "verify", "decrypt"}
  /\ plaintext_len \in Lengths \cup {0}
  /\ capacity \in Capacities \cup {0}
  /\ DOMAIN frame = 0 .. Memory - 1 /\ DOMAIN plain = 0 .. Memory - 1
  /\ DOMAIN before = 0 .. Memory - 1
  /\ auth_ok \in {0, 1}
  /\ todo \subseteq launched(plaintext_len)
  /\ seals \in 0 .. MaxCalls /\ calls \in 0 .. MaxCalls
  /\ stored \in Lengths \cup {-1}

Opened == phase = "decrypt" /\ todo = {}

\* No byte of the key stream of an IV is used for two bytes of a frame, and
\* the bytes under J0 are used for the tag only: the reason for the block
\* limit of seal_async, and for data counters that start at 2.
KeystreamOnce ==
  phase \in {"encrypt", "sealed"} =>
    \A p, q \in 0 .. Memory - 1 : \A k \in frame[p] \cap frame[q] :
      k[1] = "key" /\ k[2] = iv => p = q

\* A sealed frame is complete: header, every byte of the plaintext under the
\* key stream of its block, tag, and not a byte more is written; it lies
\* within the capacity its caller named.
FrameComplete ==
  phase = "sealed" =>
    \A p \in 0 .. Memory - 1 :
      frame[p] =
        IF p >= capacity THEN before[p]
        ELSE IF p = 0 THEN {<<"version">>}
        ELSE IF p < HEADER_LEN THEN {<<"iv", seals, p>>}
        ELSE IF p < HEADER_LEN + plaintext_len
        THEN LET i == p - HEADER_LEN IN
             text(i) \cup {<<"key", iv, (i \div AES_BLOCK) + 2, i % AES_BLOCK>>}
        ELSE IF p < HEADER_LEN + plaintext_len + TAG_LEN
        THEN tag_byte(p - HEADER_LEN - plaintext_len)
        ELSE before[p]

\* An open that fails authentication leaves zeros in the whole plaintext, for
\* every length whose grid is an int, also one that no seal accepts, and
\* writes nothing else.
FailedOpenZeroes ==
  Opened /\ auth_ok = 0 =>
    \A p \in 0 .. Memory - 1 :
      plain[p] = IF p < plaintext_len THEN {} ELSE before[p]

\* An open succeeds exactly when the buffer holds an intact frame of that
\* length, padded or not, and then yields the plaintext of its seal.
OpensExact ==
  Opened =>
    /\ auth_ok = 1 <=> stored = plaintext_len
    /\ auth_ok = 1 =>
         \A p \in 0 .. Memory - 1 :
           plain[p] = IF p < plaintext_len THEN text(p) ELSE before[p]

=============================================================================

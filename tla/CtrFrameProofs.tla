--------------------------- MODULE CtrFrameProofs ---------------------------
(***************************************************************************)
(* Complete frames, zeroed failures, a key stream that is used once, and   *)
(* opens that succeed for the intact frame and no other: for every width   *)
(* of size_t and of the counter, every block, header and tag size, and     *)
(* every order of the threads, as long as no length makes a size_t         *)
(* computation wrap or a grid too large for an int (NoWrap).               *)
(*                                                                         *)
(* IInv says what every byte holds while threads are still to run: a byte  *)
(* is finished exactly when the thread of its block is not in todo.        *)
(***************************************************************************)
EXTENDS CtrFrame, TLAPS

\* A thread's block holds the positions whose quotient is its index.
LEMMA BlockOf ==
  ASSUME NEW d \in Nat \ {0}, NEW p \in Nat, NEW t \in Nat
  PROVE  p \in t * d .. t * d + d - 1 <=> p \div d = t
<1> DEFINE q == p \div d
<1>1. q \in Nat /\ q * d <= p /\ p < q * d + d
  BY SMT
<1>2. t * d \in Nat
  BY SMT
<1>3. ASSUME NEW a \in Nat, NEW b \in Nat, a < b PROVE a * d + d <= b * d
  <2>1. PICK c \in Nat : b = a + 1 + c
    BY <1>3
  <2>2. b * d = a * d + d + c * d /\ c * d \in Nat /\ a * d \in Nat
    BY <2>1, SMT
  <2> QED BY <2>2
<1> HIDE DEF q
<1>4. CASE q < t
  <2>1. q * d + d <= t * d
    BY <1>1, <1>3, <1>4
  <2> QED BY <1>1, <1>2, <1>4, <2>1 DEF q
<1>5. CASE t < q
  <2>1. t * d + d <= q * d /\ q * d \in Nat
    BY <1>1, <1>3, <1>5
  <2> QED BY <1>1, <1>2, <1>5, <2>1 DEF q
<1>6. CASE q = t
  BY <1>1, <1>2, <1>6 DEF q
<1> QED BY <1>1, <1>4, <1>5, <1>6

\* Rounding the number of blocks up leaves no byte without a block.
LEMMA BlocksCover ==
  ASSUME NEW n \in Nat, NEW p \in Nat, p < n, NEW d \in Nat \ {0}
  PROVE  p \div d \in Nat /\ p \div d < (n + d - 1) \div d
<1> DEFINE q == p \div d
           m == (n + d - 1) \div d
<1>1. q \in Nat /\ q * d <= p /\ p < q * d + d
  BY SMT
<1>2. n + d - 1 \in Nat /\ m \in Nat
  BY SMT
<1>3. m * d <= n + d - 1 /\ n + d - 1 < m * d + d
  BY <1>2, SMT
<1>4. SUFFICES ASSUME m <= q PROVE FALSE
  BY <1>1, <1>2
<1>5. PICK c \in Nat : q = m + c
  BY <1>1, <1>2, <1>4
<1>6. q * d = m * d + c * d /\ c * d \in Nat /\ m * d \in Nat
  BY <1>2, <1>5, SMT
<1> QED BY <1>1, <1>3, <1>6

\* Without wrap-around the sizes are what their names say.
LEMMA Sizes ==
  ASSUME NoWrap, NEW n \in Lengths
  PROVE  /\ n \in Nat
         /\ frame_size(n) = n + HEADER_LEN + TAG_LEN
         /\ (HEADER_LEN + n) % SIZE_WRAP = HEADER_LEN + n
         /\ block_count(n) = (n + AES_BLOCK - 1) \div AES_BLOCK
         /\ block_count(n) \in Nat
<1>1. /\ n \in Nat /\ SIZE_WRAP \in Nat \ {0} /\ AES_BLOCK \in Nat \ {0}
      /\ HEADER_LEN \in Nat \ {0} /\ TAG_LEN \in Nat \ {0}
      /\ n + HEADER_LEN + TAG_LEN + AES_BLOCK <= SIZE_WRAP
  BY WidthsAssumption DEF NoWrap
<1>2. ASSUME NEW m \in Nat, m < SIZE_WRAP PROVE m % SIZE_WRAP = m
  BY <1>1, <1>2, SMT
<1>3. frame_size(n) = n + HEADER_LEN + TAG_LEN
  BY <1>1, <1>2 DEF frame_size
<1>4. (HEADER_LEN + n) % SIZE_WRAP = HEADER_LEN + n
  BY <1>1, <1>2
<1>5. (n + AES_BLOCK - 1) % SIZE_WRAP = n + AES_BLOCK - 1
  BY <1>1, <1>2
<1>6. block_count(n) = (n + AES_BLOCK - 1) \div AES_BLOCK
  BY <1>5 DEF block_count
<1>7. block_count(n) \in Nat
  BY <1>1, <1>6, SMT
<1> QED BY <1>1, <1>3, <1>4, <1>6, <1>7

\* The grid has a thread for every block.
LEMMA LaunchCovers ==
  ASSUME NoWrap, NEW n \in Lengths
  PROVE  0 .. block_count(n) - 1 \subseteq launched(n) /\ launched(n) \subseteq Nat
<1> DEFINE k == block_count(n)
           m == (k + THREADS - 1) \div THREADS
<1>0. k \in Nat /\ m <= INT_MAX /\ grid(n) = to_int(m)
  BY Sizes DEF NoWrap, grid, grid_size
<1>1. k \in Nat /\ THREADS \in Nat \ {0} /\ INT_MAX \in Nat
  BY <1>0, WidthsAssumption
<1> HIDE DEF k
<1>2. k + THREADS - 1 \in Nat /\ m \in Nat
  BY <1>1, SMT
<1>3. m * THREADS \in Nat /\ k + THREADS - 1 < m * THREADS + THREADS
  BY <1>1, <1>2, SMT
<1>4. k <= m * THREADS
  BY <1>1, <1>3
<1>5. ASSUME NEW x \in Nat, x <= INT_MAX PROVE to_int(x) = x
  <2>1. (x + INT_MAX + 1) % (2 * INT_MAX + 2) = x + INT_MAX + 1
    BY <1>1, <1>5, SMT
  <2> QED BY <1>1, <1>5, <2>1 DEF to_int
<1>6. grid(n) = m
  BY <1>0, <1>2, <1>5
<1> QED BY <1>1, <1>3, <1>4, <1>6 DEF launched, k

\* A thread writes the bytes of the plaintext whose block is its own.
LEMMA BlockBytes ==
  ASSUME NoWrap, plaintext_len \in Lengths, NEW t \in Nat, NEW p \in Int
  PROVE  p \in block(t) <=> p \in 0 .. plaintext_len - 1 /\ p \div AES_BLOCK = t
<1>1. AES_BLOCK \in Nat \ {0} /\ plaintext_len \in Nat
  BY WidthsAssumption, Sizes
<1>2. t * AES_BLOCK \in Nat
  BY <1>1, SMT
<1>3. CASE p \in Nat
  <2>1. p \in t * AES_BLOCK .. t * AES_BLOCK + AES_BLOCK - 1
          <=> p \div AES_BLOCK = t
    BY <1>1, <1>3, BlockOf
  <2>2. p < plaintext_len => p \div AES_BLOCK < block_count(plaintext_len)
    BY <1>1, <1>3, BlocksCover, Sizes
  <2> QED BY <1>1, <1>2, <1>3, <2>1, <2>2 DEF block
<1>4. CASE p \notin Nat
  BY <1>1, <1>2, <1>4 DEF block
<1> QED BY <1>3, <1>4

-----------------------------------------------------------------------------
(* The inductive invariant.                                                *)

HeaderByte(p) == IF p = 0 THEN {<<"version">>} ELSE {<<"iv", seals, p>>}

sealed_iv == [i \in 1 .. HEADER_LEN - 1 |-> {<<"iv", seals, i>>}]

CipherByte(i) ==
  text(i) \cup {<<"key", sealed_iv, (i \div AES_BLOCK) + 2, i % AES_BLOCK>>}

\* What a byte of the frame holds while a seal encrypts.
Encrypting(p) ==
  IF p < HEADER_LEN THEN HeaderByte(p)
  ELSE IF p < HEADER_LEN + plaintext_len /\ (p - HEADER_LEN) \div AES_BLOCK \notin todo
  THEN CipherByte(p - HEADER_LEN)
  ELSE before[p]

\* What a byte of dst holds while an open that has failed zeroes it.
Zeroing(p) ==
  IF p < plaintext_len /\ p \div AES_BLOCK \notin todo THEN {} ELSE before[p]

Bytes == 0 .. Memory - 1

Accepted ==
  phase \in {"header", "encrypt", "sealed"} =>
    /\ plaintext_len \in Lengths /\ capacity \in Capacities
    /\ HEADER_LEN + plaintext_len + TAG_LEN <= capacity
    /\ block_count(plaintext_len) <= COUNTER_WRAP - 2

IInv ==
  /\ TypeOK
  /\ Accepted
  /\ seals <= calls
  /\ phase \notin {"encrypt", "decrypt"} => todo = {}
  /\ phase \in {"verify", "decrypt"} => plaintext_len \in Lengths
  /\ phase = "header" => \A p \in Bytes : frame[p] = before[p]
  /\ phase = "encrypt" => \A p \in Bytes : frame[p] = Encrypting(p)
  /\ phase = "verify" => \A p \in Bytes : plain[p] = before[p]
  /\ phase = "decrypt" /\ auth_ok = 0 => \A p \in Bytes : plain[p] = Zeroing(p)
  /\ FrameComplete

LEMMA InitIInv == Init => IInv
BY WidthsAssumption, SMT
   DEF Init, IInv, TypeOK, Accepted, FrameComplete, launched, Bytes

\* While a seal encrypts, the IV that its kernels read is the IV of the seal.
LEMMA IvRead ==
  ASSUME IInv, phase = "encrypt"
  PROVE  iv = sealed_iv
<1>1. \A i \in 1 .. HEADER_LEN - 1 : at(i) = {<<"iv", seals, i>>}
  BY WidthsAssumption, Sizes DEF IInv, TypeOK, Accepted, at, Encrypting, HeaderByte, Bytes
<1> QED BY <1>1 DEF iv, sealed_iv

LEMMA CallSealStep ==
  ASSUME IInv, NoWrap, NEW n \in Lengths, NEW cap \in Capacities, CallSeal(n, cap)
  PROVE  IInv'
<1>1. /\ n \in Nat /\ frame_size(n) = n + HEADER_LEN + TAG_LEN
      /\ HEADER_LEN \in Nat /\ TAG_LEN \in Nat
  BY Sizes, WidthsAssumption
<1>2. todo = {}
  BY DEF CallSeal, Idle, IInv
<1>3. TypeOK'
  BY <1>2, WidthsAssumption DEF CallSeal, IInv, TypeOK
<1>4. Accepted'
  BY <1>1, WidthsAssumption DEF CallSeal, Accepted, seal_accepts
<1>5. seals' <= calls'
  BY DEF CallSeal, IInv, TypeOK
<1> QED BY <1>2, <1>3, <1>4, <1>5 DEF CallSeal, IInv, FrameComplete

LEMMA CallOpenStep ==
  ASSUME IInv, NEW n \in Lengths, NEW cap \in Capacities, CallOpen(n, cap)
  PROVE  IInv'
<1>1. todo = {}
  BY DEF CallOpen, Idle, IInv
<1>2. TypeOK'
  BY <1>1, WidthsAssumption DEF CallOpen, IInv, TypeOK
<1>3. Accepted' /\ FrameComplete'
  BY DEF CallOpen, Accepted, FrameComplete
<1>4. seals' <= calls'
  BY DEF CallOpen, IInv, TypeOK
<1> QED BY <1>1, <1>2, <1>3, <1>4 DEF CallOpen, IInv

LEMMA HeaderStep ==
  ASSUME IInv, NoWrap, write_frame_header_kernel
  PROVE  IInv'
<1>1. plaintext_len \in Lengths /\ plaintext_len \in Nat /\ HEADER_LEN \in Nat
  BY Sizes, WidthsAssumption DEF write_frame_header_kernel, IInv, Accepted
<1>2. TypeOK'
  BY DEF write_frame_header_kernel, IInv, TypeOK, launched, block_count
<1>3. Accepted'
  BY DEF write_frame_header_kernel, IInv, Accepted, block_count
<1>4. ASSUME NEW p \in Bytes PROVE frame'[p] = Encrypting(p)'
  <2>1. frame'[p] = IF p < HEADER_LEN THEN HeaderByte(p) ELSE before[p]
    <3>1. frame[p] = before[p] /\ p \in DOMAIN frame
      BY <1>4 DEF write_frame_header_kernel, IInv, TypeOK, Bytes
    <3>2. 0 < HEADER_LEN
      BY WidthsAssumption
    <3> QED BY <3>1, <3>2 DEF write_frame_header_kernel, HeaderByte
  <2>2. ASSUME p >= HEADER_LEN, p < HEADER_LEN + plaintext_len
        PROVE  (p - HEADER_LEN) \div AES_BLOCK \in todo'
    <3>1. p - HEADER_LEN \in Nat /\ p - HEADER_LEN < plaintext_len
      BY <1>1, <2>2 DEF Bytes
    <3>2. (p - HEADER_LEN) \div AES_BLOCK \in 0 .. block_count(plaintext_len) - 1
      <4>1. AES_BLOCK \in Nat \ {0}
        BY WidthsAssumption
      <4>2. /\ (p - HEADER_LEN) \div AES_BLOCK \in Nat
            /\ (p - HEADER_LEN) \div AES_BLOCK
                 < (plaintext_len + AES_BLOCK - 1) \div AES_BLOCK
        BY <1>1, <3>1, <4>1, BlocksCover
      <4>3. /\ block_count(plaintext_len) = (plaintext_len + AES_BLOCK - 1) \div AES_BLOCK
            /\ block_count(plaintext_len) \in Nat
        BY <1>1, Sizes
      <4> HIDE DEF block_count
      <4> QED BY <4>2, <4>3
    <3> QED BY <1>1, <3>2, LaunchCovers, Sizes DEF write_frame_header_kernel
  <2>3. CASE p < HEADER_LEN
    BY <2>1, <2>3 DEF write_frame_header_kernel, Encrypting, HeaderByte
  <2>4. CASE ~(p < HEADER_LEN)
    BY <1>1, <2>1, <2>2, <2>4
       DEF write_frame_header_kernel, Encrypting, HeaderByte, Bytes
  <2> QED BY <2>3, <2>4
<1> QED BY <1>2, <1>3, <1>4
        DEF write_frame_header_kernel, IInv, FrameComplete, Bytes

\* The thread of a block finishes the bytes of that block and no other.
LEMMA EncryptThreadStep ==
  ASSUME IInv, NoWrap, NEW t \in todo, EncryptThread(t)
  PROVE  IInv'
<1>1. /\ plaintext_len \in Lengths /\ plaintext_len \in Nat
      /\ HEADER_LEN \in Nat /\ AES_BLOCK \in Nat \ {0}
      /\ COUNTER_WRAP \in Nat /\ COUNTER_WRAP > 2
      /\ block_count(plaintext_len) \in Nat
      /\ block_count(plaintext_len) <= COUNTER_WRAP - 2
  BY Sizes, WidthsAssumption DEF EncryptThread, IInv, Accepted
<1>2. t \in Nat
  BY <1>1, LaunchCovers DEF IInv, TypeOK
<1>3. TypeOK'
  BY DEF EncryptThread, IInv, TypeOK, launched, block_count
<1>4. Accepted'
  BY DEF EncryptThread, IInv, Accepted, block_count
<1>5. iv = sealed_iv
  BY IvRead DEF EncryptThread
<1>6. ASSUME NEW p \in Bytes PROVE frame'[p] = Encrypting(p)'
  <2> DEFINE i == p - HEADER_LEN
  <2>0. p \in Nat /\ i \in Int
    BY <1>1 DEF Bytes
  <2>1. frame'[p] = ctr_crypt_kernel(t, i, text(i), frame[p], TRUE)
    BY <1>6 DEF EncryptThread, IInv, TypeOK, Bytes
  <2>2. frame[p] = Encrypting(p)
    BY <1>6 DEF EncryptThread, IInv
  <2>3. Encrypting(p)' =
          IF p < HEADER_LEN THEN HeaderByte(p)
          ELSE IF p < HEADER_LEN + plaintext_len /\ i \div AES_BLOCK \notin todo \ {t}
          THEN CipherByte(i) ELSE before[p]
    BY DEF EncryptThread, Encrypting, HeaderByte, CipherByte, text, sealed_iv
  <2>4. CASE i \notin block(t)
    <3>1. frame'[p] = Encrypting(p)
      BY <2>1, <2>2, <2>4 DEF ctr_crypt_kernel
    <3>2. ~(i \in 0 .. plaintext_len - 1 /\ i \div AES_BLOCK = t)
      BY <1>1, <1>2, <2>0, <2>4, BlockBytes
    <3> QED BY <1>1, <2>0, <2>3, <3>1, <3>2 DEF Encrypting
  <2>5. CASE i \in block(t)
    <3>1. i \in 0 .. plaintext_len - 1 /\ i \div AES_BLOCK = t
      BY <1>1, <1>2, <2>0, <2>5, BlockBytes
    <3>2. t < block_count(plaintext_len)
      BY <2>5 DEF block
    <3>3. ctr(t) = t + 2 /\ ctr(t) \in Nat /\ ctr(t) < COUNTER_WRAP
      BY <1>1, <1>2, <3>2 DEF ctr
    <3>4. ctr(t) % COUNTER_WRAP = t + 2
      BY <1>1, <3>3, SMT
    <3>5. frame'[p] = bxor(text(i), {<<"key", sealed_iv, t + 2, i % AES_BLOCK>>})
      <4>1. ~(ctr(t) > COUNTER_WRAP - 1)
        BY <1>1, <3>3
      <4>2. frame'[p] = bxor(text(i), stream_block(ctr(t), i % AES_BLOCK))
        BY <2>1, <2>5, <4>1 DEF ctr_crypt_kernel
      <4> HIDE DEF i
      <4>3. stream_block(ctr(t), i % AES_BLOCK)
              = {<<"key", sealed_iv, t + 2, i % AES_BLOCK>>}
        BY <1>5, <3>4 DEF stream_block
      <4> QED BY <4>2, <4>3
    <3>6. bxor(text(i), {<<"key", sealed_iv, t + 2, i % AES_BLOCK>>}) = CipherByte(i)
      <4>1. <<"key", sealed_iv, t + 2, i % AES_BLOCK>> \notin text(i)
        <5>1. \A x, y, u, v, w : <<"key", u, v, w>>[1] # <<"text", x, y>>[1]
          OBVIOUS
        <5> QED BY <5>1 DEF text
      <4>2. ASSUME NEW a, NEW S, a \notin S PROVE bxor(S, {a}) = S \cup {a}
        BY <4>2 DEF bxor
      <4> QED BY <3>1, <4>1, <4>2 DEF CipherByte
    <3>7. ~(p < HEADER_LEN) /\ p < HEADER_LEN + plaintext_len
      BY <1>1, <2>0, <3>1
    <3> QED BY <2>3, <3>1, <3>5, <3>6, <3>7
  <2> QED BY <2>4, <2>5
<1> QED BY <1>3, <1>4, <1>6 DEF EncryptThread, IInv, FrameComplete

\* The tag is written behind the ciphertext, and leaves what it hashes alone.
LEMMA FinalizeStep ==
  ASSUME IInv, NoWrap, finalize_tag_kernel
  PROVE  IInv'
<1>1. /\ plaintext_len \in Lengths /\ plaintext_len \in Nat
      /\ HEADER_LEN \in Nat \ {0} /\ TAG_LEN \in Nat \ {0}
      /\ capacity \in Nat /\ HEADER_LEN + plaintext_len + TAG_LEN <= capacity
      /\ capacity <= Memory /\ Memory \in Nat
  <2>1. /\ plaintext_len \in Lengths /\ capacity \in Capacities
        /\ HEADER_LEN + plaintext_len + TAG_LEN <= capacity
    BY DEF finalize_tag_kernel, IInv, Accepted
  <2>2. plaintext_len \in Nat
    BY <2>1, Sizes
  <2>3. capacity \in 0 .. Memory /\ Memory \in Nat
    BY <2>1, WidthsAssumption
  <2>4. HEADER_LEN \in Nat \ {0} /\ TAG_LEN \in Nat \ {0}
    BY WidthsAssumption
  <2> QED BY <2>1, <2>2, <2>3, <2>4
<1>2. tag_position = HEADER_LEN + plaintext_len /\ tag_position' = tag_position
  BY <1>1, Sizes DEF tag_position, finalize_tag_kernel
<1>3. TypeOK'
  BY <1>1 DEF finalize_tag_kernel, IInv, TypeOK, launched, block_count
<1>4. Accepted'
  BY DEF finalize_tag_kernel, IInv, Accepted, block_count
<1>5. ASSUME NEW p \in Bytes
      PROVE  frame'[p] = IF p - (HEADER_LEN + plaintext_len) \in 0 .. TAG_LEN - 1
                         THEN tag_byte(p - (HEADER_LEN + plaintext_len))
                         ELSE Encrypting(p)
  <2>1. frame[p] = Encrypting(p) /\ p \in DOMAIN frame
    BY <1>5 DEF finalize_tag_kernel, IInv, TypeOK, Bytes
  <2> QED BY <1>2, <2>1 DEF finalize_tag_kernel
<1>6. ASSUME NEW p \in Bytes, p < HEADER_LEN + plaintext_len
      PROVE  at(p)' = at(p)
  <2>1. p < capacity /\ ~(p - (HEADER_LEN + plaintext_len) \in 0 .. TAG_LEN - 1)
    BY <1>1, <1>6 DEF Bytes
  <2>2. frame'[p] = Encrypting(p) /\ frame[p] = Encrypting(p)
    BY <1>5, <1>6, <2>1 DEF finalize_tag_kernel, IInv
  <2> QED BY <2>1, <2>2 DEF at, finalize_tag_kernel
<1>7. iv' = iv /\ iv = sealed_iv
  <2>1. \A i \in 1 .. HEADER_LEN - 1 : at(i)' = at(i)
    BY <1>1, <1>6 DEF Bytes
  <2>2. iv = sealed_iv
    BY IvRead DEF finalize_tag_kernel
  <2> QED BY <2>1, <2>2 DEF iv
<1>8. hashed' = hashed
  <2> DEFINE P == {q \in 0 .. plaintext_len - 1 :
                     q \div AES_BLOCK < block_count(plaintext_len)}
  <2>1. \A q \in P : at(HEADER_LEN + q)' = at(HEADER_LEN + q)
    <3>1. \A q \in P : HEADER_LEN + q \in Bytes /\ HEADER_LEN + q < HEADER_LEN + plaintext_len
      BY <1>1 DEF Bytes
    <3> QED BY <1>6, <3>1
  <2>2. P' = P
    BY DEF finalize_tag_kernel, block_count
  <2>3. hashed = <<[q \in P |-> at(HEADER_LEN + q)], plaintext_len>>
    BY DEF hashed
  <2>4. hashed' = <<[q \in P' |-> at(HEADER_LEN + q)'], plaintext_len'>>
    BY DEF hashed
  <2>5. plaintext_len' = plaintext_len
    BY DEF finalize_tag_kernel
  <2> HIDE DEF P
  <2> QED BY <2>1, <2>2, <2>3, <2>4, <2>5
<1>9. ASSUME NEW k PROVE tag_byte(k)' = tag_byte(k)
  BY <1>7, <1>8 DEF tag_byte, stream_block, bxor
<1>10. FrameComplete'
  <2> SUFFICES ASSUME NEW p \in Bytes
               PROVE  (frame[p] =
                         IF p >= capacity THEN before[p]
                         ELSE IF p = 0 THEN {<<"version">>}
                         ELSE IF p < HEADER_LEN THEN {<<"iv", seals, p>>}
                         ELSE IF p < HEADER_LEN + plaintext_len
                         THEN LET i == p - HEADER_LEN IN
                              text(i) \cup {<<"key", iv, (i \div AES_BLOCK) + 2, i % AES_BLOCK>>}
                         ELSE IF p < HEADER_LEN + plaintext_len + TAG_LEN
                         THEN tag_byte(p - HEADER_LEN - plaintext_len)
                         ELSE before[p])'
    BY DEF FrameComplete, Bytes
  <2>1. p \in Nat /\ todo = {} /\ UNCHANGED <<seals, capacity, plaintext_len, before>>
    BY DEF Bytes, finalize_tag_kernel
  <2>2. p - (HEADER_LEN + plaintext_len) = p - HEADER_LEN - plaintext_len
    BY <1>1, <2>1
  <2>3. CASE p >= HEADER_LEN + plaintext_len /\ p < HEADER_LEN + plaintext_len + TAG_LEN
    <3>1. p - (HEADER_LEN + plaintext_len) \in 0 .. TAG_LEN - 1
      BY <1>1, <2>1, <2>3
    <3>2. frame'[p] = tag_byte(p - HEADER_LEN - plaintext_len)'
      BY <1>5, <1>9, <2>1, <2>2, <3>1
    <3>3. /\ ~(p >= capacity) /\ ~(p = 0) /\ ~(p < HEADER_LEN)
          /\ ~(p < HEADER_LEN + plaintext_len)
      BY <1>1, <2>1, <2>3
    <3> QED BY <2>1, <2>3, <3>2, <3>3
  <2>4. CASE p < HEADER_LEN + plaintext_len
    <3>1. ~(p - (HEADER_LEN + plaintext_len) \in 0 .. TAG_LEN - 1) /\ ~(p >= capacity)
      BY <1>1, <2>1, <2>4
    <3>2. frame'[p] = Encrypting(p)
      BY <1>5, <3>1
    <3>3. CASE p < HEADER_LEN
      BY <1>1, <2>1, <3>1, <3>2, <3>3 DEF Encrypting, HeaderByte
    <3>4. CASE ~(p < HEADER_LEN)
      <4>1. frame'[p] = CipherByte(p - HEADER_LEN)
        BY <2>1, <2>4, <3>2, <3>4 DEF Encrypting
      <4>2. text(p - HEADER_LEN)' = text(p - HEADER_LEN)
        BY <2>1 DEF text
      <4>3. p # 0
        BY <1>1, <3>4
      <4> QED BY <1>7, <2>1, <2>4, <3>1, <3>4, <4>1, <4>2, <4>3 DEF CipherByte
    <3> QED BY <3>3, <3>4
  <2>5. CASE p >= HEADER_LEN + plaintext_len + TAG_LEN
    <3>1. /\ ~(p - (HEADER_LEN + plaintext_len) \in 0 .. TAG_LEN - 1)
          /\ ~(p = 0) /\ ~(p < HEADER_LEN) /\ ~(p < HEADER_LEN + plaintext_len)
          /\ ~(p < HEADER_LEN + plaintext_len + TAG_LEN)
      BY <1>1, <2>1, <2>5
    <3>2. frame'[p] = before[p]
      BY <1>5, <3>1 DEF Encrypting
    <3> QED BY <2>1, <3>1, <3>2
  <2> QED BY <1>1, <2>1, <2>3, <2>4, <2>5
<1> QED BY <1>3, <1>4, <1>10 DEF finalize_tag_kernel, IInv

LEMMA VerifyStep ==
  ASSUME IInv, NoWrap, verify_tag_kernel
  PROVE  IInv'
<1>1. plaintext_len \in Lengths /\ plaintext_len \in Nat
  BY Sizes DEF verify_tag_kernel, IInv
<1>2. TypeOK'
  BY DEF verify_tag_kernel, verdict, IInv, TypeOK, launched, block_count
<1>3. ASSUME NEW p \in Bytes PROVE plain'[p] = Zeroing(p)'
  <2>1. plain'[p] = before'[p]
    BY <1>3 DEF verify_tag_kernel, IInv
  <2>2. ASSUME p < plaintext_len PROVE p \div AES_BLOCK \in todo'
    <3>1. p \in Nat /\ AES_BLOCK \in Nat \ {0}
      BY <1>3, WidthsAssumption DEF Bytes
    <3>2. /\ p \div AES_BLOCK \in Nat
          /\ p \div AES_BLOCK < (plaintext_len + AES_BLOCK - 1) \div AES_BLOCK
      BY <1>1, <2>2, <3>1, BlocksCover
    <3>3. /\ block_count(plaintext_len) = (plaintext_len + AES_BLOCK - 1) \div AES_BLOCK
          /\ block_count(plaintext_len) \in Nat
      BY <1>1, Sizes
    <3>4. p \div AES_BLOCK \in 0 .. block_count(plaintext_len) - 1
      BY <3>2, <3>3
    <3> QED BY <1>1, <3>3, <3>4, LaunchCovers DEF verify_tag_kernel
  <2> QED BY <2>1, <2>2 DEF Zeroing, verify_tag_kernel
<1> QED BY <1>1, <1>2, <1>3 DEF verify_tag_kernel, IInv, Accepted, FrameComplete

\* A thread of a failed open zeroes its block whatever its counter.
LEMMA DecryptThreadStep ==
  ASSUME IInv, NoWrap, NEW t \in todo, DecryptThread(t)
  PROVE  IInv'
<1>1. /\ plaintext_len \in Lengths /\ plaintext_len \in Nat
      /\ block_count(plaintext_len) \in Nat
  BY Sizes DEF DecryptThread, IInv
<1>2. t \in Nat
  BY <1>1, LaunchCovers DEF IInv, TypeOK
<1>3. TypeOK'
  BY DEF DecryptThread, IInv, TypeOK, launched, block_count
<1>4. ASSUME auth_ok = 0, NEW p \in Bytes PROVE plain'[p] = Zeroing(p)'
  <2>0. p \in Nat
    BY <1>4 DEF Bytes
  <2>1. plain'[p] = IF p \in block(t) THEN {} ELSE Zeroing(p)
    <3>1. plain[p] = Zeroing(p) /\ p \in DOMAIN plain
      BY <1>4 DEF DecryptThread, IInv, TypeOK, Bytes
    <3>2. plain'[p] = ctr_crypt_kernel(t, p, at(HEADER_LEN + p), plain[p], FALSE)
      BY <1>4, <3>1 DEF DecryptThread
    <3> QED BY <3>1, <3>2 DEF ctr_crypt_kernel
  <2>2. p \in block(t) <=> p \in 0 .. plaintext_len - 1 /\ p \div AES_BLOCK = t
    BY <1>1, <1>2, <2>0, BlockBytes
  <2>3. Zeroing(p)' = IF p < plaintext_len /\ p \div AES_BLOCK \notin todo \ {t}
                      THEN {} ELSE before[p]
    BY DEF Zeroing, DecryptThread
  <2> QED BY <1>1, <2>0, <2>1, <2>2, <2>3 DEF Zeroing
<1> QED BY <1>1, <1>3, <1>4 DEF DecryptThread, IInv, Accepted, FrameComplete

LEMMA FlipStep ==
  ASSUME IInv, NEW p \in DOMAIN frame, Flip(p)
  PROVE  IInv'
<1>1. todo = {}
  BY DEF Flip, Idle, IInv
<1>2. TypeOK'
  BY <1>1 DEF Flip, IInv, TypeOK, launched, block_count
<1> QED BY <1>1, <1>2 DEF Flip, IInv, Accepted, FrameComplete

-----------------------------------------------------------------------------
LEMMA NextIInv == ASSUME NoWrap, IInv, [Next]_vars PROVE IInv'
<1>1. CASE UNCHANGED vars
  <2>1. TypeOK' /\ Accepted'
    BY <1>1 DEF vars, IInv, TypeOK, Accepted, launched, block_count
  <2>2. FrameComplete'
    <3>1. ASSUME NEW p PROVE at(p)' = at(p) /\ text(p)' = text(p)
      BY <1>1 DEF vars, at, text
    <3>2. iv' = iv
      BY <3>1 DEF iv
    <3>3. hashed' = hashed
      <4>1. plaintext_len' = plaintext_len
        BY <1>1 DEF vars
      <4> QED BY <3>1, <4>1 DEF hashed, block_count
    <3>4. ASSUME NEW k PROVE tag_byte(k)' = tag_byte(k)
      BY <3>2, <3>3 DEF tag_byte, stream_block, bxor
    <3> QED BY <1>1, <3>1, <3>2, <3>4 DEF vars, IInv, FrameComplete
  <2>3. \A p \in Bytes : Encrypting(p)' = Encrypting(p) /\ Zeroing(p)' = Zeroing(p)
    BY <1>1 DEF vars, Encrypting, Zeroing, HeaderByte, CipherByte, text, sealed_iv
  <2> QED BY <1>1, <2>1, <2>2, <2>3 DEF vars, IInv
<1>2. ASSUME NEW n \in Lengths, NEW cap \in Capacities,
             CallSeal(n, cap) \/ CallOpen(n, cap)
      PROVE  IInv'
  BY <1>2, CallSealStep, CallOpenStep
<1>3. CASE write_frame_header_kernel
  BY <1>3, HeaderStep
<1>4. ASSUME NEW t \in todo, EncryptThread(t) \/ DecryptThread(t) PROVE IInv'
  BY <1>4, EncryptThreadStep, DecryptThreadStep
<1>5. CASE finalize_tag_kernel
  BY <1>5, FinalizeStep
<1>6. CASE verify_tag_kernel
  BY <1>6, VerifyStep
<1>7. ASSUME NEW p \in DOMAIN frame, Flip(p) PROVE IInv'
  BY <1>7, FlipStep
<1> QED BY <1>1, <1>2, <1>3, <1>4, <1>5, <1>6, <1>7 DEF Next

\* Every byte is finished exactly when the thread of its block has returned.
THEOREM Invariance == ASSUME NoWrap PROVE Spec => []IInv
<1>1. Init => IInv
  BY InitIInv
<1>2. IInv /\ [Next]_vars => IInv'
  BY NextIInv
<1> QED BY <1>1, <1>2, PTL DEF Spec

\* The variables keep their types.
THEOREM TypeCorrect == ASSUME NoWrap PROVE Spec => []TypeOK
<1>1. IInv => TypeOK
  BY DEF IInv
<1> QED BY <1>1, Invariance, PTL

\* Whatever the widths and sizes, as long as nothing wraps, a seal that is
\* accepted and whose kernels have run leaves the complete frame, and nothing
\* outside it.
THEOREM SealsComplete == ASSUME NoWrap PROVE Spec => []FrameComplete
<1>1. IInv => FrameComplete
  BY DEF IInv
<1> QED BY <1>1, Invariance, PTL

\* Whatever the widths and sizes, as long as nothing wraps, an open that fails
\* leaves zeros in every byte of the plaintext, even for more blocks than the
\* counter has values.
THEOREM FailuresZero == ASSUME NoWrap PROVE Spec => []FailedOpenZeroes
<1>1. IInv => FailedOpenZeroes
  BY DEF IInv, FailedOpenZeroes, Opened, Zeroing, Bytes
<1> QED BY <1>1, Invariance, PTL

-----------------------------------------------------------------------------
(* The key stream, with what earlier seals left in the buffer.             *)
(*                                                                         *)
(* The key-stream bytes of a frame carry the IV of their seal.  Those that *)
(* earlier seals left have earlier IVs, and those of the last seal are     *)
(* known by position, so that a tag can only be matched where it is.       *)

iv_of(s) == [i \in 1 .. HEADER_LEN - 1 |-> {<<"iv", s, i>>}]

KeyStream(s, counter, j) == <<"key", iv_of(s), counter, j>>

Flipped(b) == bxor(b, {<<"flip">>})

\* All key-stream bytes in b are of the first m seals.
KeysOf(b, m) == \A k \in b : k[1] = "key" => \E s \in 1 .. m : k[2] = iv_of(s)

-----------------------------------------------------------------------------
(* The frame of the last seal, for a plaintext of length n.                *)

SealedTag(n, i) ==
  bxor({KeyStream(seals, 1, i)},
       {<<"ghash", <<[q \in 0 .. n - 1 |-> CipherByte(q)], n>>, i>>})

SealedByte(n, p) ==
  IF p < HEADER_LEN THEN HeaderByte(p)
  ELSE IF p < HEADER_LEN + n THEN CipherByte(p - HEADER_LEN)
  ELSE SealedTag(n, p - HEADER_LEN - n)

FrameEnd(n) == HEADER_LEN + n + TAG_LEN

\* Behind the frame is what earlier seals left.
Stale(n) == \A p \in Bytes : p >= FrameEnd(n) => KeysOf(frame[p], seals - 1)

Intact(n) ==
  /\ \A p \in Bytes : p < FrameEnd(n) => frame[p] = SealedByte(n, p)
  /\ Stale(n)

\* The frame with its byte x changed.
Damaged(n, x) ==
  /\ \A p \in Bytes : p < FrameEnd(n) =>
       frame[p] = IF p = x THEN Flipped(SealedByte(n, p)) ELSE SealedByte(n, p)
  /\ Stale(n)

Sealable(n) ==
  /\ n \in Lengths /\ FrameEnd(n) <= Memory
  /\ block_count(n) <= COUNTER_WRAP - 2

Contents ==
  \/ seals = 0 /\ stored = -1 /\ \A p \in Bytes : KeysOf(frame[p], 0)
  \/ seals > 0 /\ Sealable(stored) /\ Intact(stored)
  \/ /\ seals > 0 /\ stored = -1
     /\ \E n \in Lengths : \E x \in Bytes :
          Sealable(n) /\ x < FrameEnd(n) /\ Damaged(n, x)

\* What a byte of dst holds while an open that succeeds decrypts.
Decrypting(p) ==
  IF p < plaintext_len /\ p \div AES_BLOCK \notin todo THEN text(p) ELSE before[p]

KInv ==
  /\ IInv
  /\ phase \in {"header", "encrypt", "sealed"} =>
       seals > 0 /\ \A p \in Bytes : KeysOf(before[p], seals - 1)
  /\ phase = "sealed" => stored = plaintext_len
  /\ phase \in {"idle", "verify", "decrypt"} => Contents
  /\ phase \in {"verify", "decrypt"} =>
       capacity \in Capacities /\ FrameEnd(plaintext_len) <= capacity
  /\ phase = "decrypt" =>
       /\ auth_ok = 1 <=> stored = plaintext_len
       /\ auth_ok = 1 => \A p \in Bytes : plain[p] = Decrypting(p)

-----------------------------------------------------------------------------
(* Which key-stream bytes a byte holds.                                    *)

LEMMA Widths ==
  /\ HEADER_LEN \in Nat /\ HEADER_LEN > 1 /\ TAG_LEN \in Nat /\ TAG_LEN > 0
  /\ AES_BLOCK \in Nat \ {0} /\ COUNTER_WRAP \in Nat /\ COUNTER_WRAP > 2
  /\ Memory \in Nat
BY WidthsAssumption

\* An IV names its seal; with a header of one byte it could not.
LEMMA IvInjective ==
  ASSUME NEW a, NEW b, iv_of(a) = iv_of(b)
  PROVE  a = b
<1>1. 1 \in 1 .. HEADER_LEN - 1
  BY Widths
<1>2. iv_of(a)[1] = {<<"iv", a, 1>>} /\ iv_of(b)[1] = {<<"iv", b, 1>>}
  BY <1>1 DEF iv_of
<1>3. <<"iv", a, 1>> = <<"iv", b, 1>>
  BY <1>2
<1> QED BY <1>3

LEMMA KeysGrow ==
  ASSUME NEW b, NEW m \in Nat, NEW k \in Nat, m <= k, KeysOf(b, m)
  PROVE  KeysOf(b, k)
BY DEF KeysOf

LEMMA FlippedKeys ==
  ASSUME NEW b, NEW k \in Flipped(b), k[1] = "key"
  PROVE  k \in b
<1>1. k # <<"flip">>
  BY <<"flip">>[1] = "flip"
<1> QED BY <1>1 DEF Flipped, bxor

\* The key-stream bytes of a sealed frame are known by their positions.
LEMMA SealedKeys ==
  ASSUME NEW n \in Nat, NEW p \in Nat, NEW k \in SealedByte(n, p), k[1] = "key"
  PROVE  /\ p >= HEADER_LEN
         /\ k = IF p < HEADER_LEN + n
                THEN KeyStream(seals, ((p - HEADER_LEN) \div AES_BLOCK) + 2,
                               (p - HEADER_LEN) % AES_BLOCK)
                ELSE KeyStream(seals, 1, p - HEADER_LEN - n)
<1>0. sealed_iv = iv_of(seals)
  BY DEF sealed_iv, iv_of
<1>1. \A x, y, z : /\ <<"text", x, y>>[1] = "text" /\ <<"iv", x, y>>[1] = "iv"
                   /\ <<"version">>[1] = "version" /\ <<"ghash", x, y>>[1] = "ghash"
  OBVIOUS
<1>2. p >= HEADER_LEN
  <2> SUFFICES ASSUME p < HEADER_LEN PROVE FALSE
    BY Widths
  <2>1. k \in HeaderByte(p)
    BY DEF SealedByte
  <2> QED BY <1>1, <2>1 DEF HeaderByte
<1>3. CASE p < HEADER_LEN + n
  <2>1. k \in CipherByte(p - HEADER_LEN)
    BY <1>2, <1>3, Widths DEF SealedByte
  <2>2. k \notin text(p - HEADER_LEN)
    BY <1>1 DEF text
  <2> QED BY <1>0, <1>2, <1>3, <2>1, <2>2 DEF CipherByte, KeyStream
<1>4. CASE ~(p < HEADER_LEN + n)
  <2>1. k \in SealedTag(n, p - HEADER_LEN - n)
    BY <1>2, <1>4, Widths DEF SealedByte
  <2> DEFINE h == <<"ghash", <<[q \in 0 .. n - 1 |-> CipherByte(q)], n>>,
                    p - HEADER_LEN - n>>
  <2>2. h[1] = "ghash"
    BY <1>1
  <2>3. k \in {KeyStream(seals, 1, p - HEADER_LEN - n)} \cup {h}
    BY <2>1 DEF SealedTag, bxor
  <2> HIDE DEF h
  <2>4. k # h
    BY <2>2
  <2> QED BY <1>2, <1>4, <2>3, <2>4
<1> QED BY <1>2, <1>3, <1>4

LEMMA SealedKeysOf ==
  ASSUME NEW n \in Nat, NEW p \in Nat, seals \in Nat, seals > 0
  PROVE  KeysOf(SealedByte(n, p), seals) /\ KeysOf(Flipped(SealedByte(n, p)), seals)
<1>1. \A c, j : KeyStream(seals, c, j)[2] = iv_of(seals)
  BY DEF KeyStream
<1>2. ASSUME NEW k \in SealedByte(n, p), k[1] = "key"
      PROVE  \E s \in 1 .. seals : k[2] = iv_of(s)
  <2>1. k[2] = iv_of(seals)
    BY <1>1, <1>2, SealedKeys
  <2> QED BY <2>1
<1>3. KeysOf(SealedByte(n, p), seals)
  BY <1>2 DEF KeysOf
<1> QED BY <1>2, <1>3, FlippedKeys DEF KeysOf

\* Every key-stream byte in the memory of the frame is of a seal made so far.
LEMMA FrameKeys ==
  ASSUME NoWrap, TypeOK, Contents, NEW p \in Bytes
  PROVE  KeysOf(frame[p], seals)
<1>1. p \in Nat /\ seals \in Nat
  BY Widths DEF Bytes, TypeOK
<1>2. CASE seals = 0
  BY <1>2 DEF Contents
<1>3. ASSUME seals > 0, NEW n \in Lengths, Stale(n),
             p < FrameEnd(n) => \/ frame[p] = SealedByte(n, p)
                                \/ frame[p] = Flipped(SealedByte(n, p))
      PROVE  KeysOf(frame[p], seals)
  <2>1. n \in Nat
    BY Sizes
  <2>2. CASE p < FrameEnd(n)
    BY <1>1, <1>3, <2>1, <2>2, SealedKeysOf
  <2>3. CASE ~(p < FrameEnd(n))
    <3>1. KeysOf(frame[p], seals - 1)
      BY <1>1, <1>3, <2>1, <2>3, Widths DEF Stale, FrameEnd
    <3> QED BY <1>1, <1>3, <3>1, KeysGrow
  <2> QED BY <2>2, <2>3
<1>4. CASE seals > 0 /\ Sealable(stored) /\ Intact(stored)
  BY <1>3, <1>4 DEF Sealable, Intact
<1>5. CASE /\ seals > 0
           /\ \E n \in Lengths : \E x \in Bytes : Sealable(n) /\ Damaged(n, x)
  <2>1. PICK n \in Lengths, x \in Bytes : Damaged(n, x)
    BY <1>5
  <2>2. Stale(n) /\ (p < FrameEnd(n) => \/ frame[p] = SealedByte(n, p)
                                        \/ frame[p] = Flipped(SealedByte(n, p)))
    BY <2>1 DEF Damaged
  <2> QED BY <1>3, <1>5, <2>2
<1> QED BY <1>1, <1>2, <1>4, <1>5 DEF Contents

-----------------------------------------------------------------------------
(* A seal.                                                                 *)

\* The byte of the frame that a seal has sealed, or is to seal.
LEMMA SealedPhase ==
  ASSUME NoWrap, KInv, phase = "sealed"
  PROVE  Contents
<1>1. /\ plaintext_len \in Lengths /\ plaintext_len \in Nat /\ capacity \in Nat
      /\ FrameEnd(plaintext_len) <= capacity /\ capacity <= Memory
      /\ block_count(plaintext_len) <= COUNTER_WRAP - 2
  <2>1. /\ plaintext_len \in Lengths /\ capacity \in Capacities
        /\ FrameEnd(plaintext_len) <= capacity
        /\ block_count(plaintext_len) <= COUNTER_WRAP - 2
    BY DEF KInv, IInv, Accepted, FrameEnd
  <2>2. plaintext_len \in Nat /\ capacity \in 0 .. Memory
    BY <2>1, Sizes, WidthsAssumption
  <2> QED BY <2>1, <2>2, Widths
<1> DEFINE key(i) == <<"key", iv, (i \div AES_BLOCK) + 2, i % AES_BLOCK>>
           n == plaintext_len
<1>2. ASSUME NEW p \in Bytes
      PROVE  /\ p < HEADER_LEN => frame[p] = HeaderByte(p)
             /\ HEADER_LEN <= p /\ p < HEADER_LEN + n =>
                  frame[p] = text(p - HEADER_LEN) \cup {key(p - HEADER_LEN)}
             /\ HEADER_LEN + n <= p /\ p < FrameEnd(n) =>
                  frame[p] = tag_byte(p - HEADER_LEN - n)
             /\ FrameEnd(n) <= p => frame[p] = before[p]
  <2>1. frame[p] =
          IF p >= capacity THEN before[p]
          ELSE IF p = 0 THEN {<<"version">>}
          ELSE IF p < HEADER_LEN THEN {<<"iv", seals, p>>}
          ELSE IF p < HEADER_LEN + n THEN text(p - HEADER_LEN) \cup {key(p - HEADER_LEN)}
          ELSE IF p < HEADER_LEN + n + TAG_LEN THEN tag_byte(p - HEADER_LEN - n)
          ELSE before[p]
    BY DEF KInv, IInv, FrameComplete, Bytes
  <2>2. p \in Nat /\ n \in Nat
    BY <1>1 DEF Bytes
  <2> HIDE DEF key, n
  <2> QED BY <1>1, <2>1, <2>2, Widths DEF FrameEnd, HeaderByte, n
<1>3. ASSUME NEW p \in Nat, p < HEADER_LEN
      PROVE  at(p) = HeaderByte(p)
  <2>1. p \in Bytes /\ p < capacity
    BY <1>1, <1>3, Widths DEF Bytes, FrameEnd
  <2> QED BY <1>2, <1>3, <2>1 DEF at
<1>4. iv = sealed_iv
  BY <1>3, Widths DEF iv, sealed_iv, HeaderByte
<1>5. ASSUME NEW p \in Nat, p \in Bytes, HEADER_LEN <= p, p < HEADER_LEN + n
      PROVE  frame[p] = CipherByte(p - HEADER_LEN)
  BY <1>2, <1>4, <1>5 DEF CipherByte
<1>6. hashed = <<[q \in 0 .. n - 1 |-> CipherByte(q)], n>>
  <2>1. ASSUME NEW q \in 0 .. n - 1
        PROVE  /\ at(HEADER_LEN + q) = CipherByte(q)
               /\ q \div AES_BLOCK < block_count(n)
    <3>1. /\ q \in Nat /\ HEADER_LEN + q \in Bytes /\ HEADER_LEN + q < capacity
          /\ HEADER_LEN + q < HEADER_LEN + n /\ HEADER_LEN <= HEADER_LEN + q
          /\ HEADER_LEN + q - HEADER_LEN = q
      BY <1>1, Widths DEF Bytes, FrameEnd
    <3>2. at(HEADER_LEN + q) = CipherByte(q)
      <4>1. frame[HEADER_LEN + q] = CipherByte(HEADER_LEN + q - HEADER_LEN)
        BY <1>5, <3>1, Widths
      <4>2. at(HEADER_LEN + q) = frame[HEADER_LEN + q]
        BY <3>1 DEF at
      <4> QED BY <3>1, <4>1, <4>2
    <3>3. q \div AES_BLOCK < (n + AES_BLOCK - 1) \div AES_BLOCK
      BY <1>1, <3>1, Widths, BlocksCover
    <3>4. block_count(n) = (n + AES_BLOCK - 1) \div AES_BLOCK
      BY <1>1, Sizes
    <3> QED BY <3>2, <3>3, <3>4
  <2>2. {q \in 0 .. n - 1 : q \div AES_BLOCK < block_count(n)} = 0 .. n - 1
    BY <2>1
  <2> QED BY <2>1, <2>2 DEF hashed
<1>7. ASSUME NEW i PROVE tag_byte(i) = SealedTag(n, i)
  <2>1. 1 % COUNTER_WRAP = 1
    BY Widths
  <2>2. sealed_iv = iv_of(seals)
    BY DEF sealed_iv, iv_of
  <2> QED BY <1>4, <1>6, <2>1, <2>2 DEF tag_byte, stream_block, SealedTag, KeyStream
<1> HIDE DEF n
<1>8. \A p \in Bytes : p < FrameEnd(n) => frame[p] = SealedByte(n, p)
  <2>1. n \in Nat /\ Bytes \subseteq Nat
    BY <1>1 DEF n, Bytes
  <2> QED BY <1>2, <1>5, <1>7, <2>1, Widths DEF FrameEnd, SealedByte
<1>9. Stale(n)
  BY <1>2 DEF Stale, KInv
<1>10. stored = n /\ seals > 0
  BY DEF KInv, n
<1>11. Sealable(stored)
  BY <1>1, <1>10, Widths DEF Sealable, FrameEnd, n
<1>12. Intact(stored)
  BY <1>8, <1>9, <1>10 DEF Intact
<1> QED BY <1>10, <1>11, <1>12 DEF Contents

LEMMA IdleContents ==
  ASSUME NoWrap, KInv, Idle
  PROVE  Contents
BY SealedPhase DEF Idle, KInv

LEMMA CallSealKeys ==
  ASSUME NoWrap, KInv, IInv', NEW n \in Lengths, NEW cap \in Capacities, CallSeal(n, cap)
  PROVE  KInv'
<1>1. Contents /\ TypeOK /\ seals \in Nat
  BY IdleContents DEF CallSeal, KInv, IInv, TypeOK
<1>2. \A p \in Bytes : KeysOf(frame[p], seals)
  BY <1>1, FrameKeys
<1>3. seals' > 0 /\ \A p \in Bytes : KeysOf(before'[p], seals' - 1)
  BY <1>1, <1>2 DEF CallSeal
<1> QED BY <1>3 DEF CallSeal, KInv

LEMMA SealKernelsKeys ==
  ASSUME KInv, IInv',
         \/ write_frame_header_kernel
         \/ \E t \in todo : EncryptThread(t)
         \/ finalize_tag_kernel
  PROVE  KInv'
<1>1. /\ phase \in {"header", "encrypt"} /\ phase' \in {"encrypt", "sealed"}
      /\ seals' = seals /\ before' = before
      /\ phase' = "sealed" => stored' = plaintext_len'
  BY DEF write_frame_header_kernel, EncryptThread, finalize_tag_kernel
<1> QED BY <1>1 DEF KInv

-----------------------------------------------------------------------------
(* An open.                                                                *)

\* Contents is about the frame, the seals and the intact length alone.
LEMMA ContentsKept ==
  ASSUME NoWrap, Contents, UNCHANGED <<frame, seals, stored>>
  PROVE  Contents'
<1>1. ASSUME NEW k, NEW p PROVE SealedByte(k, p)' = SealedByte(k, p)
  BY DEF SealedByte, SealedTag, KeyStream, HeaderByte, CipherByte, sealed_iv, text
<1>2. ASSUME NEW k \in Lengths PROVE Sealable(k)' <=> Sealable(k)
  BY DEF Sealable, block_count
<1>3. ASSUME NEW k \in Lengths, NEW x \in Bytes
      PROVE  (Damaged(k, x))' <=> Damaged(k, x)
  BY <1>1 DEF Damaged, Stale
<1>4. /\ Sealable(stored)' <=> Sealable(stored)
      /\ stored \in Lengths => (Intact(stored)' <=> Intact(stored))
  BY <1>1 DEF Intact, Stale, Sealable, block_count
<1> QED BY <1>2, <1>3, <1>4 DEF Contents, Sealable

LEMMA CallOpenKeys ==
  ASSUME NoWrap, KInv, IInv', NEW n \in Lengths, NEW cap \in Capacities, CallOpen(n, cap)
  PROVE  KInv'
<1>1. Contents'
  BY IdleContents, ContentsKept DEF CallOpen
<1>2. capacity' \in Capacities /\ FrameEnd(plaintext_len') <= capacity'
  BY Sizes, Widths DEF CallOpen, open_accepts, FrameEnd
<1> QED BY <1>1, <1>2 DEF CallOpen, KInv

\* An open reads inside the buffer its caller passed.
LEMMA ReadInside ==
  ASSUME NoWrap, KInv, phase \in {"verify", "decrypt"}
  PROVE  /\ plaintext_len \in Lengths /\ plaintext_len \in Nat
         /\ tag_position = HEADER_LEN + plaintext_len
         /\ \A p \in Nat : p < FrameEnd(plaintext_len) => p \in Bytes /\ at(p) = frame[p]
<1>1. /\ plaintext_len \in Lengths /\ capacity \in Capacities
      /\ FrameEnd(plaintext_len) <= capacity
  BY DEF KInv, IInv
<1>2. plaintext_len \in Nat /\ tag_position = HEADER_LEN + plaintext_len
  BY <1>1, Sizes DEF tag_position
<1>3. capacity \in Nat /\ capacity <= Memory
  <2>1. capacity \in 0 .. Memory
    BY <1>1, WidthsAssumption
  <2> QED BY <2>1, Widths
<1>4. FrameEnd(plaintext_len) \in Nat
  BY <1>2, Widths DEF FrameEnd
<1> QED BY <1>1, <1>2, <1>3, <1>4, Widths DEF Bytes, at

\* The tag is a byte of the key stream under J0 and a byte of the GHASH of
\* the whole ciphertext.
LEMMA TagRead ==
  ASSUME NoWrap, plaintext_len \in Lengths, NEW i
  PROVE  tag_byte(i) =
           {<<"key", iv, 1, i>>,
            <<"ghash", <<[q \in 0 .. plaintext_len - 1 |-> at(HEADER_LEN + q)],
                         plaintext_len>>, i>>}
<1> DEFINE h == <<[q \in 0 .. plaintext_len - 1 |-> at(HEADER_LEN + q)], plaintext_len>>
<1>1. ASSUME NEW q \in 0 .. plaintext_len - 1
      PROVE  q \div AES_BLOCK < block_count(plaintext_len)
  <2>1. plaintext_len \in Nat /\ q \in Nat /\ q < plaintext_len
    BY Sizes
  <2>2. q \div AES_BLOCK < (plaintext_len + AES_BLOCK - 1) \div AES_BLOCK
    BY <2>1, Widths, BlocksCover
  <2> QED BY <2>2, Sizes
<1>2. hashed = h
  <2>1. {q \in 0 .. plaintext_len - 1 : q \div AES_BLOCK < block_count(plaintext_len)}
          = 0 .. plaintext_len - 1
    BY <1>1
  <2> QED BY <2>1 DEF hashed
<1>3. 1 % COUNTER_WRAP = 1
  BY Widths
<1> HIDE DEF h
<1>4. <<"key", iv, 1, i>> # <<"ghash", h, i>>
  <2>1. <<"key", iv, 1, i>>[1] = "key" /\ <<"ghash", h, i>>[1] = "ghash"
    OBVIOUS
  <2> QED BY <2>1
<1> QED BY <1>2, <1>3, <1>4 DEF tag_byte, stream_block, bxor, h

\* Of a sealed frame, damaged or not, only the first byte of the tag holds
\* the first byte of the key stream under J0.
LEMMA TagPlace ==
  ASSUME NoWrap, KInv, NEW n \in Lengths, Stale(n), NEW p \in Bytes,
         p < FrameEnd(n) => \/ frame[p] = SealedByte(n, p)
                            \/ frame[p] = Flipped(SealedByte(n, p)),
         KeyStream(seals, 1, 0) \in frame[p]
  PROVE  p = HEADER_LEN + n
<1> DEFINE k == KeyStream(seals, 1, 0)
<1>1. k[1] = "key" /\ k[2] = iv_of(seals) /\ k[3] = 1 /\ k[4] = 0
  BY DEF KeyStream
<1>2. p \in Nat /\ n \in Nat /\ seals \in Nat
  BY Sizes, Widths DEF Bytes, KInv, IInv, TypeOK
<1> HIDE DEF k
<1>3. p < FrameEnd(n)
  <2> SUFFICES ASSUME ~(p < FrameEnd(n)) PROVE FALSE
    OBVIOUS
  <2>1. KeysOf(frame[p], seals - 1)
    BY <1>2, Widths DEF Stale, FrameEnd
  <2>2. PICK s \in 1 .. seals - 1 : k[2] = iv_of(s)
    BY <1>1, <2>1 DEF KeysOf, k
  <2>3. s = seals
    BY <1>1, <2>2, IvInjective
  <2> QED BY <1>2, <2>3
<1>4. k \in SealedByte(n, p)
  BY <1>1, <1>3, FlippedKeys DEF k
<1>5. /\ p >= HEADER_LEN
      /\ k = IF p < HEADER_LEN + n
             THEN KeyStream(seals, ((p - HEADER_LEN) \div AES_BLOCK) + 2,
                            (p - HEADER_LEN) % AES_BLOCK)
             ELSE KeyStream(seals, 1, p - HEADER_LEN - n)
  BY <1>1, <1>2, <1>4, SealedKeys
<1>6. CASE p < HEADER_LEN + n
  <2>1. k[3] = ((p - HEADER_LEN) \div AES_BLOCK) + 2
    BY <1>5, <1>6 DEF KeyStream
  <2>2. (p - HEADER_LEN) \div AES_BLOCK \in Nat
    BY <1>2, <1>5, Widths, SMT
  <2> QED BY <1>1, <2>1, <2>2
<1>7. CASE ~(p < HEADER_LEN + n)
  <2>1. k[4] = p - HEADER_LEN - n
    BY <1>5, <1>7 DEF KeyStream
  <2> QED BY <1>1, <1>2, <2>1, Widths
<1> QED BY <1>6, <1>7

\* The parts of a sealed frame, by position in the part.
LEMMA SealedParts ==
  ASSUME NEW n \in Nat, NEW i \in Nat
  PROVE  /\ i < n => SealedByte(n, HEADER_LEN + i) = CipherByte(i)
         /\ SealedByte(n, HEADER_LEN + n + i) = SealedTag(n, i)
<1>1. ASSUME NEW p \in Nat, p = HEADER_LEN + i, i < n
      PROVE  SealedByte(n, p) = CipherByte(i)
  <2>1. ~(p < HEADER_LEN) /\ p < HEADER_LEN + n /\ p - HEADER_LEN = i
    BY <1>1, Widths
  <2> QED BY <2>1 DEF SealedByte
<1>2. ASSUME NEW p \in Nat, p = HEADER_LEN + n + i
      PROVE  SealedByte(n, p) = SealedTag(n, i)
  <2>1. ~(p < HEADER_LEN) /\ ~(p < HEADER_LEN + n) /\ p - HEADER_LEN - n = i
    BY <1>2, Widths
  <2> QED BY <2>1 DEF SealedByte
<1>3. HEADER_LEN + i \in Nat /\ HEADER_LEN + n + i \in Nat
  BY Widths
<1> QED BY <1>1, <1>2, <1>3

\* An open of the intact frame reads what the seal wrote.
LEMMA IntactReads ==
  ASSUME NoWrap, KInv, phase \in {"verify", "decrypt"}, stored = plaintext_len
  PROVE  /\ Sealable(plaintext_len)
         /\ at(0) = {<<"version">>} /\ iv = sealed_iv
         /\ \A q \in 0 .. plaintext_len - 1 : at(HEADER_LEN + q) = CipherByte(q)
         /\ \A i \in 0 .. TAG_LEN - 1 : at(tag_position + i) = tag_byte(i)
<1> DEFINE n == plaintext_len
<1>1. Sealable(n) /\ Intact(n)
  <2>1. stored # -1
    BY ReadInside
  <2> QED BY <2>1 DEF KInv, Contents
<1>2. n \in Lengths /\ n \in Nat /\ tag_position = HEADER_LEN + n
  BY ReadInside
<1>3. ASSUME NEW p \in Nat, p < FrameEnd(n) PROVE at(p) = SealedByte(n, p)
  BY <1>1, <1>3, ReadInside DEF Intact
<1> HIDE DEF n
<1>4. ASSUME NEW p \in Nat, p < HEADER_LEN PROVE at(p) = HeaderByte(p)
  BY <1>2, <1>3, <1>4, Widths DEF FrameEnd, SealedByte
<1>5. at(0) = {<<"version">>} /\ iv = sealed_iv
  BY <1>4, Widths DEF HeaderByte, iv, sealed_iv
<1>6. ASSUME NEW q \in 0 .. n - 1 PROVE at(HEADER_LEN + q) = CipherByte(q)
  <2>1. q \in Nat /\ HEADER_LEN + q \in Nat /\ HEADER_LEN + q < FrameEnd(n)
    BY <1>2, Widths DEF FrameEnd
  <2> QED BY <1>2, <1>3, <2>1, SealedParts
<1>7. ASSUME NEW i \in 0 .. TAG_LEN - 1 PROVE at(HEADER_LEN + n + i) = tag_byte(i)
  <2>1. i \in Nat /\ HEADER_LEN + n + i \in Nat /\ HEADER_LEN + n + i < FrameEnd(n)
    BY <1>2, Widths DEF FrameEnd
  <2>2. at(HEADER_LEN + n + i) = SealedTag(n, i)
    BY <1>2, <1>3, <2>1, SealedParts
  <2> DEFINE h == <<[q \in 0 .. n - 1 |-> CipherByte(q)], n>>
  <2>3. tag_byte(i) = {<<"key", sealed_iv, 1, i>>, <<"ghash", h, i>>}
    <3>1. tag_byte(i) = {<<"key", iv, 1, i>>,
                         <<"ghash", <<[q \in 0 .. n - 1 |-> at(HEADER_LEN + q)], n>>, i>>}
      BY <1>2, TagRead DEF n
    <3>2. [q \in 0 .. n - 1 |-> at(HEADER_LEN + q)] = [q \in 0 .. n - 1 |-> CipherByte(q)]
      BY <1>6
    <3> QED BY <1>5, <3>1, <3>2
  <2>4. sealed_iv = iv_of(seals)
    BY DEF sealed_iv, iv_of
  <2>5. SealedTag(n, i) = bxor({<<"key", sealed_iv, 1, i>>}, {<<"ghash", h, i>>})
    BY <2>4 DEF SealedTag, KeyStream
  <2>6. <<"key", sealed_iv, 1, i>>[1] # <<"ghash", h, i>>[1]
    OBVIOUS
  <2> HIDE DEF h
  <2> QED BY <2>2, <2>3, <2>5, <2>6 DEF bxor
<1> QED BY <1>1, <1>2, <1>5, <1>6, <1>7 DEF n

\* A flip leaves no byte as it was.
LEMMA FlippedDiffers ==
  ASSUME NEW b
  PROVE  /\ Flipped(b) # b
         /\ <<"flip">> \notin b => <<"flip">> \in Flipped(b)
BY DEF Flipped, bxor

\* A verification that succeeds has read the header of the last seal, and
\* its tag where it looked for one.
LEMMA VerdictPlace ==
  ASSUME NoWrap, KInv, phase = "verify", verdict = 1, NEW n \in Lengths, seals > 0,
         Sealable(n), Stale(n), NEW x \in Bytes \cup {-1},
         \A p \in Bytes : p < FrameEnd(n) =>
           frame[p] = IF p = x THEN Flipped(SealedByte(n, p)) ELSE SealedByte(n, p)
  PROVE  /\ plaintext_len = n
         /\ iv = iv_of(seals)
         /\ x = -1 \/ x >= HEADER_LEN
<1> DEFINE L == plaintext_len
<1>1. L \in Lengths /\ L \in Nat /\ n \in Nat /\ tag_position = HEADER_LEN + L
  BY ReadInside, Sizes
<1>2. \A p \in Nat : p < FrameEnd(L) => p \in Bytes /\ at(p) = frame[p]
  BY ReadInside
<1>3. /\ at(0) = {<<"version">>}
      /\ \A i \in 0 .. TAG_LEN - 1 : at(tag_position + i) = tag_byte(i)
  BY DEF verdict
<1> HIDE DEF L
<1>4. ASSUME NEW p \in Nat, p < HEADER_LEN
      PROVE  /\ p \in Bytes
             /\ at(p) = IF p = x THEN Flipped(HeaderByte(p)) ELSE HeaderByte(p)
  <2>1. p < FrameEnd(L) /\ p < FrameEnd(n)
    BY <1>1, <1>4, Widths DEF FrameEnd
  <2>2. p \in Bytes /\ at(p) = frame[p]
    BY <1>2, <2>1
  <2> QED BY <1>4, <2>1, <2>2, Widths DEF SealedByte
<1>5. HEADER_LEN + L \in Bytes /\ <<"key", iv, 1, 0>> \in frame[HEADER_LEN + L]
  <2>1. HEADER_LEN + L \in Nat /\ HEADER_LEN + L < FrameEnd(L)
    BY <1>1, Widths DEF FrameEnd
  <2>2. 0 \in 0 .. TAG_LEN - 1 /\ HEADER_LEN + L + 0 = HEADER_LEN + L
    BY <1>1, Widths
  <2>3. at(HEADER_LEN + L) = tag_byte(0)
    BY <1>1, <1>3, <2>2
  <2>4. <<"key", iv, 1, 0>> \in tag_byte(0)
    BY <1>1, TagRead DEF L
  <2> QED BY <1>2, <2>1, <2>3, <2>4
<1>6. PICK s \in 1 .. seals : iv = iv_of(s)
  <2>1. KeysOf(frame[HEADER_LEN + L], seals)
    BY <1>5, FrameKeys DEF KInv, IInv
  <2>2. <<"key", iv, 1, 0>>[1] = "key" /\ <<"key", iv, 1, 0>>[2] = iv
    OBVIOUS
  <2> QED BY <1>5, <2>1, <2>2 DEF KeysOf
<1>7. \A p \in 1 .. HEADER_LEN - 1 : at(p) = {<<"iv", s, p>>}
  BY <1>6 DEF iv, iv_of
<1>8. ASSUME x \in Nat, x < HEADER_LEN PROVE FALSE
  <2>1. at(x) = Flipped(HeaderByte(x))
    BY <1>4, <1>8
  <2>2. CASE x = 0
    BY <1>3, <2>1, <2>2, FlippedDiffers DEF HeaderByte
  <2>3. CASE x # 0
    <3>1. at(x) = {<<"iv", s, x>>} /\ HeaderByte(x) = {<<"iv", seals, x>>}
      BY <1>7, <1>8, <2>3, Widths DEF HeaderByte
    <3>2. <<"flip">>[1] = "flip" /\ <<"iv", s, x>>[1] = "iv" /\ <<"iv", seals, x>>[1] = "iv"
      OBVIOUS
    <3>3. <<"flip">> \in at(x)
      BY <2>1, <3>1, <3>2, FlippedDiffers
    <3> QED BY <3>1, <3>2, <3>3
  <2> QED BY <2>2, <2>3
<1>9. s = seals
  <2>1. 1 < HEADER_LEN /\ 1 \in 1 .. HEADER_LEN - 1
    BY Widths
  <2>0. x # 1
    BY <1>8, <2>1
  <2>2. at(1) = HeaderByte(1) /\ at(1) = {<<"iv", s, 1>>}
    <3>1. 1 \in Nat
      OBVIOUS
    <3> QED BY <1>4, <1>7, <2>0, <2>1, <3>1
  <2>3. <<"iv", seals, 1>> = <<"iv", s, 1>>
    <3>1. HeaderByte(1) = {<<"iv", seals, 1>>}
      BY DEF HeaderByte
    <3>2. \A a, b : {a} = {b} => a = b
      BY Zenon
    <3> QED BY <2>2, <3>1, <3>2
  <2> QED BY <2>3
<1>10. HEADER_LEN + L = HEADER_LEN + n
  <2>1. KeyStream(seals, 1, 0) \in frame[HEADER_LEN + L]
    BY <1>5, <1>6, <1>9 DEF KeyStream
  <2> QED BY <1>5, <2>1, TagPlace
<1>11. x = -1 \/ x >= HEADER_LEN
  BY <1>8, Widths DEF Bytes
<1> QED BY <1>1, <1>6, <1>9, <1>10, <1>11, Widths DEF L

\* A frame that was damaged anywhere is refused.
LEMMA DamagedRefused ==
  ASSUME NoWrap, KInv, phase = "verify", NEW n \in Lengths, NEW x \in Bytes,
         seals > 0, Sealable(n), x < FrameEnd(n), Damaged(n, x)
  PROVE  verdict # 1
<1> SUFFICES ASSUME verdict = 1 PROVE FALSE
  OBVIOUS
<1> DEFINE h == <<[q \in 0 .. n - 1 |-> at(HEADER_LEN + q)], n>>
           c == <<[q \in 0 .. n - 1 |-> CipherByte(q)], n>>
<1>1. plaintext_len = n /\ iv = iv_of(seals) /\ x >= HEADER_LEN
  <2>1. Stale(n) /\ x # -1
    BY DEF Damaged, Bytes
  <2> QED BY <2>1, VerdictPlace, Widths DEF Damaged
<1>2. n \in Nat /\ x \in Nat
  BY Sizes, Widths DEF Bytes
<1>3. \A i \in 0 .. TAG_LEN - 1 : at(HEADER_LEN + n + i) = tag_byte(i)
  BY <1>1, ReadInside DEF verdict
<1>4. \A p \in Nat : p < FrameEnd(n) => p \in Bytes /\ at(p) = frame[p]
  BY <1>1, ReadInside
<1>5. ASSUME NEW i PROVE tag_byte(i) = {KeyStream(seals, 1, i), <<"ghash", h, i>>}
  BY <1>1, TagRead DEF KeyStream
<1>6. ASSUME NEW i PROVE SealedTag(n, i) = {KeyStream(seals, 1, i), <<"ghash", c, i>>}
  <2>1. KeyStream(seals, 1, i)[1] = "key" /\ <<"ghash", c, i>>[1] = "ghash"
    BY DEF KeyStream
  <2>2. SealedTag(n, i) = bxor({KeyStream(seals, 1, i)}, {<<"ghash", c, i>>})
    BY DEF SealedTag
  <2> HIDE DEF c
  <2> QED BY <2>1, <2>2 DEF bxor
<1>7. at(x) = Flipped(SealedByte(n, x))
  BY <1>2, <1>4 DEF Damaged
<1>8. CASE x < HEADER_LEN + n
  <2>1. PICK q \in Nat : x = HEADER_LEN + q /\ q < n /\ q \in 0 .. n - 1
    <3>1. x - HEADER_LEN \in Nat /\ x = HEADER_LEN + (x - HEADER_LEN) /\ x - HEADER_LEN < n
      BY <1>1, <1>2, <1>8, Widths
    <3> QED BY <1>2, <3>1
  <2>2. at(HEADER_LEN + q) # CipherByte(q)
    BY <1>2, <1>7, <2>1, SealedParts, FlippedDiffers
  <2>3. h # c
    <3>1. h[1][q] = at(HEADER_LEN + q) /\ c[1][q] = CipherByte(q)
      BY <2>1
    <3> QED BY <2>2, <3>1
  <2>4. at(HEADER_LEN + n + 0) = SealedTag(n, 0)
    <3>1. /\ HEADER_LEN + n + 0 \in Nat /\ HEADER_LEN + n + 0 < FrameEnd(n)
          /\ HEADER_LEN + n + 0 # x
      BY <1>2, <1>8, Widths DEF FrameEnd
    <3>2. at(HEADER_LEN + n + 0) = SealedByte(n, HEADER_LEN + n + 0)
      BY <1>4, <3>1 DEF Damaged
    <3> QED BY <1>2, <3>2, SealedParts
  <2>5. tag_byte(0) = SealedTag(n, 0)
    <3>1. 0 \in 0 .. TAG_LEN - 1
      BY Widths
    <3> QED BY <1>3, <2>4, <3>1
  <2>6. <<"ghash", h, 0>> \in {KeyStream(seals, 1, 0), <<"ghash", c, 0>>}
    BY <1>5, <1>6, <2>5
  <2> HIDE DEF h, c
  <2>7. <<"ghash", h, 0>>[1] = "ghash" /\ KeyStream(seals, 1, 0)[1] = "key"
    BY DEF KeyStream
  <2>8. <<"ghash", h, 0>> = <<"ghash", c, 0>>
    BY <2>6, <2>7
  <2> QED BY <2>3, <2>8
<1>9. CASE ~(x < HEADER_LEN + n)
  <2>1. PICK i \in Nat : x = HEADER_LEN + n + i /\ i \in 0 .. TAG_LEN - 1
    <3>1. /\ x - HEADER_LEN - n \in Nat /\ x - HEADER_LEN - n < TAG_LEN
          /\ x = HEADER_LEN + n + (x - HEADER_LEN - n)
      BY <1>2, <1>9, Widths DEF FrameEnd
    <3> QED BY <3>1, Widths
  <2>2. tag_byte(i) = Flipped(SealedTag(n, i))
    BY <1>2, <1>3, <1>7, <2>1, SealedParts
  <2> HIDE DEF h, c
  <2>3. /\ <<"flip">>[1] = "flip" /\ KeyStream(seals, 1, i)[1] = "key"
        /\ <<"ghash", h, i>>[1] = "ghash" /\ <<"ghash", c, i>>[1] = "ghash"
    BY DEF KeyStream
  <2>4. <<"flip">> \notin tag_byte(i) /\ <<"flip">> \notin SealedTag(n, i)
    BY <1>5, <1>6, <2>3
  <2> QED BY <2>2, <2>4, FlippedDiffers
<1> QED BY <1>8, <1>9

LEMMA VerdictExact ==
  ASSUME NoWrap, KInv, phase = "verify"
  PROVE  verdict = 1 <=> stored = plaintext_len
<1>1. ASSUME stored = plaintext_len PROVE verdict = 1
  BY <1>1, IntactReads DEF verdict
<1>2. ASSUME verdict = 1 PROVE stored = plaintext_len
  <2>1. CASE seals = 0 /\ \A p \in Bytes : KeysOf(frame[p], 0)
    <3>1. HEADER_LEN + plaintext_len \in Bytes
      BY ReadInside, Widths DEF FrameEnd
    <3>2. <<"key", iv, 1, 0>> \in frame[HEADER_LEN + plaintext_len]
      <4>1. /\ plaintext_len \in Nat /\ plaintext_len \in Lengths
            /\ 0 \in 0 .. TAG_LEN - 1
            /\ HEADER_LEN + plaintext_len + 0 = HEADER_LEN + plaintext_len
            /\ HEADER_LEN + plaintext_len \in Nat
            /\ HEADER_LEN + plaintext_len < FrameEnd(plaintext_len)
        BY ReadInside, Widths DEF FrameEnd
      <4>2. at(HEADER_LEN + plaintext_len) = tag_byte(0)
        BY <1>2, <4>1, ReadInside DEF verdict
      <4>3. at(HEADER_LEN + plaintext_len) = frame[HEADER_LEN + plaintext_len]
        BY <4>1, ReadInside
      <4> QED BY <4>1, <4>2, <4>3, TagRead
    <3>3. <<"key", iv, 1, 0>>[1] = "key"
      OBVIOUS
    <3> QED BY <2>1, <3>1, <3>2, <3>3 DEF KeysOf
  <2>2. CASE seals > 0 /\ Sealable(stored) /\ Intact(stored)
    <3>1. stored \in Lengths /\ Stale(stored) /\ -1 \notin Bytes
      BY <2>2, Widths DEF Sealable, Intact, Bytes
    <3> QED BY <1>2, <2>2, <3>1, VerdictPlace DEF Intact
  <2>3. CASE /\ seals > 0
             /\ \E n \in Lengths : \E x \in Bytes :
                  Sealable(n) /\ x < FrameEnd(n) /\ Damaged(n, x)
    BY <1>2, <2>3, DamagedRefused
  <2> QED BY <2>1, <2>2, <2>3 DEF KInv, Contents
<1> QED BY <1>1, <1>2

LEMMA VerifyKeys ==
  ASSUME NoWrap, KInv, IInv', verify_tag_kernel
  PROVE  KInv'
<1>1. Contents'
  BY ContentsKept DEF verify_tag_kernel, KInv
<1>2. auth_ok' = 1 <=> stored' = plaintext_len'
  BY VerdictExact DEF verify_tag_kernel
<1>3. ASSUME NEW p \in Bytes PROVE plain'[p] = Decrypting(p)'
  <2>1. plain'[p] = before'[p]
    BY <1>3 DEF verify_tag_kernel, KInv, IInv
  <2>2. ASSUME p < plaintext_len PROVE p \div AES_BLOCK \in todo'
    <3>1. p \in Nat /\ plaintext_len \in Lengths /\ plaintext_len \in Nat
      BY <1>3, Sizes DEF Bytes, verify_tag_kernel, KInv, IInv
    <3>2. /\ p \div AES_BLOCK \in Nat
          /\ p \div AES_BLOCK < (plaintext_len + AES_BLOCK - 1) \div AES_BLOCK
      BY <2>2, <3>1, BlocksCover, Widths
    <3>3. /\ block_count(plaintext_len) = (plaintext_len + AES_BLOCK - 1) \div AES_BLOCK
          /\ block_count(plaintext_len) \in Nat
      BY <3>1, Sizes
    <3>4. p \div AES_BLOCK \in 0 .. block_count(plaintext_len) - 1
      BY <3>2, <3>3
    <3> QED BY <3>1, <3>3, <3>4, LaunchCovers DEF verify_tag_kernel
  <2> QED BY <2>1, <2>2 DEF Decrypting, verify_tag_kernel
<1> QED BY <1>1, <1>2, <1>3 DEF verify_tag_kernel, KInv

\* What the cipher adds twice is gone.
LEMMA Decrypted ==
  ASSUME NEW i
  PROVE  bxor(CipherByte(i),
              {<<"key", sealed_iv, (i \div AES_BLOCK) + 2, i % AES_BLOCK>>}) = text(i)
<1> DEFINE k == <<"key", sealed_iv, (i \div AES_BLOCK) + 2, i % AES_BLOCK>>
<1>1. \A a, b, c, x, y : <<"key", a, b, c>>[1] # <<"text", x, y>>[1]
  OBVIOUS
<1>2. k \notin text(i)
  BY <1>1 DEF text
<1>3. CipherByte(i) = text(i) \cup {k}
  BY DEF CipherByte
<1> HIDE DEF k
<1>4. bxor(text(i) \cup {k}, {k}) = text(i)
  BY <1>2 DEF bxor
<1> QED BY <1>3, <1>4 DEF k

LEMMA DecryptThreadKeys ==
  ASSUME NoWrap, KInv, IInv', NEW t \in todo, DecryptThread(t)
  PROVE  KInv'
<1>1. Contents'
  BY ContentsKept DEF DecryptThread, KInv
<1>2. ASSUME auth_ok = 1, NEW p \in Bytes PROVE plain'[p] = Decrypting(p)'
  <2>1. /\ Sealable(plaintext_len) /\ iv = sealed_iv
        /\ \A q \in 0 .. plaintext_len - 1 : at(HEADER_LEN + q) = CipherByte(q)
    BY <1>2, IntactReads DEF DecryptThread, KInv
  <2>2. /\ plaintext_len \in Lengths /\ plaintext_len \in Nat
        /\ block_count(plaintext_len) \in Nat
        /\ block_count(plaintext_len) <= COUNTER_WRAP - 2
    BY <2>1, Sizes DEF Sealable
  <2>3. p \in Nat /\ t \in Nat
    BY <1>2, <2>2, LaunchCovers DEF Bytes, KInv, IInv, TypeOK
  <2>4. plain[p] = Decrypting(p) /\ p \in DOMAIN plain
    BY <1>2 DEF DecryptThread, KInv, IInv, TypeOK, Bytes
  <2>5. plain'[p] = IF p \notin block(t) \/ ctr(t) > COUNTER_WRAP - 1 THEN plain[p]
                    ELSE bxor(at(HEADER_LEN + p), stream_block(ctr(t), p % AES_BLOCK))
    BY <1>2, <2>4 DEF DecryptThread, ctr_crypt_kernel
  <2>6. Decrypting(p)' = IF p < plaintext_len /\ p \div AES_BLOCK \notin todo \ {t}
                         THEN text(p) ELSE before[p]
    BY DEF Decrypting, DecryptThread, text
  <2>7. CASE p \notin block(t)
    <3>1. plain'[p] = Decrypting(p)
      BY <2>4, <2>5, <2>7
    <3>2. ~(p \in 0 .. plaintext_len - 1 /\ p \div AES_BLOCK = t)
      BY <2>2, <2>3, <2>7, BlockBytes
    <3> QED BY <2>2, <2>3, <2>6, <3>1, <3>2 DEF Decrypting
  <2>8. CASE p \in block(t)
    <3>1. p \in 0 .. plaintext_len - 1 /\ p \div AES_BLOCK = t
      BY <2>2, <2>3, <2>8, BlockBytes
    <3>2. t < block_count(plaintext_len)
      BY <2>8 DEF block
    <3>3. ctr(t) = t + 2 /\ ctr(t) \in Nat /\ ctr(t) < COUNTER_WRAP
      BY <2>2, <2>3, <3>2, Widths DEF ctr
    <3>4. ctr(t) % COUNTER_WRAP = t + 2 /\ ~(ctr(t) > COUNTER_WRAP - 1)
      BY <3>3, Widths, SMT
    <3>5. plain'[p] = bxor(CipherByte(p), stream_block(ctr(t), p % AES_BLOCK))
      BY <2>1, <2>5, <2>8, <3>1, <3>4
    <3>6. stream_block(ctr(t), p % AES_BLOCK)
            = {<<"key", sealed_iv, (p \div AES_BLOCK) + 2, p % AES_BLOCK>>}
      BY <2>1, <3>1, <3>4 DEF stream_block
    <3>7. plain'[p] = text(p)
      BY <3>5, <3>6, Decrypted
    <3> QED BY <2>2, <2>3, <2>6, <3>1, <3>7
  <2> QED BY <2>7, <2>8
<1> QED BY <1>1, <1>2 DEF DecryptThread, KInv

-----------------------------------------------------------------------------
LEMMA FlipKeys ==
  ASSUME NoWrap, KInv, IInv', NEW x \in DOMAIN frame, Flip(x)
  PROVE  KInv'
<1> DEFINE n == stored
<1>1. seals > 0 /\ Sealable(n) /\ Intact(n)
  <2>1. Contents /\ stored # -1
    BY IdleContents DEF Flip
  <2> QED BY <2>1 DEF Contents
<1>2. x \in Bytes /\ DOMAIN frame = Bytes
  BY DEF KInv, IInv, TypeOK, Bytes
<1>3. n \in Lengths /\ n \in Nat /\ x < FrameEnd(n)
  <2>1. n \in Lengths /\ x < frame_size(n)
    BY <1>1 DEF Flip, Sealable
  <2>2. n \in Nat /\ frame_size(n) = n + HEADER_LEN + TAG_LEN
    BY <2>1, Sizes
  <2> QED BY <2>1, <2>2, Widths DEF FrameEnd
<1>4. \A p \in Bytes : frame'[p] = IF p = x THEN Flipped(frame[p]) ELSE frame[p]
  BY <1>2 DEF Flip, Flipped
<1>5. seals' = seals /\ stored' = -1 /\ phase' = "idle"
  BY DEF Flip
<1> HIDE DEF n
<1>6. Contents'
  <2>1. PICK k \in Lengths : k = n
    BY <1>3
  <2>2. ASSUME NEW p PROVE SealedByte(k, p)' = SealedByte(k, p)
    BY <1>5 DEF SealedByte, SealedTag, KeyStream, HeaderByte, CipherByte, sealed_iv, text
  <2>3. Sealable(k)' /\ x < FrameEnd(k)
    BY <1>1, <1>3, <2>1 DEF Sealable, block_count
  <2>4. \A p \in Bytes : p < FrameEnd(k) =>
          frame'[p] = IF p = x THEN Flipped(SealedByte(k, p)) ELSE SealedByte(k, p)
    BY <1>1, <1>4, <2>1 DEF Intact
  <2>5. \A p \in Bytes : p >= FrameEnd(k) => KeysOf(frame'[p], seals - 1)
    <3> SUFFICES ASSUME NEW p \in Bytes, p >= FrameEnd(k)
                 PROVE  KeysOf(frame'[p], seals - 1)
      OBVIOUS
    <3>1. p # x
      BY <1>2, <1>3, <2>1, Widths DEF Bytes, FrameEnd
    <3> QED BY <1>1, <1>4, <2>1, <3>1 DEF Intact, Stale
  <2>6. (Damaged(k, x))'
    BY <1>5, <2>2, <2>4, <2>5 DEF Damaged, Stale
  <2> QED BY <1>1, <1>2, <1>5, <2>3, <2>6 DEF Contents
<1> QED BY <1>5, <1>6 DEF KInv

LEMMA InitKeys ==
  ASSUME Init
  PROVE  KInv
<1>1. IInv
  BY InitIInv
<1>2. ASSUME NEW p \in Bytes PROVE KeysOf(frame[p], 0)
  <2>1. frame[p] = {<<"old", p>>} /\ <<"old", p>>[1] = "old"
    BY DEF Init, Bytes
  <2> QED BY <2>1 DEF KeysOf
<1> QED BY <1>1, <1>2 DEF Init, KInv, Contents

LEMMA NextKeys ==
  ASSUME NoWrap, KInv, [Next]_vars
  PROVE  KInv'
<1>0. IInv'
  BY NextIInv DEF KInv
<1>1. CASE UNCHANGED vars
  <2>1. Contents => Contents'
    BY <1>1, ContentsKept DEF vars
  <2>2. ASSUME NEW p PROVE Decrypting(p)' = Decrypting(p)
    BY <1>1 DEF vars, Decrypting, text
  <2> QED BY <1>0, <1>1, <2>1, <2>2 DEF vars, KInv
<1>2. ASSUME NEW n \in Lengths, NEW cap \in Capacities,
             CallSeal(n, cap) \/ CallOpen(n, cap)
      PROVE  KInv'
  BY <1>0, <1>2, CallSealKeys, CallOpenKeys
<1>3. CASE \/ write_frame_header_kernel
           \/ \E t \in todo : EncryptThread(t)
           \/ finalize_tag_kernel
  BY <1>0, <1>3, SealKernelsKeys
<1>4. ASSUME NEW t \in todo, DecryptThread(t) PROVE KInv'
  BY <1>0, <1>4, DecryptThreadKeys
<1>5. CASE verify_tag_kernel
  BY <1>0, <1>5, VerifyKeys
<1>6. ASSUME NEW x \in DOMAIN frame, Flip(x) PROVE KInv'
  BY <1>0, <1>6, FlipKeys
<1> QED BY <1>1, <1>2, <1>3, <1>4, <1>5, <1>6 DEF Next

\* What the memory of the frame holds: nothing of a key stream, the intact
\* frame of the last seal, or that frame with one byte changed, and behind it
\* only what earlier seals left.
THEOREM KeyInvariance == ASSUME NoWrap PROVE Spec => []KInv
<1>1. Init => KInv
  BY InitKeys
<1>2. KInv /\ [Next]_vars => KInv'
  BY NextKeys
<1> QED BY <1>1, <1>2, PTL DEF Spec

\* While a seal encrypts and when it is done, a key-stream byte of its IV in
\* the frame is the one of its position.
LEMMA KeyAtPosition ==
  ASSUME NoWrap, KInv, phase \in {"encrypt", "sealed"},
         NEW p \in Bytes, NEW k \in frame[p], k[1] = "key", k[2] = iv
  PROVE  /\ p >= HEADER_LEN
         /\ k = IF p < HEADER_LEN + plaintext_len
                THEN KeyStream(seals, ((p - HEADER_LEN) \div AES_BLOCK) + 2,
                               (p - HEADER_LEN) % AES_BLOCK)
                ELSE KeyStream(seals, 1, p - HEADER_LEN - plaintext_len)
<1> DEFINE n == plaintext_len
<1>1. n \in Lengths /\ n \in Nat /\ p \in Nat /\ seals \in Nat
  BY Sizes DEF KInv, IInv, Accepted, TypeOK, Bytes
<1>2. sealed_iv = iv_of(seals)
  BY DEF sealed_iv, iv_of
<1>3. ASSUME NEW b, k \in b, KeysOf(b, seals - 1), iv = sealed_iv PROVE FALSE
  <2>1. PICK s \in 1 .. seals - 1 : iv = iv_of(s)
    BY <1>3 DEF KeysOf
  <2>2. s = seals
    BY <1>2, <1>3, <2>1, IvInjective
  <2> QED BY <1>1, <2>1, <2>2
<1>4. ASSUME k \in SealedByte(n, p)
      PROVE  /\ p >= HEADER_LEN
             /\ k = IF p < HEADER_LEN + n
                    THEN KeyStream(seals, ((p - HEADER_LEN) \div AES_BLOCK) + 2,
                                   (p - HEADER_LEN) % AES_BLOCK)
                    ELSE KeyStream(seals, 1, p - HEADER_LEN - n)
  BY <1>1, <1>4, SealedKeys
<1>5. CASE phase = "encrypt"
  <2>1. iv = sealed_iv /\ frame[p] = Encrypting(p) /\ KeysOf(before[p], seals - 1)
    BY <1>5, IvRead DEF KInv, IInv
  <2>2. k \in SealedByte(n, p)
    BY <1>3, <2>1 DEF Encrypting, SealedByte
  <2> QED BY <1>4, <2>2
<1>6. CASE phase = "sealed"
  <2>1. Sealable(n) /\ Intact(n)
    <3>1. stored = n /\ stored # -1 /\ Contents
      BY <1>1, <1>6, SealedPhase DEF KInv
    <3> QED BY <3>1 DEF Contents
  <2>2. iv = sealed_iv
    <3>1. /\ capacity \in Capacities /\ FrameEnd(n) <= capacity
      BY <1>6 DEF KInv, IInv, Accepted, FrameEnd
    <3>2. capacity \in Nat /\ capacity <= Memory
      <4>1. capacity \in 0 .. Memory
        BY <3>1, WidthsAssumption
      <4> QED BY <4>1, Widths
    <3>3. \A i \in 1 .. HEADER_LEN - 1 : at(i) = HeaderByte(i)
      <4> TAKE i \in 1 .. HEADER_LEN - 1
      <4>1. i \in Bytes /\ i < capacity /\ i < FrameEnd(n) /\ i < HEADER_LEN
        BY <1>1, <3>1, <3>2, Widths DEF Bytes, FrameEnd
      <4> QED BY <2>1, <4>1 DEF Intact, SealedByte, at
    <3> QED BY <3>3 DEF iv, sealed_iv, HeaderByte
  <2>3. CASE p < FrameEnd(n)
    BY <1>4, <2>1, <2>3 DEF Intact
  <2>4. CASE ~(p < FrameEnd(n))
    <3>1. KeysOf(frame[p], seals - 1)
      BY <1>1, <2>1, <2>4, Widths DEF Intact, Stale, FrameEnd
    <3> QED BY <1>3, <2>2, <3>1
  <2> QED BY <2>3, <2>4
<1> QED BY <1>5, <1>6

LEMMA DivMod ==
  ASSUME NEW d \in Nat \ {0}, NEW a \in Nat, NEW b \in Nat,
         a \div d = b \div d, a % d = b % d
  PROVE  a = b
<1>1. a = ((a \div d) * d) + (a % d)
  BY SMT
<1>2. b = ((b \div d) * d) + (b % d)
  BY SMT
<1> QED BY <1>1, <1>2

\* No byte of the key stream of an IV is used for two bytes of a frame, for
\* every block size, counter width and accepted length: what the limit on the
\* blocks of a seal and the counter of the first data block are for.
THEOREM StreamUsedOnce == ASSUME NoWrap PROVE Spec => []KeystreamOnce
<1>1. ASSUME NoWrap, KInv PROVE KeystreamOnce
  <2> SUFFICES ASSUME phase \in {"encrypt", "sealed"},
                      NEW p \in Bytes, NEW q \in Bytes, NEW k \in frame[p] \cap frame[q],
                      k[1] = "key", k[2] = iv
               PROVE  p = q
    BY DEF KeystreamOnce, Bytes
  <2> DEFINE n == plaintext_len
  <2>1. n \in Nat /\ p \in Nat /\ q \in Nat
    BY Sizes, <1>1 DEF KInv, IInv, Accepted, Bytes
  <2>2. ASSUME NEW x \in {p, q}
        PROVE  /\ x >= HEADER_LEN
               /\ k = IF x < HEADER_LEN + n
                      THEN KeyStream(seals, ((x - HEADER_LEN) \div AES_BLOCK) + 2,
                                     (x - HEADER_LEN) % AES_BLOCK)
                      ELSE KeyStream(seals, 1, x - HEADER_LEN - n)
    BY <1>1, <2>2, KeyAtPosition
  <2> HIDE DEF n
  <2>3. ASSUME NEW x \in {p, q}
        PROVE  /\ k[3] = 1 <=> x >= HEADER_LEN + n
               /\ x < HEADER_LEN + n =>
                    /\ k[3] = ((x - HEADER_LEN) \div AES_BLOCK) + 2
                    /\ k[4] = (x - HEADER_LEN) % AES_BLOCK
               /\ x >= HEADER_LEN + n => k[4] = x - HEADER_LEN - n
    <3>1. x \in Nat /\ x - HEADER_LEN \in Nat
      BY <2>1, <2>2, <2>3, Widths
    <3>2. (x - HEADER_LEN) \div AES_BLOCK \in Nat
      BY <3>1, Widths, SMT
    <3>3. \A s, c, j : KeyStream(s, c, j)[3] = c /\ KeyStream(s, c, j)[4] = j
      BY DEF KeyStream
    <3> QED BY <2>1, <2>2, <2>3, <3>1, <3>2, <3>3, Widths
  <2>4. CASE k[3] = 1
    BY <2>1, <2>3, <2>4, Widths
  <2>5. CASE k[3] # 1
    <3>1. /\ p - HEADER_LEN \in Nat /\ q - HEADER_LEN \in Nat
          /\ (p - HEADER_LEN) \div AES_BLOCK \in Nat
          /\ (q - HEADER_LEN) \div AES_BLOCK \in Nat
      BY <2>1, <2>2, Widths, SMT
    <3>2. p < HEADER_LEN + n /\ q < HEADER_LEN + n
      BY <2>1, <2>3, <2>5, Widths
    <3>3. /\ (p - HEADER_LEN) \div AES_BLOCK = (q - HEADER_LEN) \div AES_BLOCK
          /\ (p - HEADER_LEN) % AES_BLOCK = (q - HEADER_LEN) % AES_BLOCK
      BY <2>3, <3>1, <3>2
    <3>4. p - HEADER_LEN = q - HEADER_LEN
      BY <3>1, <3>3, DivMod, Widths
    <3> QED BY <2>1, <3>4, Widths
  <2> QED BY <2>4, <2>5
<1> QED BY <1>1, KeyInvariance, PTL

\* Whatever the widths and sizes, and whatever earlier seals left in the
\* buffer, an open succeeds for the intact frame of that length and no other,
\* and then yields the plaintext of its seal.
THEOREM OpensSucceedExactly == ASSUME NoWrap PROVE Spec => []OpensExact
<1>1. ASSUME NoWrap, KInv PROVE OpensExact
  BY <1>1 DEF KInv, OpensExact, Opened, Decrypting, Bytes
<1> QED BY <1>1, KeyInvariance, PTL

=============================================================================

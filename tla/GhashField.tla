----------------------------- MODULE GhashField -----------------------------
(***************************************************************************)
(* The multiplication of gpu_aesgcm.cu in the field of GHASH, on blocks of *)
(* two words of WORD bits: the bit loop of gf_mul, the table of the        *)
(* squares of H that init_hash_key_kernel fills, and the power of H that   *)
(* gf_pow_from_table takes from it.  The reference is multiplication of    *)
(* polynomials over GF(2) with remainder.  GhashTree builds on the result: *)
(* there a multiplication by a power of H only adds to exponents.          *)
(***************************************************************************)
EXTENDS Integers, FiniteSets, Bitwise

CONSTANTS
  WORD,       \* bits of a machine word (64)
  REDUCTION,  \* what gf_mul adds to the high word for a bit shifted out
  Modulus,    \* exponents of the field polynomial (128, 7, 2, 1, 0)
  POWERS      \* entries of the table (64), bits of an exponent

ASSUME FieldAssumption ==
  /\ WORD \in Nat \ {0} /\ POWERS \in Nat \ {0}
  /\ REDUCTION \in 0 .. 2 ^ WORD - 1
  /\ Modulus \subseteq 0 .. 2 * WORD /\ 2 * WORD \in Modulus

BITS == 2 * WORD

Word == 0 .. 2 ^ WORD - 1

Block128 == [hi : Word, lo : Word]

VARIABLES
  h,        \* the hash key
  n,        \* the exponent asked for
  h_pow2,   \* the table, from index 0
  result, exponent, bit,  \* locals of gf_pow_from_table
  factor, product         \* what is multiplied by the power, and the outcome

vars == <<h, n, h_pow2, result, exponent, bit, factor, product>>

-----------------------------------------------------------------------------
(* gf_mul.                                                                 *)

zero == [hi |-> 0, lo |-> 0]

bxor(a, b) == [hi |-> a.hi ^^ b.hi, lo |-> a.lo ^^ b.lo]

\* Bit i of x, the most significant of the high word first.
bit_of(x, i) ==
  IF i < WORD THEN (x.hi \div 2 ^ (WORD - 1 - i)) % 2
              ELSE (x.lo \div 2 ^ (BITS - 1 - i)) % 2

\* The carry lands one place too high.
\* One place to the right, through both words.
shifted(v) ==
  [hi |-> v.hi \div 2, lo |-> v.lo \div 2 + (v.hi % 2) * 2 ^ (WORD - 1)]

\* The bit is looked at when it has already fallen out.
times_x_after_shift(v) ==
  IF shifted(v).lo % 2 = 1 THEN [shifted(v) EXCEPT !.hi = @ ^^ REDUCTION]
  ELSE shifted(v)

\* The bit that fell out on the right comes back as the field polynomial.
times_x(v) ==
  IF v.lo % 2 = 1 THEN [shifted(v) EXCEPT !.hi = @ ^^ REDUCTION] ELSE shifted(v)

gf_mul(x, y) ==
  LET loop[i \in 0 .. BITS] ==
        IF i = 0 THEN [z |-> zero, v |-> y]
        ELSE [z |-> IF bit_of(x, i - 1) = 1
                    THEN bxor(loop[i - 1].z, loop[i - 1].v) ELSE loop[i - 1].z,
              v |-> times_x(loop[i - 1].v)]
  IN  loop[BITS].z

gf_one == [hi |-> 2 ^ (WORD - 1), lo |-> 0]

-----------------------------------------------------------------------------
\* Every entry is the one before times H.
init_hash_key_linear ==
  LET i == Cardinality(DOMAIN h_pow2) IN
  /\ i < POWERS
  /\ h_pow2' = [k \in 0 .. i |->
                  IF k < i THEN h_pow2[k] ELSE gf_mul(h_pow2[i - 1], h_pow2[0])]
  /\ UNCHANGED <<h, n, result, exponent, bit, factor, product>>

\* init_hash_key_kernel: each entry is the square of the one before.
init_hash_key_kernel ==
  LET i == Cardinality(DOMAIN h_pow2) IN
  /\ i < POWERS
  /\ h_pow2' = [k \in 0 .. i |->
                  IF k < i THEN h_pow2[k] ELSE gf_mul(h_pow2[i - 1], h_pow2[i - 1])]
  /\ UNCHANGED <<h, n, result, exponent, bit, factor, product>>

TableDone == Cardinality(DOMAIN h_pow2) = POWERS

\* One round of gf_pow_from_table.
gf_pow_from_table ==
  /\ TableDone /\ exponent # 0
  /\ result' = IF exponent % 2 = 1 THEN gf_mul(result, h_pow2[bit]) ELSE result
  /\ exponent' = exponent \div 2
  /\ bit' = bit + 1
  /\ UNCHANGED <<h, n, h_pow2, factor, product>>

\* What the GHASH kernels do with the power.
Multiply(y) ==
  /\ TableDone /\ exponent = 0 /\ factor = zero
  /\ factor' = y
  /\ product' = gf_mul(y, result)
  /\ UNCHANGED <<h, n, h_pow2, result, exponent, bit>>

Init ==
  /\ h \in Block128
  /\ n \in 0 .. 2 ^ POWERS - 1
  /\ h_pow2 = [k \in {0} |-> h]
  /\ result = gf_one /\ exponent = n /\ bit = 0
  /\ factor = zero /\ product = zero

Next ==
  \/ init_hash_key_kernel
  \/ gf_pow_from_table
  \/ \E y \in Block128 : Multiply(y)

Spec == Init /\ [][Next]_vars

-----------------------------------------------------------------------------
(* The field: polynomials over GF(2), as the sets of their exponents.      *)

poly(x) == {i \in 0 .. BITS - 1 : bit_of(x, i) = 1}

plus(a, b) == (a \ b) \cup (b \ a)

times(a, b) ==
  {k \in 0 .. 2 * BITS : Cardinality({i \in a : k - i \in b}) % 2 = 1}

\* z is the remainder of a * b.
IsProduct(z, a, b) ==
  \E q \in SUBSET (0 .. BITS - 2) :
    times(poly(a), poly(b)) = plus(times(q, Modulus), poly(z))

Product == [p \in Block128 \X Block128 |->
              CHOOSE z \in Block128 : IsProduct(z, p[1], p[2])]

One == CHOOSE x \in Block128 : poly(x) = {0}

Power[x \in Block128, k \in Nat] ==
  IF k = 0 THEN One ELSE Product[Power[x, k - 1], x]

-----------------------------------------------------------------------------
(* Properties.                                                             *)

\* In every round of gf_pow_from_table the result is H to the bits of n that
\* are done: the entries init_hash_key_kernel squares one from the other are
\* the powers that the bits of the exponent stand for.
PowerLoop == result = Power[h, n - exponent * 2 ^ bit]

\* gf_mul is the multiplication of the field.
MulIsProduct == IsProduct(product, factor, result) \/ factor = zero

=============================================================================

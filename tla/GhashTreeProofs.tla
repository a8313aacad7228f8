--------------------------- MODULE GhashTreeProofs ---------------------------
(***************************************************************************)
(* The parallel GHASH is correct for every block size, segment length,     *)
(* thread count and ciphertext length, and for any sequence of operations  *)
(* on one workspace.                                                       *)
(*                                                                         *)
(* IInv says what every node, written or being computed, hashes; each      *)
(* action of the device keeps it, and at the end of the chain it makes the *)
(* root the GHASH of the standard.  The lemmas before it are the algebra   *)
(* of the two field operations on ranges of terms, and the arithmetic of   *)
(* the two divisions that round up.                                        *)
(***************************************************************************)
EXTENDS GhashTree, TLAPS

\* The code divides rounding up by adding the divisor less one: the quotient
\* is the least number of groups of d that hold n items.
LEMMA CeilDiv ==
  ASSUME NEW n \in Nat, NEW d \in Nat \ {0}
  PROVE  LET q == (n + d - 1) \div d
         IN  q \in Nat /\ n <= q * d /\ (q - 1) * d < n
<1> DEFINE m == n + d - 1
           q == m \div d
<1>1. m \in Nat /\ q \in Int
  BY SMT
<1>2. q * d <= m /\ m < q * d + d
  BY <1>1, SMT
<1>3. q >= 0
  BY <1>1, SMT
<1>4. (q - 1) * d = q * d - d
  BY <1>1, SMT
<1> QED
  BY <1>1, <1>2, <1>3, <1>4, SMT

\* A launch has a thread for each of the items it covers.
LEMMA LaunchCovers ==
  ASSUME NEW n \in Nat
  PROVE  0 .. n - 1 \subseteq launched(n) /\ launched(n) \subseteq Nat
BY CeilDiv, SizesAssumption DEF launched

\* The products of the terms lo .. m - 1, with the exponents they have when
\* the hash ends at term hi - 1.
Products(len, lo, m, hi) ==
  {<<load_ciphertext_term(len, i), hi - i>> : i \in lo .. m - 1}

\* A multiplication by H^k raises every exponent of a range by k.
LEMMA MulShifts ==
  ASSUME NEW len, NEW lo \in Nat, NEW m \in Nat, NEW hi \in Nat, NEW k \in Nat
  PROVE  gf_mul_pow(Products(len, lo, m, hi), k) = Products(len, lo, m, hi + k)
<1> DEFINE t(i) == load_ciphertext_term(len, i)
<1> HIDE DEF t
<1> DEFINE A == {<<t(i), hi - i>> : i \in lo .. m - 1}
           B == {<<t(i), (hi + k) - i>> : i \in lo .. m - 1}
<1>1. ASSUME NEW p \in A PROVE <<p[1], p[2] + k>> \in B
  <2>1. PICK i \in lo .. m - 1 : p = <<t(i), hi - i>>
    OBVIOUS
  <2>2. <<p[1], p[2] + k>> = <<t(i), (hi + k) - i>>
    BY <2>1
  <2> QED BY <2>2
<1>2. ASSUME NEW q \in B PROVE \E p \in A : q = <<p[1], p[2] + k>>
  <2>1. PICK i \in lo .. m - 1 : q = <<t(i), (hi + k) - i>>
    OBVIOUS
  <2>2. <<t(i), hi - i>> \in A /\ (hi - i) + k = (hi + k) - i
    OBVIOUS
  <2>3. q = <<<<t(i), hi - i>>[1], <<t(i), hi - i>>[2] + k>>
    BY <2>1, <2>2
  <2> QED BY <2>2, <2>3
<1>3. {<<p[1], p[2] + k>> : p \in A} = B
  BY <1>1, <1>2
<1> QED BY <1>3 DEF t, gf_mul_pow, Products

\* Two neighbouring ranges, aligned on the same end, have no product in
\* common, so that adding them joins them.
LEMMA XorJoins ==
  ASSUME NEW len, NEW lo \in Nat, NEW m \in Nat, NEW h \in Nat, lo <= m, m <= h
  PROVE  bxor(Products(len, lo, m, h), Products(len, m, h, h))
           = Products(len, lo, h, h)
<1> DEFINE t(i) == load_ciphertext_term(len, i)
<1> HIDE DEF t
<1>1. \A p \in {<<t(i), h - i>> : i \in lo .. m - 1} : p[2] > h - m
  OBVIOUS
<1>2. \A p \in {<<t(i), h - i>> : i \in m .. h - 1} : p[2] <= h - m
  OBVIOUS
<1>3. {<<t(i), h - i>> : i \in lo .. h - 1}
        = {<<t(i), h - i>> : i \in lo .. m - 1}
            \cup {<<t(i), h - i>> : i \in m .. h - 1}
  OBVIOUS
<1>4. \A i, j \in Nat : i > h - m /\ j <= h - m => i # j
  OBVIOUS
<1>5. {<<t(i), h - i>> : i \in lo .. m - 1}
        \cap {<<t(i), h - i>> : i \in m .. h - 1} = {}
  BY <1>1, <1>2
<1> QED BY <1>3, <1>5 DEF t, bxor, Products

\* What the two rounded divisions of a length guarantee.
LEMMA Sizes ==
  ASSUME NEW len \in Nat
  PROVE  /\ cipher_blocks(len) \in Nat
         /\ len <= cipher_blocks(len) * AES_BLOCK
         /\ (cipher_blocks(len) - 1) * AES_BLOCK < len
         /\ total_terms(len) \in Nat \ {0}
         /\ required_nodes(len) \in Nat \ {0}
         /\ total_terms(len) <= required_nodes(len) * GHASH_SEGMENT_BLOCKS
         /\ (required_nodes(len) - 1) * GHASH_SEGMENT_BLOCKS < total_terms(len)
<1>1. /\ cipher_blocks(len) \in Nat
      /\ len <= cipher_blocks(len) * AES_BLOCK
      /\ (cipher_blocks(len) - 1) * AES_BLOCK < len
  BY CeilDiv, SizesAssumption DEF cipher_blocks
<1>2. total_terms(len) \in Nat \ {0}
  BY <1>1 DEF total_terms
<1>3. /\ required_nodes(len) \in Nat
      /\ total_terms(len) <= required_nodes(len) * GHASH_SEGMENT_BLOCKS
      /\ (required_nodes(len) - 1) * GHASH_SEGMENT_BLOCKS < total_terms(len)
  BY <1>2, CeilDiv, SizesAssumption DEF required_nodes
<1>4. required_nodes(len) # 0
  BY <1>2, <1>3, SizesAssumption
<1> QED
  BY <1>1, <1>2, <1>3, <1>4

\* Every term of the hash has the type of a term.
LEMMA TermType ==
  ASSUME NEW len \in Nat, NEW i \in Nat
  PROVE  load_ciphertext_term(len, i) \in Term
<1>1. i * AES_BLOCK \in Nat /\ AES_BLOCK \in Nat
  BY SizesAssumption
<1>2. {p \in i * AES_BLOCK .. i * AES_BLOCK + AES_BLOCK - 1 : p < len}
        \in SUBSET Nat
  BY <1>1
<1> QED
  BY <1>2 DEF load_ciphertext_term, Term

\* Field elements are closed under multiplication by a power of H.
LEMMA MulType ==
  ASSUME NEW a \in Element, NEW e \in Nat
  PROVE  gf_mul_pow(a, e) \in Element
BY DEF gf_mul_pow, Element

\* Field elements are closed under addition.
LEMMA XorType ==
  ASSUME NEW a \in Element, NEW b \in Element
  PROVE  bxor(a, b) \in Element
BY DEF bxor, Element

\* The hash of a range, with its products spelled out.
LEMMA SegmentIsProducts ==
  ASSUME NEW lo, NEW hi
  PROVE  Segment(lo, hi) = [y |-> Products(ciphertext_len, lo, hi, hi),
                            len_blocks |-> hi - lo]
BY DEF Segment, Products

\* One iteration of the segment kernel extends the range it has hashed.
LEMMA ExtendSegment ==
  ASSUME ciphertext_len \in Nat, NEW lo \in Nat, NEW i \in Nat, lo <= i
  PROVE  gf_mul_pow(bxor(Segment(lo, i).y,
                         {<<load_ciphertext_term(ciphertext_len, i), 0>>}), 1)
           = Segment(lo, i + 1).y
<1> DEFINE len == ciphertext_len
           P == Products(len, lo, i, i)
           t(j) == load_ciphertext_term(len, j)
<1> HIDE DEF t
<1>1. \A p \in {<<t(j), i - j>> : j \in lo .. i - 1} : p[2] > 0
  OBVIOUS
<1>2. <<t(i), 0>> \notin {<<t(j), i - j>> : j \in lo .. i - 1}
  BY <1>1
<1>3. bxor({<<t(j), i - j>> : j \in lo .. i - 1}, {<<t(i), 0>>})
        = {<<t(j), i - j>> : j \in lo .. i - 1} \cup {<<t(i), 0>>}
  BY <1>2 DEF bxor
<1>4. {<<t(j), i - j>> : j \in lo .. i - 1} \cup {<<t(i), 0>>}
        = {<<t(j), i - j>> : j \in lo .. (i + 1) - 1}
  OBVIOUS
<1>5. bxor(P, {<<t(i), 0>>}) = Products(len, lo, i + 1, i)
  BY <1>3, <1>4 DEF Products, t
<1>6. gf_mul_pow(Products(len, lo, i + 1, i), 1)
        = Products(len, lo, i + 1, i + 1)
  BY MulShifts
<1> QED
  BY <1>5, <1>6, SegmentIsProducts DEF t

\* GHASH(A || B) = GHASH(A) * H^LB xor GHASH(B), as the combine kernel
\* computes it, joins the two ranges.
LEMMA CombineSegments ==
  ASSUME ciphertext_len \in Nat, NEW lo \in Nat, NEW m \in Nat, NEW hi \in Nat,
         lo <= m, m <= hi
  PROVE  combined(Segment(lo, m), Segment(m, hi)) = Segment(lo, hi)
<1> DEFINE len == ciphertext_len
<1>1. gf_mul_pow(Products(len, lo, m, m), hi - m) = Products(len, lo, m, hi)
  <2>1. hi - m \in Nat /\ m + (hi - m) = hi
    OBVIOUS
  <2> QED BY <2>1, MulShifts
<1>2. bxor(Products(len, lo, m, hi), Products(len, m, hi, hi))
        = Products(len, lo, hi, hi)
  BY XorJoins
<1>3. (m - lo) + (hi - m) = hi - lo
  OBVIOUS
<1> QED
  BY <1>1, <1>2, <1>3, SegmentIsProducts DEF combined

\* An empty range hashes to zero.
LEMMA EmptySegment ==
  ASSUME NEW lo \in Nat
  PROVE  Segment(lo, lo).y = {}
BY DEF Segment

\* Products of bounds by a level's width, which the arithmetic of the steps needs.
LEMMA Scale ==
  ASSUME NEW i \in Nat, NEW j \in Nat, NEW s \in Nat, i <= j
  PROVE  i * s \in Nat /\ i * s <= j * s
<1>1. PICK d \in Nat : j = i + d
  OBVIOUS
<1>2. j * s = i * s + d * s /\ d * s \in Nat /\ i * s \in Nat
  BY <1>1
<1> QED BY <1>2

\* Node i starts before the last term only if i is below the node count.
LEMMA SegmentIndex ==
  ASSUME NEW i \in Nat, NEW n \in Nat, NEW s \in Nat, NEW t \in Nat,
         i * s < t, t <= n * s
  PROVE  i < n
<1>1. CASE n <= i
  BY <1>1, Scale
<1> QED BY <1>1

-----------------------------------------------------------------------------
\* The inductive invariant: each of its parts needs the others to be kept.
IInv == TypeOK /\ NodesAreSegments /\ LevelsCover

\* The invariant holds before the first operation.
LEMMA InitIInv == Init => IInv
<1> SUFFICES ASSUME Init PROVE IInv
  OBVIOUS
<1>1. TypeOK
  <2>1. [b \in Buffers |-> [i \in {} |-> Undefined]]
          \in [Buffers -> [0 .. 0 - 1 -> Node]]
    OBVIOUS
  <2>2. [i \in {} |-> [y |-> {}, i |-> 0]] \in [{} -> [y : Element, i : Nat]]
    OBVIOUS
  <2> QED BY <2>1, <2>2 DEF Init, TypeOK, Buffers
<1>2. NodesAreSegments /\ LevelsCover
  BY DEF Init, NodesAreSegments, LevelsCover
<1> QED BY <1>1, <1>2 DEF IInv

\* Everything the level's variables decide, for the steps that keep them.
total == total_terms(ciphertext_len)

\* The segment of thread i, and that it is not empty exactly when node i
\* is one of the level.
LEMMA SegmentBounds ==
  ASSUME IInv, phase = "segment", NEW i \in Nat
  PROVE  /\ start(i) \in Nat
         /\ end(i) \in Nat
         /\ total \in Nat \ {0}
         /\ i < count => start(i) < total
         /\ start(i) < total => /\ i < count
                                /\ start(i) < end(i)
                                /\ Segment(start(i), end(i)) = NodeOf(i, span)
<1> USE DEF total
<1>1. total \in Nat \ {0} /\ count \in Nat \ {0}
  BY Sizes DEF IInv, TypeOK, LevelsCover
<1>2. /\ span = GHASH_SEGMENT_BLOCKS /\ span \in Nat \ {0}
      /\ (count - 1) * span < total /\ total <= count * span
  BY SizesAssumption DEF IInv, TypeOK, LevelsCover
<1>3. start(i) \in Nat /\ start(i) = i * span
  BY <1>2 DEF start
<1>4. end(i) \in Nat /\ end(i) = smaller(start(i) + span, total)
  BY <1>1, <1>2, <1>3 DEF end, smaller
<1>5. (i + 1) * span = start(i) + span
  BY <1>2, <1>3
<1>6. i < count => start(i) < total
  <2>1. i < count => i * span <= (count - 1) * span /\ (count - 1) * span \in Nat
    BY <1>1, <1>2, Scale
  <2> QED BY <1>1, <1>2, <1>3, <2>1
<1>7. start(i) < total => i < count
  BY <1>1, <1>2, <1>3, SegmentIndex
<1>8. start(i) < total => start(i) < end(i)
  BY <1>1, <1>2, <1>3, <1>4 DEF smaller
<1>9. Segment(start(i), end(i)) = NodeOf(i, span)
  BY <1>3, <1>4, <1>5 DEF NodeOf
<1> QED
  BY <1>1, <1>3, <1>4, <1>6, <1>7, <1>8, <1>9

\* The launch of the segment kernel keeps the invariant, whatever the
\* workspace held.
LEMMA EnqueueStep ==
  ASSUME IInv, NEW len \in Lengths, enqueue_ghash(len)
  PROVE  IInv'
<1> DEFINE n == required_nodes(len)
<1>0. len \in Nat
  BY SizesAssumption
<1>1. /\ n \in Nat \ {0} /\ total_terms(len) \in Nat \ {0}
      /\ total_terms(len) <= n * GHASH_SEGMENT_BLOCKS
      /\ (n - 1) * GHASH_SEGMENT_BLOCKS < total_terms(len)
  BY <1>0, Sizes
<1>2. 0 .. n - 1 \subseteq launched(n) /\ launched(n) \subseteq Nat
  BY <1>1, LaunchCovers
<1> HIDE DEF n
<1>3. /\ phase' = "segment" /\ ciphertext_len' = len /\ count' = n
      /\ in' = "a" /\ out' = "b" /\ todo' = launched(n)
      /\ span' = GHASH_SEGMENT_BLOCKS
      /\ acc' = [i \in launched(n) |-> [y |-> {}, i |-> start(i)]]
      /\ ensure_workspace(n)
  BY DEF enqueue_ghash, n
<1>4. \A i \in Nat : start(i) \in Nat
  BY SizesAssumption DEF start
<1>5. /\ node_capacity' \in Nat /\ n <= node_capacity'
      /\ nodes' \in [Buffers -> [0 .. node_capacity' - 1 -> Node]]
  <2>1. Undefined \in Node
    BY DEF Undefined, Node, Element, Term
  <2>2. CASE n <= node_capacity
    BY <1>3, <2>2 DEF ensure_workspace, IInv, TypeOK
  <2>3. CASE ~ (n <= node_capacity)
    BY <1>1, <1>3, <2>1, <2>3 DEF ensure_workspace
  <2> QED BY <2>2, <2>3
<1>6. TypeOK'
  <2>1. acc' \in [launched(n) -> [y : Element, i : Nat]] /\ DOMAIN acc' = launched(n)
    BY <1>2, <1>3, <1>4 DEF Element
  <2> QED
    BY <1>0, <1>1, <1>2, <1>3, <1>5, <2>1, SizesAssumption DEF TypeOK, Buffers
<1>7. NodesAreSegments'
  <2>1. ASSUME NEW i \in 0 .. count' - 1
        PROVE  i \in todo' /\ (acc[i].y = Segment(start(i), acc[i].i).y)'
    <3>1. i \in launched(n) /\ start(i) \in Nat
      BY <1>1, <1>2, <1>3, <1>4
    <3>2. acc'[i].y = {} /\ acc'[i].i = start(i)
      BY <1>3, <3>1
    <3>3. \A lo \in Nat : Segment(lo, lo)'.y = {}
      BY DEF Segment
    <3> QED BY <1>3, <3>1, <3>2, <3>3
  <2> QED BY <1>3, <2>1 DEF NodesAreSegments
<1>8. LevelsCover'
  <2>1. \A i \in todo' : acc'[i].i = start(i)
    BY <1>3
  <2>2. \A i \in todo' : start(i) < total_terms(len) => start(i) <= end(i)'
    BY <1>1, <1>2, <1>3, <1>4, SizesAssumption DEF end, start, smaller
  <2> QED
    BY <1>1, <1>2, <1>3, <1>4, <1>5, <2>1, <2>2, SizesAssumption
    DEF LevelsCover, start
<1> QED BY <1>6, <1>7, <1>8 DEF IInv

\* An iteration of a segment thread keeps the invariant.
LEMMA SegmentStepStep ==
  ASSUME IInv, NEW i \in todo, SegmentStep(i)
  PROVE  IInv'
<1> DEFINE term == load_ciphertext_term(ciphertext_len, acc[i].i)
           y == gf_mul_pow(bxor(acc[i].y, {<<term, 0>>}), 1)
<1>1. /\ phase = "segment" /\ i \in DOMAIN acc /\ i \in Nat
      /\ acc[i].i < end(i) /\ start(i) <= acc[i].i
      /\ acc[i] \in [y : Element, i : Nat]
      /\ ciphertext_len \in Nat
  BY DEF IInv, TypeOK, LevelsCover, SegmentStep
<1>2. /\ acc' = [acc EXCEPT ![i] = [y |-> y, i |-> acc[i].i + 1]]
      /\ UNCHANGED <<phase, ciphertext_len, node_capacity, nodes, in, out,
                     count, todo, span>>
  BY DEF SegmentStep
<1>3. y \in Element
  <2>1. {<<term, 0>>} \in Element
    BY <1>1, TermType DEF Element
  <2> QED BY <1>1, <2>1, XorType, MulType
<1>4. start(i) \in Nat /\ end(i) \in Nat
  BY <1>1, SegmentBounds
<1>5. acc[i].y = Segment(start(i), acc[i].i).y => y = Segment(start(i), acc[i].i + 1).y
  BY <1>1, <1>4, ExtendSegment
<1> HIDE DEF y
<1>6. TypeOK'
  <2>1. DOMAIN acc' = DOMAIN acc /\ acc' \in [DOMAIN acc -> [y : Element, i : Nat]]
    BY <1>1, <1>2, <1>3 DEF IInv, TypeOK
  <2> QED BY <1>2, <2>1 DEF IInv, TypeOK
<1>7. NodesAreSegments'
  <2>1. ASSUME NEW j \in 0 .. count - 1
        PROVE  IF j \in todo
               THEN acc'[j].y = Segment(start(j), acc'[j].i).y
               ELSE nodes.a[j] = NodeOf(j, span)
    <3>1. IF j \in todo
          THEN acc[j].y = Segment(start(j), acc[j].i).y
          ELSE nodes.a[j] = NodeOf(j, span)
      BY <1>1 DEF IInv, NodesAreSegments
    <3>2. CASE j = i
      BY <1>1, <1>2, <1>5, <3>1, <3>2
    <3>3. CASE j # i
      BY <1>1, <1>2, <3>1, <3>3 DEF IInv, TypeOK
    <3> QED BY <3>2, <3>3
  <2>2. \A lo, hi : Segment(lo, hi)' = Segment(lo, hi)
    BY <1>2 DEF Segment
  <2>3. \A j : NodeOf(j, span)' = NodeOf(j, span)
    BY <1>2, <2>2 DEF NodeOf
  <2> QED
    BY <1>1, <1>2, <2>1, <2>2, <2>3 DEF NodesAreSegments, start
<1>8. LevelsCover'
  <2>1. \A j \in todo : j # i => acc'[j] = acc[j]
    BY <1>2 DEF IInv, TypeOK
  <2>2. acc'[i].i = acc[i].i + 1
    BY <1>1, <1>2
  <2>3. \A j \in todo :
          /\ start(j) <= acc'[j].i
          /\ start(j) < total_terms(ciphertext_len) => acc'[j].i <= end(j)
    BY <1>1, <1>4, <2>1, <2>2 DEF IInv, LevelsCover
  <2>4. DOMAIN acc' = DOMAIN acc
    BY <1>2
  <2> QED
    BY <1>1, <1>2, <2>3, <2>4 DEF IInv, LevelsCover, start, end
<1> QED BY <1>6, <1>7, <1>8 DEF IInv

\* A segment thread that returns keeps the invariant.
LEMMA SegmentReturnStep ==
  ASSUME IInv, NEW i \in todo, SegmentReturn(i)
  PROVE  IInv'
<1>1. /\ phase = "segment" /\ i \in DOMAIN acc /\ i \in Nat
      /\ in = "a" /\ out = "b" /\ span = GHASH_SEGMENT_BLOCKS
      /\ start(i) <= acc[i].i
      /\ start(i) < total => acc[i].i <= end(i)
      /\ acc[i] \in [y : Element, i : Nat]
  BY DEF IInv, TypeOK, LevelsCover, SegmentReturn, Buffers, total
<1>2. /\ todo' = todo \ {i}
      /\ UNCHANGED <<phase, ciphertext_len, node_capacity, in, out, count,
                     acc, span>>
  BY DEF SegmentReturn
<1>3. /\ start(i) \in Nat /\ end(i) \in Nat /\ total \in Nat \ {0}
      /\ i < count => start(i) < total
      /\ start(i) < total => /\ i < count
                             /\ start(i) < end(i)
                             /\ Segment(start(i), end(i)) = NodeOf(i, span)
  BY <1>1, SegmentBounds
<1>4. count <= node_capacity /\ count \in Nat /\ node_capacity \in Nat
  BY <1>1 DEF IInv, TypeOK, LevelsCover
<1>7. \A lo, hi : Segment(lo, hi)' = Segment(lo, hi)
  BY <1>2 DEF Segment
<1>8. \A j, w : NodeOf(j, w)' = NodeOf(j, w)
  BY <1>2, <1>7 DEF NodeOf
<1>5. CASE start(i) >= total
  <2>1. nodes' = nodes /\ ~ (i < count)
    BY <1>1, <1>3, <1>5 DEF SegmentReturn, total
  <2>2. TypeOK'
    BY <1>1, <1>2, <2>1 DEF IInv, TypeOK
  <2>3. NodesAreSegments'
    <3>1. \A j \in 0 .. count - 1 : j \in todo <=> j \in todo'
      BY <1>2, <1>4, <2>1
    <3> QED
      BY <1>1, <1>2, <1>7, <1>8, <2>1, <3>1 DEF IInv, NodesAreSegments, start
  <2>4. LevelsCover'
    BY <1>1, <1>2 DEF IInv, LevelsCover, end
  <2> QED BY <2>2, <2>3, <2>4 DEF IInv
<1>6. CASE start(i) < total
  <2> DEFINE node == [y |-> acc[i].y, len_blocks |-> end(i) - start(i)]
  <2>1. /\ acc[i].i >= end(i)
        /\ nodes' = [nodes EXCEPT !.a[i] = node]
    BY <1>1, <1>3, <1>6 DEF SegmentReturn, total
  <2>2. acc[i].i = end(i) /\ i \in 0 .. count - 1
    BY <1>1, <1>3, <1>4, <1>6, <2>1
  <2>3. node = NodeOf(i, span)
    <3>1. acc[i].y = Segment(start(i), end(i)).y
      BY <1>1, <2>2 DEF IInv, NodesAreSegments
    <3>2. node = Segment(start(i), end(i))
      BY <3>1 DEF Segment
    <3> QED BY <1>3, <1>6, <3>2
  <2>4. node \in Node
    BY <1>1, <1>3, <1>6 DEF Node
  <2> HIDE DEF node
  <2>5. /\ nodes' \in [Buffers -> [0 .. node_capacity - 1 -> Node]]
        /\ nodes'.a[i] = node
        /\ \A j \in 0 .. node_capacity - 1 : j # i => nodes'.a[j] = nodes.a[j]
    <3>1. nodes \in [Buffers -> [0 .. node_capacity - 1 -> Node]]
          /\ i \in 0 .. node_capacity - 1 /\ "a" \in Buffers
      BY <1>4, <2>2 DEF IInv, TypeOK, Buffers
    <3>2. nodes' = [nodes EXCEPT !["a"] = [nodes["a"] EXCEPT ![i] = node]]
      BY <2>1
    <3>3. [nodes["a"] EXCEPT ![i] = node] \in [0 .. node_capacity - 1 -> Node]
      BY <2>4, <3>1
    <3>4. nodes'["a"] = [nodes["a"] EXCEPT ![i] = node]
      BY <3>1, <3>2
    <3> QED BY <3>1, <3>2, <3>3, <3>4
  <2>6. TypeOK'
    BY <1>2, <2>5 DEF IInv, TypeOK
  <2>7. NodesAreSegments'
    <3>1. ASSUME NEW j \in 0 .. count - 1
          PROVE  IF j \in todo \ {i}
                 THEN acc[j].y = Segment(start(j), acc[j].i).y
                 ELSE nodes'.a[j] = NodeOf(j, span)
      <4>1. IF j \in todo
            THEN acc[j].y = Segment(start(j), acc[j].i).y
            ELSE nodes.a[j] = NodeOf(j, span)
        BY <1>1 DEF IInv, NodesAreSegments
      <4>2. j \in 0 .. node_capacity - 1
        BY <1>4
      <4> QED BY <2>3, <2>5, <4>1, <4>2
    <3> QED
      BY <1>1, <1>2, <1>7, <1>8, <3>1 DEF NodesAreSegments, start
  <2>8. LevelsCover'
    BY <1>1, <1>2 DEF IInv, LevelsCover, end
  <2> QED BY <2>6, <2>7, <2>8 DEF IInv
<1> QED BY <1>3, <1>5, <1>6

\* Two neighbouring nodes of a level, or its odd last one, make one node of
\* the next.
LEMMA ReducedNode ==
  ASSUME IInv, phase = "combine", NEW i \in Nat, 2 * i < count
  PROVE  reduced(i) = NodeOf(i, 2 * span) /\ reduced(i) \in Node
<1> DEFINE s == span
           lo == (2 * i) * s
           mid == (2 * i + 1) * s
           hi == (2 * i + 2) * s
           last == (count - 1) * s
<1>1. /\ s \in Nat \ {0} /\ count \in Nat /\ count > 1 /\ count <= node_capacity
      /\ total \in Nat \ {0} /\ ciphertext_len \in Nat
      /\ last < total /\ total <= count * s
      /\ nodes[in] \in [0 .. node_capacity - 1 -> Node]
      /\ node_capacity \in Nat
  BY Sizes DEF IInv, TypeOK, LevelsCover, total
<1>2. \A j \in 0 .. count - 1 : nodes[in][j] = NodeOf(j, s)
  BY DEF IInv, NodesAreSegments
<1>3. /\ lo \in Nat /\ mid \in Nat /\ hi \in Nat
      /\ mid = lo + s /\ hi = mid + s
      /\ i * (2 * s) = lo /\ (i + 1) * (2 * s) = hi
  BY <1>1
<1>4. 2 * i \in 0 .. count - 1 /\ lo < total
  <2>1. lo <= last /\ last \in Nat
    BY <1>1, Scale
  <2> QED BY <1>1, <1>3, <2>1
<1>5. NodeOf(i, 2 * s) = Segment(lo, smaller(hi, total))
  BY <1>3 DEF NodeOf, total
<1>6. NodeOf(2 * i, s) = Segment(lo, smaller(mid, total))
  BY DEF NodeOf, total
<1>7. NodeOf(2 * i + 1, s) = Segment(mid, smaller(hi, total))
  <2>1. (2 * i + 1) + 1 = 2 * i + 2
    OBVIOUS
  <2> QED BY <2>1 DEF NodeOf, total
<1> HIDE DEF lo, mid, hi, last
<1>8. CASE 2 * i + 1 >= count
  <2>1. 2 * i + 1 = count
    BY <1>1, <1>8
  <2>2. total <= mid
    BY <1>1, <2>1 DEF mid
  <2>3. smaller(mid, total) = total /\ smaller(hi, total) = total
    BY <1>1, <1>3, <2>2 DEF smaller
  <2>4. reduced(i) = nodes[in][2 * i]
    BY <1>8 DEF reduced
  <2> QED BY <1>1, <1>2, <1>4, <1>5, <1>6, <2>3, <2>4
<1>9. CASE ~ (2 * i + 1 >= count)
  <2>1. 2 * i + 1 \in 0 .. count - 1
    BY <1>1, <1>9
  <2>2. mid <= last /\ last \in Nat
    BY <1>1, <2>1, Scale DEF mid, last
  <2>3. mid < total
    BY SMTT(40), <1>1, <1>3, <2>2
  <2>4. /\ smaller(mid, total) = mid
        /\ smaller(hi, total) \in Nat /\ mid <= smaller(hi, total)
    BY <1>1, <1>3, <2>3 DEF smaller
  <2>5. reduced(i) = combined(nodes[in][2 * i], nodes[in][2 * i + 1])
    BY <1>9 DEF reduced
  <2>6. reduced(i) = NodeOf(i, 2 * s)
    <3>1. nodes[in][2 * i] = Segment(lo, mid)
      BY <1>2, <1>4, <1>6, <2>4
    <3>2. nodes[in][2 * i + 1] = Segment(mid, smaller(hi, total))
      BY <1>2, <1>7, <2>1
    <3>3. lo <= mid
      BY <1>1, <1>3
    <3>4. combined(Segment(lo, mid), Segment(mid, smaller(hi, total)))
            = Segment(lo, smaller(hi, total))
      BY <1>1, <1>3, <2>4, <3>3, CombineSegments
    <3> QED BY <1>5, <2>5, <3>1, <3>2, <3>4
  <2>7. reduced(i) \in Node
    <3>1. nodes[in][2 * i] \in Node /\ nodes[in][2 * i + 1] \in Node
      BY <1>1, <1>4, <2>1
    <3>2. \A a, b \in Node : combined(a, b) \in Node
      <4> SUFFICES ASSUME NEW a \in Node, NEW b \in Node
                   PROVE  combined(a, b) \in Node
        OBVIOUS
      <4>1. /\ a.y \in Element /\ b.y \in Element
            /\ a.len_blocks \in Nat /\ b.len_blocks \in Nat
        BY DEF Node
      <4>2. bxor(gf_mul_pow(a.y, b.len_blocks), b.y) \in Element
        BY <4>1, MulType, XorType
      <4> QED BY <4>1, <4>2 DEF combined, Node
    <3> QED BY <2>5, <3>1, <3>2
  <2> QED BY <2>6, <2>7
<1> QED BY <1>8, <1>9

\* A thread of the combine kernel that returns keeps the invariant.
LEMMA CombineReturnStep ==
  ASSUME IInv, NEW i \in todo, CombineReturn(i)
  PROVE  IInv'
<1>1. /\ phase = "combine" /\ i \in Nat
      /\ in \in Buffers /\ out \in Buffers /\ in # out
      /\ count \in Nat /\ count > 1 /\ count <= node_capacity
      /\ node_capacity \in Nat
      /\ nodes \in [Buffers -> [0 .. node_capacity - 1 -> Node]]
  BY DEF IInv, TypeOK, LevelsCover, CombineReturn
<1>2. /\ todo' = todo \ {i}
      /\ UNCHANGED <<phase, ciphertext_len, node_capacity, in, out, count,
                     acc, span>>
  BY DEF CombineReturn
<1>3. \A lo, hi : Segment(lo, hi)' = Segment(lo, hi)
  BY <1>2 DEF Segment
<1>4. \A j, w : NodeOf(j, w)' = NodeOf(j, w)
  BY <1>2, <1>3 DEF NodeOf
<1>5. LevelsCover'
  BY <1>1, <1>2 DEF IInv, LevelsCover
<1>6. CASE 2 * i >= count
  <2>1. nodes' = nodes
    BY <1>6 DEF CombineReturn
  <2>2. TypeOK'
    BY <1>2, <2>1 DEF IInv, TypeOK
  <2>3. ~ (i < (count + 1) \div 2)
    BY <1>1, <1>6
  <2>4. \A j \in 0 .. ((count + 1) \div 2) - 1 : j \in todo <=> j \in todo'
    BY <1>1, <1>2, <2>3
  <2>5. NodesAreSegments'
    BY <1>1, <1>2, <1>4, <2>1, <2>4 DEF IInv, NodesAreSegments
  <2> QED BY <1>5, <2>2, <2>5 DEF IInv
<1>7. CASE 2 * i < count
  <2>1. reduced(i) = NodeOf(i, 2 * span) /\ reduced(i) \in Node
    BY <1>1, <1>7, ReducedNode
  <2>2. nodes' = [nodes EXCEPT ![out] = [nodes[out] EXCEPT ![i] = reduced(i)]]
    BY <1>1, <1>7 DEF CombineReturn
  <2>3. i \in 0 .. node_capacity - 1
    BY <1>1, <1>7
  <2>4. [nodes[out] EXCEPT ![i] = reduced(i)] \in [0 .. node_capacity - 1 -> Node]
    BY <1>1, <2>1, <2>3
  <2>5. /\ nodes' \in [Buffers -> [0 .. node_capacity - 1 -> Node]]
        /\ nodes'[in] = nodes[in]
        /\ nodes'[out] = [nodes[out] EXCEPT ![i] = reduced(i)]
    BY <1>1, <2>2, <2>4
  <2>6. TypeOK'
    BY <1>2, <2>5 DEF IInv, TypeOK
  <2>7. ASSUME NEW j \in 0 .. ((count + 1) \div 2) - 1, j \notin todo'
        PROVE  nodes'[out][j] = NodeOf(j, 2 * span)
    <3>1. j \in 0 .. node_capacity - 1
      BY <1>1
    <3>2. CASE j = i
      BY <1>1, <2>1, <2>3, <2>5, <3>2
    <3>3. CASE j # i
      <4>1. nodes[out][j] = NodeOf(j, 2 * span)
        BY <1>1, <1>2, <2>7, <3>3 DEF IInv, NodesAreSegments
      <4> QED BY <1>1, <2>5, <3>1, <3>3, <4>1
    <3> QED BY <3>2, <3>3
  <2>8. NodesAreSegments'
    BY <1>1, <1>2, <1>4, <2>5, <2>7 DEF IInv, NodesAreSegments
  <2> QED BY <1>5, <2>6, <2>8 DEF IInv
<1> QED BY <1>1, <1>6, <1>7

\* The first combine kernel starts on a complete level.
LEMMA FirstCombineStep ==
  ASSUME IInv, FirstCombine
  PROVE  IInv'
<1>1. /\ phase = "segment" /\ todo = {} /\ count > 1 /\ phase' = "combine"
      /\ todo' = launched((count + 1) \div 2)
      /\ acc' = [i \in {} |-> [y |-> {}, i |-> 0]]
      /\ UNCHANGED <<ciphertext_len, node_capacity, nodes, in, out, count, span>>
  BY DEF FirstCombine
<1>2. in = "a" /\ count \in Nat
  BY <1>1 DEF IInv, TypeOK, LevelsCover
<1>3. /\ (count + 1) \div 2 \in Nat
      /\ 0 .. ((count + 1) \div 2) - 1 \subseteq todo'
      /\ todo' \subseteq Nat
  <2>1. (count + 1) \div 2 \in Nat
    BY <1>2
  <2> QED BY <1>1, <2>1, LaunchCovers
<1>4. TypeOK'
  <2>1. acc' \in [DOMAIN acc' -> [y : Element, i : Nat]]
    BY <1>1
  <2> QED BY <1>1, <1>3, <2>1 DEF IInv, TypeOK
<1>5. \A lo, hi : Segment(lo, hi)' = Segment(lo, hi)
  BY <1>1 DEF Segment
<1>6. \A j, w : NodeOf(j, w)' = NodeOf(j, w)
  BY <1>1, <1>5 DEF NodeOf
<1>7. NodesAreSegments'
  BY <1>1, <1>2, <1>3, <1>6 DEF IInv, NodesAreSegments
<1>8. LevelsCover'
  BY <1>1 DEF IInv, LevelsCover
<1> QED BY <1>4, <1>7, <1>8 DEF IInv

\* Halving the count and swapping the buffers keeps the invariant.
LEMMA NextCombineStep ==
  ASSUME IInv, NextCombine
  PROVE  IInv'
<1> DEFINE n == (count + 1) \div 2
<1>1. /\ phase = "combine" /\ todo = {} /\ in' = out /\ out' = in
      /\ count' = n /\ span' = 2 * span
      /\ IF n > 1 THEN phase' = phase /\ todo' = launched((n + 1) \div 2)
                  ELSE phase' = "done" /\ todo' = {}
      /\ UNCHANGED <<ciphertext_len, node_capacity, nodes, acc>>
  BY DEF NextCombine
<1>2. /\ count \in Nat /\ count > 1 /\ count <= node_capacity
      /\ node_capacity \in Nat /\ span \in Nat \ {0}
      /\ total \in Nat \ {0}
      /\ (count - 1) * span < total /\ total <= count * span
  BY <1>1, Sizes DEF IInv, TypeOK, LevelsCover, total
<1>3. n \in Nat \ {0} /\ n <= node_capacity /\ 2 * n <= count + 1 /\ count <= 2 * n
  BY <1>2
<1> HIDE DEF n
<1>4. (n - 1) * (2 * span) < total
  <2>1. (2 * n - 2) * span <= (count - 1) * span
    BY <1>2, <1>3, Scale
  <2>2. (n - 1) * (2 * span) = (2 * n - 2) * span
    BY <1>2, <1>3
  <2>3. (count - 1) * span \in Int /\ (n - 1) * (2 * span) \in Int
    BY <1>2, <1>3
  <2> HIDE DEF total
  <2> QED BY <1>2, <2>1, <2>2, <2>3
<1>5. total <= n * (2 * span)
  <2>1. count * span <= (2 * n) * span /\ count * span \in Nat
    BY <1>2, <1>3, Scale
  <2>2. (2 * n) * span = n * (2 * span) /\ n * (2 * span) \in Nat
    BY <1>2, <1>3
  <2> QED BY <1>2, <2>1, <2>2
<1>6. n > 1 => /\ 0 .. ((n + 1) \div 2) - 1 \subseteq todo'
               /\ todo' \subseteq Nat
  <2>1. (n + 1) \div 2 \in Nat
    BY <1>3
  <2> QED BY <1>1, <2>1, LaunchCovers
<1>7. TypeOK'
  <2>1. todo' \subseteq Nat
    BY <1>1, <1>6
  <2> QED BY SMTT(40), <1>1, <1>2, <1>3, <2>1 DEF IInv, TypeOK
<1>8. \A j, w : NodeOf(j, w)' = NodeOf(j, w)
  <2>1. \A lo, hi : Segment(lo, hi)' = Segment(lo, hi)
    BY <1>1 DEF Segment
  <2> QED BY <1>1, <2>1 DEF NodeOf
<1>9. \A j \in 0 .. n - 1 : nodes'[in'][j] = NodeOf(j, span')
  BY <1>1 DEF IInv, NodesAreSegments, n
<1>10. NodesAreSegments'
  BY <1>1, <1>6, <1>8, <1>9 DEF NodesAreSegments
<1>11. LevelsCover'
  BY <1>1, <1>2, <1>3, <1>4, <1>5 DEF LevelsCover, total
<1> QED BY <1>7, <1>10, <1>11 DEF IInv

\* A ciphertext of one segment is done after the segment kernel.
LEMMA SingleNodeStep ==
  ASSUME IInv, SingleNode
  PROVE  IInv'
<1>1. /\ phase = "segment" /\ todo = {} /\ count <= 1 /\ phase' = "done"
      /\ acc' = [i \in {} |-> [y |-> {}, i |-> 0]]
      /\ UNCHANGED <<ciphertext_len, node_capacity, nodes, in, out, count,
                     todo, span>>
  BY DEF SingleNode
<1>2. in = "a" /\ count = 1
  BY <1>1 DEF IInv, TypeOK, LevelsCover
<1>3. TypeOK'
  <2>1. acc' \in [DOMAIN acc' -> [y : Element, i : Nat]]
    BY <1>1
  <2> QED BY <1>1, <2>1 DEF IInv, TypeOK
<1>4. \A j, w : NodeOf(j, w)' = NodeOf(j, w)
  <2>1. \A lo, hi : Segment(lo, hi)' = Segment(lo, hi)
    BY <1>1 DEF Segment
  <2> QED BY <1>1, <2>1 DEF NodeOf
<1>5. NodesAreSegments'
  BY <1>1, <1>2, <1>4 DEF IInv, NodesAreSegments
<1>6. LevelsCover'
  BY <1>1, <1>2 DEF IInv, LevelsCover
<1> QED BY <1>3, <1>5, <1>6 DEF IInv

-----------------------------------------------------------------------------
\* Every reachable state satisfies the inductive invariant: the threads of
\* ghash_segment_kernel and ghash_combine_kernel may run in any order.
THEOREM Invariance == Spec => []IInv
<1>1. IInv /\ [Next]_vars => IInv'
  <2> SUFFICES ASSUME IInv, [Next]_vars PROVE IInv'
    OBVIOUS
  <2>1. ASSUME NEW len \in Lengths, enqueue_ghash(len) PROVE IInv'
    BY <2>1, EnqueueStep
  <2>2. ASSUME NEW i \in todo, SegmentStep(i) PROVE IInv'
    BY <2>2, SegmentStepStep
  <2>3. ASSUME NEW i \in todo, SegmentReturn(i) PROVE IInv'
    BY <2>3, SegmentReturnStep
  <2>4. ASSUME NEW i \in todo, CombineReturn(i) PROVE IInv'
    BY <2>4, CombineReturnStep
  <2>5. CASE FirstCombine
    BY <2>5, FirstCombineStep
  <2>6. CASE NextCombine
    BY <2>6, NextCombineStep
  <2>7. CASE SingleNode
    BY <2>7, SingleNodeStep
  <2>8. CASE UNCHANGED vars
    <3>1. \A lo, hi : Segment(lo, hi)' = Segment(lo, hi)
      BY <2>8 DEF vars, Segment
    <3>2. \A j, w : NodeOf(j, w)' = NodeOf(j, w)
      BY <2>8, <3>1 DEF vars, NodeOf
    <3>3. NodesAreSegments'
      BY <2>8, <3>1, <3>2 DEF vars, IInv, NodesAreSegments
    <3>4. LevelsCover'
      BY <2>8 DEF vars, IInv, LevelsCover, end
    <3>5. TypeOK'
      BY <2>8 DEF vars, IInv, TypeOK
    <3> QED BY <3>3, <3>4, <3>5 DEF IInv
  <2> QED
    BY <2>1, <2>2, <2>3, <2>4, <2>5, <2>6, <2>7, <2>8 DEF Next, Device
<1> QED BY InitIInv, <1>1, PTL DEF Spec

\* The rounded division gives the standard's number of ciphertext blocks.
LEMMA GcmBlocks ==
  ASSUME NEW len \in Nat
  PROVE  GcmDataBlocks(len) = cipher_blocks(len)
<1> DEFINE c == cipher_blocks(len)
           P(n) == n * AES_BLOCK >= len /\ (n - 1) * AES_BLOCK < len
<1>1. c \in Nat /\ P(c) /\ AES_BLOCK \in Nat \ {0}
  BY Sizes, SizesAssumption
<1> HIDE DEF c
<1>2. c \in 0 .. len
  <2>1. CASE c > len
    <3>1. len * AES_BLOCK <= (c - 1) * AES_BLOCK
      BY <1>1, <2>1, Scale
    <3>2. len <= len * AES_BLOCK /\ len * AES_BLOCK \in Nat
      BY <1>1
    <3>3. (c - 1) * AES_BLOCK \in Int
      BY <1>1
    <3> QED BY <1>1, <3>1, <3>2, <3>3
  <2> QED BY <1>1, <2>1
<1>3. ASSUME NEW n \in Nat, NEW m \in Nat, P(n), P(m) PROVE ~ (n < m)
  <2>1. CASE n < m
    <3>1. n * AES_BLOCK <= (m - 1) * AES_BLOCK
      BY <1>1, <2>1, Scale
    <3>2. n * AES_BLOCK \in Nat /\ (m - 1) * AES_BLOCK \in Int
      BY <1>1
    <3> QED BY <1>3, <3>1, <3>2
  <2> QED BY <2>1
<1>4. \A n \in 0 .. len : P(n) => n = c
  BY <1>1, <1>3
<1> HIDE DEF P
<1>5. (CHOOSE n \in 0 .. len : P(n)) = c
  BY <1>1, <1>2, <1>4
<1> QED BY <1>5 DEF GcmDataBlocks, P, c

\* load_ciphertext_term returns the standard's blocks, padding included.
LEMMA TermIsGcmBlock ==
  ASSUME NEW len \in Nat, NEW i \in 0 .. cipher_blocks(len)
  PROVE  load_ciphertext_term(len, i) = GcmBlock(len, i)
<1> DEFINE lo == i * AES_BLOCK
           c == cipher_blocks(len)
<1>1. /\ lo \in Nat /\ AES_BLOCK \in Nat \ {0} /\ (i + 1) * AES_BLOCK = lo + AES_BLOCK
      /\ c \in Nat /\ GcmDataBlocks(len) = c
  BY Sizes, SizesAssumption, GcmBlocks
<1>2. i = c => len <= lo
  BY Sizes
<1> HIDE DEF lo, c
<1>3. GcmBlock(len, i)
        = [bytes |-> {p \in 0 .. len - 1 : lo <= p /\ p < lo + AES_BLOCK},
           bits |-> IF i = c THEN 8 * len ELSE 0]
  BY <1>1 DEF GcmBlock, lo
<1>4. CASE i = c
  <2>1. {p \in 0 .. len - 1 : lo <= p /\ p < lo + AES_BLOCK} = {}
    BY <1>1, <1>2, <1>4
  <2> QED BY <1>3, <1>4, <2>1 DEF load_ciphertext_term, c
<1>5. CASE i # c
  <2>1. {p \in 0 .. len - 1 : lo <= p /\ p < lo + AES_BLOCK}
          = {p \in lo .. lo + AES_BLOCK - 1 : p < len}
    BY <1>1
  <2> QED BY <1>3, <1>5, <2>1 DEF load_ciphertext_term, lo, c
<1> QED BY <1>4, <1>5

\* TypeOK: the variables keep their types; the buffer a combine kernel reads
\* is never the one it writes.
THEOREM TypeCorrect == Spec => []TypeOK
<1>1. IInv => TypeOK
  BY DEF IInv
<1> QED BY <1>1, Invariance, PTL

\* NodesAreSegments: every node written so far hashes exactly its range.
THEOREM NodesCorrect == Spec => []NodesAreSegments
<1>1. IInv => NodesAreSegments
  BY DEF IInv
<1> QED BY <1>1, Invariance, PTL

\* RootIsGhash: the root enqueue_ghash returns is the GHASH of NIST SP
\* 800-38D of the whole ciphertext, for every hash key.
THEOREM RootCorrect == Spec => []RootIsGhash
<1>1. IInv => RootIsGhash
  <2> SUFFICES ASSUME IInv, phase = "done"
               PROVE  nodes[in][0] = [y |-> Ghash(ciphertext_len),
                                      len_blocks |-> GcmDataBlocks(ciphertext_len) + 1]
    BY DEF RootIsGhash
  <2> DEFINE len == ciphertext_len
             c == cipher_blocks(len)
  <2>1. /\ len \in Nat /\ c \in Nat /\ total = c + 1 /\ count = 1 /\ span \in Nat
        /\ total <= span
    BY Sizes DEF IInv, TypeOK, LevelsCover, total, total_terms
  <2>2. nodes[in][0] = NodeOf(0, span)
    BY <2>1 DEF IInv, NodesAreSegments
  <2>3. NodeOf(0, span) = Segment(0, total)
    BY <2>1 DEF NodeOf, smaller, total
  <2>4. Segment(0, total).y = Ghash(len)
    <3>1. \A i \in 0 .. c : load_ciphertext_term(len, i) = GcmBlock(len, i)
      BY <2>1, TermIsGcmBlock
    <3>2. total - 1 = c
      BY <2>1
    <3>3. Ghash(len) = {<<GcmBlock(len, i), c + 1 - i>> : i \in 0 .. c}
      BY <2>1, GcmBlocks DEF Ghash
    <3>4. Segment(0, total).y
            = {<<load_ciphertext_term(len, i), c + 1 - i>> : i \in 0 .. c}
      BY <2>1, <3>2 DEF Segment
    <3> QED BY <3>1, <3>3, <3>4
  <2>5. Segment(0, total) = [y |-> Ghash(len), len_blocks |-> c + 1]
    <3>1. total - 0 = c + 1
      BY <2>1
    <3>2. Segment(0, total) = [y |-> Segment(0, total).y, len_blocks |-> total - 0]
      BY DEF Segment
    <3> QED BY <2>4, <3>1, <3>2
  <2> QED BY <2>1, <2>2, <2>3, <2>5, GcmBlocks
<1> QED BY <1>1, Invariance, PTL

\* InBounds: the kernels stay within the nodes ensure_workspace allocated.
THEOREM AccessesInBounds == Spec => []InBounds
<1>1. IInv => InBounds
  <2> SUFFICES ASSUME IInv PROVE InBounds
    OBVIOUS
  <2>1. ASSUME phase = "segment", NEW i \in todo, start(i) < total_terms(ciphertext_len)
        PROVE  i < node_capacity
    BY <2>1, SegmentBounds DEF IInv, TypeOK, LevelsCover, total
  <2>2. ASSUME phase = "combine", NEW i \in todo, 2 * i < count
        PROVE  i < node_capacity
    BY <2>2 DEF IInv, TypeOK, LevelsCover
  <2>3. phase = "combine" => count <= node_capacity
    BY DEF IInv, TypeOK, LevelsCover
  <2> QED BY <2>1, <2>2, <2>3 DEF InBounds
<1> QED BY <1>1, Invariance, PTL
=============================================================================

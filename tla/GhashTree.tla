------------------------------ MODULE GhashTree ------------------------------
(***************************************************************************)
(* The parallel GHASH of gpu_aesgcm.cu: enqueue_ghash launches one segment *)
(* kernel and then a chain of combine kernels that halve the number of     *)
(* nodes, ping-ponging between the two workspace buffers of the key        *)
(* handle.  The threads of a kernel run in any order; a kernel starts when *)
(* the previous one of the stream has finished.                            *)
(*                                                                         *)
(* A field element is a formal GF(2)-linear combination of products        *)
(* X * H^e, written as the set of the pairs <<X, e>> whose coefficient is  *)
(* one, X being a term of the hash: the ciphertext bytes of one block, or  *)
(* the length block.  Addition is then symmetric difference and multiplication by a  *)
(* power of H adds to every exponent, so that an equality of two such sets *)
(* is an equality for every hash key and every ciphertext.                 *)
(***************************************************************************)
EXTENDS Integers

CONSTANTS
  AES_BLOCK,            \* bytes of a cipher block (16)
  GHASH_SEGMENT_BLOCKS, \* terms a thread of the segment kernel hashes (64)
  THREADS,              \* threads per CUDA block of both kernels (128)
  Lengths               \* ciphertext lengths of the operations, in bytes

ASSUME SizesAssumption ==
  /\ AES_BLOCK \in Nat \ {0}
  /\ GHASH_SEGMENT_BLOCKS \in Nat \ {0}
  /\ THREADS \in Nat \ {0}
  /\ Lengths \subseteq Nat

VARIABLES
  phase,          \* which kernel runs: "idle", "segment", "combine", "done"
  ciphertext_len, \* argument of the operation in progress
  node_capacity,  \* nodes each workspace buffer holds
  nodes,          \* the workspace: nodes.a and nodes.b
  in, out,        \* the buffer the kernel reads, the buffer it writes
  count,          \* nodes the running kernel produces (segment) or reads
  todo,           \* threads of the running kernel that have not returned
  acc,            \* registers of the segment kernel's threads: y and i
  span            \* history: terms a full node of the buffer `in` covers

vars == <<phase, ciphertext_len, node_capacity, nodes, in, out, count, todo,
          acc, span>>

-----------------------------------------------------------------------------
(* Field arithmetic on formal combinations.                                *)

bxor(a, b) == (a \ b) \cup (b \ a)

\* gf_mul by gf_pow_from_table(h_pow2, e): the product with H^e.
gf_mul_pow(a, e) == {<<p[1], p[2] + e>> : p \in a}

-----------------------------------------------------------------------------
(* Sizes.                                                                  *)

smaller(a, b) == IF a < b THEN a ELSE b

cipher_blocks(len) == (len + AES_BLOCK - 1) \div AES_BLOCK

\* The ciphertext blocks and the final length block.
total_terms(len) == cipher_blocks(len) + 1

nodes_without_length_block(len) ==
  (cipher_blocks(len) + GHASH_SEGMENT_BLOCKS - 1) \div GHASH_SEGMENT_BLOCKS

required_nodes(len) ==
  (total_terms(len) + GHASH_SEGMENT_BLOCKS - 1) \div GHASH_SEGMENT_BLOCKS

\* Global thread indices of a launch that covers n items.
launched(n) == 0 .. (((n + THREADS - 1) \div THREADS) * THREADS) - 1

\* The term load_ciphertext_term returns: the block that holds the length in
\* bits, or the bytes of one block, zero-padded past the end.
load_ciphertext_term(len, i) ==
  IF i = cipher_blocks(len)
  THEN [bytes |-> {}, bits |-> len * 8]
  ELSE [bytes |-> {p \in i * AES_BLOCK .. i * AES_BLOCK + AES_BLOCK - 1 :
                     p < len},
        bits |-> 0]

-----------------------------------------------------------------------------
Buffers == {"a", "b"}

\* cudaMalloc leaves a node undefined: a product with H^0 occurs in no GHASH
\* value, so that a hash computed from this one is never mistaken for one.
Undefined == [y |-> {<<[bytes |-> {}, bits |-> 0], 0>>}, len_blocks |-> 0]

start(i) == i * GHASH_SEGMENT_BLOCKS
end_unclamped(i) == start(i) + GHASH_SEGMENT_BLOCKS

end(i)   == smaller(start(i) + GHASH_SEGMENT_BLOCKS,
                    total_terms(ciphertext_len))

Init ==
  /\ phase = "idle"
  /\ ciphertext_len = 0
  /\ node_capacity = 0
  /\ nodes = [b \in Buffers |-> [i \in {} |-> Undefined]]
  /\ in = "a" /\ out = "b"
  /\ count = 0
  /\ todo = {}
  /\ acc = [i \in {} |-> [y |-> {}, i |-> 0]]
  /\ span = 0

ensure_capacity_only(required) ==
  /\ node_capacity' = IF required <= node_capacity THEN node_capacity ELSE required
  /\ UNCHANGED nodes

\* ensure_workspace: a larger workspace replaces a smaller one, a
\* sufficient one is kept with whatever its nodes hold.
ensure_workspace(required) ==
  IF required <= node_capacity
  THEN UNCHANGED <<node_capacity, nodes>>
  ELSE /\ node_capacity' = required
       /\ nodes' = [b \in Buffers |-> [i \in 0 .. required - 1 |-> Undefined]]

\* enqueue_ghash: size the workspace and launch the segment kernel.
enqueue_ghash(len) ==
  /\ phase \in {"idle", "done"}
  /\ ciphertext_len' = len
  /\ ensure_workspace(required_nodes(len))
  /\ count' = required_nodes(len)
  /\ in' = "a" /\ out' = "b"
  /\ phase' = "segment"
  /\ todo' = launched(required_nodes(len))
  /\ acc' = [i \in launched(required_nodes(len)) |->
               [y |-> {}, i |-> start(i)]]
  /\ span' = GHASH_SEGMENT_BLOCKS

\* One iteration of the loop of ghash_segment_kernel in thread i.
SegmentStep(i) ==
  /\ phase = "segment"
  /\ i \in todo
  /\ acc[i].i < end(i)
  /\ acc' = [acc EXCEPT ![i] =
               [y |-> gf_mul_pow(
                         bxor(acc[i].y,
                              {<<load_ciphertext_term(ciphertext_len,
                                                      acc[i].i), 0>>}), 1),
                i |-> acc[i].i + 1]]
  /\ UNCHANGED <<phase, ciphertext_len, node_capacity, nodes, in, out, count,
                 todo, span>>

\* Thread i returns: early, when its segment lies past the last term, or
\* after it has stored its node.
SegmentReturn(i) ==
  /\ phase = "segment"
  /\ i \in todo
  /\ \/ /\ start(i) >= total_terms(ciphertext_len)
        /\ UNCHANGED nodes
     \/ /\ start(i) < total_terms(ciphertext_len)
        /\ acc[i].i >= end(i)
        /\ nodes' = [nodes EXCEPT !.a[i] =
                       [y |-> acc[i].y, len_blocks |-> end(i) - start(i)]]
  /\ todo' = todo \ {i}
  /\ UNCHANGED <<phase, ciphertext_len, node_capacity, in, out, count, acc,
                 span>>

combined_by_left_length(a, b) ==
  [y |-> bxor(gf_mul_pow(a.y, a.len_blocks), b.y),
   len_blocks |-> a.len_blocks + b.len_blocks]

\* GHASH(A || B) = GHASH(A) * H^LB xor GHASH(B).
combined(a, b) ==
  [y |-> bxor(gf_mul_pow(a.y, b.len_blocks), b.y),
   len_blocks |-> a.len_blocks + b.len_blocks]

\* What thread i of ghash_combine_kernel stores: an odd last node is copied.
reduced(i) ==
  IF 2 * i + 1 >= count
  THEN nodes[in][2 * i]
  ELSE combined(nodes[in][2 * i], nodes[in][2 * i + 1])

CombineReturn(i) ==
  /\ phase = "combine"
  /\ i \in todo
  /\ IF 2 * i >= count
     THEN UNCHANGED nodes
     ELSE nodes' = [nodes EXCEPT ![out][i] = reduced(i)]
  /\ todo' = todo \ {i}
  /\ UNCHANGED <<phase, ciphertext_len, node_capacity, in, out, count, acc,
                 span>>

\* The stream reaches the next kernel of the chain: the first combine
\* kernel reads what the segment kernel wrote, each later one reads the
\* buffer the previous one wrote and writes the other.
FirstCombine ==
  /\ phase = "segment"
  /\ todo = {}
  /\ count > 1
  /\ phase' = "combine"
  /\ todo' = launched((count + 1) \div 2)
  /\ acc' = [i \in {} |-> [y |-> {}, i |-> 0]]
  /\ UNCHANGED <<ciphertext_len, node_capacity, nodes, in, out, count, span>>

NextCombineFloor ==
  /\ phase = "combine"
  /\ todo = {}
  /\ in' = out /\ out' = in
  /\ count' = count \div 2
  /\ span' = 2 * span
  /\ IF count' > 1
     THEN phase' = phase /\ todo' = launched((count' + 1) \div 2)
     ELSE phase' = "done" /\ todo' = {}
  /\ UNCHANGED <<ciphertext_len, node_capacity, nodes, acc>>

NextCombineAgain ==
  /\ phase = "combine"
  /\ todo = {}
  /\ todo' = launched((count + 1) \div 2)
  /\ UNCHANGED <<phase, ciphertext_len, node_capacity, nodes, in, out, count,
                 acc, span>>

NextCombine ==
  /\ phase = "combine"
  /\ todo = {}
  /\ in' = out /\ out' = in
  /\ count' = (count + 1) \div 2
  /\ span' = 2 * span
  /\ IF count' > 1
     THEN phase' = phase /\ todo' = launched((count' + 1) \div 2)
     ELSE phase' = "done" /\ todo' = {}
  /\ UNCHANGED <<ciphertext_len, node_capacity, nodes, acc>>

\* A ciphertext of one segment needs no combine kernel.
SingleNode ==
  /\ phase = "segment"
  /\ todo = {}
  /\ count <= 1
  /\ phase' = "done"
  /\ acc' = [i \in {} |-> [y |-> {}, i |-> 0]]
  /\ UNCHANGED <<ciphertext_len, node_capacity, nodes, in, out, count, todo,
                 span>>

Device ==
  \/ \E i \in todo : SegmentStep(i) \/ SegmentReturn(i) \/ CombineReturn(i)
  \/ FirstCombine
  \/ NextCombine
  \/ SingleNode

Next ==
  \/ \E len \in Lengths : enqueue_ghash(len)
  \/ Device

\* The GPU runs every thread of a launched kernel and every kernel of a
\* stream; nothing obliges the host to start another operation.
Spec == Init /\ [][Next]_vars /\ WF_vars(Device)

-----------------------------------------------------------------------------
(* The GHASH of NIST SP 800-38D for no associated data, defined without    *)
(* looking at the kernels: the ciphertext is padded to a whole number of   *)
(* blocks, the length block follows, and of n blocks X_0 ... X_(n-1) the   *)
(* hash is the sum of the X_i * H^(n - i).                                 *)

GcmDataBlocks(len) ==
  CHOOSE n \in 0 .. len : n * AES_BLOCK >= len /\ (n - 1) * AES_BLOCK < len

GcmBlock(len, i) ==
  [bytes |-> {p \in 0 .. len - 1 :
                i * AES_BLOCK <= p /\ p < (i + 1) * AES_BLOCK},
   bits  |-> IF i = GcmDataBlocks(len) THEN 8 * len ELSE 0]

Ghash(len) ==
  {<<GcmBlock(len, i), GcmDataBlocks(len) + 1 - i>> :
     i \in 0 .. GcmDataBlocks(len)}

-----------------------------------------------------------------------------
(* Properties.                                                             *)

Term == [bytes : SUBSET Nat, bits : Nat]
Element == SUBSET (Term \X Nat)
Node == [y : Element, len_blocks : Nat]

\* The types of the variables: both workspace buffers hold node_capacity
\* nodes, and the two pointers of the chain never alias.
TypeOK ==
  /\ phase \in {"idle", "segment", "combine", "done"}
  /\ ciphertext_len \in Nat
  /\ node_capacity \in Nat
  /\ nodes \in [Buffers -> [0 .. node_capacity - 1 -> Node]]
  /\ in \in Buffers /\ out \in Buffers \ {in}
  /\ count \in Nat
  /\ todo \subseteq Nat
  /\ acc \in [DOMAIN acc -> [y : Element, i : Nat]]
  /\ span \in Nat

\* The node enqueue_ghash returns as the root of a finished chain is the
\* GHASH of the whole ciphertext, for every hash key: however the threads
\* interleaved, wherever an odd node was copied and whatever an earlier
\* operation left in the workspace.
RootIsGhash ==
  phase = "done" =>
    nodes[in][0] = [y |-> Ghash(ciphertext_len),
                    len_blocks |-> GcmDataBlocks(ciphertext_len) + 1]

\* No thread of a running kernel reads or writes past the workspace that
\* ensure_workspace sized before the launch, although more threads are
\* launched than there are nodes.
InBounds ==
  /\ phase = "segment" =>
       \A i \in todo : start(i) < total_terms(ciphertext_len) =>
                       i < node_capacity
  /\ phase = "combine" =>
       /\ count <= node_capacity
       /\ \A i \in todo : 2 * i < count => i < node_capacity

\* The hash of the terms lo .. hi - 1.
Segment(lo, hi) ==
  [y |-> {<<load_ciphertext_term(ciphertext_len, i), hi - i>> :
            i \in lo .. hi - 1},
   len_blocks |-> hi - lo]

\* Node i of a level whose full nodes cover s terms.
NodeOf(i, s) ==
  Segment(i * s, smaller((i + 1) * s, total_terms(ciphertext_len)))

\* Between kernels and within them every node written so far hashes exactly
\* its own range of terms: the registers of a running segment thread a
\* prefix of its segment, the nodes the combine kernel reads the ranges of
\* their level, the ones it has written the ranges of the next level.
NodesAreSegments ==
  /\ phase = "segment" =>
       \A i \in 0 .. count - 1 :
         IF i \in todo
         THEN acc[i].y = Segment(start(i), acc[i].i).y
         ELSE nodes.a[i] = NodeOf(i, span)
  /\ phase \in {"combine", "done"} =>
       \A i \in 0 .. count - 1 : nodes[in][i] = NodeOf(i, span)
  /\ phase = "combine" =>
       \A i \in 0 .. ((count + 1) \div 2) - 1 :
         i \notin todo => nodes[out][i] = NodeOf(i, 2 * span)

\* The count of a level is exactly what its ranges need, down to one node
\* over all the terms; it fits the workspace, and a running segment thread
\* stays within its own segment.
LevelsCover ==
  phase # "idle" =>
    /\ span > 0
    /\ (count - 1) * span < total_terms(ciphertext_len)
    /\ total_terms(ciphertext_len) <= count * span
    /\ count \in 1 .. node_capacity
    /\ phase = "done" => count = 1
    /\ phase = "combine" => count > 1
    /\ phase = "segment" =>
         /\ in = "a" /\ span = GHASH_SEGMENT_BLOCKS
         /\ todo \subseteq DOMAIN acc
         /\ \A i \in todo :
              /\ start(i) <= acc[i].i
              /\ start(i) < total_terms(ciphertext_len) => acc[i].i <= end(i)

\* Every chain of kernels ends: the halving of an odd count never stalls.
ChainEnds == phase = "segment" ~> phase = "done"

=============================================================================

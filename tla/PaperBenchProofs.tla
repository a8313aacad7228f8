-------------------------- MODULE PaperBenchProofs --------------------------
(***************************************************************************)
(* The samples of the paper benchmark are warm, come from backends that    *)
(* passed their check, are never overwritten, and a summary exists only of *)
(* complete files, for any modes, sizes, repetitions and iterations and    *)
(* for failures at any point.  What the summary states are medians of      *)
(* medians of what was measured.                                           *)
(***************************************************************************)
EXTENDS PaperBench, FiniteSetTheorems, TLAPS

Stages == {"warmup", "timed", "check", "write", "report"}
Backends == {"right", "wrong", "nothing"}
Buffers == [out : {"zero", "pattern", "frame", "garbage"}, cold : BOOLEAN]
Ids == [mode : STRING, size : Nat, rep : 1 .. PROCESS_REPEATS]

\* The row of the i-th timed operation of a process, whose pages are warm.
Row(id, i) ==
  [run_id |-> id, iteration |-> i - 1,
   total_ns |-> clock[id.rep][i - 1], minflt |-> 0]

Samples == [run_id : Ids, iteration : 0 .. ITERATIONS - 1,
            total_ns : Durations, minflt : {0, 1}]

Processes == [pc : Stages, id : Ids, backend : Backends, ops : Nat,
              rows : Seq(Samples), buf : Buffers]

Files == [rows : Seq(Samples), closed : BOOLEAN, backend : Backends]

Faithful(rows, id) == \A i \in 1 .. Len(rows) : rows[i] = Row(id, i)

\* The measured operation of these processes does not use the buffer.
Idle(p) == p.id.mode = "raw_aes" \/ p.backend = "nothing"

-----------------------------------------------------------------------------
(* Arithmetic of the runner's three loops.                                 *)

LEMMA Divided ==
  ASSUME NEW k \in Nat, NEW d \in Nat \ {0}
  PROVE  /\ k \div d \in Nat
         /\ k % d \in 0 .. d - 1
         /\ k = (k \div d) * d + (k % d)
<1>1. k \div d \in Int /\ k % d \in Int /\ 0 <= k % d /\ k % d < d
  OBVIOUS
<1>2. k = d * (k \div d) + (k % d)
  OBVIOUS
<1>3. k \div d >= 0
  OBVIOUS
<1>4. d * (k \div d) = (k \div d) * d
  BY <1>1
<1> QED BY <1>1, <1>2, <1>3, <1>4

LEMMA Quotient ==
  ASSUME NEW q \in Nat, NEW d \in Nat \ {0}, NEW r \in 0 .. d - 1
  PROVE  (q * d + r) \div d = q
<1> DEFINE n == q * d + r
           z == n \div d
<1>1. n \in Nat
  OBVIOUS
<1>2. z \in Nat /\ n % d \in 0 .. d - 1 /\ n = z * d + (n % d)
  BY <1>1, Divided
<1>3. CASE z < q
  <2>1. PICK e \in Nat : q = z + 1 + e
    <3>1. q - z - 1 \in Nat /\ q = z + 1 + (q - z - 1)
      BY <1>2, <1>3
    <3> QED BY <3>1
  <2>2. q * d = z * d + d + e * d /\ e * d >= 0
    BY <1>2, <2>1
  <2> QED BY <1>2, <2>2
<1>4. CASE q < z
  <2>1. PICK e \in Nat : z = q + 1 + e
    <3>1. z - q - 1 \in Nat /\ z = q + 1 + (z - q - 1)
      BY <1>2, <1>4
    <3> QED BY <3>1
  <2>2. z * d = q * d + d + e * d /\ e * d >= 0
    BY <1>2, <2>1
  <2> QED BY <1>2, <2>2
<1> QED BY <1>2, <1>3, <1>4

\* A number is known by its digits in the mixed base of the loops.
LEMMA Digits ==
  ASSUME NEW k \in Nat, NEW s \in Nat \ {0}, NEW p \in Nat \ {0}
  PROVE  /\ k \div (s * p) \in Nat
         /\ (k \div p) % s \in 0 .. s - 1
         /\ k % p \in 0 .. p - 1
         /\ k = (k \div (s * p)) * (s * p) + ((k \div p) % s) * p + (k % p)
<1> DEFINE q == k \div p
           r == k % p
           a == q \div s
           b == q % s
<1>1. q \in Nat /\ r \in 0 .. p - 1 /\ k = q * p + r
  BY Divided
<1>2. a \in Nat /\ b \in 0 .. s - 1 /\ q = a * s + b
  BY <1>1, Divided
<1> HIDE DEF q, r, a, b
<1>3. k = a * (s * p) + (b * p + r)
  BY <1>1, <1>2
<1>4. b * p + r \in 0 .. s * p - 1
  <2>1. PICK e \in Nat : s = b + 1 + e
    <3>1. s - b - 1 \in Nat /\ s = b + 1 + (s - b - 1)
      BY <1>2
    <3> QED BY <3>1
  <2>2. s * p = b * p + p + e * p /\ e * p >= 0 /\ b * p >= 0 /\ b * p \in Nat
    BY <1>2, <2>1
  <2> QED BY <1>1, <2>2
<1>5. s * p \in Nat \ {0}
  OBVIOUS
<1>6. k \div (s * p) = a
  BY <1>2, <1>3, <1>4, <1>5, Quotient
<1>7. (k \div p) % s = b /\ k % p = r
  BY DEF q, r, b
<1>8. b * p \in Int /\ a * (s * p) \in Int
  BY <1>1, <1>2
<1>9. k = a * (s * p) + b * p + r
  BY <1>1, <1>3, <1>8
<1> QED BY <1>1, <1>2, <1>6, <1>7, <1>9, Zenon

LEMMA PointsPositive ==
  ASSUME NEW k \in Nat, k < Points
  PROVE  /\ Len(MODES) \in Nat \ {0} /\ Len(SIZES_MIB) \in Nat \ {0}
         /\ PROCESS_REPEATS \in Nat \ {0}
<1>1. /\ Len(MODES) \in Nat /\ Len(SIZES_MIB) \in Nat
      /\ PROCESS_REPEATS \in Nat \ {0}
  BY ConstantsAssumption
<1>2. Len(MODES) # 0 /\ Len(SIZES_MIB) # 0
  BY <1>1 DEF Points
<1> QED BY <1>1, <1>2

\* A point of the loops is a mode, a size and a repetition.
LEMMA PointIsRun ==
  ASSUME NEW k \in Nat, k < Points
  PROVE  /\ k \div (Len(SIZES_MIB) * PROCESS_REPEATS) + 1 \in DOMAIN MODES
         /\ ((k \div PROCESS_REPEATS) % Len(SIZES_MIB)) + 1 \in DOMAIN SIZES_MIB
         /\ RUN_ID(k) \in Ids
<1> DEFINE M == Len(MODES)
           S == Len(SIZES_MIB)
           P == PROCESS_REPEATS
           a == k \div (S * P)
           b == (k \div P) % S
           c == k % P
<1>1. M \in Nat \ {0} /\ S \in Nat \ {0} /\ P \in Nat \ {0}
  BY PointsPositive
<1>2. a \in Nat /\ b \in 0 .. S - 1 /\ c \in 0 .. P - 1
      /\ k = a * (S * P) + b * P + c
  BY <1>1, Digits
<1>3. k < M * S * P
  BY DEF Points
<1>4. /\ RUN_ID(k) = [mode |-> MODES[a + 1], size |-> SIZES_MIB[b + 1], rep |-> c + 1]
  BY DEF RUN_ID
<1>5. DOMAIN MODES = 1 .. M /\ DOMAIN SIZES_MIB = 1 .. S
      /\ MODES \in [1 .. M -> STRING] /\ SIZES_MIB \in [1 .. S -> Nat \ {0}]
  BY ConstantsAssumption
<1>6. a < M
  <2> HIDE DEF M, S, P, a, b, c
  <2> SUFFICES ASSUME M <= a PROVE FALSE
    BY <1>1, <1>2
  <2>1. PICK e \in Nat : a = M + e
    <3>1. a - M \in Nat /\ a = M + (a - M)
      BY <1>1, <1>2
    <3> QED BY <3>1
  <2>2. S * P \in Nat /\ b * P \in Nat
    BY <1>1, <1>2
  <2>3. a * (S * P) = M * (S * P) + e * (S * P) /\ e * (S * P) >= 0
    BY <1>1, <2>1, <2>2
  <2>4. M * (S * P) = M * S * P /\ M * (S * P) \in Nat
    BY <1>1, <2>2
  <2> QED BY <1>2, <1>3, <2>2, <2>3, <2>4
<1> HIDE DEF a, b, c, M, S, P
<1>7. a + 1 \in 1 .. M /\ b + 1 \in 1 .. S /\ c + 1 \in 1 .. P
  BY <1>1, <1>2, <1>6
<1>8. MODES[a + 1] \in STRING /\ SIZES_MIB[b + 1] \in Nat
  BY <1>5, <1>7
<1>9. RUN_ID(k) \in Ids
  BY <1>4, <1>7, <1>8 DEF Ids, P
<1>10. a + 1 \in DOMAIN MODES /\ b + 1 \in DOMAIN SIZES_MIB
  BY <1>5, <1>7
<1> QED BY <1>9, <1>10 DEF a, b, S, P

\* No two points have the same identifier, so no two processes write one file.
LEMMA RunsDiffer ==
  ASSUME DistinctPoints, NEW j \in Nat, NEW k \in Nat, j < Points, k < Points,
         RUN_ID(j) = RUN_ID(k)
  PROVE  j = k
<1> DEFINE S == Len(SIZES_MIB)
           P == PROCESS_REPEATS
           a(n) == n \div (S * P)
           b(n) == (n \div P) % S
           c(n) == n % P
<1>1. S \in Nat \ {0} /\ P \in Nat \ {0}
  BY PointsPositive
<1>2. ASSUME NEW n \in Nat, n < Points
      PROVE  /\ RUN_ID(n) = [mode |-> MODES[a(n) + 1], size |-> SIZES_MIB[b(n) + 1],
                             rep |-> c(n) + 1]
             /\ a(n) + 1 \in DOMAIN MODES /\ b(n) + 1 \in DOMAIN SIZES_MIB
             /\ a(n) \in Nat /\ b(n) \in Nat /\ c(n) \in Nat
             /\ n = a(n) * (S * P) + b(n) * P + c(n)
  <2>1. a(n) + 1 \in DOMAIN MODES /\ b(n) + 1 \in DOMAIN SIZES_MIB
    BY <1>2, PointIsRun
  <2>2. /\ a(n) \in Nat /\ b(n) \in 0 .. S - 1 /\ c(n) \in 0 .. P - 1
        /\ n = a(n) * (S * P) + b(n) * P + c(n)
    BY <1>1, Digits
  <2>3. RUN_ID(n) = [mode |-> MODES[a(n) + 1], size |-> SIZES_MIB[b(n) + 1],
                     rep |-> c(n) + 1]
    BY DEF RUN_ID
  <2> HIDE DEF a, b, c, S, P
  <2> QED BY <1>1, <2>1, <2>2, <2>3
<1> HIDE DEF a, b, c, S, P
<1>3. /\ MODES[a(j) + 1] = MODES[a(k) + 1] /\ SIZES_MIB[b(j) + 1] = SIZES_MIB[b(k) + 1]
      /\ c(j) + 1 = c(k) + 1
  <2> DEFINE f == RUN_ID(j)
             g == RUN_ID(k)
  <2>1. f.mode = g.mode /\ f.size = g.size /\ f.rep = g.rep
    OBVIOUS
  <2> QED BY <1>2, <2>1
<1>4. a(j) + 1 = a(k) + 1 /\ b(j) + 1 = b(k) + 1
  BY <1>2, <1>3 DEF DistinctPoints, IsInjective
<1>5. a(j) = a(k) /\ b(j) = b(k) /\ c(j) = c(k)
  BY <1>2, <1>3, <1>4
<1> QED BY <1>2, <1>5

\* Every mode is measured at every size, in every repetition.
LEMMA PointsCover ==
  ASSUME NEW i \in DOMAIN MODES, NEW h \in DOMAIN SIZES_MIB, NEW rep \in 1 .. PROCESS_REPEATS
  PROVE  \E k \in Nat : /\ k < Points
                        /\ RUN_ID(k) = [mode |-> MODES[i], size |-> SIZES_MIB[h], rep |-> rep]
<1> DEFINE M == Len(MODES)
           S == Len(SIZES_MIB)
           P == PROCESS_REPEATS
<1>1. M \in Nat /\ S \in Nat /\ P \in Nat \ {0} /\ i \in 1 .. M /\ h \in 1 .. S
  BY ConstantsAssumption
<1>2. PICK f \in 0 .. M - 1 : i = f + 1
  <2>1. i - 1 \in 0 .. M - 1 /\ i = (i - 1) + 1
    BY <1>1
  <2> QED BY <2>1
<1>3. PICK g \in 0 .. S - 1 : h = g + 1
  <2>1. h - 1 \in 0 .. S - 1 /\ h = (h - 1) + 1
    BY <1>1
  <2> QED BY <2>1
<1>15. PICK r \in 0 .. P - 1 : rep = r + 1
  <2>1. rep - 1 \in 0 .. P - 1 /\ rep = (rep - 1) + 1
    BY <1>1
  <2> QED BY <2>1
<1>4. M \in Nat \ {0} /\ S \in Nat \ {0}
  BY <1>1
<1> DEFINE q == f * S + g
           k == q * P + r
           T == S * P
<1>5. M * T = Points
  <2>1. M * T = M * S * P
    BY <1>1
  <2> QED BY <2>1 DEF Points
<1>6. RUN_ID(k) = [mode |-> MODES[k \div T + 1],
                   size |-> SIZES_MIB[((k \div P) % S) + 1], rep |-> (k % P) + 1]
  BY DEF RUN_ID
<1> HIDE DEF M, S, P
<1>7. q \in Nat /\ q \div S = f /\ f \in Nat /\ g \in Nat
  BY <1>4, Quotient
<1>8. q % S = g
  <2> HIDE DEF q
  <2>1. q = (q \div S) * S + (q % S) /\ q % S \in 0 .. S - 1
    BY <1>4, <1>7, Divided
  <2>2. q = f * S + g
    BY DEF q
  <2>3. f * S \in Int
    BY <1>4, <1>7
  <2>4. q = f * S + (q % S) /\ q % S \in Int
    BY <1>4, <1>7, <2>1
  <2> QED BY <1>7, <2>2, <2>3, <2>4
<1>9. k \in Nat /\ k \div P = q /\ k % P = r /\ r \in Nat
  <2> HIDE DEF q
  <2>1. r \in Nat /\ k \in Nat
    BY <1>1, <1>7
  <2>2. k \div P = q
    BY <1>1, <1>7, Quotient
  <2>4. k = q * P + r /\ q * P \in Nat
    BY <1>1, <1>7
  <2> HIDE DEF k
  <2>3. k = q * P + (k % P) /\ k % P \in 0 .. P - 1
    <3>1. k = (k \div P) * P + (k % P) /\ k % P \in 0 .. P - 1
      BY <1>1, <2>1, Divided
    <3> QED BY <2>2, <3>1
  <2> QED BY <2>1, <2>2, <2>3, <2>4
<1>10. k = f * T + (g * P + r)
  BY <1>4, <1>7, <1>1, <1>9
<1>11. g * P + r \in 0 .. T - 1 /\ T \in Nat \ {0}
  <2>1. PICK e \in Nat : S = g + 1 + e
    <3>1. S - g - 1 \in Nat /\ S = g + 1 + (S - g - 1)
      BY <1>4
    <3> QED BY <3>1
  <2>2. S * P = g * P + P + e * P /\ e * P >= 0 /\ g * P \in Nat /\ e * P \in Nat
    BY <1>1, <1>7, <2>1
  <2> QED BY <1>1, <1>9, <2>2
<1> HIDE DEF T
<1>12. k \div T = f
  BY <1>7, <1>10, <1>11, Quotient
<1>13. k < Points
  <2>1. PICK e \in Nat : M = f + 1 + e
    <3>1. M - f - 1 \in Nat /\ M = f + 1 + (M - f - 1)
      BY <1>4
    <3> QED BY <3>1
  <2>2. M * T = f * T + T + e * T /\ e * T >= 0 /\ f * T \in Nat /\ e * T \in Nat
    BY <1>7, <1>11, <2>1
  <2> HIDE DEF k
  <2> QED BY <1>5, <1>10, <1>11, <2>2
<1> HIDE DEF k, q
<1>14. RUN_ID(k) = [mode |-> MODES[i], size |-> SIZES_MIB[h], rep |-> rep]
  BY <1>2, <1>3, <1>6, <1>8, <1>9, <1>12, <1>15
<1> QED BY <1>9, <1>13, <1>14

-----------------------------------------------------------------------------
(* Sorting and medians.                                                    *)

\* The elements that come before x.
Before(S, before, x) == {y \in S : <<y, x>> \in before}

\* The order before is total on S and strict.
Linear(S, before) ==
  /\ \A x \in S : <<x, x>> \notin before
  /\ \A x, y, z \in S : <<x, y>> \in before /\ <<y, z>> \in before => <<x, z>> \in before
  /\ \A x, y \in S : x # y => <<x, y>> \in before \/ <<y, x>> \in before

\* p lists the elements of S, once each, in the order before.
Lists(p, n, S, before) ==
  /\ p \in [1 .. n -> S]
  /\ \A j, k \in 1 .. n : j < k => <<p[j], p[k]>> \in before
  /\ \A x \in S : \E k \in 1 .. n : p[k] = x
  /\ \A j, k \in 1 .. n : p[j] = p[k] => j = k

\* In a total order the elements have different numbers of predecessors, from 0
\* to n - 1, so that for each number there is one element to be chosen.
LEMMA SortedSequence ==
  ASSUME NEW n \in Nat, NEW S, IsFiniteSet(S), Cardinality(S) = n, NEW before,
         Linear(S, before), NEW p, p = Sorted(S, before)
  PROVE  Lists(p, n, S, before)
<1> DEFINE place == [x \in S |-> Cardinality(Before(S, before, x)) + 1]
<1>1. /\ n \in Nat
      /\ \A x \in S : <<x, x>> \notin before
      /\ \A x, y, z \in S : <<x, y>> \in before /\ <<y, z>> \in before => <<x, z>> \in before
      /\ \A x, y \in S : x # y => <<x, y>> \in before \/ <<y, x>> \in before
  BY DEF Linear
<1>2. ASSUME NEW x \in S
      PROVE  /\ IsFiniteSet(Before(S, before, x))
             /\ Cardinality(Before(S, before, x)) \in 0 .. n - 1
  <2>1. Before(S, before, x) \subseteq S \ {x}
    BY <1>1 DEF Before
  <2>2. IsFiniteSet(S \ {x}) /\ Cardinality(S \ {x}) = n - 1
    BY FS_RemoveElement
  <2>3. IsFiniteSet(Before(S, before, x)) /\ Cardinality(Before(S, before, x)) <= n - 1
    BY <2>1, <2>2, FS_Subset
  <2> QED BY <1>1, <2>3, FS_CardinalityType
<1>3. ASSUME NEW x \in S, NEW y \in S, <<x, y>> \in before
      PROVE  place[x] < place[y]
  <2>1. Before(S, before, x) \subseteq Before(S, before, y)
    BY <1>1, <1>3 DEF Before
  <2>2. x \in Before(S, before, y) /\ x \notin Before(S, before, x)
    BY <1>1, <1>3 DEF Before
  <2>3. Cardinality(Before(S, before, x)) <= Cardinality(Before(S, before, y))
        /\ Cardinality(Before(S, before, x)) # Cardinality(Before(S, before, y))
    BY <1>2, <2>1, <2>2, FS_Subset
  <2> QED BY <1>2, <2>3
<1>4. place \in [S -> 1 .. n]
  BY <1>1, <1>2
<1>5. \A x, y \in S : place[x] = place[y] => x = y
  <2> SUFFICES ASSUME NEW x \in S, NEW y \in S, place[x] = place[y], x # y PROVE FALSE
    OBVIOUS
  <2>1. place[x] < place[y] \/ place[y] < place[x]
    BY <1>1, <1>3
  <2> HIDE DEF place
  <2> QED BY <1>4, <2>1
<1>6. \A k \in 1 .. n : \E x \in S : place[x] = k
  <2>1. place \in Injection(S, 1 .. n)
    BY <1>4, <1>5 DEF Injection, IsInjective
  <2>2. IsFiniteSet(1 .. n) /\ Cardinality(1 .. n) = n
    BY <1>1, FS_Interval
  <2>3. place \in Surjection(S, 1 .. n)
    BY <2>1, <2>2, FS_Injection
  <2> QED BY <2>3 DEF Surjection
<1>7. ASSUME NEW k \in 1 .. n
      PROVE  p[k] \in S /\ place[p[k]] = k
  <2>1. p[k] = CHOOSE x \in S : Cardinality(Before(S, before, x)) = k - 1
    BY DEF Sorted, Before
  <2>2. PICK x \in S : place[x] = k
    BY <1>6
  <2>3. Cardinality(Before(S, before, x)) = k - 1
    BY <1>1, <1>2, <2>2
  <2>4. p[k] \in S /\ Cardinality(Before(S, before, p[k])) = k - 1
    BY <2>1, <2>3
  <2> QED BY <1>1, <2>4
<1>8. p \in [1 .. n -> S]
  BY <1>7 DEF Sorted
<1>9. ASSUME NEW j \in 1 .. n, NEW k \in 1 .. n, j < k
      PROVE  <<p[j], p[k]>> \in before
  <2>1. p[j] # p[k]
    <3>1. place[p[j]] = j /\ place[p[k]] = k
      BY <1>7
    <3> HIDE DEF place
    <3> QED BY <1>9, <3>1
  <2>2. <<p[k], p[j]>> \notin before
    <3> SUFFICES ASSUME <<p[k], p[j]>> \in before PROVE FALSE
      OBVIOUS
    <3>1. place[p[k]] < place[p[j]]
      BY <1>3, <1>7
    <3> HIDE DEF place
    <3> QED BY <1>1, <1>7, <1>9, <3>1
  <2> QED BY <1>1, <1>7, <2>1, <2>2
<1>10. ASSUME NEW x \in S PROVE \E k \in 1 .. n : p[k] = x
  <2>1. place[x] \in 1 .. n
    BY <1>4
  <2>2. p[place[x]] \in S /\ place[p[place[x]]] = place[x]
    BY <1>7, <2>1
  <2> QED BY <1>5, <2>1, <2>2
<1>11. ASSUME NEW j \in 1 .. n, NEW k \in 1 .. n, p[j] = p[k] PROVE j = k
  <2>1. place[p[j]] = j /\ place[p[k]] = k
    BY <1>7
  <2> HIDE DEF place
  <2> QED BY <1>11, <2>1
<1> QED BY <1>1, <1>8, <1>9, <1>10, <1>11 DEF Lists

\* A sequence that lists S in the right order is the sorted one.
LEMMA SortedIs ==
  ASSUME NEW n \in Nat, NEW S, NEW q \in Bijection(1 .. n, S), NEW before,
         \A j, k \in 1 .. n : <<q[j], q[k]>> \in before <=> j < k
  PROVE  Cardinality(S) = n /\ Sorted(S, before) = q
<1>1. /\ q \in [1 .. n -> S]
      /\ \A x \in S : \E k \in 1 .. n : q[k] = x
      /\ \A j, k \in 1 .. n : q[j] = q[k] => j = k
  BY DEF Bijection, Injection, IsInjective, Surjection
<1>2. Cardinality(S) = n
  BY FS_CountingElements DEF ExistsBijection
<1>3. ASSUME NEW k \in 1 .. n
      PROVE  Cardinality(Before(S, before, q[k])) = k - 1
  <2> DEFINE r == [j \in 1 .. k - 1 |-> q[j]]
             B == Before(S, before, q[k])
  <2>1. \A y : y \in B <=> \E j \in 1 .. k - 1 : r[j] = y
    BY <1>1 DEF Before
  <2>2. r \in [1 .. k - 1 -> B]
    BY <2>1
  <2>3. \A i, j \in 1 .. k - 1 : r[i] = r[j] => i = j
    BY <1>1
  <2>4. r \in Bijection(1 .. k - 1, B)
    BY <2>1, <2>2, <2>3 DEF Bijection, Injection, IsInjective, Surjection
  <2> QED BY <2>4, FS_CountingElements DEF ExistsBijection
<1>4. ASSUME NEW k \in 1 .. n
      PROVE  (CHOOSE x \in S : Cardinality(Before(S, before, x)) = k - 1) = q[k]
  <2>1. q[k] \in S /\ Cardinality(Before(S, before, q[k])) = k - 1
    BY <1>1, <1>3
  <2>2. ASSUME NEW x \in S, Cardinality(Before(S, before, x)) = k - 1 PROVE x = q[k]
    <3>1. PICK j \in 1 .. n : q[j] = x
      BY <1>1
    <3>2. j - 1 = k - 1
      BY <1>3, <2>2, <3>1
    <3> QED BY <3>1, <3>2
  <2> QED BY <2>1, <2>2
<1> QED BY <1>1, <1>2, <1>4 DEF Sorted, Before

\* The positions o of the sequence f list its values in ascending order.
Ascending(f, o) ==
  /\ o \in [DOMAIN f -> DOMAIN f]
  /\ \A i \in DOMAIN f : \E k \in DOMAIN f : o[k] = i
  /\ \A j, k \in DOMAIN f : o[j] = o[k] => j = k
  /\ \A j, k \in DOMAIN f : j < k => f[o[j]] <= f[o[k]]

LEMMA SortedAscends ==
  ASSUME NEW n \in Nat, NEW f \in [1 .. n -> Int], NEW before,
         \A i, j \in 1 .. n :
           <<i, j>> \in before <=> f[i] < f[j] \/ (f[i] = f[j] /\ i < j)
  PROVE  Ascending(f, Sorted(1 .. n, before))
<1>0. PICK S, o : S = 1 .. n /\ o = Sorted(S, before)
  OBVIOUS
<1>1. IsFiniteSet(S) /\ Cardinality(S) = n
  BY <1>0, FS_Interval
<1>2. Linear(S, before)
  BY <1>0 DEF Linear
<1>3. /\ o \in [S -> S]
      /\ \A j, k \in S : j < k => <<o[j], o[k]>> \in before
      /\ \A i \in S : \E k \in S : o[k] = i
      /\ \A j, k \in S : o[j] = o[k] => j = k
  <2>1. Lists(o, n, S, before)
    BY <1>0, <1>1, <1>2, SortedSequence
  <2> QED BY <1>0, <2>1 DEF Lists
<1>4. ASSUME NEW j \in S, NEW k \in S, j < k PROVE f[o[j]] <= f[o[k]]
  <2>1. PICK a \in 1 .. n, b \in 1 .. n : a = o[j] /\ b = o[k]
    BY <1>0, <1>3
  <2>2. <<a, b>> \in before
    BY <1>3, <1>4, <2>1
  <2>3. f[a] <= f[b]
    BY <2>2
  <2> QED BY <2>1, <2>3
<1>5. DOMAIN f = S
  BY <1>0
<1>6. Ascending(f, o)
  BY <1>3, <1>4, <1>5 DEF Ascending
<1> QED BY <1>0, <1>6

\* The two orders of the statistics: values, and throughputs of one size.
LEMMA OrderTimes ==
  ASSUME NEW n \in Nat, NEW f \in [1 .. n -> Int], NEW less,
         less = {e \in (1 .. n) \X (1 .. n) : f[e[1]] < f[e[2]]}
  PROVE  Ascending(f, Order(1 .. n, less))
<1> DEFINE before == less \cup {e \in (1 .. n) \X (1 .. n) :
                                 <<e[2], e[1]>> \notin less /\ e[1] < e[2]}
<1>1. Order(1 .. n, less) = Sorted(1 .. n, before)
  BY DEF Order
<1>2. ASSUME NEW i \in 1 .. n, NEW j \in 1 .. n
      PROVE  <<i, j>> \in before <=> f[i] < f[j] \/ (f[i] = f[j] /\ i < j)
  <2>1. f[i] \in Int /\ f[j] \in Int
    OBVIOUS
  <2>2. (<<i, j>> \in less <=> f[i] < f[j]) /\ (<<j, i>> \in less <=> f[j] < f[i])
    OBVIOUS
  <2>3. <<i, j>> \in before <=> <<i, j>> \in less \/ (<<j, i>> \notin less /\ i < j)
    OBVIOUS
  <2> HIDE DEF before
  <2> QED BY <2>1, <2>2, <2>3
<1> HIDE DEF before
<1> QED BY <1>1, <1>2, SortedAscends

\* f are the throughputs of one size and the latencies d, less their order and g
\* what ascends with it.
Throughputs(n, size, d, f, less, g) ==
  /\ f = [i \in 1 .. n |-> [num |-> size, den |-> d[i]]]
  /\ less = {e \in (1 .. n) \X (1 .. n) :
               f[e[1]].num * f[e[2]].den < f[e[2]].num * f[e[1]].den}
  /\ g = [i \in 1 .. n |-> 0 - d[i]]

\* Throughputs of one size ascend as the latencies descend.
LEMMA OrderRates ==
  ASSUME NEW n \in Nat, NEW size \in Nat \ {0}, NEW d \in [1 .. n -> Nat],
         NEW f, NEW less, NEW g, Throughputs(n, size, d, f, less, g)
  PROVE  Ascending(g, Order(1 .. n, less))
<1>0. /\ f = [i \in 1 .. n |-> [num |-> size, den |-> d[i]]]
      /\ less = {e \in (1 .. n) \X (1 .. n) :
                   f[e[1]].num * f[e[2]].den < f[e[2]].num * f[e[1]].den}
      /\ g = [i \in 1 .. n |-> 0 - d[i]]
  BY DEF Throughputs
<1> DEFINE before == less \cup {e \in (1 .. n) \X (1 .. n) :
                                 <<e[2], e[1]>> \notin less /\ e[1] < e[2]}
<1>1. Order(1 .. n, less) = Sorted(1 .. n, before)
  BY DEF Order
<1>2. g \in [1 .. n -> Int]
  BY <1>0
<1>3. ASSUME NEW i \in 1 .. n, NEW j \in 1 .. n
      PROVE  <<i, j>> \in before <=> g[i] < g[j] \/ (g[i] = g[j] /\ i < j)
  <2>1. PICK x \in Nat, y \in Nat : x = d[i] /\ y = d[j]
    OBVIOUS
  <2>2. /\ f[i].num = size /\ f[i].den = x /\ g[i] = 0 - x
        /\ f[j].num = size /\ f[j].den = y /\ g[j] = 0 - y
    BY <1>0, <2>1
  <2>3. <<i, j>> \in before
          <=> \/ f[i].num * f[j].den < f[j].num * f[i].den
              \/ ~ (f[j].num * f[i].den < f[i].num * f[j].den) /\ i < j
    <3>1. <<i, j>> \in less <=> f[i].num * f[j].den < f[j].num * f[i].den
      BY <1>0
    <3>2. <<j, i>> \in less <=> f[j].num * f[i].den < f[i].num * f[j].den
      BY <1>0
    <3>3. <<i, j>> \in before <=> <<i, j>> \in less \/ (<<j, i>> \notin less /\ i < j)
      OBVIOUS
    <3> QED BY <3>1, <3>2, <3>3
  <2>4. <<i, j>> \in before
          <=> size * y < size * x \/ (~ (size * x < size * y) /\ i < j)
    BY <2>2, <2>3
  <2>5. (size * y < size * x <=> y < x) /\ (size * x < size * y <=> x < y)
    OBVIOUS
  <2>6. <<i, j>> \in before <=> y < x \/ (~ (x < y) /\ i < j)
    BY <2>4, <2>5
  <2> HIDE DEF before
  <2> QED BY <2>2, <2>6
<1> HIDE DEF before
<1>4. Ascending(g, Sorted(1 .. n, before))
  <2> QED BY <1>2, <1>3, SortedAscends
<1> QED BY <1>1, <1>4

\* The first l positions of an injective sequence are l.
LEMMA FirstPlaces ==
  ASSUME NEW n \in Nat, NEW o \in [1 .. n -> 1 .. n], IsInjective(o),
         NEW l \in 0 .. n
  PROVE  IsFiniteSet({o[j] : j \in 1 .. l}) /\ Cardinality({o[j] : j \in 1 .. l}) = l
<1> DEFINE I == {o[j] : j \in 1 .. l}
           r == [j \in 1 .. l |-> o[j]]
<1>1. l \in Nat /\ \A j \in 1 .. l : j \in 1 .. n
  OBVIOUS
<1>2. r \in [1 .. l -> I]
  OBVIOUS
<1>3. \A i, j \in 1 .. l : r[i] = r[j] => i = j
  <2>1. \A j \in 1 .. l : r[j] = o[j]
    OBVIOUS
  <2> HIDE DEF r
  <2> QED BY <1>1, <2>1 DEF IsInjective
<1>4. \A y \in I : \E j \in 1 .. l : r[j] = y
  OBVIOUS
<1>5. r \in Bijection(1 .. l, I)
  <2> HIDE DEF r, I
  <2> QED BY <1>2, <1>3, <1>4 DEF Bijection, Injection, IsInjective, Surjection
<1> HIDE DEF r, I
<1>6. ExistsBijection(1 .. l, I) /\ IsFiniteSet(1 .. l) /\ Cardinality(1 .. l) = l
  BY <1>1, <1>5, FS_Interval DEF ExistsBijection
<1>7. IsFiniteSet(I) /\ Cardinality(I) = l
  BY <1>6, FS_Bijection
<1> QED BY <1>7 DEF I

\* The k-th value in ascending order is the k-th smallest.
LEMMA AscendingRanks ==
  ASSUME NEW n \in Nat, NEW f \in [1 .. n -> Int], NEW o, Ascending(f, o), NEW k \in 1 .. n
  PROVE  Ranked(f, k, f[o[k]])
<1> DEFINE x == f[o[k]]
           Less == {i \in 1 .. n : f[i] < x}
           Most == {i \in 1 .. n : f[i] <= x}
           Firsts(l) == {o[j] : j \in 1 .. l}
<1>1. /\ o \in [1 .. n -> 1 .. n]
      /\ \A i \in 1 .. n : \E j \in 1 .. n : o[j] = i
      /\ \A i, j \in 1 .. n : o[i] = o[j] => i = j
      /\ \A i, j \in 1 .. n : i < j => f[o[i]] <= f[o[j]]
  BY DEF Ascending
<1>2. \A i \in 1 .. n : o[i] \in 1 .. n /\ f[o[i]] \in Int
  BY <1>1
<1>3. IsFiniteSet(1 .. n)
  BY FS_Interval
<1>4. Less \subseteq 1 .. n /\ Most \subseteq 1 .. n
  OBVIOUS
<1>5. ASSUME NEW l \in 0 .. n PROVE IsFiniteSet(Firsts(l)) /\ Cardinality(Firsts(l)) = l
  <2>1. o \in [1 .. n -> 1 .. n] /\ IsInjective(o)
    BY <1>1 DEF IsInjective
  <2> HIDE DEF x, Less, Most
  <2> QED BY <2>1, FirstPlaces
<1>0. PICK c \in 1 .. n : c = o[k] /\ x = f[c]
  BY <1>1
<1>6. Less \subseteq Firsts(k - 1)
  <2> SUFFICES ASSUME NEW i \in 1 .. n, f[i] < x PROVE i \in Firsts(k - 1)
    OBVIOUS
  <2>0. f[i] < x
    OBVIOUS
  <2>1. PICK j \in 1 .. n : o[j] = i
    BY <1>1
  <2>2. ~ (k < j) /\ j # k
    <3>1. k < j => f[o[k]] <= f[o[j]]
      BY <1>1
    <3>2. f[i] \in Int /\ f[c] \in Int /\ x = f[c] /\ o[k] = c
      BY <1>0
    <3> HIDE DEF x
    <3> QED BY <2>0, <2>1, <3>1, <3>2
  <2>3. j \in 1 .. k - 1
    BY <2>2
  <2> QED BY <2>1, <2>3
<1>7. Firsts(k) \subseteq Most
  <2> SUFFICES ASSUME NEW j \in 1 .. k PROVE o[j] \in 1 .. n /\ f[o[j]] <= x
    OBVIOUS
  <2>1. j \in 1 .. n /\ (j < k \/ j = k)
    OBVIOUS
  <2>2. PICK i \in 1 .. n : i = o[j]
    BY <1>1, <2>1
  <2>3. f[i] <= f[c]
    <3>1. j < k => f[o[j]] <= f[o[k]]
      BY <1>1, <2>1
    <3>2. f[i] \in Int /\ f[c] \in Int /\ o[k] = c
      BY <1>0
    <3> QED BY <2>1, <2>2, <3>1, <3>2
  <2> QED BY <1>0, <2>2, <2>3
<1> HIDE DEF Less, Most, Firsts
<1>8. k \in 0 .. n /\ k - 1 \in 0 .. n
  OBVIOUS
<1>9. Cardinality(Less) <= k - 1 /\ Cardinality(Less) \in Nat
  <2>1. IsFiniteSet(Less)
    BY <1>3, <1>4, FS_Subset
  <2> QED BY <1>5, <1>6, <1>8, <2>1, FS_Subset, FS_CardinalityType
<1>10. k <= Cardinality(Most)
  <2>1. IsFiniteSet(Most)
    BY <1>3, <1>4, FS_Subset
  <2> QED BY <1>5, <1>7, <1>8, <2>1, FS_Subset
<1>11. Cardinality(Less) < k
  BY <1>9
<1>12. DOMAIN f = 1 .. n
  OBVIOUS
<1> QED BY <1>10, <1>11, <1>12 DEF Ranked, Less, Most

LEMMA MiddleIs ==
  ASSUME NEW n \in Nat \ {0}
  PROVE  /\ (n + 1) \div 2 \in 1 .. n /\ n \div 2 + 1 \in 1 .. n
         /\ Middle(n)[1] = (n + 1) \div 2 /\ Middle(n)[2] = n \div 2 + 1
         /\ n % 2 = 1 => n = 2 * ((n + 1) \div 2) - 1 /\ n \div 2 + 1 = (n + 1) \div 2
BY DEF Middle

\* A median is computed from the values in the middle.
LEMMA MedianTimeIs ==
  ASSUME NEW n \in Nat \ {0}, NEW f \in [1 .. n -> Int]
  PROVE  \E i, j \in 1 .. n :
           /\ Ranked(f, (n + 1) \div 2, f[i]) /\ Ranked(f, n \div 2 + 1, f[j])
           /\ MedianTime(f) = (f[i] + f[j]) \div 2
           /\ n % 2 = 1 => i = j
<1> DEFINE less == {e \in (1 .. n) \X (1 .. n) : f[e[1]] < f[e[2]]}
<1>1. PICK o : o = Order(1 .. n, less)
  OBVIOUS
<1>2. Ascending(f, o)
  BY <1>1, OrderTimes
<1>3. o \in [1 .. n -> 1 .. n]
  BY <1>2 DEF Ascending
<1>4. PICK k \in 1 .. n, l \in 1 .. n :
        /\ k = (n + 1) \div 2 /\ l = n \div 2 + 1
        /\ Middle(n)[1] = k /\ Middle(n)[2] = l
        /\ n % 2 = 1 => k = l
  BY MiddleIs
<1>5. MedianTime(f) = (f[o[k]] + f[o[l]]) \div 2
  <2>1. Len(f) = n /\ DOMAIN f = 1 .. n
    OBVIOUS
  <2>2. MedianTime(f) = (f[o[Middle(n)[1]]] + f[o[Middle(n)[2]]]) \div 2
    BY <1>1, <2>1 DEF MedianTime
  <2> QED BY <1>4, <2>2
<1>6. Ranked(f, k, f[o[k]]) /\ Ranked(f, l, f[o[l]])
  BY <1>2, AscendingRanks
<1>7. PICK i \in 1 .. n, j \in 1 .. n : i = o[k] /\ j = o[l]
  BY <1>3
<1> QED BY <1>4, <1>5, <1>6, <1>7

\* The median throughput is the one of the latency in the middle.
MiddleRate(n, size, d, rates) ==
  \E y \in Nat :
    /\ Ranked([i \in 1 .. n |-> 0 - d[i]], (n + 1) \div 2, 0 - y)
    /\ MedianRate(rates) = [num |-> size * y + size * y, den |-> 2 * y * y]

LEMMA MedianRateIs ==
  ASSUME NEW n \in Nat \ {0}, n % 2 = 1, NEW size \in Nat \ {0}, NEW d \in [1 .. n -> Nat],
         NEW f, f = [i \in 1 .. n |-> [num |-> size, den |-> d[i]]]
  PROVE  MiddleRate(n, size, d, f)
<1> DEFINE g == [i \in 1 .. n |-> 0 - d[i]]
<1> DEFINE less == {e \in (1 .. n) \X (1 .. n) :
                      f[e[1]].num * f[e[2]].den < f[e[2]].num * f[e[1]].den}
<1>1. PICK o : o = Order(1 .. n, less)
  OBVIOUS
<1>2. Ascending(g, o)
  <2>1. Throughputs(n, size, d, f, less, g)
    BY DEF Throughputs
  <2> HIDE DEF g, less
  <2> QED BY <1>1, <2>1, OrderRates
<1>3. PICK k \in 1 .. n :
        k = (n + 1) \div 2 /\ Middle(n)[1] = k /\ Middle(n)[2] = k
  BY MiddleIs
<1>4. g \in [1 .. n -> Int] /\ DOMAIN g = 1 .. n
  OBVIOUS
<1> HIDE DEF g
<1>5. PICK i \in 1 .. n : i = o[k]
  BY <1>2, <1>4 DEF Ascending
<1>6. Ranked(g, k, g[i])
  BY <1>2, <1>4, <1>5, AscendingRanks
<1>7. f[i].num = size /\ f[i].den = d[i] /\ d[i] \in Nat /\ g[i] = 0 - d[i]
  BY DEF g
<1>8. MedianRate(f) = [num |-> f[i].num * f[i].den + f[i].num * f[i].den,
                       den |-> 2 * f[i].den * f[i].den]
  <2>1. Len(f) = n /\ DOMAIN f = 1 .. n
    OBVIOUS
  <2> QED BY <1>1, <1>3, <1>5, <2>1 DEF MedianRate
<1>9. MedianRate(f) = [num |-> size * d[i] + size * d[i], den |-> 2 * d[i] * d[i]]
  BY <1>7, <1>8
<1> QED BY <1>3, <1>6, <1>7, <1>9 DEF g, MiddleRate

LEMMA Positions ==
  ASSUME NEW n \in Nat, NEW T, T \subseteq 1 .. n
  PROVE  IsFiniteSet(T) /\ Cardinality(T) \in Nat /\ Cardinality(T) <= n
<1>1. IsFiniteSet(1 .. n) /\ Cardinality(1 .. n) = n
  BY FS_Interval
<1>2. IsFiniteSet(T) /\ Cardinality(T) <= n
  BY <1>1, FS_Subset
<1> QED BY <1>2, FS_CardinalityType

\* The value in the middle from below is the one in the middle from above.
LEMMA OneMiddle ==
  ASSUME NEW n \in Nat, NEW k \in Nat, n = 2 * k - 1, NEW f \in [1 .. n -> Int],
         NEW x \in Int, NEW y \in Int,
         Ranked(f, k, x), Ranked([i \in 1 .. n |-> 0 - f[i]], k, 0 - y)
  PROVE  x = y
<1> DEFINE Less == {i \in 1 .. n : f[i] < x}
           Most == {i \in 1 .. n : f[i] <= x}
           More == {i \in 1 .. n : y < f[i]}
           Least == {i \in 1 .. n : y <= f[i]}
           g == [i \in 1 .. n |-> 0 - f[i]]
<1>1. IsFiniteSet(1 .. n) /\ Cardinality(1 .. n) = n
  BY FS_Interval
<1>2. ASSUME NEW T, T \subseteq 1 .. n
      PROVE  IsFiniteSet(T) /\ Cardinality(T) \in Nat /\ Cardinality(T) <= n
  BY <1>2, Positions
<1>3. Cardinality(Less) < k /\ k <= Cardinality(Most)
  BY DEF Ranked
<1>4. Cardinality(More) < k /\ k <= Cardinality(Least)
  <2>1. DOMAIN g = 1 .. n
    OBVIOUS
  <2>2. {i \in 1 .. n : g[i] < 0 - y} = More
    OBVIOUS
  <2>3. {i \in 1 .. n : g[i] <= 0 - y} = Least
    OBVIOUS
  <2> HIDE DEF g, More, Least
  <2>4. Ranked(g, k, 0 - y)
    BY DEF g
  <2> QED BY <2>1, <2>2, <2>3, <2>4 DEF Ranked
<1>5. Less \subseteq 1 .. n /\ Most \subseteq 1 .. n /\ More \subseteq 1 .. n /\ Least \subseteq 1 .. n
  OBVIOUS
<1>6. ASSUME NEW A, NEW B, A \subseteq 1 .. n, B \subseteq 1 .. n
      PROVE  Cardinality(A \cup B) = Cardinality(A) + Cardinality(B) - Cardinality(A \cap B)
  BY <1>2, <1>6, FS_Union
<1>7. CASE x < y
  <2>1. Most \cap Least = {}
    BY <1>7
  <2>2. Most \cup Least \subseteq 1 .. n
    BY <1>5
  <2> HIDE DEF Most, Least
  <2>3. Cardinality(Most \cap Least) = 0
    BY <2>1, FS_EmptySet
  <2>4. Cardinality(Most \cup Least) <= n
    BY <1>2, <2>2
  <2>5. Cardinality(Most \cup Least) = Cardinality(Most) + Cardinality(Least) - 0
    BY <1>5, <1>6, <2>3
  <2>6. Cardinality(Most) \in Nat /\ Cardinality(Least) \in Nat
    BY <1>2, <1>5
  <2> QED BY <1>3, <1>4, <2>4, <2>5, <2>6
<1>8. CASE y < x
  <2>1. Less \cup More = 1 .. n
    BY <1>8
  <2> HIDE DEF Less, More
  <2>2. Cardinality(Less \cap More) \in Nat
    BY <1>2, <1>5
  <2>3. n = Cardinality(Less) + Cardinality(More) - Cardinality(Less \cap More)
    BY <1>1, <1>5, <1>6, <2>1
  <2>4. Cardinality(Less) \in Nat /\ Cardinality(More) \in Nat
    BY <1>2, <1>5
  <2> QED BY <1>3, <1>4, <2>2, <2>3, <2>4
<1> QED BY <1>7, <1>8

-----------------------------------------------------------------------------
(* What a process and its file hold, whatever fails.                       *)

\* A process is always at the runner's point, and the clock has a time for
\* every operation it measures.
Types ==
  /\ clock \in [1 .. PROCESS_REPEATS -> [0 .. ITERATIONS - 1 -> Durations]]
  /\ runner \in {"loop", "summarize", "aggregate", "done", "failed"}
  /\ point \in Nat
  /\ proc \in Processes \cup {NoProcess}
  /\ DOMAIN raw \subseteq Ids /\ raw \in [DOMAIN raw -> Files]
  /\ proc # NoProcess => runner = "loop" /\ point < Points /\ proc.id = RUN_ID(point)

\* From the first operation of the warm-up on, the pages are touched; one
\* row for each timed operation; a backend that is not right never leaves
\* what its check looks for.
Measured(p) ==
  /\ p.pc = "warmup" => p.ops <= WARMUP /\ p.rows = <<>>
  /\ p.pc = "timed" => p.ops <= ITERATIONS /\ Len(p.rows) = p.ops
  /\ p.pc \in {"check", "write", "report"} => Len(p.rows) = ITERATIONS
  /\ p.pc # "warmup" \/ p.ops > 0 => Idle(p) \/ ~ p.buf.cold
  /\ Faithful(p.rows, p.id)
  /\ p.backend # "right" => p.buf.out \in {"zero", "garbage"}
  /\ p.pc \in {"write", "report"} /\ p.id.mode \in CheckedModes => p.backend = "right"

\* A file holds rows of its own process, and all of them once it is closed.
Sound(file, id) ==
  /\ Faithful(file.rows, id)
  /\ file.closed => Len(file.rows) = ITERATIONS
  /\ id.mode \in CheckedModes => file.backend = "right"

Filed == \A id \in DOMAIN raw : Sound(raw[id], id)

Opened ==
  proc.pc = "write" => proc.id \in DOMAIN raw /\ ~ raw[proc.id].closed

SampleInv ==
  /\ Types
  /\ proc # NoProcess => Measured(proc)
  /\ Filed
  /\ Opened

LEMMA InitSample == Init => SampleInv
<1> SUFFICES ASSUME Init PROVE SampleInv
  OBVIOUS
<1>1. proc = NoProcess /\ DOMAIN raw = {} /\ raw \in [DOMAIN raw -> Files]
  BY DEF Init
<1>2. Types
  BY <1>1 DEF Init, Types
<1> QED BY <1>1, <1>2 DEF SampleInv, Filed, Opened, NoProcess

LEMMA OperatedKeeps ==
  ASSUME NEW p \in Processes
  PROVE  /\ Operated(p) \in Buffers
         /\ Idle(p) => Operated(p) = p.buf
         /\ ~ Idle(p) => ~ Operated(p).cold
         /\ p.backend # "right" => Operated(p).out \in {p.buf.out, "garbage"}
<1>1. p.buf \in Buffers /\ p.backend \in Backends
  BY DEF Processes
<1>2. CASE Idle(p)
  <2>1. Operated(p) = p.buf
    BY <1>2 DEF Operated, Idle
  <2> QED BY <1>1, <1>2, <2>1
<1>3. CASE ~ Idle(p)
  BY <1>1, <1>3 DEF Operated, Idle, Buffers, Backends
<1> QED BY <1>2, <1>3

\* A check that passes a mode which compares anything has seen a right backend.
LEMMA VerifiedIsRight ==
  ASSUME NEW p \in Processes, p.id.mode \in CheckedModes, verified(p),
         p.backend # "right" => p.buf.out \in {"zero", "garbage"}
  PROVE  p.backend = "right"
<1> SUFFICES ASSUME p.backend # "right" PROVE FALSE
  OBVIOUS
<1>1. p.buf.out \in {"zero", "garbage"} /\ Operated(p).out \in {"zero", "garbage"}
  BY OperatedKeeps
<1>2. CASE p.id.mode \in OpenModes
  <2>1. p.buf.out = "pattern"
    BY <1>2 DEF verified, OpenModes
  <2> QED BY <1>1, <2>1
<1>3. CASE p.id.mode = "optimized_cpu"
  <2>1. p.buf.out = "frame"
    BY <1>3 DEF verified, OpenModes
  <2> QED BY <1>1, <2>1
<1>4. CASE p.id.mode = "lmcache_total"
  <2>1. Operated(p).out = "frame"
    BY <1>4 DEF verified, OpenModes
  <2> QED BY <1>1, <2>1
<1> QED BY <1>2, <1>3, <1>4 DEF CheckedModes

\* The type of a process is kept field by field.
LEMMA SetPc ==
  ASSUME NEW p \in Processes, NEW c \in Stages
  PROVE  [p EXCEPT !.pc = c] \in Processes
BY DEF Processes

LEMMA SetOps ==
  ASSUME NEW p \in Processes, NEW n \in Nat
  PROVE  [p EXCEPT !.ops = n] \in Processes
BY DEF Processes

LEMMA SetBuf ==
  ASSUME NEW p \in Processes, NEW b \in Buffers
  PROVE  [p EXCEPT !.buf = b] \in Processes
BY DEF Processes

LEMMA SetRows ==
  ASSUME NEW p \in Processes, NEW rows \in Seq(Samples)
  PROVE  [p EXCEPT !.rows = rows] \in Processes
BY DEF Processes

LEMMA StartSample ==
  ASSUME SampleInv, NEW backend \in Backends, Start(backend)
  PROVE  SampleInv'
<1>1. point \in Nat /\ point < Points /\ RUN_ID(point) \in Ids
  BY PointIsRun DEF SampleInv, Types, Start
<1>2. pretouched(RUN_ID(point).mode) \in Buffers
      /\ pretouched(RUN_ID(point).mode).out = "zero"
  BY DEF pretouched, Buffers
<1>3. proc' \in Processes /\ proc' # NoProcess
  BY <1>1, <1>2 DEF Start, Processes, Stages, NoProcess
<1>4. Types'
  BY <1>1, <1>3 DEF SampleInv, Types, Start
<1>5. Measured(proc)'
  BY <1>2, ConstantsAssumption DEF Start, Measured, Faithful
<1>6. Filed'
  BY DEF SampleInv, Filed, Sound, Start, Faithful, Row
<1>7. Opened'
  BY DEF Start, Opened
<1> QED BY <1>4, <1>5, <1>6, <1>7 DEF SampleInv

LEMMA WarmSample ==
  ASSUME SampleInv, Warm
  PROVE  SampleInv'
<1>1. proc \in Processes /\ Measured(proc) /\ proc # NoProcess
  BY DEF SampleInv, Types, Warm, NoProcess
<1>2. /\ Operated(proc) \in Buffers
      /\ Idle(proc) => Operated(proc) = proc.buf
      /\ ~ Idle(proc) => ~ Operated(proc).cold
      /\ proc.backend # "right" => Operated(proc).out \in {proc.buf.out, "garbage"}
  BY <1>1, OperatedKeeps
<1>3. /\ proc' \in Processes /\ proc' # NoProcess
      /\ proc'.pc \in {"warmup", "timed"}
      /\ proc'.id = proc.id /\ proc'.backend = proc.backend /\ proc'.rows = proc.rows
      /\ IF warmed(proc) THEN proc'.pc = "timed" /\ proc'.ops = 0 /\ proc'.buf = proc.buf
         ELSE proc'.pc = "warmup" /\ proc'.ops = proc.ops + 1 /\ proc'.buf = Operated(proc)
  <2>1. CASE warmed(proc)
    <3>1. proc' = [[proc EXCEPT !.pc = "timed"] EXCEPT !.ops = 0]
      BY <2>1 DEF Warm
    <3>2. proc' \in Processes
      BY <1>1, <3>1, SetPc, SetOps DEF Stages
    <3>3. /\ proc'.pc = "timed" /\ proc'.id = proc.id /\ proc'.backend = proc.backend
          /\ proc'.rows = proc.rows /\ proc'.ops = 0 /\ proc'.buf = proc.buf
      BY <1>1, <3>1 DEF Processes
    <3> QED BY <2>1, <3>2, <3>3 DEF NoProcess
  <2>2. CASE ~ warmed(proc)
    <3>1. proc' = [proc EXCEPT !.ops = @ + 1, !.buf = Operated(proc)] /\ proc.pc = "warmup"
      BY <2>2 DEF Warm
    <3>2. /\ proc'.pc = "warmup" /\ proc'.id = proc.id /\ proc'.backend = proc.backend
          /\ proc'.rows = proc.rows /\ proc'.ops = proc.ops + 1
          /\ proc'.buf = Operated(proc) /\ proc'.ops \in Nat
      BY <1>1, <3>1 DEF Processes
    <3>3. proc' \in Processes
      <4>1. proc' = [[proc EXCEPT !.ops = proc.ops + 1] EXCEPT !.buf = Operated(proc)]
        BY <3>1
      <4>2. proc.ops + 1 \in Nat
        BY <1>1 DEF Processes
      <4> QED BY <1>1, <1>2, <4>1, <4>2, SetOps, SetBuf
    <3>4. proc' # NoProcess
      BY <3>2 DEF NoProcess
    <3> QED BY <2>2, <3>2, <3>3, <3>4
  <2> QED BY <2>1, <2>2
<1>4. Types'
  BY <1>1, <1>3 DEF SampleInv, Types, Warm
<1>5. Measured(proc')
  <2>1. proc.ops \in Nat /\ proc.rows = <<>> /\ proc.ops <= WARMUP
    BY <1>1 DEF Measured, Warm, Processes
  <2>2. Faithful(proc'.rows, proc'.id)
    BY <1>3, <2>1 DEF Faithful
  <2>3. Idle(proc') = Idle(proc)
    BY <1>3 DEF Idle
  <2>4. CASE warmed(proc)
    BY <1>1, <1>3, <2>1, <2>2, <2>3, <2>4, ConstantsAssumption DEF Measured, warmed, Warm
  <2>5. CASE ~ warmed(proc)
    BY <1>1, <1>2, <1>3, <2>1, <2>2, <2>3, <2>5, ConstantsAssumption
       DEF Measured, warmed, Warm
  <2> QED BY <2>4, <2>5
<1>6. Measured(proc)'
  BY <1>5 DEF Measured, Faithful, Row, Idle, Warm
<1>7. Filed'
  BY DEF SampleInv, Filed, Sound, Warm, Faithful, Row
<1>8. Opened'
  BY <1>3 DEF Opened
<1> QED BY <1>4, <1>6, <1>7, <1>8 DEF SampleInv

LEMMA TimedSample ==
  ASSUME SampleInv, Timed
  PROVE  SampleInv'
<1>1. proc \in Processes /\ Measured(proc) /\ proc # NoProcess /\ proc.pc = "timed"
  BY DEF SampleInv, Types, Timed, NoProcess
<1>2. /\ Operated(proc) \in Buffers
      /\ Idle(proc) => Operated(proc) = proc.buf
      /\ ~ Idle(proc) => ~ Operated(proc).cold
      /\ proc.backend # "right" => Operated(proc).out \in {proc.buf.out, "garbage"}
  BY <1>1, OperatedKeeps
<1>3. clock' = clock /\ raw' = raw
  BY DEF Timed
<1>4. Filed'
  BY <1>3 DEF SampleInv, Filed, Sound, Faithful, Row
<1>5. proc.ops \in 0 .. ITERATIONS /\ Len(proc.rows) = proc.ops
      /\ proc.rows \in Seq(Samples) /\ proc.id \in Ids
  BY <1>1, ConstantsAssumption DEF Measured, Processes
<1>6. CASE proc.ops = ITERATIONS
  <2>1. proc' = [proc EXCEPT !.pc = "check"]
    BY <1>6 DEF Timed
  <2>2. /\ proc' \in Processes /\ proc' # NoProcess /\ proc'.pc = "check"
        /\ proc'.id = proc.id /\ proc'.backend = proc.backend /\ proc'.rows = proc.rows
        /\ proc'.buf = proc.buf
    BY <1>1, <2>1 DEF Processes, Stages, NoProcess
  <2>3. Types'
    BY <1>1, <2>2 DEF SampleInv, Types, Timed
  <2>4. Measured(proc)'
    BY <1>1, <1>3, <1>5, <1>6, <2>2 DEF Measured, Faithful, Row, Idle
  <2>5. Opened'
    BY <2>2 DEF Opened
  <2> QED BY <1>4, <2>3, <2>4, <2>5 DEF SampleInv
<1>7. CASE proc.ops # ITERATIONS
  <2> DEFINE row == [run_id |-> proc.id, iteration |-> proc.ops,
                     total_ns |-> clock[proc.id.rep][proc.ops],
                     minflt |-> IF proc.buf.cold /\ ~ Operated(proc).cold THEN 1 ELSE 0]
  <2>1. proc' = [proc EXCEPT !.ops = @ + 1, !.buf = Operated(proc),
                             !.rows = Append(@, row)]
    BY <1>7 DEF Timed
  <2>2. Idle(proc) \/ ~ proc.buf.cold
    BY <1>1 DEF Measured
  <2>3. ~ (proc.buf.cold /\ ~ Operated(proc).cold)
    BY <1>2, <2>2
  <2>4. row = Row(proc.id, proc.ops + 1)
    <3>1. (proc.ops + 1) - 1 = proc.ops
      BY <1>5
    <3> QED BY <2>3, <3>1 DEF Row
  <2>5. row \in Samples
    <3>1. proc.ops \in 0 .. ITERATIONS - 1 /\ proc.id.rep \in 1 .. PROCESS_REPEATS
      BY <1>5, <1>7, ConstantsAssumption DEF Ids
    <3>2. clock[proc.id.rep][proc.ops] \in Durations
      BY <3>1 DEF SampleInv, Types
    <3> QED BY <1>5, <3>1, <3>2 DEF Samples
  <2> HIDE DEF row
  <2>6. /\ Append(proc.rows, row) \in Seq(Samples)
        /\ Len(Append(proc.rows, row)) = proc.ops + 1
        /\ Append(proc.rows, row)[proc.ops + 1] = row
        /\ \A i \in 1 .. proc.ops : Append(proc.rows, row)[i] = proc.rows[i]
    BY <1>5, <2>5
  <2>7. /\ proc' \in Processes /\ proc' # NoProcess /\ proc'.pc = "timed"
        /\ proc'.id = proc.id /\ proc'.backend = proc.backend
        /\ proc'.rows = Append(proc.rows, row)
        /\ proc'.buf = Operated(proc) /\ proc'.ops = proc.ops + 1
    <3> DEFINE next == Append(proc.rows, row)
    <3> HIDE DEF next
    <3>1. proc' = [proc EXCEPT !.ops = @ + 1, !.buf = Operated(proc), !.rows = next]
          /\ next \in Seq(Samples)
      BY <2>1, <2>6 DEF next
    <3>2. /\ proc'.pc = "timed" /\ proc'.id = proc.id /\ proc'.backend = proc.backend
          /\ proc'.rows = next /\ proc'.ops = proc.ops + 1
          /\ proc'.buf = Operated(proc) /\ proc'.ops \in Nat
      BY <1>1, <3>1 DEF Processes
    <3>3. proc' \in Processes
      <4>1. proc' = [[[proc EXCEPT !.ops = proc.ops + 1] EXCEPT !.buf = Operated(proc)]
                       EXCEPT !.rows = next]
        BY <3>1
      <4>2. proc.ops + 1 \in Nat
        BY <1>1 DEF Processes
      <4> DEFINE counted == [proc EXCEPT !.ops = proc.ops + 1]
                 filled == [counted EXCEPT !.buf = Operated(proc)]
      <4>3. counted \in Processes
        BY <1>1, <4>2, SetOps
      <4> HIDE DEF counted
      <4>4. filled \in Processes
        BY <1>2, <4>3, SetBuf
      <4>5. proc' = [filled EXCEPT !.rows = next]
        BY <4>1 DEF counted
      <4> HIDE DEF filled
      <4> QED BY <3>1, <4>4, <4>5, SetRows
    <3>4. proc' # NoProcess
      BY <3>2 DEF NoProcess
    <3> QED BY <3>2, <3>3, <3>4 DEF next
  <2>8. Types'
    BY <1>1, <2>7 DEF SampleInv, Types, Timed
  <2>9. Faithful(proc'.rows, proc'.id)
    <3> SUFFICES ASSUME NEW i \in 1 .. proc.ops + 1
                 PROVE  Append(proc.rows, row)[i] = Row(proc.id, i)
      BY <1>3, <2>6, <2>7 DEF Faithful, Row
    <3>1. CASE i = proc.ops + 1
      BY <2>4, <2>6, <3>1
    <3>2. CASE i # proc.ops + 1
      <4>1. i \in 1 .. proc.ops
        BY <1>5, <3>2
      <4>2. proc.rows[i] = Row(proc.id, i)
        BY <1>1, <1>5, <4>1 DEF Measured, Faithful
      <4> QED BY <2>6, <4>1, <4>2
    <3> QED BY <3>1, <3>2
  <2>10. Measured(proc)'
    <3>1. Measured(proc') <=> Measured(proc)'
      BY <1>3 DEF Measured, Faithful, Row, Idle
    <3>2. Idle(proc') = Idle(proc)
      BY <2>7 DEF Idle
    <3>3. proc.backend # "right" => proc'.buf.out \in {"zero", "garbage"}
      BY <1>1, <1>2, <2>7 DEF Measured
    <3>4. Idle(proc) \/ ~ proc'.buf.cold
      BY <1>2, <2>7
    <3>5. proc.ops + 1 <= ITERATIONS
      BY <1>5, <1>7, ConstantsAssumption
    <3> HIDE DEF Faithful, Idle
    <3>6. Measured(proc')
      BY <2>6, <2>7, <2>9, <3>2, <3>3, <3>4, <3>5 DEF Measured
    <3> QED BY <3>1, <3>6
  <2>11. Opened'
    BY <2>7 DEF Opened
  <2> QED BY <1>4, <2>8, <2>10, <2>11 DEF SampleInv
<1> QED BY <1>6, <1>7

LEMMA EndTypes ==
  ASSUME Types, NEW ok \in BOOLEAN, AfterExit(ok), clock' = clock,
         DOMAIN raw' \subseteq Ids /\ raw' \in [DOMAIN raw' -> Files],
         proc # NoProcess
  PROVE  Types' /\ proc' = NoProcess
BY DEF Types, AfterExit

LEMMA StaysFiled ==
  ASSUME clock' = clock, \A id \in DOMAIN raw' : Sound(raw'[id], id)
  PROVE  Filed'
<1>1. \A file, id : Sound(file, id)' <=> Sound(file, id)
  BY DEF Sound, Faithful, Row
<1> QED BY <1>1 DEF Filed, Sound, Faithful, Row

LEMMA CheckSample ==
  ASSUME SampleInv, Check
  PROVE  SampleInv'
<1>1. proc \in Processes /\ Measured(proc) /\ proc # NoProcess /\ proc.pc = "check"
      /\ clock' = clock
  BY DEF SampleInv, Types, Check, NoProcess
<1>2. CASE verified(proc)
  <2> DEFINE empty == [rows |-> <<>>, closed |-> FALSE, backend |-> proc.backend]
  <2>1. /\ proc' = [proc EXCEPT !.pc = "write"]
        /\ raw' = [id \in DOMAIN raw \cup {proc.id} |->
                     IF id = proc.id THEN empty ELSE raw[id]]
        /\ runner' = runner /\ point' = point
    BY <1>2 DEF Check
  <2>2. /\ proc' \in Processes /\ proc' # NoProcess /\ proc'.pc = "write"
        /\ proc'.id = proc.id /\ proc'.backend = proc.backend /\ proc'.rows = proc.rows
        /\ proc'.buf = proc.buf
    BY <1>1, <2>1 DEF Processes, Stages, NoProcess
  <2>3. empty \in Files
    BY <1>1 DEF Files, Processes
  <2>4. proc.id \in Ids
    BY <1>1 DEF Processes
  <2>5. Types'
    <3> HIDE DEF empty
    <3>1. DOMAIN raw' \subseteq Ids /\ raw' \in [DOMAIN raw' -> Files]
      BY <2>1, <2>3, <2>4 DEF SampleInv, Types
    <3> QED BY <1>1, <2>1, <2>2, <3>1 DEF SampleInv, Types
  <2>6. proc.id.mode \in CheckedModes => proc.backend = "right"
    BY <1>1, <1>2, VerifiedIsRight DEF Measured
  <2>7. Measured(proc)'
    BY <1>1, <2>2, <2>6 DEF Measured, Faithful, Row, Idle
  <2>8. Filed'
    <3> SUFFICES ASSUME NEW id \in DOMAIN raw'
                 PROVE  Sound(raw'[id], id)
      BY <1>1, StaysFiled
    <3>1. CASE id = proc.id
      <4>1. raw'[id] = empty
        BY <2>1, <3>1
      <4> QED BY <2>6, <3>1, <4>1 DEF Sound, Faithful
    <3>2. CASE id # proc.id
      <4>1. raw'[id] = raw[id] /\ id \in DOMAIN raw
        BY <2>1, <3>2
      <4> QED BY <4>1 DEF SampleInv, Filed
    <3> QED BY <3>1, <3>2
  <2>9. Opened'
    BY <2>1, <2>2 DEF Opened
  <2> QED BY <2>5, <2>7, <2>8, <2>9 DEF SampleInv
<1>3. CASE ~ verified(proc)
  <2>1. AfterExit(FALSE) /\ raw' = raw
    BY <1>3 DEF Check
  <2>2. Types' /\ proc' = NoProcess
    BY <1>1, <2>1, EndTypes DEF SampleInv, Types
  <2>3. Filed'
    BY <1>1, <2>1 DEF SampleInv, Filed, Sound, Faithful, Row
  <2> QED BY <2>2, <2>3 DEF SampleInv, Opened, NoProcess
<1> QED BY <1>2, <1>3

LEMMA WriteSample ==
  ASSUME SampleInv, Write
  PROVE  SampleInv'
<1>1. proc \in Processes /\ Measured(proc) /\ proc # NoProcess /\ proc.pc = "write"
      /\ clock' = clock /\ proc.id \in DOMAIN raw
  BY DEF SampleInv, Types, Write, NoProcess, Opened
<1> DEFINE full == [[raw[proc.id] EXCEPT !.rows = proc.rows] EXCEPT !.closed = TRUE]
<1>2. /\ DOMAIN raw' = DOMAIN raw
      /\ raw'[proc.id] = full
      /\ \A id \in DOMAIN raw : id # proc.id => raw'[id] = raw[id]
      /\ raw' \in [DOMAIN raw' -> Files]
      /\ full.rows = proc.rows /\ full.closed = TRUE /\ full.backend = raw[proc.id].backend
  <2>1. raw[proc.id] \in Files /\ proc.rows \in Seq(Samples)
    BY <1>1 DEF SampleInv, Types, Processes
  <2>2. full \in Files
    BY <2>1 DEF Files
  <2>3. full.rows = proc.rows /\ full.closed = TRUE /\ full.backend = raw[proc.id].backend
    BY <2>1 DEF Files
  <2>4. raw' = [raw EXCEPT ![proc.id] = full]
    BY <1>1 DEF Write, SampleInv, Types
  <2> HIDE DEF full
  <2> QED BY <1>1, <2>2, <2>3, <2>4 DEF SampleInv, Types
<1> HIDE DEF full
<1>3. proc' = [proc EXCEPT !.pc = "report"]
  BY DEF Write
<1>4. /\ proc' \in Processes /\ proc' # NoProcess /\ proc'.pc = "report"
      /\ proc'.id = proc.id /\ proc'.backend = proc.backend /\ proc'.rows = proc.rows
      /\ proc'.buf = proc.buf
  BY <1>1, <1>3 DEF Processes, Stages, NoProcess
<1>5. Types'
  BY <1>1, <1>2, <1>4 DEF SampleInv, Types, Write
<1>6. Measured(proc)'
  BY <1>1, <1>4 DEF Measured, Faithful, Row, Idle
<1>7. Filed'
  <2> SUFFICES ASSUME NEW id \in DOMAIN raw
               PROVE  Sound(raw'[id], id)
    BY <1>1, <1>2, StaysFiled
  <2>1. CASE id = proc.id
    <3>1. raw'[id].rows = proc.rows /\ raw'[id].backend = raw[id].backend
      BY <1>2, <2>1
    <3> QED BY <1>1, <2>1, <3>1 DEF Measured, SampleInv, Filed, Sound
  <2>2. CASE id # proc.id
    <3>1. raw'[id] = raw[id]
      BY <1>2, <2>2
    <3> QED BY <3>1 DEF SampleInv, Filed
  <2> QED BY <2>1, <2>2
<1>8. Opened'
  BY <1>4 DEF Opened
<1> QED BY <1>5, <1>6, <1>7, <1>8 DEF SampleInv

LEMMA ReportSample ==
  ASSUME SampleInv, Report
  PROVE  SampleInv'
<1>1. AfterExit(TRUE) /\ raw' = raw /\ clock' = clock /\ proc # NoProcess
  <2>1. AfterExit(TRUE)
    BY Zenon DEF Report
  <2>2. raw' = raw /\ clock' = clock /\ proc.pc = "report"
    BY DEF Report
  <2>3. proc # NoProcess
    BY <2>2 DEF NoProcess
  <2> QED BY <2>1, <2>2, <2>3, Zenon
<1>2. Types' /\ proc' = NoProcess
  BY <1>1, EndTypes DEF SampleInv, Types
<1>3. Filed'
  BY <1>1 DEF SampleInv, Filed, Sound, Faithful, Row
<1> QED BY <1>2, <1>3 DEF SampleInv, Opened, NoProcess

\* A process that dies while it writes leaves a beginning of its rows.
LEMMA DieSample ==
  ASSUME SampleInv, Die
  PROVE  SampleInv'
<1>1. AfterExit(FALSE) /\ clock' = clock /\ proc # NoProcess
  BY DEF Die
<1>2. proc \in Processes /\ Measured(proc)
  BY <1>1 DEF SampleInv, Types
<1>3. (DOMAIN raw' \subseteq Ids /\ raw' \in [DOMAIN raw' -> Files]) /\ Filed'
  <2>1. CASE proc.pc = "write"
    <3>1. PICK k \in 0 .. ITERATIONS :
            raw' = [raw EXCEPT ![proc.id].rows = SubSeq(proc.rows, 1, k)]
      BY <2>1 DEF Die
    <3> DEFINE part == SubSeq(proc.rows, 1, k)
    <3>2. proc.rows \in Seq(Samples) /\ Len(proc.rows) = ITERATIONS
          /\ proc.id \in DOMAIN raw /\ ~ raw[proc.id].closed
          /\ Faithful(proc.rows, proc.id)
      BY <1>2, <2>1 DEF SampleInv, Opened, Measured, Processes
    <3>3. part \in Seq(Samples) /\ Len(part) = k
          /\ \A i \in 1 .. k : part[i] = proc.rows[i]
      BY <3>2, ConstantsAssumption
    <3>4. Faithful(part, proc.id)
      BY <3>2, <3>3, ConstantsAssumption DEF Faithful
    <3> HIDE DEF part
    <3> DEFINE left == [raw[proc.id] EXCEPT !.rows = part]
    <3>5. raw[proc.id] \in Files
      BY <3>2 DEF SampleInv, Types
    <3>6. left \in Files /\ left.rows = part /\ left.closed = raw[proc.id].closed
          /\ left.backend = raw[proc.id].backend
      BY <3>3, <3>5 DEF Files
    <3>7. raw' = [raw EXCEPT ![proc.id] = left]
      BY <3>1, <3>2 DEF part
    <3> HIDE DEF left
    <3>8. /\ DOMAIN raw' = DOMAIN raw /\ raw'[proc.id] = left
          /\ \A id \in DOMAIN raw : id # proc.id => raw'[id] = raw[id]
          /\ raw' \in [DOMAIN raw' -> Files]
      BY <3>2, <3>6, <3>7 DEF SampleInv, Types
    <3>9. Filed'
      <4> SUFFICES ASSUME NEW id \in DOMAIN raw
                   PROVE  Sound(raw'[id], id)
        BY <1>1, <3>8, StaysFiled
      <4>1. CASE id = proc.id
        <5>1. raw'[id].rows = part /\ ~ raw'[id].closed
              /\ raw'[id].backend = raw[id].backend
          BY <3>2, <3>6, <3>8, <4>1
        <5> QED BY <3>2, <3>4, <4>1, <5>1 DEF SampleInv, Filed, Sound
      <4>2. CASE id # proc.id
        <5>1. raw'[id] = raw[id]
          BY <3>8, <4>2
        <5> QED BY <5>1 DEF SampleInv, Filed
      <4> QED BY <4>1, <4>2
    <3> QED BY <3>8, <3>9 DEF SampleInv, Types
  <2>2. CASE proc.pc # "write"
    <3>1. raw' = raw
      BY <2>2 DEF Die
    <3> QED BY <1>1, <3>1 DEF SampleInv, Types, Filed, Sound, Faithful, Row
  <2> QED BY <2>1, <2>2
<1>4. Types' /\ proc' = NoProcess
  BY <1>1, <1>3, EndTypes DEF SampleInv
<1> QED BY <1>3, <1>4 DEF SampleInv, Opened, NoProcess

\* The summarizer reads the files, after the last process.
LEMMA SummarizerSample ==
  ASSUME SampleInv, proc' = proc, raw' = raw, clock' = clock, point' = point,
         runner' \in {"summarize", "aggregate", "done", "failed"},
         proc # NoProcess => runner' = runner
  PROVE  SampleInv'
BY DEF SampleInv, Types, Measured, Filed, Sound, Opened, Faithful, Row, Idle

LEMMA SampleStep == SampleInv /\ [Next]_vars => SampleInv'
<1> SUFFICES ASSUME SampleInv, [Next]_vars PROVE SampleInv'
  OBVIOUS
<1>1. ASSUME NEW backend \in {"right", "wrong", "nothing"}, Start(backend)
      PROVE  SampleInv'
  BY <1>1, StartSample DEF Backends
<1>2. ASSUME PerProcess \/ Summarize \/ SummarizerDies PROVE SampleInv'
  <2>1. proc # NoProcess => runner = "loop"
    BY DEF SampleInv, Types
  <2> QED BY <1>2, <2>1, SummarizerSample DEF PerProcess, Summarize, SummarizerDies
<1>3. CASE UNCHANGED vars
  BY <1>3 DEF vars, SampleInv, Types, Measured, Filed, Sound, Opened, Faithful, Row, Idle
<1> QED BY <1>1, <1>2, <1>3, WarmSample, TimedSample, CheckSample, WriteSample,
           ReportSample, DieSample DEF Next

LEMMA SampleInvariance == Spec => []SampleInv
BY SampleStep, InitSample, PTL DEF Spec

\* Whatever the backends do and whichever process dies, no sample of a file
\* includes the first touch of a page.
THEOREM SamplesWarm == Spec => []TimedWarm
<1>1. SampleInv => TimedWarm
  <2> SUFFICES ASSUME SampleInv, NEW id \in DOMAIN raw, NEW i \in DOMAIN raw[id].rows
               PROVE  raw[id].rows[i].minflt = 0
    BY DEF TimedWarm
  <2>1. raw[id].rows \in Seq(Samples) /\ Faithful(raw[id].rows, id)
    BY DEF SampleInv, Types, Files, Filed, Sound
  <2>2. raw[id].rows[i] = Row(id, i)
    BY <2>1 DEF Faithful
  <2> QED BY <2>2 DEF Row
<1> QED BY <1>1, SampleInvariance, PTL

\* A process of a checked mode gets as far as its file only with a backend
\* that is right, so nothing else enters a summary.
THEOREM SamplesVerified == Spec => []SummaryVerified
<1>1. SampleInv => SummaryVerified
  BY DEF SampleInv, Filed, Sound, SummaryVerified
<1> QED BY <1>1, SampleInvariance, PTL

-----------------------------------------------------------------------------
(* The files of an experiment.                                             *)

Runs(n) == {RUN_ID(k) : k \in 0 .. n - 1}

Writing == IF proc.pc \in {"write", "report"} THEN {proc.id} ELSE {}

\* As long as no process has failed there is one closed file for each process
\* that has ended; the summarizer starts after the last.
Progress ==
  runner # "failed" =>
    /\ DOMAIN raw = Runs(point) \cup Writing
    /\ \A id \in DOMAIN raw : raw[id].closed \/ (proc.pc = "write" /\ id = proc.id)
    /\ runner # "loop" => point = Points

\* The times a process measured, and the rows they and the processes make.
Times(id) == [i \in 1 .. ITERATIONS |-> clock[id.rep][i - 1]]

ProcessRow(id) ==
  [mode |-> id.mode, size_mib |-> id.size, run_id |-> id, samples |-> ITERATIONS,
   median_total |-> MedianTime(Times(id)), throughput |-> rate(id.size, Times(id))]

SummaryRow(mode, size) ==
  LET procs == RowsOf(mode, size)
  IN  [mode |-> mode, size_mib |-> size, processes |-> Len(procs),
       median_latency |-> MedianTime([i \in DOMAIN procs |-> procs[i].median_total]),
       median_throughput |-> MedianRate([i \in DOMAIN procs |-> procs[i].throughput])]

\* What the summarizer has computed is from the measured times.
Summarized ==
  /\ runner \in {"aggregate", "done"} =>
       per_process = {ProcessRow(id) : id \in Runs(Points)}
  /\ runner = "done" =>
       summary = {SummaryRow(r.mode, r.size_mib) : r \in per_process}
  /\ runner # "done" => summary = {}

FileInv == SampleInv /\ Progress /\ Summarized

LEMMA InitFiles == Init => FileInv
<1> SUFFICES ASSUME Init PROVE FileInv
  OBVIOUS
<1>1. Runs(0) = {} /\ Writing = {}
  BY DEF Init, Runs, Writing, NoProcess
<1>2. Progress
  BY <1>1 DEF Init, Progress
<1>3. Summarized
  BY DEF Init, Summarized
<1> QED BY <1>2, <1>3, InitSample DEF FileInv

LEMMA RunsGrow ==
  ASSUME NEW n \in Nat
  PROVE  Runs(n + 1) = Runs(n) \cup {RUN_ID(n)}
<1>1. 0 .. (n + 1) - 1 = (0 .. n - 1) \cup {n}
  OBVIOUS
<1> QED BY <1>1 DEF Runs

\* While a process runs, its end moves the runner by one point.
LEMMA ReportFiles ==
  ASSUME FileInv, Report
  PROVE  Progress'
<1>1. /\ proc.pc = "report" /\ proc # NoProcess /\ proc' = NoProcess
      /\ point' = point + 1 /\ raw' = raw
      /\ runner' = IF point + 1 = Points THEN "summarize" ELSE "loop"
  BY DEF Report, AfterExit, NoProcess
<1>2. runner = "loop" /\ proc.id = RUN_ID(point) /\ point \in Nat
  BY <1>1 DEF FileInv, SampleInv, Types
<1>3. DOMAIN raw = Runs(point) \cup {RUN_ID(point)} /\ \A id \in DOMAIN raw : raw[id].closed
  BY <1>1, <1>2 DEF FileInv, Progress, Writing
<1>4. Runs(point + 1) = DOMAIN raw
  BY <1>2, <1>3, RunsGrow
<1>5. Writing' = {}
  BY <1>1 DEF Writing, NoProcess
<1> HIDE DEF Points
<1>6. runner' # "loop" => point' = Points
  BY <1>1
<1>7. DOMAIN raw' = Runs(point') \cup Writing'
  BY <1>1, <1>4, <1>5
<1>8. \A id \in DOMAIN raw' : raw'[id].closed
  BY <1>1, <1>3
<1>9. Runs(point') = Runs(point)'
  BY DEF Runs, RUN_ID
<1> QED BY <1>6, <1>7, <1>8, <1>9 DEF Progress

LEMMA ProgressStep ==
  ASSUME FileInv, [Next]_vars
  PROVE  Progress'
<1>1. ASSUME NEW backend \in {"right", "wrong", "nothing"}, Start(backend)
      PROVE  Progress'
  <2>1. proc.pc = "none" /\ proc'.pc = "warmup"
    BY <1>1 DEF Start, NoProcess
  <2>2. Writing' = Writing
    BY <2>1 DEF Writing
  <2> QED BY <1>1, <2>1, <2>2 DEF FileInv, Progress, Start, Runs
<1>2. CASE Warm \/ Timed
  <2>1. proc \in Processes
    BY <1>2 DEF FileInv, SampleInv, Types, Warm, Timed, NoProcess
  <2>2. /\ proc.pc \in {"warmup", "timed"} /\ proc'.pc \in {"warmup", "timed", "check"}
        /\ UNCHANGED <<runner, point, raw>>
    BY <1>2, <2>1 DEF Warm, Timed, Processes
  <2>3. Writing' = Writing
    BY <2>2 DEF Writing
  <2> QED BY <2>2, <2>3 DEF FileInv, Progress, Runs
<1>3. CASE Check
  <2>1. proc \in Processes /\ proc.pc = "check" /\ proc.id = RUN_ID(point) /\ point \in Nat
        /\ runner = "loop"
    BY <1>3 DEF FileInv, SampleInv, Types, Check, NoProcess
  <2>2. CASE verified(proc)
    <3>1. /\ proc' = [proc EXCEPT !.pc = "write"]
          /\ DOMAIN raw' = DOMAIN raw \cup {proc.id}
          /\ \A id \in DOMAIN raw : id # proc.id => raw'[id] = raw[id]
          /\ runner' = runner /\ point' = point
      BY <1>3, <2>2 DEF Check
    <3>2. proc'.pc = "write" /\ proc'.id = proc.id
      BY <2>1, <3>1 DEF Processes
    <3>3. Writing = {} /\ Writing' = {proc.id}
      BY <2>1, <3>2 DEF Writing
    <3>4. Runs(point)' = Runs(point)
      BY <3>1 DEF Runs
    <3>5. DOMAIN raw = Runs(point) /\ \A id \in DOMAIN raw : raw[id].closed
      BY <2>1, <3>3 DEF FileInv, Progress
    <3>6. \A id \in DOMAIN raw' : raw'[id].closed \/ id = proc.id
      BY <3>1, <3>5
    <3> QED BY <2>1, <3>1, <3>2, <3>3, <3>4, <3>5, <3>6 DEF Progress
  <2>3. CASE ~ verified(proc)
    <3>1. AfterExit(FALSE)
      BY <1>3, <2>3 DEF Check
    <3> QED BY <3>1 DEF AfterExit, Progress
  <2> QED BY <2>2, <2>3
<1>4. CASE Write
  <2>1. /\ proc \in Processes /\ proc.pc = "write" /\ runner = "loop"
        /\ proc.id \in DOMAIN raw /\ raw[proc.id] \in Files
    BY <1>4 DEF FileInv, SampleInv, Types, Opened, Write, NoProcess
  <2>2. /\ proc' = [proc EXCEPT !.pc = "report"] /\ UNCHANGED <<runner, point>>
        /\ raw' = [raw EXCEPT ![proc.id] = [[@ EXCEPT !.rows = proc.rows]
                                             EXCEPT !.closed = TRUE]]
    BY <1>4, <2>1 DEF Write
  <2>3. proc'.pc = "report" /\ proc'.id = proc.id
    BY <2>1, <2>2 DEF Processes
  <2>4. Writing' = Writing /\ Runs(point)' = Runs(point)
    BY <2>1, <2>2, <2>3 DEF Writing, Runs
  <2>5. DOMAIN raw' = DOMAIN raw /\ \A id \in DOMAIN raw : raw'[id].closed
    <3>1. DOMAIN raw' = DOMAIN raw /\ \A id \in DOMAIN raw : id # proc.id => raw'[id] = raw[id]
      BY <2>2
    <3>2. raw'[proc.id].closed = TRUE
      BY <2>1, <2>2 DEF Files
    <3>3. \A id \in DOMAIN raw : id # proc.id => raw[id].closed
      BY <2>1 DEF FileInv, Progress
    <3> QED BY <3>1, <3>2, <3>3
  <2> QED BY <2>1, <2>2, <2>4, <2>5 DEF FileInv, Progress
<1>5. CASE Die \/ SummarizerDies
  BY <1>5 DEF Die, SummarizerDies, AfterExit, Progress
<1>6. CASE PerProcess \/ Summarize
  <2>1. UNCHANGED <<point, proc, raw>> /\ runner \notin {"failed", "loop"}
    BY <1>6 DEF PerProcess, Summarize
  <2>2. Writing' = Writing /\ Runs(point)' = Runs(point)
    BY <2>1 DEF Writing, Runs
  <2> QED BY <2>1, <2>2 DEF FileInv, Progress
<1>7. CASE UNCHANGED vars
  BY <1>7 DEF vars, FileInv, Progress, Writing, Runs
<1> QED BY <1>1, <1>2, <1>3, <1>4, <1>5, <1>6, <1>7, ReportFiles DEF Next

\* Every file has rows by the time they are grouped, so no process is left out,
\* and the rows of a process are the times it measured, in their order.
LEMMA TimesRead ==
  ASSUME SampleInv, NEW id \in DOMAIN raw, raw[id].closed
  PROVE  TimesOf(id) = Times(id) /\ raw[id].rows # <<>>
<1> DEFINE rows == UNION {ToSet(raw[f].rows) : f \in DOMAIN raw}
           mine == {r \in rows : r.run_id = id}
           before == {e \in rows \X rows : e[1].iteration < e[2].iteration}
           q == [i \in 1 .. ITERATIONS |-> Row(id, i)]
<1>1. ITERATIONS \in Nat \ {0}
  BY ConstantsAssumption
<1>2. \A f \in DOMAIN raw : raw[f].rows \in Seq(Samples) /\ Faithful(raw[f].rows, f)
  BY DEF SampleInv, Types, Files, Filed, Sound
<1>3. Len(raw[id].rows) = ITERATIONS
  BY DEF SampleInv, Filed, Sound
<1>4. \A i : Row(id, i).run_id = id /\ Row(id, i).iteration = i - 1
             /\ Row(id, i).total_ns = clock[id.rep][i - 1]
  BY DEF Row
<1>5. \A f \in DOMAIN raw : \A r \in ToSet(raw[f].rows) :
        \E i \in 1 .. Len(raw[f].rows) : r = Row(f, i) /\ r.run_id = f
  <2> SUFFICES ASSUME NEW f \in DOMAIN raw, NEW r \in ToSet(raw[f].rows)
               PROVE  \E i \in 1 .. Len(raw[f].rows) : r = Row(f, i) /\ r.run_id = f
    OBVIOUS
  <2>1. PICK i \in 1 .. Len(raw[f].rows) : r = raw[f].rows[i]
    BY <1>2 DEF ToSet
  <2>2. r = Row(f, i) /\ Row(f, i).run_id = f
    BY <1>2, <2>1 DEF Faithful, Row
  <2> QED BY <2>2
<1>6. \A i \in 1 .. ITERATIONS : Row(id, i) \in ToSet(raw[id].rows)
  BY <1>2, <1>3 DEF Faithful, ToSet
<1>7. \A r \in mine : \E i \in 1 .. ITERATIONS : q[i] = r
  <2> SUFFICES ASSUME NEW f \in DOMAIN raw, NEW r \in ToSet(raw[f].rows), r.run_id = id
               PROVE  \E i \in 1 .. ITERATIONS : q[i] = r
    OBVIOUS
  <2> QED BY <1>3, <1>5
<1>8. \A i \in 1 .. ITERATIONS : q[i] = Row(id, i) /\ q[i] \in mine /\ q[i] \in rows
  BY <1>4, <1>6
<1>9. \A j, k \in 1 .. ITERATIONS : <<q[j], q[k]>> \in before <=> j < k
  <2>1. \A x, y \in rows : <<x, y>> \in before <=> x.iteration < y.iteration
    OBVIOUS
  <2>2. \A i \in 1 .. ITERATIONS : q[i].iteration = i - 1 /\ q[i] \in rows
    BY <1>4, <1>8
  <2> HIDE DEF before, q, rows
  <2> SUFFICES ASSUME NEW j \in 1 .. ITERATIONS, NEW k \in 1 .. ITERATIONS
               PROVE  <<q[j], q[k]>> \in before <=> j < k
    OBVIOUS
  <2>3. <<q[j], q[k]>> \in before <=> j - 1 < k - 1
    BY <2>1, <2>2
  <2> QED BY <1>1, <2>3
<1>10. q \in Bijection(1 .. ITERATIONS, mine)
  <2>1. q \in [1 .. ITERATIONS -> mine]
    BY <1>8
  <2>2. \A j, k \in 1 .. ITERATIONS : q[j] = q[k] => j = k
    <3> SUFFICES ASSUME NEW j \in 1 .. ITERATIONS, NEW k \in 1 .. ITERATIONS, q[j] = q[k]
                 PROVE  j = k
      OBVIOUS
    <3>1. q[j].iteration = j - 1 /\ q[k].iteration = k - 1
      BY <1>4, <1>8
    <3> HIDE DEF q
    <3>2. j - 1 = k - 1
      BY <3>1
    <3> QED BY <1>1, <3>2
  <2> HIDE DEF q, mine
  <2> QED BY <1>7, <2>1, <2>2 DEF Bijection, Injection, IsInjective, Surjection
<1>11. TimesOf(id) = [i \in DOMAIN Sorted(mine, before) |-> Sorted(mine, before)[i].total_ns]
  BY DEF TimesOf
<1>12. \A i \in 1 .. ITERATIONS : q[i].total_ns = clock[id.rep][i - 1]
  BY <1>4, <1>8
<1>13. DOMAIN q = 1 .. ITERATIONS /\ ITERATIONS \in Nat
  BY <1>1
<1> HIDE DEF q, mine, before
<1>14. Sorted(mine, before) = q
  BY <1>9, <1>10, <1>13, SortedIs
<1>15. raw[id].rows # <<>>
  BY <1>1, <1>3
<1> QED BY <1>11, <1>12, <1>13, <1>14, <1>15 DEF Times

LEMMA PerProcessCovers ==
  ASSUME FileInv, PerProcess
  PROVE  per_process' = {ProcessRow(id) : id \in Runs(Points)}
<1>1. SampleInv /\ DOMAIN raw = Runs(Points) /\ \A id \in DOMAIN raw : raw[id].closed
  <2>1. runner = "summarize" /\ proc = NoProcess
    BY DEF FileInv, SampleInv, Types, PerProcess
  <2>2. proc.pc = "none"
    BY <2>1 DEF NoProcess
  <2> QED BY <2>1, <2>2 DEF FileInv, Progress, Writing
<1>2. \A id \in DOMAIN raw : raw[id].rows # <<>> /\ TimesOf(id) = Times(id)
  BY <1>1, TimesRead
<1> DEFINE row(id) == [mode |-> id.mode, size_mib |-> id.size, run_id |-> id,
                       samples |-> Len(TimesOf(id)), median_total |-> MedianTime(TimesOf(id)),
                       throughput |-> rate(id.size, TimesOf(id))]
<1>3. per_process' = {row(id) : id \in DOMAIN raw}
  <2>1. {id \in DOMAIN raw : raw[id].rows # <<>>} = DOMAIN raw
    BY <1>2
  <2>2. per_process' = {row(id) : id \in {id \in DOMAIN raw : raw[id].rows # <<>>}}
    BY DEF PerProcess
  <2> QED BY <2>1, <2>2
<1>4. ASSUME NEW id \in DOMAIN raw PROVE row(id) = ProcessRow(id)
  <2>1. Len(Times(id)) = ITERATIONS
    BY ConstantsAssumption DEF Times
  <2> QED BY <1>2, <2>1 DEF ProcessRow
<1> HIDE DEF row
<1> QED BY <1>1, <1>3, <1>4

LEMMA SummarizeCovers ==
  ASSUME Summarize
  PROVE  summary' = {SummaryRow(r.mode, r.size_mib) : r \in per_process}
BY DEF Summarize, SummaryRow

LEMMA RunsStay == Runs(Points)' = Runs(Points)
BY DEF Runs, Points, RUN_ID

LEMMA SummarizedStep ==
  ASSUME FileInv, [Next]_vars
  PROVE  Summarized'
<1>1. CASE PerProcess
  <2>1. /\ runner = "summarize" /\ runner' = "aggregate"
        /\ clock' = clock /\ summary' = summary
    BY <1>1 DEF PerProcess
  <2>2. \A id : ProcessRow(id)' = ProcessRow(id)
    BY <2>1 DEF ProcessRow, Times
  <2> QED BY <1>1, <2>1, <2>2, PerProcessCovers, RunsStay DEF FileInv, Summarized
<1>2. CASE Summarize
  <2>1. /\ runner = "aggregate" /\ runner' = "done"
        /\ clock' = clock /\ per_process' = per_process
    BY <1>2 DEF Summarize
  <2>2. \A id : ProcessRow(id)' = ProcessRow(id)
    BY <2>1 DEF ProcessRow, Times
  <2>3. \A mode, size : SummaryRow(mode, size)' = SummaryRow(mode, size)
    BY <2>1 DEF SummaryRow, RowsOf
  <2> QED BY <1>2, <2>1, <2>2, <2>3, SummarizeCovers, RunsStay DEF FileInv, Summarized
<1>3. CASE SummarizerDies
  BY <1>3 DEF SummarizerDies, FileInv, Summarized
<1>4. CASE UNCHANGED vars
  <2>1. \A id : ProcessRow(id)' = ProcessRow(id)
    BY <1>4 DEF vars, ProcessRow, Times
  <2>2. \A mode, size : SummaryRow(mode, size)' = SummaryRow(mode, size)
    BY <1>4 DEF vars, SummaryRow, RowsOf
  <2> QED BY <1>4, <2>1, <2>2, RunsStay DEF vars, FileInv, Summarized
<1>5. CASE \/ \E backend \in {"right", "wrong", "nothing"} : Start(backend)
           \/ Warm \/ Timed \/ Check \/ Write \/ Report \/ Die
  <2>1. runner = "loop"
    <3>1. runner = "loop" \/ proc # NoProcess \/ proc.pc \in Stages
      BY <1>5, Zenon DEF Start, Warm, Timed, Check, Write, Report, Die, Stages
    <3>2. proc.pc \in Stages => proc # NoProcess
      BY DEF NoProcess, Stages
    <3> QED BY <3>1, <3>2 DEF FileInv, SampleInv, Types
  <2>2. summary' = summary
    BY <1>5 DEF Start, Warm, Timed, Check, Write, Report, Die
  <2>3. runner' \in {"loop", "summarize", "failed"}
    BY <1>5, <2>1 DEF Start, Warm, Timed, Check, Write, Report, Die, AfterExit
  <2> QED BY <2>1, <2>2, <2>3 DEF FileInv, Summarized
<1> QED BY <1>1, <1>2, <1>3, <1>4, <1>5 DEF Next

LEMMA FileInvariance == Spec => []FileInv
<1>1. SampleInv /\ [Next]_vars => SampleInv'
  BY SampleStep
<1>2. FileInv /\ [Next]_vars => FileInv'
  BY <1>1, ProgressStep, SummarizedStep DEF FileInv
<1> QED BY <1>2, InitFiles, PTL DEF Spec

\* What a summary is made of.
SummaryComplete ==
  summary # {} =>
    /\ DOMAIN raw = Runs(Points)
    /\ \A id \in DOMAIN raw :
         /\ raw[id].closed
         /\ raw[id].rows = [i \in 1 .. ITERATIONS |-> Row(id, i)]
    /\ {<<r.mode, r.size_mib>> : r \in summary} = ToSet(MODES) \X ToSet(SIZES_MIB)

\* A summary exists only if every process of the three loops has succeeded and
\* its file holds every timed iteration, and the summary has a row for every
\* mode at every size and no other: the first part of SummaryFaithful, for
\* failures at any point.
THEOREM SummariesComplete == Spec => []SummaryComplete
<1>1. FileInv => SummaryComplete
  <2> SUFFICES ASSUME FileInv, summary # {} PROVE SummaryComplete
    BY DEF SummaryComplete
  <2>1. runner = "done" /\ proc = NoProcess /\ point = Points
    BY DEF FileInv, Summarized, Progress, SampleInv, Types
  <2>2. DOMAIN raw = Runs(Points) /\ \A id \in DOMAIN raw : raw[id].closed
    BY <2>1 DEF FileInv, Progress, Writing, NoProcess
  <2>3. ASSUME NEW id \in DOMAIN raw
        PROVE  raw[id].rows = [i \in 1 .. ITERATIONS |-> Row(id, i)]
    <3>1. raw[id].rows \in Seq(Samples) /\ Faithful(raw[id].rows, id)
          /\ Len(raw[id].rows) = ITERATIONS
      BY <2>2 DEF FileInv, SampleInv, Types, Files, Filed, Sound
    <3> QED BY <3>1 DEF Faithful
  <2>4. {<<r.mode, r.size_mib>> : r \in summary} = {<<id.mode, id.size>> : id \in Runs(Points)}
    <3>1. /\ per_process = {ProcessRow(id) : id \in Runs(Points)}
          /\ summary = {SummaryRow(r.mode, r.size_mib) : r \in per_process}
      BY <2>1 DEF FileInv, Summarized
    <3>2. \A mode, size : SummaryRow(mode, size).mode = mode
                          /\ SummaryRow(mode, size).size_mib = size
      BY DEF SummaryRow
    <3>3. \A id : ProcessRow(id).mode = id.mode /\ ProcessRow(id).size_mib = id.size
      BY DEF ProcessRow
    <3>4. {<<r.mode, r.size_mib>> : r \in summary} = {<<r.mode, r.size_mib>> : r \in per_process}
      BY <3>1, <3>2
    <3>5. {<<r.mode, r.size_mib>> : r \in per_process} = {<<id.mode, id.size>> : id \in Runs(Points)}
      BY <3>1, <3>3
    <3> QED BY <3>4, <3>5
  <2>5. ASSUME NEW id \in Runs(Points)
        PROVE  id.mode \in ToSet(MODES) /\ id.size \in ToSet(SIZES_MIB)
    <3>1. PICK k \in 0 .. Points - 1 : id = RUN_ID(k)
      BY DEF Runs
    <3>2. k \in Nat /\ k < Points
      BY <2>1 DEF FileInv, SampleInv, Types
    <3> QED BY <3>1, <3>2, PointIsRun DEF RUN_ID, ToSet
  <2>6. ASSUME NEW mode \in ToSet(MODES), NEW size \in ToSet(SIZES_MIB)
        PROVE  \E id \in Runs(Points) : id.mode = mode /\ id.size = size
    <3>1. PICK i \in DOMAIN MODES, h \in DOMAIN SIZES_MIB : mode = MODES[i] /\ size = SIZES_MIB[h]
      BY DEF ToSet
    <3>2. PICK k \in Nat : /\ k < Points
                           /\ RUN_ID(k).mode = mode /\ RUN_ID(k).size = size
      <4>1. 1 \in 1 .. PROCESS_REPEATS
        BY ConstantsAssumption
      <4> QED BY <3>1, <4>1, PointsCover
    <3>3. Points \in Nat
      BY <2>1 DEF FileInv, SampleInv, Types
    <3>4. RUN_ID(k) \in Runs(Points)
      BY <3>2, <3>3 DEF Runs
    <3> QED BY <3>2, <3>4
  <2>7. {<<id.mode, id.size>> : id \in Runs(Points)} = ToSet(MODES) \X ToSet(SIZES_MIB)
    <3> DEFINE Pairs == {<<id.mode, id.size>> : id \in Runs(Points)}
    <3>1. Pairs \subseteq ToSet(MODES) \X ToSet(SIZES_MIB)
      BY <2>5
    <3>2. ASSUME NEW x \in ToSet(MODES) \X ToSet(SIZES_MIB) PROVE x \in Pairs
      <4>1. PICK mode \in ToSet(MODES), size \in ToSet(SIZES_MIB) : x = <<mode, size>>
        OBVIOUS
      <4> QED BY <2>6, <4>1
    <3> QED BY <3>1, <3>2
  <2> QED BY <2>2, <2>3, <2>4, <2>7 DEF SummaryComplete
<1> QED BY <1>1, FileInvariance, PTL

-----------------------------------------------------------------------------
(* The medians of a summary are medians of what was measured.              *)

\* The operations of a process are counted from 0, the positions of a
\* sequence from 1.
LEMMA CountedFromZero ==
  ASSUME NEW n \in Nat, NEW c \in [0 .. n - 1 -> Int], NEW k, NEW x,
         Ranked([i \in 1 .. n |-> c[i - 1]], k, x)
  PROVE  Ranked(c, k, x)
<1>1. ASSUME NEW S, S \subseteq 1 .. n
      PROVE  Cardinality({i - 1 : i \in S}) = Cardinality(S)
  <2> DEFINE T == {i - 1 : i \in S}
             r == [i \in S |-> i - 1]
  <2>1. \A i \in S : i \in Int /\ r[i] = i - 1
    BY <1>1
  <2>2. r \in [S -> T] /\ \A y \in T : \E i \in S : r[i] = y
    OBVIOUS
  <2>3. \A i, j \in S : r[i] = r[j] => i = j
    <3> HIDE DEF r
    <3> SUFFICES ASSUME NEW i \in S, NEW j \in S, r[i] = r[j] PROVE i = j
      OBVIOUS
    <3>1. i \in Int /\ j \in Int /\ i - 1 = j - 1
      BY <2>1
    <3> QED BY <3>1
  <2>4. ExistsBijection(S, T)
    <3> HIDE DEF r, T
    <3> QED BY <2>2, <2>3 DEF ExistsBijection, Bijection, Injection, IsInjective, Surjection
  <2>5. IsFiniteSet(S)
    BY <1>1, Positions
  <2> HIDE DEF T
  <2>6. Cardinality(T) = Cardinality(S)
    BY <2>4, <2>5, FS_Bijection
  <2> QED BY <2>6 DEF T
<1> DEFINE f == [i \in 1 .. n |-> c[i - 1]]
<1>2. DOMAIN f = 1 .. n /\ DOMAIN c = 0 .. n - 1
  OBVIOUS
<1>3. \A i \in 1 .. n : i - 1 \in 0 .. n - 1 /\ f[i] = c[i - 1]
  OBVIOUS
<1>4. \A j \in 0 .. n - 1 : j + 1 \in 1 .. n /\ j = (j + 1) - 1
  OBVIOUS
<1> HIDE DEF f
<1>5. {j \in 0 .. n - 1 : c[j] < x} = {i - 1 : i \in {i \in 1 .. n : f[i] < x}}
  <2>1. \A i \in {i \in 1 .. n : f[i] < x} : i - 1 \in {j \in 0 .. n - 1 : c[j] < x}
    BY <1>3
  <2>2. ASSUME NEW j \in 0 .. n - 1, c[j] < x
        PROVE  \E i \in {i \in 1 .. n : f[i] < x} : j = i - 1
    <3>1. PICK i \in 1 .. n : j = i - 1
      BY <1>4
    <3> QED BY <1>3, <2>2, <3>1
  <2> QED BY <2>1, <2>2
<1>6. {j \in 0 .. n - 1 : c[j] <= x} = {i - 1 : i \in {i \in 1 .. n : f[i] <= x}}
  <2>1. \A i \in {i \in 1 .. n : f[i] <= x} : i - 1 \in {j \in 0 .. n - 1 : c[j] <= x}
    BY <1>3
  <2>2. ASSUME NEW j \in 0 .. n - 1, c[j] <= x
        PROVE  \E i \in {i \in 1 .. n : f[i] <= x} : j = i - 1
    <3>1. PICK i \in 1 .. n : j = i - 1
      BY <1>4
    <3> QED BY <1>3, <2>2, <3>1
  <2> QED BY <2>1, <2>2
<1>7. Cardinality({j \in 0 .. n - 1 : c[j] < x}) = Cardinality({i \in 1 .. n : f[i] < x})
  BY <1>1, <1>5
<1>8. Cardinality({j \in 0 .. n - 1 : c[j] <= x}) = Cardinality({i \in 1 .. n : f[i] <= x})
  BY <1>1, <1>6
<1>9. Ranked(f, k, x)
  BY DEF f
<1> QED BY <1>2, <1>7, <1>8, <1>9 DEF Ranked

\* The median of a process is one of what its clock showed.  Durations that
\* are divided by four have medians that are even, so that medians of these
\* are whole.
LEMMA ProcessMedians ==
  ASSUME Types, NEW id, id.rep \in 1 .. PROCESS_REPEATS
  PROVE  /\ IsMedian(MedianTime(Times(id)), clock[id.rep])
         /\ \E x \in Nat \ {0} : MedianTime(Times(id)) = 2 * x
<1>1. PICK n : n = ITERATIONS
  OBVIOUS
<1>2. PICK c : c = clock[id.rep]
  OBVIOUS
<1>3. PICK f : f = Times(id)
  OBVIOUS
<1>4. n \in Nat \ {0} /\ c \in [0 .. n - 1 -> Durations]
  BY <1>1, <1>2, ConstantsAssumption DEF Types
<1>5. Durations \subseteq Int
  BY ConstantsAssumption
<1>6. f = [i \in 1 .. n |-> c[i - 1]]
  BY <1>1, <1>2, <1>3 DEF Times
<1>7. \A i \in 1 .. n : i - 1 \in 0 .. n - 1 /\ f[i] = c[i - 1] /\ f[i] \in Durations
  BY <1>4, <1>6
<1>8. f \in [1 .. n -> Int]
  BY <1>5, <1>6, <1>7
<1>9. PICK i \in 1 .. n, j \in 1 .. n :
        /\ Ranked(f, (n + 1) \div 2, f[i]) /\ Ranked(f, n \div 2 + 1, f[j])
        /\ MedianTime(f) = (f[i] + f[j]) \div 2
  BY <1>4, <1>8, MedianTimeIs
<1>10. ASSUME NEW d \in Durations PROVE \E x \in Nat \ {0} : d = 4 * x
  <2>1. d \in Nat /\ d > 0 /\ d % 4 = 0
    BY ConstantsAssumption
  <2>2. d \div 4 \in Nat \ {0} /\ d = 4 * (d \div 4)
    BY <2>1
  <2> QED BY <2>2
<1>11. PICK x \in Nat \ {0}, y \in Nat \ {0} : f[i] = 4 * x /\ f[j] = 4 * y
  BY <1>7, <1>10
<1>12. MedianTime(f) = 2 * (x + y) /\ x + y \in Nat \ {0} /\ 2 * MedianTime(f) = f[i] + f[j]
  BY <1>9, <1>11
<1>13. c \in [0 .. n - 1 -> Int]
  BY <1>4, <1>5
<1>14. Ranked(c, (n + 1) \div 2, f[i]) /\ Ranked(c, n \div 2 + 1, f[j])
  BY <1>4, <1>6, <1>9, <1>13, CountedFromZero
<1>15. DOMAIN c = 0 .. n - 1 /\ Cardinality(0 .. n - 1) = n
  BY <1>4, FS_Interval
<1>16. IsMedian(MedianTime(f), c)
  <2>1. PICK h \in 0 .. n - 1, l \in 0 .. n - 1 : f[i] = c[h] /\ f[j] = c[l]
    BY <1>7
  <2> QED BY <1>12, <1>14, <1>15, <2>1 DEF IsMedian
<1> QED BY <1>2, <1>3, <1>12, <1>16

\* The processes of a mode and a size, in the order of their repetitions.
LEMMA RowsRead ==
  ASSUME Types, per_process = {ProcessRow(id) : id \in Runs(Points)}, Points \in Nat,
         NEW mode \in ToSet(MODES), NEW size \in ToSet(SIZES_MIB)
  PROVE  RowsOf(mode, size)
           = [rep \in 1 .. PROCESS_REPEATS |->
                ProcessRow([mode |-> mode, size |-> size, rep |-> rep])]
<1> DEFINE S == {r \in per_process : r.mode = mode /\ r.size_mib = size}
           before == {e \in per_process \X per_process : e[1].run_id.rep < e[2].run_id.rep}
           n == PROCESS_REPEATS
           id(rep) == [mode |-> mode, size |-> size, rep |-> rep]
           q == [rep \in 1 .. n |-> ProcessRow(id(rep))]
<1>1. n \in Nat
  BY ConstantsAssumption
<1>2. \A i : ProcessRow(i).mode = i.mode /\ ProcessRow(i).size_mib = i.size
             /\ ProcessRow(i).run_id = i
  BY DEF ProcessRow
<1>3. ASSUME NEW rep \in 1 .. n PROVE id(rep) \in Runs(Points)
  <2>1. PICK i \in DOMAIN MODES, h \in DOMAIN SIZES_MIB : mode = MODES[i] /\ size = SIZES_MIB[h]
    BY DEF ToSet
  <2>2. PICK k \in Nat : k < Points /\ RUN_ID(k) = id(rep)
    BY <2>1, PointsCover
  <2> QED BY <2>2 DEF Runs
<1>4. ASSUME NEW i \in Runs(Points), i.mode = mode, i.size = size
      PROVE  i.rep \in 1 .. n /\ i = id(i.rep)
  <2>1. PICK k \in 0 .. Points - 1 : i = RUN_ID(k)
    BY DEF Runs
  <2>2. k \in Nat /\ k < Points
    BY <2>1
  <2>3. i \in Ids
    BY <2>1, <2>2, PointIsRun
  <2> QED BY <1>4, <2>3 DEF Ids
<1>5. \A rep \in 1 .. n : q[rep] = ProcessRow(id(rep)) /\ q[rep] \in per_process /\ q[rep] \in S
                        /\ q[rep].run_id.rep = rep
  BY <1>2, <1>3
<1>6. \A r \in S : \E rep \in 1 .. n : q[rep] = r
  <2> SUFFICES ASSUME NEW i \in Runs(Points), ProcessRow(i).mode = mode,
                      ProcessRow(i).size_mib = size
               PROVE  \E rep \in 1 .. n : q[rep] = ProcessRow(i)
    OBVIOUS
  <2>1. i.rep \in 1 .. n /\ i = id(i.rep)
    BY <1>2, <1>4
  <2> HIDE DEF q, id
  <2> QED BY <1>5, <2>1
<1>7. \A j, k \in 1 .. n : <<q[j], q[k]>> \in before <=> j < k
  <2>1. \A x, y \in per_process : <<x, y>> \in before <=> x.run_id.rep < y.run_id.rep
    OBVIOUS
  <2> HIDE DEF before, q, id
  <2> SUFFICES ASSUME NEW j \in 1 .. n, NEW k \in 1 .. n
               PROVE  <<q[j], q[k]>> \in before <=> j < k
    OBVIOUS
  <2>2. <<q[j], q[k]>> \in before <=> q[j].run_id.rep < q[k].run_id.rep
    BY <1>5, <2>1
  <2> QED BY <1>5, <2>2
<1>8. DOMAIN q = 1 .. n
  OBVIOUS
<1>9. q \in Bijection(1 .. n, S)
  <2>1. q \in [1 .. n -> S]
    BY <1>5
  <2>2. \A j, k \in 1 .. n : q[j] = q[k] => j = k
    <3> HIDE DEF q
    <3> QED BY <1>5
  <2> HIDE DEF q, S
  <2> QED BY <1>6, <2>1, <2>2 DEF Bijection, Injection, IsInjective, Surjection
<1>10. RowsOf(mode, size) = Sorted(S, before)
  BY DEF RowsOf
<1> HIDE DEF q, S, before
<1>11. Sorted(S, before) = q
  BY <1>1, <1>7, <1>9, SortedIs
<1> QED BY <1>10, <1>11 DEF q

\* A row of the summary is made of the medians m of all its processes; with an
\* odd number of them, its throughput is the size over its latency.
LEMMA SummaryMedians ==
  ASSUME NEW n \in Nat \ {0}, NEW size \in Nat \ {0}, NEW m \in [1 .. n -> Nat],
         \A i \in 1 .. n : \E x \in Nat \ {0} : m[i] = 2 * x,
         NEW rates, rates = [i \in 1 .. n |-> [num |-> size, den |-> m[i]]]
  PROVE  /\ IsMedian(MedianTime(m), m)
         /\ n % 2 = 1 =>
              MedianRate(rates).num * MedianTime(m) = size * MedianRate(rates).den
<1>1. m \in [1 .. n -> Int] /\ DOMAIN m = 1 .. n
  OBVIOUS
<1>2. PICK i \in 1 .. n, j \in 1 .. n :
        /\ Ranked(m, (n + 1) \div 2, m[i]) /\ Ranked(m, n \div 2 + 1, m[j])
        /\ MedianTime(m) = (m[i] + m[j]) \div 2
        /\ n % 2 = 1 => i = j
  BY <1>1, MedianTimeIs
<1>3. PICK x \in Nat \ {0}, y \in Nat \ {0} : m[i] = 2 * x /\ m[j] = 2 * y
  OBVIOUS
<1>4. MedianTime(m) = x + y /\ 2 * MedianTime(m) = m[i] + m[j]
  BY <1>2, <1>3
<1>5. IsMedian(MedianTime(m), m)
  <2>1. Cardinality(1 .. n) = n
    BY FS_Interval
  <2> QED BY <1>1, <1>2, <1>4, <2>1 DEF IsMedian
<1>6. ASSUME n % 2 = 1
      PROVE  MedianRate(rates).num * MedianTime(m) = size * MedianRate(rates).den
  <2>1. PICK d \in Nat :
          /\ Ranked([k \in 1 .. n |-> 0 - m[k]], (n + 1) \div 2, 0 - d)
          /\ MedianRate(rates) = [num |-> size * d + size * d, den |-> 2 * d * d]
    <3>1. MiddleRate(n, size, m, rates)
      BY <1>6, MedianRateIs
    <3> QED BY <3>1, Zenon DEF MiddleRate
  <2>2. PICK k \in Nat : k = (n + 1) \div 2 /\ n = 2 * k - 1
    <3>1. (n + 1) \div 2 \in 1 .. n /\ n = 2 * ((n + 1) \div 2) - 1
      BY <1>6, MiddleIs
    <3> QED BY <3>1
  <2>3. Ranked(m, k, m[i]) /\ m[i] \in Int /\ d \in Int
    BY <1>1, <1>2, <2>2
  <2>4. m[i] = d
    BY <1>1, <2>1, <2>2, <2>3, OneMiddle
  <2>5. MedianTime(m) = d
    <3>1. m[j] = m[i]
      BY <1>2, <1>6
    <3>2. x = y
      BY <1>3, <3>1
    <3> QED BY <1>3, <1>4, <2>4, <3>2
  <2>6. (size * d + size * d) * d = size * (2 * d * d)
    OBVIOUS
  <2>7. MedianRate(rates).num = size * d + size * d /\ MedianRate(rates).den = 2 * d * d
    BY <2>1
  <2> QED BY <2>5, <2>6, <2>7
<1> QED BY <1>5, <1>6

\* A summary exists only if all processes succeeded; every row of it is the
\* median over all repetitions of the medians over all timed iterations, and
\* with an odd number of processes its throughput is the size divided by its
\* latency.
THEOREM SummariesFaithful == Spec => []SummaryFaithful
<1>1. FileInv /\ SummaryComplete => SummaryFaithful
  <2> SUFFICES ASSUME FileInv, SummaryComplete, summary # {} PROVE SummaryFaithful
    BY DEF SummaryFaithful
  <2>1. /\ Types /\ runner = "done" /\ point = Points /\ Points \in Nat
        /\ per_process = {ProcessRow(id) : id \in Runs(Points)}
        /\ summary = {SummaryRow(r.mode, r.size_mib) : r \in per_process}
        /\ {<<r.mode, r.size_mib>> : r \in summary} = ToSet(MODES) \X ToSet(SIZES_MIB)
    BY DEF FileInv, Summarized, Progress, SampleInv, Types, SummaryComplete
  <2>2. ASSUME NEW id \in Runs(Points)
        PROVE  id.rep \in 1 .. PROCESS_REPEATS
    <3>1. PICK k \in 0 .. Points - 1 : id = RUN_ID(k)
      BY DEF Runs
    <3>2. k \in Nat /\ k < Points
      BY <2>1
    <3> QED BY <3>1, <3>2, PointIsRun DEF Ids
  <2>3. ASSUME NEW r \in per_process
        PROVE  r.samples = ITERATIONS /\ IsMedian(r.median_total, clock[r.run_id.rep])
    <3>1. PICK id \in Runs(Points) : r = ProcessRow(id)
      BY <2>1
    <3>2. r.samples = ITERATIONS /\ r.run_id = id /\ r.median_total = MedianTime(Times(id))
      BY <3>1 DEF ProcessRow
    <3> QED BY <2>1, <2>2, <3>2, ProcessMedians
  <2>4. ASSUME NEW r \in summary
        PROVE  /\ r.processes = PROCESS_REPEATS
               /\ IsMedian(r.median_latency,
                           [rep \in 1 .. PROCESS_REPEATS |->
                              ProcessMedian(r.mode, r.size_mib, rep)])
               /\ PROCESS_REPEATS % 2 = 1 =>
                    r.median_throughput.num * r.median_latency
                      = r.size_mib * r.median_throughput.den
    <3>1. PICK mode, size : mode = r.mode /\ size = r.size_mib
      OBVIOUS
    <3>2. mode \in ToSet(MODES) /\ size \in ToSet(SIZES_MIB)
      <4>1. <<r.mode, r.size_mib>> \in ToSet(MODES) \X ToSet(SIZES_MIB)
        BY <2>1
      <4> QED BY <3>1, <4>1
    <3>3. r = SummaryRow(mode, size)
      <4>1. PICK p \in per_process : r = SummaryRow(p.mode, p.size_mib)
        BY <2>1
      <4>2. r.mode = p.mode /\ r.size_mib = p.size_mib
        BY <4>1 DEF SummaryRow
      <4> QED BY <3>1, <4>1, <4>2
    <3> DEFINE n == PROCESS_REPEATS
               id(rep) == [mode |-> mode, size |-> size, rep |-> rep]
               m == [rep \in 1 .. n |-> MedianTime(Times(id(rep)))]
               rates == [rep \in 1 .. n |-> [num |-> size, den |-> m[rep]]]
               procs == [rep \in 1 .. n |-> ProcessRow(id(rep))]
    <3>4. RowsOf(mode, size) = procs
      BY <2>1, <3>2, RowsRead
    <3>5. n \in Nat \ {0} /\ size \in Nat \ {0}
      BY <3>2, ConstantsAssumption DEF ToSet
    <3>6. \A rep \in 1 .. n : /\ procs[rep].median_total = m[rep]
                            /\ procs[rep].throughput = rates[rep]
                            /\ id(rep).rep \in 1 .. PROCESS_REPEATS
                            /\ m[rep] = MedianTime(Times(id(rep)))
      BY DEF ProcessRow, rate
    <3>7. /\ r.processes = Len(procs)
          /\ r.median_latency = MedianTime([i \in DOMAIN procs |-> procs[i].median_total])
          /\ r.median_throughput = MedianRate([i \in DOMAIN procs |-> procs[i].throughput])
      BY <3>3, <3>4 DEF SummaryRow
    <3>8. Len(procs) = n /\ DOMAIN procs = 1 .. n
      BY <3>5
    <3>9. /\ [i \in 1 .. n |-> procs[i].median_total] = m
          /\ [i \in 1 .. n |-> procs[i].throughput] = rates
      BY <3>6
    <3>10. \A rep \in 1 .. n : \E x \in Nat \ {0} : m[rep] = 2 * x
      BY <2>1, <3>6, ProcessMedians
    <3>11. m \in [1 .. n -> Nat]
      BY <3>10
    <3>12. \A rep \in 1 .. n : ProcessMedian(mode, size, rep) = m[rep]
      <4> SUFFICES ASSUME NEW rep \in 1 .. n PROVE ProcessMedian(mode, size, rep) = m[rep]
        OBVIOUS
      <4>1. ProcessRow(id(rep)) \in per_process
        <5>1. PICK i \in DOMAIN MODES, h \in DOMAIN SIZES_MIB :
                mode = MODES[i] /\ size = SIZES_MIB[h]
          BY <3>2 DEF ToSet
        <5>2. PICK k \in Nat : k < Points /\ RUN_ID(k) = id(rep)
          BY <5>1, PointsCover
        <5>3. id(rep) \in Runs(Points)
          BY <2>1, <5>2 DEF Runs
        <5> QED BY <2>1, <5>3
      <4>2. \A p \in per_process : p.run_id = id(rep) => p = ProcessRow(id(rep))
        <5>1. \A i : ProcessRow(i).run_id = i
          BY DEF ProcessRow
        <5> QED BY <2>1, <5>1
      <4>3. ProcessRow(id(rep)).run_id = id(rep)
        BY DEF ProcessRow
      <4>4. (CHOOSE p \in per_process : p.run_id = id(rep)) = ProcessRow(id(rep))
        <5> HIDE DEF id
        <5> QED BY <4>1, <4>2, <4>3
      <4>5. ProcessRow(id(rep)).median_total = m[rep]
        BY DEF ProcessRow
      <4> QED BY <4>4, <4>5 DEF ProcessMedian
    <3>13. [rep \in 1 .. n |-> ProcessMedian(mode, size, rep)] = m
      BY <3>12
    <3>14. rates = [i \in 1 .. n |-> [num |-> size, den |-> m[i]]]
      OBVIOUS
    <3> HIDE DEF m, rates, procs
    <3>15. r.median_latency = MedianTime(m) /\ r.median_throughput = MedianRate(rates)
      BY <3>7, <3>8, <3>9
    <3>16. /\ IsMedian(MedianTime(m), m)
           /\ n % 2 = 1 =>
                MedianRate(rates).num * MedianTime(m) = size * MedianRate(rates).den
      BY <3>5, <3>10, <3>11, <3>14, SummaryMedians
    <3> QED BY <3>1, <3>7, <3>8, <3>13, <3>15, <3>16
  <2> QED BY <2>1, <2>3, <2>4 DEF SummaryFaithful
<1> QED BY <1>1, FileInvariance, SummariesComplete, PTL

-----------------------------------------------------------------------------
\* No later step of an experiment changes or removes a finished file, if no
\* mode and no size is in its loop twice.
THEOREM FilesRetained == ASSUME DistinctPoints PROVE Spec => RawRetained
<1>1. FileInv /\ [Next]_vars =>
        [\A id \in DOMAIN raw :
           raw[id].closed => id \in DOMAIN raw' /\ raw'[id] = raw[id]]_vars
  <2> SUFFICES ASSUME FileInv, Next, NEW f \in DOMAIN raw, raw[f].closed
               PROVE  f \in DOMAIN raw' /\ raw'[f] = raw[f]
    OBVIOUS
  <2>1. CASE Check
    <3>1. proc.id = RUN_ID(point) /\ point \in Nat /\ point < Points /\ runner = "loop"
          /\ proc.pc = "check"
      BY <2>1 DEF FileInv, SampleInv, Types, Check, NoProcess
    <3>2. DOMAIN raw = Runs(point)
      BY <3>1 DEF FileInv, Progress, Writing
    <3>3. Points \in Nat
      BY <3>1, PointsPositive DEF Points
    <3>4. proc.id \notin DOMAIN raw
      <4> SUFFICES ASSUME NEW k \in 0 .. point - 1, RUN_ID(k) = RUN_ID(point) PROVE FALSE
        BY <3>1, <3>2 DEF Runs
      <4>1. k \in Nat /\ k < Points /\ k # point
        BY <3>1, <3>3
      <4> QED BY <3>1, <4>1, RunsDiffer
    <3>5. \A id \in DOMAIN raw : id \in DOMAIN raw' /\ raw'[id] = raw[id]
      BY <2>1, <3>4 DEF Check
    <3> QED BY <3>5
  <2>2. CASE Write \/ (Die /\ proc.pc = "write")
    <3>1. proc.pc = "write"
      BY <2>2 DEF Write
    <3>2. ~ raw[proc.id].closed
      BY <3>1 DEF FileInv, SampleInv, Opened
    <3>3. DOMAIN raw' = DOMAIN raw /\ \A id \in DOMAIN raw : id # proc.id => raw'[id] = raw[id]
      BY <2>2, <3>1 DEF Write, Die
    <3> QED BY <3>2, <3>3
  <2>3. CASE UNCHANGED raw
    BY <2>3
  <2> QED BY <2>1, <2>2, <2>3
          DEF Next, Start, Warm, Timed, Report, Die, PerProcess, Summarize, SummarizerDies
<1> QED BY <1>1, FileInvariance, PTL DEF Spec, RawRetained

=============================================================================

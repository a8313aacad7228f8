----------------------------- MODULE PaperBench -----------------------------
(***************************************************************************)
(* The CPU paper benchmark: run_cpu_paper_bench.sh starts one Python       *)
(* process after the other, each of them measures one mode at one size and *)
(* writes a CSV file of raw samples, and summarize_results.py turns the    *)
(* files into the published medians.  Any step may raise and any process   *)
(* may be killed, also half way through its file.                          *)
(*                                                                         *)
(* A buffer is known by what it holds: "zero", the "pattern" of the        *)
(* plaintext, a valid "frame" of the pattern, or "garbage".                *)
(***************************************************************************)
EXTENDS Integers, Sequences, FiniteSets, SequencesExt

CONSTANTS
  MODES, SIZES_MIB,  \* sequences, in the order of the runner's loops
  PROCESS_REPEATS,   \* processes for each mode and size
  WARMUP, ITERATIONS, \* operations of a process: untimed, timed
  Durations,         \* bound: how long a timed operation can take
  MaxFaults          \* bound: failures, and processes whose backend is wrong

ASSUME ConstantsAssumption ==
  /\ MODES \in Seq(STRING) /\ SIZES_MIB \in Seq(Nat \ {0})
  /\ PROCESS_REPEATS \in Nat \ {0}
  /\ WARMUP \in Nat \ {0} /\ ITERATIONS \in Nat \ {0}
  /\ Durations \subseteq Nat
  /\ \A d \in Durations : d > 0 /\ d % 4 = 0 \* means of means stay whole
  /\ MaxFaults \in Nat

\* No mode and no size is in its loop twice, as in configs/cpu_paper.env.
DistinctPoints == IsInjective(MODES) /\ IsInjective(SIZES_MIB)

VARIABLES
  clock,       \* input: the durations of the timed operations of a process
  runner,      \* "loop", "summarize", "aggregate", "done" or "failed"
  point,       \* the number of processes the runner has seen end
  proc,        \* the running process
  raw,         \* the files of the directory raw, by RUN_ID
  per_process, \* the rows of per_process.csv
  summary,     \* the rows of summary.csv
  faults       \* history: failures left

vars == <<clock, runner, point, proc, raw, per_process, summary, faults>>

-----------------------------------------------------------------------------
(* Statistics.                                                             *)

\* sorted(): the elements of S, each of them after those that come before it.
\* (For TLC's SortSeq, and what is built on it, the prover has no definition.)
Sorted(S, before) ==
  [k \in 1 .. Cardinality(S) |->
     CHOOSE x \in S : Cardinality({y \in S : <<y, x>> \in before}) = k - 1]

\* The positions of data in ascending order of their values, given the pairs of
\* positions of which the first has the smaller one; equal values stay in order.
Order(at, less) ==
  Sorted(at, less \cup {e \in at \X at : <<e[2], e[1]>> \notin less /\ e[1] < e[2]})

\* statistics.median is the mean of the two values in the middle of the sorted
\* data, which are one and the same when their number is odd.
Middle(n) == <<(n + 1) \div 2, n \div 2 + 1>>

MedianTime(times) ==
  LET at == DOMAIN times
      o == Order(at, {e \in at \X at : times[e[1]] < times[e[2]]})
      m == Middle(Len(times))
  IN  (times[o[m[1]]] + times[o[m[2]]]) \div 2

\* Throughputs are fractions.
MedianRate(rates) ==
  LET at == DOMAIN rates
      o == Order(at, {e \in at \X at : rates[e[1]].num * rates[e[2]].den
                                          < rates[e[2]].num * rates[e[1]].den})
      m == Middle(Len(rates))
      low == rates[o[m[1]]]
      high == rates[o[m[2]]]
  IN  [num |-> low.num * high.den + high.num * low.den,
       den |-> 2 * low.den * high.den]

-----------------------------------------------------------------------------
(* The runner.                                                             *)

Points == Len(MODES) * Len(SIZES_MIB) * PROCESS_REPEATS

run_id_without_rep(k) ==
  [mode |-> MODES[k \div (Len(SIZES_MIB) * PROCESS_REPEATS) + 1],
   size |-> SIZES_MIB[((k \div PROCESS_REPEATS) % Len(SIZES_MIB)) + 1],
   rep  |-> 1]

\* The process that the three nested loops start after k others.
RUN_ID(k) ==
  [mode |-> MODES[k \div (Len(SIZES_MIB) * PROCESS_REPEATS) + 1],
   size |-> SIZES_MIB[((k \div PROCESS_REPEATS) % Len(SIZES_MIB)) + 1],
   rep  |-> (k % PROCESS_REPEATS) + 1]

OpenModes == {"lmcache_open", "optimized_cpu_open"}
CheckedModes == OpenModes \cup {"lmcache_total", "optimized_cpu"}

NoProcess == [pc |-> "none"]

pretouched_with_pattern(mode) ==
  IF mode \in OpenModes THEN [out |-> "pattern", cold |-> FALSE]
  ELSE [out |-> "zero", cold |-> mode # "optimized_cpu"]

\* The output buffer of the measured operation after the set-up: only
\* bench_seal_worker.py leaves its pages untouched.
pretouched(mode) == [out |-> "zero", cold |-> mode \notin OpenModes \cup {"optimized_cpu"}]

\* A process begins: arguments, buffers, keys and, for an open, the frame.
\* What its backend does wrong without reporting it, it does throughout.
Start(backend) ==
  LET id == RUN_ID(point)
  IN  /\ runner = "loop" /\ point < Points /\ proc = NoProcess
      /\ backend # "right" => faults > 0
      /\ faults' = IF backend = "right" THEN faults ELSE faults - 1
      /\ proc' = [pc |-> "warmup", id |-> id, backend |-> backend, ops |-> 0,
                  rows |-> <<>>, buf |-> pretouched(id.mode)]
      /\ UNCHANGED <<clock, runner, point, raw, per_process, summary>>

after_any_exit(ok) ==
  /\ proc' = NoProcess
  /\ point' = point + 1
  /\ runner' = IF point + 1 = Points THEN "summarize" ELSE "loop"

\* set -e: the first process that fails ends the experiment.
AfterExit(ok) ==
  /\ proc' = NoProcess
  /\ point' = point + 1
  /\ runner' = IF ~ ok THEN "failed"
               ELSE IF point + 1 = Points THEN "summarize" ELSE "loop"

-----------------------------------------------------------------------------
(* A process.                                                              *)

\* One measured operation: a seal fills the output with a frame, an open
\* with the pattern; raw_aes uses neither buffer.
Operated(p) ==
  LET mode == p.id.mode
  IN  IF mode = "raw_aes" \/ p.backend = "nothing" THEN p.buf
      ELSE [cold |-> FALSE,
            out  |-> IF p.backend = "wrong" THEN "garbage"
                     ELSE IF mode \in OpenModes THEN "pattern" ELSE "frame"]

warmed_one_less(p) == p.ops + 1 >= WARMUP
warmed(p) == p.ops >= WARMUP

Warm ==
  /\ proc.pc = "warmup"
  /\ IF warmed(proc)
     THEN proc' = [proc EXCEPT !.pc = "timed", !.ops = 0]
     ELSE proc' = [proc EXCEPT !.ops = @ + 1, !.buf = Operated(proc)]
  /\ UNCHANGED <<clock, runner, point, raw, per_process, summary, faults>>

\* A timed operation and its row.  minflt counts the buffer's first touch.
Timed ==
  /\ proc.pc = "timed"
  /\ IF proc.ops = ITERATIONS
     THEN proc' = [proc EXCEPT !.pc = "check"]
     ELSE LET after == Operated(proc)
              row == [run_id |-> proc.id, iteration |-> proc.ops,
                      total_ns |-> clock[proc.id.rep][proc.ops],
                      minflt |-> IF proc.buf.cold /\ ~ after.cold THEN 1 ELSE 0]
          IN  proc' = [proc EXCEPT !.ops = @ + 1, !.buf = after,
                                   !.rows = Append(@, row)]
  /\ UNCHANGED <<clock, runner, point, raw, per_process, summary, faults>>

\* The correctness check after the timing: stock LMCache must open the frame,
\* one sealed anew for lmcache_total, and the bytes must be the pattern's.
verified(p) ==
  CASE p.id.mode \in OpenModes       -> p.buf.out = "pattern"
    [] p.id.mode = "optimized_cpu"   -> p.buf.out = "frame"
    [] p.id.mode = "lmcache_total"   -> Operated(p).out = "frame"
    [] OTHER                         -> TRUE

\* open(args.output, "w") truncates the file.
Check ==
  /\ proc.pc = "check"
  /\ IF verified(proc)
     THEN /\ proc' = [proc EXCEPT !.pc = "write"]
          /\ raw' = [id \in DOMAIN raw \cup {proc.id} |->
                       IF id = proc.id
                       THEN [rows |-> <<>>, closed |-> FALSE,
                             backend |-> proc.backend]
                       ELSE raw[id]]
          /\ UNCHANGED <<runner, point>>
     ELSE AfterExit(FALSE) /\ UNCHANGED raw
  /\ UNCHANGED <<clock, per_process, summary, faults>>

Write ==
  /\ proc.pc = "write"
  /\ raw' = [raw EXCEPT ![proc.id].rows = proc.rows, ![proc.id].closed = TRUE]
  /\ proc' = [proc EXCEPT !.pc = "report"]
  /\ UNCHANGED <<clock, runner, point, per_process, summary, faults>>

\* The printed statistics, and exit status 0.
Report ==
  /\ proc.pc = "report"
  /\ AfterExit(TRUE)
  /\ UNCHANGED <<clock, raw, per_process, summary, faults>>

\* An exception or a signal.  Of a file being written a prefix is left.
Die ==
  /\ proc # NoProcess
  /\ faults > 0
  /\ faults' = faults - 1
  /\ AfterExit(FALSE)
  /\ IF proc.pc = "write"
     THEN \E k \in 0 .. ITERATIONS :
            raw' = [raw EXCEPT ![proc.id].rows = SubSeq(proc.rows, 1, k)]
     ELSE UNCHANGED raw
  /\ UNCHANGED <<clock, per_process, summary>>

-----------------------------------------------------------------------------
(* summarize_results.py.                                                   *)

\* The times of the rows of a run (its mode and size are in its run_id), from
\* all the files.
TimesOf(id) ==
  LET rows == UNION {ToSet(raw[f].rows) : f \in DOMAIN raw}
      mine == Sorted({r \in rows : r.run_id = id},
                     {e \in rows \X rows : e[1].iteration < e[2].iteration})
  IN  [i \in DOMAIN mine |-> mine[i].total_ns]

\* gib / (med_total / 1000)
rate(size, times) == [num |-> size, den |-> MedianTime(times)]

\* by_process; a file without rows makes none.
PerProcess ==
  LET ids == {id \in DOMAIN raw : raw[id].rows # <<>>}
      row(id) == LET times == TimesOf(id)
                 IN  [mode |-> id.mode, size_mib |-> id.size, run_id |-> id,
                      samples |-> Len(times), median_total |-> MedianTime(times),
                      throughput |-> rate(id.size, times)]
  IN  /\ runner = "summarize"
      /\ runner' = "aggregate"
      /\ per_process' = {row(id) : id \in ids}
      /\ UNCHANGED <<clock, point, proc, raw, summary, faults>>

\* The rows of a mode and a size, by repetition.
RowsOf(mode, size) ==
  Sorted({r \in per_process : r.mode = mode /\ r.size_mib = size},
         {e \in per_process \X per_process : e[1].run_id.rep < e[2].run_id.rep})

Summarize ==
  LET row(mode, size) ==
        LET procs == RowsOf(mode, size)
        IN  [mode |-> mode, size_mib |-> size, processes |-> Len(procs),
             median_latency |-> MedianTime([i \in DOMAIN procs |->
                                              procs[i].median_total]),
             median_throughput |-> MedianRate([i \in DOMAIN procs |->
                                                 procs[i].throughput])]
  IN  /\ runner = "aggregate"
      /\ summary' = {row(r.mode, r.size_mib) : r \in per_process}
      /\ runner' = "done"
      /\ UNCHANGED <<clock, point, proc, raw, per_process, faults>>

SummarizerDies ==
  /\ runner \in {"summarize", "aggregate"}
  /\ faults > 0
  /\ faults' = faults - 1
  /\ runner' = "failed"
  /\ UNCHANGED <<clock, point, proc, raw, per_process, summary>>

-----------------------------------------------------------------------------
Init ==
  /\ clock \in [1 .. PROCESS_REPEATS -> [0 .. ITERATIONS - 1 -> Durations]]
  /\ runner = "loop"
  /\ point = 0
  /\ proc = NoProcess
  /\ raw = [id \in {} |-> <<>>]
  /\ per_process = {}
  /\ summary = {}
  /\ faults = MaxFaults

Next ==
  \/ \E backend \in {"right", "wrong", "nothing"} : Start(backend)
  \/ Warm \/ Timed \/ Check \/ Write \/ Report \/ Die
  \/ PerProcess \/ Summarize \/ SummarizerDies

Spec == Init /\ [][Next]_vars

-----------------------------------------------------------------------------
(* Properties.                                                             *)

\* x is the k-th smallest value of f.
Ranked(f, k, x) ==
  /\ Cardinality({i \in DOMAIN f : f[i] < x}) < k
  /\ k <= Cardinality({i \in DOMAIN f : f[i] <= x})

IsMedian(m, f) ==
  LET n == Cardinality(DOMAIN f)
  IN  \E i, j \in DOMAIN f :
        /\ Ranked(f, (n + 1) \div 2, f[i]) /\ Ranked(f, n \div 2 + 1, f[j])
        /\ 2 * m = f[i] + f[j]

ProcessMedian(mode, size, rep) ==
  (CHOOSE r \in per_process :
     r.run_id = [mode |-> mode, size |-> size, rep |-> rep]).median_total

\* "Each point uses multiple independent Python processes, raw per-iteration
\* samples": a summary exists only if all processes succeeded, every row of
\* it is the median over all repetitions of the medians over all timed
\* iterations, and with an odd number of processes the throughput it states
\* is the size divided by the latency it states.
SummaryFaithful ==
  summary # {} =>
    /\ {<<r.mode, r.size_mib>> : r \in summary} = ToSet(MODES) \X ToSet(SIZES_MIB)
    /\ \A r \in per_process :
         r.samples = ITERATIONS /\ IsMedian(r.median_total, clock[r.run_id.rep])
    /\ \A r \in summary :
         /\ r.processes = PROCESS_REPEATS
         /\ IsMedian(r.median_latency,
                     [rep \in 1 .. PROCESS_REPEATS |->
                        ProcessMedian(r.mode, r.size_mib, rep)])
         /\ PROCESS_REPEATS % 2 = 1 =>
              r.median_throughput.num * r.median_latency
                = r.size_mib * r.median_throughput.den

\* "Native-produced frame must be consumable by stock LMCache": no process
\* of a mode that is checked at all is in a summary when its backend
\* produced wrong bytes, or none, without reporting it.
SummaryVerified ==
  summary # {} =>
    \A id \in DOMAIN raw : id.mode \in CheckedModes => raw[id].backend = "right"

\* "page allocation of src/dst must not contaminate measured sealing time":
\* no timed operation is the first to touch the pages of its buffers.
TimedWarm ==
  \A id \in DOMAIN raw : \A i \in DOMAIN raw[id].rows : raw[id].rows[i].minflt = 0

\* "Raw samples must always be retained": no later step of an experiment,
\* successful or not, changes or removes a finished file of samples.
RawRetained ==
  [][\A id \in DOMAIN raw :
       raw[id].closed => id \in DOMAIN raw' /\ raw'[id] = raw[id]]_vars

=============================================================================

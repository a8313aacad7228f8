------------------------- MODULE NativeSerdeProofs -------------------------
(***************************************************************************)
(* The CPU path for any number of workers, tasks, buffers, keys and        *)
(* failures.  What makes it safe is that a frame has one writer: between   *)
(* the IV a seal draws into its frame and the IV it reads back, and until  *)
(* its tag is written, no other task writes that frame.                    *)
(***************************************************************************)
EXTENDS NativeSerde, TLAPS

Task == [op : {"seal", "open"}, key : Keys, n : Nat, f : Frames,
         o : Outs \cup {None}, state : States, seen : Nat]

Busy(w) == worker[w].pc # "idle"
TaskOf(w) == tasks[worker[w].task]
FrameOf(w) == frame[TaskOf(w).f]

SealSteps == {"context", "rand", "init", "update", "final", "gettag"}
OpenSteps == {"version", "context", "init", "settag", "update", "final"}

\* The tasks taken are those of the workers, and the ones that were answered.
Queueing ==
  /\ \A t \in DOMAIN tasks :
       /\ tasks[t].state = "queued" <=> t > taken
       /\ tasks[t].op = "open" => tasks[t].o \in Outs
  /\ \A w \in Workers : Busy(w) =>
       /\ worker[w].task \in 1 .. taken
       /\ TaskOf(w).state = "running"
       /\ TaskOf(w).n \in 1 .. Capacity
       /\ TaskOf(w).op = "seal" => worker[w].pc \in SealSteps
       /\ TaskOf(w).op = "open" => worker[w].pc \in OpenSteps
  /\ \A w, v \in Workers :
       Busy(w) /\ Busy(v) /\ worker[w].task = worker[v].task => w = v

OneWriter ==
  \A s, t \in DOMAIN tasks :
    /\ Pending(s) /\ tasks[s].op = "seal"
    /\ Pending(t) /\ tasks[t].op = "seal"
    /\ tasks[s].f = tasks[t].f
    => s = t

\* How far the updates of a task have come, at step p with context c.
ProgressAt(p, c, k) ==
  /\ p = "settag" => c.cts = <<>>
  /\ p = "update" => Len(c.cts) < k.n
  /\ p \in {"final", "gettag"} => Len(c.cts) = k.n
  /\ p \in {"settag", "update", "final", "gettag"} => c.key = k.key

\* What seal t in progress has put into its frame b.
SealingAt(p, t, c, k, b) ==
  /\ p \in {"init", "update", "final", "gettag"} => b.ver = 1 /\ b.iv = t /\ b.by = t
  /\ p \in {"update", "final", "gettag"} =>
       /\ c.iv = t
       /\ \A i \in 1 .. Len(c.cts) :
            c.cts[i] = Chunk(k.key, t, t, i - 1) /\ b.cell[i - 1] = c.cts[i]

ProgressOf(w) == ProgressAt(worker[w].pc, worker[w].ctx, TaskOf(w))
SealingOf(w) ==
  SealingAt(worker[w].pc, worker[w].task, worker[w].ctx, TaskOf(w), FrameOf(w))

Progress == \A w \in Workers : Busy(w) => ProgressOf(w)
Sealing == \A w \in Workers : Busy(w) /\ TaskOf(w).op = "seal" => SealingOf(w)

\* The seal that wrote a frame last.
LastWriter ==
  \A f \in Frames : frame[f].by # 0 =>
    /\ frame[f].by \in 1 .. taken
    /\ tasks[frame[f].by].op = "seal" /\ tasks[frame[f].by].f = f

SealsAnswered ==
  \A s \in DOMAIN tasks :
    tasks[s].op = "seal" /\ tasks[s].state = "ok" => tasks[s].n \in 1 .. Capacity

OwnIvs == \A x \in sealed : x.iv = x.pt

NInv ==
  /\ TypeOK
  /\ Queueing
  /\ OneWriter
  /\ Progress
  /\ Sealing
  /\ LastWriter
  /\ SealsAnswered
  /\ OwnIvs
  /\ SealedFramesCorrect

-----------------------------------------------------------------------------
(* Types.                                                                  *)

LEMMA AppendFacts ==
  ASSUME NEW S, NEW s \in Seq(S), NEW x \in S, NEW r, r = Append(s, x)
  PROVE  /\ Len(r) = Len(s) + 1 /\ r[Len(s) + 1] = x
         /\ \A j \in 1 .. Len(s) : r[j] = s[j]
OBVIOUS

\* A failing call uses up one of the failures.
LEMMA FaultSpent ==
  ASSUME faults \in Nat, NEW kind, Fault(kind)
  PROVE  faults' \in Nat /\ faults' <= faults
BY DEF Fault

LEMMA ReturnAnswers ==
  ASSUME NEW w, NEW result, Return(w, result)
  PROVE  tasks' = [tasks EXCEPT ![worker[w].task].state = result]
BY DEF Return

LEMMA SeqUpdated ==
  ASSUME NEW S, NEW q \in Seq(S), NEW i \in 1 .. Len(q), NEW e \in S
  PROVE  /\ [q EXCEPT ![i] = e] \in Seq(S)
         /\ Len([q EXCEPT ![i] = e]) = Len(q)
         /\ DOMAIN [q EXCEPT ![i] = e] = 1 .. Len(q)
         /\ \A j \in 1 .. Len(q) : [q EXCEPT ![i] = e][j] = IF j = i THEN e ELSE q[j]
OBVIOUS

LEMMA SeqExtended ==
  ASSUME NEW S, NEW q \in Seq(S), NEW e \in S
  PROVE  /\ Append(q, e) \in Seq(S)
         /\ Len(Append(q, e)) = Len(q) + 1
         /\ DOMAIN Append(q, e) = 1 .. Len(q) + 1
         /\ \A j \in 1 .. Len(q) : Append(q, e)[j] = q[j]
         /\ Append(q, e)[Len(q) + 1] = e
OBVIOUS

Worker == [pc : Steps, task : 0 .. taken, ctx : Contexts]
Buffer == [ver : {0, 1, 2}, iv : Nat, cell : [0 .. Capacity -> Cells],
           used : 0 .. Capacity, by : 0 .. taken]

LEMMA Constants ==
  /\ Capacity \in Nat /\ Lens \subseteq Nat
  /\ None \notin Outs /\ None \notin Masters /\ None \notin Frames
BY ConstantsAssumption

LEMMA FreshContexts ==
  /\ NoTag \in Tags /\ NoTag \in Cells
  /\ Reset \in Contexts /\ [Reset EXCEPT !.state = "unborn"] \in Contexts
<1>1. <<>> \in Seq(Chunks) /\ <<>> \in Seq(Cells)
  OBVIOUS
<1>2. NoTag \in Tags
  BY <1>1 DEF NoTag, GcmTag, Tags, NullKeys
<1>3. NoTag \in Cells
  BY <1>2 DEF Cells
<1>4. Reset \in Contexts
  BY <1>1, <1>3 DEF Reset, Contexts, NullKeys
<1> QED BY <1>2, <1>3, <1>4 DEF Contexts

LEMMA InitTypes == Init => TypeOK
<1> SUFFICES ASSUME Init PROVE TypeOK
  OBVIOUS
<1>1. NewWorker \in [pc : Steps, task : 0 .. 0, ctx : Contexts]
  BY FreshContexts DEF NewWorker, Steps
<1>2. Junk \in Cells
  BY DEF Junk, Chunk, Cells, Chunks, NullKeys
<1> QED BY <1>1, <1>2, Constants, ConstantsAssumption DEF Init, TypeOK

LEMMA TaskTyped ==
  ASSUME TypeOK, Queueing, NEW w \in Workers, Busy(w)
  PROVE  /\ worker[w].task \in 1 .. Len(tasks)
         /\ TaskOf(w) \in Task /\ TaskOf(w).n \in 1 .. Capacity
         /\ TaskOf(w).f \in Frames /\ FrameOf(w) \in Buffer
         /\ worker[w] \in Worker
<1>1. worker[w].task \in 1 .. Len(tasks) /\ TaskOf(w).n \in 1 .. Capacity
  BY DEF TypeOK, Queueing
<1>2. tasks \in Seq(Task)
  BY DEF TypeOK, Task
<1>3. TaskOf(w) \in Task
  BY <1>1, <1>2 DEF TaskOf
<1>4. TaskOf(w).f \in Frames
  BY <1>3 DEF Task
<1>5. FrameOf(w) \in Buffer /\ worker[w] \in Worker
  BY <1>4 DEF TypeOK, FrameOf, Buffer, Worker
<1> QED BY <1>1, <1>3, <1>4, <1>5

-----------------------------------------------------------------------------
(* Updates of several fields, one at a time.                               *)

LEMMA PcSet ==
  ASSUME NEW W \in [Workers -> Worker], NEW w \in Workers, NEW p \in Steps
  PROVE  LET V == [W EXCEPT ![w].pc = p]
         IN  /\ V \in [Workers -> Worker]
             /\ V[w].pc = p /\ V[w].task = W[w].task /\ V[w].ctx = W[w].ctx
             /\ \A v \in Workers \ {w} : V[v] = W[v]
BY DEF Worker

LEMMA TaskSet ==
  ASSUME NEW W \in [Workers -> Worker], NEW w \in Workers, NEW t \in 0 .. taken
  PROVE  LET V == [W EXCEPT ![w].task = t]
         IN  /\ V \in [Workers -> Worker]
             /\ V[w].pc = W[w].pc /\ V[w].task = t /\ V[w].ctx = W[w].ctx
             /\ \A v \in Workers \ {w} : V[v] = W[v]
BY DEF Worker

LEMMA ContextSet ==
  ASSUME NEW W \in [Workers -> Worker], NEW w \in Workers, NEW c \in Contexts
  PROVE  LET V == [W EXCEPT ![w].ctx = c]
         IN  /\ V \in [Workers -> Worker]
             /\ V[w].pc = W[w].pc /\ V[w].task = W[w].task /\ V[w].ctx = c
             /\ \A v \in Workers \ {w} : V[v] = W[v]
BY DEF Worker

LEMMA StateSet ==
  ASSUME NEW W \in [Workers -> Worker], NEW w \in Workers
  PROVE  LET V == [W EXCEPT ![w].ctx.state = "null"]
         IN  /\ V \in [Workers -> Worker]
             /\ V[w].pc = W[w].pc /\ V[w].task = W[w].task /\ V[w].ctx.tag = W[w].ctx.tag
             /\ \A v \in Workers \ {w} : V[v] = W[v]
<1> DEFINE c == [W[w].ctx EXCEPT !.state = "null"]
<1>1. c \in Contexts /\ c.tag = W[w].ctx.tag
  BY DEF Worker, Contexts
<1>2. [W EXCEPT ![w].ctx.state = "null"] = [W EXCEPT ![w].ctx = c]
  OBVIOUS
<1> HIDE DEF c
<1>3. LET V == [W EXCEPT ![w].ctx = c]
      IN  /\ V \in [Workers -> Worker]
          /\ V[w].pc = W[w].pc /\ V[w].task = W[w].task /\ V[w].ctx = c
          /\ \A v \in Workers \ {w} : V[v] = W[v]
  BY <1>1, ContextSet
<1> QED BY <1>1, <1>2, <1>3

LEMMA ChunkAdded ==
  ASSUME NEW W \in [Workers -> Worker], NEW w \in Workers, NEW x \in Cells
  PROVE  LET V == [W EXCEPT ![w].ctx.cts = Append(@, x)]
             c == V[w].ctx
             b == W[w].ctx
         IN  /\ V \in [Workers -> Worker]
             /\ V[w].pc = W[w].pc /\ V[w].task = W[w].task
             /\ c.state = b.state /\ c.key = b.key /\ c.iv = b.iv /\ c.tag = b.tag
             /\ c.cts = Append(b.cts, x)
             /\ \A v \in Workers \ {w} : V[v] = W[v]
<1> DEFINE c == [W[w].ctx EXCEPT !.cts = Append(@, x)]
<1>1. W[w].ctx \in Contexts /\ W[w].ctx.cts \in Seq(Cells)
  BY DEF Worker, Contexts
<1>2. Append(W[w].ctx.cts, x) \in Seq(Cells)
  BY <1>1
<1>3. c \in Contexts /\ c.state = W[w].ctx.state /\ c.key = W[w].ctx.key /\ c.iv = W[w].ctx.iv
      /\ c.tag = W[w].ctx.tag /\ c.cts = Append(W[w].ctx.cts, x)
  BY <1>1, <1>2 DEF Contexts
<1>4. [W EXCEPT ![w].ctx.cts = Append(@, x)] = [W EXCEPT ![w].ctx = c]
  OBVIOUS
<1> HIDE DEF c
<1>5. LET V == [W EXCEPT ![w].ctx = c]
      IN  /\ V \in [Workers -> Worker]
          /\ V[w].pc = W[w].pc /\ V[w].task = W[w].task /\ V[w].ctx = c
          /\ \A v \in Workers \ {w} : V[v] = W[v]
  BY <1>3, ContextSet
<1> QED BY <1>3, <1>4, <1>5

-----------------------------------------------------------------------------
(* A step of a worker, by what it changes.                                 *)

\* Worker w goes to p with task t and context c, and no other worker moves.
Moved(w, p, t, c) ==
  /\ worker' \in [Workers -> Worker']
  /\ worker'[w].pc = p /\ worker'[w].task = t /\ worker'[w].ctx = c
  /\ \A v \in Workers \ {w} : worker'[v] = worker[v]

\* Task t is in state r, and nothing else about the tasks is new.
Outcome(t, r) ==
  /\ tasks' \in Seq(Task) /\ Len(tasks') = Len(tasks)
  /\ \A u \in 1 .. Len(tasks) :
       /\ tasks'[u].op = tasks[u].op /\ tasks'[u].key = tasks[u].key
       /\ tasks'[u].n = tasks[u].n /\ tasks'[u].f = tasks[u].f
       /\ tasks'[u].o = tasks[u].o /\ tasks'[u].seen = tasks[u].seen
       /\ tasks'[u].state = IF u = t THEN r ELSE tasks[u].state

Finished == {"ok", "invalid_tag", "error"}

CorrectFrame(f) ==
  LET s == frame[f].by
  IN  s # 0 /\ tasks[s].state = "ok" =>
        /\ frame[f].ver = 1 /\ frame[f].iv = s /\ frame[f].used = tasks[s].n
        /\ \A i \in 1 .. tasks[s].n : frame[f].cell[i - 1] = CtOf(s)[i]
        /\ frame[f].cell[tasks[s].n] = TagOf(s)

\* A frame that a step leaves alone, and whose seal does not succeed in the
\* step, stays correct.
LEMMA SameFrame ==
  ASSUME NInv, NEW f \in Frames, frame'[f] = frame[f],
         frame[f].by # 0 =>
           /\ tasks'[frame[f].by].n = tasks[frame[f].by].n
           /\ tasks'[frame[f].by].key = tasks[frame[f].by].key
           /\ tasks'[frame[f].by].state = "ok" => tasks[frame[f].by].state = "ok"
  PROVE  CorrectFrame(f)'
<1> DEFINE s == frame[f].by
<1>1. CASE s # 0 /\ tasks'[s].state = "ok"
  <2>1. /\ frame[f].ver = 1 /\ frame[f].iv = s /\ frame[f].used = tasks[s].n
        /\ \A i \in 1 .. tasks[s].n : frame[f].cell[i - 1] = CtOf(s)[i]
        /\ frame[f].cell[tasks[s].n] = TagOf(s)
    BY <1>1 DEF NInv, SealedFramesCorrect
  <2>2. ASSUME NEW z, z = s PROVE CtOf(z)' = CtOf(z) /\ TagOf(z)' = TagOf(z)
    BY <1>1, <2>2 DEF CtOf, TagOf, Chunk, GcmTag
  <2>3. tasks'[s].n = tasks[s].n
    BY <1>1
  <2> HIDE DEF s
  <2>4. PICK z : z = s
    OBVIOUS
  <2>5. CtOf(z)' = CtOf(z) /\ TagOf(z)' = TagOf(z) /\ z = frame'[f].by
    BY <2>2, <2>4 DEF s
  <2> QED BY <2>1, <2>3, <2>4, <2>5 DEF CorrectFrame
<1>2. CASE ~ (s # 0 /\ tasks'[s].state = "ok")
  BY <1>2 DEF CorrectFrame
<1> QED BY <1>1, <1>2

LEMMA FrameKept ==
  ASSUME NInv, NEW t, NEW r, Outcome(t, r), NEW f \in Frames, frame'[f] = frame[f],
         r # "ok" \/ frame[f].by # t
  PROVE  CorrectFrame(f)'
<1>1. frame[f].by # 0 => frame[f].by \in 1 .. Len(tasks)
  BY DEF NInv, LastWriter, TypeOK
<1> QED BY <1>1, SameFrame DEF Outcome

\* A step of worker w that takes its task to state r: what the tasks of the
\* others and their frames need is that only the own frame is written.
LEMMA WorkerStep ==
  ASSUME NInv, TypeOK', NEW w \in Workers, Busy(w), taken' = taken,
         NEW p, NEW r \in {"running"} \cup Finished, NEW c,
         Moved(w, p, IF r = "running" THEN worker[w].task ELSE 0, c),
         Outcome(worker[w].task, r),
         p = "idle" <=> r # "running",
         r = "running" => p \in IF TaskOf(w).op = "seal" THEN SealSteps ELSE OpenSteps,
         r = "running" => ProgressAt(p, c, TaskOf(w)),
         r = "running" /\ TaskOf(w).op = "seal" =>
           SealingAt(p, worker[w].task, c, TaskOf(w), frame'[TaskOf(w).f]),
         TaskOf(w).op = "open" => frame' = frame,
         \A f \in Frames \ {TaskOf(w).f} : frame'[f] = frame[f],
         frame'[TaskOf(w).f].by \in {frame[TaskOf(w).f].by, worker[w].task},
         \A f \in Frames :
           TaskOf(w).op = "seal" /\ f = TaskOf(w).f => CorrectFrame(f)',
         OwnIvs'
  PROVE  NInv'
<1> DEFINE t == worker[w].task
           k == TaskOf(w)
<1>1. /\ t \in 1 .. taken /\ t \in 1 .. Len(tasks) /\ k = tasks[t]
      /\ k.state = "running" /\ k.n \in 1 .. Capacity
      /\ k.f \in Frames /\ k.op \in {"seal", "open"}
      /\ taken \in 0 .. Len(tasks)
      /\ tasks \in Seq(Task) /\ DOMAIN tasks = 1 .. Len(tasks)
      /\ DOMAIN tasks' = 1 .. Len(tasks)
  <2>1. t \in 1 .. Len(tasks) /\ k \in Task /\ k.n \in 1 .. Capacity /\ k.f \in Frames
    BY TaskTyped DEF NInv
  <2>2. tasks \in Seq(Task) /\ taken \in 0 .. Len(tasks)
    BY DEF NInv, TypeOK, Task
  <2>3. t \in 1 .. taken /\ k.state = "running"
    BY DEF NInv, Queueing
  <2> QED BY SMTT(40), <2>1, <2>2, <2>3 DEF Outcome, TaskOf, Task
<1>2. \A u \in 1 .. Len(tasks) :
        /\ tasks'[u].op = tasks[u].op /\ tasks'[u].key = tasks[u].key
        /\ tasks'[u].n = tasks[u].n /\ tasks'[u].f = tasks[u].f
        /\ tasks'[u].o = tasks[u].o
        /\ tasks'[u].state = IF u = t THEN r ELSE tasks[u].state
  BY DEF Outcome
<1>3. ASSUME NEW v \in Workers, v # w
      PROVE  /\ worker'[v] = worker[v]
             /\ Busy(v) => /\ worker[v].task \in 1 .. Len(tasks) /\ worker[v].task # t
                           /\ tasks[worker[v].task].state = "running"
  <2>1. Busy(v) => worker[v].task \in 1 .. Len(tasks) /\ worker[v].task # t
                   /\ tasks[worker[v].task].state = "running"
    BY <1>1, <1>3 DEF NInv, Queueing, TaskOf
  <2> QED BY <1>3, <2>1 DEF Moved
<1>4. worker'[w].pc = p /\ worker'[w].task = IF r = "running" THEN t ELSE 0
  BY DEF Moved
<1>5. Queueing'
  <2>1. ASSUME NEW u \in 1 .. Len(tasks)
        PROVE  /\ tasks'[u].state = "queued" <=> u > taken'
               /\ tasks'[u].op = "open" => tasks'[u].o \in Outs
    BY <1>1, <1>2, <2>1 DEF NInv, Queueing, Finished
  <2>2. ASSUME NEW v \in Workers, Busy(v)'
        PROVE  /\ worker'[v].task \in 1 .. taken'
               /\ TaskOf(v)'.state = "running"
               /\ TaskOf(v)'.n \in 1 .. Capacity
               /\ TaskOf(v)'.op = "seal" => worker'[v].pc \in SealSteps
               /\ TaskOf(v)'.op = "open" => worker'[v].pc \in OpenSteps
    <3>1. CASE v = w
      BY <1>1, <1>2, <1>4, <2>2, <3>1 DEF NInv, Queueing, Busy, TaskOf, Finished
    <3>2. CASE v # w
      <4>1. Busy(v) /\ worker'[v] = worker[v] /\ worker[v].task \in 1 .. Len(tasks)
            /\ worker[v].task # t
        BY <1>3, <2>2, <3>2 DEF Busy
      <4> QED BY <1>1, <1>2, <4>1 DEF NInv, Queueing, TaskOf
    <3> QED BY <3>1, <3>2
  <2>3. ASSUME NEW u \in Workers, NEW v \in Workers, Busy(u)', Busy(v)',
               worker'[u].task = worker'[v].task
        PROVE  u = v
    BY <1>1, <1>3, <1>4, <2>3 DEF NInv, Queueing, Busy, Finished
  <2> QED BY <1>1, <2>1, <2>2, <2>3 DEF Queueing
<1>6. OneWriter'
  <2>1. \A u \in 1 .. Len(tasks) : Pending(u)' => Pending(u)
    BY <1>1, <1>2 DEF Pending, Finished
  <2> QED BY <1>1, <1>2, <2>1 DEF NInv, OneWriter
<1>7. Progress'
  <2> SUFFICES ASSUME NEW v \in Workers, Busy(v)' PROVE ProgressOf(v)'
    BY DEF Progress
  <2>1. CASE v = w
    <3>1. r = "running" /\ worker'[w].pc = p /\ worker'[w].ctx = c /\ worker'[w].task = t
      BY <1>4, <2>1 DEF Busy, Finished, Moved
    <3> QED BY <1>1, <1>2, <2>1, <3>1 DEF ProgressOf, ProgressAt, TaskOf
  <2>2. CASE v # w
    <3>1. Busy(v) /\ worker'[v] = worker[v] /\ worker[v].task \in 1 .. Len(tasks)
      BY <1>3, <2>2 DEF Busy
    <3>2. ProgressOf(v)
      BY <3>1 DEF NInv, Progress
    <3> QED BY <1>2, <3>1, <3>2 DEF ProgressOf, ProgressAt, TaskOf
  <2> QED BY <2>1, <2>2
<1>8. Sealing'
  <2> SUFFICES ASSUME NEW v \in Workers, Busy(v)', TaskOf(v)'.op = "seal" PROVE SealingOf(v)'
    BY DEF Sealing
  <2>1. CASE v = w
    <3>1. r = "running" /\ worker'[w].pc = p /\ worker'[w].ctx = c /\ worker'[w].task = t
      BY <1>4, <2>1 DEF Busy, Finished, Moved
    <3>2. TaskOf(w)'.key = k.key /\ FrameOf(w)' = frame'[k.f] /\ k.op = "seal"
      BY <1>1, <1>2, <2>1, <3>1 DEF TaskOf, FrameOf
    <3> QED BY <2>1, <3>1, <3>2 DEF SealingOf, SealingAt
  <2>2. CASE v # w
    <3>1. /\ Busy(v) /\ worker'[v] = worker[v] /\ worker[v].task \in 1 .. Len(tasks)
          /\ worker[v].task # t /\ tasks[worker[v].task].state = "running"
      BY <1>3, <2>2 DEF Busy
    <3>2. tasks[worker[v].task].op = "seal" /\ TaskOf(v).f \in Frames
      BY <1>2, <3>1, TaskTyped DEF TaskOf, NInv
    <3>3. SealingOf(v)
      BY <3>1, <3>2 DEF NInv, Sealing, TaskOf
    <3>4. frame'[TaskOf(v).f] = frame[TaskOf(v).f]
      <4>1. CASE TaskOf(w).op = "open"
        BY <4>1
      <4>2. CASE TaskOf(w).op = "seal"
        <5>1. TaskOf(v).f # TaskOf(w).f
          BY <1>1, <3>1, <3>2, <4>2 DEF NInv, OneWriter, Pending, TaskOf
        <5> QED BY <3>2, <5>1
      <4> QED BY <1>1, <4>1, <4>2
    <3>5. worker'[v] = worker[v]
      BY <3>1
    <3>6. TaskOf(v)'.key = TaskOf(v).key /\ FrameOf(v)' = FrameOf(v)
      BY <1>2, <3>1, <3>4 DEF TaskOf, FrameOf
    <3>7. ASSUME NEW k1, NEW k2, k1.key = k2.key, NEW q, NEW u, NEW d, NEW b,
                 SealingAt(q, u, d, k1, b)
          PROVE  SealingAt(q, u, d, k2, b)
      BY <3>7 DEF SealingAt
    <3> QED BY <3>3, <3>5, <3>6, <3>7 DEF SealingOf
  <2> QED BY <2>1, <2>2
<1>9. LastWriter'
  <2> SUFFICES ASSUME NEW f \in Frames, frame'[f].by # 0
               PROVE  /\ frame'[f].by \in 1 .. taken'
                      /\ tasks'[frame'[f].by].op = "seal" /\ tasks'[frame'[f].by].f = f
    BY DEF LastWriter
  <2>1. CASE frame'[f].by = frame[f].by
    BY <1>1, <1>2, <2>1 DEF NInv, LastWriter
  <2>2. CASE frame'[f].by # frame[f].by
    <3>1. f = k.f /\ frame'[f].by = t
      BY <2>2
    <3>2. k.op = "seal"
      BY <1>1, <2>2
    <3> QED BY <1>1, <1>2, <3>1, <3>2
  <2> QED BY <2>1, <2>2
<1>10. SealsAnswered'
  BY <1>1, <1>2 DEF NInv, SealsAnswered
<1>11. SealedFramesCorrect'
  <2>1. ASSUME NEW f \in Frames PROVE CorrectFrame(f)'
    <3>1. CASE f = k.f /\ k.op = "seal"
      BY <3>1
    <3>2. CASE ~ (f = k.f /\ k.op = "seal")
      <4>1. frame'[f] = frame[f]
        BY <1>1, <3>2
      <4>2. r # "ok" \/ frame[f].by # t
        BY <1>1, <3>2 DEF NInv, LastWriter
      <4> QED BY <4>1, <4>2, FrameKept
    <3> QED BY <3>1, <3>2
  <2> QED BY <2>1 DEF SealedFramesCorrect, CorrectFrame
<1> QED BY <1>5, <1>6, <1>7, <1>8, <1>9, <1>10, <1>11 DEF NInv

-----------------------------------------------------------------------------
(* The calls of a worker.                                                  *)

Plain == {Stale, Zero} \cup [kind : {"decrypted"}, key : NullKeys, iv : Nat,
                             c : Cells, i : Nat]

Rest == <<taken, master, processors, tampers>>

LEMMA StepTypes ==
  ASSUME TypeOK, UNCHANGED Rest,
         tasks' \in Seq(Task), Len(tasks') = Len(tasks),
         worker' \in [Workers -> Worker],
         frame' \in [Frames -> Buffer],
         DOMAIN out' = Outs, \A o \in Outs : out'[o] \in [DOMAIN out'[o] -> Plain],
         sealed' \subseteq Chunks, faults' \in Nat
  PROVE  TypeOK'
BY DEF TypeOK, Rest, Task, Worker, Buffer, Plain

LEMMA TypesNow ==
  ASSUME TypeOK
  PROVE  /\ tasks \in Seq(Task) /\ worker \in [Workers -> Worker]
         /\ frame \in [Frames -> Buffer]
         /\ DOMAIN out = Outs /\ \A o \in Outs : out[o] \in [DOMAIN out[o] -> Plain]
         /\ sealed \subseteq Chunks /\ faults \in Nat /\ taken \in 0 .. Len(tasks)
BY DEF TypeOK, Task, Worker, Buffer, Plain

LEMMA Kept ==
  ASSUME TypeOK, tasks' = tasks, NEW t \in 1 .. Len(tasks), tasks[t].state = "running"
  PROVE  Outcome(t, "running")
BY TypesNow DEF Outcome

LEMMA Recorded ==
  ASSUME TypeOK, NEW t \in 1 .. Len(tasks), NEW r \in States,
         tasks' = [tasks EXCEPT ![t].state = r]
  PROVE  Outcome(t, r)
<1>1. tasks \in Seq(Task) /\ tasks[t] \in Task
  BY TypesNow
<1>2. PICK e : e = [tasks[t] EXCEPT !.state = r]
  OBVIOUS
<1>3. /\ e \in Task /\ e.state = r
      /\ e.op = tasks[t].op /\ e.key = tasks[t].key /\ e.n = tasks[t].n
      /\ e.f = tasks[t].f /\ e.o = tasks[t].o /\ e.seen = tasks[t].seen
  BY <1>1, <1>2 DEF Task
<1>4. tasks' = [tasks EXCEPT ![t] = e]
  BY <1>2
<1>5. /\ tasks' \in Seq(Task) /\ Len(tasks') = Len(tasks)
      /\ \A j \in 1 .. Len(tasks) : tasks'[j] = IF j = t THEN e ELSE tasks[j]
  BY <1>1, <1>3, <1>4
<1> QED BY <1>3, <1>5 DEF Outcome

LEMMA Freed ==
  ASSUME TypeOK, UNCHANGED Rest, NEW w \in Workers,
         worker' = [worker EXCEPT ![w].pc = "idle", ![w].task = 0]
  PROVE  Moved(w, "idle", 0, worker[w].ctx)
<1>1. worker \in [Workers -> Worker] /\ "idle" \in Steps /\ 0 \in 0 .. taken
  BY TypesNow DEF Steps
<1> DEFINE V == [worker EXCEPT ![w].pc = "idle"]
<1>2. /\ V \in [Workers -> Worker] /\ V[w].pc = "idle" /\ V[w].ctx = worker[w].ctx
      /\ \A v \in Workers \ {w} : V[v] = worker[v]
  BY <1>1, PcSet
<1>3. worker' = [V EXCEPT ![w].task = 0]
  OBVIOUS
<1> HIDE DEF V
<1>4. LET U == [V EXCEPT ![w].task = 0]
      IN  /\ U \in [Workers -> Worker]
          /\ U[w].pc = V[w].pc /\ U[w].task = 0 /\ U[w].ctx = V[w].ctx
          /\ \A v \in Workers \ {w} : U[v] = V[v]
  BY <1>1, <1>2, TaskSet
<1> QED BY <1>2, <1>3, <1>4 DEF Moved, Worker, Rest

LEMMA Buried ==
  ASSUME TypeOK, UNCHANGED Rest, NEW w \in Workers,
         worker' = [worker EXCEPT ![w].pc = "idle", ![w].task = 0, ![w].ctx.state = "null"]
  PROVE  \E c : Moved(w, "idle", 0, c) /\ c.tag = worker[w].ctx.tag
<1>1. worker \in [Workers -> Worker] /\ "idle" \in Steps /\ 0 \in 0 .. taken
  BY TypesNow DEF Steps, TypeOK
<1> DEFINE V == [worker EXCEPT ![w].pc = "idle"]
           U == [V EXCEPT ![w].task = 0]
           X == [U EXCEPT ![w].ctx.state = "null"]
<1>2. /\ V \in [Workers -> Worker] /\ V[w].pc = "idle" /\ V[w].ctx = worker[w].ctx
      /\ \A v \in Workers \ {w} : V[v] = worker[v]
  BY <1>1, PcSet
<1>3. worker' = X
  OBVIOUS
<1> HIDE DEF V
<1>4. /\ U \in [Workers -> Worker] /\ U[w].pc = V[w].pc /\ U[w].task = 0
      /\ U[w].ctx = V[w].ctx
      /\ \A v \in Workers \ {w} : U[v] = V[v]
  BY <1>1, <1>2, TaskSet
<1> HIDE DEF U
<1>5. /\ X \in [Workers -> Worker] /\ X[w].pc = U[w].pc /\ X[w].task = U[w].task
      /\ X[w].ctx.tag = U[w].ctx.tag
      /\ \A v \in Workers \ {w} : X[v] = U[v]
  BY <1>4, StateSet
<1>6. Moved(w, "idle", 0, X[w].ctx)
  BY <1>2, <1>3, <1>4, <1>5 DEF Moved, Worker, Rest
<1> HIDE DEF X
<1> QED BY <1>2, <1>4, <1>5, <1>6

LEMMA Went ==
  ASSUME TypeOK, UNCHANGED Rest, NEW w \in Workers, NEW p \in Steps,
         worker' = [worker EXCEPT ![w].pc = p]
  PROVE  Moved(w, p, worker[w].task, worker[w].ctx)
<1>1. worker \in [Workers -> Worker]
  BY TypesNow
<1>2. /\ worker' \in [Workers -> Worker]
      /\ worker'[w].pc = p /\ worker'[w].task = worker[w].task
      /\ worker'[w].ctx = worker[w].ctx
      /\ \A v \in Workers \ {w} : worker'[v] = worker[v]
  BY <1>1, PcSet
<1> QED BY <1>2 DEF Moved, Worker, Rest

LEMMA WentWith ==
  ASSUME TypeOK, UNCHANGED Rest, NEW w \in Workers, NEW p \in Steps, NEW c \in Contexts,
         worker' = [worker EXCEPT ![w].ctx = c, ![w].pc = p]
  PROVE  Moved(w, p, worker[w].task, c)
<1>1. worker \in [Workers -> Worker]
  BY TypesNow
<1> DEFINE V == [worker EXCEPT ![w].ctx = c]
<1>2. /\ V \in [Workers -> Worker] /\ V[w].task = worker[w].task /\ V[w].ctx = c
      /\ \A v \in Workers \ {w} : V[v] = worker[v]
  BY <1>1, ContextSet
<1>3. worker' = [V EXCEPT ![w].pc = p]
  OBVIOUS
<1> HIDE DEF V
<1>4. LET U == [V EXCEPT ![w].pc = p]
      IN  /\ U \in [Workers -> Worker]
          /\ U[w].pc = p /\ U[w].task = V[w].task /\ U[w].ctx = V[w].ctx
          /\ \A v \in Workers \ {w} : U[v] = V[v]
  BY <1>2, PcSet
<1> QED BY <1>2, <1>3, <1>4 DEF Moved, Worker, Rest

PlainTyped == DOMAIN out = Outs /\ \A o \in Outs : out[o] \in [DOMAIN out[o] -> Plain]

\* A worker answers its task and leaves the frames alone.
LEMMA Answered ==
  ASSUME NInv, NEW w \in Workers, Busy(w), NEW r \in Finished, NEW c,
         Moved(w, "idle", 0, c), tasks' = [tasks EXCEPT ![worker[w].task].state = r],
         r = "ok" => TaskOf(w).op = "open",
         UNCHANGED Rest, frame' = frame, sealed' = sealed, PlainTyped', faults' \in Nat
  PROVE  NInv'
<1> DEFINE t == worker[w].task
<1>1. t \in 1 .. Len(tasks) /\ TaskOf(w) \in Task /\ TypeOK
  BY TaskTyped DEF NInv
<1>3. Outcome(t, r)
  <2>1. tasks' = [tasks EXCEPT ![t].state = r] /\ r \in States
    BY DEF Finished, States
  <2> QED BY <1>1, <2>1, Recorded
<1>4. TypeOK'
  <2>1. worker' \in [Workers -> Worker]
    BY DEF Moved, Worker, Rest
  <2>2. tasks' \in Seq(Task) /\ Len(tasks') = Len(tasks)
    BY <1>3 DEF Outcome
  <2> QED BY <1>1, <2>1, <2>2, TypesNow, StepTypes DEF PlainTyped
<1>5. OwnIvs'
  BY DEF NInv, OwnIvs
<1>6. \A f \in Frames : TaskOf(w).op = "seal" => CorrectFrame(f)'
  BY <1>3, FrameKept
<1>7. r # "running" /\ taken' = taken /\ r \in {"running"} \cup Finished
  BY DEF Finished, Rest
<1>8. /\ Moved(w, "idle", IF r = "running" THEN t ELSE 0, c)
      /\ frame'[TaskOf(w).f].by \in {frame[TaskOf(w).f].by, worker[w].task}
      /\ \A f \in Frames \ {TaskOf(w).f} : frame'[f] = frame[f]
  BY <1>7
<1> QED BY <1>3, <1>4, <1>5, <1>6, <1>7, <1>8, WorkerStep

LEMMA Returned ==
  ASSUME NInv, NEW w \in Workers, Busy(w), NEW r \in Finished, Return(w, r),
         r = "ok" => TaskOf(w).op = "open",
         UNCHANGED Rest, frame' = frame, sealed' = sealed, PlainTyped', faults' \in Nat
  PROVE  NInv'
<1>1. Moved(w, "idle", 0, worker[w].ctx)
  BY Freed DEF Return, NInv
<1>2. tasks' = [tasks EXCEPT ![worker[w].task].state = r]
  BY DEF Return
<1> QED BY <1>1, <1>2, Answered

\* A worker takes a step of its task, and leaves the frames alone.
LEMMA Advanced ==
  ASSUME NInv, NEW w \in Workers, Busy(w), NEW p \in Steps, NEW c \in Contexts,
         Moved(w, p, worker[w].task, c),
         tasks' = tasks, UNCHANGED Rest, frame' = frame, sealed' = sealed, PlainTyped',
         faults' \in Nat,
         p \in IF TaskOf(w).op = "seal" THEN SealSteps ELSE OpenSteps,
         ProgressAt(p, c, TaskOf(w)),
         TaskOf(w).op = "seal" => SealingAt(p, worker[w].task, c, TaskOf(w), FrameOf(w))
  PROVE  NInv'
<1> DEFINE t == worker[w].task
<1>1. t \in 1 .. Len(tasks) /\ TaskOf(w) \in Task /\ TypeOK /\ TaskOf(w).state = "running"
  BY TaskTyped DEF NInv, Queueing
<1>2. Outcome(t, "running")
  BY <1>1, Kept DEF TaskOf
<1>3. TypeOK'
  <2>1. worker' \in [Workers -> Worker]
    BY DEF Moved, Worker, Rest
  <2> QED BY <1>1, <2>1, TypesNow, StepTypes DEF PlainTyped
<1>4. OwnIvs'
  BY DEF NInv, OwnIvs
<1>5. \A f \in Frames : TaskOf(w).op = "seal" => CorrectFrame(f)'
  BY <1>2, FrameKept
<1>6. p # "idle" /\ taken' = taken
  BY DEF SealSteps, OpenSteps, Rest
<1>7. TaskOf(w).op = "seal" => SealingAt(p, t, c, TaskOf(w), frame'[TaskOf(w).f])
  BY DEF FrameOf
<1> QED BY <1>2, <1>3, <1>4, <1>5, <1>6, <1>7, WorkerStep

\* An EVP call that fails, or goes on with context c.
LEMMA EvpCalled ==
  ASSUME NInv, NEW w \in Workers, Busy(w), NEW op, NEW pc, NEW c, NEW p \in Steps,
         EvpCall(w, op, pc, c, p), UNCHANGED <<master, processors>>,
         c \in Contexts,
         p \in IF TaskOf(w).op = "seal" THEN SealSteps ELSE OpenSteps,
         ProgressAt(p, c, TaskOf(w)),
         TaskOf(w).op = "seal" => SealingAt(p, worker[w].task, c, TaskOf(w), FrameOf(w))
  PROVE  NInv'
<1>1. TypeOK /\ PlainTyped /\ faults \in Nat
  BY TypesNow DEF NInv, PlainTyped
<1>2. UNCHANGED Rest /\ frame' = frame /\ sealed' = sealed /\ PlainTyped'
  BY <1>1 DEF EvpCall, Rest, PlainTyped
<1>3. CASE Fault(pc) /\ Return(w, "error")
  BY <1>1, <1>2, <1>3, Returned DEF Fault, Finished
<1>4. CASE /\ worker' = [worker EXCEPT ![w].ctx = c, ![w].pc = p]
           /\ UNCHANGED <<tasks, faults>>
  <2>1. Moved(w, p, worker[w].task, c)
    BY <1>1, <1>2, <1>4, WentWith
  <2> QED BY <1>1, <1>2, <1>4, <2>1, Advanced
<1> QED BY <1>3, <1>4 DEF EvpCall

LEMMA Working ==
  ASSUME NInv, NEW w \in Workers, Busy(w)
  PROVE  LET t == worker[w].task
             k == TaskOf(w)
             b == FrameOf(w)
             c == worker[w].ctx
         IN  /\ t \in 1 .. taken /\ t \in 1 .. Len(tasks)
             /\ k = tasks[t] /\ k \in Task /\ k.state = "running"
             /\ k.n \in 1 .. Capacity /\ k.f \in Frames /\ k.key \in NullKeys
             /\ b = frame[k.f] /\ b \in Buffer
             /\ c \in Contexts /\ c.cts \in Seq(Cells) /\ c.key \in NullKeys /\ c.iv \in Nat
             /\ ProgressAt(worker[w].pc, c, k)
             /\ k.op = "open" => k.o \in Outs
             /\ k.op = "seal" => SealingAt(worker[w].pc, t, c, k, b)
             /\ TypeOK /\ PlainTyped /\ faults \in Nat /\ PlainTyped
<1>1. /\ worker[w].task \in 1 .. Len(tasks) /\ TaskOf(w) \in Task
      /\ TaskOf(w).n \in 1 .. Capacity /\ TaskOf(w).f \in Frames
      /\ FrameOf(w) \in Buffer /\ worker[w] \in Worker /\ TypeOK
  BY TaskTyped DEF NInv
<1>2. /\ worker[w].task \in 1 .. taken /\ TaskOf(w).state = "running"
      /\ TaskOf(w).op = "open" => TaskOf(w).o \in Outs
  BY <1>1 DEF NInv, Queueing, TaskOf
<1>3. ProgressOf(w) /\ (TaskOf(w).op = "seal" => SealingOf(w))
  BY DEF NInv, Progress, Sealing
<1>4. PlainTyped /\ faults \in Nat
  BY <1>1, TypesNow DEF PlainTyped
<1>5. worker[w].ctx \in Contexts /\ TaskOf(w).key \in NullKeys
  BY <1>1 DEF Worker, Task, NullKeys
<1>6. /\ worker[w].ctx.cts \in Seq(Cells) /\ worker[w].ctx.key \in NullKeys
      /\ worker[w].ctx.iv \in Nat
  BY <1>5 DEF Contexts
<1> QED BY <1>1, <1>2, <1>3, <1>4, <1>5, <1>6 DEF ProgressOf, SealingOf, TaskOf, FrameOf

LEMMA AtCall ==
  ASSUME NEW w, NEW op, NEW pc, At(w, op, pc), pc # "idle"
  PROVE  Busy(w) /\ worker[w].pc = pc /\ TaskOf(w).op \in op
BY DEF At, Busy, TaskOf

LEMMA VersionStep ==
  ASSUME NInv, NEW w \in Workers, Version(w), UNCHANGED <<master, processors>>
  PROVE  NInv'
<1>1. Busy(w) /\ worker[w].pc = "version" /\ TaskOf(w).op = "open"
  BY AtCall DEF Version
<1>2. UNCHANGED Rest /\ frame' = frame /\ sealed' = sealed /\ faults' \in Nat /\ PlainTyped'
  BY <1>1, Working DEF Version, Rest, PlainTyped
<1>3. CASE Goto(w, "context")
  <2>1. Moved(w, "context", worker[w].task, worker[w].ctx)
    BY <1>2, <1>3, Went DEF Goto, NInv, Steps
  <2>2. "context" \in Steps /\ ProgressAt("context", worker[w].ctx, TaskOf(w))
        /\ worker[w].ctx \in Contexts
    BY <1>1, Working DEF Steps, ProgressAt
  <2> QED BY <1>1, <1>2, <1>3, <2>1, <2>2, Advanced DEF Goto, OpenSteps
<1>4. CASE Return(w, "error")
  BY <1>1, <1>2, <1>4, Returned DEF Finished
<1> QED BY <1>3, <1>4 DEF Version

LEMMA ContextStep ==
  ASSUME NInv, NEW w \in Workers, Context(w), UNCHANGED <<master, processors>>
  PROVE  NInv'
<1> DEFINE p == IF At(w, {"seal"}, "context") THEN "rand" ELSE "init"
<1>1. Busy(w) /\ worker[w].pc = "context" /\ TaskOf(w).op \in {"seal", "open"}
  BY AtCall DEF Context
<1>2. UNCHANGED Rest /\ frame' = frame /\ sealed' = sealed /\ PlainTyped' /\ TypeOK
      /\ faults \in Nat
  BY <1>1, Working DEF Context, Rest, PlainTyped
<1>3. CASE /\ worker' = [worker EXCEPT ![w].ctx = Reset, ![w].pc = p]
           /\ UNCHANGED <<tasks, faults>>
  <2>1. /\ p \in {"rand", "init"} /\ p \in Steps
        /\ p \in IF TaskOf(w).op = "seal" THEN SealSteps ELSE OpenSteps
        /\ TaskOf(w).op = "seal" => p = "rand"
    BY <1>1 DEF At, TaskOf, Steps, SealSteps, OpenSteps
  <2> HIDE DEF p
  <2>2. Moved(w, p, worker[w].task, Reset)
    BY <1>2, <1>3, <2>1, FreshContexts, WentWith
  <2>3. ProgressAt(p, Reset, TaskOf(w))
    BY <2>1 DEF ProgressAt
  <2>4. TaskOf(w).op = "seal" => SealingAt(p, worker[w].task, Reset, TaskOf(w), FrameOf(w))
    BY <2>1 DEF SealingAt
  <2> QED BY <1>1, <1>2, <1>3, <2>1, <2>2, <2>3, <2>4, FreshContexts, Advanced
<1>4. CASE Return(w, "error") /\ faults' \in Nat
  BY <1>1, <1>2, <1>4, Returned DEF Finished
<1>5. CASE /\ Fault("new")
           /\ worker' = [worker EXCEPT ![w].pc = "idle", ![w].task = 0,
                                      ![w].ctx.state = "null"]
           /\ tasks' = [tasks EXCEPT ![worker[w].task].state = "error"]
  <2>1. PICK c : Moved(w, "idle", 0, c)
    BY <1>2, <1>5, Buried
  <2>2. faults' \in Nat
    BY <1>2, <1>5 DEF Fault
  <2> QED BY <1>1, <1>2, <1>5, <2>1, <2>2, Answered DEF Finished
<1>6. Fault("reset") => faults' \in Nat
  BY <1>2 DEF Fault
<1> QED BY <1>2, <1>3, <1>4, <1>5, <1>6 DEF Context

LEMMA Keyed ==
  ASSUME NInv, NEW w \in Workers, Busy(w)
  PROVE  /\ keyed(w) \in Contexts /\ keyed(w).key = TaskOf(w).key
         /\ keyed(w).iv = FrameOf(w).iv /\ keyed(w).cts = <<>>
         /\ keyed(w).tag = worker[w].ctx.tag /\ keyed(w).state = worker[w].ctx.state
<1>1. /\ worker[w].ctx \in Contexts /\ TaskOf(w).key \in NullKeys
      /\ FrameOf(w) \in Buffer /\ <<>> \in Seq(Cells)
  BY Working
<1>2. FrameOf(w).iv \in Nat
  BY <1>1 DEF Buffer
<1>3. keyed(w) = [worker[w].ctx EXCEPT !.key = TaskOf(w).key, !.iv = FrameOf(w).iv, !.cts = <<>>]
  BY DEF keyed, TaskOf, FrameOf
<1> QED BY <1>1, <1>2, <1>3 DEF Contexts

LEMMA InitStep ==
  ASSUME NInv, NEW w \in Workers, InitSeal(w) \/ InitOpen(w), UNCHANGED <<master, processors>>
  PROVE  NInv'
<1>1. Busy(w) /\ worker[w].pc = "init"
  BY AtCall DEF InitSeal, InitOpen, EvpCall
<1>2. /\ keyed(w) \in Contexts /\ keyed(w).key = TaskOf(w).key
      /\ keyed(w).iv = FrameOf(w).iv /\ Len(keyed(w).cts) = 0 /\ keyed(w).cts = <<>>
      /\ TaskOf(w).n \in 1 .. Capacity
  BY <1>1, Keyed, Working
<1>3. CASE InitSeal(w)
  <2>1. TaskOf(w).op = "seal"
    BY <1>3, AtCall DEF InitSeal, EvpCall
  <2>2. SealingAt("init", worker[w].task, worker[w].ctx, TaskOf(w), FrameOf(w))
    BY <1>1, <2>1, Working
  <2>3. SealingAt("update", worker[w].task, keyed(w), TaskOf(w), FrameOf(w))
    BY <1>2, <2>2 DEF SealingAt
  <2>4. ProgressAt("update", keyed(w), TaskOf(w))
    BY <1>2 DEF ProgressAt
  <2>5. "update" \in Steps /\ "update" \in SealSteps
    BY DEF Steps, SealSteps
  <2> QED BY <1>1, <1>2, <1>3, <2>1, <2>3, <2>4, <2>5, EvpCalled DEF InitSeal
<1>4. CASE InitOpen(w)
  <2>1. TaskOf(w).op = "open"
    BY <1>4, AtCall DEF InitOpen, EvpCall
  <2>2. ProgressAt("settag", keyed(w), TaskOf(w))
    BY <1>2 DEF ProgressAt
  <2>3. "settag" \in Steps /\ "settag" \in OpenSteps
    BY DEF Steps, OpenSteps
  <2> QED BY <1>1, <1>2, <1>4, <2>1, <2>2, <2>3, EvpCalled DEF InitOpen
<1> QED BY <1>3, <1>4

LEMMA Tagged ==
  ASSUME NInv, NEW w \in Workers, Busy(w), NEW c,
         c = [worker[w].ctx EXCEPT !.tag = FrameOf(w).cell[TaskOf(w).n]]
  PROVE  /\ c \in Contexts /\ c.tag = FrameOf(w).cell[TaskOf(w).n]
         /\ c.key = worker[w].ctx.key /\ c.iv = worker[w].ctx.iv /\ c.cts = worker[w].ctx.cts
         /\ c.state = worker[w].ctx.state
<1>1. worker[w].ctx \in Contexts /\ TaskOf(w).n \in 1 .. Capacity /\ FrameOf(w) \in Buffer
  BY Working
<1>2. FrameOf(w).cell[TaskOf(w).n] \in Cells
  BY <1>1, Constants DEF Buffer
<1> QED BY <1>1, <1>2 DEF Contexts

LEMMA SetTagStep ==
  ASSUME NInv, NEW w \in Workers, SetTag(w), UNCHANGED <<master, processors>>
  PROVE  NInv'
<1> DEFINE x == [worker[w].ctx EXCEPT !.tag = FrameOf(w).cell[TaskOf(w).n]]
<1>1. EvpCall(w, {"open"}, "settag", x, "update")
  BY DEF SetTag, TaskOf, FrameOf
<1> HIDE DEF x
<1>2. Busy(w) /\ worker[w].pc = "settag" /\ TaskOf(w).op = "open"
  BY <1>1, AtCall DEF EvpCall
<1>3. x \in Contexts /\ x.key = worker[w].ctx.key /\ x.cts = worker[w].ctx.cts
  BY <1>2, Tagged DEF x
<1>4. ProgressAt("settag", worker[w].ctx, TaskOf(w)) /\ TaskOf(w).n \in 1 .. Capacity
  BY <1>2, Working
<1>5. ProgressAt("update", x, TaskOf(w))
  BY <1>3, <1>4 DEF ProgressAt
<1>6. "update" \in Steps /\ "update" \in OpenSteps
  BY DEF Steps, OpenSteps
<1> QED BY <1>1, <1>2, <1>3, <1>5, <1>6, EvpCalled

LEMMA EncryptFinalStep ==
  ASSUME NInv, NEW w \in Workers, EncryptFinal(w), UNCHANGED <<master, processors>>
  PROVE  NInv'
<1>1. Busy(w) /\ worker[w].pc = "final" /\ TaskOf(w).op = "seal"
  BY AtCall DEF EncryptFinal, EvpCall
<1>2. /\ ProgressAt("final", worker[w].ctx, TaskOf(w)) /\ worker[w].ctx \in Contexts
      /\ SealingAt("final", worker[w].task, worker[w].ctx, TaskOf(w), FrameOf(w))
  BY <1>1, Working
<1>3. /\ ProgressAt("gettag", worker[w].ctx, TaskOf(w))
      /\ SealingAt("gettag", worker[w].task, worker[w].ctx, TaskOf(w), FrameOf(w))
  BY <1>2 DEF ProgressAt, SealingAt
<1>4. "gettag" \in Steps /\ "gettag" \in SealSteps
  BY DEF Steps, SealSteps
<1> QED BY <1>1, <1>2, <1>3, <1>4, EvpCalled DEF EncryptFinal

LEMMA FrameSet ==
  ASSUME TypeOK, NEW f \in Frames, NEW e \in Buffer, frame' = [frame EXCEPT ![f] = e]
  PROVE  /\ frame' \in [Frames -> Buffer] /\ frame'[f] = e
         /\ \A g \in Frames \ {f} : frame'[g] = frame[g]
BY TypesNow

\* A seal writes its frame, and is not done.
LEMMA SealWrites ==
  ASSUME NInv, NEW w \in Workers, Busy(w), TaskOf(w).op = "seal", UNCHANGED Rest,
         frame' \in [Frames -> Buffer], frame'[TaskOf(w).f].by = worker[w].task,
         \A g \in Frames \ {TaskOf(w).f} : frame'[g] = frame[g],
         out' = out, sealed' \subseteq Chunks, OwnIvs', faults' \in Nat,
         NEW p, NEW c, NEW r \in {"running", "error"},
         Moved(w, p, IF r = "running" THEN worker[w].task ELSE 0, c),
         r = "error" => p = "idle" /\ tasks' = [tasks EXCEPT ![worker[w].task].state = r],
         r = "running" =>
           /\ p \in SealSteps /\ tasks' = tasks /\ ProgressAt(p, c, TaskOf(w))
           /\ SealingAt(p, worker[w].task, c, TaskOf(w), frame'[TaskOf(w).f])
  PROVE  NInv'
<1> DEFINE t == worker[w].task
           k == TaskOf(w)
<1>1. /\ t \in 1 .. taken /\ t \in 1 .. Len(tasks) /\ k = tasks[t] /\ k.state = "running"
      /\ k.f \in Frames /\ TypeOK /\ PlainTyped
  BY Working
<1>2. Outcome(t, r)
  <2>1. CASE r = "running"
    BY <1>1, <2>1, Kept
  <2>2. CASE r = "error"
    <3>1. r \in States
      BY <2>2 DEF States
    <3> QED BY <1>1, <2>2, <3>1, Recorded
  <2> QED BY <2>1, <2>2
<1>4. TypeOK'
  <2>1. worker' \in [Workers -> Worker] /\ tasks' \in Seq(Task) /\ Len(tasks') = Len(tasks)
    BY <1>2 DEF Moved, Outcome, Worker, Rest
  <2> QED BY <1>1, <2>1, StepTypes DEF PlainTyped
<1>5. p = "idle" <=> r # "running"
  BY DEF SealSteps
<1>6. taken' = taken /\ r \in {"running"} \cup Finished
  BY DEF Rest, Finished
<1>7. /\ r = "running" => p \in IF k.op = "seal" THEN SealSteps ELSE OpenSteps
      /\ r = "running" => ProgressAt(p, c, k)
      /\ r = "running" /\ k.op = "seal" => SealingAt(p, t, c, k, frame'[k.f])
      /\ frame'[k.f].by \in {frame[k.f].by, t}
      /\ k.op = "open" => frame' = frame
  OBVIOUS
<1>8. \A f \in Frames : k.op = "seal" /\ f = k.f => CorrectFrame(f)'
  <2> SUFFICES ASSUME NEW f \in Frames, f = k.f PROVE CorrectFrame(f)'
    OBVIOUS
  <2>1. tasks'[t].state # "ok" /\ frame'[f].by = t
    BY <1>1, <1>2 DEF Outcome
  <2> QED BY <2>1 DEF CorrectFrame
<1> QED BY <1>2, <1>4, <1>5, <1>6, <1>7, <1>8, WorkerStep

LEMMA Stamped ==
  ASSUME TypeOK, NEW b \in Buffer, NEW t \in 1 .. taken
  PROVE  /\ [b EXCEPT !.ver = 1, !.iv = t, !.by = t] \in Buffer
         /\ [b EXCEPT !.ver = 1, !.by = t] \in Buffer
<1>1. taken \in Nat /\ t \in Nat /\ t \in 0 .. taken
  BY DEF TypeOK
<1>2. [b EXCEPT !.ver = 1, !.by = t] \in Buffer
  BY <1>1 DEF Buffer
<1>3. [[b EXCEPT !.ver = 1, !.by = t] EXCEPT !.iv = t] \in Buffer
  BY <1>1, <1>2 DEF Buffer
<1>4. [b EXCEPT !.ver = 1, !.iv = t, !.by = t] = [[b EXCEPT !.ver = 1, !.by = t] EXCEPT !.iv = t]
  BY DEF Buffer
<1> QED BY <1>2, <1>3, <1>4

LEMMA RandStep ==
  ASSUME NInv, NEW w \in Workers, Rand(w), UNCHANGED <<master, processors>>
  PROVE  NInv'
<1> DEFINE t == worker[w].task
           k == TaskOf(w)
           b == FrameOf(w)
<1>1. Busy(w) /\ worker[w].pc = "rand" /\ k.op = "seal"
  <2>1. At(w, {"seal"}, "rand")
    BY DEF Rand
  <2> QED BY <2>1, AtCall
<1>2. /\ t \in 1 .. taken /\ k = tasks[t] /\ k.f \in Frames /\ b = frame[k.f] /\ b \in Buffer
      /\ TypeOK /\ faults \in Nat /\ taken \in Nat
  BY <1>1, Working, TypesNow
<1>3. /\ UNCHANGED Rest /\ out' = out /\ sealed' \subseteq Chunks /\ OwnIvs'
  BY <1>2, TypesNow DEF Rand, Rest, OwnIvs, NInv
<1>4. CASE /\ frame' = [frame EXCEPT ![k.f].ver = 1, ![k.f].iv = t, ![k.f].by = t]
           /\ Goto(w, "init")
           /\ UNCHANGED faults
  <2> DEFINE e == [b EXCEPT !.ver = 1, !.iv = t, !.by = t]
  <2>1. e \in Buffer /\ e.by = t /\ e.ver = 1 /\ e.iv = t
    <3>1. e \in Buffer
      BY <1>2, Stamped
    <3>2. e.by = t /\ e.ver = 1 /\ e.iv = t
      BY <1>2 DEF Buffer
    <3> QED BY <3>1, <3>2
  <2>2. frame' = [frame EXCEPT ![k.f] = e]
    BY <1>2, <1>4
  <2> HIDE DEF e
  <2>6. /\ frame' \in [Frames -> Buffer] /\ frame'[k.f] = e
        /\ \A g \in Frames \ {k.f} : frame'[g] = frame[g]
    BY <1>2, <2>1, <2>2, FrameSet
  <2>3. Moved(w, "init", t, worker[w].ctx)
    BY <1>2, <1>3, <1>4, Went DEF Goto, Steps
  <2>4. SealingAt("init", t, worker[w].ctx, k, e) /\ ProgressAt("init", worker[w].ctx, k)
    BY <2>1 DEF SealingAt, ProgressAt
  <2>5. tasks' = tasks /\ "init" \in SealSteps /\ faults' \in Nat
    BY <1>2, <1>4 DEF Goto, SealSteps
  <2> QED BY <1>1, <1>3, <2>1, <2>3, <2>4, <2>5, <2>6, SealWrites
<1>5. CASE /\ Fault("rand")
           /\ frame' = [frame EXCEPT ![k.f].ver = 1, ![k.f].by = t]
           /\ Return(w, "error")
  <2> DEFINE e == [b EXCEPT !.ver = 1, !.by = t]
  <2>1. e \in Buffer /\ e.by = t
    <3>1. e \in Buffer
      BY <1>2, Stamped
    <3>2. e.by = t
      BY <1>2 DEF Buffer
    <3> QED BY <3>1, <3>2
  <2>2. frame' = [frame EXCEPT ![k.f] = e]
    BY <1>2, <1>5
  <2> HIDE DEF e
  <2>6. /\ frame' \in [Frames -> Buffer] /\ frame'[k.f] = e
        /\ \A g \in Frames \ {k.f} : frame'[g] = frame[g]
    BY <1>2, <2>1, <2>2, FrameSet
  <2>3. Moved(w, "idle", 0, worker[w].ctx)
    BY <1>2, <1>3, <1>5, Freed DEF Return
  <2>4. tasks' = [tasks EXCEPT ![t].state = "error"] /\ faults' \in Nat
    BY <1>2, <1>5, FaultSpent, ReturnAnswers, Zenon
  <2> QED BY <1>1, <1>3, <2>1, <2>3, <2>4, <2>6, SealWrites
<1> QED BY <1>4, <1>5 DEF Rand, TaskOf

\* A worker at an update, and what a chunk added to its context leads to.
LEMMA Updating ==
  ASSUME NInv, NEW w \in Workers, worker[w].pc = "update"
  PROVE  LET c == worker[w].ctx
             k == TaskOf(w)
             i == Len(c.cts)
         IN  /\ Busy(w) /\ i \in Nat /\ i < k.n /\ i \in 0 .. Capacity
             /\ c.key = k.key /\ AfterChunk(w, i) \in {"update", "final"}
             /\ i + 1 < k.n <=> AfterChunk(w, i) = "update"
<1>1. Busy(w)
  BY DEF Busy
<1>2. /\ TaskOf(w).n \in 1 .. Capacity /\ worker[w].ctx.cts \in Seq(Cells)
      /\ ProgressAt("update", worker[w].ctx, TaskOf(w))
  BY <1>1, Working
<1> QED BY <1>1, <1>2, Constants DEF ProgressAt, AfterChunk, TaskOf

LEMMA ChunkMoved ==
  ASSUME NInv, UNCHANGED Rest, NEW w \in Workers, Busy(w), NEW x \in Cells,
         NEW p \in {"update", "final"},
         worker' = [worker EXCEPT ![w].ctx.cts = Append(@, x), ![w].pc = p]
  PROVE  \E c \in Contexts :
           /\ Moved(w, p, worker[w].task, c)
           /\ c.key = worker[w].ctx.key /\ c.iv = worker[w].ctx.iv
           /\ c.state = worker[w].ctx.state
           /\ c.tag = worker[w].ctx.tag /\ c.cts = Append(worker[w].ctx.cts, x)
<1>1. worker \in [Workers -> Worker] /\ p \in Steps
  BY TypesNow DEF NInv, Steps
<1> DEFINE V == [worker EXCEPT ![w].ctx.cts = Append(@, x)]
<1>2. /\ V \in [Workers -> Worker]
      /\ V[w].task = worker[w].task /\ V[w].ctx.key = worker[w].ctx.key
      /\ V[w].ctx.state = worker[w].ctx.state
      /\ V[w].ctx.iv = worker[w].ctx.iv /\ V[w].ctx.tag = worker[w].ctx.tag
      /\ V[w].ctx.cts = Append(worker[w].ctx.cts, x)
      /\ \A v \in Workers \ {w} : V[v] = worker[v]
  BY <1>1, ChunkAdded
<1>3. worker' = [V EXCEPT ![w].pc = p]
  OBVIOUS
<1> HIDE DEF V
<1>4. LET U == [V EXCEPT ![w].pc = p]
      IN  /\ U \in [Workers -> Worker]
          /\ U[w].pc = p /\ U[w].task = V[w].task /\ U[w].ctx = V[w].ctx
          /\ \A v \in Workers \ {w} : U[v] = V[v]
  BY <1>1, <1>2, PcSet
<1>5. V[w].ctx \in Contexts
  BY <1>2 DEF Worker
<1>6. Moved(w, p, worker[w].task, V[w].ctx)
  BY <1>2, <1>3, <1>4 DEF Moved, Worker, Rest
<1> QED BY <1>2, <1>5, <1>6

LEMMA CellSet ==
  ASSUME TypeOK, NEW f \in Frames, NEW i \in 0 .. Capacity, NEW x \in Cells
  PROVE  LET V == [frame EXCEPT ![f].cell[i] = x]
             b == frame[f]
         IN  /\ V \in [Frames -> Buffer]
             /\ V[f].ver = b.ver /\ V[f].iv = b.iv /\ V[f].by = b.by /\ V[f].used = b.used
             /\ V[f].cell[i] = x
             /\ \A j \in 0 .. Capacity : j # i => V[f].cell[j] = b.cell[j]
             /\ \A g \in Frames \ {f} : V[g] = frame[g]
<1>1. frame \in [Frames -> Buffer] /\ frame[f] \in Buffer
  BY TypesNow
<1> DEFINE d == [frame[f].cell EXCEPT ![i] = x]
           e == [frame[f] EXCEPT !.cell = d]
<1>2. d \in [0 .. Capacity -> Cells] /\ d[i] = x
      /\ \A j \in 0 .. Capacity : j # i => d[j] = frame[f].cell[j]
  BY <1>1 DEF Buffer
<1>3. [frame EXCEPT ![f].cell[i] = x] = [frame EXCEPT ![f] = e]
  OBVIOUS
<1> HIDE DEF d
<1>4. e \in Buffer /\ e.ver = frame[f].ver /\ e.iv = frame[f].iv /\ e.by = frame[f].by
      /\ e.cell = d /\ e.used = frame[f].used
  BY <1>1, <1>2 DEF Buffer
<1> HIDE DEF e
<1>5. LET V == [frame EXCEPT ![f] = e]
      IN  V \in [Frames -> Buffer] /\ V[f] = e /\ \A g \in Frames \ {f} : V[g] = frame[g]
  BY <1>1, <1>4
<1> QED BY <1>2, <1>3, <1>4, <1>5

LEMMA EncryptUpdateStep ==
  ASSUME NInv, NEW w \in Workers, EncryptUpdate(w), UNCHANGED <<master, processors>>
  PROVE  NInv'
<1> DEFINE t == worker[w].task
           k == TaskOf(w)
           b == FrameOf(w)
           c == worker[w].ctx
           i == Len(c.cts)
           x == Chunk(c.key, c.iv, t, i)
           Written == /\ frame' = [frame EXCEPT ![k.f].cell[i] = x]
                      /\ sealed' = sealed \cup {x}
<1>1. Busy(w) /\ worker[w].pc = "update" /\ k.op = "seal"
  <2>1. At(w, {"seal"}, "update")
    BY DEF EncryptUpdate
  <2> QED BY <2>1, AtCall
<1>2. /\ t \in 1 .. taken /\ k = tasks[t] /\ k.f \in Frames /\ b = frame[k.f] /\ b \in Buffer
      /\ TypeOK /\ faults \in Nat /\ c \in Contexts /\ c.cts \in Seq(Cells)
      /\ k.key \in NullKeys /\ SealingAt("update", t, c, k, b) /\ PlainTyped
  BY <1>1, Working
<1>3. /\ i \in Nat /\ i < k.n /\ i \in 0 .. Capacity /\ c.key = k.key
      /\ AfterChunk(w, i) \in {"update", "final"}
      /\ i + 1 < k.n <=> AfterChunk(w, i) = "update"
  BY <1>1, Updating
<1>4. c.iv = t /\ b.ver = 1 /\ b.iv = t /\ b.by = t
  BY <1>2 DEF SealingAt
<1>5. x = Chunk(k.key, t, t, i) /\ x \in Chunks /\ x \in Cells /\ x.iv = x.pt
  <2>1. t \in Nat /\ i \in Nat
    BY <1>2, <1>3 DEF TypeOK
  <2> QED BY <1>2, <1>3, <1>4, <2>1 DEF Chunk, Chunks, Cells
<1>6. UNCHANGED Rest /\ out' = out
  BY DEF EncryptUpdate, Rest
<1>7. Written => sealed' \subseteq Chunks /\ OwnIvs'
  BY <1>2, <1>5, TypesNow DEF NInv, OwnIvs
<1> DEFINE e == frame'[k.f]
<1>8. ASSUME Written
      PROVE  /\ frame' \in [Frames -> Buffer]
             /\ e.ver = 1 /\ e.iv = t /\ e.by = t /\ e.cell[i] = x
             /\ \A j \in 0 .. Capacity : j # i => e.cell[j] = b.cell[j]
             /\ \A g \in Frames \ {k.f} : frame'[g] = frame[g]
  <2>1. frame' = [frame EXCEPT ![k.f].cell[i] = x]
    BY <1>8
  <2> HIDE DEF x, i
  <2>2. TypeOK /\ k.f \in Frames /\ i \in 0 .. Capacity /\ x \in Cells
    BY <1>2, <1>3, <1>5 DEF i
  <2>3. LET V == [frame EXCEPT ![k.f].cell[i] = x]
            d == frame[k.f]
        IN  /\ V \in [Frames -> Buffer]
            /\ V[k.f].ver = d.ver /\ V[k.f].iv = d.iv /\ V[k.f].by = d.by /\ V[k.f].used = d.used
            /\ V[k.f].cell[i] = x
            /\ \A j \in 0 .. Capacity : j # i => V[k.f].cell[j] = d.cell[j]
            /\ \A g \in Frames \ {k.f} : V[g] = frame[g]
    BY <2>2, CellSet
  <2> QED BY <1>2, <1>4, <2>1, <2>3
<1>9. CASE /\ Written
           /\ worker' = [worker EXCEPT ![w].ctx.cts = Append(@, x),
                                      ![w].pc = AfterChunk(w, i)]
           /\ UNCHANGED <<tasks, faults>>
  <2>1. /\ frame' \in [Frames -> Buffer]
        /\ e.ver = 1 /\ e.iv = t /\ e.by = t /\ e.cell[i] = x
        /\ \A j \in 0 .. Capacity : j # i => e.cell[j] = b.cell[j]
        /\ \A g \in Frames \ {k.f} : frame'[g] = frame[g]
    BY <1>8, <1>9
  <2> HIDE DEF x
  <2>2. PICK d \in Contexts :
          /\ Moved(w, AfterChunk(w, i), t, d)
          /\ d.key = c.key /\ d.iv = c.iv /\ d.cts = Append(c.cts, x)
    BY <1>1, <1>3, <1>5, <1>6, <1>9, ChunkMoved
  <2>3. Len(d.cts) = i + 1 /\ d.cts[i + 1] = x
        /\ \A j \in 1 .. i : d.cts[j] = c.cts[j]
    <3>1. c.cts \in Seq(Cells) /\ x \in Cells /\ d.cts = Append(c.cts, x)
      BY <1>2, <1>5, <2>2
    <3> HIDE DEF c
    <3> QED BY <3>1, AppendFacts
  <2>4. ProgressAt(AfterChunk(w, i), d, k)
    <3>1. k.n \in Nat
      BY <1>1, Working
    <3> QED BY <1>3, <2>2, <2>3, <3>1 DEF ProgressAt
  <2>5. ASSUME NEW j \in 1 .. Len(d.cts)
        PROVE  d.cts[j] = Chunk(k.key, t, t, j - 1) /\ e.cell[j - 1] = d.cts[j]
    <3>1. CASE j = i + 1
      <4>1. j - 1 = i
        BY <1>3, <3>1
      <4> QED BY <1>5, <2>1, <2>3, <3>1, <4>1
    <3>2. CASE j # i + 1
      <4>1. j \in 1 .. i /\ j - 1 \in 0 .. Capacity /\ j - 1 # i
        BY <1>3, <2>3, <3>2, Constants
      <4> QED BY <1>2, <2>1, <2>3, <4>1 DEF SealingAt
    <3> QED BY <3>1, <3>2
  <2>6. SealingAt(AfterChunk(w, i), t, d, k, e)
    <3>1. e.ver = 1 /\ e.iv = t /\ e.by = t /\ d.iv = t
      BY <1>4, <2>1, <2>2
    <3> QED BY <2>5, <3>1 DEF SealingAt
  <2>7. AfterChunk(w, i) \in SealSteps /\ faults' \in Nat /\ tasks' = tasks
    BY <1>2, <1>3, <1>9 DEF SealSteps
  <2> QED BY <1>1, <1>6, <1>7, <1>9, <2>1, <2>2, <2>4, <2>6, <2>7, SealWrites
<1>10. CASE Fault("update") /\ Written /\ Return(w, "error")
  <2>1. /\ frame' \in [Frames -> Buffer] /\ e.by = t
        /\ \A g \in Frames \ {k.f} : frame'[g] = frame[g]
    BY <1>8, <1>10
  <2>2. Moved(w, "idle", 0, worker[w].ctx)
    BY <1>2, <1>6, <1>10, Freed DEF Return
  <2>3. tasks' = [tasks EXCEPT ![t].state = "error"] /\ faults' \in Nat
    BY <1>2, <1>10, FaultSpent, ReturnAnswers, Zenon
  <2> QED BY <1>1, <1>6, <1>7, <1>10, <2>1, <2>2, <2>3, SealWrites
<1>11. CASE Fault("update") /\ UNCHANGED <<frame, sealed>> /\ Return(w, "error")
  <2>1. faults' \in Nat /\ PlainTyped'
    BY <1>2, <1>6, <1>11 DEF Fault, PlainTyped
  <2> QED BY <1>1, <1>6, <1>11, <2>1, Returned DEF Finished
<1> QED BY <1>9, <1>10, <1>11 DEF EncryptUpdate, TaskOf

\* What a seal that is about to take its tag has encrypted.
LEMMA Encrypted ==
  ASSUME NInv, NEW w \in Workers, worker[w].pc = "gettag", TaskOf(w).op = "seal",
         NEW t, t = worker[w].task
  PROVE  /\ worker[w].ctx.cts = CtOf(t)
         /\ GcmTag(worker[w].ctx.key, worker[w].ctx.iv, worker[w].ctx.cts) = TagOf(t)
<1> DEFINE c == worker[w].ctx
           k == TaskOf(w)
<1>1. Busy(w)
  BY DEF Busy
<1>2. /\ c.cts \in Seq(Cells) /\ k = tasks[t] /\ k.n \in Nat
      /\ ProgressAt("gettag", c, k) /\ SealingAt("gettag", t, c, k, FrameOf(w))
  BY <1>1, Working
<1>3. /\ Len(c.cts) = k.n /\ c.key = k.key /\ c.iv = t
      /\ \A i \in 1 .. k.n : c.cts[i] = Chunk(k.key, t, t, i - 1)
  BY <1>2 DEF ProgressAt, SealingAt
<1>4. c.cts = [i \in 1 .. k.n |-> Chunk(k.key, t, t, i - 1)]
  <2>1. c.cts = [i \in 1 .. k.n |-> c.cts[i]]
    BY <1>2, <1>3
  <2> QED BY <1>3, <2>1
<1>5. c.cts = CtOf(t)
  BY <1>2, <1>4 DEF CtOf
<1> QED BY <1>2, <1>3, <1>5 DEF TagOf

LEMMA Ciphertexts ==
  ASSUME NEW n \in Nat, NEW key \in NullKeys, NEW s \in Nat
  PROVE  [i \in 1 .. n |-> Chunk(key, s, s, i - 1)] \in Seq(Chunks)
<1>1. \A i \in 1 .. n : Chunk(key, s, s, i - 1) \in Chunks
  BY DEF Chunk, Chunks
<1> QED BY <1>1

WithTag(f, n, x) == [frame EXCEPT ![f].cell[n] = x, ![f].used = n]

LEMMA Ended ==
  ASSUME TypeOK, NEW f \in Frames, NEW n \in 1 .. Capacity, NEW x \in Cells
  PROVE  LET V == WithTag(f, n, x)
             b == frame[f]
         IN  /\ V \in [Frames -> Buffer]
             /\ V[f].ver = b.ver /\ V[f].iv = b.iv /\ V[f].by = b.by /\ V[f].used = n
             /\ V[f].cell[n] = x
             /\ \A j \in 0 .. Capacity : j # n => V[f].cell[j] = b.cell[j]
             /\ \A g \in Frames \ {f} : V[g] = frame[g]
<1>1. n \in 0 .. Capacity /\ frame \in [Frames -> Buffer]
  BY Constants, TypesNow
<1> DEFINE U == [frame EXCEPT ![f].cell[n] = x]
           V == [U EXCEPT ![f].used = n]
<1>2. /\ U \in [Frames -> Buffer]
      /\ U[f].ver = frame[f].ver /\ U[f].iv = frame[f].iv /\ U[f].by = frame[f].by
      /\ U[f].cell[n] = x
      /\ \A j \in 0 .. Capacity : j # n => U[f].cell[j] = frame[f].cell[j]
      /\ \A g \in Frames \ {f} : U[g] = frame[g]
  BY <1>1, CellSet
<1>3. WithTag(f, n, x) = V
  BY DEF WithTag
<1> HIDE DEF U
<1>4. /\ V \in [Frames -> Buffer]
      /\ V[f].ver = U[f].ver /\ V[f].iv = U[f].iv /\ V[f].by = U[f].by /\ V[f].used = n
      /\ V[f].cell = U[f].cell
      /\ \A g \in Frames \ {f} : V[g] = U[g]
  BY <1>1, <1>2 DEF Buffer
<1> HIDE DEF V
<1> QED BY <1>2, <1>3, <1>4

LEMMA GetTagStep ==
  ASSUME NInv, NEW w \in Workers, GetTag(w), UNCHANGED <<master, processors>>
  PROVE  NInv'
<1> DEFINE k == TaskOf(w)
           b == FrameOf(w)
           c == worker[w].ctx
           x == GcmTag(c.key, c.iv, c.cts)
<1>1. Busy(w) /\ worker[w].pc = "gettag" /\ k.op = "seal"
  <2>1. At(w, {"seal"}, "gettag")
    BY DEF GetTag
  <2> QED BY <2>1, AtCall
<1>2. UNCHANGED Rest /\ out' = out /\ sealed' = sealed
  BY DEF GetTag, Rest
<1>3. PICK t : t = worker[w].task
  OBVIOUS
<1>4. /\ t \in 1 .. taken /\ t \in 1 .. Len(tasks) /\ k = tasks[t] /\ k \in Task
      /\ k.f \in Frames /\ b = frame[k.f] /\ b \in Buffer
      /\ TypeOK /\ faults \in Nat /\ PlainTyped /\ k.n \in 1 .. Capacity
      /\ c.cts \in Seq(Cells) /\ ProgressAt("gettag", c, k) /\ SealingAt("gettag", t, c, k, b)
  BY <1>1, <1>3, Working
<1>5. c.cts = CtOf(t) /\ x = TagOf(t)
  BY <1>1, <1>3, Encrypted
<1>6. CASE /\ frame' = [frame EXCEPT ![k.f].cell[k.n] = x, ![k.f].used = k.n]
           /\ Return(w, "ok")
           /\ UNCHANGED faults
  <2>1. x \in Cells
    <3>1. TagOf(t) = GcmTag(k.key, t, CtOf(t)) /\ k.n \in Nat /\ t \in Nat /\ k.key \in NullKeys
      BY <1>4 DEF TagOf, TypeOK, Task, NullKeys
    <3>2. CtOf(t) \in Seq(Chunks)
      BY <1>4, <3>1, Ciphertexts DEF CtOf
    <3> QED BY <1>5, <3>1, <3>2 DEF GcmTag, Tags, Cells
  <2> HIDE DEF x
  <2> DEFINE e == frame'[k.f]
  <2>2. /\ frame' \in [Frames -> Buffer]
        /\ e.ver = b.ver /\ e.iv = b.iv /\ e.by = b.by
        /\ e.cell[k.n] = x /\ e.used = k.n
        /\ \A j \in 0 .. Capacity : j # k.n => e.cell[j] = b.cell[j]
        /\ \A g \in Frames \ {k.f} : frame'[g] = frame[g]
    <3>1. LET V == WithTag(k.f, k.n, x)
              d == frame[k.f]
          IN  /\ V \in [Frames -> Buffer]
              /\ V[k.f].ver = d.ver /\ V[k.f].iv = d.iv /\ V[k.f].by = d.by /\ V[k.f].used = k.n
              /\ V[k.f].cell[k.n] = x
              /\ \A j \in 0 .. Capacity : j # k.n => V[k.f].cell[j] = d.cell[j]
              /\ \A g \in Frames \ {k.f} : V[g] = frame[g]
      <4>1. TypeOK /\ k.f \in Frames /\ k.n \in 1 .. Capacity
        BY <1>4
      <4> QED BY <2>1, <4>1, Ended
    <3>2. frame' = WithTag(k.f, k.n, x)
      BY <1>6 DEF x, WithTag
    <3>3. b = frame[k.f]
      BY <1>4
    <3> QED BY <3>1, <3>2, <3>3
  <2>3. frame' \in [Frames -> Buffer] /\ \A g \in Frames \ {k.f} : frame'[g] = frame[g]
    BY <2>2
  <2>4. Moved(w, "idle", 0, c)
    BY <1>2, <1>4, <1>6, Freed DEF Return
  <2>5. Outcome(t, "ok")
    <3>1. tasks' = [tasks EXCEPT ![t].state = "ok"] /\ "ok" \in States
      BY <1>3, <1>6 DEF Return, States
    <3> QED BY <1>4, <3>1, Recorded
  <2>6. TypeOK'
    <3>1. worker' \in [Workers -> Worker] /\ tasks' \in Seq(Task) /\ Len(tasks') = Len(tasks)
      BY <1>2, <2>4, <2>5 DEF Moved, Outcome, Worker, Rest
    <3>2. sealed' \subseteq Chunks /\ faults' \in Nat /\ PlainTyped'
      BY <1>2, <1>4, <1>6, TypesNow DEF PlainTyped
    <3> QED BY <1>2, <1>4, <2>3, <3>1, <3>2, StepTypes DEF PlainTyped
  <2>7. OwnIvs'
    BY <1>2 DEF NInv, OwnIvs
  <2>8. e.ver = 1 /\ e.iv = t /\ e.by = t
    BY <1>4, <2>2 DEF SealingAt
  <2>9. \A i \in 1 .. k.n : e.cell[i - 1] = CtOf(t)[i]
    <3> SUFFICES ASSUME NEW i \in 1 .. k.n PROVE e.cell[i - 1] = CtOf(t)[i]
      OBVIOUS
    <3>1. i - 1 \in 0 .. Capacity /\ i - 1 # k.n /\ i \in 1 .. Len(c.cts)
      BY <1>4, Constants DEF ProgressAt
    <3>2. b.cell[i - 1] = c.cts[i]
      BY <1>4, <3>1 DEF SealingAt
    <3> QED BY <1>5, <2>2, <3>1, <3>2
  <2>10. tasks'[t].n = k.n /\ tasks'[t].key = k.key
    BY <1>4, <2>5 DEF Outcome
  <2>11. CtOf(t)' = CtOf(t) /\ TagOf(t)' = TagOf(t)
    BY <1>4, <2>10 DEF CtOf, TagOf, Chunk, GcmTag
  <2>12. ASSUME NEW f \in Frames, f = k.f PROVE CorrectFrame(f)'
    <3>1. t = frame'[f].by /\ frame'[f] = e
      BY <2>8, <2>12
    <3>2. /\ e.ver = 1 /\ e.iv = t /\ e.used = tasks'[t].n
          /\ \A i \in 1 .. tasks'[t].n : e.cell[i - 1] = CtOf(t)'[i]
          /\ e.cell[tasks'[t].n] = TagOf(t)'
      BY <1>5, <2>2, <2>8, <2>9, <2>10, <2>11 DEF x
    <3> QED BY <3>1, <3>2 DEF CorrectFrame
  <2>13. /\ Moved(w, "idle", IF "ok" = "running" THEN worker[w].task ELSE 0, c)
         /\ Outcome(worker[w].task, "ok")
         /\ frame'[k.f].by \in {frame[k.f].by, worker[w].task}
         /\ "ok" \in {"running"} \cup Finished /\ taken' = taken
    BY <1>2, <1>3, <2>3, <2>4, <2>5, <2>8 DEF Finished, Rest
  <2> QED BY <1>1, <2>3, <2>6, <2>7, <2>12, <2>13, WorkerStep
<1>7. CASE Fault("gettag") /\ Return(w, "error") /\ UNCHANGED frame
  <2>1. faults' \in Nat /\ PlainTyped'
    BY <1>2, <1>4, <1>7 DEF Fault, PlainTyped
  <2> QED BY <1>1, <1>2, <1>7, <2>1, Returned DEF Finished
<1> QED BY <1>6, <1>7 DEF GetTag, TaskOf

LEMMA Cleansed ==
  ASSUME PlainTyped, NEW o \in Outs, Cleanse(o)
  PROVE  PlainTyped'
<1> DEFINE z == [i \in DOMAIN out[o] |-> Zero]
<1>1. z \in [DOMAIN z -> Plain]
  BY DEF Plain
<1>2. out' = [out EXCEPT ![o] = z]
  BY DEF Cleanse
<1> HIDE DEF z
<1>3. DOMAIN out = Outs
  BY DEF PlainTyped
<1>4. ASSUME NEW q \in Outs PROVE out'[q] \in [DOMAIN out'[q] -> Plain]
  BY <1>1, <1>2, <1>3 DEF PlainTyped
<1> QED BY <1>2, <1>3, <1>4 DEF PlainTyped

LEMMA ChunkDecrypted ==
  ASSUME PlainTyped, NEW o \in Outs, NEW i, NEW x \in Plain, out' = [out EXCEPT ![o][i] = x]
  PROVE  PlainTyped'
<1> DEFINE z == [out[o] EXCEPT ![i] = x]
<1>1. out[o] \in [DOMAIN out[o] -> Plain] /\ DOMAIN out = Outs
  BY DEF PlainTyped
<1>2. z \in [DOMAIN z -> Plain]
  BY <1>1
<1>3. out' = [out EXCEPT ![o] = z]
  OBVIOUS
<1> HIDE DEF z
<1>4. ASSUME NEW q \in Outs PROVE out'[q] \in [DOMAIN out'[q] -> Plain]
  BY <1>1, <1>2, <1>3 DEF PlainTyped
<1> QED BY <1>1, <1>3, <1>4 DEF PlainTyped

LEMMA DecryptUpdateStep ==
  ASSUME NInv, NEW w \in Workers, DecryptUpdate(w), UNCHANGED <<master, processors>>
  PROVE  NInv'
<1> DEFINE k == TaskOf(w)
           c == worker[w].ctx
           i == Len(c.cts)
           x == frame[k.f].cell[i]
           d == Decrypted(c.key, c.iv, x, i)
<1>1. Busy(w) /\ worker[w].pc = "update" /\ k.op = "open" /\ k.o \in Outs
  <2>1. At(w, {"open"}, "update")
    BY DEF DecryptUpdate
  <2>2. Busy(w) /\ worker[w].pc = "update" /\ k.op = "open"
    BY <2>1, AtCall
  <2> QED BY <2>2, Working
<1>2. /\ k = TaskOf(w) /\ k.f \in Frames /\ FrameOf(w) = frame[k.f] /\ FrameOf(w) \in Buffer
      /\ TypeOK /\ faults \in Nat /\ c \in Contexts /\ c.cts \in Seq(Cells) /\ PlainTyped
      /\ c.key \in NullKeys /\ c.iv \in Nat
  BY <1>1, Working
<1>3. /\ i \in Nat /\ i < k.n /\ i \in 0 .. Capacity /\ c.key = k.key
      /\ AfterChunk(w, i) \in {"update", "final"}
      /\ i + 1 < k.n <=> AfterChunk(w, i) = "update"
  BY <1>1, Updating
<1>4. x \in Cells
  BY <1>2, <1>3 DEF Buffer
<1>5. UNCHANGED Rest /\ frame' = frame /\ sealed' = sealed
  BY DEF DecryptUpdate, Rest
<1>6. CASE /\ out' = [out EXCEPT ![k.o][i] = d]
           /\ worker' = [worker EXCEPT ![w].ctx.cts = Append(@, x),
                                      ![w].pc = AfterChunk(w, i)]
           /\ UNCHANGED <<tasks, faults>>
  <2>1. d \in Plain
    BY <1>2, <1>3, <1>4 DEF Decrypted, Plain
  <2>2. PlainTyped'
    <3> HIDE DEF d, i
    <3> QED BY <1>1, <1>2, <1>6, <2>1, ChunkDecrypted
  <2> HIDE DEF x
  <2>3. PICK e \in Contexts :
          /\ Moved(w, AfterChunk(w, i), worker[w].task, e)
          /\ e.key = c.key /\ e.cts = Append(c.cts, x)
    BY <1>1, <1>3, <1>4, <1>5, <1>6, ChunkMoved
  <2>4. Len(e.cts) = i + 1
    BY <1>2, <1>4, <2>3
  <2>5. ProgressAt(AfterChunk(w, i), e, k)
    <3>1. k.n \in Nat
      BY <1>1, Working
    <3> QED BY <1>3, <2>3, <2>4, <3>1 DEF ProgressAt
  <2>6. AfterChunk(w, i) \in OpenSteps /\ AfterChunk(w, i) \in Steps
    BY <1>3 DEF OpenSteps, Steps
  <2> QED BY <1>1, <1>2, <1>5, <1>6, <2>2, <2>3, <2>5, <2>6, Advanced
<1>7. CASE Fault("update") /\ Cleanse(k.o) /\ Return(w, "error")
  <2>1. PlainTyped' /\ faults' \in Nat
    BY <1>1, <1>2, <1>7, Cleansed DEF Fault
  <2> QED BY <1>1, <1>5, <1>7, <2>1, Returned DEF Finished
<1> QED BY <1>6, <1>7 DEF DecryptUpdate, TaskOf

LEMMA DecryptFinalStep ==
  ASSUME NInv, NEW w \in Workers, DecryptFinal(w), UNCHANGED <<master, processors>>
  PROVE  NInv'
<1>1. Busy(w) /\ worker[w].pc = "final" /\ TaskOf(w).op = "open" /\ TaskOf(w).o \in Outs
  <2>1. At(w, {"open"}, "final")
    BY DEF DecryptFinal
  <2>2. Busy(w) /\ worker[w].pc = "final" /\ TaskOf(w).op = "open"
    BY <2>1, AtCall
  <2> QED BY <2>2, Working
<1>2. PlainTyped /\ faults \in Nat
  BY <1>1, Working
<1>3. UNCHANGED Rest /\ frame' = frame /\ sealed' = sealed
  BY DEF DecryptFinal, Rest
<1>4. CASE Return(w, "ok") /\ UNCHANGED <<out, faults>>
  <2>1. PlainTyped' /\ faults' \in Nat
    BY <1>2, <1>4 DEF PlainTyped
  <2> QED BY <1>1, <1>3, <1>4, <2>1, Returned DEF Finished
<1>5. CASE /\ IF authentic(worker[w].ctx) THEN Fault("final") ELSE UNCHANGED faults
           /\ Cleanse(TaskOf(w).o)
           /\ Return(w, "invalid_tag")
  <2>1. PlainTyped' /\ faults' \in Nat
    BY <1>1, <1>2, <1>5, Cleansed DEF Fault
  <2> QED BY <1>1, <1>3, <1>5, <2>1, Returned DEF Finished
<1> QED BY <1>4, <1>5 DEF DecryptFinal, TaskOf

-----------------------------------------------------------------------------
(* The queue.                                                              *)

Begun(q, t, r, z) == [q EXCEPT ![t].state = r, ![t].seen = z]

LEMMA Began ==
  ASSUME NEW q \in Seq(Task), NEW t \in 1 .. Len(q), NEW r \in States, NEW z \in Nat
  PROVE  LET p == Begun(q, t, r, z)
         IN  /\ p \in Seq(Task) /\ Len(p) = Len(q)
             /\ \A u \in 1 .. Len(q) :
                  /\ p[u].op = q[u].op /\ p[u].key = q[u].key /\ p[u].n = q[u].n
                  /\ p[u].f = q[u].f /\ p[u].o = q[u].o
                  /\ u # t => p[u] = q[u]
             /\ p[t].state = r /\ p[t].seen = z
<1> DEFINE d == [q[t] EXCEPT !.state = r]
           e == [d EXCEPT !.seen = z]
<1>1. q[t] \in Task
  OBVIOUS
<1>2. /\ d \in Task /\ d.op = q[t].op /\ d.key = q[t].key /\ d.n = q[t].n /\ d.f = q[t].f
      /\ d.o = q[t].o /\ d.state = r
  BY <1>1 DEF Task
<1>3. Begun(q, t, r, z) = [q EXCEPT ![t] = e]
  BY DEF Begun
<1> HIDE DEF d
<1>4. /\ e \in Task /\ e.op = d.op /\ e.key = d.key /\ e.n = d.n /\ e.f = d.f
      /\ e.o = d.o /\ e.state = d.state /\ e.seen = z
  BY <1>2 DEF Task
<1> HIDE DEF e
<1>5. LET p == [q EXCEPT ![t] = e]
      IN  /\ p \in Seq(Task) /\ Len(p) = Len(q)
          /\ \A u \in 1 .. Len(q) : p[u] = IF u = t THEN e ELSE q[u]
  BY <1>4
<1> QED BY <1>2, <1>3, <1>4, <1>5

LEMMA Started ==
  ASSUME TypeOK, NEW w \in Workers, taken + 1 \in Nat, NEW p \in Steps
  PROVE  LET V == [worker EXCEPT ![w].task = taken + 1, ![w].pc = p]
         IN  /\ V \in [Workers -> [pc : Steps, task : 0 .. taken + 1, ctx : Contexts]]
             /\ V[w].pc = p /\ V[w].task = taken + 1 /\ V[w].ctx = worker[w].ctx
             /\ \A v \in Workers \ {w} : V[v] = worker[v]
<1> DEFINE S == [pc : Steps, task : 0 .. taken + 1, ctx : Contexts]
           d == [worker[w] EXCEPT !.task = taken + 1]
           e == [d EXCEPT !.pc = p]
<1>1. worker \in [Workers -> S] /\ taken + 1 \in 0 .. taken + 1
  BY DEF TypeOK
<1>2. d \in S /\ d.task = taken + 1 /\ d.ctx = worker[w].ctx
  BY <1>1
<1>3. [worker EXCEPT ![w].task = taken + 1, ![w].pc = p] = [worker EXCEPT ![w] = e]
  OBVIOUS
<1> HIDE DEF d
<1>4. e \in S /\ e.task = taken + 1 /\ e.ctx = worker[w].ctx /\ e.pc = p
  BY <1>2
<1> HIDE DEF e, S
<1>5. LET V == [worker EXCEPT ![w] = e]
      IN  V \in [Workers -> S] /\ V[w] = e /\ \A v \in Workers \ {w} : V[v] = worker[v]
  BY <1>1, <1>4
<1> QED BY <1>3, <1>4, <1>5 DEF S

\* What a step leaves of NInv that only answers or starts task t and writes
\* no frame.
LEMMA QueueStep ==
  ASSUME NInv, TypeOK', taken' \in Nat, taken' >= taken, frame' = frame, sealed' = sealed,
         Len(tasks') >= Len(tasks),
         \A u \in 1 .. Len(tasks) :
           /\ tasks'[u].op = tasks[u].op /\ tasks'[u].key = tasks[u].key
           /\ tasks'[u].n = tasks[u].n /\ tasks'[u].f = tasks[u].f
           /\ tasks'[u].state = "ok" <=> tasks[u].state = "ok",
         \A u \in Len(tasks) + 1 .. Len(tasks') : tasks'[u].state # "ok"
  PROVE  LastWriter' /\ SealsAnswered' /\ OwnIvs' /\ SealedFramesCorrect'
<1>1. /\ tasks \in Seq(Task) /\ tasks' \in Seq(Task) /\ taken \in 0 .. Len(tasks)
      /\ DOMAIN tasks = 1 .. Len(tasks) /\ DOMAIN tasks' = 1 .. Len(tasks')
  BY DEF NInv, TypeOK, Task
<1>2. LastWriter'
  <2> SUFFICES ASSUME NEW f \in Frames, frame[f].by # 0
               PROVE  /\ frame[f].by \in 1 .. taken'
                      /\ tasks'[frame[f].by].op = "seal" /\ tasks'[frame[f].by].f = f
    BY DEF LastWriter
  <2>1. /\ frame[f].by \in 1 .. taken
        /\ tasks[frame[f].by].op = "seal" /\ tasks[frame[f].by].f = f
    BY DEF NInv, LastWriter
  <2> QED BY <1>1, <2>1
<1>3. SealsAnswered'
  <2> SUFFICES ASSUME NEW u \in 1 .. Len(tasks'), tasks'[u].op = "seal", tasks'[u].state = "ok"
               PROVE  tasks'[u].n \in 1 .. Capacity
    BY <1>1 DEF SealsAnswered
  <2>1. u \in 1 .. Len(tasks)
    BY <1>1
  <2>2. tasks[u].op = "seal" /\ tasks[u].state = "ok" /\ tasks'[u].n = tasks[u].n
    BY <2>1
  <2>3. u \in DOMAIN tasks
    BY <1>1, <2>1
  <2> QED BY <2>2, <2>3 DEF NInv, SealsAnswered
<1>4. SealedFramesCorrect'
  <2>1. ASSUME NEW f \in Frames PROVE CorrectFrame(f)'
    <3>1. frame[f].by # 0 => frame[f].by \in 1 .. Len(tasks)
      BY <1>1 DEF NInv, LastWriter
    <3> QED BY <3>1, SameFrame
  <2> QED BY <2>1 DEF SealedFramesCorrect, CorrectFrame
<1>5. OwnIvs'
  BY DEF NInv, OwnIvs
<1> QED BY <1>2, <1>3, <1>4, <1>5

\* Worker w takes task t, which is k, to state r; when it begins it is at p.
Takes(w, t, k, r, p) ==
  /\ t = taken + 1 /\ k = tasks[t] /\ r \in {"error", "running"}
  /\ p = IF k.op = "seal" THEN "context" ELSE "version"
  /\ worker[w].pc = "idle" /\ taken' = t
  /\ UNCHANGED <<frame, out, sealed, faults, tampers>>
  /\ t \in 1 .. Len(tasks) /\ taken \in Nat /\ taken \in 0 .. Len(tasks)
  /\ k \in Task /\ tasks[t].state = "queued"
  /\ tasks' \in Seq(Task) /\ Len(tasks') = Len(tasks) /\ DOMAIN tasks' = 1 .. Len(tasks)
  /\ \A u \in 1 .. Len(tasks) :
       /\ tasks'[u].op = tasks[u].op /\ tasks'[u].key = tasks[u].key
       /\ tasks'[u].n = tasks[u].n /\ tasks'[u].f = tasks[u].f /\ tasks'[u].o = tasks[u].o
       /\ u # t => tasks'[u] = tasks[u]
  /\ tasks'[t].state = r /\ tasks'[t].seen = SealSeen(k)
  /\ IF r = "error" THEN refused(k) ELSE k.n \in 1 .. Capacity
  /\ worker' \in [Workers -> [pc : Steps, task : 0 .. taken', ctx : Contexts]]
  /\ \A v \in Workers \ {w} : worker'[v] = worker[v]
  /\ IF r = "error" THEN worker'[w] = worker[w]
     ELSE worker'[w].pc = p /\ worker'[w].task = t /\ worker'[w].ctx = worker[w].ctx

LEMMA TakeFacts ==
  ASSUME NInv, NEW w \in Workers, Take(w)
  PROVE  \E t, k, r, p : Takes(w, t, k, r, p)
<1>1. PICK t : t = taken + 1
  OBVIOUS
<1>2. PICK k : k = tasks[t]
  OBVIOUS
<1>3. PICK p : p = IF k.op = "seal" THEN "context" ELSE "version"
  OBVIOUS
<1>4. /\ worker[w].pc = "idle" /\ taken' = t
      /\ UNCHANGED <<frame, out, sealed, faults, tampers>>
      /\ t \in 1 .. Len(tasks) /\ taken \in Nat /\ taken \in 0 .. Len(tasks)
      /\ TypeOK /\ tasks \in Seq(Task) /\ k \in Task /\ tasks[t].state = "queued"
  <2>1. TypeOK /\ tasks \in Seq(Task) /\ taken \in 0 .. Len(tasks)
    BY TypesNow DEF NInv
  <2>2. worker[w].pc = "idle" /\ taken' = t /\ taken < Len(tasks)
        /\ UNCHANGED <<frame, out, sealed, faults, tampers>>
    BY <1>1 DEF Take
  <2>3. t \in 1 .. Len(tasks) /\ taken \in Nat
    BY <1>1, <2>1, <2>2
  <2>4. k \in Task
    BY <1>2, <2>1, <2>3
  <2>5. tasks[t].state = "queued"
    BY <1>1, <2>1, <2>3 DEF NInv, Queueing
  <2> QED BY <2>1, <2>2, <2>3, <2>4, <2>5
<1>5. SealSeen(k) \in Nat
  <2>1. frame[k.f].by \in 0 .. taken
    BY <1>4 DEF TypeOK, Task
  <2> QED BY <1>4, <2>1 DEF SealSeen
<1>6. PICK r \in {"error", "running"} :
        /\ tasks' = [tasks EXCEPT ![t].state = r, ![t].seen = SealSeen(k)]
        /\ r = "error" => refused(k) /\ worker' = worker
        /\ r = "running" => /\ ~ refused(k)
                            /\ worker' = [worker EXCEPT ![w].task = t, ![w].pc = p]
  <2>1. CASE /\ refused(k)
             /\ tasks' = [tasks EXCEPT ![t].state = "error", ![t].seen = SealSeen(k)]
             /\ UNCHANGED worker
    BY <2>1
  <2>2. CASE /\ ~ refused(k)
             /\ tasks' = [tasks EXCEPT ![t].state = "running", ![t].seen = SealSeen(k)]
             /\ worker' = [worker EXCEPT ![w].task = t, ![w].pc = p]
    BY <2>2
  <2> QED BY <1>1, <1>2, <1>3, <2>1, <2>2 DEF Take
<1>7. /\ tasks' \in Seq(Task) /\ Len(tasks') = Len(tasks) /\ DOMAIN tasks' = 1 .. Len(tasks)
      /\ \A u \in 1 .. Len(tasks) :
           /\ tasks'[u].op = tasks[u].op /\ tasks'[u].key = tasks[u].key
           /\ tasks'[u].n = tasks[u].n /\ tasks'[u].f = tasks[u].f /\ tasks'[u].o = tasks[u].o
           /\ u # t => tasks'[u] = tasks[u]
      /\ tasks'[t].state = r /\ tasks'[t].seen = SealSeen(k)
  <2>1. r \in States
    BY DEF States
  <2>2. LET q == Begun(tasks, t, r, SealSeen(k))
        IN  /\ q \in Seq(Task) /\ Len(q) = Len(tasks)
            /\ \A u \in 1 .. Len(tasks) :
                 /\ q[u].op = tasks[u].op /\ q[u].key = tasks[u].key /\ q[u].n = tasks[u].n
                 /\ q[u].f = tasks[u].f /\ q[u].o = tasks[u].o
                 /\ u # t => q[u] = tasks[u]
            /\ q[t].state = r /\ q[t].seen = SealSeen(k)
    BY <1>4, <1>5, <2>1, Began
  <2> QED BY <1>4, <1>6, <2>2 DEF Begun
<1>8. /\ worker' \in [Workers -> [pc : Steps, task : 0 .. taken', ctx : Contexts]]
      /\ \A v \in Workers \ {w} : worker'[v] = worker[v]
      /\ IF r = "error" THEN worker'[w] = worker[w]
         ELSE worker'[w].pc = p /\ worker'[w].task = t /\ worker'[w].ctx = worker[w].ctx
  <2>1. CASE r = "error"
    BY <1>1, <1>4, <1>6, <2>1 DEF TypeOK
  <2>2. CASE r = "running"
    <3>1. p \in Steps /\ taken + 1 \in Nat
      BY <1>3, <1>4 DEF Steps
    <3>2. LET V == [worker EXCEPT ![w].task = taken + 1, ![w].pc = p]
          IN  /\ V \in [Workers -> [pc : Steps, task : 0 .. taken + 1, ctx : Contexts]]
              /\ V[w].pc = p /\ V[w].task = taken + 1 /\ V[w].ctx = worker[w].ctx
              /\ \A v \in Workers \ {w} : V[v] = worker[v]
      BY <1>4, <3>1, Started
    <3> QED BY <1>1, <1>4, <1>6, <2>2, <3>2
  <2> QED BY <2>1, <2>2
<1>9. ASSUME r = "running" PROVE k.n \in 1 .. Capacity
  <2>1. k.n # 0 /\ (k.op = "seal" => ~ Capacity < k.n) /\ (k.op = "open" => ~ frame[k.f].used < k.n)
    BY <1>6, <1>9 DEF refused
  <2>2. k.n \in Nat /\ k.op \in {"seal", "open"} /\ frame[k.f].used \in 0 .. Capacity
    BY <1>4 DEF Task, TypeOK
  <2> QED BY <2>1, <2>2, Constants
<1>10. Takes(w, t, k, r, p)
  BY <1>1, <1>2, <1>3, <1>4, <1>6, <1>7, <1>8, <1>9 DEF Takes
<1> QED BY <1>10

LEMMA TakeStep ==
  ASSUME NInv, NEW w \in Workers, Take(w), UNCHANGED <<master, processors>>
  PROVE  NInv'
<1>0. PICK t, k, r, p : Takes(w, t, k, r, p)
  BY TakeFacts
<1>1. t = taken + 1 /\ r \in {"error", "running"}
  BY <1>0 DEF Takes
<1>2. k = tasks[t] /\ p = IF k.op = "seal" THEN "context" ELSE "version"
  BY <1>0 DEF Takes
<1>3. /\ worker[w].pc = "idle" /\ taken' = t
      /\ UNCHANGED <<master, processors, frame, out, sealed, faults, tampers>>
      /\ t \in 1 .. Len(tasks) /\ taken \in Nat /\ taken \in 0 .. Len(tasks)
      /\ TypeOK /\ tasks \in Seq(Task) /\ k \in Task /\ k.f \in Frames
      /\ DOMAIN tasks = 1 .. Len(tasks)
  <2>1. TypeOK /\ tasks \in Seq(Task)
    BY TypesNow DEF NInv
  <2> QED BY <1>0, <2>1 DEF Takes, Task
<1>6. /\ tasks' \in Seq(Task) /\ Len(tasks') = Len(tasks) /\ DOMAIN tasks' = 1 .. Len(tasks)
      /\ \A u \in 1 .. Len(tasks) :
           /\ tasks'[u].op = tasks[u].op /\ tasks'[u].key = tasks[u].key
           /\ tasks'[u].n = tasks[u].n /\ tasks'[u].f = tasks[u].f /\ tasks'[u].o = tasks[u].o
           /\ u # t => tasks'[u] = tasks[u]
      /\ tasks'[t].state = r
  BY <1>0 DEF Takes
<1>7. /\ worker' \in [Workers -> [pc : Steps, task : 0 .. taken', ctx : Contexts]]
      /\ \A v \in Workers \ {w} : worker'[v] = worker[v]
      /\ IF r = "error" THEN worker'[w] = worker[w]
         ELSE worker'[w].pc = p /\ worker'[w].task = t
  BY <1>0 DEF Takes
<1>8. TypeOK'
  <2>1. taken' \in 0 .. Len(tasks')
    BY <1>3, <1>6
  <2>2. frame' \in [Frames -> [ver : {0, 1, 2}, iv : Nat, cell : [0 .. Capacity -> Cells],
                                used : 0 .. Capacity, by : 0 .. taken']]
    <3>1. 0 .. taken \subseteq 0 .. taken'
      BY <1>1, <1>3
    <3> QED BY <1>3, <3>1 DEF TypeOK
  <2> QED BY <1>3, <1>6, <1>7, <2>1, <2>2 DEF TypeOK, Task
<1>9. LastWriter' /\ SealsAnswered' /\ OwnIvs' /\ SealedFramesCorrect'
  <2>1. tasks[t].state = "queued"
    BY <1>1, <1>3 DEF NInv, Queueing
  <2>2. \A u \in 1 .. Len(tasks) : tasks'[u].state = "ok" <=> tasks[u].state = "ok"
    BY <1>1, <1>6, <2>1
  <2>3. taken' \in Nat /\ taken' >= taken /\ Len(tasks') >= Len(tasks)
        /\ \A u \in Len(tasks) + 1 .. Len(tasks') : tasks'[u].state # "ok"
    BY <1>1, <1>3, <1>6
  <2> QED BY <1>3, <1>6, <1>8, <2>2, <2>3, QueueStep
<1>10. ASSUME r = "running" PROVE k.n \in 1 .. Capacity
  BY <1>0, <1>10 DEF Takes
<1>11. /\ tasks[t].state = "queued"
       /\ \A v \in Workers : Busy(v) => worker[v].task \in 1 .. taken /\ worker[v].task # t
                                       /\ worker[v].task \in 1 .. Len(tasks) /\ v # w
  BY <1>1, <1>3 DEF NInv, Queueing, Busy
<1>12. ASSUME NEW v \in Workers, Busy(v)'
       PROVE  \/ /\ v = w /\ r = "running" /\ worker'[w].pc = p /\ worker'[w].task = t
              \/ /\ v # w /\ Busy(v) /\ worker'[v] = worker[v]
                 /\ worker[v].task \in 1 .. Len(tasks)
                 /\ tasks'[worker[v].task] = tasks[worker[v].task]
  <2>1. CASE v = w
    BY <1>1, <1>3, <1>7, <1>12, <2>1 DEF Busy
  <2>2. CASE v # w
    BY <1>6, <1>7, <1>11, <1>12, <2>2 DEF Busy
  <2> QED BY <2>1, <2>2
<1>13. Queueing'
  <2>1. ASSUME NEW u \in 1 .. Len(tasks)
        PROVE  /\ tasks'[u].state = "queued" <=> u > taken'
               /\ tasks'[u].op = "open" => tasks'[u].o \in Outs
    BY <1>1, <1>3, <1>6 DEF NInv, Queueing
  <2>2. ASSUME NEW v \in Workers, Busy(v)'
        PROVE  /\ worker'[v].task \in 1 .. taken'
               /\ TaskOf(v)'.state = "running"
               /\ TaskOf(v)'.n \in 1 .. Capacity
               /\ TaskOf(v)'.op = "seal" => worker'[v].pc \in SealSteps
               /\ TaskOf(v)'.op = "open" => worker'[v].pc \in OpenSteps
    <3>1. CASE v = w /\ r = "running" /\ worker'[w].pc = p /\ worker'[w].task = t
      <4>1. TaskOf(v)'.state = r /\ TaskOf(v)'.n = k.n /\ TaskOf(v)'.op = k.op
        BY <1>2, <1>3, <1>6, <3>1 DEF TaskOf
      <4> QED BY <1>2, <1>3, <1>10, <3>1, <4>1 DEF SealSteps, OpenSteps
    <3>2. CASE /\ v # w /\ Busy(v) /\ worker'[v] = worker[v]
               /\ worker[v].task \in 1 .. Len(tasks)
               /\ tasks'[worker[v].task] = tasks[worker[v].task]
      <4>1. TaskOf(v)' = TaskOf(v) /\ worker[v].task \in 1 .. taken'
        BY <1>1, <1>3, <1>11, <3>2 DEF TaskOf
      <4> QED BY <3>2, <4>1 DEF NInv, Queueing
    <3> QED BY <1>12, <2>2, <3>1, <3>2
  <2>3. ASSUME NEW u \in Workers, NEW v \in Workers, Busy(u)', Busy(v)',
               worker'[u].task = worker'[v].task
        PROVE  u = v
    BY <1>11, <1>12, <2>3 DEF NInv, Queueing
  <2> QED BY <1>6, <2>1, <2>2, <2>3 DEF Queueing
<1>14. OneWriter'
  <2>1. \A u \in 1 .. Len(tasks) : Pending(u)' => Pending(u)
    BY <1>6, <1>11 DEF Pending
  <2> QED BY <1>3, <1>6, <2>1 DEF NInv, OneWriter
<1>15. ASSUME NEW v \in Workers, Busy(v)' PROVE ProgressOf(v)'
  <2>1. CASE v = w /\ r = "running" /\ worker'[w].pc = p /\ worker'[w].task = t
    BY <1>2, <2>1 DEF ProgressOf, ProgressAt
  <2>2. CASE /\ v # w /\ Busy(v) /\ worker'[v] = worker[v]
             /\ worker[v].task \in 1 .. Len(tasks)
             /\ tasks'[worker[v].task] = tasks[worker[v].task]
    BY <2>2 DEF NInv, Progress, ProgressOf, ProgressAt, TaskOf
  <2> QED BY <1>12, <1>15, <2>1, <2>2
<1>16. ASSUME NEW v \in Workers, Busy(v)', TaskOf(v)'.op = "seal" PROVE SealingOf(v)'
  <2>1. CASE v = w /\ r = "running" /\ worker'[w].pc = p /\ worker'[w].task = t
    BY <1>2, <2>1 DEF SealingOf, SealingAt
  <2>2. CASE /\ v # w /\ Busy(v) /\ worker'[v] = worker[v]
             /\ worker[v].task \in 1 .. Len(tasks)
             /\ tasks'[worker[v].task] = tasks[worker[v].task]
    <3>1. TaskOf(v)' = TaskOf(v) /\ FrameOf(v)' = FrameOf(v)
      BY <1>3, <2>2 DEF TaskOf, FrameOf
    <3>2. SealingOf(v)
      BY <1>16, <2>2, <3>1 DEF NInv, Sealing
    <3> QED BY <2>2, <3>1, <3>2 DEF SealingOf, SealingAt
  <2> QED BY <1>12, <1>16, <2>1, <2>2
<1> QED BY <1>8, <1>9, <1>13, <1>14, <1>15, <1>16 DEF NInv, Progress, Sealing

-----------------------------------------------------------------------------
(* The caller.                                                             *)

LEMMA Submitted ==
  ASSUME NInv, NEW e \in Task, tasks' = Append(tasks, e), e.state = "queued",
         e.op = "open" => e.o \in Outs,
         e.op = "seal" => \A t \in DOMAIN tasks :
                           Pending(t) => ~ (tasks[t].op = "seal" /\ tasks[t].f = e.f),
         UNCHANGED <<taken, worker, frame, sealed, processors, master, faults, tampers>>,
         PlainTyped'
  PROVE  NInv'
<1>1. /\ tasks \in Seq(Task) /\ TypeOK /\ taken \in 0 .. Len(tasks) /\ Len(tasks) \in Nat
      /\ DOMAIN tasks = 1 .. Len(tasks)
  BY TypesNow DEF NInv
<1>2. /\ tasks' \in Seq(Task) /\ Len(tasks') = Len(tasks) + 1
      /\ DOMAIN tasks' = 1 .. Len(tasks) + 1
      /\ \A u \in 1 .. Len(tasks) : tasks'[u] = tasks[u]
      /\ tasks'[Len(tasks) + 1] = e
  BY <1>1
<1>3. TypeOK'
  <2>1. taken' \in 0 .. Len(tasks')
    BY <1>1, <1>2
  <2> QED BY <1>1, <1>2, <2>1 DEF TypeOK, Task, PlainTyped, Plain
<1>4. LastWriter' /\ SealsAnswered' /\ OwnIvs' /\ SealedFramesCorrect'
  <2>1. /\ taken' \in Nat /\ taken' >= taken /\ Len(tasks') >= Len(tasks)
        /\ \A u \in Len(tasks) + 1 .. Len(tasks') : tasks'[u].state # "ok"
    BY <1>1, <1>2
  <2> QED BY <1>2, <1>3, <2>1, QueueStep
<1>5. \A v \in Workers : Busy(v) => worker[v].task \in 1 .. Len(tasks) /\ TaskOf(v)' = TaskOf(v)
  BY <1>1, <1>2 DEF NInv, Queueing, TaskOf
<1>6. Queueing'
  <2>1. ASSUME NEW u \in 1 .. Len(tasks) + 1
        PROVE  /\ tasks'[u].state = "queued" <=> u > taken
               /\ tasks'[u].op = "open" => tasks'[u].o \in Outs
    <3>1. CASE u = Len(tasks) + 1
      BY <1>1, <1>2, <3>1
    <3>2. CASE u # Len(tasks) + 1
      <4>1. u \in 1 .. Len(tasks)
        BY <1>1, <3>2
      <4> QED BY <1>1, <1>2, <4>1 DEF NInv, Queueing
    <3> QED BY <3>1, <3>2
  <2>2. \A v \in Workers : Busy(v)' <=> Busy(v)
    BY DEF Busy
  <2> QED BY <1>2, <1>5, <2>1, <2>2 DEF NInv, Queueing
<1>7. OneWriter'
  <2> SUFFICES ASSUME NEW s \in 1 .. Len(tasks) + 1, NEW t \in 1 .. Len(tasks) + 1,
                      Pending(s)', tasks'[s].op = "seal", Pending(t)', tasks'[t].op = "seal",
                      tasks'[s].f = tasks'[t].f
               PROVE  s = t
    BY <1>2 DEF OneWriter
  <2>1. \A u \in 1 .. Len(tasks) : Pending(u)' <=> Pending(u)
    BY <1>2 DEF Pending
  <2>2. CASE s \in 1 .. Len(tasks) /\ t \in 1 .. Len(tasks)
    BY <1>1, <1>2, <2>1, <2>2 DEF NInv, OneWriter
  <2>3. CASE s \in 1 .. Len(tasks) /\ t = Len(tasks) + 1
    BY <1>1, <1>2, <2>1, <2>3
  <2>4. CASE s = Len(tasks) + 1 /\ t \in 1 .. Len(tasks)
    BY <1>1, <1>2, <2>1, <2>4
  <2> QED BY <1>1, <2>2, <2>3, <2>4
<1>8. Progress' /\ Sealing'
  <2>1. ASSUME NEW v \in Workers, Busy(v)' PROVE ProgressOf(v)'
    <3>1. Busy(v) /\ TaskOf(v)' = TaskOf(v) /\ worker'[v] = worker[v]
      BY <1>5, <2>1 DEF Busy
    <3> QED BY <3>1 DEF NInv, Progress, ProgressOf, ProgressAt
  <2>2. ASSUME NEW v \in Workers, Busy(v)', TaskOf(v)'.op = "seal" PROVE SealingOf(v)'
    <3>1. Busy(v) /\ TaskOf(v)' = TaskOf(v) /\ worker'[v] = worker[v]
      BY <1>5, <2>2 DEF Busy
    <3>2. FrameOf(v)' = FrameOf(v)
      BY <3>1 DEF FrameOf
    <3> QED BY <2>2, <3>1, <3>2 DEF NInv, Sealing, SealingOf, SealingAt
  <2> QED BY <2>1, <2>2 DEF Progress, Sealing
<1> QED BY <1>3, <1>4, <1>6, <1>7, <1>8 DEF NInv

LEMMA SubmitStep ==
  ASSUME NInv, NEW f \in Frames, NEW n \in Lens, NEW salt \in Salts,
         SubmitSerialize(f, n, salt) \/ \E o \in Outs : SubmitDeserialize(f, o, n, salt)
  PROVE  NInv'
<1>1. PlainTyped /\ TypeOK
  BY TypesNow DEF NInv, PlainTyped
<1>2. CASE SubmitSerialize(f, n, salt)
  <2> DEFINE e == [op |-> "seal", key |-> get_key(salt), n |-> n, f |-> f, o |-> None,
                   state |-> "queued", seen |-> 0]
  <2>1. master \in Masters /\ tasks' = Append(tasks, e)
    BY <1>1, <1>2 DEF SubmitSerialize, Submit, TypeOK
  <2>2. e \in Task
    BY <2>1, Constants DEF Task, Keys, get_key, States
  <2>3. e.op = "seal" /\ e.state = "queued" /\ e.f = f
    OBVIOUS
  <2> HIDE DEF e
  <2>4. \A t \in DOMAIN tasks : Pending(t) => ~ (tasks[t].op = "seal" /\ tasks[t].f = e.f)
    BY <1>2, <2>3 DEF SubmitSerialize
  <2>5. UNCHANGED <<taken, worker, frame, sealed, processors, master, faults, tampers, out>>
    BY <1>2 DEF SubmitSerialize
  <2>6. PlainTyped'
    BY <1>1, <2>5 DEF PlainTyped
  <2> QED BY <2>1, <2>2, <2>3, <2>4, <2>5, <2>6, Submitted
<1>3. ASSUME NEW o \in Outs, SubmitDeserialize(f, o, n, salt) PROVE NInv'
  <2> DEFINE e == [op |-> "open", key |-> get_key(salt), n |-> n, f |-> f, o |-> o,
                   state |-> "queued", seen |-> 0]
             z == [i \in 0 .. n - 1 |-> Stale]
  <2>1. master \in Masters /\ tasks' = Append(tasks, e)
    BY <1>1, <1>3 DEF SubmitDeserialize, Submit, TypeOK
  <2>2. e \in Task
    BY <2>1, Constants DEF Task, Keys, get_key, States
  <2>3. e.op = "open" /\ e.state = "queued" /\ e.o = o
    OBVIOUS
  <2>4. UNCHANGED <<taken, worker, frame, sealed, processors, master, faults, tampers>>
    BY <1>3 DEF SubmitDeserialize
  <2>5. PlainTyped'
    <3>1. z \in [DOMAIN z -> Plain] /\ out' = [out EXCEPT ![o] = z]
      BY <1>3 DEF SubmitDeserialize, Plain
    <3> HIDE DEF z
    <3>2. ASSUME NEW q \in Outs PROVE out'[q] \in [DOMAIN out'[q] -> Plain]
      BY <1>1, <3>1 DEF PlainTyped
    <3> QED BY <1>1, <3>1, <3>2 DEF PlainTyped
  <2> HIDE DEF e
  <2> QED BY <2>1, <2>2, <2>3, <2>4, <2>5, Submitted
<1> QED BY <1>2, <1>3

\* The processor starts or ends: no worker is busy.
LEMMA NewWorkers ==
  ASSUME NInv, worker' = [w \in Workers |-> NewWorker],
         UNCHANGED <<tasks, taken, frame, out, sealed, faults, tampers>>,
         master' \in Masters \cup {None}, processors' \in Nat
  PROVE  NInv'
<1>1. NewWorker \in Worker /\ TypeOK /\ taken \in Nat
  <2>1. TypeOK /\ taken \in Nat
    BY DEF NInv, TypeOK
  <2>2. 0 \in 0 .. taken
    BY <2>1
  <2> QED BY <2>1, <2>2, FreshContexts DEF NewWorker, Worker, Steps
<1>2. \A w \in Workers : ~ Busy(w)'
  BY DEF Busy, NewWorker
<1>3. TypeOK'
  <2>1. worker' \in [Workers -> Worker]
    BY <1>1
  <2> HIDE DEF NewWorker
  <2> QED BY <1>1, <2>1 DEF TypeOK, Worker
<1>4. Queueing'
  BY <1>2 DEF NInv, Queueing
<1>5. OneWriter' /\ LastWriter' /\ SealsAnswered' /\ OwnIvs'
  BY DEF NInv, OneWriter, Pending, LastWriter, SealsAnswered, OwnIvs
<1>6. Progress' /\ Sealing'
  BY <1>2 DEF Progress, Sealing
<1>7. SealedFramesCorrect'
  <2>1. ASSUME NEW f \in Frames PROVE CorrectFrame(f)'
    BY SameFrame
  <2> QED BY <2>1 DEF SealedFramesCorrect, CorrectFrame
<1> QED BY <1>3, <1>4, <1>5, <1>6, <1>7 DEF NInv

\* A change of frame f leaves it a buffer that no seal vouches for.
LEMMA Changed ==
  ASSUME TypeOK, NEW f \in Frames, NEW field, Tamper(f, field), field \in Tampers
  PROVE  /\ frame' \in [Frames -> Buffer] /\ frame'[f].by = 0
         /\ \A g \in Frames \ {f} : frame'[g] = frame[g]
<1> DEFINE b == frame[f]
           n == b.used
           g == CASE field = "ver" -> [frame[f] EXCEPT !.ver = 2]
                  [] field = "iv"  -> [frame[f] EXCEPT !.iv = 0]
                  [] field = "ct"  -> [frame[f] EXCEPT !.cell[0] = Junk]
                  [] field = "tag" -> [frame[f] EXCEPT !.cell[n] = NoTag]
           e == [g EXCEPT !.by = 0]
<1>1. b \in Buffer /\ n \in 0 .. Capacity /\ 0 \in 0 .. Capacity /\ taken \in Nat
  BY TypesNow, Constants DEF Buffer, TypeOK
<1>2. frame' = [frame EXCEPT ![f] = e]
  BY DEF Tamper
<1>3. Junk \in Cells /\ NoTag \in Cells
  BY FreshContexts DEF Junk, Chunk, Cells, Chunks, NullKeys
<1>4. ASSUME NEW i \in 0 .. Capacity, NEW x \in Cells
      PROVE  [b EXCEPT !.cell[i] = x] \in Buffer
  <2> DEFINE d == [b.cell EXCEPT ![i] = x]
  <2>1. d \in [0 .. Capacity -> Cells]
    BY <1>1 DEF Buffer
  <2>2. [b EXCEPT !.cell[i] = x] = [b EXCEPT !.cell = d]
    OBVIOUS
  <2> HIDE DEF d
  <2> QED BY <1>1, <2>1, <2>2 DEF Buffer
<1>5. g \in Buffer
  <2>1. field \in {"ver", "iv", "ct", "tag"}
    BY ConstantsAssumption
  <2>2. CASE field = "ver"
    BY <1>1, <2>2 DEF Buffer
  <2>3. CASE field = "iv"
    BY <1>1, <2>3 DEF Buffer
  <2>4. CASE field = "ct"
    <3>1. g = [b EXCEPT !.cell[0] = Junk]
      BY <2>4
    <3> QED BY <1>1, <1>3, <1>4, <3>1
  <2>5. CASE field = "tag"
    <3>1. g = [b EXCEPT !.cell[n] = NoTag]
      BY <2>5
    <3> QED BY <1>1, <1>3, <1>4, <3>1
  <2> QED BY <2>1, <2>2, <2>3, <2>4, <2>5
<1> HIDE DEF g
<1>6. e \in Buffer /\ e.by = 0
  BY <1>1, <1>5 DEF Buffer
<1> HIDE DEF e
<1> QED BY <1>2, <1>6, FrameSet

LEMMA TamperStep ==
  ASSUME NInv, NEW f \in Frames, NEW field \in Tampers, Tamper(f, field)
  PROVE  NInv'
<1>1. TypeOK /\ tampers \in Nat /\ taken \in 0 .. Len(tasks) /\ tasks \in Seq(Task)
  BY TypesNow DEF NInv, TypeOK
<1>2. /\ frame' \in [Frames -> Buffer] /\ frame'[f].by = 0
      /\ \A g \in Frames \ {f} : frame'[g] = frame[g]
  BY <1>1, Changed
<1>3. /\ UNCHANGED <<master, processors, tasks, taken, worker, out, sealed, faults>>
      /\ tampers' = tampers - 1 /\ tampers > 0
      /\ \A t \in DOMAIN tasks : Pending(t) => ~ (tasks[t].op = "seal" /\ tasks[t].f = f)
  BY DEF Tamper
<1>4. TypeOK'
  BY <1>1, <1>2, <1>3 DEF TypeOK, Buffer
<1>5. Queueing' /\ OneWriter' /\ SealsAnswered' /\ OwnIvs'
  BY <1>3 DEF NInv, Queueing, OneWriter, Pending, SealsAnswered, OwnIvs, Busy, TaskOf
<1>6. LastWriter'
  BY <1>2, <1>3 DEF NInv, LastWriter
<1>7. Progress'
  BY <1>3 DEF NInv, Progress, ProgressOf, ProgressAt, Busy, TaskOf
<1>8. Sealing'
  <2> SUFFICES ASSUME NEW v \in Workers, Busy(v)', TaskOf(v)'.op = "seal" PROVE SealingOf(v)'
    BY DEF Sealing
  <2>1. Busy(v) /\ TaskOf(v)' = TaskOf(v) /\ TaskOf(v).op = "seal" /\ worker'[v] = worker[v]
    BY <1>3 DEF Busy, TaskOf
  <2>2. TaskOf(v).f \in Frames \ {f}
    <3>1. /\ worker[v].task \in 1 .. Len(tasks) /\ TaskOf(v) = tasks[worker[v].task]
          /\ TaskOf(v).state = "running" /\ TaskOf(v).f \in Frames
      BY <2>1, Working DEF TaskOf
    <3>2. worker[v].task \in DOMAIN tasks /\ Pending(worker[v].task)
      BY <1>1, <3>1 DEF Pending
    <3> QED BY <1>3, <2>1, <3>1, <3>2
  <2>3. FrameOf(v)' = FrameOf(v)
    BY <1>2, <2>1, <2>2 DEF FrameOf
  <2> QED BY <2>1, <2>3 DEF NInv, Sealing, SealingOf, SealingAt
<1>9. SealedFramesCorrect'
  <2>1. ASSUME NEW g \in Frames PROVE CorrectFrame(g)'
    <3>1. CASE g = f
      BY <1>2, <3>1 DEF CorrectFrame
    <3>2. CASE g # f
      BY <1>2, <1>3, <3>2, SameFrame
    <3> QED BY <3>1, <3>2
  <2> QED BY <2>1 DEF SealedFramesCorrect, CorrectFrame
<1> QED BY <1>4, <1>5, <1>6, <1>7, <1>8, <1>9 DEF NInv

LEMMA CallerStep ==
  ASSUME NInv, Caller
  PROVE  NInv'
<1>1. TypeOK
  BY DEF NInv
<1>2. CASE Close
  <2>1. master' \in Masters \cup {None} /\ processors' \in Nat
    BY <1>1, <1>2 DEF Close, TypeOK
  <2> QED BY <1>2, <2>1, NewWorkers DEF Close
<1>3. ASSUME NEW bits \in AesBits, NEW path \in Masters \cup {None}, Create(bits, path)
      PROVE  NInv'
  <2>1. master' \in Masters \cup {None} /\ processors' \in Nat
    BY <1>1, <1>3 DEF Create, TypeOK
  <2> QED BY <1>3, <2>1, NewWorkers DEF Create
<1> QED BY <1>2, <1>3, SubmitStep, TamperStep DEF Caller

LEMMA WorkStep ==
  ASSUME NInv, NEW w \in Workers, Work(w), UNCHANGED <<master, processors>>
  PROVE  NInv'
BY TakeStep, VersionStep, ContextStep, RandStep, InitStep, EncryptUpdateStep, EncryptFinalStep,
   GetTagStep, SetTagStep, DecryptUpdateStep, DecryptFinalStep DEF Work

LEMMA StutterStep == NInv /\ UNCHANGED vars => NInv'
<1> SUFFICES ASSUME NInv, UNCHANGED vars PROVE NInv'
  OBVIOUS
<1>1. SealedFramesCorrect'
  <2>1. ASSUME NEW g \in Frames PROVE CorrectFrame(g)'
    BY SameFrame DEF vars
  <2> QED BY <2>1 DEF SealedFramesCorrect, CorrectFrame
<1>2. TypeOK' /\ Queueing' /\ OneWriter'
  BY DEF vars, NInv, TypeOK, Queueing, OneWriter, Pending, Busy, TaskOf
<1>3. Progress' /\ Sealing' /\ LastWriter' /\ SealsAnswered' /\ OwnIvs'
  BY DEF vars, NInv, Progress, Sealing, LastWriter, SealsAnswered, OwnIvs, ProgressOf, ProgressAt,
         SealingOf, SealingAt, Busy, TaskOf, FrameOf
<1> QED BY <1>1, <1>2, <1>3 DEF NInv

LEMMA InitNInv == Init => NInv
<1> SUFFICES ASSUME Init PROVE NInv
  OBVIOUS
<1>1. \A w \in Workers : ~ Busy(w)
  BY DEF Init, NewWorker, Busy
<1>2. DOMAIN tasks = {} /\ sealed = {} /\ \A f \in Frames : frame[f].by = 0
  BY DEF Init
<1> QED BY <1>1, <1>2, InitTypes DEF NInv, Queueing, OneWriter, Progress, Sealing, LastWriter,
           SealsAnswered, OwnIvs, SealedFramesCorrect

LEMMA NInvStep == NInv /\ [Next]_vars => NInv'
<1> SUFFICES ASSUME NInv, [Next]_vars PROVE NInv'
  OBVIOUS
<1> QED BY CallerStep, WorkStep, StutterStep DEF Next

\* The strengthening is inductive.
THEOREM NativeInvariance == Spec => []NInv
BY InitNInv, NInvStep, PTL DEF Spec

\* The variables keep their types, and a frame's length never exceeds its
\* buffer.
THEOREM TypeCorrect == Spec => []TypeOK
<1>1. NInv => TypeOK
  BY DEF NInv
<1> QED BY <1>1, NativeInvariance, PTL

\* Two plaintexts are never encrypted under one key and IV.
THEOREM NonceUniqueness == Spec => []NoncesUnique
<1>1. NInv => NoncesUnique
  <2> SUFFICES ASSUME NInv, NEW x \in sealed, NEW y \in sealed, x.key = y.key, x.iv = y.iv
               PROVE  x.pt = y.pt
    BY DEF NoncesUnique
  <2> QED BY DEF NInv, OwnIvs
<1> QED BY <1>1, NativeInvariance, PTL

\* An answered seal's frame is the frame GCM prescribes.
THEOREM FramesCorrect == Spec => []SealedFramesCorrect
<1>1. NInv => SealedFramesCorrect
  BY DEF NInv
<1> QED BY <1>1, NativeInvariance, PTL
=============================================================================

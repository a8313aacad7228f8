------------------------ MODULE NativeEndpointProofs ------------------------
(***************************************************************************)
(* The opens of the CPU path, for any number of workers, tasks, buffers,   *)
(* keys and failures: an intact frame opens, and the whole path implements *)
(* AeadEndpoint.  A tag is only ever made by a seal that succeeds, so an   *)
(* open whose tag matches has read that seal's frame, chunk by chunk,      *)
(* whatever was written into the buffer meanwhile.                         *)
(***************************************************************************)
EXTENDS NativeSerdeProofs

OkSeals == {s \in DOMAIN tasks : tasks[s].op = "seal" /\ tasks[s].state = "ok"}

-----------------------------------------------------------------------------
(* Opens of an intact frame.                                               *)

\* The seal that an open has seen is over, and made what the open asks for.
SeenSeals ==
  \A t \in DOMAIN tasks : tasks[t].seen # 0 =>
    LET s == tasks[t].seen
    IN  /\ tasks[t].op = "open" /\ s \in OkSeals
        /\ tasks[s].key = tasks[t].key /\ tasks[s].n = tasks[t].n

\* What open k in progress has read of frame b, if that is the one it saw.
OpeningAt(p, c, k, b) ==
  k.seen # 0 /\ b.by = k.seen =>
    /\ p \in {"settag", "update", "final"} => c.iv = k.seen
    /\ p \in {"update", "final"} =>
         /\ c.tag = TagOf(k.seen)
         /\ \A i \in 1 .. Len(c.cts) : c.cts[i] = CtOf(k.seen)[i]

Opening ==
  \A w \in Workers : Busy(w) /\ TaskOf(w).op = "open" =>
    OpeningAt(worker[w].pc, worker[w].ctx, TaskOf(w), FrameOf(w))

ContextsLive ==
  /\ faults <= MaxFaults
  /\ faults = MaxFaults => \A w \in Workers : worker[w].ctx.state # "null"

-----------------------------------------------------------------------------
(* Authenticity.                                                           *)

\* A tag anywhere is that of a seal that succeeded.
Known(x) == x \in Chunks \/ x = NoTag \/ \E s \in OkSeals : x = TagOf(s)

TagsKnown ==
  /\ \A f \in Frames, i \in 0 .. Capacity : Known(frame[f].cell[i])
  /\ \A w \in Workers : Known(worker[w].ctx.tag)

-----------------------------------------------------------------------------
(* The plaintext buffers.                                                  *)

Latest(t, o) ==
  /\ t \in DOMAIN tasks /\ tasks[t].o = o
  /\ \A u \in DOMAIN tasks : tasks[u].o = o => u <= t

\* Only the latest task of a buffer may be unanswered.
OneReader ==
  /\ \A t \in DOMAIN tasks : tasks[t].o \in Outs => tasks[t].op = "open"
  /\ \A t \in DOMAIN tasks : tasks[t].o \in Outs /\ Pending(t) => Latest(t, tasks[t].o)
  /\ \A o \in Outs : (\E t \in DOMAIN tasks : tasks[t].o = o) =>
                     \E t \in DOMAIN tasks : Latest(t, o)

\* What an open of n chunks at step p with context c has put into buffer b.
BufferAt(p, c, b, n) ==
  /\ DOMAIN b = 0 .. n - 1
  /\ \A i \in 0 .. n - 1 :
       b[i] = IF p \in {"update", "final"} /\ i < Len(c.cts)
              THEN Decrypted(c.key, c.iv, c.cts[i + 1], i) ELSE Stale

Waiting ==
  \A t \in DOMAIN tasks : tasks[t].op = "open" /\ tasks[t].state = "queued" =>
    out[tasks[t].o] = [i \in 0 .. tasks[t].n - 1 |-> Stale]

Reading ==
  \A w \in Workers : Busy(w) /\ TaskOf(w).op = "open" =>
    BufferAt(worker[w].pc, worker[w].ctx, out[TaskOf(w).o], TaskOf(w).n)

Wiped(b) == \A i \in DOMAIN b : b[i].kind # "decrypted"

Accepted(t, s) ==
  /\ tasks[t].n \in Nat \ {0} /\ s \in OkSeals
  /\ tasks[s].key = tasks[t].key /\ Yields(t, s)

\* What a buffer holds when its latest open is answered.
Answers ==
  \A o \in Outs, t \in DOMAIN tasks : Latest(t, o) /\ ~ Pending(t) =>
    IF tasks[t].state = "ok" THEN \E s \in OkSeals : Accepted(t, s) ELSE Wiped(out[o])

EInv ==
  /\ NInv
  /\ SeenSeals /\ Opening /\ ContextsLive /\ IntactFramesOpen
  /\ TagsKnown
  /\ OneReader /\ Waiting /\ Reading /\ Answers

-----------------------------------------------------------------------------
(* What a step of a worker does.                                           *)

Effects(w, p, r, c) ==
  /\ Moved(w, p, IF r = "running" THEN worker[w].task ELSE 0, c)
  /\ p = "idle" <=> r # "running"
  /\ Outcome(worker[w].task, r)
  /\ UNCHANGED Rest
  /\ faults' \in Nat /\ faults' <= faults
  /\ c.state = "null" => worker[w].ctx.state = "null" \/ faults' < faults

SealEffects(w, r, c) ==
  LET t == worker[w].task
      k == TaskOf(w)
      b == FrameOf(w)
      d == frame'[k.f]
  IN  /\ k.op = "seal"
      /\ r \in {"running", "ok", "error"}
      /\ out' = out
      /\ \A f \in Frames \ {k.f} : frame'[f] = frame[f]
      /\ d # b => d.by = t
      /\ \A i \in 0 .. Capacity :
           \/ d.cell[i] = b.cell[i]
           \/ d.cell[i] \in Chunks
           \/ r = "ok" /\ d.cell[i] = TagOf(t)
      /\ c.tag \in {NoTag, worker[w].ctx.tag}

OpenEffects(w, p, r, c) ==
  LET k == TaskOf(w)
      b == FrameOf(w)
      d == worker[w].ctx
  IN  /\ k.op = "open"
      /\ frame' = frame
      /\ \A o \in Outs \ {k.o} : out'[o] = out[o]
      /\ c.tag \in {NoTag, d.tag, b.cell[k.n]}
      /\ \/ r = "running" /\ BufferAt(p, c, out'[k.o], k.n) /\ OpeningAt(p, c, k, b)
         \/ /\ r \in {"error", "invalid_tag"}
            /\ Wiped(out'[k.o])
            /\ faults' = MaxFaults /\ k.seen # 0 => b.by # k.seen
         \/ r = "ok" /\ worker[w].pc = "final" /\ authentic(d) /\ out' = out

Does(w) ==
  \E p, r, c : Effects(w, p, r, c) /\ (SealEffects(w, r, c) \/ OpenEffects(w, p, r, c))

LEMMA AnswerEffects ==
  ASSUME NInv, NEW w \in Workers, Busy(w), NEW r \in Finished, Return(w, r), UNCHANGED Rest,
         faults' \in Nat, faults' <= faults
  PROVE  Effects(w, "idle", r, worker[w].ctx)
<1>1. TypeOK /\ worker[w].task \in 1 .. Len(tasks)
  BY Working
<1>2. Moved(w, "idle", 0, worker[w].ctx)
  BY <1>1, Freed DEF Return
<1>3. tasks' = [tasks EXCEPT ![worker[w].task].state = r] /\ r \in States /\ r # "running"
  BY DEF Return, Finished, States
<1>4. Outcome(worker[w].task, r)
  BY <1>1, <1>3, Recorded
<1> QED BY <1>2, <1>3, <1>4 DEF Effects

LEMMA AdvanceEffects ==
  ASSUME NInv, NEW w \in Workers, Busy(w), NEW p, NEW c, p # "idle",
         Moved(w, p, worker[w].task, c), tasks' = tasks, UNCHANGED Rest, faults' = faults,
         c.state = "null" => worker[w].ctx.state = "null"
  PROVE  Effects(w, p, "running", c)
<1>1. TypeOK /\ worker[w].task \in 1 .. Len(tasks) /\ tasks[worker[w].task].state = "running"
      /\ faults \in Nat
  BY Working
<1>2. Outcome(worker[w].task, "running")
  BY <1>1, Kept
<1> QED BY <1>1, <1>2 DEF Effects

LEMMA CallEffects ==
  ASSUME NInv, NEW w \in Workers, Busy(w), NEW op, NEW pc, NEW c \in Contexts,
         NEW p \in Steps, p # "idle",
         EvpCall(w, op, pc, c, p), UNCHANGED <<master, processors>>,
         c.state = worker[w].ctx.state
  PROVE  /\ frame' = frame /\ out' = out
         /\ \/ Effects(w, "idle", "error", worker[w].ctx) /\ faults' < faults
            \/ Effects(w, p, "running", c)
<1>1. TypeOK /\ faults \in Nat
  BY Working
<1>2. UNCHANGED Rest /\ frame' = frame /\ out' = out
  BY DEF EvpCall, Rest
<1>3. CASE Fault(pc) /\ Return(w, "error")
  <2>1. faults' \in Nat /\ faults' < faults
    BY <1>1, <1>3 DEF Fault
  <2>2. "error" \in Finished /\ faults' <= faults
    BY <1>1, <2>1 DEF Finished
  <2> QED BY <1>2, <1>3, <2>1, <2>2, AnswerEffects
<1>4. CASE /\ worker' = [worker EXCEPT ![w].ctx = c, ![w].pc = p]
           /\ UNCHANGED <<tasks, faults>>
  <2>1. Moved(w, p, worker[w].task, c)
    BY <1>1, <1>2, <1>4, WentWith
  <2> QED BY <1>2, <1>4, <2>1, AdvanceEffects
<1> QED BY <1>2, <1>3, <1>4 DEF EvpCall

\* A seal that leaves its frame alone.
LEMMA Untouched ==
  ASSUME NEW w \in Workers, NEW r \in {"running", "error"}, NEW c,
         TaskOf(w).op = "seal", frame' = frame, out' = out, c.tag \in {NoTag, worker[w].ctx.tag}
  PROVE  SealEffects(w, r, c)
BY DEF SealEffects, FrameOf

\* An open that is refused before it decrypts anything.
LEMMA RefusedEarly ==
  ASSUME EInv, NEW w \in Workers, Busy(w), TaskOf(w).op = "open",
         worker[w].pc \in {"version", "context", "init", "settag"},
         frame' = frame, out' = out, NEW r \in {"error", "invalid_tag"},
         faults' = MaxFaults /\ TaskOf(w).seen # 0 => FrameOf(w).by # TaskOf(w).seen
  PROVE  OpenEffects(w, "idle", r, worker[w].ctx)
<1>1. BufferAt(worker[w].pc, worker[w].ctx, out[TaskOf(w).o], TaskOf(w).n)
  BY DEF EInv, Reading
<1>2. Wiped(out'[TaskOf(w).o])
  BY <1>1 DEF BufferAt, Wiped, Stale
<1> QED BY <1>2 DEF OpenEffects

\* The frame an open has seen is the one GCM prescribes.
LEMMA SeenFrame ==
  ASSUME EInv, NEW f \in Frames, NEW s \in OkSeals, frame[f].by = s, s # 0
  PROVE  /\ frame[f].ver = 1 /\ frame[f].iv = s /\ frame[f].used = tasks[s].n
         /\ \A i \in 1 .. tasks[s].n : frame[f].cell[i - 1] = CtOf(s)[i]
         /\ frame[f].cell[tasks[s].n] = TagOf(s)
BY DEF EInv, NInv, SealedFramesCorrect, OkSeals

LEMMA SeenByOpen ==
  ASSUME EInv, NEW w \in Workers, Busy(w), NEW s, s = TaskOf(w).seen, s # 0,
         FrameOf(w).by = s
  PROVE  LET k == TaskOf(w)
             b == FrameOf(w)
         IN  /\ b.ver = 1 /\ b.iv = s /\ tasks[s].n = k.n /\ tasks[s].key = k.key
             /\ \A i \in 1 .. k.n : b.cell[i - 1] = CtOf(s)[i]
             /\ b.cell[k.n] = TagOf(s)
<1>1. /\ TaskOf(w) = tasks[worker[w].task] /\ worker[w].task \in DOMAIN tasks
      /\ TaskOf(w).f \in Frames /\ FrameOf(w) = frame[TaskOf(w).f]
  <2>1. worker[w].task \in 1 .. Len(tasks) /\ TaskOf(w).f \in Frames
        /\ FrameOf(w) = frame[TaskOf(w).f] /\ TaskOf(w) = tasks[worker[w].task] /\ NInv
    BY Working DEF EInv
  <2> QED BY <2>1 DEF NInv, TypeOK
<1>2. s \in OkSeals /\ tasks[s].n = TaskOf(w).n /\ tasks[s].key = TaskOf(w).key
  BY <1>1 DEF EInv, SeenSeals
<1> QED BY <1>1, <1>2, SeenFrame

LEMMA VersionDoes ==
  ASSUME EInv, NEW w \in Workers, Version(w), UNCHANGED <<master, processors>>
  PROVE  Busy(w) /\ Does(w)
<1> DEFINE c == worker[w].ctx
           k == TaskOf(w)
<1>1. Busy(w) /\ worker[w].pc = "version" /\ k.op = "open"
  BY AtCall DEF Version
<1>2. /\ UNCHANGED Rest /\ frame' = frame /\ out' = out /\ faults' = faults /\ NInv /\ TypeOK
      /\ faults \in Nat
  BY <1>1, Working DEF EInv, Version, Rest
<1>3. CASE Goto(w, "context")
  <2>1. Moved(w, "context", worker[w].task, c)
    BY <1>2, <1>3, Went DEF Goto, Steps
  <2>2. Effects(w, "context", "running", c)
    BY <1>1, <1>2, <1>3, <2>1, AdvanceEffects DEF Goto
  <2>3. BufferAt("context", c, out[k.o], k.n)
    BY <1>1 DEF EInv, Reading, BufferAt
  <2>4. OpeningAt("context", c, k, FrameOf(w))
    BY DEF OpeningAt
  <2>5. OpenEffects(w, "context", "running", c)
    BY <1>1, <1>2, <2>3, <2>4 DEF OpenEffects
  <2> QED BY <1>1, <2>2, <2>5 DEF Does
<1>4. CASE FrameOf(w).ver # 1 /\ Return(w, "error")
  <2>1. Effects(w, "idle", "error", c)
    BY <1>1, <1>2, <1>4, AnswerEffects DEF Finished
  <2>2. k.seen # 0 => FrameOf(w).by # k.seen
    BY <1>1, <1>4, SeenByOpen
  <2>3. OpenEffects(w, "idle", "error", c)
    BY <1>1, <1>2, <2>2, RefusedEarly
  <2> QED BY <1>1, <2>1, <2>3 DEF Does
<1> QED BY <1>3, <1>4 DEF Version, TaskOf, FrameOf

LEMMA ContextDoes ==
  ASSUME EInv, NEW w \in Workers, Context(w), UNCHANGED <<master, processors>>
  PROVE  Busy(w) /\ Does(w)
<1> DEFINE c == worker[w].ctx
           k == TaskOf(w)
           p == IF At(w, {"seal"}, "context") THEN "rand" ELSE "init"
<1>1. Busy(w) /\ worker[w].pc = "context" /\ k.op \in {"seal", "open"}
  BY AtCall DEF Context
<1>2. /\ UNCHANGED Rest /\ frame' = frame /\ out' = out /\ NInv /\ TypeOK /\ faults \in Nat
      /\ faults <= MaxFaults
  BY <1>1, Working DEF EInv, ContextsLive, Context, Rest
<1>3. CASE /\ worker' = [worker EXCEPT ![w].ctx = Reset, ![w].pc = p]
           /\ UNCHANGED <<tasks, faults>>
  <2>1. p \in {"rand", "init"} /\ p \in Steps
    BY DEF Steps
  <2> HIDE DEF p
  <2>2. Moved(w, p, worker[w].task, Reset)
    BY <1>2, <1>3, <2>1, FreshContexts, WentWith
  <2>3. Reset.state # "null" /\ Reset.tag = NoTag
    BY DEF Reset
  <2>4. Effects(w, p, "running", Reset)
    BY <1>1, <1>2, <1>3, <2>1, <2>2, <2>3, AdvanceEffects
  <2>5. CASE k.op = "seal"
    <3>1. SealEffects(w, "running", Reset)
      BY <1>2, <2>3, <2>5, Untouched
    <3> QED BY <1>1, <2>4, <3>1 DEF Does
  <2>6. CASE k.op = "open"
    <3>1. BufferAt(p, Reset, out[k.o], k.n)
      BY <1>1, <2>1, <2>6 DEF EInv, Reading, BufferAt
    <3>2. OpeningAt(p, Reset, k, FrameOf(w))
      BY <2>1 DEF OpeningAt
    <3>3. OpenEffects(w, p, "running", Reset)
      BY <1>2, <2>3, <2>6, <3>1, <3>2 DEF OpenEffects
    <3> QED BY <1>1, <2>4, <3>3 DEF Does
  <2> QED BY <1>1, <2>5, <2>6
<1>4. ASSUME NEW d, Effects(w, "idle", "error", d), d.tag = c.tag,
             faults' = MaxFaults => faults = MaxFaults /\ FALSE
      PROVE  Does(w)
  <2>1. CASE k.op = "seal"
    <3>1. SealEffects(w, "error", d)
      BY <1>2, <1>4, <2>1, Untouched
    <3> QED BY <1>4, <3>1 DEF Does
  <2>2. CASE k.op = "open"
    <3>1. OpenEffects(w, "idle", "error", c)
      BY <1>1, <1>2, <1>4, <2>2, RefusedEarly
    <3>2. OpenEffects(w, "idle", "error", d)
      BY <1>4, <3>1 DEF OpenEffects
    <3> QED BY <1>4, <3>2 DEF Does
  <2> QED BY <1>1, <2>1, <2>2
<1>5. CASE Fault("reset") /\ Return(w, "error")
  <2>1. faults' \in Nat /\ faults' <= faults /\ faults' # MaxFaults
    BY <1>2, <1>5, ConstantsAssumption DEF Fault
  <2>2. Effects(w, "idle", "error", c)
    BY <1>1, <1>2, <1>5, <2>1, AnswerEffects DEF Finished
  <2> QED BY <1>1, <1>4, <2>1, <2>2
<1>6. CASE /\ Fault("new")
           /\ worker' = [worker EXCEPT ![w].pc = "idle", ![w].task = 0,
                                      ![w].ctx.state = "null"]
           /\ tasks' = [tasks EXCEPT ![worker[w].task].state = "error"]
  <2>1. faults' \in Nat /\ faults' < faults /\ faults' <= faults /\ faults' # MaxFaults
    BY <1>2, <1>6, ConstantsAssumption DEF Fault
  <2>2. PICK d : Moved(w, "idle", 0, d) /\ d.tag = c.tag
    BY <1>2, <1>6, Buried
  <2>3. Outcome(worker[w].task, "error")
    BY <1>1, <1>2, <1>6, Working, Recorded DEF States
  <2>4. Effects(w, "idle", "error", d)
    BY <1>2, <2>1, <2>2, <2>3 DEF Effects
  <2> QED BY <1>1, <1>4, <2>1, <2>2, <2>4
<1>7. CASE c.state = "null" /\ Return(w, "error") /\ UNCHANGED faults
  <2>1. faults # MaxFaults
    BY <1>7 DEF EInv, ContextsLive
  <2>2. Effects(w, "idle", "error", c)
    BY <1>1, <1>2, <1>7, AnswerEffects DEF Finished
  <2> QED BY <1>1, <1>4, <1>7, <2>1, <2>2
<1> QED BY <1>3, <1>5, <1>6, <1>7 DEF Context

LEMMA InitDoes ==
  ASSUME EInv, NEW w \in Workers, InitSeal(w) \/ InitOpen(w), UNCHANGED <<master, processors>>
  PROVE  Busy(w) /\ Does(w)
<1> DEFINE c == worker[w].ctx
           k == TaskOf(w)
           b == FrameOf(w)
<1>1. Busy(w) /\ worker[w].pc = "init" /\ NInv
  BY AtCall DEF InitSeal, InitOpen, EvpCall, EInv
<1>2. /\ keyed(w) \in Contexts /\ keyed(w).key = k.key /\ keyed(w).iv = b.iv
      /\ keyed(w).tag = c.tag /\ keyed(w).state = c.state
  BY <1>1, Keyed
<1>3. faults <= MaxFaults /\ MaxFaults \in Nat /\ faults \in Nat
  BY <1>1, Working, ConstantsAssumption DEF EInv, ContextsLive
<1>4. CASE InitSeal(w)
  <2>1. k.op = "seal" /\ EvpCall(w, {"seal"}, "init", keyed(w), "update")
    BY <1>4, AtCall DEF InitSeal, EvpCall
  <2>2. "update" \in Steps /\ "update" # "idle"
    BY DEF Steps
  <2>3. /\ frame' = frame /\ out' = out
        /\ \/ Effects(w, "idle", "error", c) /\ faults' < faults
           \/ Effects(w, "update", "running", keyed(w))
    BY <1>1, <1>2, <2>1, <2>2, CallEffects
  <2>4. SealEffects(w, "error", c) /\ SealEffects(w, "running", keyed(w))
    BY <1>2, <2>1, <2>3, Untouched
  <2> QED BY <1>1, <2>3, <2>4 DEF Does
<1>5. CASE InitOpen(w)
  <2>1. k.op = "open" /\ EvpCall(w, {"open"}, "init", keyed(w), "settag")
    BY <1>5, AtCall DEF InitOpen, EvpCall
  <2>2. "settag" \in Steps /\ "settag" # "idle"
    BY DEF Steps
  <2>3. /\ frame' = frame /\ out' = out
        /\ \/ Effects(w, "idle", "error", c) /\ faults' < faults
           \/ Effects(w, "settag", "running", keyed(w))
    BY <1>1, <1>2, <2>1, <2>2, CallEffects
  <2>4. CASE Effects(w, "idle", "error", c) /\ faults' < faults
    <3>1. faults' # MaxFaults
      BY <1>3, <2>4 DEF Effects
    <3>2. OpenEffects(w, "idle", "error", c)
      BY <1>1, <2>1, <2>3, <3>1, RefusedEarly
    <3> QED BY <1>1, <2>4, <3>2 DEF Does
  <2>5. CASE Effects(w, "settag", "running", keyed(w))
    <3>1. BufferAt("settag", keyed(w), out[k.o], k.n)
      BY <1>1, <2>1 DEF EInv, Reading, BufferAt
    <3>2. OpeningAt("settag", keyed(w), k, b)
      <4>1. k.seen # 0 /\ b.by = k.seen => b.iv = k.seen
        BY <1>1, SeenByOpen
      <4> QED BY <1>2, <4>1 DEF OpeningAt
    <3>3. OpenEffects(w, "settag", "running", keyed(w))
      BY <1>2, <2>1, <2>3, <3>1, <3>2 DEF OpenEffects
    <3> QED BY <1>1, <2>5, <3>3 DEF Does
  <2> QED BY <2>3, <2>4, <2>5
<1> QED BY <1>4, <1>5

LEMMA SetTagDoes ==
  ASSUME EInv, NEW w \in Workers, SetTag(w), UNCHANGED <<master, processors>>
  PROVE  Busy(w) /\ Does(w)
<1> DEFINE c == worker[w].ctx
           k == TaskOf(w)
           b == FrameOf(w)
           x == [c EXCEPT !.tag = b.cell[k.n]]
<1>1. EvpCall(w, {"open"}, "settag", x, "update")
  BY DEF SetTag, TaskOf, FrameOf
<1> HIDE DEF x
<1>2. Busy(w) /\ worker[w].pc = "settag" /\ k.op = "open" /\ NInv
  BY <1>1, AtCall DEF EvpCall, EInv
<1>3. /\ x \in Contexts /\ x.key = c.key /\ x.iv = c.iv /\ x.cts = c.cts /\ x.state = c.state
      /\ x.tag = b.cell[k.n]
  BY <1>2, Tagged DEF x
<1>4. /\ faults <= MaxFaults /\ MaxFaults \in Nat /\ faults \in Nat /\ c.cts = <<>>
      /\ k.n \in Nat
  <2>1. ProgressAt("settag", c, k) /\ faults \in Nat /\ k.n \in Nat
    BY <1>2, Working
  <2> QED BY <2>1, ConstantsAssumption DEF EInv, ContextsLive, ProgressAt
<1>5. /\ frame' = frame /\ out' = out
      /\ \/ Effects(w, "idle", "error", c) /\ faults' < faults
         \/ Effects(w, "update", "running", x)
  <2>1. "update" \in Steps /\ "update" # "idle"
    BY DEF Steps
  <2> QED BY <1>1, <1>2, <1>3, <2>1, CallEffects
<1>6. CASE Effects(w, "idle", "error", c) /\ faults' < faults
  <2>1. faults' # MaxFaults
    BY <1>4, <1>6 DEF Effects
  <2>2. OpenEffects(w, "idle", "error", c)
    BY <1>2, <1>5, <2>1, RefusedEarly
  <2> QED BY <1>2, <1>6, <2>2 DEF Does
<1>7. CASE Effects(w, "update", "running", x)
  <2>1. BufferAt("settag", c, out[k.o], k.n)
    BY <1>2 DEF EInv, Reading
  <2>2. Len(x.cts) = 0
    BY <1>3, <1>4
  <2>3. BufferAt("update", x, out[k.o], k.n)
    BY <1>4, <2>1, <2>2 DEF BufferAt
  <2>4. OpeningAt("settag", c, k, b)
    BY <1>2 DEF EInv, Opening
  <2>5. OpeningAt("update", x, k, b)
    <3>1. k.seen # 0 /\ b.by = k.seen => b.cell[k.n] = TagOf(k.seen)
      BY <1>2, SeenByOpen
    <3> QED BY <1>3, <2>2, <2>4, <3>1 DEF OpeningAt
  <2>6. OpenEffects(w, "update", "running", x)
    BY <1>2, <1>3, <1>5, <2>3, <2>5 DEF OpenEffects
  <2> QED BY <1>2, <1>7, <2>6 DEF Does
<1> QED BY <1>5, <1>6, <1>7

LEMMA EncryptFinalDoes ==
  ASSUME EInv, NEW w \in Workers, EncryptFinal(w), UNCHANGED <<master, processors>>
  PROVE  Busy(w) /\ Does(w)
<1> DEFINE c == worker[w].ctx
<1>1. Busy(w) /\ TaskOf(w).op = "seal" /\ EvpCall(w, {"seal"}, "final", c, "gettag") /\ NInv
  BY AtCall DEF EncryptFinal, EvpCall, EInv
<1>2. c \in Contexts /\ "gettag" \in Steps /\ "gettag" # "idle"
  BY <1>1, Working DEF Steps
<1>3. /\ frame' = frame /\ out' = out
      /\ \/ Effects(w, "idle", "error", c) /\ faults' < faults
         \/ Effects(w, "gettag", "running", c)
  BY <1>1, <1>2, CallEffects
<1>4. SealEffects(w, "error", c) /\ SealEffects(w, "running", c)
  BY <1>1, <1>3, Untouched
<1> QED BY <1>1, <1>3, <1>4 DEF Does

LEMMA RandDoes ==
  ASSUME EInv, NEW w \in Workers, Rand(w), UNCHANGED <<master, processors>>
  PROVE  Busy(w) /\ Does(w)
<1> DEFINE t == worker[w].task
           k == TaskOf(w)
           b == FrameOf(w)
           c == worker[w].ctx
<1>1. Busy(w) /\ worker[w].pc = "rand" /\ k.op = "seal" /\ NInv
  <2>1. At(w, {"seal"}, "rand")
    BY DEF Rand
  <2> QED BY <2>1, AtCall DEF EInv
<1>2. /\ t \in 1 .. taken /\ k = tasks[t] /\ k.f \in Frames /\ b = frame[k.f] /\ b \in Buffer
      /\ TypeOK /\ faults \in Nat /\ taken \in Nat
  BY <1>1, Working, TypesNow
<1>3. UNCHANGED Rest /\ out' = out
  BY DEF Rand, Rest
<1>4. ASSUME NEW r \in {"running", "error"}, NEW e \in Buffer, e.by = t, e.cell = b.cell,
             frame' = [frame EXCEPT ![k.f] = e]
      PROVE  SealEffects(w, r, c)
  <2>1. frame'[k.f] = e /\ \A g \in Frames \ {k.f} : frame'[g] = frame[g]
    BY <1>2, <1>4, FrameSet
  <2> QED BY <1>1, <1>3, <1>4, <2>1 DEF SealEffects
<1>5. CASE /\ frame' = [frame EXCEPT ![k.f].ver = 1, ![k.f].iv = t, ![k.f].by = t]
           /\ Goto(w, "init")
           /\ UNCHANGED faults
  <2> DEFINE e == [b EXCEPT !.ver = 1, !.iv = t, !.by = t]
  <2>1. e \in Buffer
    BY <1>2, Stamped
  <2>2. e.by = t /\ e.cell = b.cell
    BY <1>2 DEF Buffer
  <2>3. frame' = [frame EXCEPT ![k.f] = e]
    BY <1>2, <1>5
  <2> HIDE DEF e
  <2>4. SealEffects(w, "running", c)
    BY <1>4, <2>1, <2>2, <2>3
  <2>5. Moved(w, "init", t, c)
    BY <1>2, <1>3, <1>5, Went DEF Goto, Steps
  <2>6. Effects(w, "init", "running", c)
    BY <1>1, <1>3, <1>5, <2>5, AdvanceEffects DEF Goto
  <2> QED BY <1>1, <2>4, <2>6 DEF Does
<1>6. CASE /\ Fault("rand")
           /\ frame' = [frame EXCEPT ![k.f].ver = 1, ![k.f].by = t]
           /\ Return(w, "error")
  <2> DEFINE e == [b EXCEPT !.ver = 1, !.by = t]
  <2>1. e \in Buffer
    BY <1>2, Stamped
  <2>2. e.by = t /\ e.cell = b.cell
    BY <1>2 DEF Buffer
  <2>3. frame' = [frame EXCEPT ![k.f] = e]
    BY <1>2, <1>6
  <2> HIDE DEF e
  <2>4. SealEffects(w, "error", c)
    BY <1>4, <2>1, <2>2, <2>3
  <2>5. faults' \in Nat /\ faults' <= faults
    BY <1>2, <1>6, FaultSpent, Zenon
  <2>6. Effects(w, "idle", "error", c)
    BY <1>1, <1>3, <1>6, <2>5, AnswerEffects DEF Finished
  <2> QED BY <1>1, <2>4, <2>6 DEF Does
<1> QED BY <1>5, <1>6 DEF Rand, TaskOf

LEMMA EncryptUpdateDoes ==
  ASSUME EInv, NEW w \in Workers, EncryptUpdate(w), UNCHANGED <<master, processors>>
  PROVE  Busy(w) /\ Does(w)
<1> DEFINE t == worker[w].task
           k == TaskOf(w)
           b == FrameOf(w)
           c == worker[w].ctx
           i == Len(c.cts)
           x == Chunk(c.key, c.iv, t, i)
<1>1. Busy(w) /\ worker[w].pc = "update" /\ k.op = "seal" /\ NInv
  <2>1. At(w, {"seal"}, "update")
    BY DEF EncryptUpdate
  <2> QED BY <2>1, AtCall DEF EInv
<1>2. /\ t \in 1 .. taken /\ k = tasks[t] /\ k.f \in Frames /\ b = frame[k.f] /\ TypeOK
      /\ faults \in Nat /\ taken \in Nat /\ c \in Contexts /\ SealingAt("update", t, c, k, b)
      /\ c.key \in NullKeys /\ c.iv \in Nat
  BY <1>1, Working, TypesNow
<1>3. i \in Nat /\ i \in 0 .. Capacity /\ AfterChunk(w, i) \in {"update", "final"}
  BY <1>1, Updating
<1>4. x \in Chunks /\ x \in Cells
  <2>1. t \in Nat
    BY <1>2
  <2> QED BY <1>2, <1>3, <2>1 DEF Chunk, Chunks, Cells
<1>5. UNCHANGED Rest /\ out' = out
  BY DEF EncryptUpdate, Rest
<1>6. ASSUME frame' = [frame EXCEPT ![k.f].cell[i] = x], NEW r \in {"running", "error"}, NEW d,
             d.tag = c.tag
      PROVE  SealEffects(w, r, d)
  <2> HIDE DEF x, i
  <2>1. TypeOK /\ k.f \in Frames /\ i \in 0 .. Capacity /\ x \in Cells
    BY <1>2, <1>3, <1>4 DEF i
  <2>2. LET V == [frame EXCEPT ![k.f].cell[i] = x]
            z == frame[k.f]
        IN  /\ V \in [Frames -> Buffer]
            /\ V[k.f].ver = z.ver /\ V[k.f].iv = z.iv /\ V[k.f].by = z.by /\ V[k.f].used = z.used
            /\ V[k.f].cell[i] = x
            /\ \A j \in 0 .. Capacity : j # i => V[k.f].cell[j] = z.cell[j]
            /\ \A g \in Frames \ {k.f} : V[g] = frame[g]
    BY <2>1, CellSet
  <2>3. /\ frame'[k.f].by = t
        /\ \A j \in 0 .. Capacity : frame'[k.f].cell[j] \in {x, b.cell[j]}
        /\ \A g \in Frames \ {k.f} : frame'[g] = frame[g]
    BY <1>2, <1>6, <2>2 DEF SealingAt
  <2> QED BY <1>1, <1>4, <1>5, <1>6, <2>3 DEF SealEffects
<1>7. CASE /\ frame' = [frame EXCEPT ![k.f].cell[i] = x]
           /\ worker' = [worker EXCEPT ![w].ctx.cts = Append(@, x),
                                      ![w].pc = AfterChunk(w, i)]
           /\ UNCHANGED <<tasks, faults>>
  <2> HIDE DEF x
  <2>1. PICK d \in Contexts :
          Moved(w, AfterChunk(w, i), t, d) /\ d.tag = c.tag /\ d.state = c.state
    BY <1>1, <1>3, <1>4, <1>5, <1>7, ChunkMoved
  <2>2. Effects(w, AfterChunk(w, i), "running", d)
    BY <1>1, <1>3, <1>5, <1>7, <2>1, AdvanceEffects
  <2>3. SealEffects(w, "running", d)
    BY <1>6, <1>7, <2>1
  <2> QED BY <1>1, <2>2, <2>3 DEF Does
<1>8. CASE /\ Fault("update") /\ Return(w, "error")
           /\ frame' = [frame EXCEPT ![k.f].cell[i] = x] \/ frame' = frame
  <2>1. faults' \in Nat /\ faults' <= faults
    BY <1>2, <1>8, FaultSpent, Zenon
  <2>2. Effects(w, "idle", "error", c)
    BY <1>1, <1>5, <1>8, <2>1, AnswerEffects DEF Finished
  <2>3. SealEffects(w, "error", c)
    BY <1>1, <1>5, <1>6, <1>8, Untouched
  <2> QED BY <1>1, <2>2, <2>3 DEF Does
<1> QED BY <1>7, <1>8 DEF EncryptUpdate, TaskOf

LEMMA GetTagDoes ==
  ASSUME EInv, NEW w \in Workers, GetTag(w), UNCHANGED <<master, processors>>
  PROVE  Busy(w) /\ Does(w)
<1> DEFINE k == TaskOf(w)
           b == FrameOf(w)
           c == worker[w].ctx
           x == GcmTag(c.key, c.iv, c.cts)
<1>1. Busy(w) /\ worker[w].pc = "gettag" /\ k.op = "seal" /\ NInv
  <2>1. At(w, {"seal"}, "gettag")
    BY DEF GetTag
  <2> QED BY <2>1, AtCall DEF EInv
<1>2. UNCHANGED Rest /\ out' = out
  BY DEF GetTag, Rest
<1>3. PICK t : t = worker[w].task
  OBVIOUS
<1>4. /\ t \in 1 .. taken /\ k = tasks[t] /\ k.f \in Frames /\ b = frame[k.f] /\ TypeOK
      /\ faults \in Nat /\ taken \in Nat /\ k.n \in 1 .. Capacity /\ k.n \in Nat /\ k.key \in NullKeys
      /\ SealingAt("gettag", t, c, k, b) /\ c.key \in NullKeys /\ c.iv \in Nat
  BY <1>1, <1>3, Working, TypesNow
<1>5. c.cts = CtOf(t) /\ x = TagOf(t)
  BY <1>1, <1>3, Encrypted
<1>6. CASE /\ frame' = [frame EXCEPT ![k.f].cell[k.n] = x, ![k.f].used = k.n]
           /\ Return(w, "ok")
           /\ UNCHANGED faults
  <2>1. x \in Cells
    <3>1. CtOf(t) = [i \in 1 .. k.n |-> Chunk(k.key, t, t, i - 1)] /\ t \in Nat
      BY <1>4 DEF CtOf
    <3>2. CtOf(t) \in Seq(Chunks)
      BY <1>4, <3>1, Ciphertexts
    <3> QED BY <1>4, <1>5, <3>2 DEF GcmTag, Tags, Cells
  <2> HIDE DEF x
  <2>2. LET V == WithTag(k.f, k.n, x)
            d == frame[k.f]
        IN  /\ V \in [Frames -> Buffer]
            /\ V[k.f].ver = d.ver /\ V[k.f].iv = d.iv /\ V[k.f].by = d.by /\ V[k.f].used = k.n
            /\ V[k.f].cell[k.n] = x
            /\ \A j \in 0 .. Capacity : j # k.n => V[k.f].cell[j] = d.cell[j]
            /\ \A g \in Frames \ {k.f} : V[g] = frame[g]
    <3>1. TypeOK /\ k.f \in Frames /\ k.n \in 1 .. Capacity
      BY <1>4
    <3> QED BY <2>1, <3>1, Ended
  <2>3. frame' = WithTag(k.f, k.n, x)
    BY <1>6 DEF x, WithTag
  <2>4. /\ frame'[k.f].by = t
        /\ \A j \in 0 .. Capacity : frame'[k.f].cell[j] \in {x, b.cell[j]}
        /\ \A g \in Frames \ {k.f} : frame'[g] = frame[g]
    BY <1>4, <2>2, <2>3 DEF SealingAt
  <2>5. SealEffects(w, "ok", c)
    BY <1>1, <1>2, <1>3, <1>5, <2>4 DEF SealEffects
  <2>6. faults' \in Nat /\ faults' <= faults
    BY <1>4, <1>6
  <2>7. Effects(w, "idle", "ok", c)
    BY <1>1, <1>2, <1>6, <2>6, AnswerEffects DEF Finished
  <2> QED BY <1>1, <2>5, <2>7 DEF Does
<1>7. CASE Fault("gettag") /\ Return(w, "error") /\ UNCHANGED frame
  <2>1. faults' \in Nat /\ faults' <= faults
    BY <1>4, <1>7 DEF Fault
  <2>2. Effects(w, "idle", "error", c)
    BY <1>1, <1>2, <1>7, <2>1, AnswerEffects DEF Finished
  <2>3. SealEffects(w, "error", c)
    BY <1>1, <1>2, <1>7, Untouched
  <2> QED BY <1>1, <2>2, <2>3 DEF Does
<1> QED BY <1>6, <1>7 DEF GetTag, TaskOf

LEMMA DecryptUpdateDoes ==
  ASSUME EInv, NEW w \in Workers, DecryptUpdate(w), UNCHANGED <<master, processors>>
  PROVE  Busy(w) /\ Does(w)
<1> DEFINE k == TaskOf(w)
           b == FrameOf(w)
           c == worker[w].ctx
           i == Len(c.cts)
           x == frame[k.f].cell[i]
           y == Decrypted(c.key, c.iv, x, i)
<1>1. Busy(w) /\ worker[w].pc = "update" /\ k.op = "open" /\ NInv
  <2>1. At(w, {"open"}, "update")
    BY DEF DecryptUpdate
  <2> QED BY <2>1, AtCall DEF EInv
<1>2. /\ k.f \in Frames /\ b = frame[k.f] /\ b \in Buffer /\ TypeOK
      /\ faults \in Nat /\ c \in Contexts /\ c.cts \in Seq(Cells) /\ k.n \in Nat /\ k.o \in Outs
      /\ DOMAIN out = Outs
  <2>1. /\ k.f \in Frames /\ b = frame[k.f] /\ b \in Buffer /\ TypeOK
        /\ faults \in Nat /\ c \in Contexts /\ c.cts \in Seq(Cells) /\ k.n \in Nat /\ k.o \in Outs
    BY <1>1, Working
  <2> QED BY <2>1, TypesNow
<1>3. /\ i \in Nat /\ i < k.n /\ i \in 0 .. Capacity
      /\ AfterChunk(w, i) \in {"update", "final"}
  BY <1>1, Updating
<1>4. x \in Cells /\ x = b.cell[i]
  BY <1>2, <1>3 DEF Buffer
<1>5. UNCHANGED Rest /\ frame' = frame
  BY DEF DecryptUpdate, Rest
<1>6. BufferAt("update", c, out[k.o], k.n) /\ OpeningAt("update", c, k, b)
  BY <1>1 DEF EInv, Reading, Opening
<1>7. CASE /\ out' = [out EXCEPT ![k.o][i] = y]
           /\ worker' = [worker EXCEPT ![w].ctx.cts = Append(@, x),
                                      ![w].pc = AfterChunk(w, i)]
           /\ UNCHANGED <<tasks, faults>>
  <2> HIDE DEF x
  <2>1. PICK d \in Contexts :
          /\ Moved(w, AfterChunk(w, i), worker[w].task, d)
          /\ d.key = c.key /\ d.iv = c.iv /\ d.tag = c.tag /\ d.state = c.state
          /\ d.cts = Append(c.cts, x)
    BY <1>1, <1>3, <1>4, <1>5, <1>7, ChunkMoved
  <2>2. Effects(w, AfterChunk(w, i), "running", d)
    BY <1>1, <1>3, <1>5, <1>7, <2>1, AdvanceEffects
  <2>3. Len(d.cts) = i + 1 /\ d.cts[i + 1] = x
        /\ \A j \in 1 .. i : d.cts[j] = c.cts[j]
    <3>1. c.cts \in Seq(Cells) /\ x \in Cells /\ d.cts = Append(c.cts, x)
      BY <1>2, <1>4, <2>1
    <3> HIDE DEF c
    <3> QED BY <3>1, AppendFacts
  <2>4. DOMAIN out[k.o] = 0 .. k.n - 1 /\ i \in 0 .. k.n - 1
    BY <1>2, <1>3, <1>6 DEF BufferAt
  <2>5. /\ DOMAIN out'[k.o] = 0 .. k.n - 1 /\ out'[k.o][i] = y
        /\ \A j \in 0 .. k.n - 1 : j # i => out'[k.o][j] = out[k.o][j]
        /\ \A o \in Outs \ {k.o} : out'[o] = out[o]
    <3> HIDE DEF y, i
    <3> QED BY <1>2, <1>7, <2>4
  <2>6. BufferAt(AfterChunk(w, i), d, out'[k.o], k.n)
    <3>1. ASSUME NEW j \in 0 .. k.n - 1
          PROVE  out'[k.o][j] = IF j < Len(d.cts)
                                THEN Decrypted(d.key, d.iv, d.cts[j + 1], j) ELSE Stale
      <4>1. CASE j = i
        BY <1>3, <2>1, <2>3, <2>5, <4>1
      <4>2. CASE j < i
        <5>1. out'[k.o][j] = Decrypted(c.key, c.iv, c.cts[j + 1], j)
          BY <1>3, <1>6, <2>5, <4>2 DEF BufferAt
        <5>2. j + 1 \in 1 .. i /\ j < Len(d.cts)
          BY <1>3, <2>3, <4>2
        <5> QED BY <2>1, <2>3, <5>1, <5>2
      <4>3. CASE j > i
        <5>1. out'[k.o][j] = Stale
          BY <1>3, <1>6, <2>5, <4>3 DEF BufferAt
        <5> QED BY <1>3, <2>3, <4>3, <5>1
      <4> QED BY <1>3, <4>1, <4>2, <4>3
    <3> QED BY <1>3, <2>5, <3>1 DEF BufferAt
  <2>7. OpeningAt(AfterChunk(w, i), d, k, b)
    <3> SUFFICES ASSUME k.seen # 0, b.by = k.seen
                 PROVE  /\ d.iv = k.seen /\ d.tag = TagOf(k.seen)
                        /\ \A j \in 1 .. Len(d.cts) : d.cts[j] = CtOf(k.seen)[j]
      BY DEF OpeningAt
    <3>1. /\ c.iv = k.seen /\ c.tag = TagOf(k.seen)
          /\ \A j \in 1 .. i : c.cts[j] = CtOf(k.seen)[j]
      BY <1>6 DEF OpeningAt
    <3>2. x = CtOf(k.seen)[i + 1]
      <4>1. \A j \in 1 .. k.n : b.cell[j - 1] = CtOf(k.seen)[j]
        BY <1>1, SeenByOpen
      <4>2. i + 1 \in 1 .. k.n /\ (i + 1) - 1 = i
        BY <1>2, <1>3
      <4> QED BY <1>4, <4>1, <4>2
    <3>3. \A j \in 1 .. Len(d.cts) : j \in 1 .. i \/ j = i + 1
      BY <1>3, <2>3
    <3> QED BY <2>1, <2>3, <3>1, <3>2, <3>3
  <2>8. OpenEffects(w, AfterChunk(w, i), "running", d)
    BY <1>1, <1>5, <2>1, <2>5, <2>6, <2>7 DEF OpenEffects
  <2> QED BY <1>1, <2>2, <2>8 DEF Does
<1>8. CASE Fault("update") /\ Cleanse(k.o) /\ Return(w, "error")
  <2>1. faults' \in Nat /\ faults' <= faults /\ faults' # MaxFaults
    BY <1>2, <1>8, ConstantsAssumption DEF Fault, EInv, ContextsLive
  <2>2. Effects(w, "idle", "error", c)
    BY <1>1, <1>5, <1>8, <2>1, AnswerEffects DEF Finished
  <2>3. Wiped(out'[k.o]) /\ \A o \in Outs \ {k.o} : out'[o] = out[o]
    BY <1>2, <1>8 DEF Cleanse, Wiped, Zero
  <2>4. OpenEffects(w, "idle", "error", c)
    BY <1>1, <1>5, <2>1, <2>3 DEF OpenEffects
  <2> QED BY <1>1, <2>2, <2>4 DEF Does
<1> QED BY <1>7, <1>8 DEF DecryptUpdate, TaskOf

\* An open of the frame it saw finds the tag it needs.
LEMMA SeenIsAuthentic ==
  ASSUME EInv, NEW w \in Workers, worker[w].pc = "final", TaskOf(w).op = "open",
         TaskOf(w).seen # 0, FrameOf(w).by = TaskOf(w).seen
  PROVE  authentic(worker[w].ctx)
<1> DEFINE k == TaskOf(w)
           c == worker[w].ctx
<1>1. PICK s : s = k.seen
  OBVIOUS
<1>2. Busy(w) /\ NInv
  BY DEF Busy, EInv
<1>3. ProgressAt("final", c, k) /\ c.cts \in Seq(Cells) /\ k.n \in Nat
  BY <1>2, Working
<1>4. tasks[s].n = k.n /\ tasks[s].key = k.key
  BY <1>1, <1>2, SeenByOpen
<1>5. /\ c.iv = s /\ c.tag = TagOf(s)
      /\ \A i \in 1 .. Len(c.cts) : c.cts[i] = CtOf(s)[i]
  BY <1>1, <1>2 DEF EInv, Opening, OpeningAt
<1>6. c.cts = CtOf(s)
  <2>1. c.cts = [i \in 1 .. k.n |-> c.cts[i]] /\ Len(c.cts) = k.n
    BY <1>3 DEF ProgressAt
  <2>2. CtOf(s) = [i \in 1 .. k.n |-> CtOf(s)[i]]
    BY <1>4 DEF CtOf
  <2> QED BY <1>5, <2>1, <2>2
<1> QED BY <1>3, <1>4, <1>5, <1>6 DEF authentic, TagOf, ProgressAt

LEMMA DecryptFinalDoes ==
  ASSUME EInv, NEW w \in Workers, DecryptFinal(w), UNCHANGED <<master, processors>>
  PROVE  Busy(w) /\ Does(w)
<1> DEFINE k == TaskOf(w)
           b == FrameOf(w)
           c == worker[w].ctx
<1>1. Busy(w) /\ worker[w].pc = "final" /\ k.op = "open" /\ NInv
  <2>1. At(w, {"open"}, "final")
    BY DEF DecryptFinal
  <2> QED BY <2>1, AtCall DEF EInv
<1>2. faults \in Nat /\ k.o \in Outs /\ DOMAIN out = Outs /\ faults <= MaxFaults
  <2>1. faults \in Nat /\ k.o \in Outs /\ TypeOK
    BY <1>1, Working
  <2> QED BY <2>1, TypesNow DEF EInv, ContextsLive
<1>3. UNCHANGED Rest /\ frame' = frame
  BY DEF DecryptFinal, Rest
<1>4. CASE authentic(c) /\ Return(w, "ok") /\ UNCHANGED <<out, faults>>
  <2>1. Effects(w, "idle", "ok", c)
    BY <1>1, <1>2, <1>3, <1>4, AnswerEffects DEF Finished
  <2>2. OpenEffects(w, "idle", "ok", c)
    BY <1>1, <1>3, <1>4 DEF OpenEffects
  <2> QED BY <1>1, <2>1, <2>2 DEF Does
<1>5. CASE /\ IF authentic(c) THEN Fault("final") ELSE UNCHANGED faults
           /\ Cleanse(k.o)
           /\ Return(w, "invalid_tag")
  <2>1. faults' \in Nat /\ faults' <= faults
    BY <1>2, <1>5 DEF Fault
  <2>2. authentic(c) => faults' # MaxFaults
    BY <1>2, <1>5, ConstantsAssumption DEF Fault
  <2>3. k.seen # 0 /\ b.by = k.seen => authentic(c)
    BY <1>1, SeenIsAuthentic
  <2>4. Effects(w, "idle", "invalid_tag", c)
    BY <1>1, <1>3, <1>5, <2>1, AnswerEffects DEF Finished
  <2>5. Wiped(out'[k.o]) /\ \A o \in Outs \ {k.o} : out'[o] = out[o]
    BY <1>2, <1>5 DEF Cleanse, Wiped, Zero
  <2>6. OpenEffects(w, "idle", "invalid_tag", c)
    BY <1>1, <1>3, <2>2, <2>3, <2>5 DEF OpenEffects
  <2> QED BY <1>1, <2>4, <2>6 DEF Does
<1> QED BY <1>4, <1>5 DEF DecryptFinal, TaskOf

-----------------------------------------------------------------------------
(* What a step keeps.                                                      *)

\* No task submitted is forgotten or changed, and no success taken back.
Extends ==
  /\ tasks' \in Seq(Task) /\ Len(tasks') >= Len(tasks)
  /\ \A u \in 1 .. Len(tasks) :
       /\ tasks'[u].op = tasks[u].op /\ tasks'[u].key = tasks[u].key
       /\ tasks'[u].n = tasks[u].n /\ tasks'[u].f = tasks[u].f
       /\ tasks'[u].o = tasks[u].o
       /\ tasks[u].state = "ok" => tasks'[u].state = "ok"

LEMMA Domains ==
  ASSUME TypeOK
  PROVE  /\ tasks \in Seq(Task) /\ DOMAIN tasks = 1 .. Len(tasks) /\ Len(tasks) \in Nat
         /\ Extends => DOMAIN tasks' = 1 .. Len(tasks') /\ 1 .. Len(tasks) \subseteq DOMAIN tasks'
BY TypesNow DEF Extends

LEMMA CtKept ==
  ASSUME Extends, NEW s \in 1 .. Len(tasks)
  PROVE  CtOf(s)' = CtOf(s) /\ TagOf(s)' = TagOf(s)
BY DEF Extends, CtOf, TagOf, Chunk, GcmTag

LEMMA OkSealsKept ==
  ASSUME TypeOK, Extends, NEW s \in OkSeals
  PROVE  s \in OkSeals' /\ s \in 1 .. Len(tasks)
BY Domains DEF Extends, OkSeals

LEMMA KnownKept ==
  ASSUME TypeOK, Extends, NEW x, Known(x)
  PROVE  Known(x)'
<1>1. CASE \E s \in OkSeals : x = TagOf(s)
  <2>1. PICK s \in OkSeals : x = TagOf(s)
    BY <1>1
  <2>2. s \in OkSeals' /\ TagOf(s)' = TagOf(s)
    BY OkSealsKept, CtKept
  <2> QED BY <2>1, <2>2 DEF Known
<1> QED BY <1>1 DEF Known

LEMMA AcceptedKept ==
  ASSUME TypeOK, Extends, NEW t \in 1 .. Len(tasks), NEW s, Accepted(t, s),
         out'[tasks[t].o] = out[tasks[t].o]
  PROVE  Accepted(t, s)'
<1>1. s \in OkSeals
  BY DEF Accepted
<1>2. s \in OkSeals' /\ s \in 1 .. Len(tasks) /\ CtOf(s)' = CtOf(s)
  BY <1>1, OkSealsKept, CtKept
<1>3. /\ tasks'[s].n = tasks[s].n /\ tasks'[s].key = tasks[s].key
      /\ tasks'[t].n = tasks[t].n /\ tasks'[t].key = tasks[t].key /\ tasks'[t].o = tasks[t].o
  BY <1>2 DEF Extends
<1>4. Yields(t, s)'
  <2>1. Yields(t, s)
    BY DEF Accepted
  <2>2. out'[tasks'[t].o] = out[tasks[t].o]
    BY <1>3
  <2> QED BY <1>2, <1>3, <2>1, <2>2 DEF Yields
<1> QED BY <1>2, <1>3, <1>4 DEF Accepted

LEMMA LatestUnique ==
  ASSUME TypeOK, NEW o, NEW t, NEW u, Latest(t, o), Latest(u, o)
  PROVE  t = u
<1>1. t \in 1 .. Len(tasks) /\ u \in 1 .. Len(tasks) /\ Len(tasks) \in Nat
  BY Domains DEF Latest
<1>2. t <= u /\ u <= t
  BY DEF Latest
<1> QED BY <1>1, <1>2

\* Two unanswered tasks never use one plaintext buffer.
LEMMA OneReaderEach ==
  ASSUME EInv, NEW t \in DOMAIN tasks, NEW u \in DOMAIN tasks, tasks[t].o \in Outs,
         Pending(t), tasks[u].o = tasks[t].o, Pending(u) \/ Latest(u, tasks[u].o)
  PROVE  u = t
BY LatestUnique DEF EInv, NInv, OneReader

\* An open whose tag matches has decrypted the whole of one completed seal.
LEMMA AuthenticYields ==
  ASSUME EInv, NEW w \in Workers, worker[w].pc = "final", TaskOf(w).op = "open",
         authentic(worker[w].ctx)
  PROVE  \E s \in OkSeals : Accepted(worker[w].task, s)
<1> DEFINE t == worker[w].task
           k == TaskOf(w)
           c == worker[w].ctx
<1>1. Busy(w) /\ NInv
  BY DEF Busy, EInv
<1>2. /\ ProgressAt("final", c, k) /\ c.cts \in Seq(Cells) /\ k.n \in 1 .. Capacity
      /\ k = tasks[t] /\ TypeOK
  BY <1>1, Working
<1>3. Len(c.cts) = k.n /\ c.key = k.key /\ k.n \in Nat \ {0}
  BY <1>2, Constants DEF ProgressAt
<1>4. c.tag = [key |-> c.key, iv |-> c.iv, cts |-> c.cts]
  BY DEF authentic, GcmTag
<1>5. Known(c.tag)
  BY DEF EInv, TagsKnown
<1>6. c.tag \notin Chunks
  <2>1. DOMAIN c.tag = {"key", "iv", "cts"}
    BY <1>4
  <2>2. \A x \in Chunks : "pt" \in DOMAIN x
    BY DEF Chunks
  <2> QED BY <2>1, <2>2
<1>7. c.tag # NoTag
  <2>1. c.tag.cts # <<>>
    BY <1>2, <1>3, <1>4
  <2> QED BY <2>1 DEF NoTag, GcmTag
<1>8. PICK s \in OkSeals : c.tag = TagOf(s)
  BY <1>5, <1>6, <1>7 DEF Known
<1>9. c.key = tasks[s].key /\ c.iv = s /\ c.cts = CtOf(s)
  BY <1>4, <1>8 DEF TagOf, GcmTag
<1>10. tasks[s].n = k.n
  <2>1. s \in 1 .. Len(tasks) /\ tasks \in Seq(Task)
    BY <1>2, Domains DEF OkSeals
  <2>2. tasks[s].n \in Nat
    <3>1. tasks[s] \in Task
      BY <2>1
    <3> QED BY <3>1 DEF Task
  <2>3. Len(CtOf(s)) = tasks[s].n
    BY <2>2 DEF CtOf
  <2> QED BY <1>3, <1>9, <2>3
<1>11. BufferAt("final", c, out[k.o], k.n)
  BY <1>1 DEF EInv, Reading
<1>12. \A i \in 1 .. k.n : out[k.o][i - 1] = Decrypted(tasks[s].key, s, CtOf(s)[i], i - 1)
  <2> SUFFICES ASSUME NEW i \in 1 .. k.n
               PROVE  out[k.o][i - 1] = Decrypted(tasks[s].key, s, CtOf(s)[i], i - 1)
    OBVIOUS
  <2>1. i - 1 \in 0 .. k.n - 1 /\ i - 1 < Len(c.cts) /\ (i - 1) + 1 = i
    BY <1>3
  <2>2. out[k.o][i - 1] = Decrypted(c.key, c.iv, c.cts[(i - 1) + 1], i - 1)
    BY <1>11, <2>1 DEF BufferAt
  <2> QED BY <1>9, <2>1, <2>2
<1>13. Yields(t, s)
  BY <1>2, <1>10, <1>12 DEF Yields
<1> QED BY <1>2, <1>3, <1>8, <1>9, <1>10, <1>13 DEF Accepted

\* A step leaves the frame of a completed seal alone, or takes the seal's
\* name off it.
FramesStep == \A f \in Frames : frame'[f] = frame[f] \/ frame'[f].by \notin OkSeals

LEMMA SeenSealsStep ==
  ASSUME EInv, Extends,
         \A u \in 1 .. Len(tasks) :
           \/ tasks'[u].seen \in {0, tasks[u].seen}
           \/ /\ tasks[u].op = "open" /\ tasks'[u].seen \in OkSeals
              /\ tasks[tasks'[u].seen].key = tasks[u].key
              /\ tasks[tasks'[u].seen].n = tasks[u].n,
         \A u \in 1 .. Len(tasks') : u > Len(tasks) => tasks'[u].seen = 0
  PROVE  SeenSeals'
<1>1. TypeOK
  BY DEF EInv, NInv
<1> SUFFICES ASSUME NEW u \in 1 .. Len(tasks'), NEW s, s = tasks'[u].seen, s # 0
             PROVE  /\ tasks'[u].op = "open" /\ s \in OkSeals'
                    /\ tasks'[s].key = tasks'[u].key /\ tasks'[s].n = tasks'[u].n
  BY <1>1, Domains DEF SeenSeals
<1>2. u \in 1 .. Len(tasks) /\ u \in DOMAIN tasks
  BY <1>1, Domains
<1>3. /\ tasks[u].op = "open" /\ s \in OkSeals
      /\ tasks[s].key = tasks[u].key /\ tasks[s].n = tasks[u].n
  BY <1>2 DEF EInv, SeenSeals
<1>4. s \in OkSeals' /\ s \in 1 .. Len(tasks)
  BY <1>1, <1>3, OkSealsKept
<1> QED BY <1>2, <1>3, <1>4 DEF Extends

LEMMA OpeningKept ==
  ASSUME TypeOK, Extends, NEW p, NEW c, NEW k, NEW b, OpeningAt(p, c, k, b),
         k.seen # 0 => k.seen \in OkSeals,
         NEW l, l.seen = k.seen, NEW d, d = b \/ d.by \notin OkSeals
  PROVE  OpeningAt(p, c, l, d)'
<1>1. CASE k.seen # 0 /\ d.by = k.seen
  <2>1. PICK s : s = k.seen
    OBVIOUS
  <2>2. s \in 1 .. Len(tasks)
    BY <1>1, <2>1, OkSealsKept
  <2>3. CtOf(s)' = CtOf(s) /\ TagOf(s)' = TagOf(s)
    BY <2>2, CtKept
  <2>4. d = b
    BY <1>1
  <2> QED BY <1>1, <2>1, <2>3, <2>4 DEF OpeningAt
<1>2. CASE ~ (k.seen # 0 /\ d.by = k.seen)
  BY <1>2 DEF OpeningAt
<1> QED BY <1>1, <1>2

LEMMA LatestKept ==
  ASSUME TypeOK, Extends, Len(tasks') = Len(tasks), NEW t, NEW o
  PROVE  Latest(t, o)' <=> Latest(t, o)
BY Domains DEF Extends, Latest

LEMMA OneReaderKept ==
  ASSUME EInv, Extends, Len(tasks') = Len(tasks),
         \A u \in 1 .. Len(tasks) : Pending(u)' => Pending(u)
  PROVE  OneReader'
<1>1. TypeOK
  BY DEF EInv, NInv
<1>2. DOMAIN tasks = 1 .. Len(tasks) /\ DOMAIN tasks' = 1 .. Len(tasks)
  BY <1>1, Domains
<1>3. \A u \in 1 .. Len(tasks) : tasks'[u].o = tasks[u].o /\ tasks'[u].op = tasks[u].op
  BY DEF Extends
<1>4. \A u, o : Latest(u, o)' <=> Latest(u, o)
  BY <1>1, LatestKept
<1> QED BY <1>2, <1>3, <1>4 DEF EInv, OneReader

-----------------------------------------------------------------------------
(* The steps of a worker keep EInv.                                        *)

\* What all of them do to the rest of the state.
LEMMA WorkerFacts ==
  ASSUME EInv, NEW w \in Workers, Busy(w), NEW p, NEW r, NEW c, Effects(w, p, r, c),
         SealEffects(w, r, c) \/ OpenEffects(w, p, r, c)
  PROVE  LET t == worker[w].task
         IN  /\ TypeOK /\ t \in 1 .. Len(tasks) /\ TaskOf(w) = tasks[t]
             /\ tasks[t].state = "running" /\ t \in DOMAIN tasks
             /\ Extends /\ Len(tasks') = Len(tasks)
             /\ DOMAIN tasks = 1 .. Len(tasks) /\ DOMAIN tasks' = 1 .. Len(tasks)
             /\ \A u \in 1 .. Len(tasks) :
                  /\ tasks'[u].seen = tasks[u].seen
                  /\ tasks'[u].state = IF u = t THEN r ELSE tasks[u].state
             /\ \A u \in 1 .. Len(tasks) :
                  /\ Pending(u)' => Pending(u)
                  /\ u # t => (Pending(u)' <=> Pending(u))
             /\ FramesStep
             /\ \A u \in 1 .. Len(tasks) :
                  u # t /\ tasks[u].o \in Outs /\ (Pending(u) \/ Latest(u, tasks[u].o)) =>
                    out'[tasks[u].o] = out[tasks[u].o]
<1> DEFINE t == worker[w].task
           k == TaskOf(w)
<1>1. NInv /\ Outcome(t, r)
  BY DEF EInv, Effects
<1>2. /\ TypeOK /\ t \in 1 .. Len(tasks) /\ k = tasks[t] /\ k.state = "running"
      /\ k.f \in Frames /\ FrameOf(w) = frame[k.f] /\ (k.op = "open" => k.o \in Outs)
  BY <1>1, Working
<1>3. DOMAIN tasks = 1 .. Len(tasks) /\ Len(tasks) \in Nat
  BY <1>2, Domains
<1>4. /\ Len(tasks') = Len(tasks) /\ tasks' \in Seq(Task)
      /\ \A u \in 1 .. Len(tasks) :
           /\ tasks'[u].op = tasks[u].op /\ tasks'[u].key = tasks[u].key
           /\ tasks'[u].n = tasks[u].n /\ tasks'[u].f = tasks[u].f
           /\ tasks'[u].o = tasks[u].o /\ tasks'[u].seen = tasks[u].seen
           /\ tasks'[u].state = IF u = t THEN r ELSE tasks[u].state
  BY <1>1 DEF Outcome
<1>5. Extends
  BY <1>2, <1>3, <1>4 DEF Extends
<1>6. \A u \in 1 .. Len(tasks) :
        /\ Pending(u)' => Pending(u)
        /\ u # t => (Pending(u)' <=> Pending(u))
  BY <1>2, <1>4 DEF Pending
<1>7. FramesStep
  <2> SUFFICES ASSUME NEW f \in Frames PROVE frame'[f] = frame[f] \/ frame'[f].by \notin OkSeals
    BY DEF FramesStep
  <2>1. t \notin OkSeals
    BY <1>2 DEF OkSeals
  <2>2. CASE SealEffects(w, r, c)
    <3>1. CASE f = k.f
      <4>1. frame'[k.f] # frame[k.f] => frame'[k.f].by = t
        BY <1>2, <2>2 DEF SealEffects
      <4> QED BY <2>1, <3>1, <4>1
    <3>2. CASE f # k.f
      BY <2>2, <3>2 DEF SealEffects
    <3> QED BY <3>1, <3>2
  <2>3. CASE OpenEffects(w, p, r, c)
    BY <2>3 DEF OpenEffects
  <2> QED BY <2>2, <2>3
<1>8. ASSUME NEW u \in 1 .. Len(tasks), u # t, tasks[u].o \in Outs,
             Pending(u) \/ Latest(u, tasks[u].o)
      PROVE  out'[tasks[u].o] = out[tasks[u].o]
  <2>1. CASE SealEffects(w, r, c)
    BY <2>1 DEF SealEffects
  <2>2. CASE OpenEffects(w, p, r, c)
    <3>1. k.op = "open" /\ \A o \in Outs \ {k.o} : out'[o] = out[o]
      BY <2>2 DEF OpenEffects
    <3>2. tasks[u].o # k.o
      <4> SUFFICES ASSUME tasks[u].o = k.o PROVE FALSE
        OBVIOUS
      <4>1. Pending(t) /\ tasks[t].o \in Outs /\ tasks[u].o = tasks[t].o
        BY <1>2, <3>1 DEF Pending
      <4>2. u = t
        BY <1>2, <1>3, <1>8, <4>1, OneReaderEach
      <4> QED BY <1>8, <4>2
    <3> QED BY <1>8, <3>1, <3>2
  <2> QED BY <2>1, <2>2
<1> QED BY <1>2, <1>3, <1>4, <1>5, <1>6, <1>7, <1>8

LEMMA WorkerEInv ==
  ASSUME EInv, NInv', NEW w \in Workers, Busy(w), Does(w)
  PROVE  EInv'
<1>1. PICK p, r, c : Effects(w, p, r, c) /\ (SealEffects(w, r, c) \/ OpenEffects(w, p, r, c))
  BY DEF Does
<1>2. PICK t : t = worker[w].task
  OBVIOUS
<1>3. PICK k : k = TaskOf(w)
  OBVIOUS
<1>4. /\ TypeOK /\ t \in 1 .. Len(tasks) /\ k = tasks[t]
      /\ tasks[t].state = "running" /\ t \in DOMAIN tasks
      /\ Extends /\ Len(tasks') = Len(tasks)
      /\ DOMAIN tasks = 1 .. Len(tasks) /\ DOMAIN tasks' = 1 .. Len(tasks)
  BY <1>1, <1>2, <1>3, WorkerFacts
<1>5. \A u \in 1 .. Len(tasks) :
        /\ tasks'[u].seen = tasks[u].seen
        /\ tasks'[u].state = IF u = t THEN r ELSE tasks[u].state
  BY <1>1, <1>2, WorkerFacts
<1>6. \A u \in 1 .. Len(tasks) :
        /\ Pending(u)' => Pending(u)
        /\ u # t => (Pending(u)' <=> Pending(u))
  BY <1>1, <1>2, WorkerFacts
<1>7. FramesStep
  BY <1>1, WorkerFacts
<1>8. ASSUME NEW u \in 1 .. Len(tasks), u # t, tasks[u].o \in Outs,
             Pending(u) \/ Latest(u, tasks[u].o)
      PROVE  out'[tasks[u].o] = out[tasks[u].o]
  BY <1>1, <1>2, <1>8, WorkerFacts
<1>9. \A u \in 1 .. Len(tasks) :
        /\ tasks'[u].op = tasks[u].op /\ tasks'[u].key = tasks[u].key
        /\ tasks'[u].n = tasks[u].n /\ tasks'[u].f = tasks[u].f
        /\ tasks'[u].o = tasks[u].o
  BY <1>4 DEF Extends
<1>10. /\ k.f \in Frames /\ k.n \in 1 .. Capacity /\ FrameOf(w) = frame[k.f]
       /\ (k.op = "open" => k.o \in Outs) /\ NInv /\ faults \in Nat
  <2>1. NInv
    BY DEF EInv
  <2> QED BY <1>3, <2>1, Working
<1>11. /\ worker'[w].pc = p /\ worker'[w].task = (IF r = "running" THEN t ELSE 0)
       /\ worker'[w].ctx = c /\ \A v \in Workers \ {w} : worker'[v] = worker[v]
       /\ (p = "idle" <=> r # "running")
  BY <1>1, <1>2 DEF Effects, Moved
<1>12. ASSUME NEW v \in Workers, Busy(v)', v # w
       PROVE  /\ Busy(v) /\ worker'[v] = worker[v] /\ worker[v].task \in 1 .. Len(tasks)
              /\ worker[v].task # t /\ TaskOf(v) = tasks[worker[v].task]
              /\ TaskOf(v)' = tasks'[worker[v].task]
              /\ Pending(worker[v].task) /\ TaskOf(v).f \in Frames
              /\ FrameOf(v) = frame[TaskOf(v).f] /\ FrameOf(v)' = frame'[TaskOf(v).f]
              /\ TaskOf(v).op = "open" => TaskOf(v).o \in Outs
  <2>1. Busy(v) /\ worker'[v] = worker[v]
    BY <1>11, <1>12 DEF Busy
  <2>2. /\ worker[v].task \in 1 .. Len(tasks) /\ TaskOf(v) = tasks[worker[v].task]
        /\ TaskOf(v).state = "running" /\ TaskOf(v).f \in Frames
        /\ (TaskOf(v).op = "open" => TaskOf(v).o \in Outs)
    BY <1>10, <2>1, Working
  <2>3. worker[v].task # t
    BY <1>2, <1>10, <1>12, <2>1 DEF NInv, Queueing
  <2>4. TaskOf(v)' = tasks'[worker[v].task]
    BY <2>1 DEF TaskOf
  <2>5. FrameOf(v)' = frame'[TaskOf(v).f]
    BY <1>9, <2>2, <2>4 DEF FrameOf
  <2> QED BY <2>1, <2>2, <2>3, <2>4, <2>5 DEF Pending, FrameOf
<1>13. SeenSeals'
  <2>1. \A u \in 1 .. Len(tasks') : u > Len(tasks) => tasks'[u].seen = 0
    BY <1>4, Domains
  <2> QED BY <1>4, <1>5, <2>1, SeenSealsStep
<1>14. Opening'
  <2> SUFFICES ASSUME NEW v \in Workers, Busy(v)', TaskOf(v)'.op = "open"
               PROVE  OpeningAt(worker[v].pc, worker[v].ctx, TaskOf(v), FrameOf(v))'
    BY DEF Opening
  <2>1. CASE v # w
    <3>1. /\ Busy(v) /\ worker'[v] = worker[v] /\ worker[v].task \in 1 .. Len(tasks)
          /\ TaskOf(v) = tasks[worker[v].task] /\ TaskOf(v)' = tasks'[worker[v].task]
          /\ TaskOf(v).f \in Frames
          /\ FrameOf(v) = frame[TaskOf(v).f] /\ FrameOf(v)' = frame'[TaskOf(v).f]
      BY <1>12, <2>1
    <3>2. TaskOf(v).op = "open" /\ TaskOf(v)'.seen = TaskOf(v).seen
      BY <1>5, <1>9, <3>1
    <3>3. PICK q, d, l, b : /\ q = worker[v].pc /\ d = worker[v].ctx
                            /\ l = TaskOf(v) /\ b = FrameOf(v)
      OBVIOUS
    <3>4. PICK m, e : m = TaskOf(v)' /\ e = FrameOf(v)'
      OBVIOUS
    <3>5. OpeningAt(q, d, l, b)
      BY <3>1, <3>2, <3>3 DEF EInv, Opening
    <3>6. l.seen # 0 => l.seen \in OkSeals
      BY <1>4, <3>1, <3>3 DEF EInv, SeenSeals
    <3>7. e = b \/ e.by \notin OkSeals
      BY <1>7, <3>1, <3>3, <3>4 DEF FramesStep
    <3>8. OpeningAt(q, d, m, e)'
      BY <1>4, <3>2, <3>3, <3>4, <3>5, <3>6, <3>7, OpeningKept
    <3> QED BY <3>1, <3>3, <3>4, <3>8
  <2>2. CASE v = w
    <3>1. r = "running" /\ TaskOf(w)' = tasks'[t] /\ tasks'[t].op = k.op
      BY <1>4, <1>9, <1>11, <2>2 DEF Busy, TaskOf
    <3>2. k.op = "open" /\ OpenEffects(w, p, r, c)
      BY <1>1, <1>3, <2>2, <3>1 DEF SealEffects
    <3>3. OpeningAt(p, c, k, FrameOf(w)) /\ frame' = frame
      BY <1>3, <3>1, <3>2 DEF OpenEffects
    <3>4. PICK m, b : m = TaskOf(w)' /\ b = FrameOf(w)
      OBVIOUS
    <3>5. m.seen = k.seen /\ FrameOf(w)' = b
      BY <1>4, <1>5, <1>9, <1>10, <3>1, <3>3, <3>4 DEF FrameOf
    <3>6. k.seen # 0 => k.seen \in OkSeals
      BY <1>4 DEF EInv, SeenSeals
    <3>7. OpeningAt(p, c, m, b)'
      BY <1>4, <3>3, <3>4, <3>5, <3>6, OpeningKept
    <3> QED BY <1>11, <2>2, <3>4, <3>5, <3>7
  <2> QED BY <2>1, <2>2
<1>15. ContextsLive'
  <2>1. /\ faults' \in Nat /\ faults' <= faults
        /\ c.state = "null" => worker[w].ctx.state = "null" \/ faults' < faults
    BY <1>1 DEF Effects
  <2>2. faults <= MaxFaults /\ (faults = MaxFaults => \A v \in Workers : worker[v].ctx.state # "null")
    BY DEF EInv, ContextsLive
  <2>3. MaxFaults \in Nat
    BY ConstantsAssumption
  <2>4. ASSUME faults' = MaxFaults, NEW v \in Workers PROVE worker'[v].ctx.state # "null"
    <3>1. faults = MaxFaults /\ ~ faults' < faults
      BY <1>10, <2>1, <2>2, <2>3, <2>4
    <3> QED BY <1>11, <2>1, <2>2, <3>1
  <2> QED BY <1>10, <2>1, <2>2, <2>3, <2>4 DEF ContextsLive
<1>16. IntactFramesOpen'
  <2> SUFFICES ASSUME NEW u \in 1 .. Len(tasks), tasks'[u].seen # 0,
                      frame'[tasks'[u].f].by = tasks'[u].seen, faults' = MaxFaults
               PROVE  tasks'[u].state \in {"running", "ok"}
    BY <1>4 DEF IntactFramesOpen
  <2>1. u \in DOMAIN tasks /\ tasks[u].seen # 0 /\ tasks'[u].seen = tasks[u].seen
        /\ tasks'[u].f = tasks[u].f /\ tasks[u] \in Task
    BY <1>4, <1>5, <1>9, Domains
  <2>2. tasks[u].seen \in OkSeals /\ tasks[u].op = "open" /\ tasks[u].f \in Frames
    BY <2>1 DEF EInv, SeenSeals, Task
  <2>3. frame'[tasks[u].f] = frame[tasks[u].f] /\ frame[tasks[u].f].by = tasks[u].seen
    BY <1>7, <2>1, <2>2 DEF FramesStep
  <2>4. CASE u # t
    <3>1. faults = MaxFaults
      BY <1>1, <1>10, ConstantsAssumption DEF Effects, EInv, ContextsLive
    <3>2. tasks[u].state \in {"running", "ok"}
      BY <2>1, <2>3, <3>1 DEF EInv, IntactFramesOpen
    <3> QED BY <1>5, <2>4, <3>2
  <2>5. CASE u = t
    <3>1. OpenEffects(w, p, r, c)
      BY <1>1, <1>3, <1>4, <2>2, <2>5 DEF SealEffects
    <3>2. r \in {"running", "ok"}
      BY <1>3, <1>4, <1>10, <2>1, <2>3, <2>5, <3>1 DEF OpenEffects
    <3> QED BY <1>5, <2>5, <3>2
  <2> QED BY <2>4, <2>5
<1>17. TagsKnown'
  <2>1. ASSUME NEW f \in Frames, NEW i \in 0 .. Capacity PROVE Known(frame[f].cell[i])'
    <3>1. PICK x : x = frame'[f].cell[i]
      OBVIOUS
    <3>2. Known(frame[f].cell[i])
      BY DEF EInv, TagsKnown
    <3>3. CASE x = frame[f].cell[i]
      <4>1. Known(x)'
        BY <1>4, <3>2, <3>3, KnownKept
      <4> QED BY <3>1, <4>1
    <3>4. CASE x \in Chunks
      BY <3>1, <3>4 DEF Known
    <3>5. CASE r = "ok" /\ k.op = "seal" /\ x = TagOf(t)
      <4>1. TagOf(t)' = TagOf(t)
        BY <1>4, CtKept
      <4>2. t \in OkSeals'
        BY <1>4, <1>5, <1>9, <3>5 DEF OkSeals
      <4>3. \E s \in OkSeals' : x = TagOf(s)'
        BY <3>5, <4>1, <4>2
      <4>4. Known(x)'
        BY <4>3 DEF Known
      <4> QED BY <3>1, <4>4
    <3>6. x = frame[f].cell[i] \/ x \in Chunks \/ (r = "ok" /\ k.op = "seal" /\ x = TagOf(t))
      <4>1. CASE SealEffects(w, r, c) /\ f = k.f
        BY <1>2, <1>3, <1>10, <3>1, <4>1 DEF SealEffects
      <4>2. CASE SealEffects(w, r, c) /\ f # k.f
        BY <1>3, <3>1, <4>2 DEF SealEffects
      <4>3. CASE OpenEffects(w, p, r, c)
        BY <3>1, <4>3 DEF OpenEffects
      <4> QED BY <1>1, <4>1, <4>2, <4>3
    <3> QED BY <3>3, <3>4, <3>5, <3>6
  <2>2. ASSUME NEW v \in Workers PROVE Known(worker[v].ctx.tag)'
    <3>1. PICK x : x = worker'[v].ctx.tag
      OBVIOUS
    <3>2. Known(x)
      <4>1. CASE v # w
        BY <1>11, <3>1, <4>1 DEF EInv, TagsKnown
      <4>2. CASE v = w
        <5>1. c.tag \in {NoTag, worker[w].ctx.tag, frame[k.f].cell[k.n]}
          BY <1>1, <1>3, <1>10 DEF SealEffects, OpenEffects
        <5>2. k.n \in 0 .. Capacity
          BY <1>10, Constants
        <5>3. Known(worker[w].ctx.tag) /\ Known(frame[k.f].cell[k.n])
          BY <1>10, <5>2 DEF EInv, TagsKnown
        <5> QED BY <1>11, <3>1, <4>2, <5>1, <5>3 DEF Known
      <4> QED BY <4>1, <4>2
    <3>3. Known(x)'
      BY <1>4, <3>2, KnownKept
    <3> QED BY <3>1, <3>3
  <2> QED BY <2>1, <2>2 DEF TagsKnown
<1>18. OneReader'
  BY <1>4, <1>6, OneReaderKept
<1>19. Waiting'
  <2> SUFFICES ASSUME NEW u \in 1 .. Len(tasks), tasks'[u].op = "open", tasks'[u].state = "queued"
               PROVE  out'[tasks'[u].o] = [i \in 0 .. tasks'[u].n - 1 |-> Stale]
    BY <1>4 DEF Waiting
  <2>1. r # "queued"
    BY <1>1 DEF SealEffects, OpenEffects
  <2>2. u # t /\ tasks[u].state = "queued" /\ tasks[u].op = "open" /\ u \in DOMAIN tasks
    BY <1>4, <1>5, <1>9, <2>1
  <2>3. Pending(u) /\ tasks[u].o \in Outs
    BY <1>10, <2>2 DEF Pending, NInv, Queueing
  <2>4. out'[tasks[u].o] = out[tasks[u].o]
    BY <1>8, <2>2, <2>3
  <2>5. out[tasks[u].o] = [i \in 0 .. tasks[u].n - 1 |-> Stale]
    BY <2>2 DEF EInv, Waiting
  <2> QED BY <1>9, <2>4, <2>5
<1>20. Reading'
  <2> SUFFICES ASSUME NEW v \in Workers, Busy(v)', TaskOf(v)'.op = "open"
               PROVE  BufferAt(worker[v].pc, worker[v].ctx, out[TaskOf(v).o], TaskOf(v).n)'
    BY DEF Reading
  <2>1. CASE v # w
    <3>1. /\ Busy(v) /\ worker'[v] = worker[v] /\ worker[v].task \in 1 .. Len(tasks)
          /\ worker[v].task # t /\ Pending(worker[v].task)
          /\ TaskOf(v) = tasks[worker[v].task] /\ TaskOf(v)' = tasks'[worker[v].task]
          /\ (TaskOf(v).op = "open" => TaskOf(v).o \in Outs)
      BY <1>12, <2>1
    <3>2. /\ TaskOf(v).op = "open" /\ TaskOf(v)'.o = TaskOf(v).o /\ TaskOf(v)'.n = TaskOf(v).n
      BY <1>9, <3>1
    <3>3. out'[TaskOf(v).o] = out[TaskOf(v).o]
      BY <1>8, <3>1, <3>2
    <3>4. BufferAt(worker[v].pc, worker[v].ctx, out[TaskOf(v).o], TaskOf(v).n)
      BY <3>1, <3>2 DEF EInv, Reading
    <3> QED BY <3>1, <3>2, <3>3, <3>4 DEF BufferAt
  <2>2. CASE v = w
    <3>1. r = "running" /\ TaskOf(w)' = tasks'[t] /\ tasks'[t].op = k.op
      BY <1>4, <1>9, <1>11, <2>2 DEF Busy, TaskOf
    <3>2. k.op = "open" /\ OpenEffects(w, p, r, c)
      BY <1>1, <1>3, <2>2, <3>1 DEF SealEffects
    <3>3. BufferAt(p, c, out'[k.o], k.n)
      BY <1>3, <3>1, <3>2 DEF OpenEffects
    <3>4. TaskOf(w)'.o = k.o /\ TaskOf(w)'.n = k.n
      BY <1>4, <1>9, <3>1
    <3> QED BY <1>11, <2>2, <3>3, <3>4 DEF BufferAt
  <2> QED BY <2>1, <2>2
<1>21. Answers'
  <2> SUFFICES ASSUME NEW o \in Outs, NEW u \in DOMAIN tasks', Latest(u, o)', ~ Pending(u)'
               PROVE  IF tasks'[u].state = "ok" THEN \E s \in OkSeals' : Accepted(u, s)'
                      ELSE Wiped(out[o])'
    BY DEF Answers
  <2>1. Latest(u, o) /\ u \in 1 .. Len(tasks) /\ tasks[u].o = o
    <3>1. Latest(u, o)
      BY <1>4, LatestKept
    <3> QED BY <1>4, <3>1 DEF Latest
  <2>2. CASE u # t
    <3>1. ~ Pending(u) /\ tasks'[u].state = tasks[u].state /\ out'[o] = out[o]
      BY <1>5, <1>6, <1>8, <2>1, <2>2
    <3>2. CASE tasks[u].state = "ok"
      <4>1. PICK s \in OkSeals : Accepted(u, s)
        BY <1>4, <2>1, <3>1, <3>2 DEF EInv, Answers
      <4>2. Accepted(u, s)' /\ s \in OkSeals'
        BY <1>4, <2>1, <3>1, <4>1, AcceptedKept, OkSealsKept
      <4> QED BY <3>1, <3>2, <4>2
    <3>3. CASE tasks[u].state # "ok"
      <4>1. Wiped(out[o])
        BY <1>4, <2>1, <3>1, <3>3 DEF EInv, Answers
      <4> QED BY <3>1, <3>3, <4>1 DEF Wiped
    <3> QED BY <3>2, <3>3
  <2>3. CASE u = t
    <3>1. k.op = "open" /\ k.o = o /\ tasks'[u].state = r /\ r # "running"
      <4>1. tasks[t].op = "open"
        BY <1>4, <2>1, <2>3 DEF EInv, OneReader
      <4> QED BY <1>4, <1>5, <2>1, <2>3, <4>1 DEF Pending
    <3>2. OpenEffects(w, p, r, c)
      BY <1>1, <1>3, <3>1 DEF SealEffects
    <3>3. CASE r \in {"error", "invalid_tag"}
      <4>1. Wiped(out'[o])
        BY <1>3, <3>1, <3>2, <3>3 DEF OpenEffects
      <4> QED BY <3>1, <3>3, <4>1 DEF Wiped
    <3>4. CASE r = "ok"
      <4>1. worker[w].pc = "final" /\ authentic(worker[w].ctx) /\ out' = out
        BY <1>3, <3>2, <3>4 DEF OpenEffects
      <4>2. PICK s \in OkSeals : Accepted(t, s)
        BY <1>2, <1>3, <3>1, <4>1, AuthenticYields
      <4>3. Accepted(t, s)' /\ s \in OkSeals'
        BY <1>4, <4>1, <4>2, AcceptedKept, OkSealsKept
      <4> QED BY <2>3, <3>1, <3>4, <4>3
    <3> QED BY <1>3, <3>1, <3>2, <3>3, <3>4 DEF OpenEffects
  <2> QED BY <2>2, <2>3
<1> QED BY <1>13, <1>14, <1>15, <1>16, <1>17, <1>18, <1>19, <1>20, <1>21 DEF EInv

-----------------------------------------------------------------------------
(* The queue and the caller keep EInv.                                     *)

\* A worker whose task, frame and plaintext buffer a step leaves alone.
LEMMA OpeningStep ==
  ASSUME EInv, Extends, NEW v \in Workers, Busy(v), TaskOf(v).op = "open",
         worker'[v].pc = worker[v].pc, worker'[v].ctx = worker[v].ctx,
         worker'[v].task = worker[v].task,
         tasks'[worker[v].task].seen = tasks[worker[v].task].seen,
         frame'[TaskOf(v).f] = frame[TaskOf(v).f] \/ frame'[TaskOf(v).f].by \notin OkSeals
  PROVE  OpeningAt(worker[v].pc, worker[v].ctx, TaskOf(v), FrameOf(v))'
<1>1. PICK q, d, l, b : /\ q = worker[v].pc /\ d = worker[v].ctx
                        /\ l = TaskOf(v) /\ b = FrameOf(v)
  OBVIOUS
<1>2. PICK m, e : m = TaskOf(v)' /\ e = FrameOf(v)'
  OBVIOUS
<1>3. /\ TypeOK /\ worker[v].task \in 1 .. Len(tasks) /\ worker[v].task \in DOMAIN tasks
      /\ TaskOf(v) = tasks[worker[v].task] /\ TaskOf(v)' = tasks'[worker[v].task]
  <2>1. TypeOK /\ worker[v].task \in 1 .. Len(tasks)
    BY Working DEF EInv
  <2> QED BY <2>1, Domains DEF TaskOf
<1>4. OpeningAt(q, d, l, b)
  BY <1>1 DEF EInv, Opening
<1>5. l.seen # 0 => l.seen \in OkSeals
  BY <1>1, <1>3 DEF EInv, SeenSeals
<1>6. m.seen = l.seen /\ m.f = l.f
  BY <1>1, <1>2, <1>3 DEF Extends
<1>7. e = b \/ e.by \notin OkSeals
  BY <1>1, <1>2, <1>6 DEF FrameOf
<1>8. OpeningAt(q, d, m, e)'
  BY <1>3, <1>4, <1>5, <1>6, <1>7, OpeningKept
<1> QED BY <1>1, <1>2, <1>8

\* A refused open was not given an intact frame.
LEMMA RefusedUnseen ==
  ASSUME EInv, NEW k \in Task, refused(k), k.op = "open"
  PROVE  SealSeen(k) = 0
<1> SUFFICES ASSUME SealSeen(k) # 0 PROVE FALSE
  OBVIOUS
<1> DEFINE s == frame[k.f].by
<1>1. s # 0 /\ tasks[s].state = "ok" /\ tasks[s].n = k.n
  BY DEF SealSeen
<1>2. k.f \in Frames /\ k.n \in Nat /\ Capacity \in Nat
  BY Constants DEF Task
<1>3. frame[k.f].used = k.n
  BY <1>1, <1>2 DEF EInv, NInv, SealedFramesCorrect
<1>4. s \in DOMAIN tasks /\ tasks[s].op = "seal"
  <2>1. s \in 1 .. taken /\ tasks[s].op = "seal"
    BY <1>1, <1>2 DEF EInv, NInv, LastWriter
  <2>2. taken \in 0 .. Len(tasks) /\ DOMAIN tasks = 1 .. Len(tasks)
    BY Domains DEF EInv, NInv, TypeOK
  <2> QED BY <2>1, <2>2
<1>5. tasks[s].n \in 1 .. Capacity
  BY <1>1, <1>4 DEF EInv, NInv, SealsAnswered
<1> QED BY <1>1, <1>2, <1>3, <1>5 DEF refused

\* The seal that a task begins with is a completed one.
LEMMA SeenAtStart ==
  ASSUME EInv, NEW k \in Task, SealSeen(k) # 0
  PROVE  /\ k.op = "open" /\ SealSeen(k) \in OkSeals
         /\ tasks[SealSeen(k)].key = k.key /\ tasks[SealSeen(k)].n = k.n
<1> DEFINE s == frame[k.f].by
<1>1. SealSeen(k) = s /\ k.op = "open" /\ s # 0 /\ tasks[s].state = "ok"
      /\ tasks[s].key = k.key /\ tasks[s].n = k.n
  BY DEF SealSeen
<1>2. k.f \in Frames
  BY DEF Task
<1>3. s \in 1 .. taken /\ tasks[s].op = "seal"
  BY <1>1, <1>2 DEF EInv, NInv, LastWriter
<1>4. taken \in 0 .. Len(tasks) /\ DOMAIN tasks = 1 .. Len(tasks)
  BY Domains DEF EInv, NInv, TypeOK
<1> QED BY <1>1, <1>3, <1>4 DEF OkSeals

LEMMA TakeEInv ==
  ASSUME EInv, NInv', NEW w \in Workers, Take(w)
  PROVE  EInv'
<1>1. PICK t, k, r, p : Takes(w, t, k, r, p)
  BY TakeFacts DEF EInv
<1>2. /\ r \in {"error", "running"} /\ k = tasks[t] /\ k \in Task
      /\ p = IF k.op = "seal" THEN "context" ELSE "version"
      /\ UNCHANGED <<frame, out, faults>>
      /\ t \in 1 .. Len(tasks) /\ tasks[t].state = "queued"
      /\ tasks' \in Seq(Task) /\ Len(tasks') = Len(tasks) /\ DOMAIN tasks' = 1 .. Len(tasks)
      /\ tasks'[t].state = r /\ tasks'[t].seen = SealSeen(k)
  BY <1>1 DEF Takes
<1>3. \A u \in 1 .. Len(tasks) :
        /\ tasks'[u].op = tasks[u].op /\ tasks'[u].key = tasks[u].key
        /\ tasks'[u].n = tasks[u].n /\ tasks'[u].f = tasks[u].f /\ tasks'[u].o = tasks[u].o
        /\ u # t => tasks'[u] = tasks[u]
  BY <1>1 DEF Takes
<1>4. /\ worker[w].pc = "idle" /\ \A v \in Workers \ {w} : worker'[v] = worker[v]
      /\ r = "error" => refused(k) /\ worker'[w] = worker[w]
      /\ r = "running" => worker'[w].pc = p /\ worker'[w].task = t
      /\ worker'[w].ctx = worker[w].ctx
  BY <1>1 DEF Takes
<1>5. TypeOK /\ NInv /\ Len(tasks) \in Nat /\ DOMAIN tasks = 1 .. Len(tasks)
      /\ t \in DOMAIN tasks
  BY <1>2, Domains DEF EInv, NInv
<1>6. Extends
  BY <1>2, <1>3, <1>5 DEF Extends
<1>7. \A u \in 1 .. Len(tasks) : Pending(u)' => Pending(u)
  BY <1>2, <1>3 DEF Pending
<1>8. k.op = "open" => k.o \in Outs /\ Pending(t)
  BY <1>2, <1>5 DEF NInv, Queueing, Pending
<1>9. ASSUME NEW v \in Workers, Busy(v)'
      PROVE  \/ /\ v = w /\ r = "running" /\ worker'[w].pc = p /\ worker'[w].task = t
             \/ /\ v # w /\ Busy(v) /\ worker'[v] = worker[v]
                /\ worker[v].task \in 1 .. Len(tasks) /\ TaskOf(v) = tasks[worker[v].task]
                /\ tasks'[worker[v].task] = tasks[worker[v].task]
  <2>1. CASE v = w
    BY <1>2, <1>4, <1>9, <2>1 DEF Busy
  <2>2. CASE v # w
    <3>1. Busy(v) /\ worker'[v] = worker[v]
      BY <1>4, <1>9, <2>2 DEF Busy
    <3>2. /\ worker[v].task \in 1 .. Len(tasks) /\ TaskOf(v) = tasks[worker[v].task]
          /\ TaskOf(v).state = "running"
      BY <1>5, <3>1, Working
    <3> QED BY <1>2, <1>3, <2>2, <3>1, <3>2
  <2> QED BY <2>1, <2>2
<1>10. SeenSeals'
  <2>1. ASSUME NEW u \in 1 .. Len(tasks)
        PROVE  \/ tasks'[u].seen \in {0, tasks[u].seen}
               \/ /\ tasks[u].op = "open" /\ tasks'[u].seen \in OkSeals
                  /\ tasks[tasks'[u].seen].key = tasks[u].key
                  /\ tasks[tasks'[u].seen].n = tasks[u].n
    <3>1. CASE u # t
      BY <1>3, <3>1
    <3>2. CASE u = t
      BY <1>2, <3>2, SeenAtStart
    <3> QED BY <3>1, <3>2
  <2>2. \A u \in 1 .. Len(tasks') : u > Len(tasks) => tasks'[u].seen = 0
    BY <1>2, <1>5
  <2> QED BY <1>6, <2>1, <2>2, SeenSealsStep
<1>11. Opening'
  <2> SUFFICES ASSUME NEW v \in Workers, Busy(v)', TaskOf(v)'.op = "open"
               PROVE  OpeningAt(worker[v].pc, worker[v].ctx, TaskOf(v), FrameOf(v))'
    BY DEF Opening
  <2>1. CASE v = w /\ worker'[w].pc = p /\ worker'[w].task = t
    <3>1. p = "version"
      BY <1>2, <1>3, <2>1 DEF TaskOf
    <3> QED BY <2>1, <3>1 DEF OpeningAt
  <2>2. CASE /\ v # w /\ Busy(v) /\ worker'[v] = worker[v]
             /\ worker[v].task \in 1 .. Len(tasks) /\ TaskOf(v) = tasks[worker[v].task]
             /\ tasks'[worker[v].task] = tasks[worker[v].task]
    <3>1. TaskOf(v).op = "open"
      BY <2>2 DEF TaskOf
    <3> QED BY <1>2, <1>6, <2>2, <3>1, OpeningStep
  <2> QED BY <1>9, <2>1, <2>2
<1>12. ContextsLive'
  BY <1>2, <1>4 DEF EInv, ContextsLive
<1>13. IntactFramesOpen'
  <2> SUFFICES ASSUME NEW u \in 1 .. Len(tasks), tasks'[u].seen # 0,
                      frame'[tasks'[u].f].by = tasks'[u].seen, faults' = MaxFaults
               PROVE  tasks'[u].state \in {"running", "ok"}
    BY <1>2 DEF IntactFramesOpen
  <2>1. CASE u # t
    BY <1>2, <1>3, <1>5, <2>1 DEF EInv, IntactFramesOpen
  <2>2. CASE u = t
    <3>1. k.op = "open" /\ SealSeen(k) # 0
      BY <1>2, <2>2, SeenAtStart
    <3>2. ~ refused(k)
      BY <1>2, <3>1, RefusedUnseen
    <3> QED BY <1>2, <1>4, <2>2, <3>2
  <2> QED BY <2>1, <2>2
<1>14. TagsKnown'
  <2>1. ASSUME NEW f \in Frames, NEW i \in 0 .. Capacity PROVE Known(frame[f].cell[i])'
    <3>1. PICK x : x = frame[f].cell[i]
      OBVIOUS
    <3>2. Known(x)'
      BY <1>5, <1>6, <3>1, KnownKept DEF EInv, TagsKnown
    <3> QED BY <1>2, <3>1, <3>2
  <2>2. ASSUME NEW v \in Workers PROVE Known(worker[v].ctx.tag)'
    <3>1. PICK x : x = worker[v].ctx.tag
      OBVIOUS
    <3>2. Known(x)'
      BY <1>5, <1>6, <3>1, KnownKept DEF EInv, TagsKnown
    <3>3. worker'[v].ctx = worker[v].ctx
      BY <1>4
    <3> QED BY <3>1, <3>2, <3>3
  <2> QED BY <2>1, <2>2 DEF TagsKnown
<1>15. OneReader'
  BY <1>2, <1>6, <1>7, OneReaderKept
<1>16. Waiting'
  <2> SUFFICES ASSUME NEW u \in 1 .. Len(tasks), tasks'[u].op = "open", tasks'[u].state = "queued"
               PROVE  out'[tasks'[u].o] = [i \in 0 .. tasks'[u].n - 1 |-> Stale]
    BY <1>2 DEF Waiting
  <2>1. u # t
    BY <1>2
  <2> QED BY <1>2, <1>3, <1>5, <2>1 DEF EInv, Waiting
<1>17. Reading'
  <2> SUFFICES ASSUME NEW v \in Workers, Busy(v)', TaskOf(v)'.op = "open"
               PROVE  BufferAt(worker[v].pc, worker[v].ctx, out[TaskOf(v).o], TaskOf(v).n)'
    BY DEF Reading
  <2>1. CASE v = w /\ worker'[w].pc = p /\ worker'[w].task = t
    <3>1. p = "version" /\ k.op = "open" /\ TaskOf(v)'.n = k.n /\ TaskOf(v)'.o = k.o
      BY <1>2, <1>3, <2>1 DEF TaskOf
    <3>2. out'[k.o] = [i \in 0 .. k.n - 1 |-> Stale]
      BY <1>2, <1>5, <3>1 DEF EInv, Waiting
    <3> QED BY <2>1, <3>1, <3>2 DEF BufferAt
  <2>2. CASE /\ v # w /\ Busy(v) /\ worker'[v] = worker[v]
             /\ worker[v].task \in 1 .. Len(tasks) /\ TaskOf(v) = tasks[worker[v].task]
             /\ tasks'[worker[v].task] = tasks[worker[v].task]
    <3>1. TaskOf(v)' = TaskOf(v) /\ TaskOf(v).op = "open"
      BY <2>2 DEF TaskOf
    <3>2. BufferAt(worker[v].pc, worker[v].ctx, out[TaskOf(v).o], TaskOf(v).n)
      BY <2>2, <3>1 DEF EInv, Reading
    <3> QED BY <1>2, <2>2, <3>1, <3>2 DEF BufferAt
  <2> QED BY <1>9, <2>1, <2>2
<1>18. Answers'
  <2> SUFFICES ASSUME NEW o \in Outs, NEW u \in DOMAIN tasks', Latest(u, o)', ~ Pending(u)'
               PROVE  IF tasks'[u].state = "ok" THEN \E s \in OkSeals' : Accepted(u, s)'
                      ELSE Wiped(out[o])'
    BY DEF Answers
  <2>1. Latest(u, o) /\ u \in 1 .. Len(tasks) /\ tasks[u].o = o
    <3>1. Latest(u, o)
      BY <1>2, <1>5, <1>6, LatestKept
    <3> QED BY <1>5, <3>1 DEF Latest
  <2>2. CASE u # t
    <3>1. ~ Pending(u) /\ tasks'[u].state = tasks[u].state
      BY <1>3, <2>1, <2>2 DEF Pending
    <3>2. CASE tasks[u].state = "ok"
      <4>1. PICK s \in OkSeals : Accepted(u, s)
        BY <1>5, <2>1, <3>1, <3>2 DEF EInv, Answers
      <4>2. Accepted(u, s)' /\ s \in OkSeals'
        BY <1>2, <1>5, <1>6, <2>1, <4>1, AcceptedKept, OkSealsKept
      <4> QED BY <3>1, <3>2, <4>2
    <3>3. CASE tasks[u].state # "ok"
      <4>1. Wiped(out[o])
        BY <1>5, <2>1, <3>1, <3>3 DEF EInv, Answers
      <4> QED BY <1>2, <3>1, <3>3, <4>1 DEF Wiped
    <3> QED BY <3>2, <3>3
  <2>3. CASE u = t
    <3>1. k.op = "open" /\ k.o = o /\ tasks'[u].state = "error"
      BY <1>2, <1>5, <2>1, <2>3 DEF EInv, OneReader, Pending
    <3>2. out'[o] = [i \in 0 .. k.n - 1 |-> Stale]
      BY <1>2, <1>5, <3>1 DEF EInv, Waiting
    <3>3. Wiped(out'[o])
      BY <3>2 DEF Wiped, Stale
    <3> QED BY <3>1, <3>3 DEF Wiped
  <2> QED BY <2>2, <2>3
<1> QED BY <1>10, <1>11, <1>12, <1>13, <1>14, <1>15, <1>16, <1>17, <1>18 DEF EInv

\* A new task e is the last one; nothing else changes but its plaintext
\* buffer, which no other pending task uses.
LEMMA SubmittedEInv ==
  ASSUME EInv, NInv', NEW e \in Task, tasks' = Append(tasks, e),
         e.state = "queued", e.seen = 0, UNCHANGED <<worker, frame, faults>>,
         \/ e.op = "seal" /\ e.o = None /\ out' = out
         \/ /\ e.op = "open" /\ e.o \in Outs
            /\ \A t \in DOMAIN tasks : Pending(t) => tasks[t].o # e.o
            /\ out' = [out EXCEPT ![e.o] = [i \in 0 .. e.n - 1 |-> Stale]]
  PROVE  EInv'
<1>1. TypeOK /\ NInv /\ Len(tasks) \in Nat /\ DOMAIN tasks = 1 .. Len(tasks)
      /\ tasks \in Seq(Task) /\ DOMAIN out = Outs
  BY Domains, TypesNow DEF EInv, NInv
<1>2. PICK z : z = Len(tasks) + 1
  OBVIOUS
<1>3. /\ tasks' \in Seq(Task) /\ Len(tasks') = z /\ DOMAIN tasks' = 1 .. z
      /\ \A u \in 1 .. Len(tasks) : tasks'[u] = tasks[u]
      /\ tasks'[z] = e
      /\ \A u \in 1 .. z : u \in 1 .. Len(tasks) \/ u = z
  BY <1>1, <1>2
<1>4. Extends
  BY <1>1, <1>2, <1>3 DEF Extends
<1>5. /\ \A u \in 1 .. Len(tasks) : Pending(u)' <=> Pending(u)
      /\ Pending(z)'
  BY <1>3 DEF Pending
<1>6. \A o \in Outs : o # e.o => out'[o] = out[o]
  BY <1>1
<1>7. \A u \in 1 .. Len(tasks) : Pending(u) /\ tasks[u].o \in Outs => tasks[u].o # e.o
  BY <1>1, Constants
<1>8. ASSUME NEW v \in Workers, Busy(v)'
      PROVE  /\ Busy(v) /\ worker[v].task \in 1 .. Len(tasks) /\ Pending(worker[v].task)
             /\ TaskOf(v) = tasks[worker[v].task] /\ TaskOf(v)' = TaskOf(v)
             /\ (TaskOf(v).op = "open" => TaskOf(v).o \in Outs)
             /\ tasks'[worker[v].task] = tasks[worker[v].task]
  <2>1. Busy(v)
    BY <1>8 DEF Busy
  <2>2. /\ worker[v].task \in 1 .. Len(tasks) /\ TaskOf(v) = tasks[worker[v].task]
        /\ TaskOf(v).state = "running" /\ (TaskOf(v).op = "open" => TaskOf(v).o \in Outs)
    BY <1>1, <2>1, Working
  <2> QED BY <1>3, <2>1, <2>2 DEF TaskOf, Pending
<1>9. SeenSeals'
  <2>1. \A u \in 1 .. Len(tasks) : tasks'[u].seen \in {0, tasks[u].seen}
    BY <1>3
  <2>2. \A u \in 1 .. Len(tasks') : u > Len(tasks) => tasks'[u].seen = 0
    BY <1>1, <1>2, <1>3
  <2> QED BY <1>4, <2>1, <2>2, SeenSealsStep
<1>10. Opening'
  <2> SUFFICES ASSUME NEW v \in Workers, Busy(v)', TaskOf(v)'.op = "open"
               PROVE  OpeningAt(worker[v].pc, worker[v].ctx, TaskOf(v), FrameOf(v))'
    BY DEF Opening
  <2>1. Busy(v) /\ TaskOf(v).op = "open" /\ tasks'[worker[v].task].seen = tasks[worker[v].task].seen
    BY <1>8
  <2> QED BY <1>4, <2>1, OpeningStep
<1>11. ContextsLive'
  BY DEF EInv, ContextsLive
<1>12. IntactFramesOpen'
  <2> SUFFICES ASSUME NEW u \in 1 .. z, tasks'[u].seen # 0,
                      frame'[tasks'[u].f].by = tasks'[u].seen, faults' = MaxFaults
               PROVE  tasks'[u].state \in {"running", "ok"}
    BY <1>3 DEF IntactFramesOpen
  <2>1. u \in 1 .. Len(tasks)
    BY <1>3
  <2> QED BY <1>1, <1>3, <2>1 DEF EInv, IntactFramesOpen
<1>13. TagsKnown'
  <2>1. ASSUME NEW f \in Frames, NEW i \in 0 .. Capacity PROVE Known(frame[f].cell[i])'
    <3>1. PICK x : x = frame[f].cell[i]
      OBVIOUS
    <3>2. Known(x)'
      BY <1>1, <1>4, <3>1, KnownKept DEF EInv, TagsKnown
    <3> QED BY <3>1, <3>2
  <2>2. ASSUME NEW v \in Workers PROVE Known(worker[v].ctx.tag)'
    <3>1. PICK x : x = worker[v].ctx.tag
      OBVIOUS
    <3>2. Known(x)'
      BY <1>1, <1>4, <3>1, KnownKept DEF EInv, TagsKnown
    <3> QED BY <3>1, <3>2
  <2> QED BY <2>1, <2>2 DEF TagsKnown
<1>14. \A o \in Outs :
         /\ o = e.o => Latest(z, o)'
         /\ o # e.o => \A u \in 1 .. z : Latest(u, o)' <=> Latest(u, o)
  <2>1. ASSUME NEW o \in Outs, o = e.o PROVE Latest(z, o)'
    BY <1>1, <1>2, <1>3, <2>1 DEF Latest
  <2>2. ASSUME NEW o \in Outs, o # e.o, NEW u \in 1 .. z PROVE Latest(u, o)' <=> Latest(u, o)
    BY <1>1, <1>2, <1>3, <2>2 DEF Latest
  <2> QED BY <2>1, <2>2
<1>15. OneReader'
  <2>1. ASSUME NEW u \in 1 .. z, tasks'[u].o \in Outs
        PROVE  tasks'[u].op = "open" /\ (Pending(u)' => Latest(u, tasks[u].o)')
    <3>1. CASE u = z
      <4>1. PICK o \in Outs : o = tasks'[u].o
        BY <2>1
      <4>2. o = e.o /\ tasks'[u].op = "open"
        BY <1>3, <3>1, <4>1, Constants
      <4>3. Latest(u, o)'
        BY <1>14, <3>1, <4>2
      <4> QED BY <4>1, <4>2, <4>3
    <3>2. CASE u \in 1 .. Len(tasks)
      <4>1. tasks[u].o \in Outs /\ tasks[u].op = "open" /\ tasks'[u] = tasks[u]
        BY <1>1, <1>3, <2>1, <3>2 DEF EInv, OneReader
      <4>2. ASSUME Pending(u)' PROVE Latest(u, tasks[u].o)'
        <5>1. Pending(u) /\ tasks[u].o # e.o
          BY <1>5, <1>7, <3>2, <4>1, <4>2
        <5>2. PICK o \in Outs : o = tasks[u].o
          BY <4>1
        <5>3. Latest(u, o)
          BY <1>1, <3>2, <5>1, <5>2 DEF EInv, OneReader
        <5>4. Latest(u, o)'
          BY <1>14, <2>1, <5>1, <5>2, <5>3
        <5> QED BY <4>1, <5>2, <5>4
      <4> QED BY <4>1, <4>2
    <3> QED BY <1>3, <3>1, <3>2
  <2>2. ASSUME NEW o \in Outs, NEW u \in 1 .. z, tasks'[u].o = o
        PROVE  \E t \in DOMAIN tasks' : Latest(t, o)'
    <3>1. CASE o = e.o
      BY <1>1, <1>2, <1>3, <1>14, <3>1
    <3>2. CASE o # e.o
      <4>1. u \in DOMAIN tasks /\ tasks[u].o = o
        BY <1>1, <1>3, <2>2, <3>2
      <4>2. PICK t \in DOMAIN tasks : Latest(t, o)
        BY <4>1 DEF EInv, OneReader
      <4>3. t \in 1 .. z
        BY <1>1, <1>2
      <4>4. Latest(t, o)'
        BY <1>14, <3>2, <4>2, <4>3
      <4> QED BY <1>3, <4>3, <4>4
    <3> QED BY <3>1, <3>2
  <2> QED BY <1>3, <2>1, <2>2 DEF OneReader
<1>16. Waiting'
  <2> SUFFICES ASSUME NEW u \in 1 .. z, tasks'[u].op = "open", tasks'[u].state = "queued"
               PROVE  out'[tasks'[u].o] = [i \in 0 .. tasks'[u].n - 1 |-> Stale]
    BY <1>3 DEF Waiting
  <2>1. CASE u = z
    BY <1>1, <1>3, <2>1
  <2>2. CASE u \in 1 .. Len(tasks)
    <3>1. tasks[u].op = "open" /\ tasks[u].state = "queued" /\ tasks'[u] = tasks[u]
      BY <1>3, <2>2
    <3>2. tasks[u].o \in Outs /\ Pending(u)
      BY <1>1, <2>2, <3>1 DEF NInv, Queueing, Pending
    <3>3. out'[tasks[u].o] = out[tasks[u].o]
      BY <1>6, <1>7, <2>2, <3>2
    <3> QED BY <1>1, <2>2, <3>1, <3>3 DEF EInv, Waiting
  <2> QED BY <1>3, <2>1, <2>2
<1>17. Reading'
  <2> SUFFICES ASSUME NEW v \in Workers, Busy(v)', TaskOf(v)'.op = "open"
               PROVE  BufferAt(worker[v].pc, worker[v].ctx, out[TaskOf(v).o], TaskOf(v).n)'
    BY DEF Reading
  <2>1. /\ Busy(v) /\ TaskOf(v)' = TaskOf(v) /\ TaskOf(v).op = "open"
        /\ out'[TaskOf(v).o] = out[TaskOf(v).o]
    BY <1>6, <1>7, <1>8
  <2>2. BufferAt(worker[v].pc, worker[v].ctx, out[TaskOf(v).o], TaskOf(v).n)
    BY <2>1 DEF EInv, Reading
  <2> QED BY <2>1, <2>2 DEF BufferAt
<1>18. Answers'
  <2> SUFFICES ASSUME NEW o \in Outs, NEW u \in DOMAIN tasks', Latest(u, o)', ~ Pending(u)'
               PROVE  IF tasks'[u].state = "ok" THEN \E s \in OkSeals' : Accepted(u, s)'
                      ELSE Wiped(out[o])'
    BY DEF Answers
  <2>1. u \in 1 .. Len(tasks) /\ tasks'[u] = tasks[u] /\ ~ Pending(u) /\ tasks'[u].o = o
    BY <1>3, <1>5 DEF Latest
  <2>2. o # e.o
    <3> SUFFICES ASSUME o = e.o PROVE FALSE
      OBVIOUS
    <3>1. z <= u
      BY <1>1, <1>2, <1>3 DEF Latest
    <3> QED BY <1>1, <1>2, <2>1, <3>1
  <2>3. Latest(u, o) /\ out'[o] = out[o]
    BY <1>3, <1>6, <1>14, <2>1, <2>2
  <2>4. CASE tasks[u].state = "ok"
    <3>1. PICK s \in OkSeals : Accepted(u, s)
      BY <1>1, <2>1, <2>3, <2>4 DEF EInv, Answers
    <3>2. Accepted(u, s)' /\ s \in OkSeals'
      BY <1>1, <1>4, <2>1, <2>3, <3>1, AcceptedKept, OkSealsKept
    <3> QED BY <2>1, <2>4, <3>2
  <2>5. CASE tasks[u].state # "ok"
    <3>1. Wiped(out[o])
      BY <1>1, <2>1, <2>3, <2>5 DEF EInv, Answers
    <3> QED BY <2>1, <2>3, <2>5, <3>1 DEF Wiped
  <2> QED BY <2>4, <2>5
<1> QED BY <1>9, <1>10, <1>11, <1>12, <1>13, <1>15, <1>16, <1>17, <1>18 DEF EInv

LEMMA SubmitEInv ==
  ASSUME EInv, NInv', NEW f \in Frames, NEW n \in Lens, NEW salt \in Salts,
         SubmitSerialize(f, n, salt) \/ \E o \in Outs : SubmitDeserialize(f, o, n, salt)
  PROVE  EInv'
<1>1. TypeOK
  BY DEF EInv, NInv
<1>2. CASE SubmitSerialize(f, n, salt)
  <2> DEFINE e == [op |-> "seal", key |-> get_key(salt), n |-> n, f |-> f, o |-> None,
                   state |-> "queued", seen |-> 0]
  <2>1. master \in Masters /\ tasks' = Append(tasks, e)
    BY <1>1, <1>2 DEF SubmitSerialize, Submit, TypeOK
  <2>2. e \in Task
    BY <2>1, Constants DEF Task, Keys, get_key, States
  <2>3. e.op = "seal" /\ e.state = "queued" /\ e.o = None /\ e.seen = 0
    OBVIOUS
  <2>4. UNCHANGED <<worker, frame, faults, out>>
    BY <1>2 DEF SubmitSerialize
  <2> HIDE DEF e
  <2> QED BY <2>1, <2>2, <2>3, <2>4, SubmittedEInv
<1>3. ASSUME NEW o \in Outs, SubmitDeserialize(f, o, n, salt) PROVE EInv'
  <2> DEFINE e == [op |-> "open", key |-> get_key(salt), n |-> n, f |-> f, o |-> o,
                   state |-> "queued", seen |-> 0]
  <2>1. master \in Masters /\ tasks' = Append(tasks, e)
    BY <1>1, <1>3 DEF SubmitDeserialize, Submit, TypeOK
  <2>2. e \in Task
    BY <2>1, Constants DEF Task, Keys, get_key, States
  <2>3. e.op = "open" /\ e.state = "queued" /\ e.o = o /\ e.seen = 0 /\ e.n = n
    OBVIOUS
  <2>4. UNCHANGED <<worker, frame, faults>> /\ out' = [out EXCEPT ![o] = [i \in 0 .. n - 1 |-> Stale]]
        /\ \A t \in DOMAIN tasks : Pending(t) => tasks[t].o # o
    BY <1>3 DEF SubmitDeserialize
  <2> HIDE DEF e
  <2> QED BY <2>1, <2>2, <2>3, <2>4, SubmittedEInv
<1> QED BY <1>2, <1>3

\* A step that leaves the tasks and the plaintext alone.
LEMMA SameTasks ==
  ASSUME EInv, NInv', UNCHANGED <<tasks, out, faults>>, FramesStep,
         \A f \in Frames, i \in 0 .. Capacity :
           frame'[f].cell[i] \in {frame[f].cell[i], Junk, NoTag},
         worker' = worker \/ worker' = [w \in Workers |-> NewWorker]
  PROVE  EInv'
<1>1. TypeOK /\ NInv /\ tasks \in Seq(Task) /\ Extends /\ DOMAIN tasks = 1 .. Len(tasks)
  BY TypesNow, Domains DEF EInv, NInv, Extends
<1>2. \A v \in Workers : Busy(v)' => Busy(v) /\ worker' = worker /\ TaskOf(v)' = TaskOf(v)
  BY DEF Busy, NewWorker, TaskOf
<1>3. OkSeals' = OkSeals /\ \A x : Known(x) => Known(x)'
  <2>1. \A x : Known(x) => Known(x)'
    BY <1>1, KnownKept
  <2> QED BY <2>1 DEF OkSeals
<1>4. SeenSeals' /\ ContextsLive'
  <2>1. NewWorker.ctx.state # "null"
    BY DEF NewWorker, Reset
  <2> QED BY <1>3, <2>1 DEF EInv, SeenSeals, ContextsLive
<1>5. Opening'
  <2> SUFFICES ASSUME NEW v \in Workers, Busy(v)', TaskOf(v)'.op = "open"
               PROVE  OpeningAt(worker[v].pc, worker[v].ctx, TaskOf(v), FrameOf(v))'
    BY DEF Opening
  <2>1. Busy(v) /\ worker' = worker /\ TaskOf(v).op = "open"
    BY <1>2
  <2>2. TaskOf(v).f \in Frames
    BY <1>1, <2>1, Working
  <2> QED BY <1>1, <2>1, <2>2, OpeningStep DEF FramesStep
<1>6. IntactFramesOpen'
  <2> SUFFICES ASSUME NEW u \in DOMAIN tasks, tasks[u].seen # 0,
                      frame'[tasks[u].f].by = tasks[u].seen, faults = MaxFaults
               PROVE  tasks[u].state \in {"running", "ok"}
    BY DEF IntactFramesOpen
  <2>1. tasks[u].seen \in OkSeals /\ tasks[u].f \in Frames
    <3>1. tasks[u] \in Task
      BY <1>1
    <3> QED BY <3>1 DEF EInv, SeenSeals, Task
  <2>2. frame[tasks[u].f].by = tasks[u].seen
    BY <2>1 DEF FramesStep
  <2> QED BY <2>2 DEF EInv, IntactFramesOpen
<1>7. TagsKnown'
  <2>1. Known(Junk) /\ Known(NoTag)
    BY DEF Known, Junk, Chunk, Chunks, NullKeys
  <2>2. ASSUME NEW f \in Frames, NEW i \in 0 .. Capacity PROVE Known(frame[f].cell[i])'
    <3>1. PICK x : x = frame'[f].cell[i]
      OBVIOUS
    <3>2. Known(x)
      BY <2>1, <3>1 DEF EInv, TagsKnown
    <3> QED BY <1>3, <3>1, <3>2
  <2>3. ASSUME NEW v \in Workers PROVE Known(worker[v].ctx.tag)'
    <3>1. PICK x : x = worker'[v].ctx.tag
      OBVIOUS
    <3>2. NewWorker.ctx.tag = NoTag
      BY DEF NewWorker, Reset
    <3>3. Known(x)
      BY <2>1, <3>1, <3>2 DEF EInv, TagsKnown
    <3> QED BY <1>3, <3>1, <3>3
  <2> QED BY <2>2, <2>3 DEF TagsKnown
<1>8. OneReader'
  BY <1>1, OneReaderKept DEF Pending
<1>9. Waiting'
  BY DEF EInv, Waiting
<1>10. Reading'
  <2> SUFFICES ASSUME NEW v \in Workers, Busy(v)', TaskOf(v)'.op = "open"
               PROVE  BufferAt(worker[v].pc, worker[v].ctx, out[TaskOf(v).o], TaskOf(v).n)'
    BY DEF Reading
  <2>1. Busy(v) /\ worker' = worker /\ TaskOf(v)' = TaskOf(v) /\ TaskOf(v).op = "open"
    BY <1>2
  <2>2. BufferAt(worker[v].pc, worker[v].ctx, out[TaskOf(v).o], TaskOf(v).n)
    BY <2>1 DEF EInv, Reading
  <2> QED BY <2>1, <2>2 DEF BufferAt
<1>11. Answers'
  <2> SUFFICES ASSUME NEW o \in Outs, NEW u \in DOMAIN tasks, Latest(u, o)', ~ Pending(u)'
               PROVE  IF tasks[u].state = "ok" THEN \E s \in OkSeals' : Accepted(u, s)'
                      ELSE Wiped(out[o])'
    BY DEF Answers
  <2>1. Latest(u, o) /\ ~ Pending(u)
    BY DEF Latest, Pending
  <2>2. CASE tasks[u].state = "ok"
    <3>1. PICK s \in OkSeals : Accepted(u, s)
      BY <2>1, <2>2 DEF EInv, Answers
    <3>2. Accepted(u, s)'
      BY <1>1, <3>1, AcceptedKept
    <3> QED BY <1>3, <2>2, <3>1, <3>2
  <2>3. CASE tasks[u].state # "ok"
    BY <2>1, <2>3 DEF EInv, Answers, Wiped
  <2> QED BY <2>2, <2>3
<1> QED BY <1>4, <1>5, <1>6, <1>7, <1>8, <1>9, <1>10, <1>11 DEF EInv

LEMMA TamperEInv ==
  ASSUME EInv, NInv', NEW f \in Frames, NEW field \in Tampers, Tamper(f, field)
  PROVE  EInv'
<1>1. TypeOK /\ tasks \in Seq(Task)
  BY TypesNow DEF EInv, NInv
<1>2. /\ frame'[f].by = 0 /\ \A g \in Frames \ {f} : frame'[g] = frame[g]
  BY <1>1, Changed
<1>3. FramesStep
  <2>1. 0 \notin OkSeals
    BY <1>1, Domains DEF OkSeals
  <2> QED BY <1>2, <2>1 DEF FramesStep
<1>4. ASSUME NEW g \in Frames, NEW i \in 0 .. Capacity
      PROVE  frame'[g].cell[i] \in {frame[g].cell[i], Junk, NoTag}
  <2>1. CASE g # f
    BY <1>2, <2>1
  <2>2. CASE g = f
    <3> DEFINE b == frame[f]
               n == b.used
               h == CASE field = "ver" -> [frame[f] EXCEPT !.ver = 2]
                      [] field = "iv"  -> [frame[f] EXCEPT !.iv = 0]
                      [] field = "ct"  -> [frame[f] EXCEPT !.cell[0] = Junk]
                      [] field = "tag" -> [frame[f] EXCEPT !.cell[n] = NoTag]
               e == [h EXCEPT !.by = 0]
    <3>1. frame' = [frame EXCEPT ![f] = e]
      BY DEF Tamper
    <3>2. b \in Buffer /\ frame \in [Frames -> Buffer]
      BY <1>1, TypesNow
    <3>3. b.cell \in [0 .. Capacity -> Cells]
      BY <3>2 DEF Buffer
    <3>4. h.cell[i] \in {b.cell[i], Junk, NoTag}
      <4>1. field \in {"ver", "iv", "ct", "tag"}
        BY ConstantsAssumption
      <4>2. CASE field = "ver"
        BY <3>2, <4>2 DEF Buffer
      <4>3. CASE field = "iv"
        BY <3>2, <4>3 DEF Buffer
      <4>4. CASE field = "ct"
        <5>1. h.cell = [b.cell EXCEPT ![0] = Junk]
          BY <3>2, <4>4 DEF Buffer
        <5> QED BY <3>3, <5>1
      <4>5. CASE field = "tag"
        <5>1. h.cell = [b.cell EXCEPT ![n] = NoTag]
          BY <3>2, <4>5 DEF Buffer
        <5> QED BY <3>3, <5>1
      <4> QED BY <4>1, <4>2, <4>3, <4>4, <4>5
    <3> HIDE DEF h
    <3>5. e.cell = h.cell
      OBVIOUS
    <3> HIDE DEF e
    <3> QED BY <2>2, <3>1, <3>2, <3>4, <3>5
  <2> QED BY <2>1, <2>2
<1>5. UNCHANGED <<tasks, out, faults, worker>>
  BY DEF Tamper
<1> QED BY <1>3, <1>4, <1>5, SameTasks

LEMMA CallerEInv ==
  ASSUME EInv, NInv', Caller
  PROVE  EInv'
<1>1. ASSUME Close \/ \E bits \in AesBits, path \in Masters \cup {None} : Create(bits, path)
      PROVE  EInv'
  <2>1. UNCHANGED <<tasks, out, faults, frame>> /\ worker' = [w \in Workers |-> NewWorker]
    BY <1>1 DEF Close, Create
  <2> QED BY <2>1, SameTasks DEF FramesStep
<1> QED BY <1>1, SubmitEInv, TamperEInv DEF Caller

LEMMA WorkEInv ==
  ASSUME EInv, NInv', NEW w \in Workers, Work(w), UNCHANGED <<master, processors>>
  PROVE  EInv'
<1>1. ASSUME ~ Take(w) PROVE Busy(w) /\ Does(w)
  BY <1>1, VersionDoes, ContextDoes, RandDoes, InitDoes, EncryptUpdateDoes, EncryptFinalDoes,
     GetTagDoes, SetTagDoes, DecryptUpdateDoes, DecryptFinalDoes DEF Work
<1> QED BY <1>1, WorkerEInv, TakeEInv

LEMMA InitEInv == Init => EInv
<1> SUFFICES ASSUME Init PROVE EInv
  OBVIOUS
<1>1. NInv /\ DOMAIN tasks = {} /\ \A w \in Workers : ~ Busy(w)
  BY InitNInv DEF Init, Busy, NewWorker
<1>2. SeenSeals /\ Opening /\ IntactFramesOpen /\ OneReader /\ Waiting /\ Reading /\ Answers
  BY <1>1 DEF SeenSeals, Opening, IntactFramesOpen, OneReader, Waiting, Reading, Answers, Latest
<1>3. ContextsLive
  BY ConstantsAssumption DEF Init, ContextsLive, NewWorker, Reset
<1>4. TagsKnown
  BY DEF Init, TagsKnown, Known, NewWorker, Reset, Junk, Chunk, Chunks, NullKeys
<1> QED BY <1>1, <1>2, <1>3, <1>4 DEF EInv

LEMMA EInvStep == EInv /\ [Next]_vars => EInv'
<1> SUFFICES ASSUME EInv, [Next]_vars PROVE EInv'
  OBVIOUS
<1>1. NInv'
  BY NInvStep DEF EInv
<1>2. CASE UNCHANGED vars
  BY <1>1, <1>2, SameTasks DEF vars, FramesStep
<1> QED BY <1>1, <1>2, CallerEInv, WorkEInv DEF Next

\* The strengthening is inductive.
THEOREM EndpointInvariance == Spec => []EInv
BY InitEInv, EInvStep, PTL DEF Spec

\* While no call fails, an open that was given the frame of a completed seal,
\* with its key and length, is never refused, as long as nothing writes the
\* frame: what the worker's context and the buffer held before is forgotten.
THEOREM IntactOpens == Spec => []IntactFramesOpen
<1>1. EInv => IntactFramesOpen
  BY DEF EInv
<1> QED BY <1>1, EndpointInvariance, PTL

-----------------------------------------------------------------------------
(* The CPU path implements AeadEndpoint.                                   *)

\* What the abstract endpoint shows of the slots.
Views ==
  \A o \in Outs, t \in DOMAIN tasks : Latest(t, o) =>
    /\ Pending(t) => OpenOf(o) = Endpoint!Pending(tasks[t].key, tasks[t].n)
    /\ ~ Pending(t) /\ tasks[t].state # "ok" => OpenOf(o) = Endpoint!Refused
    /\ \A s \in OkSeals : tasks[t].state = "ok" /\ Accepted(t, s) =>
         OpenOf(o) = Endpoint!Accepted([key |-> tasks[t].key, n |-> tasks[t].n, pt |-> s])

NoView ==
  \A o \in Outs : (\A t \in DOMAIN tasks : tasks[t].o # o) => OpenOf(o) = Endpoint!Unused

LEMMA View == EInv => Views
<1> SUFFICES ASSUME EInv, NEW o \in Outs, NEW t \in DOMAIN tasks, Latest(t, o)
             PROVE  /\ Pending(t) => OpenOf(o) = Endpoint!Pending(tasks[t].key, tasks[t].n)
                    /\ ~ Pending(t) /\ tasks[t].state # "ok" => OpenOf(o) = Endpoint!Refused
                    /\ \A s \in OkSeals : tasks[t].state = "ok" /\ Accepted(t, s) =>
                         OpenOf(o) = Endpoint!Accepted([key |-> tasks[t].key, n |-> tasks[t].n,
                                                        pt |-> s])
  BY DEF Views
<1> DEFINE uses == {u \in DOMAIN tasks : tasks[u].o = o}
           last == CHOOSE u \in uses : \A v \in uses : v <= u
<1>1. OpenOf(o) = Published(t) /\ tasks[t].o = o
  <2>1. t \in uses /\ \A v \in uses : v <= t
    BY DEF Latest
  <2>2. last \in uses /\ \A v \in uses : v <= last
    BY <2>1
  <2>3. Latest(last, o)
    BY <2>2 DEF Latest
  <2>4. last = t
    BY <2>3, LatestUnique DEF EInv, NInv
  <2> QED BY <2>1, <2>4 DEF OpenOf
<1>2. ASSUME Pending(t) PROVE OpenOf(o) = Endpoint!Pending(tasks[t].key, tasks[t].n)
  <2>1. Published(t) = [state |-> "pending", key |-> tasks[t].key, n |-> tasks[t].n]
    BY <1>2 DEF Published, Pending
  <2> QED BY <1>1, <2>1 DEF Endpoint!Pending
<1>3. ASSUME ~ Pending(t), tasks[t].state # "ok" PROVE OpenOf(o) = Endpoint!Refused
  <2>1. Wiped(out[o])
    BY <1>3 DEF EInv, Answers
  <2>2. {i \in DOMAIN out[tasks[t].o] : out[tasks[t].o][i].kind = "decrypted"} = {}
    BY <1>1, <2>1 DEF Wiped
  <2> QED BY <1>1, <1>3, <2>2 DEF Published, Endpoint!Refused
<1>4. ASSUME tasks[t].state = "ok", NEW s \in OkSeals, Accepted(t, s)
      PROVE  OpenOf(o) = Endpoint!Accepted([key |-> tasks[t].key, n |-> tasks[t].n, pt |-> s])
  <2> DEFINE from == {r \in DOMAIN tasks : tasks[r].op = "seal" /\ Yields(t, r)}
  <2>1. s \in from
    BY <1>4 DEF Accepted, OkSeals
  <2>2. ASSUME NEW r \in from PROVE r = s
    <3>1. tasks[t].n \in Nat \ {0} /\ Yields(t, r) /\ Yields(t, s)
      BY <1>4, <2>2 DEF Accepted
    <3>2. 1 \in 1 .. tasks[r].n /\ 1 \in 1 .. tasks[s].n
      BY <3>1 DEF Yields
    <3>3. /\ out[tasks[t].o][1 - 1] = Decrypted(tasks[r].key, r, CtOf(r)[1], 1 - 1)
          /\ out[tasks[t].o][1 - 1] = Decrypted(tasks[s].key, s, CtOf(s)[1], 1 - 1)
      BY <3>1, <3>2 DEF Yields
    <3> QED BY <3>3 DEF Decrypted
  <2>3. (CHOOSE r \in from : TRUE) = s /\ from # {}
    BY <2>1, <2>2
  <2>4. Published(t) = [state |-> "accepted", message |->
                          [key |-> tasks[t].key, n |-> tasks[t].n,
                           pt |-> CHOOSE r \in from : TRUE]]
    BY <1>4, <2>3 DEF Published, Pending
  <2> QED BY <1>1, <2>3, <2>4 DEF Endpoint!Accepted
<1> QED BY <1>2, <1>3, <1>4

LEMMA ViewUnused == NoView
BY DEF NoView, OpenOf, Endpoint!Unused

LEMMA ViewNext == (EInv' => Views') /\ NoView'
BY View, ViewUnused, PTL

\* A slot whose latest open is neither asked nor answered in the step.
LEMMA ViewKept ==
  ASSUME EInv, EInv', Extends, NEW o \in Outs,
         \A u \in DOMAIN tasks' : Latest(u, o)' =>
           /\ u \in DOMAIN tasks /\ Latest(u, o)
           /\ Pending(u)' <=> Pending(u)
           /\ ~ Pending(u) => tasks'[u].state = tasks[u].state /\ out'[o] = out[o]
  PROVE  OpenOf(o)' = OpenOf(o)
<1>1. TypeOK /\ DOMAIN tasks = 1 .. Len(tasks) /\ DOMAIN tasks' = 1 .. Len(tasks')
      /\ 1 .. Len(tasks) \subseteq DOMAIN tasks'
  BY Domains DEF EInv, NInv
<1>2. Views /\ Views' /\ NoView /\ NoView'
  BY View, ViewUnused, ViewNext
<1>3. CASE \E u \in DOMAIN tasks' : tasks'[u].o = o
  <2>1. PICK t \in DOMAIN tasks' : Latest(t, o)'
    BY <1>3 DEF EInv, OneReader
  <2>2. /\ t \in DOMAIN tasks /\ Latest(t, o)
        /\ Pending(t)' <=> Pending(t)
        /\ ~ Pending(t) => tasks'[t].state = tasks[t].state /\ out'[o] = out[o]
    BY <2>1
  <2>3. tasks'[t].key = tasks[t].key /\ tasks'[t].n = tasks[t].n /\ tasks[t].o = o
    BY <1>1, <2>2 DEF Extends, Latest
  <2>4. CASE Pending(t)
    BY <1>2, <2>1, <2>2, <2>3, <2>4 DEF Views
  <2>5. CASE ~ Pending(t) /\ tasks[t].state # "ok"
    BY <1>2, <2>1, <2>2, <2>3, <2>5 DEF Views
  <2>6. CASE ~ Pending(t) /\ tasks[t].state = "ok"
    <3>1. PICK s \in OkSeals : Accepted(t, s)
      BY <2>2, <2>6 DEF EInv, Answers
    <3>2. Accepted(t, s)' /\ s \in OkSeals'
      BY <1>1, <2>2, <2>3, <2>6, <3>1, AcceptedKept, OkSealsKept
    <3>3. OpenOf(o) = Endpoint!Accepted([key |-> tasks[t].key, n |-> tasks[t].n, pt |-> s])
      BY <1>2, <2>2, <2>6, <3>1 DEF Views
    <3>4. OpenOf(o)' = Endpoint!Accepted([key |-> tasks'[t].key, n |-> tasks'[t].n, pt |-> s])
      BY <1>2, <2>1, <2>2, <2>6, <3>2 DEF Views
    <3> QED BY <2>3, <3>3, <3>4
  <2> QED BY <2>4, <2>5, <2>6
<1>4. CASE \A u \in DOMAIN tasks' : tasks'[u].o # o
  <2>1. \A u \in DOMAIN tasks : tasks[u].o # o
    BY <1>1, <1>4 DEF Extends
  <2> QED BY <1>2, <1>4, <2>1 DEF NoView
<1> QED BY <1>3, <1>4

LEMMA MessagesKept ==
  ASSUME TypeOK, Extends
  PROVE  Committed \subseteq Committed'
<1> SUFFICES ASSUME NEW s \in OkSeals
             PROVE  [key |-> tasks[s].key, n |-> tasks[s].n, pt |-> s] \in Committed'
  BY DEF Committed, OkSeals
<1>1. s \in OkSeals' /\ s \in 1 .. Len(tasks)
  BY OkSealsKept
<1>2. tasks'[s].key = tasks[s].key /\ tasks'[s].n = tasks[s].n
  BY <1>1 DEF Extends
<1>3. [key |-> tasks'[s].key, n |-> tasks'[s].n, pt |-> s] \in Committed'
  BY <1>1 DEF Committed, OkSeals
<1> QED BY <1>2, <1>3

\* A step in which no seal succeeds.
LEMMA MessagesSame ==
  ASSUME TypeOK, Extends, OkSeals' \subseteq OkSeals
  PROVE  Committed' = Committed
<1>1. Committed \subseteq Committed'
  BY MessagesKept
<1>2. ASSUME NEW s \in OkSeals'
      PROVE  [key |-> tasks'[s].key, n |-> tasks'[s].n, pt |-> s] \in Committed
  <2>1. s \in OkSeals /\ s \in 1 .. Len(tasks)
    BY OkSealsKept
  <2>2. tasks'[s].key = tasks[s].key /\ tasks'[s].n = tasks[s].n
    BY <2>1 DEF Extends
  <2>3. [key |-> tasks[s].key, n |-> tasks[s].n, pt |-> s] \in Committed
    BY <2>1 DEF Committed, OkSeals
  <2> QED BY <2>2, <2>3
<1>3. Committed' \subseteq Committed
  BY <1>2 DEF Committed, OkSeals
<1> QED BY <1>1, <1>3

\* A step that changes no slot commits messages, or does nothing.
LEMMA Commits ==
  ASSUME TypeOK, Extends, \A o \in Outs : OpenOf(o)' = OpenOf(o)
  PROVE  [Endpoint!Next]_Endpoint!vars
<1>1. Committed \subseteq Committed'
  BY MessagesKept
<1>2. [o \in Outs |-> OpenOf(o)]' = [o \in Outs |-> OpenOf(o)]
  OBVIOUS
<1>3. Endpoint!Commit
  BY <1>1, <1>2 DEF Endpoint!Commit
<1> QED BY <1>3 DEF Endpoint!Next

LEMMA OneSlot ==
  ASSUME NEW q \in Outs, NEW x, OpenOf(q)' = x, \A o \in Outs \ {q} : OpenOf(o)' = OpenOf(o)
  PROVE  [o \in Outs |-> OpenOf(o)]' = [[o \in Outs |-> OpenOf(o)] EXCEPT ![q] = x]
OBVIOUS

\* The step that answers open t.
LEMMA AnswersOpen ==
  ASSUME EInv, EInv', Extends, Len(tasks') = Len(tasks), NEW t \in DOMAIN tasks,
         tasks[t].op = "open", Pending(t), ~ Pending(t)',
         \A u \in 1 .. Len(tasks) : u # t => tasks'[u].state = tasks[u].state,
         \A u \in 1 .. Len(tasks) :
           u # t /\ tasks[u].o \in Outs /\ Latest(u, tasks[u].o) =>
             out'[tasks[u].o] = out[tasks[u].o]
  PROVE  [Endpoint!Next]_Endpoint!vars
<1>1. TypeOK /\ DOMAIN tasks = 1 .. Len(tasks) /\ DOMAIN tasks' = 1 .. Len(tasks)
      /\ tasks \in Seq(Task)
  BY Domains DEF EInv, NInv
<1>2. PICK q : q = tasks[t].o
  OBVIOUS
<1>3. q \in Outs /\ Latest(t, q)
  BY <1>1, <1>2 DEF EInv, OneReader, NInv, Queueing
<1>4. \A u, o : Latest(u, o)' <=> Latest(u, o)
  BY <1>1, LatestKept
<1>5. Views /\ Views'
  BY View, ViewNext
<1>6. tasks'[t].key = tasks[t].key /\ tasks'[t].n = tasks[t].n /\ tasks'[t].op = "open"
  BY <1>1 DEF Extends
<1>7. OpenOf(q) = Endpoint!Pending(tasks[t].key, tasks[t].n)
  BY <1>3, <1>5 DEF Views
<1>8. ASSUME NEW o \in Outs \ {q} PROVE OpenOf(o)' = OpenOf(o)
  <2>1. ASSUME NEW u \in DOMAIN tasks', Latest(u, o)'
        PROVE  /\ u \in DOMAIN tasks /\ Latest(u, o)
               /\ Pending(u)' <=> Pending(u)
               /\ ~ Pending(u) => tasks'[u].state = tasks[u].state /\ out'[o] = out[o]
    <3>1. Latest(u, o)
      BY <1>1, <2>1, LatestKept
    <3>2. u \in DOMAIN tasks /\ tasks[u].o = o /\ u # t
      BY <1>2, <3>1 DEF Latest
    <3> QED BY <1>1, <3>1, <3>2 DEF Pending
  <2> QED BY <2>1, ViewKept
<1>9. OkSeals' \subseteq OkSeals
  <2> SUFFICES ASSUME NEW s \in OkSeals' PROVE s \in OkSeals
    OBVIOUS
  <2>1. s \in 1 .. Len(tasks) /\ s # t
    BY <1>1, <1>6 DEF OkSeals
  <2> QED BY <1>1, <2>1 DEF OkSeals, Extends
<1>10. Committed' = Committed
  BY <1>1, <1>9, MessagesSame
<1>11. CASE tasks'[t].state # "ok"
  <2>1. OpenOf(q)' = Endpoint!Refused
    BY <1>1, <1>3, <1>4, <1>5, <1>11 DEF Views
  <2>2. Endpoint!Refuse(q)
    BY <1>3, <1>7, <1>8, <1>10, <2>1, OneSlot DEF Endpoint!Refuse, Endpoint!Pending
  <2> QED BY <1>3, <2>2 DEF Endpoint!Next
<1>12. CASE tasks'[t].state = "ok"
  <2>1. PICK s \in OkSeals' : Accepted(t, s)'
    BY <1>1, <1>3, <1>4, <1>12 DEF EInv, Answers
  <2> DEFINE m == [key |-> tasks[t].key, n |-> tasks[t].n, pt |-> s]
  <2>2. OpenOf(q)' = Endpoint!Accepted(m)
    BY <1>1, <1>3, <1>4, <1>5, <1>6, <1>12, <2>1 DEF Views
  <2>3. s \in OkSeals /\ tasks'[s].key = tasks[t].key /\ tasks'[s].n = tasks[t].n
    BY <1>6, <1>9, <2>1 DEF Accepted, Yields
  <2>4. m \in Committed
    <3>1. tasks[s].key = tasks[t].key /\ tasks[s].n = tasks[t].n
      BY <1>1, <2>3, OkSealsKept DEF Extends
    <3>2. [key |-> tasks[s].key, n |-> tasks[s].n, pt |-> s] \in Committed
      BY <2>3 DEF Committed, OkSeals
    <3> QED BY <3>1, <3>2
  <2>5. m.key = tasks[t].key /\ m.n = tasks[t].n
    OBVIOUS
  <2> HIDE DEF m
  <2>6. Endpoint!Accept(q)
    BY <1>3, <1>7, <1>8, <1>10, <2>2, <2>4, <2>5, OneSlot DEF Endpoint!Accept
  <2> QED BY <1>3, <2>6 DEF Endpoint!Next
<1> QED BY <1>11, <1>12

LEMMA WorkerAnswers ==
  ASSUME EInv, EInv', NEW w \in Workers, Busy(w), Does(w)
  PROVE  [Endpoint!Next]_Endpoint!vars
<1>1. PICK p, r, c : Effects(w, p, r, c) /\ (SealEffects(w, r, c) \/ OpenEffects(w, p, r, c))
  BY DEF Does
<1>2. PICK t : t = worker[w].task
  OBVIOUS
<1>3. /\ TypeOK /\ t \in 1 .. Len(tasks) /\ TaskOf(w) = tasks[t]
      /\ tasks[t].state = "running" /\ t \in DOMAIN tasks
      /\ Extends /\ Len(tasks') = Len(tasks)
      /\ DOMAIN tasks = 1 .. Len(tasks) /\ DOMAIN tasks' = 1 .. Len(tasks)
  BY <1>1, <1>2, WorkerFacts
<1>4. \A u \in 1 .. Len(tasks) : tasks'[u].state = IF u = t THEN r ELSE tasks[u].state
  BY <1>1, <1>2, WorkerFacts
<1>5. \A u \in 1 .. Len(tasks) : u # t => (Pending(u)' <=> Pending(u))
  BY <1>1, <1>2, WorkerFacts
<1>6. ASSUME NEW u \in 1 .. Len(tasks), u # t, tasks[u].o \in Outs, Latest(u, tasks[u].o)
      PROVE  out'[tasks[u].o] = out[tasks[u].o]
  BY <1>1, <1>2, <1>6, WorkerFacts
<1>7. CASE tasks[t].op = "open" /\ r # "running"
  <2>1. r # "queued"
    BY <1>1 DEF SealEffects, OpenEffects
  <2>2. Pending(t) /\ ~ Pending(t)'
    BY <1>3, <1>4, <1>7, <2>1 DEF Pending
  <2> QED BY <1>3, <1>4, <1>6, <1>7, <2>2, AnswersOpen
<1>8. CASE tasks[t].op # "open" \/ r = "running"
  <2>1. ASSUME NEW o \in Outs PROVE OpenOf(o)' = OpenOf(o)
    <3>1. ASSUME NEW u \in DOMAIN tasks', Latest(u, o)'
          PROVE  /\ u \in DOMAIN tasks /\ Latest(u, o)
                 /\ Pending(u)' <=> Pending(u)
                 /\ ~ Pending(u) => tasks'[u].state = tasks[u].state /\ out'[o] = out[o]
      <4>1. Latest(u, o) /\ u \in 1 .. Len(tasks) /\ tasks[u].o = o
        <5>1. Latest(u, o)
          BY <1>3, <3>1, LatestKept
        <5> QED BY <1>3, <5>1 DEF Latest
      <4>2. tasks[u].op = "open"
        BY <1>3, <4>1 DEF EInv, OneReader
      <4>3. CASE u # t
        BY <1>3, <1>4, <1>5, <1>6, <4>1, <4>3
      <4>4. CASE u = t
        <5>1. r = "running" /\ Pending(t)
          BY <1>3, <1>8, <4>2, <4>4 DEF Pending
        <5>2. Pending(t)'
          BY <1>3, <1>4, <5>1 DEF Pending
        <5> QED BY <1>3, <4>1, <4>4, <5>1, <5>2
      <4> QED BY <4>3, <4>4
    <3> QED BY <1>3, <3>1, ViewKept
  <2> QED BY <1>3, <2>1, Commits
<1> QED BY <1>7, <1>8

LEMMA TakeAnswers ==
  ASSUME EInv, EInv', NEW w \in Workers, Take(w)
  PROVE  [Endpoint!Next]_Endpoint!vars
<1>1. PICK t, k, r, p : Takes(w, t, k, r, p)
  BY TakeFacts DEF EInv
<1>2. /\ r \in {"error", "running"} /\ k = tasks[t] /\ out' = out
      /\ t \in 1 .. Len(tasks) /\ tasks[t].state = "queued"
      /\ tasks' \in Seq(Task) /\ Len(tasks') = Len(tasks) /\ DOMAIN tasks' = 1 .. Len(tasks)
      /\ tasks'[t].state = r
  BY <1>1 DEF Takes
<1>3. \A u \in 1 .. Len(tasks) :
        /\ tasks'[u].op = tasks[u].op /\ tasks'[u].key = tasks[u].key
        /\ tasks'[u].n = tasks[u].n /\ tasks'[u].f = tasks[u].f /\ tasks'[u].o = tasks[u].o
        /\ u # t => tasks'[u] = tasks[u]
  BY <1>1 DEF Takes
<1>4. TypeOK /\ NInv /\ Len(tasks) \in Nat /\ DOMAIN tasks = 1 .. Len(tasks)
      /\ t \in DOMAIN tasks
  BY <1>2, Domains DEF EInv, NInv
<1>5. Extends
  BY <1>2, <1>3, <1>4 DEF Extends
<1>6. Pending(t) /\ (Pending(t)' <=> r = "running")
  BY <1>2 DEF Pending
<1>7. CASE k.op = "open" /\ r = "error"
  BY <1>2, <1>3, <1>4, <1>5, <1>6, <1>7, AnswersOpen
<1>8. CASE k.op # "open" \/ r = "running"
  <2>1. ASSUME NEW o \in Outs PROVE OpenOf(o)' = OpenOf(o)
    <3>1. ASSUME NEW u \in DOMAIN tasks', Latest(u, o)'
          PROVE  /\ u \in DOMAIN tasks /\ Latest(u, o)
                 /\ Pending(u)' <=> Pending(u)
                 /\ ~ Pending(u) => tasks'[u].state = tasks[u].state /\ out'[o] = out[o]
      <4>1. Latest(u, o) /\ u \in 1 .. Len(tasks) /\ tasks[u].o = o
        <5>1. Latest(u, o)
          BY <1>2, <1>4, <1>5, <3>1, LatestKept
        <5> QED BY <1>4, <5>1 DEF Latest
      <4>2. tasks[u].op = "open"
        BY <1>4, <4>1 DEF EInv, OneReader
      <4>3. CASE u # t
        BY <1>2, <1>3, <1>4, <4>1, <4>3 DEF Pending
      <4>4. CASE u = t
        BY <1>2, <1>4, <1>6, <1>8, <4>1, <4>2, <4>4
      <4> QED BY <4>3, <4>4
    <3> QED BY <1>5, <3>1, ViewKept
  <2> QED BY <1>4, <1>5, <2>1, Commits
<1> QED BY <1>2, <1>7, <1>8

\* A new task: an open asks of its slot.
LEMMA SubmitAsks ==
  ASSUME EInv, EInv', NEW e \in Task, tasks' = Append(tasks, e),
         e.state = "queued", e.n \in Lens,
         \/ e.op = "seal" /\ e.o = None /\ out' = out
         \/ /\ e.op = "open" /\ e.o \in Outs
            /\ out' = [out EXCEPT ![e.o] = [i \in 0 .. e.n - 1 |-> Stale]]
  PROVE  [Endpoint!Next]_Endpoint!vars
<1>1. TypeOK /\ Len(tasks) \in Nat /\ DOMAIN tasks = 1 .. Len(tasks)
      /\ tasks \in Seq(Task) /\ DOMAIN out = Outs
  BY Domains, TypesNow DEF EInv, NInv
<1>2. PICK z : z = Len(tasks) + 1
  OBVIOUS
<1>3. /\ tasks' \in Seq(Task) /\ Len(tasks') = z /\ DOMAIN tasks' = 1 .. z
      /\ \A u \in 1 .. Len(tasks) : tasks'[u] = tasks[u]
      /\ tasks'[z] = e
      /\ \A u \in 1 .. z : u \in 1 .. Len(tasks) \/ u = z
  BY <1>1, <1>2
<1>4. Extends
  BY <1>1, <1>2, <1>3 DEF Extends
<1>5. ASSUME NEW o \in Outs, o # e.o PROVE OpenOf(o)' = OpenOf(o)
  <2>1. ASSUME NEW u \in DOMAIN tasks', Latest(u, o)'
        PROVE  /\ u \in DOMAIN tasks /\ Latest(u, o)
               /\ Pending(u)' <=> Pending(u)
               /\ ~ Pending(u) => tasks'[u].state = tasks[u].state /\ out'[o] = out[o]
    <3>1. u \in 1 .. Len(tasks)
      BY <1>3, <1>5, <2>1 DEF Latest
    <3>2. Latest(u, o)
      BY <1>1, <1>2, <1>3, <2>1, <3>1 DEF Latest
    <3> QED BY <1>1, <1>3, <1>5, <3>1, <3>2 DEF Pending
  <2> QED BY <1>4, <2>1, ViewKept
<1>6. CASE e.op = "seal" /\ e.o = None
  <2>1. \A o \in Outs : OpenOf(o)' = OpenOf(o)
    BY <1>5, <1>6, Constants
  <2> QED BY <1>1, <1>4, <2>1, Commits
<1>7. CASE e.op = "open" /\ e.o \in Outs
  <2>1. PICK q \in Outs : q = e.o
    BY <1>7
  <2>2. Latest(z, q)' /\ Pending(z)' /\ z \in DOMAIN tasks'
    BY <1>1, <1>2, <1>3, <2>1 DEF Latest, Pending
  <2>3. OpenOf(q)' = Endpoint!Pending(e.key, e.n)
    BY <1>3, <2>2, ViewNext DEF Views
  <2>4. OkSeals' \subseteq OkSeals
    BY <1>1, <1>3 DEF OkSeals
  <2>5. Committed' = Committed
    BY <1>1, <1>4, <2>4, MessagesSame
  <2>6. e.key \in Keys
    BY DEF Task
  <2>7. Endpoint!Ask(q)
    BY <1>5, <2>1, <2>3, <2>5, <2>6, OneSlot DEF Endpoint!Ask
  <2> QED BY <2>1, <2>7 DEF Endpoint!Next
<1> QED BY <1>6, <1>7

LEMMA CallerAsks ==
  ASSUME EInv, EInv', Caller
  PROVE  [Endpoint!Next]_Endpoint!vars
<1>1. TypeOK
  BY DEF EInv, NInv
<1>2. ASSUME UNCHANGED <<tasks, out>> PROVE [Endpoint!Next]_Endpoint!vars
  <2>1. TypeOK /\ Extends
    BY <1>2, TypesNow DEF EInv, NInv, Extends
  <2>2. ASSUME NEW o \in Outs PROVE OpenOf(o)' = OpenOf(o)
    BY <1>2, <2>1, ViewKept DEF Latest, Pending
  <2> QED BY <2>1, <2>2, Commits
<1>3. ASSUME NEW f \in Frames, NEW n \in Lens, NEW salt \in Salts, SubmitSerialize(f, n, salt)
      PROVE  [Endpoint!Next]_Endpoint!vars
  <2> DEFINE e == [op |-> "seal", key |-> get_key(salt), n |-> n, f |-> f, o |-> None,
                   state |-> "queued", seen |-> 0]
  <2>1. master \in Masters /\ tasks' = Append(tasks, e) /\ out' = out
    BY <1>1, <1>3 DEF SubmitSerialize, Submit, TypeOK
  <2>2. e \in Task
    BY <2>1, Constants DEF Task, Keys, get_key, States
  <2>3. e.op = "seal" /\ e.state = "queued" /\ e.o = None /\ e.n = n
    OBVIOUS
  <2> HIDE DEF e
  <2> QED BY <2>1, <2>2, <2>3, SubmitAsks
<1>4. ASSUME NEW f \in Frames, NEW n \in Lens, NEW salt \in Salts, NEW o \in Outs,
             SubmitDeserialize(f, o, n, salt)
      PROVE  [Endpoint!Next]_Endpoint!vars
  <2> DEFINE e == [op |-> "open", key |-> get_key(salt), n |-> n, f |-> f, o |-> o,
                   state |-> "queued", seen |-> 0]
  <2>1. master \in Masters /\ tasks' = Append(tasks, e)
        /\ out' = [out EXCEPT ![o] = [i \in 0 .. n - 1 |-> Stale]]
    BY <1>1, <1>4 DEF SubmitDeserialize, Submit, TypeOK
  <2>2. e \in Task
    BY <2>1, Constants DEF Task, Keys, get_key, States
  <2>3. e.op = "open" /\ e.state = "queued" /\ e.o = o /\ e.n = n
    OBVIOUS
  <2> HIDE DEF e
  <2> QED BY <2>1, <2>2, <2>3, SubmitAsks
<1>5. ASSUME \/ Close
             \/ \E bits \in AesBits, path \in Masters \cup {None} : Create(bits, path)
             \/ \E f \in Frames, field \in Tampers : Tamper(f, field)
      PROVE  [Endpoint!Next]_Endpoint!vars
  <2>1. UNCHANGED <<tasks, out>>
    BY <1>5 DEF Close, Create, Tamper
  <2> QED BY <1>2, <2>1
<1> QED BY <1>3, <1>4, <1>5 DEF Caller

LEMMA EndpointStep ==
  EInv /\ EInv' /\ [Next]_vars => [Endpoint!Next]_Endpoint!vars
<1> SUFFICES ASSUME EInv, EInv', [Next]_vars PROVE [Endpoint!Next]_Endpoint!vars
  OBVIOUS
<1>1. CASE UNCHANGED vars
  <2>1. TypeOK /\ Extends
    BY <1>1, TypesNow DEF EInv, NInv, Extends, vars
  <2>2. ASSUME NEW o \in Outs PROVE OpenOf(o)' = OpenOf(o)
    BY <1>1, <2>1, ViewKept DEF Latest, Pending, vars
  <2> QED BY <2>1, <2>2, Commits
<1>2. ASSUME NEW w \in Workers, Work(w), UNCHANGED <<master, processors>>
      PROVE  [Endpoint!Next]_Endpoint!vars
  <2>1. CASE Take(w)
    BY <2>1, TakeAnswers
  <2>2. CASE ~ Take(w)
    <3>1. Busy(w) /\ Does(w)
      BY <1>2, <2>2, VersionDoes, ContextDoes, RandDoes, InitDoes, EncryptUpdateDoes,
         EncryptFinalDoes, GetTagDoes, SetTagDoes, DecryptUpdateDoes, DecryptFinalDoes DEF Work
    <3> QED BY <3>1, WorkerAnswers
  <2> QED BY <2>1, <2>2
<1> QED BY <1>1, <1>2, CallerAsks DEF Next

LEMMA EndpointInit == Init => Endpoint!Init
<1> SUFFICES ASSUME Init PROVE [o \in Outs |-> OpenOf(o)] = [o \in Outs |-> Endpoint!Unused]
  BY DEF Endpoint!Init
<1>1. DOMAIN tasks = {}
  BY DEF Init
<1>2. \A o \in Outs : OpenOf(o) = Endpoint!Unused
  BY <1>1, ViewUnused DEF NoView
<1> QED BY <1>2

\* The serializers and deserializers of all the workers together are an
\* endpoint: an open is answered once, with the whole plaintext of one
\* completed seal of its key and length, or with none of what it decrypted.
THEOREM ImplementsEndpoint == Spec => IsEndpoint
BY EndpointInvariance, EndpointInit, EndpointStep, PTL DEF Spec, IsEndpoint, Endpoint!Spec
=============================================================================

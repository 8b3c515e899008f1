---------------------------- MODULE PlannedCalls ----------------------------
(***************************************************************************)
(* Calls of one taped program: its kept sections primed when their epoch   *)
(* moved, its continuous section run through the instruction loop or, when *)
(* the call splits, as a plan whose phases the pool's threads run          *)
(* (exec/mod.rs run_tape_call and run_continuous, exec/interp.rs run_range *)
(* and exec_share, exec/plan.rs run_plan).                                 *)
(*                                                                         *)
(* The slab and dy are memory: every location holds the tag of the cell    *)
(* last written there, <<slot, cell, stamp, pass>>, or Junk.  An           *)
(* instruction that does not find its operands' tags computes Junk, so a   *)
(* value lost to recycled storage or to a race travels to dy.  A thread    *)
(* reads a task's operands when it takes the task up and writes when it    *)
(* finishes it; the join of a phase is the pool's (module ForkJoinPool).   *)
(* Calls that publish observeds run through the loop like narrow ones.     *)
(***************************************************************************)
EXTENDS CallPlan

CONSTANTS
  Programs,   \* the tape programs
  Widths,     \* the widths a call may split to
  DyLen,      \* elements of dy
  DyPhase,    \* dy's address, past a cache line; the slab's is 0
  MaxCalls    \* bound on the calls

\* There are finitely many widths.
ASSUME CallConstants ==
  /\ Widths \subseteq Nat \ {0}
  /\ Max(Widths) \in Widths /\ \A w \in Widths : w <= Max(Widths)
  /\ {DyLen, DyPhase, MaxCalls} \subseteq Nat

\* The DyWrites of a program stay within dy, each within its variable's block.
ASSUME TapeAssumption ==
  \A p \in Programs :
    /\ WellFormed(p)
    /\ \A i \in Pcs(p) : p.code[i].op = "dy" =>
         /\ p.code[i].at + p.code[i].elems <= DyLen
         /\ (p.code[i].at % DyBlock) + p.code[i].elems <= DyBlock

Threads == 0 .. Max(Widths) - 1

VARIABLES
  prog,    \* TapeProgram
  slab,    \* its SlabLayout
  home,    \* exec.dy_home_quiet: slot -> position in dy, or -1
  plan,    \* exec.plan
  off,     \* exec.slot_off
  mem,     \* the slab and dy: location -> tag
  epoch,   \* which run of each section the values are of
  ways,    \* the call's split width
  stage,   \* where the call is
  step,    \* the step of its plan
  at,      \* per thread: the task of the phase it has in hand, 0 before the first
  found    \* per thread: whether it found that task's operands

vars == <<prog, slab, home, plan, off, mem, epoch, ways, stage, step, at, found>>

Junk == << >>
NoPlan == [ways |-> 0, steps |-> << >>, off |-> << >>, len |-> 0]

Code(i) == prog.code[i]
DyLocs == {<<"dy", a>> : a \in 0 .. DyLen - 1}
SlabLocs(len) == {<<"slab", a>> : a \in 0 .. len - 1}

---------------------------------------------------------------------------
(* What an instruction reads and writes *)

\* slot_off, or dy for a slot homed there.
Loc(s, c) ==
  IF home[s] >= 0 THEN <<"dy", home[s] + c>> ELSE <<"slab", off[s] + c>>

Tag(s, c, pass) == <<s, c, epoch[SectionOf(prog, Def(prog, s))], pass>>

\* The cells an instruction computes: of a group with a pre-reduction, the
\* columns; of the others, the elements of the output.
Extent(i) == IF Code(i).op = "fused" /\ Code(i).inner > 0 THEN Code(i).inner ELSE Code(i).elems

All(i) == 0 .. Extent(i) - 1

\* Thread w's share: cut by the address of what it writes.
ShareOf(i, w, n) ==
  LET to == IF Code(i).op = "dy" THEN <<"dy", Code(i).at>> ELSE Loc(i, 0)
  IN Share(Extent(i), w, n, IF to[1] = "dy" THEN DyPhase + to[2] ELSE to[2])

\* The cells of slot s that instruction i reads for `cells` in this pass of sweep
\* sw.  A sweep's body reads of the array what the earlier passes stored.
CellsRead(i, s, cells, sw, pass) ==
  IF Code(i).op \in {"copy", "dy"} THEN cells
  ELSE IF s = sw THEN 0 .. pass - 2 ELSE 0 .. Elems(prog, s) - 1

Operands(i, cells, sw, pass) ==
  LET passOf(s) == IF sw > 0 /\ (Def(prog, s) \in Body(prog, sw) \/ s = Second(prog, sw))
                   THEN pass ELSE 0
      read(s) == {<<Loc(s, c), Tag(s, c, passOf(s))>> : c \in CellsRead(i, s, cells, sw, pass)}
  \* a group folds its pre-reduction itself before it reads it
  IN UNION {read(s) : s \in Reads(prog, i) \ {Second(prog, i)}}

\* The elements of a group's output at its pre-reduction's columns.
OutCells(i, cells) == {c \in 0 .. Code(i).elems - 1 : c % Extent(i) \in cells}

Results(i, cells, pass) ==
  IF Code(i).op = "dy"
  THEN LET s == CHOOSE s \in Reads(prog, i) : TRUE
       IN {<<<<"dy", Code(i).at + c>>, Tag(s, c, 0)>> : c \in cells}
  ELSE {<<Loc(i, c), Tag(i, c, pass)>> : c \in OutCells(i, cells)}
         \union IF Code(i).op = "fused" /\ Code(i).inner > 0
                THEN {<<Loc(Second(prog, i), c), Tag(Second(prog, i), c, pass)>> : c \in cells}
                ELSE {}

Found(m, operands) == \A o \in operands : m[o[1]] = o[2]

Store(m, ok, results) ==
  LET locs == {r[1] : r \in results}
      tag(l) == (CHOOSE r \in results : r[1] = l)[2]
  IN [l \in DOMAIN m |-> IF l \notin locs THEN m[l] ELSE IF ok THEN tag(l) ELSE Junk]

---------------------------------------------------------------------------
(* run_range: the instruction loop *)

Exec(m, i, sw, pass) ==
  IF Idle(prog, i) THEN m
  ELSE Store(m, Found(m, Operands(i, All(i), sw, pass)), Results(i, All(i), pass))

\* One pass of the sweep at i: its coordinate, its body, the result stored.
Pass(m, i, pass) ==
  LET coordinate == {<<Loc(Second(prog, i), 0), Tag(Second(prog, i), 0, pass)>>}
      run[k \in 0 .. Code(i).body] ==
        IF k = 0 THEN Store(m, TRUE, coordinate) ELSE Exec(run[k - 1], i + k, i, pass)
      done   == run[Code(i).body]
      result == {<<Loc(s, 0), Tag(s, 0, pass)>> : s \in Reads(prog, i)}
  IN Store(done, Found(done, result), {<<Loc(i, pass - 1), Tag(i, pass - 1, 0)>>})

Sweep(m, i) ==
  LET passes[k \in 0 .. Code(i).elems] == IF k = 0 THEN m ELSE Pass(passes[k - 1], i, k)
  IN passes[Code(i).elems]

RunInstr(m, i) ==
  CASE InBody(prog, i) -> m
    [] ~InBody(prog, i) /\ Code(i).op = "sweep" -> Sweep(m, i)
    [] OTHER -> Exec(m, i, 0, 0)

RunRange(m, lo, hi) ==
  LET run[k \in lo - 1 .. hi] == IF k < lo THEN m ELSE RunInstr(run[k - 1], k)
  IN run[hi]

---------------------------------------------------------------------------
(* run_tape_call *)

Init ==
  /\ prog \in Programs
  /\ slab = ColorSlab(prog)
  /\ home = [s \in Slots(prog) |-> HomeOf(prog, s)]
  /\ plan = NoPlan
  /\ off = slab.off
  /\ mem = [l \in SlabLocs(slab.total) \union DyLocs |-> Junk]
  /\ epoch = [const |-> 0, segment |-> 0, continuous |-> 0]
  /\ ways = 1
  /\ stage = "idle"
  /\ step = 0
  /\ at = [w \in Threads |-> 0]
  /\ found = [w \in Threads |-> FALSE]

\* What may have moved since the last call, of what the program's kept sections
\* read; a first call finds both epochs unset.
Moved ==
  IF epoch.continuous = 0 THEN {"params"}
  ELSE {"none"} \union {m \in {"params"} : prog.const > 0}
                \union {m \in {"forcing"} : prog.segment > 0}

\* A call splits w wide.  New parameters re-run both kept sections, a refreshed
\* forcing the SEGMENT section.
Call(w, moved) ==
  /\ stage = "idle"
  /\ epoch.continuous < MaxCalls
  /\ moved \in Moved
  /\ ways' = w
  /\ epoch' = [const      |-> epoch.const + (IF moved = "params" THEN 1 ELSE 0),
               segment    |-> epoch.segment + (IF moved = "none" THEN 0 ELSE 1),
               continuous |-> epoch.continuous + 1]
  /\ stage' = IF moved = "none" THEN "plan" ELSE moved
  /\ UNCHANGED <<prog, slab, home, plan, off, mem, step, at, found>>

\* The kept sections run, in the layout the last plan left.
Prime ==
  /\ stage \in {"params", "forcing"}
  /\ LET first == IF stage = "params" THEN 1 ELSE prog.const + 1
     IN mem' = RunRange(mem, first, prog.const + prog.segment)
  /\ stage' = "plan"
  /\ UNCHANGED <<prog, slab, home, plan, off, epoch, ways, step, at, found>>

---------------------------------------------------------------------------
(* run_continuous *)

\* A narrow call runs through the loop; a wide one as its plan, built anew when
\* the kept one is for another width.  Later calls of any width use its layout.
Plan ==
  /\ stage = "plan"
  /\ IF ways = 1
     THEN stage' = "serial" /\ UNCHANGED <<plan, off, mem>>
     ELSE /\ stage' = "steps"
          /\ plan' = IF plan.ways = ways THEN plan ELSE BuildPlan(prog, slab, ways)
          /\ off' = IF plan.ways = ways THEN off ELSE plan'.off
          /\ mem' = [l \in DOMAIN mem \union SlabLocs(plan'.len) |->
                       IF l \in DOMAIN mem THEN mem[l] ELSE Junk]
  /\ step' = 1
  /\ UNCHANGED <<prog, slab, home, epoch, ways, at, found>>

RunSerial ==
  /\ stage = "serial"
  /\ mem' = RunRange(mem, prog.const + prog.segment + 1, Len(prog.code))
  /\ stage' = "idle"
  /\ step' = 0
  /\ UNCHANGED <<prog, slab, home, plan, off, epoch, ways, at, found>>

---------------------------------------------------------------------------
(* run_plan *)

InSteps == stage = "steps" /\ step <= Len(plan.steps)
Step == plan.steps[step]
Forked == InSteps /\ Step.kind = "fork" /\ Step.threads > 1

RunLoop ==
  /\ InSteps /\ Step.kind = "loop"
  /\ mem' = RunRange(mem, Step.lo, Step.hi)
  /\ step' = step + 1
  /\ UNCHANGED <<prog, slab, home, plan, off, epoch, ways, stage, at, found>>

RunTasks(m, pcs) ==
  LET run[i \in 0 .. Len(prog.code)] ==
        IF i = 0 THEN m ELSE IF i \in pcs THEN Exec(run[i - 1], i, 0, 0) ELSE run[i - 1]
  IN run[Len(prog.code)]

\* A phase below the fork floor: its tasks in order on the calling thread.
RunAlone ==
  /\ InSteps /\ Step.kind = "fork" /\ Step.threads = 1
  /\ mem' = RunTasks(mem, DOMAIN Step.tasks)
  /\ step' = step + 1
  /\ UNCHANGED <<prog, slab, home, plan, off, epoch, ways, stage, at, found>>

\* Whether thread w has a part of the task at i, and the cells of its part.
TakesPart(w, i) ==
  LET t == Step.tasks[i] IN IF t.ways > 0 THEN w < t.ways ELSE t.thread = w

Part(w, i) == IF Step.tasks[i].ways > 0 THEN ShareOf(i, w, Step.tasks[i].ways) ELSE All(i)

InHand(w) == Forked /\ at[w] \in DOMAIN Step.tasks

\* A thread that is past the program's end has done its parts.
Ended == Len(prog.code) + 1

\* Thread w writes the part it has in hand and takes up its next one.
Advance(w) ==
  /\ Forked
  /\ w < Step.threads
  /\ at[w] # Ended
  /\ LET m == IF InHand(w) THEN Store(mem, found[w], Results(at[w], Part(w, at[w]), 0)) ELSE mem
         next == Min({i \in DOMAIN Step.tasks : i > at[w] /\ TakesPart(w, i)} \union {Ended})
     IN /\ mem' = m
        /\ at' = [at EXCEPT ![w] = next]
        /\ found' = [found EXCEPT ![w] =
             next # Ended /\ Found(m, Operands(next, Part(w, next), 0, 0))]
  /\ UNCHANGED <<prog, slab, home, plan, off, epoch, ways, stage, step>>

Join ==
  /\ Forked
  /\ \A w \in 0 .. Step.threads - 1 : at[w] = Ended
  /\ step' = step + 1
  /\ at' = [w \in Threads |-> 0]
  /\ UNCHANGED <<prog, slab, home, plan, off, mem, epoch, ways, stage, found>>

Return ==
  /\ stage = "steps" /\ step > Len(plan.steps)
  /\ stage' = "idle"
  /\ step' = 0
  /\ UNCHANGED <<prog, slab, home, plan, off, mem, epoch, ways, at, found>>

\* The bound on the calls is reached; checked runs go no further.
Done ==
  /\ stage = "idle" /\ epoch.continuous = MaxCalls
  /\ UNCHANGED vars

Next ==
  \/ \E w \in Widths, moved \in {"none", "forcing", "params"} : Call(w, moved)
  \/ Prime \/ Plan \/ RunSerial \/ RunLoop \/ RunAlone
  \/ \E w \in Threads : Advance(w)
  \/ Join \/ Return \/ Done

Spec == Init /\ [][Next]_vars

---------------------------------------------------------------------------
(* Properties *)

\* The slot a group folds its pre-reduction into is read by that group alone, and
\* no other slot has its storage: the plan does not count its write.
PreReductionsPrivate(p) ==
  \A i \in Pcs(p) :
    p.code[i].op = "fused" /\ p.code[i].inner > 0 =>
      /\ \A j \in Pcs(p) : Second(p, i) \in Reads(p, j) => j = i
      /\ \A s \in Defined(p) :
           s # Second(p, i) => ColorSlab(p).store[s] # ColorSlab(p).store[Second(p, i)]

\* A stretch of dy that a group stores its output in is written by no other: the
\* group runs where its DyWrite would not have.
HomesPrivate(p) ==
  \A s \in Slots(p) : Homed(p, s) =>
    \A i \in Pcs(p) :
      p.code[i].op = "dy" /\ s \notin Reads(p, i) =>
        \/ p.code[i].at + p.code[i].elems <= HomeOf(p, s)
        \/ HomeOf(p, s) + Elems(p, s) <= p.code[i].at

\* A program without sweeps, whose passes write a slot again and again.
Sweepless(p) == \A i \in Pcs(p) : p.code[i].op # "sweep"

LocsOf(cells) == {x[1] : x \in cells}

Touched(i, cells) == LocsOf(Operands(i, cells, 0, 0)) \union LocsOf(Results(i, cells, 0))

\* No thread of a phase writes what another has in hand: neither tasks of one
\* phase nor the shares of one task meet in the slab or in dy (the contract of
\* PhaseJob's and SendPtr's unsafe impl Sync).
NoRace ==
  \A v, w \in Threads :
    v # w /\ InHand(v) /\ InHand(w) =>
      LocsOf(Results(at[v], Part(v, at[v]), 0)) \intersect Touched(at[w], Part(w, at[w])) = {}

\* The plan orders what conflicts: of two tasks of one phase, neither writes
\* storage the other touches, whichever threads run them (the opening comment
\* of plan.rs).
PhasesOrderConflicts ==
  InSteps /\ Step.kind = "fork" =>
    \A i, j \in DOMAIN Step.tasks :
      i # j => LocsOf(Results(i, All(i), 0)) \intersect Touched(j, All(j)) = {}

\* Every cell of a split task is in the share of exactly one thread, wherever its
\* output begins in a cache line and however few cells there are.
SharesCoverOnce ==
  Forked =>
    \A i \in DOMAIN Step.tasks :
      LET n == Step.tasks[i].ways IN
      n > 0 =>
        /\ UNION {Part(w, i) : w \in 0 .. n - 1} = All(i)
        /\ \A v, w \in 0 .. n - 1 : v # w => Part(v, i) \intersect Part(w, i) = {}

\* What dy holds once a call is over is what running the program's instructions
\* one by one computes, from this call's state and the kept sections' last run,
\* whatever the width and the widths of the calls before.
CallIsSerial ==
  stage = "idle" /\ epoch.continuous > 0 =>
    \A a \in 0 .. DyLen - 1 :
      LET writers == {i \in Continuous(prog) :
                        Code(i).op = "dy" /\ a \in Code(i).at .. Code(i).at + Code(i).elems - 1}
          i == Max(writers)
          s == CHOOSE s \in Reads(prog, i) : TRUE
      IN mem[<<"dy", a>>] = IF writers = {} THEN Junk ELSE Tag(s, a - Code(i).at, 0)

\* A kept section's slot that a later section reads holds its section's last run
\* at every moment after it, also amid a phase: no plan's layout, and no slot
\* recycled or moved, ever takes its storage.
KeptSlotsStand ==
  stage \in {"idle", "plan", "serial", "steps"} /\ epoch.const > 0 =>
    \A s \in {s \in Defined(prog) :
                 /\ SectionOf(prog, Def(prog, s)) # "continuous"
                 /\ SectionOf(prog, LastUse(prog, s)) # SectionOf(prog, Def(prog, s))} :
      \A c \in 0 .. Elems(prog, s) - 1 : mem[Loc(s, c)] = Tag(s, c, 0)
=============================================================================

------------------------------ MODULE CallPlan ------------------------------
(***************************************************************************)
(* The plan of a call's continuous instructions at one split width         *)
(* (simulate_array/tape/exec/plan.rs): instructions that do not depend on  *)
(* each other share a phase, which runs as one fork-join; what the plan    *)
(* cannot place runs through the instruction loop, between phases.         *)
(* Segmented-reduction chains, lane programs, per-instruction precision    *)
(* and branches are such loop steps too, and are left out.                 *)
(***************************************************************************)
EXTENDS TapeSlab, ShareCuts

CONSTANTS
  MinShare,   \* MIN_ELEMS_PER_WORKER: what every thread of a split must get
  MinWork,    \* PHASE_MIN_WORK: below it a phase does not fork
  MoveMax,    \* MOVE_MAX_ELEMS: the largest slot given storage of its own
  DyBlock     \* elements of each state variable's block of dy

ASSUME PlanAssumption ==
  MinShare \in Nat /\ MinWork \in Nat /\ MoveMax \in Nat /\ DyBlock \in Nat \ {0}

---------------------------------------------------------------------------
(* place: task or loop step *)

WaysFor(n, ways) == IF ways > 1 /\ n >= ways * MinShare THEN ways ELSE 1

\* The width an instruction splits across; a pre-reduction splits by its columns.
SplitWays(ins, ways) ==
  IF ins.op \in {"copy", "fused", "gather", "dy"}
  THEN WaysFor(IF ins.op = "fused" /\ ins.inner > 0 THEN ins.inner ELSE ins.elems, ways)
  ELSE 1

\* shares: what exec_share can run share by share.
Shares(ins) == ins.op \in {"copy", "fused", "dy"}

\* Instructions the loop runs from here; 0 places a task.
LoopsOver(ins, ways) ==
  CASE ins.op = "sweep" -> 1 + ins.body
    [] SplitWays(ins, ways) > 1 /\ ~Shares(ins) -> 1
    [] OTHER -> 0

---------------------------------------------------------------------------
(* CallPlan::build: the state of the walk.  A phase that is waited for is  *)
(* kept offset by one, 0 standing for none in this segment.                *)

StartWalk(p, slab) ==
  [steps  |-> << >>,
   seg    |-> {},                                    \* tasks since the last loop step: [pc, phase]
   write  |-> [st \in DOMAIN slab.sizes |-> 0],      \* last_write, per storage
   read   |-> [st \in DOMAIN slab.sizes |-> 0],      \* last_read
   dys    |-> {},                                    \* dy_writes: [lo, hi, phase]
   store  |-> slab.store,                            \* store_of
   off    |-> slab.off,
   len    |-> slab.total,
   moved  |-> 0]

Latest(phases) == Max(phases \union {0})

\* The slots of the slab a task writes, as the build lists them: of a group the
\* output if it is not homed in dy, and not its pre-reduction's slot.
PlannedWrites(p, i) == IF p.code[i].op = "dy" \/ Homed(p, i) THEN {} ELSE {i}

\* The range of dy it may write: a DyWrite its variable's block, a group its home.
DyRange(p, i) ==
  LET block == (p.code[i].at \div DyBlock) * DyBlock IN
  CASE p.code[i].op = "dy" -> {[lo |-> block, hi |-> block + DyBlock]}
    [] Homed(p, i) -> {[lo |-> HomeOf(p, i), hi |-> HomeOf(p, i) + p.code[i].elems]}
    [] OTHER -> {}

\* A DyWrite whose group stored the slot into dy does nothing.
Idle(p, i) == p.code[i].op = "dy" /\ \E s \in Reads(p, i) : Homed(p, s)

\* A written slot whose storage would make the task wait gets storage of its own.
MayMove(p, slab, b, s, phase) ==
  LET st == b.store[s] IN
  /\ Latest({b.write[st], b.read[st]}) > phase
  /\ Def(p, s) \in Continuous(p)
  /\ Elems(p, s) <= MoveMax
  /\ b.moved + Elems(p, s) <= slab.total

RoundUp(n) == ((n + Align - 1) \div Align) * Align

Move(p, b, s) ==
  [b EXCEPT !.store[s] = Len(b.write) + 1,
            !.write = Append(@, 0), !.read = Append(@, 0),
            !.off[s] = RoundUp(b.len),
            !.len = RoundUp(b.len) + Elems(p, s),
            !.moved = @ + Elems(p, s)]

\* Mutant: the storage a task reads is not waited for by its next writer.
NoWaitForReaders(b, writes) == Latest({b.write[st] : st \in writes})

\* The phase a writer of these storages waits for.
WaitForStorage(b, writes) ==
  Latest({b.write[st] : st \in writes} \union {b.read[st] : st \in writes})

WaitForDy(b, range) ==
  Latest({d.phase : d \in {d \in b.dys : \E r \in range : r.lo < d.hi /\ d.lo < r.hi}})

\* The tables with what task i, in this phase, reads and writes entered.
Enter(m, i, reads, writes, range, phase) ==
  [m EXCEPT
     !.read = [st \in DOMAIN @ |-> CASE st \in writes -> 0
                                     [] st \in reads \ writes -> Latest({@[st], phase + 1})
                                     [] OTHER         -> @[st]],
     !.write = [st \in DOMAIN @ |-> IF st \in writes THEN phase + 1 ELSE @[st]],
     !.dys = @ \union {[lo |-> r.lo, hi |-> r.hi, phase |-> phase + 1] : r \in range},
     !.seg = @ \union {[pc |-> i, phase |-> phase]}]

PlaceTask(p, slab, ways, b, i) ==
  LET reads   == {b.store[s] : s \in Reads(p, i)}
      range   == DyRange(p, i)
      ready   == Latest({b.write[st] : st \in reads} \union {WaitForDy(b, range)})
      m       == IF i \in PlannedWrites(p, i) /\ MayMove(p, slab, b, i, ready)
                 THEN Move(p, b, i) ELSE b
      writes  == {m.store[s] : s \in PlannedWrites(p, i)}
  IN Enter(m, i, reads, writes, range, Latest({ready, WaitForStorage(m, writes)}))

---------------------------------------------------------------------------
(* flush: the phases of the tasks since the last loop step *)

Least(load, ways) ==
  LET least == {t \in 0 .. ways - 1 : \A u \in 0 .. ways - 1 : load[t] <= load[u]}
  IN IF least = {} THEN 0 ELSE Min(least)

\* Whole tasks, largest first, each to the least loaded thread.
Balance(p, wholes, ways) ==
  LET before(i) == {j \in wholes : \/ p.code[j].elems > p.code[i].elems
                                   \/ p.code[j].elems = p.code[i].elems /\ j < i}
      nth(k) == CHOOSE i \in wholes : Cardinality(before(i)) = k - 1
      load[k \in 0 .. Cardinality(wholes)] ==
        IF k = 0 THEN [t \in 0 .. ways - 1 |-> 0]
        ELSE [load[k - 1] EXCEPT ![Least(load[k - 1], ways)] = @ + p.code[nth(k)].elems]
  IN [i \in wholes |-> Least(load[Cardinality(before(i))], ways)]

Wholes(p, pcs, ways) == {i \in pcs : SplitWays(p.code[i], ways) = 1}

\* One below the fork floor, all if a task splits, and else those whole tasks use.
PhaseThreads(p, pcs, ways) ==
  LET wholes == Wholes(p, pcs, ways)
      thread == Balance(p, wholes, ways)
      work   == FoldSet(LAMBDA i, n : n + p.code[i].elems, 0, pcs)
  IN IF work < MinWork THEN 1
     ELSE IF wholes # pcs THEN ways ELSE Latest({1} \union {thread[i] + 1 : i \in wholes})

Phase(p, pcs, ways) ==
  LET wholes  == Wholes(p, pcs, ways)
      thread  == Balance(p, wholes, ways)
      threads == PhaseThreads(p, pcs, ways)
  IN [kind |-> "fork", threads |-> threads,
      tasks |-> [i \in pcs |->
                   [ways   |-> IF i \in wholes THEN 0 ELSE SplitWays(p.code[i], ways),
                    thread |-> IF i \in wholes /\ threads > 1 THEN thread[i] ELSE 0]]]

\* last_write, last_read and dy_writes are reset by the caller after a loop step.
Flush(p, b, ways) ==
  LET phases == Latest({t.phase + 1 : t \in b.seg})
      pcs(n) == {t.pc : t \in {t \in b.seg : t.phase = n - 1}}
  IN [b EXCEPT !.steps = @ \o [n \in 1 .. phases |-> Phase(p, pcs(n), ways)], !.seg = {}]

PlaceLoop(p, b, ways, lo, hi) ==
  LET f == Flush(p, b, ways)
      joins == f.steps # << >> /\ Last(f.steps).kind = "loop" /\ Last(f.steps).hi = lo - 1
      step == [kind |-> "loop", lo |-> IF joins THEN Last(f.steps).lo ELSE lo, hi |-> hi]
  IN [f EXCEPT !.steps = Append(IF joins THEN Front(@) ELSE @, step),
               !.write = [st \in DOMAIN @ |-> 0],
               !.read  = [st \in DOMAIN @ |-> 0],
               !.dys   = {}]

\* The loop step of a sweep holds its body.
PlaceInstr(p, slab, ways, b, i) ==
  LET n == LoopsOver(p.code[i], ways) IN
  CASE InBody(p, i) \/ (n = 0 /\ Idle(p, i)) -> b
    [] ~InBody(p, i) /\ n > 0 -> PlaceLoop(p, b, ways, i, i + n - 1)
    [] OTHER -> PlaceTask(p, slab, ways, b, i)

\* The walk's state after each continuous instruction.
Walk(p, slab, ways) ==
  LET first == p.const + p.segment
      walk[i \in first .. Len(p.code)] ==
        IF i = first THEN StartWalk(p, slab) ELSE PlaceInstr(p, slab, ways, walk[i - 1], i)
  IN walk

\* The plan: its steps and the layout the slab has from now on.
BuildPlan(p, slab, ways) ==
  LET f == Flush(p, Walk(p, slab, ways)[Len(p.code)], ways)
  IN [ways |-> ways, steps |-> f.steps, off |-> f.off, len |-> f.len]
=============================================================================

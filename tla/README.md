# A TLA+ development of the EarthSciAST Rust runtime

EarthSciAST is a format for Earth-science models (`.esm` documents) with one
implementation per language.  This directory models the part of the Rust
package, `pkg/earthsci-ast-rs`, in which the order of events decides the
result: the threads that evaluate a right-hand side and the plan that says which
of its instructions they may run together, the forcing data shared by several
solves, the sections of a compiled right-hand side that are kept between calls,
the loop that integrates a run in segments, a process-wide setting that
concurrent solves take turns with, the pass that decides, before any of
this, how often each expression of a model has to be computed, and the loader's
walk over the library files a document imports, which renames what it finds.

All paths below are relative to `pkg/earthsci-ast-rs/src` unless they start
with another directory.  `PROJECT.json` lists, for every definition that
models code, the lines it was translated from.

## 1. The system

| Component | Code | State it keeps | Operations |
|---|---|---|---|
| Document tier | `parse`, `validate`, `structural`, `units`, `canonicalize`, `flatten`, `edit`, `graph`, `display` | the document being transformed | pure functions |
| Template imports | `template_imports.rs`, the reference checks of `lower_expression_templates/mirror.rs` | the stack of files being resolved, the scope of each, the document's registry | resolve an import edge, finish a library, finish a component, close the document |
| Subsystem and coupling imports | `ref_loading.rs`, `coupling_imports.rs` | the set of open files | recursive over files |
| Build pipeline | `prepare`, `join`, `relational`, `geometry`, `broad_phase`, `value_invention`, `pushdown_rewrite` | tables and rewritten documents | pure |
| Cadence classification | `cadence`, `classification` | one memo of classes, the stack of definitions under way, the chain of index sets being visited | `partition_model` |
| Array compiler and evaluators | `simulate_array/{compile,eval,rhs,vectorized,cse}.rs` | compiled programs, the field-initial-condition memo | compile; evaluate a right-hand side |
| Tape | `simulate_array/tape/{ir,lower,fuse,xla}.rs`, `tape/exec/{mod,interp,fused}.rs` | a program, its slab layout, the slab | lower and fuse a right-hand side, lay out its slots, run its instructions |
| Kept sections | `simulate_array/tape/exec/mod.rs`, `simulate_array/range/{mod,forcing,tile}.rs`, `SolveScratches` in `simulate_array/driver.rs`, the latch in `simulate_array/eval.rs` | per context: two epochs, the epochs last primed under, the values of two sections; the process-wide epoch source; one fault latch per thread | `eval_into`, `ForcingSet::{new, replace}`, `eval_solve`, `forcing_refreshed`, `eval_expression*` |
| Fork-join pool | `simulate_array/tape/exec/pool.rs` | one process-wide `Pool`: control word, job, pending, panicked, busy, workers | `run`, the worker loop |
| Split execution | `simulate_array/tape/exec/{par,plan}.rs` | the kept plan and the layout it moved the slots to | cut a call into shares, group its instructions in phases, run them through the pool |
| Providers and refresh executor | `provider.rs` | per loader: provider, sorted anchors; the forcing buffer | `materialize_const`, `sample_in_effect`, `refresh_named`, `refresh_times` |
| EarthSciIO adapter | `esio_provider.rs` | per variable: the anchor served last; per record table: the latest decode | `materialize`, `refresh` |
| Problem lifecycle | `problem.rs` | `EsmProblem` (sharing backend, buffer and providers with those remade from it), `Integrator` | `esm_problem`, `solve`, `remake`, `init`, `Integrator::step`, ensembles, callbacks |
| Solver driver | `simulate/driver.rs`, `simulate_array/driver.rs` | the trajectory, step counter, output cursor, segment endpoints | `run_solver`, `run_segmented`, `run_one_segment`, `solve_core` |
| faer guard | `simulate/driver.rs` (`SequentialFaer`) | a count and a saved setting behind a mutex; faer's global setting | `enter`, `drop` |
| Output planning | `data_output.rs` | none | derive a layout |
| Adapters | `wasm.rs`, `bin/*`, `xla_runtime.rs` | none of their own | I/O |
| Other packages | `pkg/EarthSciAST.jl`, `pkg/earthsci-ast-{py,go,ts}`, `pkg/earthsci-narrative`, `pkg/earthsci-typst-plugin`, `formal/` | | other implementations, renderers, a Lean formalization |

### How they interact

`esm_problem` compiles a document and binds the caller's providers in one
`RefreshExecutor`; every parameter a provider feeds is read from a forcing
buffer (`Rc<RefCell<HashMap<..>>>`).  Construction samples the providers once.
`solve` samples them again at its start, and `run_segmented` cuts the span at
the providers' refresh times, refreshing the buffer before each segment.  Each
segment builds a fresh diffsol solver, which `run_solver` drives: it calls the
right-hand side (which reads the buffer), reports to the progress observer,
and collects the output times.  A right-hand side is a tape program: the
CONST and SEGMENT sections run when what they read has changed, the CONTINUOUS
one at every call.  A call of enough cells runs by a plan: its instructions are
grouped in phases, each phase is one fork-join, and `pool::run` hands its tasks
and shares to worker threads, which write into one slab without locks.  `remake` copies a Problem
but shares its backend, buffer and executor, and `Integrator::step` is a
`remake` and a `solve` per grid interval, so all of them reach the same buffer
and the same stateful providers.  Explicit solves of the whole process hold a
`SequentialFaer` guard around their segment.

### Behaviours that are hard, and what makes each part correct

* **Pool** (threads, shared cells without locks, parking, panics).  The job
  is a borrow whose lifetime `run` erases, so it must be provably dead before
  `run` returns on every path.  A wakeup must not be lost between a worker's
  last poll and its park.  Every share runs exactly once whatever could be
  spawned, and a panic reaches the caller it belongs to and nobody else.
* **Forcing** (shared mutable buffer, stateful providers, failures, retries).
  Whoever integrates over a cell of time must read the record in effect there,
  whatever other solves, failed solves and retries left behind.
* **Segmented solve** (boundaries, output grids, early stops).  Cutting a run
  must not be visible: no output time lost, repeated or out of order, no
  segment started from the wrong state, progress that does not restart.
* **Kept sections** (values computed once and reused, two users of a thread,
  faults).  A kept value must be the one the call would compute: after new
  parameters, another forcing set, a refresh of the shared buffer, or a call
  that faulted half-way.  A fault must fail the call or the solve it arose in,
  and no other.
* **faer guard** (overlapping and nested solves, unwinding).  Sequential
  exactly while some explicit solve runs; the host's choice afterwards.
* **Tape and split execution** (recycled storage, threads on one slab, layouts
  that outlive a call).  Slots share storage when their lives do not overlap,
  in program order; a plan runs instructions out of that order and on several
  threads.  No thread may touch what another writes, every cell must be
  computed once, and the result must be that of running the instructions one
  by one, at any width and after calls of any other width.
* **Cadence** (a memo filled on demand, circular definitions).  The class of an
  observed must not depend on the order of the questions, a definition or index
  set that needs itself must be refused by name, and what the pass returns must
  be what the classes say.
* **Template imports** (one file over several paths, substitution by plain
  names).  A declaration crosses edge after edge, and each binds, drops, renames
  and merges by the names it finds then; no name may be captured, missed or
  taken for another, the same file over the same edges must merge with itself,
  and a file that imports itself must be refused as that.
* **Parts not modelled that have a hazard of their own**: subsystem loading
  terminates on cycles of files; a record table shared by several variables
  gives each the record of its own anchor (section 6).

## 2. The modules

| Module | Models | Checked by |
|---|---|---|
| `ForkJoin` | what `pool::run` promises its callers | refined by `ForkJoinPool` |
| `ForkJoinPool` | `pool.rs`, one shared-cell access per step | `pool-safety`, `pool-liveness` |
| `MCForkJoinPool` | symmetry for TLC | |
| `ForkJoinPoolProofs` | proofs about the pool | tlapm |
| `ForcedSolves` | what shared forcing promises the solves | refined by `DiscreteForcing` |
| `DiscreteForcing` | `provider.rs`, the sharing parts of `problem.rs`, the refreshes of `run_segmented` | `forcing-*` |
| `MCDiscreteForcing` | spans, grids and anchors for TLC | |
| `DiscreteForcingProofs` | proofs about the shared forcing | tlapm |
| `SegmentedSolve` | `run_solver`, `nonadvancing_trajectory`, `run_segmented` | `segmented` |
| `SegmentedSolveProofs` | proofs about the segmented run | tlapm |
| `KeptSections` | what a taped right-hand side keeps between calls, forcing sets, `SolveScratches`, the fault latch | `kept-sections*` |
| `MCKeptSections` | parameters and symmetry for TLC | |
| `KeptSectionsProofs` | proofs about the kept sections | tlapm |
| `TapeSlab` | tape programs, slot liveness and recycling (`color_slab`), outputs stored in `dy` | in `PlannedCalls` |
| `ShareCuts` | how a call's elements are cut into shares | in `PlannedCalls` |
| `CallPlan` | the phases of a call (`CallPlan::build`); extends both | in `PlannedCalls` |
| `PlannedCalls` | calls of a program over one slab, by the loop or by the plan's threads; extends `CallPlan` | `call-plan` |
| `MCPlannedCalls` | families of small programs for TLC | |
| `PlannedCallsProofs` | proofs about the slab, the cuts, the plan and the threads of a call | tlapm |
| `Cadence` | `partition_model` and the classes it starts from | `cadence` |
| `MCCadence` | families of small models for TLC | |
| `CadenceProofs` | proofs about the index-set walk, the memo and the rounds' outputs | tlapm |
| `TemplateImports` | the walk over the imports, the pipeline of an edge, the document's close | `template*` |
| `TemplateImportsProofs` | proofs about the walk over the imports | tlapm |
| `TemplateMeaning` | what an import means, and the properties that compare with it; extends `TemplateImports` | `template*` |
| `MCTemplates` | families of small documents for TLC | |
| `SequentialFaer` | the guard | `faer` |
| `SequentialFaerProofs` | proofs about the guard | tlapm |

### ForkJoinPool and ForkJoin

The variables of the first group are the fields of `struct Pool` (`word` is
the pair packed in one `AtomicU64`), the second group is the worker loop's
locals and parking token, the third the locals of `run`.  `begun` and `blown`
are history: they record how often each share of a call began and which
panicked, and no guard reads them.  Actions are named for the statement they
execute: `Claim` is `busy.swap`, `SetWord` the Release store of the control
word, `PollNew`/`PollOld` the worker's load, and so on.  `Grown` may stop the
growing at any size, which is what a failed spawn does.  `Exec`, `OwnShare`
and `SerialShare` may panic.  A nested call from inside a share finds `busy`
set and runs serially, like the call of another thread.

Atomicity: job, pending and workers are plain or relaxed cells reached only
through the Release/Acquire pairs on `word`, `pending` and `busy`; the
`fetch_sub`s of a dispatch form one release sequence that the dispatcher's
Acquire load of 0 synchronizes with.  So any execution has an equivalent one
that interleaves single accesses.  The spins before a park repeat a failed
poll and are stuttering steps.

`ForkJoin` has no threads or cells: a call begins, its shares start at most
once each, it concludes normally only when all ran and none panicked, and by a
panic only when one did, and never while a share of it executes.
`KeepsPromise` in `ForkJoinPool` is that specification under the mapping that
reads a call's phase off the caller's program counter and its open shares off
the workers.

### DiscreteForcing and ForcedSolves

Time is a line of ticks, and cell `k` is the interval `[k, k+1)`; a record is
named by the anchor it was asked for, so that "which record did this cell
use" is all that is kept of the data.  `Vars` are forced parameters with one
provider each.  A client is anything that solves over the shared buffer: a
direct solve (a grid of one point), an `Integrator` (several), a solve of a
remade Problem with another span.  The Problem is reached through `Rc`, so
clients are on one thread and solves do not overlap, but they alternate freely,
fail and are retried.

`Sampled`/`Vacant`/`Written` are `sample_in_effect` and `write_fields`;
`Refreshed` is `refresh_named`; `Seeded` is `seed_vacant_discrete`.
`Memory` is the kind of provider that answers `None` while its record is
unchanged (the EarthSciIO table adapter and the `Stateful` provider of
`tests/provider_forcing_conformance.rs`); the others answer at each of their
anchors.  `AnyTime` providers answer at any time, as the doc comment of
`sample_at` allows.  `Fails` is a refresh that ends with an error at one
provider after any of the others: unreadable data, or a field `RemapProvider`
refuses after the inner provider has moved on.  `Segment` integrates up to the
next boundary with the buffer as it is; the last one hands the client its
trajectory.  `StopsEarly` is a segment that ends with a retcode, whose
trajectory is partial: the part before the stop is a prefix of what `cells`
already held, and is not counted as taken over.

`ForcedSolves` has neither buffer nor provider: each client just gets cells
forced by the record in effect (`InEffect`: the latest anchor not after the
cell, or the declared default).

### SegmentedSolve

Only times are kept.  The options (span, output grid or none, boundaries,
iteration cap) are chosen in `Init`, so a run of TLC covers all of them.
`Enter` is the head of `run_solver` including the answer of
`nonadvancing_trajectory`; `Step` an accepted step of any size with the
observer's verdict, `Blowup` a non-finite state, `HitsCap`, `GridDone`, and
`Close` the collection of a segment's times in `run_segmented`.  `seed` is the
time the state in `u0` belongs to.  An output grid is a set, handed over
sorted, as every caller in the repository does (`SolveOptions` does not check
it).  `Collected` is what `run_segmented` keeps of a segment's times: those
after its start (the first segment keeps its start too) and, with a grid, only
the requested ones, its right end being solved for in any case.

### KeptSections

A context (`TapeCtx` with the epochs of its `TapeExec`) is a record with the
fields of the code; what a section holds is represented by what it was
computed from, so "is the kept value right" is an equality.  `Called`,
`Primed` and `Invalidated` are the three things that happen to a context:
the epochs of a call, the sections it runs, and `invalidate_sections`.

There are two users on one thread.  The *host* evaluates public programs
(`Eval`, `EvalInterpreted`) with workspaces of its own, each call on an
immutable `ForcingSet` whose epoch is unique in the process (`NewSet`).  A
*solve* (`Start` to `Finish` or `RefreshFails`) evaluates through two kept
scratches on one buffer that `Refresh` overwrites; the scratches count
refreshes themselves, and one that has not been called yet does not exist and
is told nothing.  A host may call in the middle of a solve, from its progress
observer or from a provider.  Both kinds of call use one fault latch:
`eval_into` sets aside what is latched and restores it, a solve lets it
accumulate until its end, and `eval_expression` empties it (`NestedExpressions`
says whether the host does that inside a solve).  A fault comes from the CONST
section (`BadParams`), from the SEGMENT section (`BadContents`) or from the
state of one call (`bad`).  The history variable `answer` holds the last
evaluation beside its arguments; `faulted` and `ended` record what happened to
the solve.

It is composed with the forcing by its inputs rather than by name: the content
a `Refresh` leaves in the buffer, any here, is the one `DiscreteForcing`
proves to be the record in effect.

### SequentialFaer

The mutex makes `enter` and `drop` atomic to one another, but the setting is
outside it and is read by every solve of the process, so the accesses inside
the critical section are separate steps.  `Drop` of a guard that is not the
last is one step.  The host may change the setting while no guard is held.

### TapeSlab, ShareCuts, CallPlan and PlannedCalls

The four modules are one component in the order of the code: the compiler lays
the slots out (`TapeSlab`), a call decides a width and plans its phases
(`CallPlan`, with the cuts of `ShareCuts`), and threads run them
(`PlannedCalls`).

A program is a sequence of instructions with the slots they read; the *kinds*
are what the layout and the plan tell apart: work that one thread runs whole,
copies, fused groups (which may read shifted cells, and may fold a
pre-reduction first), gathers (which split, but not share by share), sweeps
(whose body runs once per cell) and stores into `dy`.  `WellFormed` says what
lowering emits: operands are defined first, but for the result of a sweep, and a
copy is as long as its operand.  `ColorSlab`, `Cut` and
`BuildPlan` are functions of the program, translated branch for branch;
`Coloured` is the walk of `color_slab` (`Release`, `Allocate`), `Walk` that of
`CallPlan::build` with its table of last writes and reads per storage
(`Enter`), the storages it moves (`Move`), and the balancing of whole tasks.

`PlannedCalls` gives them memory.  A location of the slab or of `dy` holds the
*tag* of the cell last written to it: which slot and cell, and in which run of
its section.  An instruction that does not find the tags of its operands
writes `Junk`, so a value that was lost to recycled storage, to a stale section
or to another thread shows up in `dy` at the end of the call.  `Advance` is one
thread of a phase: it writes the part of a task it has in hand and takes the
next up, reading its operands then; between the two any other thread may move.
That is the coarsest step at which two overlapping parts can be seen to
overlap (`NoRace` looks at the parts in hand, not only at the values).  `Join`
is the return of `pool::run`, which `ForkJoin` promises only when every share
has ended.  The plan and the layout persist over calls as `exec.plan` and
`exec.slot_off` do: a narrow call after a wide one runs through the loop in
the plan's layout.

Left out: branches with their phi slots, segmented-reduction chains, lane
programs and per-instruction precision (loop steps all, like the gathers that
are in), the split of a scan or of a reduction by lanes, calls that publish
observeds, and the output-only tail.

### Cadence

A model is a table of operator nodes with their children in the order
`child_exprs` lists them, a list of equations, and the annotations and index
sets the guards look at.  `calls` is the recursion of `classify` and
`seed_observed`: the node asked about, what is left to read, and the join so
far; a definition opens a call above it, and `Resolving` is what the code keeps
in `ctx.resolving`.  The rounds are those of `partition_model`, in its order:
annotations (guard 3; a mismatch is reported when the round is over), relational
nodes (guard 2), the index-set walk (guard 1), then one pass over the right-hand
sides for the tally, the frontier, the buffers and whether the hot tree is
empty.  What that last pass computes is computed at once, because by then all
it asks is in the memo.

The references it is compared with know neither memo nor order: `Behind` is the
smallest set of observeds closed under reading, `TrueClass` the join over the
leaves behind a name, and `OutputsFollowClasses` says what is cut and counted
in these terms.

A leaf is a name or a literal; one that is neither (`Malformed`: a boolean, a
null, an array) is refused when it is read, whatever reads it.

Assumed of a model: one defining equation for each unknown (`flatten` and the
validator see to that), and that its expressions are finite trees
(`ExpressionsAreTrees`): an `Expr` owns its operands, so no operator lies below
itself or in two places.  Left out: the labels of materialization points and the
fold kernels (`compute_fold` and what it calls), which evaluate a constant
buffer and keep no state.

### TemplateImports and TemplateMeaning

A scope is three maps in declaration order: templates, index sets,
metaparameters.  A declaration keeps what the edges tell apart: the names in
its variable positions, in its axis positions (`wrt`, `dim`, `var`) and in those
of the index sets its ranges are over (`from`: renamed like an axis, but not
skipped by a binding), the templates it calls, its params and loop symbols, and
whether it is a rule (`match`) or may be called.
A name is a sequence of segments, so that prefixes nest as the dotted names
of the code do; an integer is a name of `Literals`.  A document has one or more
components (`units`); a root library is one unit whose templates are the file's.

`frames` is the recursion of `process_library`, one frame per file with the
edges it has left and the scope merged so far; the code's `stack` is `OnStack`.
`EnterLibrary` is `resolve_import_entry` down to the recursive call,
`FinishLibrary` the end of `process_library` (own declarations last, then the
checks of bodies and loop symbols), `Import` the rest of `resolve_import_entry`
with the importer's merge, `FinishUnit` the end of a component, `Close` the
document's end, at which a root library's templates and every document's
`metaparameters` are put back as they were written.  The pipeline of an edge is translated operator by operator:
`Instantiated` (bindings), `Filtered` (`only`, with the callees carried
along), `RenameFault` and `Renamed` (`prefix`, `rename`, `rebind`, one
simultaneous substitution), `MergeFault` and `MergedScope`.  Each check that
can refuse a document is there with its code, in the order of the code.

`TemplateMeaning` says what an edge means without substituting into names that
something else may own: every occurrence knows whether a binder of its own
template holds it, and an edge is a single substitution on those that are not
held.  `Arrivals` is everything a list of edges brings, in depth-first
post-order.  `MeaningIsKept` compares the scopes of all frames and the blocks of
all components with it after every step.

The two agree under three conditions on a document, which the passing run
observes and findings 3, 6 and 9 drop: a binding value is not also the name of a
param or of another metaparameter of the file it goes into, no axis is renamed
to a param, and no metaparameter is spelled like an index set of its file.

Left out: reading, parsing and schema checks of files; version gates;
arithmetic in metaparameter expressions (a value is a name or an integer) and
folding; enum operators of library templates (their lowering, and the expansion
of calls that it needs, in `process_library`); injected scopes; the renames of
index sets where a subsystem is mounted; and the checks of a component's
templates after the load, by `lower_expression_templates`.  Expanding a template is not part of
the import: bodies travel as they are.

## 3. The runs

| Run | Bounds | What it shows |
|---|---|---|
| `pool-safety` | 2 callers, up to 3 shares, 2 workers, 2 dispatches before the last calls | memory safety of the job, exclusion, exact counting, panic isolation, refinement of `ForkJoin` |
| `pool-liveness` | 1 caller, up to 4 shares, 2 workers, 4 dispatches | every call returns |
| `forcing-mixed` | 4 parameters, 4 clients, horizon 6; two providers remember and have a record from the start, two answer at each anchor; two parameters without a default; unreadable and refused records | forcing is right for everyone, stepped or not, and None-skip is safe |
| `forcing-stale-default` | a provider with memory whose first anchor is after a span's start | finding 1 |
| `segmented` | horizon 4, all grids over 0..5, all boundary sets, caps 0..3 or none | the properties of a segmented run |
| `kept-sections` | 3 parameter vectors (one faults), 2 contents (one faults), 1 workspace, 2 sets, 2 refreshes, 2 changes of parameters | kept values are fresh ones; faults stay with their call or solve; a refresh does not re-run CONST |
| `kept-sections-nested` | 2 parameter vectors, expressions evaluated inside a solve | finding 2 |
| `faer` | 3 threads, 2 nested guards each, 3 settings | the guard |
| `call-plan` | 797 programs of 4 to 6 instructions on arrays of 1, 3, 4 and 6 elements, 2-element lines, 2 calls at widths 1 to 3 | the plan's threads never meet, and compute what the loop would |
| `cadence` | 3 observeds that define each other in every way, trees of 4 operators over every kind of leaf, graphs of 3 index sets | classes, refusals and outputs of the pass |
| `templates` | 15713 documents over 2 or 3 library files, one or two components; chains of at most 3 calls | imports mean what they say; cycles and conflicts are refused exactly where there are any |
| `template-capture` | binding values that the library uses as a param or a metaparameter | finding 3 |

Why the bounds are enough.  *Pool*: two callers give contention for `busy`; two
workers are the least with which one can be left behind by a dispatch another
takes part in; three shares over a pool that may fail to grow give leftover
shares for the caller; a worker that sleeps through a whole dispatch, and one
that joins late, need two dispatches, and calls may still overlap the second.
`WaysCap` of 3 exercises the cap of the share count below `MaxWant` in the
liveness run.  With one caller nothing contends in that run: a caller that
loses the claim never waits, so it can block nobody.  *Forcing*: the anchors
are shared, private to one provider, on and between grid points, before,
at and after the starts of the spans; four clients have three different starts
and one of them steps.  *Segments*: horizon 4 holds three boundaries inside,
so first, middle and last segments, and grids that lie on, between and past
them.  *Kept sections*: workspaces share only the epoch source, so one shows
what its own history can do; two sound parameter vectors are needed to see a
SEGMENT section kept from the other one; one sound content suffices, because a
stale content differs from the right one in whether it faults; two sets let an
epoch be mistaken for another, and two refreshes let the scratches count
differently.  *Guard*: three threads have a first, a middle and a last guard.
*Planned calls*: three elements over two-element lines and up to three threads
give cuts that coincide, are rounded down, and start in the middle of a line
(`dy` begins one element past one); `MoveMax` of 3 lets the plan move the
slots of three elements and not those of four; two calls are the least in which
one finds another's plan and layout, or a section primed before; five
instructions hold a producer, a reader, a slot that recycles its storage and a
reader of that, which is the shortest way to a conflict between slots that do
not read each other; two array sizes, and boxes with columns of their own size,
keep storages from being interchangeable.  Programs of a family are all those
that can be formed, not chosen ones.  *Cadence*: three observeds have cycles of
one, two and three, entered from each member and from outside, and shared
definitions reached by two ways; the thresholds of the frontier are both passed
on one path of three operators; three index sets have chains and diamonds as
well as cycles, and a set whose node reads it alone.  *Templates*: a diamond
is the least graph in which a file arrives twice, and the edges at its foot run
over twenty forms on one side (eight of them refused) and four on the other, so
that arrivals agree, differ, or are kept apart by a prefix; a second edge above
lets a binding or a prefix meet names that an edge below has made; two
components share one registry; all graphs of two libraries have cycles of one
and two files, entered from inside and outside; each refusal has a document of
its own, and `MAX_TEMPLATE_EXPANSION_DEPTH` is 3 instead of 32, with a chain at
the bound and one over it.

The stopping run (`segmented`) ends in states without a successor, so
deadlock is not an error there; everywhere else it is checked (the kept
sections included, where a solve can always start or fail), bounded runs of
the pool included (when `MaxEpoch` is reached the remaining workers can
always poll or wake).  `PlannedCalls`, `Cadence` and `TemplateImports` stutter
explicitly at their end (`Done`, `Returned`, `Ended`), so a call that cannot go
on, or a pass or a load that neither returns nor refuses, is a deadlock.

### Properties worth knowing

* `JobOutlivesShares`: the safety comment of `worker`.
* `PendingCountsOutstanding`: the counter the dispatcher waits on is exactly
  the number of worker shares unfinished, whoever slept or joined late.
* `DrainedBeforeRepublish`: no new word over an undrained one.
* `SolveReadsRecordInEffect`, `PrimedBufferInEffect`: the comments in `solve`
  and `remake`.  `NoneSkipIsSafe`: the premise of None-skip.
  `SteppingChangesNothing`: the promise of `Integrator`, on the forcing.
* `SuccessReportsTheGrid`, `StoppedReportsWhatItReached`,
  `SegmentStartsFromItsState`, `ProgressNeverRestarts`:
  segmentation is invisible.
* `EvalDependsOnArguments`: the doc comment of `eval_into`.
  `SolveReadsBuffer`: that of `SolveScratches`.  `FaultReported`: the comment
  in `solve_core`.  `ConstPrimesOnce`: what keeping the scratches is for; its
  violation would be slow rather than wrong, and no test would fail.
* `ExplicitIsSequential`, `QuietIsRestored`: the two halves of the guard.
* `PhasesOrderConflicts`: the opening comment of `plan.rs`, on what the
  instructions really touch and not on what the build lists.  `NoRace`: the
  same of the parts threads have in hand, across shares of one task too.
  `CallIsSerial` is the result; `KeptSlotsStand` says at every moment, also
  amid a phase, that kept sections are not overwritten.
* `MemoIsJoin`: the memo is right whatever was asked first, also while
  definitions are under way.  `ObservedCyclesRefused`, `SetCyclesRefused`,
  `OutputsFollowClasses`: the guards and the outputs, against references without memo or order.
* `MeaningIsKept`: many edges, each applied by plain names, against one
  substitution that cannot capture.  `CallsResolve`: what `only` lets through
  can be expanded later.  `ImportCyclesRefused`, `ConflictsAreReal`: a diamond
  is neither a cycle nor a conflict; a cycle and a disagreement always are.

### Fairness

`pool-liveness` assumes weak fairness of every thread's next step: the
operating system runs each runnable thread again and again, and the shares of
a right-hand side end.  It does not assume that anyone calls, nor that a
parked thread wakes by itself: `SpuriousWakeup` is allowed and never owed, so
the tokens alone must do.  The dispatcher's wait loop (spin, then yield) is
waiting without a deadline, hence a weakly fair `Wait`.

`segmented` assumes weak fairness of the run as a whole (it is one thread),
and that a step advances time by at least a tick; diffsol fails with an error,
which is `Fail`, when its step size becomes too small.

## 4. The proofs

Everything is proved for arbitrary constants under the assumptions named in
the component modules (`PoolConstants`, `ForcingConstants`,
`SectionConstants`, `GuardConstants`, `SolveConstants`, `CadenceAssumption`,
`ExpressionsAreTrees`, `ImportAssumption`, `PlanAssumption`, `CallConstants`,
`TapeAssumption`), which TLC evaluates in the runs of those modules.  Each proof
goes through one inductive invariant (`PoolInv` and `CallInv`, `ForcingInv`,
`SectionsInv`, `SolveInv`, `GuardInv`, `WalkInv`, `MemoInv` and `RoundsInv`,
`ImportInv` and `TemplateInv`, `PlanInv` and `MemoryInv`), which was checked with
TLC on small instances before it was proved; the runs check the properties that
follow from it.

**Pool** (`ForkJoinPoolProofs`).  The safety properties are not inductive: that
no worker is inside a job when its call returns depends on the count, the count
on which epochs the workers have seen, and that on who may publish.  `PoolInv`
adds `WorkersAreCounted` (no worker is ahead of the word, and one in a share
belongs to the published epoch and holds the published job) and
`DispatchIsPrepared` (what the holder of `busy` has set at each point, and
that nothing is outstanding without a dispatch).  The one quantitative step is
that publishing makes exactly `ways - 1` workers outstanding and finishing
removes one (`PublishStep`, `FinishStep`).  Proved: `PoolInvariant`,
`TypeCorrect`, `DispatchesExclude`, `BorrowIsAlive`, `CountIsExact`,
`PanicIsLocal`, `RepublishIsDrained`.

That the pool implements `ForkJoin` needs to know what each call's shares have
done, of which `PoolInv` says nothing.  `CallInv` says where the caller stands
in `run` and which shares began (`SharesBegan`: those of the workers that took
the published epoch, and of the caller's own the ones it came to), and where a
panic is remembered until the caller collects it (`PanicsAreKept`).  The normal
conclusion is the step that matters: pending is 0, so by `PendingCountsOutstanding`
every worker of the dispatch has taken its share and left it, hence every share
began once and, the flag being down, none panicked.  That no share executes when
a call concludes is `JobOutlivesShares`.  Proved: `CallInvariant` and the
refinement `PoolKeepsPromise`.

**Forcing** (`DiscreteForcingProofs`).  The theorems assume `Dependable`: no
provider answers between its anchors, and one with memory has a record from
the start of every span and is never refused.  Findings 1 and 4 are what
happens without the second part; without the first, a piece of a stepped run
reads what its provider answers at the piece's start.  `ForcingInv` says that what a provider remembers is in the buffer,
that the buffer of a primed segment holds the records in effect at its start,
that between two segments it still holds those of the segment before, and that
what was integrated is what `ForcedSolves` promises.  The argument: a sample
leaves the record in effect whatever the buffer held (`SampleInEffect`), a
refresh turns the record in effect just before a boundary into the one at it
(`RefreshInEffect`), and no record comes into effect inside a segment
(`EndpointBounds`).  A failed refresh writes and remembers the same providers
(`FailingKeepsBuffer`), which is where refusal breaks the argument.  Proved:
`ForcingInvariant`, `RecordInEffect`, `PrimedBuffer`, `NoneSkip`,
`SteppingIsSolving` and the refinement `PromiseIsKept`.

**Segmented solve** (`SegmentedSolveProofs`).  For spans of any length, every
output grid and every set of boundaries.  The report of a finished run depends
on every segment before, so `SolveInv` describes the trajectory at each point:
between segments it is in order and reaches from 0 to exactly the start of the
next one (`OutReachesStart`); within a segment the times reported are those of
the grid due by now and those still to come are the rest (`Stepping`); a segment
that is over reports its grid as far as it came, whatever ended it (`Closing`).
A grid point on a boundary belongs to the segment that ends there, so joining a
segment neither loses a time nor reports one twice.  Sorting a set is shown to list each of
its elements once, in order, by counting those below (`SortedFacts`).  Proved:
`SolveInvariant`, `SolveTypeCorrect`, `SegmentsAreSeeded`, `GridIsReported`,
`StoppedRunIsReported`, `ProgressIsMonotone`.

**Kept sections** (`KeptSectionsProofs`).  That an answer is right is not
inductive, since it depends on what the context held before.  `SectionsInv`
says what the epochs mean: a workspace that has primed holds the sections of
the parameters it saw last and of the set its epoch names, and neither
faulted; a scratch holds those of the solve's parameters, and those of the
buffer if its epoch is current; epochs name one set each.  `WorkspaceCall` and
`ScratchCall` show that a call on such a context computes what a fresh one
does, and the rest of the proof is one lemma per action.  Proved:
`KeptSectionsInvariant`, `TypeCorrect`, `AnswersFromArguments`,
`SolveAnswersFromBuffer`, `ConstOncePerSolve`, and `FaultsAreReported` for a
host that evaluates no expression inside a solve (without that assumption it
is false: finding 2).

**Planned calls** (`PlannedCallsProofs`).  For any programs that are
`WellFormed` and keep their `DyWrite`s within their blocks (`TapeAssumption`, which TLC evaluates
on every program of the run), any widths, line size, fork floor and moving
budget.  The walks of the compiler and of the plan are recursive functions over
the program's instructions; what they keep is shown to hold at each of them by
the least one where it would not (`NatHasLeast`), so no induction over data is
needed.

*Cuts.*  The shares of `share_at`, and those of `share_aligned` for any row
length, are disjoint and together all the elements: the cuts begin at 0, end
at the number of elements and never go back (`SharesPartition`,
`RowSharesPartition`).

*The slab.*  `ColourInv`: a storage has the length of all the slots it was given
to, at most one of its slots is neither dead nor freed, and of two slots that
share one the first is dead when the second is written, by a later instruction or by
the same one if that may write in place (`Recycles`).  From it
`ColouringIsSound`, and with the addresses in order `SlabLayout`.

*The plan.*  `WalkInv` describes the walk of `CallPlan::build` after each
instruction.  `TableInv`: the layout, moved slots included, is a layout.
`SegmentInv`: for each task placed since the last loop step the tables name a
phase at least as late as its own for each storage it reads or writes and for each stretch of `dy`, so that what
conflicts with it later lands behind it, and two tasks of one phase are `Apart`.
`StepsInv`: of the steps emitted, in order, each pair that is not `Apart`
stands in program order, and no instruction is left out.  That moving a slot
does not undo what was placed before needs that the moved slot's readers come
later (`MoveKeeps`).  Hence `PlanIsSound`.

*The calls.*  `PlanInv`: the plan kept is what `BuildPlan` returns for its
width, the layout in use is the slab's or that plan's, and a thread has in
hand a part of the running phase that is its own (`PlanInvariant`).  A plan knows
of storages, a race is about locations: `ResultLocs` and `OperandLocs` bound what
an instruction really touches by the spans of its slots and its stretch of `dy`, and
`SpansApart` keeps spans of different storages apart.  Then tasks of a phase do
not meet because they are `Apart` (`TasksApart`), and shares of one task do
not because they partition its cells and because a group never has the storage
of what it reads (`SharesApart`; a copy that writes in place reads the cells
it writes and no others).  Proved: `SharesOfCalls`, `PlanOrdersConflicts`,
`ThreadsDoNotRace`.

The last two assume `PreReductionsPrivate`: the slot that a group folds its
pre-reduction into is read by that group alone and has a storage of its own.
The plan does not list that write, and without the hypothesis both are false
(finding 5).  All programs of `call-plan` satisfy it, which TLC evaluates.

*The memory.*  A step of a call runs a set of instructions at once: a range of
the loop, all tasks of a phase.  What the memory must then hold is said of the set
D of those that have run and not of their order.  `Settled(D)` is the
cells of every slot that D has defined and something outside D still reads (or
whose storage is its own for good), what the last copies of D left in `dy`,
and `Junk` where nothing writes.  D is `Ordered` if whatever has not run is
`Apart` from the later instructions that have; T is a `Turn` after D if D and
their union are.  The algebra of turns is one lemma: what is settled once T has run on
top of D was written by T, or was settled before and T left it alone
(`SettledNext`), because a slot is dead before its storage is written
again, which `ColouringIsSound` gives in program order and `PlanIsSound` in
the order of the plan.  A turn finds its operands among what is settled, so it
writes the tags it should and never `Junk`.  `DataInv` adds the middle of a
phase: each settled location still holds its cell or is one that a part already
done has written, with what its task writes; and a part in hand has found
its operands (`AdvanceKeeps`, which is where `ThreadsDoNotRace`'s argument is
needed, on parts).  At `Join` the parts of a task are all of it (`JoinKeeps`, by
`SharesOfCalls`).  A kept section counts as run when its stage of the call is past
(`HasRun`), be it by this call or by an earlier one.  Proved:
`MemoryInvariant`; from it `CallsAreSerial`, since after the last step D is
every instruction and what D left in `dy` is what its last writer at each
element writes, and `KeptSlotsHold`, since the last reader of a kept slot is in a
section still to run.

These three assume, besides `PreReductionsPrivate`, that no other `DyWrite`
stores into the stretch of `dy` that a group has for its home
(`HomesPrivate`): `dy_homes` (`exec/mod.rs:805`) does not look at the other
stores, and the group runs where its own store would not have.  A model has one
equation per state, so lowering emits each element of `dy` once; every program
of `call-plan` satisfies the hypothesis.  And they speak of programs without sweeps
(`Sweepless(prog) => ...`): the body of a sweep writes its slots once per
cell, so the tags of a pass are not those of a set of instructions.  The
programs with sweeps in `call-plan`, 24 of 797, stay with TLC.

**Guard** (`SequentialFaerProofs`).  `GuardInv` counts guards as pairs of a
thread and a nesting level; the count is their number, and the setting and the
saved copy are known at every point of `enter` and `drop`.  Proved:
`GuardInvariant`, `ExplicitSequential`, `HostSettingRestored`.

**Cadence** (`CadenceProofs`).  Guard 1 for any number of index sets: that a
partition is returned only when no derived set needs itself says nothing about
the walk, so `WalkInv` describes it.  The gray sets are those under way, each
once; each was started by the one below it (`VisitsLead`); what a visit has
read is finished, or is the visit above it (`ReadsAreFinished`); finished sets
read finished sets, and of any finished sets one reads none of the others
(`BlackHasNoCycle`).  The last is kept because the set that is finished is read
by no set finished before it.  A refusal is a path of the chain, hence a real
cycle (`CyclePath`).  Proved: `WalkInvariant`, `SetCyclesAreRefused`.

The memo for any model.  `MemoInv` has the shape of `WalkInv` over the calls of
`classify`: the observeds under way are a path of definitions that read each
other, none of them memoised or twice on it; what a call has read is joined in
`acc`, and with what it has left makes up the class it was asked for (`Partial`);
a memoised observed has the join of the leaves behind it, reads memoised
observeds only, and does not need itself (`Kept`).  `Behind` is a least closed
set, so what is behind a name is what is behind the names its definition reads
(`BelowOne`, `FastOne`), and joining piece by piece is joining the union: that
lattice and that fixed point are all the argument uses, which is why it does not
matter what was asked first.  An observed that needs itself would be reached
again while it is under way, and is refused there.  Proved: `MemoInvariant`,
`MemoIsAlwaysJoin`, `ObservedCyclesAreRefused`, `CadenceTypeCorrect`.

The outputs.  What `Output` computes it looks up in the memo, so the argument
starts from what the rounds have left there.  `RoundsInv` says that what a round
has yet to visit, or has found right, is every operator of the model
(`PendingGoesOn`): the children of a visited operator join the list before it is
answered.  Hence in the last round everything an operator needs is kept, and
`ClassOf` is the join of the leaves (`ClassOfIs`).  A child is never faster than
the operator that reads it, so from a root down the classes only fall, and where
they first fall is an edge out of an operator still as fast as the root: the
descent that cuts and stops there (`Frontier`) finds those edges and no others
(`CutUnfolds`, `FrontierIs`).  Right-hand sides share no operator, so adding up
their tallies counts each operator once (`TallyGrows`).  The frontier and the
tally are recursive functions on the operators; the descent ends, and a cut edge
is found once, because the expressions are finite trees (`ExpressionsAreTrees`).
Proved: `RoundsInvariant`, `OutputsAlwaysFollowClasses`.

**Template imports** (`TemplateImportsProofs`).  For any documents and import
graphs.  A file is *clean* if it reaches no file that imports itself.
`ImportInv` says that the files behind every edge that has been taken are clean,
and that the stack is a path of imports on which no file is twice.  When a
library is finished all its imports are clean and it is not among what they
reach, for then one of them would reach a file that imports itself: so it is
clean too (`ImportsClean`).  A load refused for a cycle closes the path on the
stack.  Proved: `ImportInvariant`, `CyclesAreRefused`, and `ResolvingIsAPath`,
which bounds the depth of the recursion by the number of files.

That calls resolve is an invariant of the walk (`TemplateInv`): the templates of
every scope are a map that is *closed*, it calls only names it has.  A finished
library is closed because `validate_template_body_references` found it so
(`BodiesResolve`).  Bindings change no calls (`BoundCloses`).  `only` keeps what
`Carried` reaches in as many rounds as there are templates: a round that does not
close the set adds a template, and there are no more to add (`CarriedCloses`).
The renames that passed `build_final_name_maps` are injective on the templates, so
names and calls go to the new names together (`RenamedCloses`); and a merge of
two closed maps is closed (`MergedResolves`).  A component's own templates are
merged last and are not checked here, so what its block promises is about the
others (`BlockCloses`).  The assumption is that a block is a map, each name once,
and that every declaration has the fields the model gives it.  Proved:
`TemplateInvariant`, `CallsAlwaysResolve`.

Only model-checked:

* the liveness properties (`EveryCallReturns`, `RunEnds`), which rest on
  fairness;
* `CallIsSerial` and `KeptSlotsStand` of programs with sweeps: what the memory
  holds between two passes of a body would have to be said cell by cell;
* of the template imports `MeaningIsKept` and `ConflictsAreReal`: the reference
  is recursive over the documents.

The theorems on the forcing without `Dependable`, and the one on faults for a host
that evaluates inside a solve, are false: findings 1, 2 and 4.

## 5. What the runs found

1. *A default that outlives its record* (`forcing-stale-default`).  A provider
   with memory has its first anchor after the start of a span.  The first
   solve seeds the default and picks the record up at its anchor.  A second
   solve seeds the default again, and at the anchor the provider answers
   `None`, the record being the one it delivered last; the default is
   integrated for as long as that record is in effect.
2. *A nested evaluation swallows a solve's fault* (`kept-sections-nested`).  The
   right-hand side latches a fault and goes on with `NaN`.  The host's progress
   observer then evaluates an expression, or solves a small Problem, on the
   same thread: both empty the latch before they start.  The outer solve drains
   an empty latch and ends well.  `RhsProgram::eval_into` has the remedy
   (`FaultScope`); the older entry points do not use it.
3. *A binding value that is captured* (`template-capture`).  An edge puts the
   names of its values into the library's bodies and renames in the result, and
   a template's params shadow only the names bound, not the values.  With
   `{"N": "P"}` a template that has a param `P` reads its param; with
   `{"N": "K"}` under a prefix, a library that has an open `K` of its own reads
   its own.  The specification says that a value's names are the importer's.

Counterexamples beside the runs: each configuration below makes TLC, on the
MC module of its component, find the property it names violated.

4. *A refused record that is not asked for again* (`ForcingRefusedRetry.cfg`).  A
   record of the wrong shape fails the solve, but its provider has already
   moved on; a retry gets `None` and integrates the record before it, without
   an error.
5. *A write the plan does not list* (`CallPlanPre.cfg`).  A fused group that folds
   a pre-reduction writes that slot besides its outputs, and the plan is built
   from the outputs.  If anything else reads the slot, or if its storage was
   recycled from a slot an earlier group reads, the plan may put both in one
   phase.  Whether lowering ever emits such a program is a question about
   fusion, which is not modelled: `absorb_pre_reductions` does not rule it out.
6. *An axis renamed to a param* (`TemplateAxis.cfg`).  The freshness check is about
   metaparameters and rebound names; an index set may be renamed to the name of
   a param of a template that runs over it, and an expansion then replaces the
   axis.
7. *A binding value with a typo* (`TemplateTypos.cfg`) is accepted at an import
   edge, where the specification asks for `template_import_unknown_name`.
8. *A generic library loaded by itself* (`TemplateGeneric.cfg`) is refused as
   `metaparameter_unbound`, where the specification leaves it open (one with a
   default is closed, which `tests/conformance/round_trip/manifest.json` lists
   as a known divergence).
9. *A metaparameter spelled like an index set* (`TemplateSpelling.cfg`).  A binding
   rewrites the `from` of a range, which is in no table of skipped keys because
   no metaparameter may spell an index set
   (`tests/metaparameter_substitution/field_classification.json`).  That is
   checked at the document's close, and a library is checked only for loop
   symbols: if an edge closes the name before that, nothing is refused and the
   range is over the value.
10. *A library that imports, loaded by itself* (`TemplateSelfContained.cfg`).  The
   edges are consumed and the library's own templates put back as written, so
   what they call among the imported ones is gone; the specification (9.6.4,
   rule 5) asks for the self-contained form, with the imported ones merged in.

Smaller divergences met while modelling, without a run.  *Driver*: with an
output grid, a cancel comes before the output times of the accepted step are
drained, so the run reports less than it reached (`simulate/driver.rs:340`;
without a grid the step is recorded first); `maxiters` bounds each segment,
so a run cut `k` times may take `k + 1` times as many steps as
`simulate/api.rs:216-217` says; `api.rs` says a cancel
ends in `SimulateError::Cancelled`, the code in `ReturnCode::Terminated`;
it says the observer is "called once before the first step", but a segmented
run repeats that report at each segment's start; `Integrator` ignores an output
grid of one entry, and runs past `tspan.1` if the grid does; an unsegmented
run reports output times before the start with the initial state, a segmented
one leaves them out; an implicit solve beside an explicit one runs faer
sequentially; a provider that answers at any time makes a stepped run read
values the one-call solve does not; observed rows are re-evaluated over the
last segment's forcing (the code says so).  *Cadence*: `hot_tree_empty` is
documented as "true iff no equation contributes a per-step (CONTINUOUS) term"
(`cadence.rs:765`), but a right-hand side that is a bare name is skipped
(`D(x) = v` leaves the hot tree empty); a cycle of definitions that are bare
names (`a ~ b`, `b ~ a`) is not reported unless an operator reads it; a class
ignores derived index sets in `ranges`, and index sets read by nodes inside a
node's ranges, which `CONFORMANCE_SPEC.md` 5.7.3 lists as edges; and a CONST
child of a DISCRETE buffer under a CONTINUOUS parent is not recorded, though
5.7.4 speaks of every drop.

## 6. Not modelled

* Floating-point values and their agreement between evaluators; lowering and
  fusion of expressions, the interpreter's kernels, the reference evaluator:
  compilers and evaluators whose correctness is equality of results, which the
  repository's differential tests reach and TLC does not.  This is most of the
  package's code (`lower.rs`, `compile.rs`, `eval.rs` alone are 22,000 lines),
  and it is why the mapped share of the lines is small.
* The document tier and the build pipeline: pure functions, covered by
  conformance fixtures.  Subsystem loading and coupling imports: a recursion
  over files with the set of open ones, and a merge whose content is the
  format itself.
* Of the template imports: see the end of their section.
* CONST providers (written once, never again); callbacks, ensembles, output
  planning; adapters; the other packages.
* Of the kept sections: calls that panic, the gathered inputs of lanes, the
  passes of a solve before and after the integration (which latch faults too),
  and the historical routing, whose scratches are not kept.
* Of the taped calls: see the end of the section on `PlannedCalls`; and a
  pre-reduction over a source that is not contiguous, which every thread folds
  over all its cells, storing equal values.
* Looked at and left out as having no states worth a run: the field-initial-
  condition memo (valid while the parameters' bits and the generation of the
  host's handle to the buffer are; a refresh writes no field it reads), the record table of
  `esio_provider.rs` (each variable compares the anchor it served last and
  decodes again when the shared decode is of another), the gathered inputs of
  lanes (refused until a gather has succeeded).
* In the modelled files: memory allocation, messages, statistics other than the
  accepted steps, and the wraparound of the 48-bit epoch.

## 7. Plan

Done: pool, forcing, segmented solve, kept sections, guard, planned calls with
the layout and the cuts, cadence, template imports; and the proofs of section 4.
Left to prove: `CallsAreSerial` and `KeptSlotsHold` for programs with sweeps.

To model next, if wanted: the subsystem mounts of `ref_loading.rs` on top of
`TemplateImports`, where a mounted file's open axes are closed by the document
that mounts it.

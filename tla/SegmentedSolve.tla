--------------------------- MODULE SegmentedSolve ---------------------------
(***************************************************************************)
(* One run of the integrator: the loop of run_solver (simulate/driver.rs)  *)
(* inside the segment loop of run_segmented (simulate_array/driver.rs).    *)
(*                                                                         *)
(* What is abstracted: the state vector, of which only the time it belongs *)
(* to matters; the step sizes, which are any number of ticks up to the     *)
(* stop time; the observer's verdict, a step that comes out non-finite and *)
(* a solver or refresh error, each of which may happen at any step.  The   *)
(* options of the run (end, output grid, boundaries, iteration cap) are    *)
(* chosen freely in Init, so one model covers every combination.           *)
(***************************************************************************)
EXTENDS Integers, Sequences, SequencesExt, FiniteSets

CONSTANTS
  Horizon,    \* the latest end of a span; times are ticks, spans start at 0
  MaxCap      \* the largest iteration cap tried

ASSUME SolveConstants == Horizon \in Nat /\ MaxCap \in Nat

Ticks == 0 .. Horizon
Times == 0 .. Horizon + 1   \* what an output grid may ask for
Native == {-1}              \* saveat: None, the solver's own step grid
NoCap  == -1                \* maxiters: None

VARIABLES
  \* the options of the run
  end, saveat, boundaries, cap,
  \* the segment loop
  a, b,       \* the segment [a, b] being integrated
  seed,       \* the time the state in u0 belongs to
  out,        \* the times of the trajectory so far
  before,     \* stats.n_accepted_steps over the segments finished
  retcode,
  \* run_solver, within the segment
  pc, t, steps, left, segOut,
  \* the latest report to the progress observer, and the latest time the
  \* integration reached with a valid state
  report, reached

options == <<end, saveat, boundaries, cap>>
segment == <<a, b, seed, out, before>>
solver  == <<t, steps, left, segOut>>
vars    == <<options, segment, solver, pc, retcode, report, reached>>

\* The numbers of a set in increasing order: each at the place that as many
\* smaller ones leave it.
Sorted(S) ==
  [i \in 1 .. Cardinality(S) |-> CHOOSE x \in S : Cardinality({y \in S : y < x}) = i - 1]

\* Mutant: the boundary a segment starts at bounds that segment again.
NextEndpointInclusive(from) ==
  LET inside == {x \in boundaries : from <= x /\ x < end}
  IN  IF inside = {} THEN end ELSE Min(inside)

\* run_segmented's endpoints: the boundaries strictly inside, then the end.
NextEndpoint(from) ==
  LET inside == {x \in boundaries : from < x /\ x < end}
  IN  IF inside = {} THEN end ELSE Min(inside)

Init ==
  /\ end \in Ticks
  /\ saveat \in {Native} \union SUBSET Times
  /\ boundaries \in SUBSET (1 .. end - 1)
  /\ cap \in {NoCap} \union 0 .. MaxCap
  /\ a = 0 /\ b = NextEndpoint(0) /\ seed = 0
  /\ out = <<>> /\ before = 0 /\ retcode = "Success"
  /\ pc = "enter" /\ t = 0 /\ steps = 0 /\ left = {} /\ segOut = <<>>
  /\ report = [step |-> 0, t |-> 0] /\ reached = 0

\* An unsegmented run hands its options to the solver verbatim.
Single == boundaries = {}

\* The requested times of the segment: (a, b], or [a, b] for the first.
Requested == {g \in saveat : (IF a = 0 THEN g >= a ELSE g > a) /\ g <= b}

\* Mutant: the segment's right end is not added to its grid.
RequestedOnly == IF Single THEN saveat ELSE Requested

\* The output grid the segment is solved on: its right end is on it, so that
\* the state there seeds the next segment.
SegmentGrid == IF Single THEN saveat ELSE Requested \union {b}

\* nonadvancing_trajectory: the answer is the initial state.
NonAdvancing ==
  \/ b <= a
  \/ saveat # Native /\ \A g \in SegmentGrid : g <= a

Stop(code) == pc' = "close" /\ retcode' = code

\* The head of run_solver: answer a run that cannot advance, report progress
\* before the first step (the observer may cancel there), take the output
\* times at or before the start from the initial state.
Enter(cancel) ==
  /\ pc = "enter"
  /\ t' = a /\ steps' = 0
  /\ report' = [step |-> before, t |-> a]
  /\ IF cancel THEN Stop("Terminated") /\ segOut' = <<>> /\ left' = {}
     ELSE IF saveat = Native THEN
       /\ segOut' = <<a>> /\ left' = {}
       /\ pc' = IF NonAdvancing THEN "close" ELSE "step"
       /\ UNCHANGED retcode
     ELSE
       LET atStart == IF NonAdvancing THEN SegmentGrid ELSE {g \in SegmentGrid : g <= a}
       IN  /\ segOut' = Sorted(atStart)
           /\ left' = SegmentGrid \ atStart
           /\ pc' = IF NonAdvancing THEN "close" ELSE "step"
           /\ UNCHANGED retcode
  /\ UNCHANGED <<options, segment, reached>>

Exhausted == saveat # Native /\ left = {}
Capped    == cap # NoCap /\ steps >= cap

\* Every requested time is out: the run need not reach its end.
GridDone ==
  /\ pc = "step" /\ Exhausted
  /\ Stop("Success")
  /\ UNCHANGED <<options, segment, solver, report, reached>>

HitsCap ==
  /\ pc = "step" /\ ~Exhausted /\ Capped
  /\ Stop("MaxIters")
  /\ UNCHANGED <<options, segment, solver, report, reached>>

\* Mutant: the solver is not given the end of its segment as stop time.
StepsPast(to) ==
  /\ pc = "step" /\ ~Exhausted /\ ~Capped
  /\ t < to
  /\ t' = to /\ steps' = steps + 1
  /\ UNCHANGED <<options, segment>>

\* One accepted step, of any size up to the stop time.
StepTo(to) ==
  /\ pc = "step" /\ ~Exhausted /\ ~Capped
  /\ t < to /\ to <= b
  /\ t' = to /\ steps' = steps + 1
  /\ UNCHANGED <<options, segment>>

\* A step whose state is not finite.
Blowup(to) ==
  /\ StepTo(to)
  /\ Stop("Unstable")
  /\ UNCHANGED <<left, segOut, report, reached>>

\* Mutant: output times are drained only strictly before the step's end.
StepDrainsShort(to, cancel) ==
  /\ StepTo(to)
  /\ report' = [step |-> before + steps', t |-> to]
  /\ reached' = to
  /\ LET due == IF saveat = Native THEN {to}
                ELSE IF cancel THEN {}
                ELSE {g \in left : g < to}
     IN  /\ segOut' = segOut \o Sorted(due)
         /\ left' = left \ due
  /\ IF cancel THEN Stop("Terminated")
     ELSE pc' = (IF to = b THEN "close" ELSE "step") /\ UNCHANGED retcode

\* An accepted step: report it, then drain the output times it passed; the
\* native grid records the step before the observer is asked.
Step(to, cancel) ==
  /\ StepTo(to)
  /\ report' = [step |-> before + steps', t |-> to]
  /\ reached' = to
  /\ LET due == IF saveat = Native THEN {to}
                ELSE IF cancel THEN {}
                ELSE {g \in left : g <= to}
     IN  /\ segOut' = segOut \o Sorted(due)
         /\ left' = left \ due
  /\ IF cancel THEN Stop("Terminated")
     ELSE pc' = (IF to = b THEN "close" ELSE "step") /\ UNCHANGED retcode

\* Mutant: a segment keeps every time it reports, its start included.
KeepsAll(x) == TRUE

\* Which of the segment's times join the trajectory.
Kept(x) ==
  IF Single THEN TRUE
  ELSE IF saveat = Native THEN (IF a = 0 THEN x >= a ELSE x > a) /\ x <= b
  ELSE x \in Requested

\* Those times, in the order the segment reports them.
Collected ==
  LET at == Sorted({k \in DOMAIN segOut : Kept(segOut[k])})
  IN [k \in DOMAIN at |-> segOut[at[k]]]

\* Mutant: the step counter of the reports starts over in every segment.
CloseRestartsCount ==
  /\ pc = "close"
  /\ out' = out \o Collected
  /\ seed' = IF Contains(segOut, b) THEN b ELSE seed
  /\ before' = 0
  /\ IF retcode # "Success" \/ b = end
     THEN pc' = "done" /\ UNCHANGED <<a, b>>
     ELSE pc' = "enter" /\ a' = b /\ b' = NextEndpoint(b)
  /\ UNCHANGED <<options, solver, retcode, report, reached>>

\* The end of a segment: collect its times, take over the state at its right
\* end and go on, unless it stopped early.
Close ==
  /\ pc = "close"
  /\ out' = out \o Collected
  /\ seed' = IF Contains(segOut, b) THEN b ELSE seed
  /\ before' = before + steps
  /\ IF retcode # "Success" \/ b = end
     THEN pc' = "done" /\ UNCHANGED <<a, b>>
     ELSE pc' = "enter" /\ a' = b /\ b' = NextEndpoint(b)
  /\ UNCHANGED <<options, solver, retcode, report, reached>>

\* The solver, or the refresh before a later segment, fails: solve returns
\* the error and no trajectory.
Fail ==
  /\ pc = "step" \/ (pc = "enter" /\ a # 0)
  /\ pc' = "done" /\ retcode' = "Error"
  /\ UNCHANGED <<options, segment, solver, report, reached>>

Next ==
  \/ \E cancel \in BOOLEAN : Enter(cancel) \/ \E to \in Ticks : Step(to, cancel)
  \/ \E to \in Ticks : Blowup(to)
  \/ GridDone \/ HitsCap \/ Close \/ Fail

Spec     == Init /\ [][Next]_vars
FairSpec == Spec /\ WF_vars(Next)
-----------------------------------------------------------------------------
(* Properties *)

\* Every variable stays in its type, and the solver in its segment.
TypeOK ==
  /\ end \in Ticks /\ b \in 0 .. end /\ a \in 0 .. b /\ t \in a .. b
  /\ saveat = Native \/ saveat \subseteq Times
  /\ boundaries \subseteq Ticks
  /\ seed \in Ticks /\ reached \in Ticks
  /\ out \in Seq(Times) /\ segOut \in Seq(Times) /\ left \subseteq Times
  /\ before \in Nat /\ steps \in Nat
  /\ pc \in {"enter", "step", "close", "done"}
  /\ retcode \in {"Success", "MaxIters", "Unstable", "Terminated", "Error"}

\* A segment starts from the state at its start: none is integrated from the
\* state of another time (u0 in run_segmented).
SegmentStartsFromItsState ==
  pc \in {"enter", "step"} => seed = a

OutputTimes == ToSet(out)

\* Times in order, none twice: a refresh boundary that is an output time
\* belongs to two segments and is reported by one.
InOrder == \A i \in 1 .. Len(out) - 1 : out[i] < out[i + 1]

\* A run that succeeds reports its output grid in order, all of it and each
\* time once, wherever the refresh boundaries cut it; without a grid, its
\* start and its end and increasing times between.
SuccessReportsTheGrid ==
  pc = "done" /\ retcode = "Success" =>
    /\ InOrder
    /\ IF saveat = Native THEN {0, end} \subseteq OutputTimes
       ELSE OutputTimes = IF end = 0 THEN saveat ELSE {g \in saveat : g <= end}

\* A run stopped by its cap or by a blow-up reports its output grid exactly
\* as far as it got ("the trajectory ends where the integration ended",
\* run_solver).  One the observer cancelled may lack the output times of the
\* step that was being observed, and no earlier one.
StoppedReportsWhatItReached ==
  pc = "done" /\ saveat # Native =>
    /\ InOrder
    /\ retcode \in {"MaxIters", "Unstable"} => OutputTimes = {g \in saveat : g <= reached}
    /\ retcode = "Terminated" =>
         \E upTo \in -1 .. reached : OutputTimes = {g \in saveat : g <= upTo}

\* Progress is of the whole interval: neither the time nor the step a host
\* is shown ever goes back at a segment boundary (run_segmented wraps the
\* observer for that).
ProgressNeverRestarts ==
  [][report'.step >= report.step /\ report'.t >= report.t]_vars

\* Every run ends, with a retcode or an error.
RunEnds == <>(pc = "done")
=============================================================================

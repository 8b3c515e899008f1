---------------------------- MODULE KeptSections ----------------------------
(***************************************************************************)
(* What a compiled right-hand side keeps between calls, and when it is     *)
(* computed again (simulate_array/tape/exec/mod.rs run_tape_inputs,        *)
(* range/mod.rs, driver.rs SolveScratches), with the thread's fault latch  *)
(* (eval.rs CONST_OOB, FaultScope).                                        *)
(*                                                                         *)
(* A tape runs in three sections: CONST reads the parameters, SEGMENT also *)
(* the forcing, CONTINUOUS also the state.  A context keeps the values of  *)
(* the first two and re-runs them when an epoch moved.  Contexts serve two *)
(* users of one thread: a host that evaluates programs with workspaces of  *)
(* its own, each call naming an immutable forcing set, and a solve whose   *)
(* right-hand side and Jacobian read one buffer the driver refreshes.  The *)
(* host may call between any two calls of a solve, from its observer or a  *)
(* refresh.  A section's value is what it was computed from; the state     *)
(* matters only in whether it makes the CONTINUOUS section fault.  Calls   *)
(* refused on their arguments change nothing and are left out, and so are  *)
(* calls that panic.                                                       *)
(***************************************************************************)
EXTENDS Naturals, FiniteSets

CONSTANTS
  Params,       \* parameter vectors, up to same_params (equal bits)
  BadParams,    \* those the CONST section faults on
  Contents,     \* what forcing buffers can hold
  BadContents,  \* those the SEGMENT section faults on
  Unset,        \* no parameters, no content: never run
  Workspaces,   \* the host's workspaces whose program is taped
  MaxEpoch,     \* bound on the forcing sets made and on the refreshes of a solve
  MaxChanges,   \* bound on a workspace's parameter epoch
  NestedExpressions  \* may the host evaluate expressions during a solve

ASSUME SectionConstants ==
  /\ BadParams \subseteq Params
  /\ BadContents \subseteq Contents
  /\ Unset \notin Params \union Contents
  /\ MaxEpoch \in Nat /\ MaxChanges \in Nat
  /\ NestedExpressions \in BOOLEAN
  /\ {"rhs", "jac"} \intersect Workspaces = {}

Scratches == {"rhs", "jac"}   \* SolveScratches: the kept pair of one solve
Tapes     == Workspaces \union Scratches

VARIABLES
  ctx,       \* the TapeCtx of each workspace and scratch
  sets,      \* the ForcingSets made so far: [epoch, content]
  nextEpoch, \* NEXT_EPOCH
  interp,    \* the host's interpreter workspace: [epoch, map]
  buffer,    \* the forcing buffer the solve refreshes
  solving,   \* the parameters of the solve in progress, or Unset
  latch,     \* a fault is latched on the thread
  \* history: the evaluation just made, with its arguments; whether the solve in
  \* progress, or the last one, latched a fault; how the last one ended
  answer, faulted, ended

host == <<sets, nextEpoch, interp>>
run  == <<buffer, solving, faulted, ended>>
vars == <<ctx, host, latch, answer, run>>

\* Mutant: the process-wide counter starts at the value that means "none".
EpochsFromZero == 0

\* NEXT_EPOCH starts here: 0 is "never primed".
FirstEpoch == 1

NoSegment == [p |-> Unset, f |-> Unset]

NewCtx ==
  [last |-> Unset, pEpoch |-> 0, fEpoch |-> 1, primedP |-> 0, primedF |-> 0,
   const |-> Unset, segment |-> NoSegment]

NoAnswer == [by |-> "none"]

Init ==
  /\ ctx = [c \in Tapes |-> NewCtx]
  /\ sets = {}
  /\ nextEpoch = FirstEpoch
  /\ interp = [epoch |-> 0, map |-> Unset]
  /\ buffer = Unset
  /\ solving = Unset
  /\ latch = FALSE
  /\ answer = NoAnswer
  /\ faulted = FALSE
  /\ ended = "none"
-----------------------------------------------------------------------------
(* One call of a tape *)

\* The epochs of a call with parameters p: its forcing epoch is the set's, or
\* the context's own counter when the call names none (0).
Called(c, p, epoch) ==
  [c EXCEPT !.fEpoch = IF epoch = 0 THEN @ ELSE epoch,
            !.pEpoch = IF c.last = p THEN @ ELSE @ + 1,
            !.last   = p]

RunsConst(c)   == c.primedP # c.pEpoch
RunsSegment(c) == RunsConst(c) \/ c.primedF # c.fEpoch

\* Mutant: new parameters re-run the CONST section alone.
PrimedConstOnly(c, p, f) ==
  IF RunsConst(c)
  THEN [c EXCEPT !.primedP = c.pEpoch, !.const = p,
                 !.primedF = c.fEpoch,
                 !.segment = IF c.primedF # c.fEpoch THEN [p |-> p, f |-> f] ELSE @]
  ELSE IF RunsSegment(c)
  THEN [c EXCEPT !.primedF = c.fEpoch, !.segment = [p |-> c.const, f |-> f]]
  ELSE c

\* The sections after it, f being what the forcing holds.
Primed(c, p, f) ==
  IF RunsConst(c)
  THEN [c EXCEPT !.primedP = c.pEpoch, !.primedF = c.fEpoch,
                 !.const = p, !.segment = [p |-> p, f |-> f]]
  ELSE IF RunsSegment(c)
  THEN [c EXCEPT !.primedF = c.fEpoch, !.segment = [p |-> c.const, f |-> f]]
  ELSE c

\* It latches a fault: one of the sections it runs does.
Faults(c, p, f, bad) ==
  \/ RunsConst(c) /\ p \in BadParams
  \/ RunsSegment(c) /\ f \in BadContents
  \/ bad

\* Mutant: the fault is reported and the sections are kept.
KeepsSections(c) == c

\* invalidate_sections
Invalidated(c) == [c EXCEPT !.last = Unset, !.primedP = 0, !.primedF = 0]

\* What the CONTINUOUS section computes from.
Value(c) == [const |-> c.const, segment |-> c.segment]

\* The same call on a context never used before.
FreshValue(p, f)      == [const |-> p, segment |-> [p |-> p, f |-> f]]
FreshFault(p, f, bad) == p \in BadParams \/ f \in BadContents \/ bad

Answered(by, p, f, bad, value, fault) ==
  answer' = [by |-> by, p |-> p, f |-> f, bad |-> bad, value |-> value, fault |-> fault]
-----------------------------------------------------------------------------
(* The host *)

\* ForcingSet::new, or replace: another buffer, and a new epoch.
NewSet(f) ==
  /\ nextEpoch <= MaxEpoch
  /\ sets' = sets \union {[epoch |-> nextEpoch, content |-> f]}
  /\ nextEpoch' = nextEpoch + 1
  /\ answer' = NoAnswer
  /\ UNCHANGED <<ctx, interp, latch, run>>

\* Mutant: the call's fault is taken and what was latched before it is lost.
EvalDropsLatch(w, p, s, bad) ==
  LET c     == Called(ctx[w], p, s.epoch)
      fault == Faults(c, p, s.content, bad)
      done  == Primed(c, p, s.content)
  IN  /\ c.pEpoch <= MaxChanges
      /\ ctx' = [ctx EXCEPT ![w] = IF fault THEN Invalidated(done) ELSE done]
      /\ Answered("eval", p, s.content, bad, Value(done), fault)
      /\ latch' = FALSE
      /\ UNCHANGED <<host, run>>

\* RhsProgram::eval_into (a tile's is the same).  FaultScope sets aside what
\* is latched and puts it back after taking the call's own fault.
Eval(w, p, s, bad) ==
  LET c     == Called(ctx[w], p, s.epoch)
      fault == Faults(c, p, s.content, bad)
      done  == Primed(c, p, s.content)
  IN  /\ c.pEpoch <= MaxChanges
      /\ ctx' = [ctx EXCEPT ![w] = IF fault THEN Invalidated(done) ELSE done]
      /\ Answered("eval", p, s.content, bad, Value(done), fault)
      /\ UNCHANGED <<host, latch, run>>

\* The same on the interpreter: it computes everything at each call, and
\* rebuilds the buffer it reads when the set's epoch is another one.
EvalInterpreted(p, s, bad) ==
  LET map == IF interp.epoch # s.epoch THEN s.content ELSE interp.map
  IN  /\ interp' = [epoch |-> s.epoch, map |-> map]
      /\ Answered("eval", p, s.content, bad, FreshValue(p, map), FreshFault(p, map, bad))
      /\ UNCHANGED <<ctx, sets, nextEpoch, latch, run>>

\* eval_expression and its kin (a solve inside a solve does the same): they
\* empty the latch before they start, and take their own fault at the end.
EvalExpression ==
  /\ solving = Unset \/ NestedExpressions
  /\ latch' = FALSE
  /\ answer' = NoAnswer
  /\ UNCHANGED <<ctx, host, run>>
-----------------------------------------------------------------------------
(* The solve *)

\* The solve is over, and its scratches with it.
Over ==
  /\ solving # Unset
  /\ solving' = Unset
  /\ ctx' = [c \in Tapes |-> IF c \in Scratches THEN NewCtx ELSE ctx[c]]
  /\ answer' = NoAnswer
  /\ UNCHANGED <<host, buffer, faulted>>

\* solve_core: the latch emptied, the buffer filled, fresh scratches.
Start(p, f) ==
  /\ solving = Unset
  /\ solving' = p
  /\ buffer' = f
  /\ latch' = FALSE
  /\ faulted' = FALSE
  /\ ended' = "none"
  /\ answer' = NoAnswer
  /\ UNCHANGED <<ctx, host>>

\* The right-hand side or the Jacobian evaluates (eval_solve), building its
\* workspace first if need be.  A fault stays latched.
Evaluate(k, bad) ==
  LET c    == Called(ctx[k], solving, 0)
      done == Primed(c, solving, buffer)
      fault == Faults(c, solving, buffer, bad)
  IN  /\ solving # Unset
      /\ ctx' = [ctx EXCEPT ![k] = done]
      /\ latch' = (latch \/ fault)
      /\ faulted' = (faulted \/ fault)
      /\ Answered("solve", solving, buffer, bad, Value(done), fault)
      /\ UNCHANGED <<host, buffer, solving, ended>>

\* Mutant: the Jacobian's scratch is left out.
RefreshRhsOnly(f) ==
  /\ solving # Unset
  /\ ctx["rhs"].fEpoch <= MaxEpoch
  /\ buffer' = f
  /\ ctx' = [ctx EXCEPT !["rhs"].fEpoch = @ + 1]
  /\ answer' = NoAnswer
  /\ UNCHANGED <<host, latch, solving, faulted, ended>>

\* Mutant: a refresh forgets both sections.
RefreshForgetsAll(f) ==
  /\ solving # Unset
  /\ buffer' = f
  /\ ctx' = [c \in Tapes |-> IF c \in Scratches THEN Invalidated(ctx[c]) ELSE ctx[c]]
  /\ answer' = NoAnswer
  /\ UNCHANGED <<host, latch, solving, faulted, ended>>

\* A segment boundary: the driver refreshes the buffer, then tells every
\* scratch built so far (a scratch is built by its first call).
Refresh(f) ==
  /\ solving # Unset
  /\ \A k \in Scratches : ctx[k].fEpoch <= MaxEpoch
  /\ buffer' = f
  /\ ctx' = [c \in Tapes |->
               IF c \in Scratches /\ ctx[c].last # Unset
               THEN [ctx[c] EXCEPT !.fEpoch = @ + 1]
               ELSE ctx[c]]
  /\ answer' = NoAnswer
  /\ UNCHANGED <<host, latch, solving, faulted, ended>>

\* assemble_solution takes the latch; so does const_oob_first when the
\* integrator gives up, which is then an error either way.
Finish ==
  /\ Over
  /\ \E sound \in BOOLEAN :
       ended' = IF latch THEN "fault" ELSE IF sound THEN "ok" ELSE "error"
  /\ latch' = FALSE

\* A refresh fails: the error is returned as it is, the latch left alone.
RefreshFails ==
  /\ Over
  /\ ended' = "error"
  /\ UNCHANGED latch
-----------------------------------------------------------------------------
HostStep ==
  \/ \E f \in Contents : NewSet(f)
  \/ \E p \in Params, s \in sets, bad \in BOOLEAN :
       (\E w \in Workspaces : Eval(w, p, s, bad)) \/ EvalInterpreted(p, s, bad)
  \/ EvalExpression

SolveStep ==
  \/ \E p \in Params, f \in Contents : Start(p, f)
  \/ \E k \in Scratches, bad \in BOOLEAN : Evaluate(k, bad)
  \/ \E f \in Contents : Refresh(f)
  \/ Finish
  \/ RefreshFails

Next == HostStep \/ SolveStep

Spec == Init /\ [][Next]_vars
-----------------------------------------------------------------------------
(* Properties *)

Outcome == {"none", "ok", "error", "fault"}

ContextType ==
  [last : Params \union {Unset}, pEpoch : Nat, fEpoch : Nat,
   primedP : Nat, primedF : Nat, const : Params \union {Unset},
   segment : [p : Params \union {Unset}, f : Contents \union {Unset}]]

\* Every context, set and latch stays in its type, and the counters that hand
\* out epochs never hand out 0, which stands for "never primed".
TypeOK ==
  /\ ctx \in [Tapes -> ContextType]
  /\ \A c \in Tapes : ctx[c].fEpoch # 0
  /\ sets \subseteq [epoch : Nat \ {0}, content : Contents]
  /\ nextEpoch \in Nat
  /\ interp \in [epoch : Nat, map : Contents \union {Unset}]
  /\ buffer \in Contents \union {Unset}
  /\ solving \in Params \union {Unset}
  /\ latch \in BOOLEAN
  /\ faulted \in BOOLEAN
  /\ ended \in Outcome

\* "The result depends only on the program and the arguments' values: not on
\* the thread, the workspace's history, or any other call" (RhsProgram::
\* eval_into).  Whatever a workspace was used for before, a call gives the
\* value of a fresh one, and faults exactly when a fresh one does.
EvalDependsOnArguments ==
  answer.by = "eval" =>
    /\ answer.fault = FreshFault(answer.p, answer.f, answer.bad)
    /\ answer.fault \/ answer.value = FreshValue(answer.p, answer.f)

\* "A kept scratch is exactly the state a fresh one would reach"
\* (SolveScratches): the right-hand side and the Jacobian both read the
\* record the driver last put in the buffer, in whatever order and however
\* late each of them is first called.
SolveReadsBuffer ==
  answer.by = "solve" => answer.value = FreshValue(answer.p, answer.f)

\* A solve that latched a fault never succeeds, although a kept section
\* raises it once only and other evaluations of the thread use the same latch;
\* and no solve is failed by a fault it did not latch.
FaultReported ==
  /\ ended = "ok" => ~faulted
  /\ ended = "fault" => faulted

\* "The tape's CONST section primes once per solve": a refresh does not cost
\* what only the parameters decide.
ConstPrimesOnce ==
  [][\A k \in Scratches :
       solving # Unset /\ ctx[k].primedP # 0 => ctx'[k].primedP = ctx[k].primedP
                                             \/ solving' # solving]_vars

\* What the epochs mean.  A context that has primed holds the sections of the
\* parameters it was last called with and of the forcing its epoch names; a
\* workspace keeps no section that faulted.
PrimedFor(c, f) ==
  /\ c.const = c.last
  /\ c.segment = [p |-> c.last, f |-> f]

WorkspaceKept(c) ==
  /\ c.primedP = 0 => c.last = Unset
  /\ c.primedP # 0 =>
       /\ c.last \in Params \ BadParams
       /\ c.primedP = c.pEpoch
       /\ \E s \in sets : /\ s.epoch = c.primedF
                         /\ s.content \notin BadContents
                         /\ PrimedFor(c, s.content)

\* A scratch may hold faulted sections: their fault is in the latch.
ScratchKept(c) ==
  c # NewCtx =>
    /\ solving # Unset /\ c.last = solving
    /\ c.primedP # 0 /\ c.primedP = c.pEpoch
    /\ c.primedF <= c.fEpoch
    /\ c.const = c.last
    /\ c.primedF = c.fEpoch => PrimedFor(c, buffer)

SectionsInv ==
  /\ TypeOK
  /\ \A w \in Workspaces : WorkspaceKept(ctx[w])
  /\ \A k \in Scratches : ScratchKept(ctx[k])
  /\ \A s, r \in sets : s.epoch = r.epoch => s = r
  /\ \A s \in sets : s.epoch < nextEpoch
  /\ nextEpoch >= FirstEpoch
  /\ interp.epoch # 0 => \E s \in sets : s.epoch = interp.epoch /\ s.content = interp.map
  /\ solving # Unset => buffer \in Contents /\ ended = "none" /\ (latch => faulted)
  /\ solving # Unset /\ ~NestedExpressions => latch = faulted
=============================================================================

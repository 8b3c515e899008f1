------------------------- MODULE KeptSectionsProofs -------------------------
(***************************************************************************)
(* SectionsInv is inductive.  One lemma says what a call does to a host's  *)
(* workspace, another what it does to a scratch of the solve; with them    *)
(* each action is a short case, and what a call answers follows from the   *)
(* invariant of the state it was made in.                                  *)
(***************************************************************************)
EXTENDS KeptSections, TLAPS

\* A context never used is one.
LEMMA NewCtxType == NewCtx \in ContextType /\ NewCtx.fEpoch # 0
  BY DEF NewCtx, NoSegment, ContextType

\* A call's epochs: the context is the same but for what was last seen.
LEMMA CalledIs ==
  ASSUME NEW c \in ContextType, NEW p \in Params, NEW e \in Nat
  PROVE  LET d == Called(c, p, e)
         IN  /\ d \in ContextType
             /\ d.last = p
             /\ d.fEpoch = (IF e = 0 THEN c.fEpoch ELSE e)
             /\ d.pEpoch = (IF c.last = p THEN c.pEpoch ELSE c.pEpoch + 1)
             /\ d.primedP = c.primedP /\ d.primedF = c.primedF
             /\ d.const = c.const /\ d.segment = c.segment
<1> DEFINE n == IF c.last = p THEN c.pEpoch ELSE c.pEpoch + 1
           g == IF e = 0 THEN c.fEpoch ELSE e
<1>1. n \in Nat /\ g \in Nat
  BY DEF ContextType
<1>2. Called(c, p, e) = [c EXCEPT !.fEpoch = g, !.pEpoch = n, !.last = p]
  BY DEF Called, ContextType
<1> HIDE DEF n, g
<1>3. LET d == Called(c, p, e)
      IN  /\ d \in ContextType
          /\ d.last = p /\ d.fEpoch = g /\ d.pEpoch = n
          /\ d.primedP = c.primedP /\ d.primedF = c.primedF
          /\ d.const = c.const /\ d.segment = c.segment
  BY <1>1, <1>2 DEF ContextType
<1> QED BY <1>3 DEF n, g

\* The parameters have moved: both sections run.
LEMMA PrimedBoth ==
  ASSUME NEW c \in ContextType, NEW p \in Params, NEW f \in Contents, RunsConst(c)
  PROVE  LET d == Primed(c, p, f)
         IN  /\ d \in ContextType
             /\ d.last = c.last /\ d.pEpoch = c.pEpoch /\ d.fEpoch = c.fEpoch
             /\ d.primedP = c.pEpoch /\ d.primedF = c.fEpoch
             /\ d.const = p /\ d.segment = [p |-> p, f |-> f]
<1> DEFINE seg == [p |-> p, f |-> f]
<1>1. Primed(c, p, f) = [c EXCEPT !.primedP = c.pEpoch, !.primedF = c.fEpoch,
                                  !.const = p, !.segment = seg]
  BY DEF Primed
<1>2. seg \in [p : Params \union {Unset}, f : Contents \union {Unset}]
  OBVIOUS
<1> HIDE DEF seg
<1>3. LET d == Primed(c, p, f)
      IN  /\ d \in ContextType
          /\ d.last = c.last /\ d.pEpoch = c.pEpoch /\ d.fEpoch = c.fEpoch
          /\ d.primedP = c.pEpoch /\ d.primedF = c.fEpoch
          /\ d.const = p /\ d.segment = seg
  BY <1>1, <1>2 DEF ContextType
<1> QED BY <1>3 DEF seg

\* Only the forcing has: the SEGMENT section runs, on the kept CONST one.
LEMMA PrimedSegment ==
  ASSUME NEW c \in ContextType, NEW p \in Params, NEW f \in Contents,
         ~RunsConst(c), RunsSegment(c)
  PROVE  LET d == Primed(c, p, f)
         IN  /\ d \in ContextType
             /\ d.last = c.last /\ d.pEpoch = c.pEpoch /\ d.fEpoch = c.fEpoch
             /\ d.primedP = c.primedP /\ d.primedF = c.fEpoch
             /\ d.const = c.const /\ d.segment = [p |-> c.const, f |-> f]
<1> DEFINE seg == [p |-> c.const, f |-> f]
<1>1. Primed(c, p, f) = [c EXCEPT !.primedF = c.fEpoch, !.segment = seg]
  BY DEF Primed
<1>2. seg \in [p : Params \union {Unset}, f : Contents \union {Unset}]
  BY DEF ContextType
<1> HIDE DEF seg
<1>3. LET d == Primed(c, p, f)
      IN  /\ d \in ContextType
          /\ d.last = c.last /\ d.pEpoch = c.pEpoch /\ d.fEpoch = c.fEpoch
          /\ d.primedP = c.primedP /\ d.primedF = c.fEpoch
          /\ d.const = c.const /\ d.segment = seg
  BY <1>1, <1>2 DEF ContextType
<1> QED BY <1>3 DEF seg

\* Neither has.
LEMMA PrimedNone ==
  ASSUME NEW c, NEW p, NEW f, ~RunsSegment(c)
  PROVE  Primed(c, p, f) = c
  BY DEF Primed, RunsSegment

\* Taking the marks back leaves a context that keeps nothing.
LEMMA InvalidatedIs ==
  ASSUME NEW c \in ContextType
  PROVE  LET d == Invalidated(c)
         IN  /\ d \in ContextType
             /\ d.last = Unset /\ d.primedP = 0
             /\ d.fEpoch = c.fEpoch
  BY DEF Invalidated, ContextType

-----------------------------------------------------------------------------
(* One call *)

\* A workspace that keeps what WorkspaceKept says answers as a fresh one: the
\* sections it does not run again are the ones the call would compute, and
\* none of them faults.
LEMMA WorkspaceCall ==
  ASSUME SectionsInv, NEW c \in ContextType, WorkspaceKept(c),
         NEW p \in Params, NEW s \in sets, NEW bad \in BOOLEAN
  PROVE  LET d == Called(c, p, s.epoch)
             e == Primed(d, p, s.content)
         IN  /\ Faults(d, p, s.content, bad) <=> FreshFault(p, s.content, bad)
             /\ e \in ContextType /\ e.fEpoch # 0
             /\ e.primedP # 0 /\ e.primedP = e.pEpoch /\ e.primedF = s.epoch
             /\ e.last = p /\ e.const = p
             /\ e.segment = [p |-> p, f |-> s.content]
<1> DEFINE d == Called(c, p, s.epoch)
           e == Primed(d, p, s.content)
<1> SUFFICES /\ Faults(d, p, s.content, bad) <=> FreshFault(p, s.content, bad)
             /\ e \in ContextType /\ e.fEpoch # 0
             /\ e.primedP # 0 /\ e.primedP = e.pEpoch /\ e.primedF = s.epoch
             /\ e.last = p /\ e.const = p
             /\ e.segment = [p |-> p, f |-> s.content]
  OBVIOUS
<1>1. s.epoch \in Nat \ {0} /\ s.content \in Contents
  BY DEF SectionsInv, TypeOK
<1>2. p # Unset
  BY SectionConstants
<1>3. /\ d \in ContextType /\ d.last = p /\ d.fEpoch = s.epoch
      /\ d.pEpoch = (IF c.last = p THEN c.pEpoch ELSE c.pEpoch + 1)
      /\ d.primedP = c.primedP /\ d.primedF = c.primedF
      /\ d.const = c.const /\ d.segment = c.segment
  BY <1>1, CalledIs
<1> HIDE DEF d, e
<1>4. c.pEpoch \in Nat /\ c.primedP \in Nat
  BY DEF ContextType
<1>5. CASE RunsConst(d)
  <2>1. /\ e \in ContextType /\ e.last = p /\ e.fEpoch = s.epoch /\ e.pEpoch = d.pEpoch
        /\ e.primedP = d.pEpoch /\ e.primedF = s.epoch
        /\ e.const = p /\ e.segment = [p |-> p, f |-> s.content]
    BY <1>1, <1>3, <1>5, PrimedBoth DEF e
  <2>2. d.pEpoch # 0
    BY <1>2, <1>3, <1>4, <1>5 DEF RunsConst, WorkspaceKept
  <2>3. Faults(d, p, s.content, bad) <=> FreshFault(p, s.content, bad)
    BY <1>5 DEF Faults, FreshFault, RunsSegment
  <2> QED BY <1>1, <2>1, <2>2, <2>3
<1>6. CASE ~RunsConst(d)
  <2>1. c.primedP # 0 /\ c.last = p /\ c.primedP = c.pEpoch
    BY <1>2, <1>3, <1>4, <1>6 DEF RunsConst, WorkspaceKept
  <2>2. PICK r \in sets : r.epoch = c.primedF /\ r.content \notin BadContents /\ PrimedFor(c, r.content)
    BY <2>1 DEF WorkspaceKept
  <2>3. p \notin BadParams /\ c.const = p
    BY <2>1, <2>2 DEF WorkspaceKept, PrimedFor
  <2>4. CASE RunsSegment(d)
    <3>1. /\ e \in ContextType /\ e.last = p /\ e.fEpoch = s.epoch /\ e.pEpoch = d.pEpoch
          /\ e.primedP = d.primedP /\ e.primedF = s.epoch
          /\ e.const = d.const /\ e.segment = [p |-> d.const, f |-> s.content]
      BY <1>1, <1>3, <1>6, <2>4, PrimedSegment DEF e
    <3>2. Faults(d, p, s.content, bad) <=> FreshFault(p, s.content, bad)
      BY <1>6, <2>3, <2>4 DEF Faults, FreshFault
    <3> QED BY <1>1, <1>3, <2>1, <2>3, <3>1, <3>2
  <2>5. CASE ~RunsSegment(d)
    <3>1. r = s
      BY <1>3, <2>2, <2>5 DEF RunsSegment, SectionsInv
    <3>2. e = d
      BY <2>5, PrimedNone DEF e
    <3>3. Faults(d, p, s.content, bad) <=> FreshFault(p, s.content, bad)
      BY <1>6, <2>2, <2>3, <2>5, <3>1 DEF Faults, FreshFault
    <3>4. e.segment = [p |-> p, f |-> s.content]
      BY <1>3, <2>1, <2>2, <3>1, <3>2 DEF PrimedFor
    <3> QED BY <1>1, <1>3, <2>1, <2>2, <2>3, <3>1, <3>2, <3>3, <3>4
  <2> QED BY <2>4, <2>5
<1> QED BY <1>5, <1>6

\* A scratch answers from the solve's parameters and from the buffer, and its
\* CONST section runs once.
LEMMA ScratchCall ==
  ASSUME SectionsInv, NEW c \in ContextType, c.fEpoch # 0, ScratchKept(c),
         solving # Unset, buffer \in Contents
  PROVE  LET d == Called(c, solving, 0)
             e == Primed(d, solving, buffer)
         IN  /\ e \in ContextType /\ e.fEpoch # 0
             /\ e.primedP # 0 /\ e.primedP = e.pEpoch /\ e.primedF = e.fEpoch
             /\ e.last = solving /\ e.const = solving
             /\ e.segment = [p |-> solving, f |-> buffer]
             /\ c.primedP # 0 => e.primedP = c.primedP
<1> DEFINE d == Called(c, solving, 0)
           e == Primed(d, solving, buffer)
<1> SUFFICES /\ e \in ContextType /\ e.fEpoch # 0
             /\ e.primedP # 0 /\ e.primedP = e.pEpoch /\ e.primedF = e.fEpoch
             /\ e.last = solving /\ e.const = solving
             /\ e.segment = [p |-> solving, f |-> buffer]
             /\ c.primedP # 0 => e.primedP = c.primedP
  OBVIOUS
<1>1. solving \in Params
  BY DEF SectionsInv, TypeOK
<1>2. /\ d \in ContextType /\ d.last = solving /\ d.fEpoch = c.fEpoch
      /\ d.pEpoch = (IF c.last = solving THEN c.pEpoch ELSE c.pEpoch + 1)
      /\ d.primedP = c.primedP /\ d.primedF = c.primedF
      /\ d.const = c.const /\ d.segment = c.segment
  BY <1>1, CalledIs
<1> HIDE DEF d, e
<1>3. CASE c = NewCtx
  <2>1. d.pEpoch = 1 /\ d.primedP = 0 /\ c.primedP = 0
    BY <1>2, <1>3 DEF NewCtx
  <2>2. RunsConst(d)
    BY <2>1 DEF RunsConst
  <2>3. /\ e \in ContextType /\ e.last = solving /\ e.fEpoch = c.fEpoch /\ e.pEpoch = d.pEpoch
        /\ e.primedP = d.pEpoch /\ e.primedF = c.fEpoch
        /\ e.const = solving /\ e.segment = [p |-> solving, f |-> buffer]
    BY <1>1, <1>2, <2>2, PrimedBoth DEF e
  <2> QED BY <2>1, <2>3
<1>4. CASE c # NewCtx
  <2>1. /\ c.last = solving /\ c.primedP # 0 /\ c.primedP = c.pEpoch /\ c.const = solving
        /\ c.primedF = c.fEpoch => PrimedFor(c, buffer)
    BY <1>4 DEF ScratchKept
  <2>2. ~RunsConst(d)
    BY <1>2, <2>1 DEF RunsConst
  <2>3. CASE RunsSegment(d)
    <3>1. /\ e \in ContextType /\ e.last = solving /\ e.fEpoch = c.fEpoch /\ e.pEpoch = d.pEpoch
          /\ e.primedP = d.primedP /\ e.primedF = d.fEpoch
          /\ e.const = d.const /\ e.segment = [p |-> d.const, f |-> buffer]
      BY <1>1, <1>2, <2>2, <2>3, PrimedSegment DEF e
    <3> QED BY <1>2, <2>1, <3>1
  <2>4. CASE ~RunsSegment(d)
    <3>1. e = d
      BY <2>4, PrimedNone DEF e
    <3>2. c.primedF = c.fEpoch
      BY <1>2, <2>4 DEF RunsSegment
    <3>3. e.segment = [p |-> solving, f |-> buffer]
      BY <1>2, <2>1, <3>1, <3>2 DEF PrimedFor
    <3> QED BY <1>2, <2>1, <3>1, <3>2, <3>3
  <2> QED BY <2>3, <2>4
<1> QED BY <1>3, <1>4
-----------------------------------------------------------------------------
(* The invariant *)

LEMMA InitSections == Init => SectionsInv
<1> SUFFICES ASSUME Init PROVE SectionsInv
  OBVIOUS
<1>1. TypeOK
  BY NewCtxType, SectionConstants DEF Init, TypeOK, FirstEpoch, Outcome
<1>2. \A c \in Tapes : ctx[c] = NewCtx
  BY DEF Init
<1>3. \A w \in Workspaces : WorkspaceKept(ctx[w])
  BY <1>2 DEF WorkspaceKept, NewCtx, Tapes
<1>4. \A k \in Scratches : ScratchKept(ctx[k])
  BY <1>2 DEF ScratchKept, Tapes
<1> QED BY <1>1, <1>3, <1>4 DEF Init, SectionsInv, FirstEpoch

\* A step that leaves the contexts and the sets alone keeps what they hold.
LEMMA ContextsUnchanged ==
  ASSUME SectionsInv, UNCHANGED <<ctx, sets, nextEpoch>>,
         solving' = solving /\ buffer' = buffer
  PROVE  /\ ctx' \in [Tapes -> ContextType] /\ \A c \in Tapes : ctx'[c].fEpoch # 0
         /\ \A w \in Workspaces : WorkspaceKept(ctx[w])'
         /\ \A k \in Scratches : ScratchKept(ctx[k])'
         /\ sets' \subseteq [epoch : Nat \ {0}, content : Contents]
         /\ nextEpoch' \in Nat
         /\ \A s, r \in sets' : s.epoch = r.epoch => s = r
         /\ \A s \in sets' : s.epoch < nextEpoch'
         /\ nextEpoch' >= FirstEpoch
<1>1. \A w \in Workspaces : WorkspaceKept(ctx[w])'
  BY DEF SectionsInv, WorkspaceKept, PrimedFor
<1>2. \A k \in Scratches : ScratchKept(ctx[k])'
  BY DEF SectionsInv, ScratchKept, PrimedFor
<1> QED BY <1>1, <1>2 DEF SectionsInv, TypeOK

\* A new set, with an epoch no set has had.
LEMMA NewSetKeeps ==
  ASSUME SectionsInv, NEW f \in Contents, NewSet(f)
  PROVE  SectionsInv'
<1> DEFINE new == [epoch |-> nextEpoch, content |-> f]
<1>1. /\ sets' = sets \union {new} /\ nextEpoch' = nextEpoch + 1
      /\ UNCHANGED <<ctx, interp, latch, buffer, solving, faulted, ended>>
  BY DEF NewSet, run
<1>2. nextEpoch \in Nat /\ nextEpoch >= 1 /\ \A s \in sets : s.epoch < nextEpoch /\ s.epoch \in Nat
  BY DEF SectionsInv, TypeOK, FirstEpoch
<1>3. TypeOK'
  <2>1. sets' \subseteq [epoch : Nat \ {0}, content : Contents]
    BY <1>1, <1>2 DEF SectionsInv, TypeOK
  <2> QED BY <1>1, <1>2, <2>1 DEF SectionsInv, TypeOK
<1>4. \A w \in Workspaces : WorkspaceKept(ctx[w])'
  BY <1>1 DEF SectionsInv, WorkspaceKept, PrimedFor
<1>5. \A k \in Scratches : ScratchKept(ctx[k])'
  BY <1>1 DEF SectionsInv, ScratchKept, PrimedFor
<1>6. \A s, r \in sets' : s.epoch = r.epoch => s = r
  <2> SUFFICES ASSUME NEW s \in sets', NEW r \in sets', s.epoch = r.epoch PROVE s = r
    OBVIOUS
  <2>1. CASE s \in sets /\ r \in sets
    BY <2>1 DEF SectionsInv
  <2>2. CASE s \notin sets
    <3>1. s = new /\ s.epoch = nextEpoch
      BY <1>1, <2>2
    <3>2. r \notin sets
      BY <1>2, <3>1
    <3> QED BY <1>1, <3>1, <3>2
  <2>3. CASE r \notin sets
    <3>1. r = new /\ r.epoch = nextEpoch
      BY <1>1, <2>3
    <3>2. s \notin sets
      BY <1>2, <3>1
    <3> QED BY <1>1, <3>1, <3>2
  <2> QED BY <2>1, <2>2, <2>3
<1>7. \A s \in sets' : s.epoch < nextEpoch'
  BY <1>1, <1>2
<1>8. nextEpoch' >= FirstEpoch
  BY <1>1, <1>2 DEF FirstEpoch
<1>9. interp'.epoch # 0 => \E s \in sets' : s.epoch = interp'.epoch /\ s.content = interp'.map
  BY <1>1 DEF SectionsInv
<1> QED BY <1>1, <1>3, <1>4, <1>5, <1>6, <1>7, <1>8, <1>9 DEF SectionsInv

\* A call of the host's: WorkspaceCall, or nothing kept.
LEMMA EvalKeeps ==
  ASSUME SectionsInv, NEW w \in Workspaces, NEW p \in Params, NEW s \in sets,
         NEW bad \in BOOLEAN, Eval(w, p, s, bad)
  PROVE  SectionsInv'
<1> DEFINE d == Called(ctx[w], p, s.epoch)
           e == Primed(d, p, s.content)
           x == IF Faults(d, p, s.content, bad) THEN Invalidated(e) ELSE e
<1>1. /\ ctx' = [ctx EXCEPT ![w] = x]
      /\ UNCHANGED <<sets, nextEpoch, interp, latch, buffer, solving, faulted, ended>>
  BY DEF Eval, host, run
<1>2. w \in Tapes /\ w \notin Scratches /\ ctx[w] \in ContextType /\ WorkspaceKept(ctx[w])
  BY SectionConstants DEF SectionsInv, TypeOK, Tapes, Scratches
<1>3. /\ Faults(d, p, s.content, bad) <=> FreshFault(p, s.content, bad)
      /\ e \in ContextType /\ e.fEpoch # 0
      /\ e.primedP # 0 /\ e.primedP = e.pEpoch /\ e.primedF = s.epoch
      /\ e.last = p /\ e.const = p
      /\ e.segment = [p |-> p, f |-> s.content]
  BY <1>2, WorkspaceCall
<1>4. x \in ContextType /\ x.fEpoch # 0 /\ WorkspaceKept(x)
  <2>1. CASE FreshFault(p, s.content, bad)
    <3>1. x = Invalidated(e)
      BY <1>3, <2>1
    <3>2. /\ Invalidated(e) \in ContextType /\ Invalidated(e).last = Unset
          /\ Invalidated(e).primedP = 0 /\ Invalidated(e).fEpoch = e.fEpoch
      BY <1>3, InvalidatedIs
    <3> QED BY <1>3, <3>1, <3>2 DEF WorkspaceKept
  <2>2. CASE ~FreshFault(p, s.content, bad)
    <3>1. x = e
      BY <1>3, <2>2
    <3>2. p \notin BadParams /\ s.content \notin BadContents
      BY <2>2 DEF FreshFault
    <3>3. PrimedFor(e, s.content)
      BY <1>3 DEF PrimedFor
    <3> HIDE DEF d, e, x
    <3>4. WorkspaceKept(e)
      BY <1>3, <3>2, <3>3 DEF WorkspaceKept
    <3> QED BY <1>3, <3>1, <3>4
  <2> QED BY <2>1, <2>2
<1> HIDE DEF d, e, x
<1>5. ctx' \in [Tapes -> ContextType] /\ \A c \in Tapes : ctx'[c].fEpoch # 0
  BY <1>1, <1>2, <1>4 DEF SectionsInv, TypeOK
<1>6. TypeOK'
  BY <1>1, <1>5 DEF SectionsInv, TypeOK
<1>7. \A v \in Workspaces : WorkspaceKept(ctx[v])'
  <2> SUFFICES ASSUME NEW v \in Workspaces PROVE WorkspaceKept(ctx[v])'
    OBVIOUS
  <2>1. WorkspaceKept(ctx'[v])
    BY <1>1, <1>2, <1>4 DEF SectionsInv, TypeOK, Tapes
  <2> QED BY <1>1, <2>1 DEF WorkspaceKept, PrimedFor
<1>8. \A k \in Scratches : ScratchKept(ctx[k])'
  <2>1. \A k \in Scratches : ctx'[k] = ctx[k]
    BY <1>1, <1>2 DEF SectionsInv, TypeOK, Tapes
  <2> QED BY <1>1, <2>1 DEF SectionsInv, ScratchKept, PrimedFor
<1> QED BY <1>1, <1>6, <1>7, <1>8 DEF SectionsInv

\* The interpreter's map is the content of the set its epoch names.
LEMMA EvalInterpretedKeeps ==
  ASSUME SectionsInv, NEW p \in Params, NEW s \in sets, NEW bad \in BOOLEAN,
         EvalInterpreted(p, s, bad)
  PROVE  SectionsInv' /\ interp'.map = s.content
<1>1. UNCHANGED <<ctx, sets, nextEpoch, latch, buffer, solving, faulted, ended>>
  BY DEF EvalInterpreted, run
<1>2. s.epoch \in Nat \ {0} /\ s.content \in Contents
  BY DEF SectionsInv, TypeOK
<1>3. interp' = [epoch |-> s.epoch, map |-> s.content]
  <2>1. CASE interp.epoch # s.epoch
    BY <2>1 DEF EvalInterpreted
  <2>2. CASE interp.epoch = s.epoch
    <3>1. PICK r \in sets : r.epoch = interp.epoch /\ r.content = interp.map
      BY <1>2, <2>2 DEF SectionsInv
    <3>2. r = s
      BY <2>2, <3>1 DEF SectionsInv
    <3> QED BY <2>2, <3>1, <3>2 DEF EvalInterpreted
  <2> QED BY <2>1, <2>2
<1>4. TypeOK'
  BY <1>1, <1>2, <1>3 DEF SectionsInv, TypeOK
<1> QED BY <1>1, <1>3, <1>4, ContextsUnchanged DEF SectionsInv

\* Nothing but the latch moves, and only when no solve runs or nested
\* expressions are allowed.
LEMMA EvalExpressionKeeps ==
  ASSUME SectionsInv, EvalExpression
  PROVE  SectionsInv'
<1>1. UNCHANGED <<ctx, sets, nextEpoch, interp, buffer, solving, faulted, ended>> /\ latch' = FALSE
  BY DEF EvalExpression, host, run
<1>2. TypeOK'
  BY <1>1 DEF SectionsInv, TypeOK
<1>3. solving # Unset => NestedExpressions
  BY DEF EvalExpression
<1> QED BY <1>1, <1>2, <1>3, ContextsUnchanged DEF SectionsInv

\* Between solves every scratch is new, so a solve starts from new ones.
LEMMA StartKeeps ==
  ASSUME SectionsInv, NEW p \in Params, NEW f \in Contents, Start(p, f)
  PROVE  SectionsInv'
<1>1. /\ solving = Unset /\ solving' = p /\ buffer' = f
      /\ latch' = FALSE /\ faulted' = FALSE /\ ended' = "none"
      /\ UNCHANGED <<ctx, sets, nextEpoch, interp>>
  BY DEF Start, host
<1>2. TypeOK'
  BY <1>1 DEF SectionsInv, TypeOK, Outcome
<1>3. \A w \in Workspaces : WorkspaceKept(ctx[w])'
  BY <1>1 DEF SectionsInv, WorkspaceKept, PrimedFor
<1>4. \A k \in Scratches : ctx[k] = NewCtx
  BY <1>1 DEF SectionsInv, ScratchKept
<1>5. \A k \in Scratches : ScratchKept(ctx[k])'
  BY <1>1, <1>4 DEF ScratchKept
<1> QED BY <1>1, <1>2, <1>3, <1>5 DEF SectionsInv

\* Whatever ends a solve drops its scratches.
LEMMA OverKeeps ==
  ASSUME SectionsInv, Over, latch' \in BOOLEAN, ended' \in Outcome
  PROVE  SectionsInv'
<1>1. /\ solving' = Unset
      /\ ctx' = [c \in Tapes |-> IF c \in Scratches THEN NewCtx ELSE ctx[c]]
      /\ UNCHANGED <<sets, nextEpoch, interp, buffer, faulted>>
  BY DEF Over, host
<1>2. ctx' \in [Tapes -> ContextType] /\ \A c \in Tapes : ctx'[c].fEpoch # 0
  <2>1. \A c \in Tapes : ctx'[c] \in ContextType /\ ctx'[c].fEpoch # 0
    BY <1>1, NewCtxType DEF SectionsInv, TypeOK
  <2> QED BY <1>1, <2>1
<1>3. TypeOK'
  BY <1>1, <1>2 DEF SectionsInv, TypeOK
<1>4. \A w \in Workspaces : WorkspaceKept(ctx[w])'
  <2>1. \A w \in Workspaces : ctx'[w] = ctx[w]
    BY <1>1, SectionConstants DEF Tapes, Scratches
  <2>2. sets' = sets
    BY <1>1
  <2> QED BY <2>1, <2>2 DEF SectionsInv, WorkspaceKept, PrimedFor
<1>5. \A k \in Scratches : ScratchKept(ctx[k])'
  BY <1>1 DEF ScratchKept, Tapes
<1> QED BY <1>1, <1>3, <1>4, <1>5 DEF SectionsInv

\* A call of the solve's: ScratchCall, and what it latches.
LEMMA EvaluateKeeps ==
  ASSUME SectionsInv, NEW k \in Scratches, NEW bad \in BOOLEAN, Evaluate(k, bad)
  PROVE  SectionsInv'
<1> DEFINE d == Called(ctx[k], solving, 0)
           e == Primed(d, solving, buffer)
           fault == Faults(d, solving, buffer, bad)
<1>1. /\ solving # Unset /\ ctx' = [ctx EXCEPT ![k] = e]
      /\ latch' = (latch \/ fault) /\ faulted' = (faulted \/ fault)
      /\ UNCHANGED <<sets, nextEpoch, interp, buffer, solving, ended>>
  BY DEF Evaluate, host
<1>2. k \in Tapes /\ ctx[k] \in ContextType /\ ctx[k].fEpoch # 0 /\ ScratchKept(ctx[k])
  BY DEF SectionsInv, TypeOK, Tapes
<1>3. /\ e \in ContextType /\ e.fEpoch # 0
      /\ e.primedP # 0 /\ e.primedP = e.pEpoch /\ e.primedF = e.fEpoch
      /\ e.last = solving /\ e.const = solving
      /\ e.segment = [p |-> solving, f |-> buffer]
  BY <1>1, <1>2, ScratchCall DEF SectionsInv
<1> HIDE DEF d, e, fault
<1>4. ctx' \in [Tapes -> ContextType] /\ \A c \in Tapes : ctx'[c].fEpoch # 0
  BY <1>1, <1>2, <1>3 DEF SectionsInv, TypeOK
<1>5. latch' \in BOOLEAN /\ faulted' \in BOOLEAN
  BY <1>1
<1>6. TypeOK'
  BY <1>1, <1>4, <1>5 DEF SectionsInv, TypeOK
<1>7. \A w \in Workspaces : WorkspaceKept(ctx[w])'
  <2>1. \A w \in Workspaces : ctx'[w] = ctx[w]
    BY <1>1, SectionConstants DEF SectionsInv, TypeOK, Tapes, Scratches
  <2> QED BY <1>1, <2>1 DEF SectionsInv, WorkspaceKept, PrimedFor
<1>8. \A j \in Scratches : ScratchKept(ctx[j])'
  <2>1. e.primedF \in Nat /\ e.primedF <= e.fEpoch
    BY <1>3 DEF ContextType
  <2>2. ScratchKept(e)
    BY <1>1, <1>3, <2>1 DEF ScratchKept, PrimedFor
  <2> SUFFICES ASSUME NEW j \in Scratches PROVE ScratchKept(ctx[j])'
    OBVIOUS
  <2>3. ScratchKept(ctx'[j])
    BY <1>1, <1>2, <2>2 DEF SectionsInv, TypeOK, Tapes
  <2> QED BY <1>1, <2>3 DEF ScratchKept, PrimedFor
<1>9. ended = "none" /\ buffer \in Contents /\ (latch' => faulted')
      /\ (~NestedExpressions => latch' = faulted')
  BY <1>1 DEF SectionsInv
<1> QED BY <1>1, <1>6, <1>7, <1>8, <1>9 DEF SectionsInv

\* A refresh moves the forcing epoch of every scratch that has primed.
LEMMA RefreshKeeps ==
  ASSUME SectionsInv, NEW f \in Contents, Refresh(f)
  PROVE  SectionsInv'
<1>1. /\ solving # Unset /\ buffer' = f
      /\ ctx' = [c \in Tapes |-> IF c \in Scratches /\ ctx[c].last # Unset
                                THEN [ctx[c] EXCEPT !.fEpoch = @ + 1] ELSE ctx[c]]
      /\ UNCHANGED <<sets, nextEpoch, interp, latch, solving, faulted, ended>>
  BY DEF Refresh, host
<1>2. ctx' \in [Tapes -> ContextType] /\ \A c \in Tapes : ctx'[c].fEpoch # 0
  <2> SUFFICES ASSUME NEW c \in Tapes PROVE ctx'[c] \in ContextType /\ ctx'[c].fEpoch # 0
    BY <1>1
  <2>1. ctx[c] \in ContextType /\ ctx[c].fEpoch # 0
    BY DEF SectionsInv, TypeOK
  <2>2. [ctx[c] EXCEPT !.fEpoch = @ + 1] \in ContextType /\ ctx[c].fEpoch + 1 # 0
    BY <2>1 DEF ContextType
  <2> QED BY <1>1, <2>1, <2>2 DEF ContextType
<1>3. TypeOK'
  BY <1>1, <1>2 DEF SectionsInv, TypeOK
<1>4. \A w \in Workspaces : WorkspaceKept(ctx[w])'
  <2>1. \A w \in Workspaces : ctx'[w] = ctx[w]
    BY <1>1, SectionConstants DEF Tapes, Scratches
  <2>2. sets' = sets
    BY <1>1
  <2> QED BY <2>1, <2>2 DEF SectionsInv, WorkspaceKept, PrimedFor
<1>5. \A k \in Scratches : ScratchKept(ctx[k])'
  <2> SUFFICES ASSUME NEW k \in Scratches PROVE ScratchKept(ctx[k])'
    OBVIOUS
  <2> DEFINE c == ctx[k]
  <2>1. k \in Tapes /\ c \in ContextType /\ ScratchKept(c)
    BY DEF SectionsInv, TypeOK, Tapes
  <2>2. CASE c = NewCtx
    <3>1. ctx'[k] = NewCtx
      BY <1>1, <2>1, <2>2 DEF NewCtx
    <3> QED BY <3>1 DEF ScratchKept
  <2>3. CASE c # NewCtx
    <3>1. /\ c.last = solving /\ c.primedP # 0 /\ c.primedP = c.pEpoch
          /\ c.primedF <= c.fEpoch /\ c.const = c.last
      BY <2>1, <2>3 DEF ScratchKept
    <3>2. ctx'[k] = [c EXCEPT !.fEpoch = @ + 1]
      BY <1>1, <2>1, <3>1
    <3>3. /\ ctx'[k].last = c.last /\ ctx'[k].primedP = c.primedP /\ ctx'[k].pEpoch = c.pEpoch
          /\ ctx'[k].primedF = c.primedF /\ ctx'[k].const = c.const
          /\ ctx'[k].fEpoch = c.fEpoch + 1
      BY <2>1, <3>2 DEF ContextType
    <3>4. c.primedF \in Nat /\ c.fEpoch \in Nat
      BY <2>1 DEF ContextType
    <3>5. ctx'[k].primedF < ctx'[k].fEpoch
      BY <3>1, <3>3, <3>4
    <3> HIDE DEF c
    <3> QED BY <1>1, <3>1, <3>3, <3>4, <3>5 DEF ScratchKept
  <2> QED BY <2>2, <2>3
<1> QED BY <1>1, <1>3, <1>4, <1>5 DEF SectionsInv

LEMMA NextSections == SectionsInv /\ [Next]_vars => SectionsInv'
<1> SUFFICES ASSUME SectionsInv, [Next]_vars PROVE SectionsInv'
  OBVIOUS
<1>1. ASSUME NEW f \in Contents, NewSet(f) PROVE SectionsInv'
  BY <1>1, NewSetKeeps
<1>2. ASSUME NEW p \in Params, NEW s \in sets, NEW bad \in BOOLEAN, NEW w \in Workspaces,
             Eval(w, p, s, bad)
      PROVE  SectionsInv'
  BY <1>2, EvalKeeps
<1>3. ASSUME NEW p \in Params, NEW s \in sets, NEW bad \in BOOLEAN, EvalInterpreted(p, s, bad)
      PROVE  SectionsInv'
  BY <1>3, EvalInterpretedKeeps
<1>4. CASE EvalExpression
  BY <1>4, EvalExpressionKeeps
<1>5. ASSUME NEW p \in Params, NEW f \in Contents, Start(p, f) PROVE SectionsInv'
  BY <1>5, StartKeeps
<1>6. ASSUME NEW k \in Scratches, NEW bad \in BOOLEAN, Evaluate(k, bad) PROVE SectionsInv'
  BY <1>6, EvaluateKeeps
<1>7. ASSUME NEW f \in Contents, Refresh(f) PROVE SectionsInv'
  BY <1>7, RefreshKeeps
<1>8. CASE Finish
  <2>1. Over /\ latch' = FALSE
    BY <1>8 DEF Finish
  <2>2. ended' \in Outcome
    BY <1>8 DEF Finish, Outcome
  <2> QED BY <2>1, <2>2, OverKeeps
<1>9. CASE RefreshFails
  <2>1. Over /\ latch' = latch /\ ended' = "error"
    BY <1>9 DEF RefreshFails
  <2>2. latch' \in BOOLEAN /\ ended' \in Outcome
    BY <2>1 DEF SectionsInv, TypeOK, Outcome
  <2> QED BY <2>1, <2>2, OverKeeps
<1>10. CASE UNCHANGED vars
  <2>1. UNCHANGED <<ctx, sets, nextEpoch, interp, buffer, solving, latch, faulted, ended>>
    BY <1>10 DEF vars, host, run
  <2>2. TypeOK'
    BY <2>1 DEF SectionsInv, TypeOK
  <2> QED BY <2>1, <2>2, ContextsUnchanged DEF SectionsInv
<1> QED BY <1>1, <1>2, <1>3, <1>4, <1>5, <1>6, <1>7, <1>8, <1>9, <1>10
        DEF Next, HostStep, SolveStep

\* Whatever the programs, the sets and the solves, a kept section is the one
\* its epochs name: SectionsInv holds for any parameters and forcing contents,
\* any number of workspaces, and any bounds.
THEOREM KeptSectionsInvariant == Spec => []SectionsInv
  BY InitSections, NextSections, PTL DEF Spec

\* Every context and counter stays in its type; no set has epoch 0.
THEOREM TypeCorrect == Spec => []TypeOK
<1>1. SectionsInv => TypeOK
  BY DEF SectionsInv
<1> QED BY <1>1, KeptSectionsInvariant, PTL
-----------------------------------------------------------------------------
(* What a call answers *)

\* A host's call gives the value of a fresh workspace and faults when a fresh
\* one does, whatever the workspace was used for before.
THEOREM AnswersFromArguments == Spec => []EvalDependsOnArguments
<1>1. Init => EvalDependsOnArguments
  BY DEF Init, NoAnswer, EvalDependsOnArguments
<1>2. ASSUME SectionsInv, EvalDependsOnArguments, [Next]_vars PROVE EvalDependsOnArguments'
  <2>1. ASSUME NEW p \in Params, NEW s \in sets, NEW bad \in BOOLEAN, NEW w \in Workspaces,
               Eval(w, p, s, bad)
        PROVE  EvalDependsOnArguments'
    <3> DEFINE d == Called(ctx[w], p, s.epoch)
               e == Primed(d, p, s.content)
               fault == Faults(d, p, s.content, bad)
    <3>1. answer' = [by |-> "eval", p |-> p, f |-> s.content, bad |-> bad,
                     value |-> Value(e), fault |-> fault]
      BY <2>1 DEF Eval, Answered
    <3>2. ctx[w] \in ContextType /\ WorkspaceKept(ctx[w])
      BY <1>2 DEF SectionsInv, TypeOK, Tapes
    <3>3. (fault <=> FreshFault(p, s.content, bad)) /\ e.const = p
          /\ e.segment = [p |-> p, f |-> s.content]
      <4> HIDE DEF FreshFault
      <4> QED BY <1>2, <3>2, WorkspaceCall
    <3>4. Value(e) = FreshValue(p, s.content)
      BY <3>3 DEF Value, FreshValue
    <3>5. fault \in BOOLEAN /\ FreshFault(p, s.content, bad) \in BOOLEAN
      BY DEF Faults, FreshFault
    <3> HIDE DEF d, e, fault
    <3>6. fault = FreshFault(p, s.content, bad)
      BY <3>3, <3>5
    <3> QED BY <3>1, <3>4, <3>6 DEF EvalDependsOnArguments
  <2>2. ASSUME NEW p \in Params, NEW s \in sets, NEW bad \in BOOLEAN, EvalInterpreted(p, s, bad)
        PROVE  EvalDependsOnArguments'
    <3> DEFINE map == IF interp.epoch # s.epoch THEN s.content ELSE interp.map
    <3>1. /\ interp'.map = map
          /\ answer' = [by |-> "eval", p |-> p, f |-> s.content, bad |-> bad,
                        value |-> FreshValue(p, map), fault |-> FreshFault(p, map, bad)]
      BY <2>2 DEF EvalInterpreted, Answered
    <3>2. map = s.content
      BY <1>2, <2>2, <3>1, EvalInterpretedKeeps
    <3> HIDE DEF map
    <3> QED BY <3>1, <3>2 DEF EvalDependsOnArguments
  <2>3. ASSUME NEW k \in Scratches, NEW bad \in BOOLEAN, Evaluate(k, bad)
        PROVE  EvalDependsOnArguments'
    BY <2>3 DEF Evaluate, Answered, EvalDependsOnArguments
  <2>4. CASE answer' = NoAnswer
    BY <2>4 DEF NoAnswer, EvalDependsOnArguments
  <2>5. CASE UNCHANGED vars
    BY <1>2, <2>5 DEF vars, EvalDependsOnArguments
  <2> QED BY <1>2, <2>1, <2>2, <2>3, <2>4, <2>5
          DEF Next, HostStep, SolveStep, NewSet, EvalExpression, Start, Refresh, Finish,
              RefreshFails, Over
<1> QED BY <1>1, <1>2, KeptSectionsInvariant, PTL DEF Spec

\* The right-hand side and the Jacobian compute from the parameters of the
\* solve and from what the driver last put in the buffer.
THEOREM SolveAnswersFromBuffer == Spec => []SolveReadsBuffer
<1>1. Init => SolveReadsBuffer
  BY DEF Init, NoAnswer, SolveReadsBuffer
<1>2. ASSUME SectionsInv, SolveReadsBuffer, [Next]_vars PROVE SolveReadsBuffer'
  <2>1. ASSUME NEW k \in Scratches, NEW bad \in BOOLEAN, Evaluate(k, bad)
        PROVE  SolveReadsBuffer'
    <3> DEFINE d == Called(ctx[k], solving, 0)
               e == Primed(d, solving, buffer)
               fault == Faults(d, solving, buffer, bad)
    <3>1. /\ solving # Unset
          /\ answer' = [by |-> "solve", p |-> solving, f |-> buffer, bad |-> bad,
                        value |-> Value(e), fault |-> fault]
      BY <2>1 DEF Evaluate, Answered
    <3>2. ctx[k] \in ContextType /\ ctx[k].fEpoch # 0 /\ ScratchKept(ctx[k]) /\ buffer \in Contents
      BY <1>2, <3>1 DEF SectionsInv, TypeOK, Tapes
    <3>3. e.const = solving /\ e.segment = [p |-> solving, f |-> buffer]
      BY <1>2, <3>1, <3>2, ScratchCall
    <3> HIDE DEF d, e, fault
    <3> QED BY <3>1, <3>3 DEF SolveReadsBuffer, Value, FreshValue
  <2>2. ASSUME NEW p \in Params, NEW s \in sets, NEW bad \in BOOLEAN, NEW w \in Workspaces,
               Eval(w, p, s, bad)
        PROVE  SolveReadsBuffer'
    BY <2>2 DEF Eval, Answered, SolveReadsBuffer
  <2>3. ASSUME NEW p \in Params, NEW s \in sets, NEW bad \in BOOLEAN, EvalInterpreted(p, s, bad)
        PROVE  SolveReadsBuffer'
    BY <2>3 DEF EvalInterpreted, Answered, SolveReadsBuffer
  <2>4. CASE answer' = NoAnswer
    BY <2>4 DEF NoAnswer, SolveReadsBuffer
  <2>5. CASE UNCHANGED vars
    BY <1>2, <2>5 DEF vars, SolveReadsBuffer
  <2> QED BY <1>2, <2>1, <2>2, <2>3, <2>4, <2>5
          DEF Next, HostStep, SolveStep, NewSet, EvalExpression, Start, Refresh, Finish,
              RefreshFails, Over
<1> QED BY <1>1, <1>2, KeptSectionsInvariant, PTL DEF Spec
-----------------------------------------------------------------------------
(* What a solve costs, and what it reports *)

\* Once a scratch has run its CONST section, no step of its solve runs it
\* again.
THEOREM ConstOncePerSolve == Spec => ConstPrimesOnce
<1> DEFINE Primes == \A k \in Scratches :
              solving # Unset /\ ctx[k].primedP # 0 => ctx'[k].primedP = ctx[k].primedP
                                                    \/ solving' # solving
<1>1. ASSUME SectionsInv, Next PROVE Primes
  <2>1. ASSUME UNCHANGED ctx PROVE Primes
    BY <2>1
  <2>2. ASSUME NEW p \in Params, NEW s \in sets, NEW bad \in BOOLEAN, NEW w \in Workspaces,
               Eval(w, p, s, bad)
        PROVE  Primes
    <3>1. w \notin Scratches
      BY SectionConstants DEF Scratches
    <3>2. \A k \in Scratches : ctx'[k] = ctx[k]
      BY <1>1, <2>2, <3>1 DEF Eval, SectionsInv, TypeOK, Tapes
    <3> QED BY <3>2
  <2>3. ASSUME NEW k \in Scratches, NEW bad \in BOOLEAN, Evaluate(k, bad) PROVE Primes
    <3> DEFINE e == Primed(Called(ctx[k], solving, 0), solving, buffer)
    <3>1. solving # Unset /\ ctx' = [ctx EXCEPT ![k] = e]
      BY <2>3 DEF Evaluate
    <3>2. k \in Tapes /\ ctx[k] \in ContextType /\ ctx[k].fEpoch # 0 /\ ScratchKept(ctx[k])
          /\ buffer \in Contents
      BY <1>1, <3>1 DEF SectionsInv, TypeOK, Tapes
    <3>3. ctx[k].primedP # 0 => e.primedP = ctx[k].primedP
      BY <1>1, <3>1, <3>2, ScratchCall
    <3> HIDE DEF e
    <3> QED BY <1>1, <3>1, <3>2, <3>3 DEF SectionsInv, TypeOK, Tapes
  <2>4. ASSUME NEW f \in Contents, Refresh(f) PROVE Primes
    <3> SUFFICES ASSUME NEW k \in Scratches PROVE ctx'[k].primedP = ctx[k].primedP
      OBVIOUS
    <3>1. k \in Tapes /\ ctx[k] \in ContextType
      BY <1>1 DEF SectionsInv, TypeOK, Tapes
    <3>2. ctx'[k] = ctx[k] \/ ctx'[k] = [ctx[k] EXCEPT !.fEpoch = @ + 1]
      BY <2>4, <3>1 DEF Refresh
    <3> QED BY <3>1, <3>2 DEF ContextType
  <2>5. CASE Over
    BY <2>5 DEF Over
  <2>6. CASE UNCHANGED ctx
    BY <2>1, <2>6
  <2> HIDE DEF Primes
  <2> QED BY <1>1, <2>2, <2>3, <2>4, <2>5, <2>6
          DEF Next, HostStep, SolveStep, NewSet, EvalInterpreted, EvalExpression, Start,
              Finish, RefreshFails
<1>2. SectionsInv /\ [Next]_vars => [Primes]_vars
  BY <1>1
<1> QED BY <1>2, KeptSectionsInvariant, PTL DEF Spec, ConstPrimesOnce

\* As long as no expression is evaluated inside a solve, a solve that latched
\* a fault never ends well, and one that did not never ends with a fault.
THEOREM FaultsAreReported ==
  ASSUME ~NestedExpressions
  PROVE  Spec => []FaultReported
<1>1. Init => FaultReported
  BY DEF Init, FaultReported
<1>2. ASSUME SectionsInv, FaultReported, [Next]_vars PROVE FaultReported'
  <2>1. CASE UNCHANGED <<faulted, ended>>
    BY <1>2, <2>1 DEF FaultReported
  <2>2. ASSUME NEW p \in Params, NEW f \in Contents, Start(p, f) PROVE FaultReported'
    BY <2>2 DEF Start, FaultReported
  <2>3. ASSUME NEW k \in Scratches, NEW bad \in BOOLEAN, Evaluate(k, bad) PROVE FaultReported'
    <3>1. ended = "none" /\ ended' = ended
      BY <1>2, <2>3 DEF Evaluate, SectionsInv
    <3> QED BY <3>1 DEF FaultReported
  <2>4. CASE Finish
    <3>1. latch = faulted /\ faulted' = faulted
      BY <1>2, <2>4 DEF Finish, Over, SectionsInv
    <3>2. (ended' = "ok" => ~latch) /\ (ended' = "fault" => latch)
      BY <2>4 DEF Finish
    <3> QED BY <3>1, <3>2 DEF FaultReported
  <2>5. CASE RefreshFails
    BY <2>5 DEF RefreshFails, FaultReported
  <2>6. CASE UNCHANGED vars
    BY <2>1, <2>6 DEF vars, run
  <2> QED BY <1>2, <2>1, <2>2, <2>3, <2>4, <2>5, <2>6
          DEF Next, HostStep, SolveStep, NewSet, Eval, EvalInterpreted, EvalExpression,
              Refresh, run
<1> QED BY <1>1, <1>2, KeptSectionsInvariant, PTL DEF Spec
=============================================================================

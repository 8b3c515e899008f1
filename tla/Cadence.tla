------------------------------ MODULE Cadence ------------------------------
(***************************************************************************)
(* The cadence-partition pass (cadence.rs, partition_model) over one       *)
(* model, with the classification it seeds from (classification.rs).  An   *)
(* observed unknown is as fast as what its defining equation reads, which  *)
(* may be observed too: the pass resolves definitions on demand, depth     *)
(* first, under one memo shared by its three rounds of questions, and      *)
(* refuses a definition that comes back to itself.  Between the rounds it  *)
(* walks the index-set graph for cycles (assert_acyclic_index_sets).       *)
(*                                                                         *)
(* A model is a table of operator nodes, each with its children in the     *)
(* order child_exprs lists them (leaves are names), and of equations.      *)
(* Every unknown has at most one defining equation.                        *)
(***************************************************************************)
EXTENDS Integers, Sequences, SequencesExt, FiniteSetsExt

CONSTANTS
  Unknowns,   \* declared unknowns
  Params,     \* declared parameters
  Update,     \* the update of each parameter: None, "wiener" or another
  Sources,    \* what the sources of its data rules are: "temporal", "fixed", "missing"
  Others,     \* literals, index-set names, bound index symbols
  Malformed,  \* those of Others that are neither a number nor a string
  Nodes,      \* operator nodes
  Sets,       \* index sets, numbered in the order of their names
  Models,     \* the models to partition
  None        \* no update, no annotation, no node that makes an index set, no fault

Time == "t"
Leaves == Unknowns \union Params \union Others \union {Time}

Const == 0
Discrete == 1
Continuous == 2
Classes == Const .. Continuous
Join(S) == Max(S \union {Const})

ASSUME CadenceAssumption ==
  /\ Sets \subseteq Nat
  /\ Leaves \intersect Nodes = {} /\ Unknowns \intersect Params = {}
  /\ Malformed \subseteq Others \ (Unknowns \union Params \union {Time})
  /\ None \notin Classes
  /\ \A m \in Models :
       /\ m.eqs \in Seq([form : {"derivative", "bare", "expression"}, name : Unknowns \union {None},
                         rhs : Leaves \union Nodes, arrayed : BOOLEAN])
       /\ m.kids \in [Nodes -> Seq(Leaves \union Nodes)]
       /\ m.from \in [Sets -> Nodes \union {None}]
       /\ m.reads \in [Nodes -> SUBSET Sets]
       /\ m.expect \in [Nodes -> Classes \union {None}]

\* Expr owns its operands: no operator lies below itself, or in two places.
ASSUME ExpressionsAreTrees ==
  /\ IsFiniteSet(Nodes)
  /\ \A m \in Models :
       /\ \A S \in SUBSET Nodes : S # {} => \E n \in S : ToSet(m.kids[n]) \intersect S = {}
       /\ \A n \in Nodes : \A k \in Nodes \ {n} :
            ToSet(m.kids[n]) \intersect ToSet(m.kids[k]) \intersect Nodes = {}
       /\ \A i \in DOMAIN m.eqs : m.eqs[i].rhs \in Nodes =>
            /\ \A n \in Nodes : m.eqs[i].rhs \notin ToSet(m.kids[n])
            /\ \A j \in DOMAIN m.eqs \ {i} : m.eqs[j].rhs # m.eqs[i].rhs

VARIABLES
  model,      \* the model being partitioned; never changes
  phase,      \* "expect", "relational", "sets", "outputs", "done" or "failed"
  todo,       \* the expressions the round still has to visit, in order
  calls,      \* the classify calls under way: [of, left, acc]
  memo,       \* Ctx::memo: the classes of the observeds resolved so far
  mismatch,   \* guard 3 found a wrong annotation
  colour,     \* the index sets visited: "gray" while on the chain, then "black"
  chain,      \* the visits under way: [set, left]
  outputs,    \* the partition: [tally, points, hot]
  fault       \* what the pass was refused for: [kind, path]

vars == <<model, phase, todo, calls, memo, mismatch, colour, chain, outputs, fault>>

---------------------------------------------------------------------------
(* classification.rs *)

OdeStates == {x \in Unknowns : \E e \in ToSet(model.eqs) : e.form = "derivative" /\ e.name = x}

ObservedUnknowns ==
  {x \in Unknowns : \E e \in ToSet(model.eqs) : e.form = "bare" /\ e.name = x} \ OdeStates

AlgebraicUnknowns == Unknowns \ (OdeStates \union ObservedUnknowns)
BrownianParameters == {p \in Params : Update[p] = "wiener"}
DiscreteParameters == {p \in Params : Update[p] \notin {"wiener", None}}

---------------------------------------------------------------------------
(* The leaf seeds *)

\* A parameter loaded from sources none of which varies in time is a constant.
DiscreteParameterSeed(p) ==
  IF Sources[p] # {} /\ Sources[p] \subseteq {"fixed"} THEN Const ELSE Discrete

\* seed_leaf of a name that is not observed.
SeedLeaf(x) ==
  CASE x = Time -> Continuous
    [] x \in OdeStates \union AlgebraicUnknowns \union BrownianParameters -> Continuous
    [] x \in DiscreteParameters -> DiscreteParameterSeed(x)
    [] OTHER -> Const

Definition(x) == (CHOOSE e \in ToSet(model.eqs) : e.form = "bare" /\ e.name = x).rhs

---------------------------------------------------------------------------
(* Expression trees *)

Kids(n) == ToSet(model.kids[n]) \intersect Nodes
Children(c) == IF c \in Nodes THEN model.kids[c] ELSE << >>

NodesUnder[n \in Nodes] == {n} \union UNION {NodesUnder[k] : k \in Kids(n)}
LeavesUnder(c) ==
  IF c \in Leaves THEN {c} ELSE UNION {ToSet(model.kids[n]) \ Nodes : n \in NodesUnder[c]}

\* The right-hand sides a round walks, the operators among them.
Roots == [i \in DOMAIN model.eqs |-> model.eqs[i].rhs]
RootNodes == ToSet(Roots) \intersect Nodes

\* classify of a subtree all of whose observeds are in the memo.
ClassOf(n) ==
  Join({IF x \in ObservedUnknowns THEN memo[x] ELSE SeedLeaf(x) : x \in LeavesUnder(n)})

\* Mutant: the frontier knows only the CONST threshold.
DropsToConst(n, k) == ClassOf(k) = Const /\ ClassOf(k) < ClassOf(n)

Drops(n, k) == ClassOf(k) < ClassOf(n)

\* materialization_frontier: cut at a slower child, and look no further below it.
Frontier[n \in Nodes] ==
  UNION {IF Drops(n, k)
         THEN {[kind |-> "expr_edge", node |-> k, drop |-> <<ClassOf(k), ClassOf(n)>>]}
         ELSE Frontier[k] : k \in Kids(n)}

\* A CONST equation that writes an array is a buffer of the artifact.
OutputBuffer(n) ==
  {[kind |-> "output_buffer", node |-> n, drop |-> <<Const, Const>>] :
     e \in {e \in ToSet(model.eqs) : e.rhs = n /\ e.arrayed /\ ClassOf(n) = Const}}

Annotated(n, c) == {m \in NodesUnder[n] : model.expect[m] # None /\ ClassOf(m) = c}

---------------------------------------------------------------------------
Init ==
  /\ model \in Models
  /\ phase = "expect" /\ todo = Roots
  /\ calls = << >> /\ memo = << >> /\ mismatch = FALSE
  /\ colour = << >> /\ chain = << >>
  /\ outputs = [tally |-> [c \in Classes |-> 0], points |-> {}, hot |-> FALSE]
  /\ fault = None

Fail(kind, path) == phase' = "failed" /\ fault' = [kind |-> kind, path |-> path]

(* Ctx::classify *)

\* Whether the round asks for the class of this expression; of a leaf none does.
Wanted(c) ==
  /\ c \in Nodes
  /\ CASE phase = "expect" -> model.expect[c] # None
       [] phase = "relational" -> c \in model.relational
       [] OTHER -> phase = "outputs"

Ask ==
  /\ calls = << >> /\ todo # << >> /\ Wanted(Head(todo))
  /\ calls' = <<[of |-> Head(todo), left |-> model.kids[Head(todo)], acc |-> Const]>>
  /\ UNCHANGED <<model, phase, todo, memo, mismatch, colour, chain, outputs, fault>>

Pass ==
  /\ phase # "failed" /\ calls = << >> /\ todo # << >> /\ ~Wanted(Head(todo))
  /\ todo' = Children(Head(todo)) \o Tail(todo)
  /\ UNCHANGED <<model, phase, calls, memo, mismatch, colour, chain, outputs, fault>>

Top == Last(calls)
Operand == Head(Top.left)
Reading == phase # "failed" /\ calls # << >> /\ Top.left # << >>
\* Ctx::resolving: the observeds whose definitions are being classified.
Resolving == [i \in 1 .. Len(calls) - 1 |-> calls[i + 1].of]

\* The call that is on top takes a class of what it was reading.
Joined(stack, class) ==
  [stack EXCEPT ![Len(stack)].left = Tail(@), ![Len(stack)].acc = Join({@, class})]

Descend ==
  /\ Reading /\ Operand \in Nodes
  /\ calls' = [calls EXCEPT ![Len(calls)].left = model.kids[Operand] \o Tail(@)]
  /\ UNCHANGED <<model, phase, todo, memo, mismatch, colour, chain, outputs, fault>>

TakeSeed ==
  /\ Reading /\ Operand \in Leaves \ (ObservedUnknowns \union Malformed)
  /\ calls' = Joined(calls, SeedLeaf(Operand))
  /\ UNCHANGED <<model, phase, todo, memo, mismatch, colour, chain, outputs, fault>>

\* A boolean, a null or an array is no leaf.
RefuseLeaf ==
  /\ Reading /\ Operand \in Malformed
  /\ Fail("unexpected leaf", <<Operand>>)
  /\ UNCHANGED <<model, todo, calls, memo, mismatch, colour, chain, outputs>>

TakeMemo ==
  /\ Reading /\ Operand \in DOMAIN memo
  /\ calls' = Joined(calls, memo[Operand])
  /\ UNCHANGED <<model, phase, todo, memo, mismatch, colour, chain, outputs, fault>>

Unresolved == Reading /\ Operand \in ObservedUnknowns \ DOMAIN memo

\* Mutant: the cycle guard looks only at the definition on top.
ResolveUnlessTop ==
  /\ Unresolved /\ Top.of # Operand
  /\ calls' = Append(calls, [of |-> Operand, left |-> <<Definition(Operand)>>, acc |-> Const])
  /\ UNCHANGED <<model, phase, todo, memo, mismatch, colour, chain, outputs, fault>>

Resolve ==
  /\ Unresolved /\ ~Contains(Resolving, Operand)
  /\ calls' = Append(calls, [of |-> Operand, left |-> <<Definition(Operand)>>, acc |-> Const])
  /\ UNCHANGED <<model, phase, todo, memo, mismatch, colour, chain, outputs, fault>>

\* Mutant: a cycle is seeded, silently, with CONST.
SeedCycle ==
  /\ Unresolved /\ Contains(Resolving, Operand)
  /\ calls' = Joined(calls, Const)
  /\ UNCHANGED <<model, phase, todo, memo, mismatch, colour, chain, outputs, fault>>

RefuseCycle ==
  /\ Unresolved /\ Contains(Resolving, Operand)
  /\ Fail("observed cycle", Append(Resolving, Operand))
  /\ UNCHANGED <<model, todo, calls, memo, mismatch, colour, chain, outputs>>

\* The definition is classified: keep the class, and return it to the reader.
Memoise ==
  /\ phase # "failed" /\ Len(calls) > 1 /\ Top.left = << >>
  /\ memo' = [x \in DOMAIN memo \union {Top.of} |-> IF x = Top.of THEN Top.acc ELSE memo[x]]
  /\ calls' = Joined(Front(calls), Top.acc)
  /\ UNCHANGED <<model, phase, todo, mismatch, colour, chain, outputs, fault>>

---------------------------------------------------------------------------
(* partition_model: what each round does with a class *)

Answered == phase # "failed" /\ Len(calls) = 1 /\ Top.left = << >>

CheckExpect ==
  /\ phase = "expect" /\ Answered
  /\ mismatch' = (mismatch \/ Top.acc # model.expect[Top.of])
  /\ todo' = Children(Top.of) \o Tail(todo)
  /\ calls' = << >>
  /\ UNCHANGED <<model, phase, memo, colour, chain, outputs, fault>>

\* Guard 2: no relational node on the hot path.
CheckRelational ==
  /\ phase = "relational" /\ Answered
  /\ IF Top.acc = Continuous
     THEN Fail("continuous relational", <<Top.of>>)
     ELSE UNCHANGED <<phase, fault>>
  /\ todo' = Children(Top.of) \o Tail(todo)
  /\ calls' = << >>
  /\ UNCHANGED <<model, memo, mismatch, colour, chain, outputs>>

\* Everything below the root is in the memo now: the tally, the hot tree, the
\* frontier and the output buffer ask nothing new.
Output ==
  /\ phase = "outputs" /\ Answered
  /\ outputs' = [tally  |-> [c \in Classes |-> outputs.tally[c] + Cardinality(Annotated(Top.of, c))],
                 points |-> outputs.points \union Frontier[Top.of] \union OutputBuffer(Top.of),
                 hot    |-> outputs.hot \/ Top.acc = Continuous]
  /\ todo' = Tail(todo)
  /\ calls' = << >>
  /\ UNCHANGED <<model, phase, memo, mismatch, colour, chain, fault>>

RoundOver(p) == phase = p /\ calls = << >> /\ todo = << >>

EndExpect ==
  /\ RoundOver("expect")
  /\ IF mismatch
     THEN Fail("expect mismatch", << >>) /\ UNCHANGED todo
     ELSE phase' = "relational" /\ todo' = Roots /\ UNCHANGED fault
  /\ UNCHANGED <<model, calls, memo, mismatch, colour, chain, outputs>>

EndRelational ==
  /\ RoundOver("relational")
  /\ phase' = "sets"
  /\ UNCHANGED <<model, todo, calls, memo, mismatch, colour, chain, outputs, fault>>

EndOutputs ==
  /\ RoundOver("outputs")
  /\ phase' = "done"
  /\ UNCHANGED <<model, todo, calls, memo, mismatch, colour, chain, outputs, fault>>

---------------------------------------------------------------------------
(* Guard 1: assert_acyclic_index_sets *)

Derived == {s \in Sets : model.from[s] # None}
Reads(s) == model.reads[model.from[s]] \intersect Derived

Paint(s, c) == [x \in DOMAIN colour \union {s} |-> IF x = s THEN c ELSE colour[x]]

\* Mutant: a visit blackens its set at once, so no back edge meets a gray one.
VisitOnce(below, s) ==
  /\ colour' = Paint(s, "black")
  /\ chain' = Append(below, [set |-> s, left |-> Reads(s)])

Visit(below, s) ==
  /\ colour' = Paint(s, "gray")
  /\ chain' = Append(below, [set |-> s, left |-> Reads(s)])

StartVisit ==
  /\ phase = "sets" /\ chain = << >> /\ Derived \ DOMAIN colour # {}
  /\ Visit(chain, Min(Derived \ DOMAIN colour))
  /\ UNCHANGED <<model, phase, todo, calls, memo, mismatch, outputs, fault>>

ReadNext ==
  /\ phase = "sets" /\ chain # << >> /\ Last(chain).left # {}
  /\ LET s == Min(Last(chain).left)
         rest == [chain EXCEPT ![Len(chain)].left = @ \ {s}]
     IN \/ /\ s \notin DOMAIN colour
           /\ Visit(rest, s)
           /\ UNCHANGED <<phase, fault>>
        \/ /\ s \in DOMAIN colour /\ colour[s] = "black"
           /\ chain' = rest
           /\ UNCHANGED <<phase, colour, fault>>
        \/ /\ s \in DOMAIN colour /\ colour[s] = "gray"
           /\ LET names == [i \in DOMAIN chain |-> chain[i].set]
                  start == CHOOSE i \in DOMAIN chain : names[i] = s
              IN Fail("set cycle", Append(SubSeq(names, start, Len(names)), s))
           /\ UNCHANGED <<colour, chain>>
  /\ UNCHANGED <<model, todo, calls, memo, mismatch, outputs>>

EndVisit ==
  /\ phase = "sets" /\ chain # << >> /\ Last(chain).left = {}
  /\ colour' = Paint(Last(chain).set, "black")
  /\ chain' = Front(chain)
  /\ UNCHANGED <<model, phase, todo, calls, memo, mismatch, outputs, fault>>

EndSets ==
  /\ phase = "sets" /\ chain = << >> /\ Derived \subseteq DOMAIN colour
  /\ phase' = "outputs" /\ todo' = Roots
  /\ UNCHANGED <<model, calls, memo, mismatch, colour, chain, outputs, fault>>

---------------------------------------------------------------------------
Returned == phase \in {"done", "failed"} /\ UNCHANGED vars

Next ==
  \/ Ask \/ Pass \/ Descend \/ TakeSeed \/ RefuseLeaf
  \/ TakeMemo \/ Resolve \/ RefuseCycle \/ Memoise
  \/ CheckExpect \/ CheckRelational \/ Output \/ EndExpect \/ EndRelational \/ EndOutputs
  \/ StartVisit \/ ReadNext \/ EndVisit \/ EndSets
  \/ Returned

Spec == Init /\ [][Next]_vars
---------------------------------------------------------------------------
(* What the classes ought to be *)

DefReads(x) == LeavesUnder(Definition(x))

\* The observeds that resolving the names of S leads to: the smallest set that
\* holds those of S and is closed under reading.
Behind(S) ==
  {x \in ObservedUnknowns :
     \A T \in SUBSET ObservedUnknowns :
       S \intersect ObservedUnknowns \subseteq T
         /\ (\A y \in T : DefReads(y) \intersect ObservedUnknowns \subseteq T)
       => x \in T}

Circular(x) == x \in Behind(DefReads(x))

\* The class of an expression is that of the fastest leaf behind it.
TrueClass(S) ==
  Join({SeedLeaf(x) : x \in (S \union UNION {DefReads(y) : y \in Behind(S)}) \ ObservedUnknowns})

NodeClass(n) == TrueClass(LeavesUnder(n))

TreeNodes == UNION {NodesUnder[n] : n \in RootNodes}

\* A path of names each of which leads to the next, that ends where it was before.
Closes(path, leads(_, _)) ==
  /\ \A i \in 1 .. Len(path) - 1 : leads(path[i], path[i + 1])
  /\ \E i \in 1 .. Len(path) - 1 : path[i] = Last(path)

(***************************************************************************)
(* Types, and that no observed is being resolved twice (the stack of       *)
(* cadence.rs:107 is what the cycle guard looks through).                  *)
(***************************************************************************)
TypeOK ==
  /\ phase \in {"expect", "relational", "sets", "outputs", "done", "failed"}
  /\ todo \in Seq(Leaves \union Nodes)
  /\ memo \in UNION {[D -> Classes] : D \in SUBSET ObservedUnknowns}
  /\ ToSet(Resolving) \subseteq ObservedUnknowns \ DOMAIN memo
  /\ IsInjective(Resolving)
  /\ colour \in UNION {[D -> {"gray", "black"}] : D \in SUBSET Derived}
  /\ {s \in DOMAIN colour : colour[s] = "gray"} = {f.set : f \in ToSet(chain)}

(***************************************************************************)
(* Whatever was asked before, and in what order, a class kept in the memo  *)
(* is the join of all the leaves behind that observed, and no observed     *)
(* that reaches a circular definition is ever given one (seed_observed,    *)
(* cadence.rs:223-250; CONFORMANCE_SPEC.md 5.7.2).                         *)
(***************************************************************************)
MemoIsJoin ==
  \A x \in DOMAIN memo :
    memo[x] = TrueClass({x}) /\ \A y \in Behind({x}) : ~Circular(y)

(***************************************************************************)
(* The cycle guard of seed_observed (cadence.rs:223-250): what would be an *)
(* implicit solve is refused and named.  Nothing behind an operator        *)
(* right-hand side of a partition that is returned is circular, and the    *)
(* path a refusal names really leads from definition to definition and     *)
(* closes (CONFORMANCE_SPEC.md 5.7.2).                                     *)
(***************************************************************************)
ObservedCyclesRefused ==
  /\ fault # None /\ fault.kind = "observed cycle" =>
       Closes(fault.path, LAMBDA x, y : y \in DefReads(x))
  /\ phase = "done" =>
       \A n \in RootNodes : \A x \in Behind(LeavesUnder(n)) : ~Circular(x)

(***************************************************************************)
(* Guard 1 (assert_acyclic_index_sets, cadence.rs:537-591): when a         *)
(* partition is returned no derived index set is read, step by step, by    *)
(* the node that makes it, and a refusal names sets that do read each      *)
(* other and end where they began (CONFORMANCE_SPEC.md 5.7.3).             *)
(***************************************************************************)
SetCyclesRefused ==
  /\ fault # None /\ fault.kind = "set cycle" =>
       /\ Closes(fault.path, LAMBDA s, t : t \in Reads(s))
       /\ Head(fault.path) = Last(fault.path)
  /\ phase = "done" =>
       \A S \in SUBSET Derived : S # {} => \E s \in S : Reads(s) \intersect S = {}

(***************************************************************************)
(* A partition that is returned follows the classes: the tally agrees with *)
(* every annotation, nothing relational is continuous, the hot tree is     *)
(* empty unless an operator right-hand side is continuous, and the         *)
(* expression edges cut are exactly the drops from nodes as fast as their  *)
(* root, so that no buffer lies inside another (partition_model).          *)
(***************************************************************************)
OutputsFollowClasses ==
  phase = "done" =>
    /\ \A c \in Classes :
         outputs.tally[c] = Cardinality({n \in TreeNodes : model.expect[n] = c})
    /\ \A n \in model.relational \intersect TreeNodes : NodeClass(n) # Continuous
    /\ outputs.hot <=> \E n \in RootNodes : NodeClass(n) = Continuous
    /\ {p \in outputs.points : p.kind = "expr_edge"} =
         UNION {{[kind |-> "expr_edge", node |-> k, drop |-> <<NodeClass(k), NodeClass(r)>>] :
                   k \in {k \in NodesUnder[r] :
                            \E n \in NodesUnder[r] : k \in Kids(n)
                              /\ NodeClass(n) = NodeClass(r) /\ NodeClass(k) < NodeClass(n)}} :
                r \in RootNodes}
    /\ {p.node : p \in {p \in outputs.points : p.kind = "output_buffer"}} =
         {e.rhs : e \in {e \in ToSet(model.eqs) :
                           e.rhs \in Nodes /\ e.arrayed /\ NodeClass(e.rhs) = Const}}
=============================================================================

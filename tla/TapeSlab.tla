------------------------------ MODULE TapeSlab ------------------------------
(***************************************************************************)
(* A compiled tape program and the slab its slots live in                  *)
(* (simulate_array/tape/ir.rs, and color_slab of tape/lower.rs).           *)
(*                                                                         *)
(* A program is [code, const, segment]: the instructions of the CONST      *)
(* section, then SEGMENT, then CONTINUOUS, and how many the first two have.*)
(* An instruction is [op, reads, elems, inner, body, at]:                  *)
(*   "small"   elementwise or scalar work, one thread runs it whole        *)
(*   "copy"    an array copy, cell by cell                                 *)
(*   "fused"   a fused group, whose inputs may be read at shifted cells;   *)
(*             inner > 0: it folds a pre-reduction of that many columns    *)
(*             into a second slot and reads that at its own columns        *)
(*   "gather"  splits, but not share by share (IndexGather, TableGather)   *)
(*   "sweep"   runs the next `body` instructions once per cell of its      *)
(*             array, over a coordinate slot, and stores a result slot     *)
(*   "dy"      copies a slot to positions at .. at+elems-1 of dy           *)
(* Instruction i defines slot i, and a pre-reduction or a coordinate slot  *)
(* Second(p, i).  What a slot is computed to is its name: no arithmetic.   *)
(* Branches, with their phi slots defined twice, are left out.             *)
(***************************************************************************)
EXTENDS Integers, Sequences, SequencesExt, FiniteSetsExt

Pcs(p) == 1 .. Len(p.code)

Second(p, i) == Len(p.code) + i

Slots(p) == 1 .. 2 * Len(p.code)

\* Instr::for_each_def: the output, and a pre-reduction or the coordinates.
Defs(p, i) ==
  CASE p.code[i].op = "dy"  -> {}
    [] p.code[i].op # "dy" /\ p.code[i].inner > 0 -> {i, Second(p, i)}
    [] OTHER -> {i}

\* Instr::for_each_read.  A sweep reports the result it stores.
Reads(p, i) == p.code[i].reads

Def(p, s) == IF s > Len(p.code) THEN s - Len(p.code) ELSE s

Defined(p) == UNION {Defs(p, i) : i \in Pcs(p)}

Elems(p, s) ==
  IF s > Len(p.code) THEN p.code[Def(p, s)].inner ELSE p.code[s].elems

SectionOf(p, i) ==
  IF i <= p.const THEN "const"
  ELSE IF i <= p.const + p.segment THEN "segment" ELSE "continuous"

Continuous(p) == p.const + p.segment + 1 .. Len(p.code)

Body(p, i) == i + 1 .. i + p.code[i].body

\* Run by the passes of a sweep, and not where it stands.
InBody(p, i) == \E j \in Pcs(p) : p.code[j].op = "sweep" /\ i \in Body(p, j)

Ops == {"small", "copy", "fused", "gather", "sweep", "dy"}

\* What lowering emits: slots are defined before they are read, but for the
\* result a sweep stores, which its body defines; a copy and a DyWrite are as
\* long as what they copy; sweeps do not nest.
WellFormed(p) ==
  /\ p.code \in Seq([op : Ops, reads : SUBSET Slots(p), elems : Nat,
                     inner : Nat, body : Nat, at : Nat])
  /\ p.const \in Nat /\ p.segment \in Nat /\ p.const + p.segment <= Len(p.code)
  /\ \A i \in Pcs(p) :
       LET ins == p.code[i] IN
       /\ ins.reads \subseteq Defined(p)
       /\ ins.inner > 0 => ins.op \in {"fused", "sweep"}
       /\ ins.op # "sweep" => \A s \in ins.reads : Def(p, s) < i \/ s = Second(p, i)
       /\ ins.op = "sweep" => /\ i + ins.body <= Len(p.code)
                              /\ \A j \in Body(p, i) : p.code[j].op # "sweep"
       /\ ins.op \in {"copy", "dy"} => \A s \in ins.reads : Elems(p, s) = ins.elems
       /\ ins.op = "dy" => i \in Continuous(p) /\ \E s \in Slots(p) : ins.reads = {s}

---------------------------------------------------------------------------
(* color_slab: liveness *)

\* Mutant: what a sweep's later passes read again is not kept.
NothingKept(p, i) == {}

\* Read again by the next pass of the sweep at i, or after each pass: the array
\* and its coordinate, the result, and what the body reads from ahead of it.
SweepKeeps(p, i) ==
  Defs(p, i) \union Reads(p, i)
    \union {s \in UNION {Reads(p, j) : j \in Body(p, i)} : Def(p, s) <= i}

LastUse(p, s) ==
  Max({Def(p, s)} \union {i \in Pcs(p) : s \in Reads(p, i)}
        \union {i + p.code[i].body :
                  i \in {j \in Pcs(p) : p.code[j].op = "sweep" /\ s \in SweepKeeps(p, j)}})

\* Mutant: a value kept across calls is recycled like any other.
NeverDedicated(p, s) == FALSE

\* Read from a later section than the one that defines it: never recycled.
Dedicated(p, s) == SectionOf(p, LastUse(p, s)) # SectionOf(p, Def(p, s))

\* Slots whose storage is free again at instruction i.
DyingAt(p, i) == {s \in Defined(p) : LastUse(p, s) = i /\ ~Dedicated(p, s)}

---------------------------------------------------------------------------
(* color_slab: storages *)

\* Mutant: a fused group counted among the index-aligned instructions.
GroupsAligned(ins) == ins.op \in {"small", "copy", "dy", "fused"}

\* The instructions whose output may take the storage of an operand dying there.
AliasSafe(ins) == ins.op \in {"small", "copy", "dy"}

\* Storages are freed by the slots that had them; one that got none frees none.
Release(slab, dying) ==
  [slab EXCEPT !.free = @ \union {s \in dying : slab.store[s] # 0}]

\* The slot that freed its storage last: at each instruction they do so in order.
LatestFreed(p, slots) ==
  LET last == Max({LastUse(p, t) : t \in slots})
  IN Max({t \in slots : LastUse(p, t) = last})

\* A slot takes the storage of its size that was freed last, or a new one.
Allocate(p, slab, s) ==
  LET fitting == {t \in slab.free : Elems(p, t) = Elems(p, s)}
      giver   == LatestFreed(p, fitting)
  IN IF Dedicated(p, s) \/ fitting = {}
     THEN [slab EXCEPT !.sizes = Append(@, Elems(p, s)),
                       !.store[s] = Len(slab.sizes) + 1]
     ELSE [slab EXCEPT !.store[s] = slab.store[giver], !.free = @ \ {giver}]

AllocateDefs(p, slab, i) ==
  LET out == IF i \in Defs(p, i) THEN Allocate(p, slab, i) ELSE slab
  IN IF Second(p, i) \in Defs(p, i) THEN Allocate(p, out, Second(p, i)) ELSE out

ColorInstr(p, slab, i) ==
  IF AliasSafe(p.code[i])
  THEN AllocateDefs(p, Release(slab, DyingAt(p, i)), i)
  ELSE Release(AllocateDefs(p, slab, i), DyingAt(p, i))

NoStorage(p) == [store |-> [s \in Slots(p) |-> 0], sizes |-> << >>, free |-> {}]

\* The storages after each instruction.
Coloured(p) ==
  LET coloured[i \in 0 .. Len(p.code)] ==
        IF i = 0 THEN NoStorage(p) ELSE ColorInstr(p, coloured[i - 1], i)
  IN coloured

\* Storages lie one after the other: where the one after the k-th begins.
Starts(sizes) ==
  LET start[k \in 0 .. Len(sizes)] == IF k = 0 THEN 0 ELSE start[k - 1] + sizes[k]
  IN start

\* The slab: store, the storage of each slot (0: none); off, the address of each
\* slot; total, its length.
ColorSlab(p) ==
  LET slab  == Coloured(p)[Len(p.code)]
      start == Starts(slab.sizes)
  IN [store |-> slab.store,
      sizes |-> slab.sizes,
      off   |-> [s \in Slots(p) |-> IF slab.store[s] = 0 THEN 0 ELSE start[slab.store[s] - 1]],
      total |-> start[Len(slab.sizes)]]

---------------------------------------------------------------------------
(* dy_homes (exec/mod.rs): outputs stored where their DyWrite would copy them *)

Readers(p, s) == {i \in Pcs(p) : s \in Reads(p, i)}

\* The position in dy a fused group stores slot s at, or -1.
HomeOf(p, s) ==
  IF /\ s \in Continuous(p)
     /\ p.code[s].op = "fused"
     /\ \E i \in Continuous(p) : Readers(p, s) = {i} /\ p.code[i].op = "dy"
  THEN p.code[CHOOSE i \in Readers(p, s) : TRUE].at
  ELSE -1

Homed(p, s) == HomeOf(p, s) >= 0
=============================================================================

--------------------------- MODULE MCPlannedCalls ---------------------------
(* Families of small programs for TLC: arrays of three elements (a slot the  *)
(* plan may move) or four (one it may not), cells of one element, boxes of   *)
(* two rows by three columns.                                                *)
EXTENDS PlannedCalls

Ins(op, reads, elems) ==
  [op |-> op, reads |-> reads, elems |-> elems, inner |-> 0, body |-> 0, at |-> 0]

Program(code, const, segment) == [code |-> code, const |-> const, segment |-> segment]

\* The instructions that can stand at position i: each reads the state or one
\* earlier slot.
Producers(ops, n, i) ==
  {Ins(op, r, n) : op \in ops, r \in {{}} \union {{j} : j \in 1 .. i - 1}}
Writers(n, i) == {Ins("dy", {j}, n) : j \in 1 .. i - 1}

\* Lines of instructions that end with a DyWrite.
Lines4(ops, n) ==
  {<<a, b, c, d>> : a \in Producers(ops, n, 1), b \in Producers(ops, n, 2) \union Writers(n, 2),
                    c \in Producers(ops, n, 3) \union Writers(n, 3), d \in Writers(n, 4)}

Lines5(ops, n) ==
  {<<a, b, c, d, e>> : a \in Producers(ops, n, 1), b \in Producers(ops, n, 2) \union Writers(n, 2),
                       c \in Producers(ops, n, 3) \union Writers(n, 3),
                       d \in Producers(ops, n, 4) \union Writers(n, 4), e \in Writers(n, 5)}

\* Every slot is read, and only slots are.
Sound(code) ==
  \A i \in DOMAIN code :
    /\ \A j \in code[i].reads : code[j].op # "dy"
    /\ code[i].op # "dy" => \E j \in DOMAIN code : i \in code[j].reads

\* The DyWrites go to one block after the other.
Placed(code) ==
  [i \in DOMAIN code |->
     IF code[i].op = "dy"
     THEN [code[i] EXCEPT !.at =
             DyBlock * Cardinality({j \in 1 .. i - 1 : code[j].op = "dy"})]
     ELSE code[i]]

Codes(lines) == {Placed(c) : c \in {c \in lines : Sound(c)}}

\* Copies and groups: all continuous.
Straight(n) == {Program(c, 0, 0) : c \in Codes(Lines5({"copy", "fused"}, n))}

\* With cells, which one thread runs whole, and gathers, which run in the loop.
Mixed == {Program(c, 0, 0) : c \in Codes(Lines4({"small", "fused", "gather"}, 3))}

\* Two DyWrites of one block, as two equations for one stretch of it.
Twice == {Program([c EXCEPT ![4].at = 0], 0, 0) :
            c \in {c \in Codes(Lines4({"copy"}, 3)) : c[3].op = "dy"}}

\* The first instruction in the CONST section, the second in it, in the SEGMENT
\* section or neither.
Kept == {Program(c, k[1], k[2]) :
           c \in {c \in Codes(Lines5({"copy"}, 3)) : c[2].op # "dy"},
           k \in {<<1, 0>>, <<1, 1>>, <<2, 0>>, <<0, 1>>}}

\* A sweep over three cells whose body reads a hoisted cell, the coordinate, the
\* array so far or its own first slot.
Swept ==
  {Program(<<Ins("small", {}, 1),
             [Ins("sweep", {4}, 3) EXCEPT !.inner = 1, !.body = 2],
             Ins("small", r, 1), Ins("small", q, 1),
             Ins("copy", {2}, 3), Ins("dy", {5}, 3)>>, 0, 0) :
     r \in SUBSET {1, 2, 8}, q \in {{3}, {1, 3}, {3, 8}}}

\* A group that folds a pre-reduction nothing else reads, of a width no other
\* slot has.
Private ==
  {Program(<<Ins("copy", {}, 4), [Ins("fused", {1, 6}, 6) EXCEPT !.inner = 3],
             Ins("fused", {2}, 6), [Ins("dy", {a}, 6) EXCEPT !.at = 0]>>, 0, 0) : a \in {2, 3}}

TapePrograms ==
  Straight(3) \union Straight(4) \union Mixed \union Twice \union Kept \union Swept \union Private

\* What the theorems about phases, races and memory take from the programs.
ASSUME PrivateAssumption == \A p \in TapePrograms : PreReductionsPrivate(p) /\ HomesPrivate(p)

\* Pre-reductions whose slot is read again, or takes the storage of a slot an
\* earlier group still reads.
Absorbed ==
  {Program(Placed(<<[Ins("fused", {5}, 6) EXCEPT !.inner = 3], Ins(op, {5}, 3),
                    Ins("dy", {1}, 6), Ins("dy", {2}, 3)>>), 0, 0) : op \in {"copy", "fused"}}
  \union
  {Program(Placed(<<Ins("copy", {}, 3), Ins(op, {1}, 3),
                    [Ins("fused", {8}, 6) EXCEPT !.inner = 3],
                    Ins("dy", {2}, 3), Ins("dy", {3}, 6)>>), 0, 0) : op \in {"copy", "fused"}}

AbsorbingPrograms == TapePrograms \union Absorbed
=============================================================================

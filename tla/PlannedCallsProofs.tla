------------------------- MODULE PlannedCallsProofs -------------------------
(***************************************************************************)
(* Proofs about the split execution of a tape, for any programs, widths,   *)
(* cache lines and layout: the shares of a task partition its cells, the   *)
(* slab gives two slots one storage only when one is dead before the other *)
(* is written, the plan puts no two tasks that conflict in a phase, so in  *)
(* no state of any call does a thread write what another has in hand, and  *)
(* a call returns what the instructions run one by one would leave in dy.  *)
(***************************************************************************)
EXTENDS PlannedCalls, WellFoundedInduction, SequenceTheorems, TLAPS

Below == {ss \in Nat \X Nat : ss[1] < ss[2]}

LEMMA BelowWellFounded == IsWellFoundedOn(Below, Nat)
BY NatLessThanWellFounded DEF OpToRel, Below

LEMMA NatHasLeast ==
  ASSUME NEW T, T \subseteq Nat, T # {}
  PROVE  \E x \in T : \A y \in T : x <= y
<1>1. PICK x \in T : \A y \in T : ~ (<<y, x>> \in Below)
  BY BelowWellFounded, WFMin
<1>2. ASSUME NEW y \in T, y < x PROVE FALSE
  <2>1. <<y, x>> \in Below
    BY <1>2 DEF Below
  <2> QED
    BY <2>1, <1>1
<1> QED
  BY <1>2

\* What Min returns.
LEMMA MinIsLeast ==
  ASSUME NEW T, T \subseteq Nat, T # {}
  PROVE  Min(T) \in T /\ \A y \in T : Min(T) <= y
BY NatHasLeast DEF Min

\* What Max returns, on a bounded set.
LEMMA MaxIsGreatest ==
  ASSUME NEW H \in Nat, NEW T, T \subseteq 0 .. H, T # {}
  PROVE  Max(T) \in T /\ \A y \in T : Max(T) >= y
<1> DEFINE D == {H - x : x \in T}
<1>1. D \subseteq Nat
  OBVIOUS
<1>2. D # {}
  <2>1. PICK x \in T : TRUE
    OBVIOUS
  <2>2. H - x \in D
    BY <2>1
  <2> QED
    BY <2>2
<1>3. PICK d \in D : \A e \in D : d <= e
  BY <1>1, <1>2, NatHasLeast
<1>4. PICK x \in T : d = H - x
  BY <1>3
<1>5. \A y \in T : H - y \in D
  OBVIOUS
<1>6. \A y \in T : x >= y
  BY <1>3, <1>4, <1>5
<1> QED
  BY <1>4, <1>6 DEF Max

-----------------------------------------------------------------------------
(* Rounding and cutting *)

\* Rounding down, as integer division gives it.
LEMMA Quotient ==
  ASSUME NEW a \in Nat, NEW b \in Nat \ {0}
  PROVE  /\ a \div b \in Nat
         /\ b * (a \div b) <= a
         /\ a < b * (a \div b) + b
BY SMT

\* A product is monotone in one factor.
LEMMA ProductMonotone ==
  ASSUME NEW a \in Nat, NEW b \in Nat, NEW c \in Nat, a <= b
  PROVE  c * a <= c * b
BY SMT

\* Rounding down is monotone.
LEMMA QuotientMonotone ==
  ASSUME NEW a \in Nat, NEW c \in Nat, NEW b \in Nat \ {0}, a <= c
  PROVE  a \div b <= c \div b
<1> DEFINE q == a \div b
           r == c \div b
<1>1. /\ q \in Nat /\ b * q <= a
      /\ r \in Nat /\ c < b * r + b
  BY Quotient
<1> SUFFICES ASSUME r + 1 <= q PROVE FALSE
  BY <1>1
<1>2. b * (r + 1) <= b * q
  BY <1>1, ProductMonotone
<1>3. b * (r + 1) = b * r + b
  BY <1>1
<1> HIDE DEF q, r
<1> QED
  BY <1>1, <1>2, <1>3

LEMMA DownType ==
  ASSUME NEW a \in Nat, NEW unit \in Nat \ {0}
  PROVE  Down(a, unit) \in Nat /\ Down(a, unit) <= a
<1> DEFINE q == a \div unit
<1>1. q \in Nat /\ unit * q <= a
  BY Quotient
<1> HIDE DEF q
<1>2. q * unit \in Nat /\ q * unit <= a
  BY <1>1
<1> QED
  BY <1>2 DEF Down, q

LEMMA DownMonotone ==
  ASSUME NEW a \in Nat, NEW c \in Nat, NEW unit \in Nat \ {0}, a <= c
  PROVE  Down(a, unit) <= Down(c, unit)
<1> DEFINE q == a \div unit
           r == c \div unit
<1>1. q \in Nat /\ r \in Nat /\ q <= r
  BY Quotient, QuotientMonotone
<1> HIDE DEF q, r
<1>2. unit * q <= unit * r
  BY <1>1, ProductMonotone
<1>3. q * unit <= r * unit
  BY <1>1, <1>2
<1> QED
  BY <1>3 DEF Down, q, r

LEMMA DownBelowStep ==
  ASSUME NEW unit \in Nat \ {0}, NEW a \in 0 .. unit - 1
  PROVE  Down(a, unit) = 0
<1> DEFINE q == a \div unit
<1>1. q \in Nat /\ unit * q <= a
  BY Quotient
<1>2. q = 0
  <2> SUFFICES ASSUME q # 0 PROVE FALSE
    OBVIOUS
  <2>1. unit * 1 <= unit * q
    BY <1>1, ProductMonotone
  <2> QED
    BY <1>1, <2>1
<1> QED
  BY <1>2 DEF Down

LEMMA EvenCutFacts ==
  ASSUME NEW n \in Nat, NEW width \in Nat \ {0}, NEW k \in 0 .. width
  PROVE  /\ EvenCut(n, k, width) \in Nat
         /\ EvenCut(n, k, width) <= n
         /\ EvenCut(n, 0, width) = 0
<1> DEFINE c == (n * k) \div width
<1>1. n * k \in Nat /\ n * k <= n * width
  BY ProductMonotone
<1>2. c \in Nat /\ width * c <= n * k
  BY <1>1, Quotient
<1>3. c <= n
  <2> SUFFICES ASSUME n + 1 <= c PROVE FALSE
    BY <1>2
  <2>1. width * (n + 1) <= width * c
    BY <1>2, ProductMonotone
  <2>2. width * (n + 1) = n * width + width
    OBVIOUS
  <2> DEFINE x == width * (n + 1)
             y == width * c
             z == n * width
  <2>3. x <= y /\ y <= n * k /\ n * k <= z /\ x = z + width
    BY <1>1, <1>2, <2>1, <2>2
  <2>4. x \in Nat /\ y \in Nat /\ z \in Nat
    BY <1>2
  <2> HIDE DEF c, x, y, z
  <2> QED
    BY <1>1, <2>3, <2>4
<1>4. EvenCut(n, 0, width) = 0
  <2>1. n * 0 = 0
    OBVIOUS
  <2>2. 0 \div width = 0
    BY SMT
  <2> QED
    BY <2>1, <2>2 DEF EvenCut
<1> QED
  BY <1>2, <1>3, <1>4 DEF EvenCut

LEMMA EvenCutMonotone ==
  ASSUME NEW n \in Nat, NEW width \in Nat \ {0},
         NEW j \in 0 .. width, NEW k \in 0 .. width, j <= k
  PROVE  EvenCut(n, j, width) <= EvenCut(n, k, width)
<1>1. n * j \in Nat /\ n * k \in Nat /\ n * j <= n * k
  BY ProductMonotone
<1> QED
  BY <1>1, QuotientMonotone DEF EvenCut

-----------------------------------------------------------------------------
(* Cuts begin at 0, end at n and never turn back *)

LEMMA CutBounds ==
  ASSUME NEW n \in Nat, NEW width \in Nat \ {0}, NEW k \in 0 .. width, NEW phase \in 0 .. Align - 1
  PROVE  /\ Cut(n, k, width, phase) \in 0 .. n
         /\ Cut(n, 0, width, phase) = 0
         /\ Cut(n, width, width, phase) = n
<1> USE AlignAssumption
<1>1. EvenCut(n, k, width) + phase \in Nat
  BY EvenCutFacts
<1>2. Down(EvenCut(n, k, width) + phase, Align) \in Nat
  BY <1>1, DownType
<1>3. Down(EvenCut(n, 0, width) + phase, Align) = 0
  BY EvenCutFacts, DownBelowStep
<1> QED
  BY <1>2, <1>3 DEF Cut

LEMMA CutMonotone ==
  ASSUME NEW n \in Nat, NEW width \in Nat \ {0}, NEW phase \in 0 .. Align - 1,
         NEW j \in 0 .. width, NEW k \in 0 .. width, j <= k
  PROVE  Cut(n, j, width, phase) <= Cut(n, k, width, phase)
<1> USE AlignAssumption
<1> DEFINE line(i) == Down(EvenCut(n, i, width) + phase, Align)
<1>1. line(j) \in Nat /\ line(k) \in Nat /\ line(j) <= line(k)
  <2>1. /\ EvenCut(n, j, width) + phase \in Nat
        /\ EvenCut(n, k, width) + phase \in Nat
        /\ EvenCut(n, j, width) + phase <= EvenCut(n, k, width) + phase
    <3>1. EvenCut(n, j, width) \in Nat /\ EvenCut(n, k, width) \in Nat
      BY EvenCutFacts
    <3>2. EvenCut(n, j, width) <= EvenCut(n, k, width)
      BY EvenCutMonotone
    <3> QED
      BY <3>1, <3>2
  <2> QED
    BY <2>1, DownType, DownMonotone
<1>2. CASE k = width
  BY <1>2, CutBounds
<1>3. CASE k # width
  <2>1. j # width
    BY <1>3
  <2> QED
    BY <1>1, <1>3, <2>1 DEF Cut
<1> QED
  BY <1>2, <1>3

LEMMA RowCutBounds ==
  ASSUME NEW n \in Nat, NEW width \in Nat \ {0}, NEW k \in 0 .. width, NEW row \in Nat \ {0}
  PROVE  /\ RowCut(n, k, width, row) \in 0 .. n
         /\ RowCut(n, 0, width, row) = 0
         /\ RowCut(n, width, width, row) = n
<1>1. Down(EvenCut(n, k, width), row) \in Nat
  BY EvenCutFacts, DownType
<1>2. Down(EvenCut(n, 0, width), row) = 0
  BY EvenCutFacts, DownBelowStep
<1> QED
  BY <1>1, <1>2 DEF RowCut

LEMMA RowCutMonotone ==
  ASSUME NEW n \in Nat, NEW width \in Nat \ {0}, NEW row \in Nat \ {0},
         NEW j \in 0 .. width, NEW k \in 0 .. width, j <= k
  PROVE  RowCut(n, j, width, row) <= RowCut(n, k, width, row)
<1> DEFINE start(i) == Down(EvenCut(n, i, width), row)
<1>1. start(j) \in Nat /\ start(k) \in Nat /\ start(j) <= start(k)
  BY EvenCutFacts, EvenCutMonotone, DownType, DownMonotone
<1>2. CASE k = width
  BY <1>2, RowCutBounds
<1>3. CASE k # width
  <2>1. j # width
    BY <1>3
  <2> QED
    BY <1>1, <1>3, <2>1 DEF RowCut
<1> QED
  BY <1>2, <1>3

-----------------------------------------------------------------------------
(* The shares partition the elements *)

\* Cuts that begin at 0, end at n and never turn back leave no cell out and put
\* none in two shares.
LEMMA CutsPartition ==
  ASSUME NEW n \in Nat, NEW width \in Nat \ {0}, NEW cut,
         \A k \in 0 .. width : cut[k] \in 0 .. n,
         cut[0] = 0, cut[width] = n,
         \A j, k \in 0 .. width : j <= k => cut[j] <= cut[k]
  PROVE  /\ UNION {cut[w] .. cut[w + 1] - 1 : w \in 0 .. width - 1} = 0 .. n - 1
         /\ \A v, w \in 0 .. width - 1 :
              v # w => (cut[v] .. cut[v + 1] - 1) \intersect (cut[w] .. cut[w + 1] - 1) = {}
<1>1. ASSUME NEW c \in 0 .. n - 1
      PROVE  \E w \in 0 .. width - 1 : c \in cut[w] .. cut[w + 1] - 1
  <2> DEFINE past == {w \in 0 .. width - 1 : c < cut[w + 1]}
  <2>1. width - 1 \in past
    BY <1>1
  <2>2. past \subseteq Nat /\ past # {}
    <3>1. 0 .. width - 1 \subseteq Nat
      OBVIOUS
    <3>2. past \subseteq 0 .. width - 1
      OBVIOUS
    <3> QED
      BY <2>1, <3>1, <3>2, Zenon
  <2>3. PICK w \in past : \A u \in past : ~ (<<u, w>> \in Below)
    BY <2>2, BelowWellFounded, WFMin
  <2>4. w \in 0 .. width - 1 /\ c < cut[w + 1]
    OBVIOUS
  <2>5. cut[w] <= c
    <3>1. CASE w = 0
      BY <3>1
    <3>2. CASE w # 0
      <4>1. w - 1 \in 0 .. width - 1 /\ <<w - 1, w>> \in Below
        BY <2>4, <3>2 DEF Below
      <4>2. ~ (c < cut[(w - 1) + 1])
        BY <2>3, <4>1
      <4>3. (w - 1) + 1 = w /\ cut[w] \in 0 .. n
        BY <2>4
      <4> QED
        BY <4>2, <4>3
    <3> QED
      BY <3>1, <3>2
  <2>6. cut[w] \in 0 .. n /\ cut[w + 1] \in 0 .. n
    BY <2>4
  <2> HIDE DEF past
  <2> QED
    BY <2>4, <2>5, <2>6
<1>2. ASSUME NEW w \in 0 .. width - 1, NEW c \in cut[w] .. cut[w + 1] - 1
      PROVE  c \in 0 .. n - 1
  <2>1. cut[w] \in 0 .. n /\ cut[w + 1] \in 0 .. n
    OBVIOUS
  <2> QED
    BY <2>1
<1>3. ASSUME NEW v \in 0 .. width - 1, NEW w \in 0 .. width - 1, v < w
      PROVE  (cut[v] .. cut[v + 1] - 1) \intersect (cut[w] .. cut[w + 1] - 1) = {}
  <2>1. cut[v + 1] <= cut[w]
    BY <1>3
  <2>2. /\ cut[v] \in 0 .. n /\ cut[v + 1] \in 0 .. n
        /\ cut[w] \in 0 .. n /\ cut[w + 1] \in 0 .. n
    OBVIOUS
  <2> QED
    BY <2>1, <2>2
<1>4. UNION {cut[w] .. cut[w + 1] - 1 : w \in 0 .. width - 1} = 0 .. n - 1
  <2>1. ASSUME NEW c
        PROVE  c \in UNION {cut[w] .. cut[w + 1] - 1 : w \in 0 .. width - 1} <=>
                 \E w \in 0 .. width - 1 : c \in cut[w] .. cut[w + 1] - 1
    OBVIOUS
  <2> QED
    BY <1>1, <1>2, <2>1
<1>5. ASSUME NEW v \in 0 .. width - 1, NEW w \in 0 .. width - 1, v # w
      PROVE  (cut[v] .. cut[v + 1] - 1) \intersect (cut[w] .. cut[w + 1] - 1) = {}
  <2>1. v < w \/ w < v
    BY <1>5
  <2> QED
    BY <1>3, <2>1
<1> QED
  BY <1>4, <1>5

\* Every element of a split is in the share of exactly one thread, wherever its
\* output lies in a cache line: share_at, which the fused groups, copies and
\* reductions of a call are cut by.
THEOREM SharesPartition ==
  \A n \in Nat, width \in Nat \ {0}, to \in Nat :
    /\ UNION {Share(n, w, width, to) : w \in 0 .. width - 1} = 0 .. n - 1
    /\ \A v, w \in 0 .. width - 1 : v # w => Share(n, v, width, to) \intersect Share(n, w, width, to) = {}
<1> SUFFICES ASSUME NEW n \in Nat, NEW width \in Nat \ {0}, NEW to \in Nat
             PROVE  /\ UNION {Share(n, w, width, to) : w \in 0 .. width - 1} = 0 .. n - 1
                    /\ \A v, w \in 0 .. width - 1 :
                         v # w => Share(n, v, width, to) \intersect Share(n, w, width, to) = {}
  OBVIOUS
<1> DEFINE phase == to % Align
           cut   == [k \in 0 .. width |-> Cut(n, k, width, phase)]
<1>1. phase \in 0 .. Align - 1
  BY AlignAssumption
<1> HIDE DEF phase
<1>2. \A k \in 0 .. width : cut[k] = Cut(n, k, width, phase)
  OBVIOUS
<1>3. 0 \in 0 .. width /\ width \in 0 .. width
  OBVIOUS
<1>4. /\ \A k \in 0 .. width : cut[k] \in 0 .. n
      /\ cut[0] = 0 /\ cut[width] = n
  BY <1>1, <1>2, <1>3, CutBounds
<1>5. \A j, k \in 0 .. width : j <= k => cut[j] <= cut[k]
  BY <1>1, <1>2, CutMonotone
<1>6. \A w \in 0 .. width - 1 : Share(n, w, width, to) = cut[w] .. cut[w + 1] - 1
  <2>1. \A w \in 0 .. width - 1 : w \in 0 .. width /\ w + 1 \in 0 .. width
    OBVIOUS
  <2> QED
    BY <1>2, <2>1 DEF Share, phase
<1> HIDE DEF cut
<1>7. /\ UNION {cut[w] .. cut[w + 1] - 1 : w \in 0 .. width - 1} = 0 .. n - 1
      /\ \A v, w \in 0 .. width - 1 :
           v # w => (cut[v] .. cut[v + 1] - 1) \intersect (cut[w] .. cut[w + 1] - 1) = {}
  BY <1>4, <1>5, CutsPartition
<1>8. {Share(n, w, width, to) : w \in 0 .. width - 1}
        = {cut[w] .. cut[w + 1] - 1 : w \in 0 .. width - 1}
  BY <1>6
<1> QED
  BY <1>6, <1>7, <1>8

\* The same of share_aligned, which cuts a group with an absorbed scan only where
\* a row restarts it.
THEOREM RowSharesPartition ==
  \A n \in Nat, width \in Nat \ {0}, row \in Nat \ {0} :
    /\ UNION {RowShare(n, w, width, row) : w \in 0 .. width - 1} = 0 .. n - 1
    /\ \A v, w \in 0 .. width - 1 :
         v # w => RowShare(n, v, width, row) \intersect RowShare(n, w, width, row) = {}
<1> SUFFICES ASSUME NEW n \in Nat, NEW width \in Nat \ {0}, NEW row \in Nat \ {0}
             PROVE  /\ UNION {RowShare(n, w, width, row) : w \in 0 .. width - 1} = 0 .. n - 1
                    /\ \A v, w \in 0 .. width - 1 :
                         v # w => RowShare(n, v, width, row) \intersect RowShare(n, w, width, row) = {}
  OBVIOUS
<1> DEFINE cut == [k \in 0 .. width |-> RowCut(n, k, width, row)]
<1>2. \A k \in 0 .. width : cut[k] = RowCut(n, k, width, row)
  OBVIOUS
<1>3. 0 \in 0 .. width /\ width \in 0 .. width
  OBVIOUS
<1>4. /\ \A k \in 0 .. width : cut[k] \in 0 .. n
      /\ cut[0] = 0 /\ cut[width] = n
  BY <1>2, <1>3, RowCutBounds
<1>5. \A j, k \in 0 .. width : j <= k => cut[j] <= cut[k]
  BY <1>2, RowCutMonotone
<1>6. \A w \in 0 .. width - 1 : RowShare(n, w, width, row) = cut[w] .. cut[w + 1] - 1
  <2>1. \A w \in 0 .. width - 1 : w \in 0 .. width /\ w + 1 \in 0 .. width
    OBVIOUS
  <2> QED
    BY <1>2, <2>1 DEF RowShare
<1> HIDE DEF cut
<1>7. /\ UNION {cut[w] .. cut[w + 1] - 1 : w \in 0 .. width - 1} = 0 .. n - 1
      /\ \A v, w \in 0 .. width - 1 :
           v # w => (cut[v] .. cut[v + 1] - 1) \intersect (cut[w] .. cut[w + 1] - 1) = {}
  BY <1>4, <1>5, CutsPartition
<1>8. {RowShare(n, w, width, row) : w \in 0 .. width - 1}
        = {cut[w] .. cut[w + 1] - 1 : w \in 0 .. width - 1}
  BY <1>6
<1> QED
  BY <1>6, <1>7, <1>8
-----------------------------------------------------------------------------
(* A tape program's slots *)

LEMMA CodeFacts ==
  ASSUME NEW p, WellFormed(p)
  PROVE  /\ Len(p.code) \in Nat
         /\ p.const \in Nat /\ p.segment \in Nat /\ p.const + p.segment <= Len(p.code)
         /\ \A i \in Pcs(p) :
              /\ p.code[i].op \in Ops /\ p.code[i].reads \subseteq Slots(p)
              /\ p.code[i].elems \in Nat /\ p.code[i].inner \in Nat
              /\ p.code[i].body \in Nat /\ p.code[i].at \in Nat
<1>1. /\ p.code \in Seq([op : Ops, reads : SUBSET Slots(p), elems : Nat,
                         inner : Nat, body : Nat, at : Nat])
      /\ p.const \in Nat /\ p.segment \in Nat /\ p.const + p.segment <= Len(p.code)
  BY DEF WellFormed
<1>2. Len(p.code) \in Nat
  BY <1>1
<1>3. ASSUME NEW i \in Pcs(p)
      PROVE  /\ p.code[i].op \in Ops /\ p.code[i].reads \in SUBSET Slots(p)
             /\ p.code[i].elems \in Nat /\ p.code[i].inner \in Nat
             /\ p.code[i].body \in Nat /\ p.code[i].at \in Nat
  <2>1. p.code[i] \in [op : Ops, reads : SUBSET Slots(p), elems : Nat,
                       inner : Nat, body : Nat, at : Nat]
    BY <1>1, <1>3, ElementOfSeq DEF Pcs
  <2> QED
    BY <2>1
<1> QED
  BY <1>1, <1>2, <1>3

LEMMA SlotFacts ==
  ASSUME NEW p, WellFormed(p)
  PROVE  /\ \A s \in Slots(p) : Def(p, s) \in Pcs(p) /\ Elems(p, s) \in Nat
         /\ \A i \in Pcs(p) : \A s \in Defs(p, i) : s \in Slots(p) /\ Def(p, s) = i
         /\ \A s \in Defined(p) : s \in Slots(p) /\ s \in Defs(p, Def(p, s))
<1>1. \A s \in Slots(p) : Def(p, s) \in Pcs(p)
  BY CodeFacts DEF Slots, Def, Pcs
<1>2. \A s \in Slots(p) : Elems(p, s) \in Nat
  BY <1>1, CodeFacts DEF Elems, Slots, Pcs
<1>3. \A i \in Pcs(p) : Defs(p, i) \subseteq {i, Second(p, i)}
  BY DEF Defs
<1>4. \A i \in Pcs(p) : \A s \in Defs(p, i) : s \in Slots(p) /\ Def(p, s) = i
  BY <1>3, CodeFacts DEF Second, Slots, Def, Pcs
<1> QED
  BY <1>1, <1>2, <1>4 DEF Defined

\* A slot's last use is an instruction, not before its definition or any reader.
LEMMA LastUseFacts ==
  ASSUME NEW p, WellFormed(p), NEW s \in Slots(p)
  PROVE  /\ LastUse(p, s) \in Pcs(p)
         /\ Def(p, s) <= LastUse(p, s)
         /\ \A i \in Pcs(p) : s \in Reads(p, i) => i <= LastUse(p, s)
<1> DEFINE swept == {j \in Pcs(p) : p.code[j].op = "sweep" /\ s \in SweepKeeps(p, j)}
           uses  == {Def(p, s)} \union {i \in Pcs(p) : s \in Reads(p, i)}
                      \union {i + p.code[i].body : i \in swept}
<1>1. ASSUME NEW i \in swept PROVE i + p.code[i].body \in Pcs(p)
  <2>1. i + p.code[i].body <= Len(p.code)
    BY DEF WellFormed
  <2>2. i \in 1 .. Len(p.code) /\ p.code[i].body \in Nat /\ Len(p.code) \in Nat
    BY CodeFacts DEF Pcs
  <2> QED
    BY <2>1, <2>2 DEF Pcs
<1>2. Def(p, s) \in Pcs(p) /\ Len(p.code) \in Nat
  BY SlotFacts, CodeFacts
<1>3. uses \subseteq Pcs(p) /\ uses # {}
  BY <1>1, <1>2
<1>4. LastUse(p, s) = Max(uses)
  BY DEF LastUse
<1>5. \A i \in Pcs(p) : s \in Reads(p, i) => i \in uses
  OBVIOUS
<1>6. Def(p, s) \in uses
  OBVIOUS
<1> HIDE DEF uses
<1>7. uses \subseteq 0 .. Len(p.code)
  BY <1>2, <1>3 DEF Pcs
<1>8. Max(uses) \in uses /\ \A y \in uses : Max(uses) >= y
  BY <1>2, <1>3, <1>7, MaxIsGreatest
<1>9. \A y \in uses : y \in Int
  BY <1>7
<1> QED
  BY <1>3, <1>4, <1>5, <1>6, <1>8, <1>9

-----------------------------------------------------------------------------
(* color_slab: of two slots of one storage one is dead when the other begins *)

LEMMA ColouredSteps ==
  ASSUME NEW p, Len(p.code) \in Nat
  PROVE  Coloured(p) = [i \in 0 .. Len(p.code) |->
           IF i = 0 THEN NoStorage(p) ELSE ColorInstr(p, Coloured(p)[i - 1], i)]
<1> DEFINE Rec(g, k) == g = [i \in 0 .. k |->
             IF i = 0 THEN NoStorage(p) ELSE ColorInstr(p, g[i - 1], i)]
           B == {k \in Nat : ~ \E g : Rec(g, k)}
<1>1. B = {}
  <2> SUFFICES ASSUME B # {} PROVE FALSE
    OBVIOUS
  <2>1. PICK k \in B : \A y \in B : k <= y
    BY NatHasLeast
  <2>2. k \in Nat /\ ~ \E g : Rec(g, k)
    BY <2>1
  <2>3. CASE k = 0
    <3>1. Rec([i \in 0 .. 0 |-> NoStorage(p)], 0)
      OBVIOUS
    <3> QED
      BY <3>1, <2>2, <2>3
  <2>4. CASE k # 0
    <3>1. k - 1 \in Nat /\ ~ (k <= k - 1)
      BY <2>2, <2>4
    <3>2. k - 1 \notin B
      BY <3>1, <2>1
    <3>3. PICK g : Rec(g, k - 1)
      BY <3>1, <3>2
    <3> DEFINE h == [i \in 0 .. k |-> IF i < k THEN g[i] ELSE ColorInstr(p, g[k - 1], k)]
    <3>4. \A i \in 0 .. k : h[i] = IF i = 0 THEN NoStorage(p) ELSE ColorInstr(p, h[i - 1], i)
      BY <3>1, <3>3, <2>2, <2>4
    <3>5. Rec(h, k)
      BY <3>4
    <3> QED
      BY <3>5, <2>2
  <2> QED
    BY <2>3, <2>4
<1>2. PICK g : Rec(g, Len(p.code))
  BY <1>1
<1>3. Rec(CHOOSE f : Rec(f, Len(p.code)), Len(p.code))
  BY <1>2, Zenon
<1>4. Coloured(p) = CHOOSE f : Rec(f, Len(p.code))
  BY DEF Coloured
<1> QED
  BY <1>3, <1>4

Recycles(p, s, t) ==
  /\ ~Dedicated(p, s) /\ ~Dedicated(p, t)
  /\ \/ LastUse(p, s) < Def(p, t)
     \/ LastUse(p, s) = Def(p, t) /\ AliasSafe(p.code[Def(p, t)])

Stored(p, sl) == {s \in Slots(p) : sl.store[s] # 0}

\* The storages are as long as their slots; slots of one storage live one after
\* the other, and a free storage belongs to the last that had it.
ColourInv(p, sl) ==
  /\ DOMAIN sl = {"store", "sizes", "free"}
  /\ sl.store \in [Slots(p) -> Nat] /\ sl.sizes \in Seq(Nat)
  /\ sl.free \subseteq Stored(p, sl)
  /\ \A s \in Slots(p) : sl.store[s] <= Len(sl.sizes)
  /\ \A s \in Stored(p, sl) : s \in Defined(p) /\ sl.sizes[sl.store[s]] = Elems(p, s)
  /\ \A s, t \in Stored(p, sl) :
       s # t /\ sl.store[s] = sl.store[t] => Recycles(p, s, t) \/ Recycles(p, t, s)
  /\ \A g \in sl.free, u \in Stored(p, sl) :
       sl.store[u] = sl.store[g] =>
         /\ ~Dedicated(p, u) /\ LastUse(p, u) <= LastUse(p, g)
         /\ u \in sl.free => u = g

\* Slots defined up to instruction d are stored, storages free that were last
\* used up to instruction f.
Reached(p, sl, d, f) ==
  /\ \A s \in Stored(p, sl) : Def(p, s) <= d
  /\ \A g \in sl.free : LastUse(p, g) <= f

LEMMA ReleaseKeeps ==
  ASSUME NEW p, WellFormed(p), NEW sl, ColourInv(p, sl),
         NEW i \in Pcs(p), NEW d \in Nat, Reached(p, sl, d, i - 1),
         d <= i, AliasSafe(p.code[i]) => d <= i - 1
  PROVE  LET new == Release(sl, DyingAt(p, i)) IN
         /\ ColourInv(p, new) /\ Reached(p, new, d, i)
         /\ new.store = sl.store
<1> DEFINE dying == {s \in DyingAt(p, i) : sl.store[s] # 0}
           new   == Release(sl, DyingAt(p, i))
<1>1. /\ new.store = sl.store /\ new.sizes = sl.sizes /\ DOMAIN new = {"store", "sizes", "free"}
      /\ new.free = sl.free \union dying
  BY DEF Release, ColourInv
<1>2. Stored(p, new) = Stored(p, sl)
  BY <1>1 DEF Stored
<1>3. dying \subseteq Stored(p, sl) /\ \A g \in dying : LastUse(p, g) = i /\ ~Dedicated(p, g)
  BY SlotFacts DEF DyingAt, Stored
<1>4. \A s \in Slots(p) : Def(p, s) \in Int /\ LastUse(p, s) \in Int /\ Def(p, s) <= LastUse(p, s)
  BY SlotFacts, LastUseFacts, CodeFacts DEF Pcs
<1>5. i \in Int /\ d \in Int
  BY CodeFacts DEF Pcs
<1>6. ASSUME NEW g \in dying, NEW u \in Stored(p, sl), u # g, sl.store[u] = sl.store[g]
      PROVE  Recycles(p, u, g)
  <2>1. Recycles(p, u, g) \/ Recycles(p, g, u)
    BY <1>3, <1>6 DEF ColourInv
  <2>2. Def(p, u) <= d /\ u \in Slots(p)
    BY DEF Reached, Stored
  <2>3. ~Recycles(p, g, u)
    BY <1>3, <1>4, <1>5, <2>2 DEF Recycles
  <2> QED
    BY <2>1, <2>3
<1>7. ASSUME NEW g \in new.free, NEW u \in Stored(p, sl), sl.store[u] = sl.store[g]
      PROVE  /\ ~Dedicated(p, u) /\ LastUse(p, u) <= LastUse(p, g)
             /\ u \in new.free => u = g
  <2> DEFINE free == sl.free
  <2>0. u \in Slots(p) /\ g \in Slots(p) /\ g \in Stored(p, sl)
    BY <1>1, <1>3 DEF Stored, ColourInv
  <2>1. CASE g \in dying /\ u # g
    <3>1. Recycles(p, u, g)
      BY <1>6, <1>7, <2>1
    <3>2. LastUse(p, u) <= Def(p, g) /\ ~Dedicated(p, u)
      BY <3>1, <1>4, <2>0 DEF Recycles
    <3>3. u \notin dying
      <4> SUFFICES ASSUME u \in dying PROVE FALSE
        OBVIOUS
      <4>1. Recycles(p, g, u)
        BY <1>6, <1>7, <2>1, <2>0
      <4> QED
        BY <4>1, <3>1, <1>3, <1>4, <1>5, <2>0, <2>1 DEF Recycles, Reached
    <3>4. u \notin free
      <4> SUFFICES ASSUME u \in free PROVE FALSE
        OBVIOUS
      <4>1. LastUse(p, g) <= LastUse(p, u) /\ LastUse(p, u) <= i - 1
        BY <1>7, <2>0 DEF ColourInv, Reached
      <4> QED
        BY <4>1, <1>3, <1>4, <1>5, <2>0, <2>1
    <3> QED
      BY <3>2, <3>3, <3>4, <1>1, <1>4, <2>0
  <2>2. CASE u = g
    BY <2>2, <1>1, <1>3, <1>4, <2>0 DEF ColourInv
  <2>3. CASE g \notin dying /\ u # g
    <3>1. g \in free
      BY <1>1, <2>3
    <3>2. ~Dedicated(p, u) /\ LastUse(p, u) <= LastUse(p, g) /\ u \notin free
      BY <3>1, <1>7, <2>3 DEF ColourInv
    <3>3. u \notin dying
      BY <3>1, <3>2, <1>3, <1>4, <1>5, <2>0 DEF Reached
    <3> QED
      BY <3>2, <3>3, <1>1, <2>3
  <2> QED
    BY <2>1, <2>2, <2>3
<1> HIDE DEF new, dying
<1>8. ColourInv(p, new)
  BY <1>1, <1>2, <1>3, <1>7 DEF ColourInv
<1>9. Reached(p, new, d, i)
  BY <1>1, <1>2, <1>3, <1>4, <1>5 DEF Reached, ColourInv, Stored
<1> QED
  BY <1>1, <1>8, <1>9 DEF new

\* The storage a slot is given belonged to a free one of its size.
LEMMA GiverFits ==
  ASSUME NEW p, WellFormed(p), NEW fitting, fitting \subseteq Slots(p), fitting # {}
  PROVE  LatestFreed(p, fitting) \in fitting
<1> DEFINE uses == {LastUse(p, t) : t \in fitting}
           last == Max(uses)
           late == {t \in fitting : LastUse(p, t) = last}
<1>1. Len(p.code) \in Nat
  BY CodeFacts
<1>2. uses \subseteq 0 .. Len(p.code) /\ uses # {}
  BY <1>1, LastUseFacts DEF Pcs
<1>3. last \in uses
  BY <1>1, <1>2, MaxIsGreatest
<1>4. late # {} /\ late \subseteq 0 .. 2 * Len(p.code) /\ 2 * Len(p.code) \in Nat
  <2>1. late # {}
    BY <1>3
  <2>2. 1 .. 2 * Len(p.code) \subseteq 0 .. 2 * Len(p.code) /\ 2 * Len(p.code) \in Nat
    BY <1>1
  <2>3. late \subseteq 1 .. 2 * Len(p.code)
    BY DEF Slots
  <2> HIDE DEF late
  <2> QED
    BY <2>1, <2>2, <2>3
<1>5. Max(late) \in late
  BY <1>4, MaxIsGreatest
<1> QED
  BY <1>5 DEF LatestFreed

LEMMA AllocateKeeps ==
  ASSUME NEW p, WellFormed(p), NEW sl, ColourInv(p, sl), NEW i \in Pcs(p), NEW f \in Int,
         Reached(p, sl, i, f), f <= i, AliasSafe(p.code[i]) \/ f <= i - 1,
         NEW s \in Defined(p), Def(p, s) = i, s \notin Stored(p, sl)
  PROVE  LET new == Allocate(p, sl, s) IN
         /\ ColourInv(p, new) /\ Reached(p, new, i, f)
         /\ Stored(p, new) = Stored(p, sl) \union {s}
<1> DEFINE fitting == {t \in sl.free : Elems(p, t) = Elems(p, s)}
           giver   == LatestFreed(p, fitting)
           new     == Allocate(p, sl, s)
           fresh   == Len(sl.sizes) + 1
<1>0. /\ DOMAIN sl = {"store", "sizes", "free"} /\ sl.store \in [Slots(p) -> Nat]
      /\ sl.sizes \in Seq(Nat) /\ Len(sl.sizes) \in Nat
  BY DEF ColourInv
<1>1. s \in Slots(p) /\ Elems(p, s) \in Nat /\ i \in Int
  BY SlotFacts, CodeFacts DEF Pcs
<1>2. \A t \in Slots(p) : LastUse(p, t) \in Int /\ Def(p, t) <= LastUse(p, t) /\ Def(p, t) \in Int
  BY LastUseFacts, SlotFacts, CodeFacts DEF Pcs
<1>3. CASE Dedicated(p, s) \/ fitting = {}
  <2>1. /\ DOMAIN new = {"store", "sizes", "free"}
        /\ new.store = [sl.store EXCEPT ![s] = fresh]
        /\ new.sizes = Append(sl.sizes, Elems(p, s)) /\ new.free = sl.free
    BY <1>0, <1>3 DEF Allocate
  <2>2. /\ new.sizes \in Seq(Nat) /\ Len(new.sizes) = fresh
        /\ \A k \in 1 .. Len(sl.sizes) : new.sizes[k] = sl.sizes[k]
        /\ new.sizes[fresh] = Elems(p, s)
    BY <2>1, <1>0, <1>1
  <2>3. /\ new.store \in [Slots(p) -> Nat] /\ new.store[s] = fresh
        /\ \A t \in Slots(p) \ {s} : new.store[t] = sl.store[t]
    BY <2>1, <1>0, <1>1
  <2> HIDE DEF new, fitting
  <2>4. Stored(p, new) = Stored(p, sl) \union {s}
    BY <2>3, <1>0, <1>1 DEF Stored
  <2>5. \A t \in Stored(p, sl) : /\ t \in Slots(p) /\ t # s /\ sl.store[t] # fresh
                                 /\ sl.store[t] \in 1 .. Len(sl.sizes)
    <3> SUFFICES ASSUME NEW t \in Stored(p, sl) PROVE sl.store[t] \in 1 .. Len(sl.sizes)
      BY <1>0 DEF Stored
    <3>1. sl.store[t] \in Nat /\ sl.store[t] # 0 /\ sl.store[t] <= Len(sl.sizes)
      BY <1>0 DEF Stored, ColourInv
    <3> QED
      BY <3>1, <1>0
  <2>6. sl.free \subseteq Stored(p, sl)
    BY DEF ColourInv
  <2>7. /\ \A t \in Slots(p) : new.store[t] <= Len(new.sizes)
        /\ \A t \in Stored(p, new) : t \in Defined(p) /\ new.sizes[new.store[t]] = Elems(p, t)
    <3>1. \A t \in Slots(p) : new.store[t] <= Len(new.sizes)
      BY <2>2, <2>3, <1>0 DEF ColourInv
    <3>2. \A t \in Stored(p, sl) : t \in Defined(p) /\ new.sizes[new.store[t]] = Elems(p, t)
      BY <2>2, <2>3, <2>5 DEF ColourInv
    <3> QED
      BY <3>1, <3>2, <2>2, <2>3, <2>4
  <2>8. \A t, u \in Stored(p, new) :
          t # u /\ new.store[t] = new.store[u] => Recycles(p, t, u) \/ Recycles(p, u, t)
    BY <2>3, <2>4, <2>5 DEF ColourInv
  <2>9. \A g \in new.free, u \in Stored(p, new) :
          new.store[u] = new.store[g] =>
            /\ ~Dedicated(p, u) /\ LastUse(p, u) <= LastUse(p, g)
            /\ u \in new.free => u = g
    BY <2>1, <2>3, <2>4, <2>5, <2>6 DEF ColourInv
  <2>10. Reached(p, new, i, f)
    BY <2>1, <2>4, <1>1 DEF Reached
  <2>11. ColourInv(p, new)
    BY <2>1, <2>2, <2>3, <2>4, <2>6, <2>7, <2>8, <2>9 DEF ColourInv
  <2> QED
    BY <2>4, <2>10, <2>11 DEF new
<1>4. CASE ~Dedicated(p, s) /\ fitting # {}
  <2>0. giver \in sl.free /\ Elems(p, giver) = Elems(p, s)
    <3>1. fitting \subseteq Slots(p)
      BY DEF ColourInv, Stored
    <3> QED
      BY <1>4, <3>1, GiverFits
  <2>1. /\ DOMAIN new = {"store", "sizes", "free"}
        /\ new.store = [sl.store EXCEPT ![s] = sl.store[giver]]
        /\ new.sizes = sl.sizes /\ new.free = sl.free \ {giver}
    BY <1>0, <1>4 DEF Allocate
  <2>2. giver \in Stored(p, sl) /\ giver \in Slots(p) /\ sl.store[giver] \in Nat \ {0} /\ giver # s
    BY <2>0, <1>0 DEF ColourInv, Stored
  <2>3. /\ new.store \in [Slots(p) -> Nat] /\ new.store[s] = sl.store[giver]
        /\ \A t \in Slots(p) \ {s} : new.store[t] = sl.store[t]
    BY <2>1, <2>2, <1>0, <1>1
  <2> HIDE DEF new, fitting, giver
  <2>4. Stored(p, new) = Stored(p, sl) \union {s}
    BY <2>2, <2>3, <1>0, <1>1 DEF Stored
  <2>5. ASSUME NEW u \in Stored(p, sl), sl.store[u] = sl.store[giver] PROVE Recycles(p, u, s)
    <3>1. ~Dedicated(p, u) /\ LastUse(p, u) <= LastUse(p, giver) /\ LastUse(p, giver) <= f
      BY <2>0, <2>5 DEF ColourInv, Reached
    <3>2. u \in Slots(p)
      BY DEF Stored
    <3> QED
      BY <3>1, <3>2, <1>1, <1>2, <1>4, <2>2 DEF Recycles
  <2>6. /\ \A t \in Slots(p) : new.store[t] <= Len(new.sizes)
        /\ \A t \in Stored(p, new) : t \in Defined(p) /\ new.sizes[new.store[t]] = Elems(p, t)
    <3>1. \A t \in Stored(p, sl) : t \in Slots(p) \ {s}
      BY DEF Stored
    <3> QED
      BY <3>1, <2>0, <2>1, <2>2, <2>3, <2>4 DEF ColourInv
  <2>7. \A t, u \in Stored(p, new) :
          t # u /\ new.store[t] = new.store[u] => Recycles(p, t, u) \/ Recycles(p, u, t)
    <3>1. \A t \in Stored(p, sl) : t \in Slots(p) \ {s}
      BY DEF Stored
    <3> QED
      BY <3>1, <2>3, <2>4, <2>5 DEF ColourInv
  <2>8. \A g \in new.free, u \in Stored(p, new) :
          new.store[u] = new.store[g] =>
            /\ ~Dedicated(p, u) /\ LastUse(p, u) <= LastUse(p, g)
            /\ u \in new.free => u = g
    <3> SUFFICES ASSUME NEW g \in new.free, NEW u \in Stored(p, new),
                        new.store[u] = new.store[g]
                 PROVE  /\ ~Dedicated(p, u) /\ LastUse(p, u) <= LastUse(p, g)
                        /\ u \in new.free => u = g
      OBVIOUS
    <3>1. g \in sl.free /\ g # giver /\ g \in Stored(p, sl) /\ g \in Slots(p) \ {s}
      BY <2>1 DEF ColourInv, Stored
    <3>2. u # s
      <4> SUFFICES ASSUME u = s PROVE FALSE
        OBVIOUS
      <4>1. sl.store[giver] = sl.store[g]
        BY <3>1, <2>3
      <4> QED
        BY <4>1, <3>1, <2>0, <2>2 DEF ColourInv
    <3>3. u \in Stored(p, sl) /\ u \in Slots(p) \ {s}
      BY <3>2, <2>4 DEF Stored
    <3> QED
      BY <3>1, <3>3, <2>1, <2>3 DEF ColourInv
  <2>9. Reached(p, new, i, f)
    BY <2>1, <2>4, <1>1 DEF Reached
  <2>10. new.free \subseteq Stored(p, new)
    BY <2>1, <2>4 DEF ColourInv
  <2>11. ColourInv(p, new)
    BY <2>1, <2>3, <2>6, <2>7, <2>8, <2>10, <1>0 DEF ColourInv
  <2> QED
    BY <2>4, <2>9, <2>11 DEF new
<1> QED
  BY <1>3, <1>4

LEMMA AllocateDefsKeeps ==
  ASSUME NEW p, WellFormed(p), NEW sl, ColourInv(p, sl), NEW i \in Pcs(p), NEW f \in Int,
         Reached(p, sl, i - 1, f), f <= i, AliasSafe(p.code[i]) \/ f <= i - 1
  PROVE  LET new == AllocateDefs(p, sl, i) IN
         /\ ColourInv(p, new) /\ Reached(p, new, i, f)
         /\ Stored(p, new) = Stored(p, sl) \union Defs(p, i)
<1> DEFINE out == IF i \in Defs(p, i) THEN Allocate(p, sl, i) ELSE sl
           new == AllocateDefs(p, sl, i)
<1>1. /\ Len(p.code) \in Nat /\ i \in 1 .. Len(p.code)
      /\ \A s \in Defs(p, i) : s \in Defined(p) /\ s \in Slots(p) /\ Def(p, s) = i
  BY CodeFacts, SlotFacts DEF Pcs, Defined
<1>2. Defs(p, i) \subseteq {i, Second(p, i)} /\ i # Second(p, i)
  BY <1>1 DEF Defs, Second
<1>3. \A s \in Defs(p, i) : s \notin Stored(p, sl)
  BY <1>1 DEF Reached
<1>4. Reached(p, sl, i, f)
  <2>1. \A s \in Stored(p, sl) : Def(p, s) \in Int
    BY SlotFacts DEF Stored, Pcs
  <2> QED
    BY <1>1, <2>1 DEF Reached
<1>5. /\ ColourInv(p, out) /\ Reached(p, out, i, f)
      /\ Stored(p, out) = Stored(p, sl) \union ({i} \intersect Defs(p, i))
  <2>1. CASE i \in Defs(p, i)
    BY <1>1, <1>3, <1>4, <2>1, AllocateKeeps
  <2>2. CASE i \notin Defs(p, i)
    BY <1>4, <2>2
  <2> QED
    BY <2>1, <2>2
<1>6. new = IF Second(p, i) \in Defs(p, i) THEN Allocate(p, out, Second(p, i)) ELSE out
  BY DEF AllocateDefs
<1> HIDE DEF out, new
<1>7. CASE Second(p, i) \in Defs(p, i)
  <2>1. Second(p, i) \notin Stored(p, out)
    BY <1>2, <1>3, <1>5, <1>7
  <2>2. /\ ColourInv(p, new) /\ Reached(p, new, i, f)
        /\ Stored(p, new) = Stored(p, out) \union {Second(p, i)}
    BY <1>1, <1>5, <1>6, <1>7, <2>1, AllocateKeeps
  <2>3. Stored(p, new) = Stored(p, sl) \union Defs(p, i)
    BY <1>2, <1>5, <1>7, <2>2
  <2> QED
    BY <2>2, <2>3 DEF new
<1>8. CASE Second(p, i) \notin Defs(p, i)
  BY <1>2, <1>5, <1>6, <1>8 DEF new
<1> QED
  BY <1>7, <1>8

LEMMA ColorInstrKeeps ==
  ASSUME NEW p, WellFormed(p), NEW sl, ColourInv(p, sl), NEW i \in Pcs(p),
         Reached(p, sl, i - 1, i - 1)
  PROVE  LET new == ColorInstr(p, sl, i) IN
         /\ ColourInv(p, new) /\ Reached(p, new, i, i)
         /\ Stored(p, new) = Stored(p, sl) \union Defs(p, i)
<1>0. i \in Nat /\ i - 1 \in Nat
  BY CodeFacts DEF Pcs
<1>1. CASE AliasSafe(p.code[i])
  <2> DEFINE r == Release(sl, DyingAt(p, i))
  <2>1. ColourInv(p, r) /\ Reached(p, r, i - 1, i) /\ r.store = sl.store
    BY <1>0, <1>1, ReleaseKeeps
  <2>2. Stored(p, r) = Stored(p, sl)
    BY <2>1 DEF Stored
  <2>3. ColorInstr(p, sl, i) = AllocateDefs(p, r, i)
    BY <1>1 DEF ColorInstr
  <2> HIDE DEF r
  <2> QED
    BY <1>0, <1>1, <2>1, <2>2, <2>3, AllocateDefsKeeps
<1>2. CASE ~AliasSafe(p.code[i])
  <2> DEFINE a == AllocateDefs(p, sl, i)
  <2>1. /\ ColourInv(p, a) /\ Reached(p, a, i, i - 1)
        /\ Stored(p, a) = Stored(p, sl) \union Defs(p, i)
    BY <1>0, AllocateDefsKeeps
  <2>2. ColorInstr(p, sl, i) = Release(a, DyingAt(p, i))
    BY <1>2 DEF ColorInstr
  <2> HIDE DEF a
  <2>3. LET new == Release(a, DyingAt(p, i)) IN
        ColourInv(p, new) /\ Reached(p, new, i, i) /\ new.store = a.store
    BY <1>0, <1>2, <2>1, ReleaseKeeps
  <2> QED
    BY <2>1, <2>2, <2>3 DEF Stored
<1> QED
  BY <1>1, <1>2

\* When color_slab's walk over the code ends, every slot has a storage of its
\* length, and slots that share one live one after the other.
THEOREM ColouringIsSound ==
  ASSUME NEW p, WellFormed(p)
  PROVE  LET sl == Coloured(p)[Len(p.code)] IN
         ColourInv(p, sl) /\ Stored(p, sl) = Defined(p)
<1> DEFINE c == Coloured(p)
           n == Len(p.code)
           Good(i) == /\ ColourInv(p, c[i]) /\ Reached(p, c[i], i, i)
                      /\ Stored(p, c[i]) = {s \in Defined(p) : Def(p, s) <= i}
           B == {i \in 0 .. n : ~Good(i)}
<1>1. n \in Nat
  BY CodeFacts
<1>2. \A i \in 0 .. n : c[i] = IF i = 0 THEN NoStorage(p) ELSE ColorInstr(p, c[i - 1], i)
  <2>1. c = [i \in 0 .. n |-> IF i = 0 THEN NoStorage(p) ELSE ColorInstr(p, c[i - 1], i)]
    BY <1>1, ColouredSteps
  <2> HIDE DEF c, n
  <2> QED
    BY <2>1
<1>3. Good(0)
  <2>1. c[0] = NoStorage(p)
    BY <1>1, <1>2
  <2> HIDE DEF c
  <2>2. Stored(p, c[0]) = {} /\ c[0].free = {}
    BY <2>1 DEF Stored, NoStorage
  <2>3. ColourInv(p, c[0])
    <3>1. /\ DOMAIN c[0] = {"store", "sizes", "free"}
          /\ c[0].store \in [Slots(p) -> Nat] /\ \A s \in Slots(p) : c[0].store[s] = 0
      BY <2>1 DEF NoStorage
    <3>2. c[0].sizes \in Seq(Nat) /\ Len(c[0].sizes) = 0
      BY <2>1 DEF NoStorage
    <3> QED
      BY <3>1, <3>2, <2>2 DEF ColourInv
  <2>4. {s \in Defined(p) : Def(p, s) <= 0} = {}
    BY SlotFacts DEF Pcs
  <2> QED
    BY <2>2, <2>3, <2>4 DEF Reached
<1>4. ASSUME NEW i \in 1 .. n, Good(i - 1) PROVE Good(i)
  <2>1. i \in Pcs(p) /\ c[i] = ColorInstr(p, c[i - 1], i) /\ i - 1 \in 0 .. n
    BY <1>1, <1>2 DEF Pcs
  <2> HIDE DEF c
  <2>2. /\ ColourInv(p, c[i]) /\ Reached(p, c[i], i, i)
        /\ Stored(p, c[i]) = Stored(p, c[i - 1]) \union Defs(p, i)
    BY <1>4, <2>1, ColorInstrKeeps
  <2>3. \A s \in Defined(p) : Def(p, s) \in Nat /\ (s \in Defs(p, i) <=> Def(p, s) = i)
    <3> SUFFICES ASSUME NEW s \in Defined(p)
                 PROVE  Def(p, s) \in Nat /\ (s \in Defs(p, i) <=> Def(p, s) = i)
      OBVIOUS
    <3>1. s \in Slots(p) /\ s \in Defs(p, Def(p, s)) /\ Def(p, s) \in Pcs(p)
      BY SlotFacts
    <3>2. s \in Defs(p, i) => Def(p, s) = i
      BY <2>1, SlotFacts
    <3> QED
      BY <3>1, <3>2 DEF Pcs
  <2>4. Defs(p, i) \subseteq Defined(p)
    BY <2>1 DEF Defined
  <2>5. Stored(p, c[i]) = {s \in Defined(p) : Def(p, s) <= i}
    BY <1>4, <2>2, <2>3, <2>4
  <2> QED
    BY <2>2, <2>5
<1>5. B = {}
  <2> SUFFICES ASSUME B # {} PROVE FALSE
    OBVIOUS
  <2>1. B \subseteq Nat
    OBVIOUS
  <2>2. PICK k \in B : \A y \in B : k <= y
    BY <2>1, NatHasLeast
  <2>3. k # 0 /\ k \in 0 .. n
    BY <1>3, <2>2
  <2>4. k \in 1 .. n /\ k - 1 \in 0 .. n /\ ~ (k <= k - 1)
    BY <1>1, <2>3
  <2>5. k - 1 \notin B
    BY <2>2, <2>4
  <2>6. Good(k - 1)
    BY <2>4, <2>5
  <2>7. Good(k)
    BY <1>4, <2>4, <2>6
  <2> HIDE DEF Good
  <2> QED
    BY <2>2, <2>7
<1>6. Good(n)
  <2>1. n \in 0 .. n /\ n \notin B
    BY <1>1, <1>5
  <2> HIDE DEF Good, n
  <2> QED
    BY <2>1
<1>7. {s \in Defined(p) : Def(p, s) <= n} = Defined(p)
  BY <1>1, SlotFacts DEF Pcs
<1> QED
  BY <1>6, <1>7

-----------------------------------------------------------------------------
(* The slab's addresses *)

LEMMA StartSteps ==
  ASSUME NEW sizes \in Seq(Nat)
  PROVE  Starts(sizes) = [k \in 0 .. Len(sizes) |->
           IF k = 0 THEN 0 ELSE Starts(sizes)[k - 1] + sizes[k]]
<1> DEFINE Rec(g, n) == g = [k \in 0 .. n |-> IF k = 0 THEN 0 ELSE g[k - 1] + sizes[k]]
           B == {n \in Nat : ~ \E g : Rec(g, n)}
<1>1. B = {}
  <2> SUFFICES ASSUME B # {} PROVE FALSE
    OBVIOUS
  <2>1. PICK n \in B : \A y \in B : n <= y
    BY NatHasLeast
  <2>2. n \in Nat /\ ~ \E g : Rec(g, n)
    BY <2>1
  <2>3. CASE n = 0
    <3>1. Rec([k \in 0 .. 0 |-> 0], 0)
      OBVIOUS
    <3> QED
      BY <3>1, <2>2, <2>3
  <2>4. CASE n # 0
    <3>1. n - 1 \in Nat /\ ~ (n <= n - 1)
      BY <2>2, <2>4
    <3>2. n - 1 \notin B
      BY <3>1, <2>1
    <3>3. PICK g : Rec(g, n - 1)
      BY <3>1, <3>2
    <3> DEFINE h == [k \in 0 .. n |-> IF k < n THEN g[k] ELSE g[n - 1] + sizes[n]]
    <3>4. \A k \in 0 .. n : h[k] = IF k = 0 THEN 0 ELSE h[k - 1] + sizes[k]
      BY <3>1, <3>3, <2>2, <2>4
    <3>5. Rec(h, n)
      BY <3>4
    <3> QED
      BY <3>5, <2>2
  <2> QED
    BY <2>3, <2>4
<1>2. Len(sizes) \in Nat
  OBVIOUS
<1>3. PICK g : Rec(g, Len(sizes))
  BY <1>1, <1>2
<1>4. Rec(CHOOSE f : Rec(f, Len(sizes)), Len(sizes))
  BY <1>3, Zenon
<1>5. Starts(sizes) = CHOOSE f : Rec(f, Len(sizes))
  BY DEF Starts
<1> QED
  BY <1>4, <1>5

\* A storage ends before any later one begins.
LEMMA StartsInOrder ==
  ASSUME NEW sizes \in Seq(Nat)
  PROVE  LET start == Starts(sizes) IN
         /\ start \in [0 .. Len(sizes) -> Nat]
         /\ \A k \in 1 .. Len(sizes), m \in 0 .. Len(sizes) :
              k <= m => start[k - 1] + sizes[k] <= start[m]
<1> DEFINE start == Starts(sizes)
           n == Len(sizes)
<1>1. n \in Nat /\ \A k \in 1 .. n : sizes[k] \in Nat
  OBVIOUS
<1>2. /\ DOMAIN start = 0 .. n
      /\ start = [k \in 0 .. n |-> start[k]]
      /\ start[0] = 0
      /\ \A k \in 1 .. n : start[k] = start[k - 1] + sizes[k]
  <2>1. start = [k \in 0 .. n |-> IF k = 0 THEN 0 ELSE start[k - 1] + sizes[k]]
    BY StartSteps
  <2> HIDE DEF start, n
  <2>2. \A k \in 1 .. n : k \in 0 .. n /\ k # 0
    BY <1>1
  <2>3. 0 \in 0 .. n
    BY <1>1
  <2> QED
    BY <2>1, <2>2, <2>3
<1> HIDE DEF start, n
<1>3. \A m \in 0 .. n : start[m] \in Nat
  <2> DEFINE B == {m \in 0 .. n : start[m] \notin Nat}
  <2> SUFFICES ASSUME B # {} PROVE FALSE
    OBVIOUS
  <2>1. PICK m \in B : \A y \in B : m <= y
    <3>1. B \subseteq Nat
      OBVIOUS
    <3> QED
      BY <3>1, NatHasLeast
  <2>2. m \in 0 .. n /\ start[m] \notin Nat
    OBVIOUS
  <2>3. m # 0
    BY <1>1, <1>2, <2>2
  <2>4. m \in 1 .. n /\ m - 1 \in 0 .. n /\ ~ (m <= m - 1)
    BY <1>1, <2>2, <2>3
  <2>5. start[m - 1] \in Nat
    BY <2>1, <2>4
  <2>6. start[m] = start[m - 1] + sizes[m]
    BY <1>2, <2>4
  <2>7. sizes[m] \in Nat
    BY <1>1, <2>4
  <2> QED
    BY <2>2, <2>5, <2>6, <2>7
<1>4. ASSUME NEW k \in 1 .. n PROVE \A m \in 0 .. n : k <= m => start[k - 1] + sizes[k] <= start[m]
  <2> DEFINE B == {m \in 0 .. n : k <= m /\ ~ (start[k - 1] + sizes[k] <= start[m])}
  <2> SUFFICES ASSUME B # {} PROVE FALSE
    OBVIOUS
  <2>1. PICK m \in B : \A y \in B : m <= y
    <3>1. B \subseteq Nat
      OBVIOUS
    <3> QED
      BY <3>1, NatHasLeast
  <2>2. m \in 0 .. n /\ k <= m /\ ~ (start[k - 1] + sizes[k] <= start[m])
    OBVIOUS
  <2>3. k \in 0 .. n /\ k - 1 \in 0 .. n
    BY <1>1
  <2>8. start[k] = start[k - 1] + sizes[k]
    BY <1>2
  <2>4. m # k
    BY <1>3, <2>2, <2>3, <2>8
  <2>5. m - 1 \in 0 .. n /\ k <= m - 1 /\ ~ (m <= m - 1) /\ m \in 1 .. n
    BY <1>1, <2>2, <2>4
  <2>6. start[k - 1] + sizes[k] <= start[m - 1]
    BY <2>1, <2>5
  <2>7. start[m] = start[m - 1] + sizes[m] /\ sizes[m] \in Nat
    BY <1>1, <1>2, <2>5
  <2>9. sizes[k] \in Nat /\ start[k - 1] \in Nat /\ start[m - 1] \in Nat
    BY <1>1, <1>3, <2>2, <2>5
  <2>10. ~ (start[k - 1] + sizes[k] <= start[m])
    BY <2>2
  <2> HIDE DEF B
  <2> QED
    BY <2>6, <2>7, <2>9, <2>10
<1>5. start \in [0 .. n -> Nat]
  BY <1>2, <1>3
<1> QED
  BY <1>4, <1>5 DEF start, n

\* Slots of one storage begin at one address, and no others overlap.
Layout(p, store, addr, len) ==
  /\ addr \in [Slots(p) -> Nat] /\ len \in Nat
  /\ \A s \in Defined(p) : addr[s] + Elems(p, s) <= len
  /\ \A s, t \in Defined(p) :
       /\ store[s] = store[t] => addr[s] = addr[t] /\ Elems(p, s) = Elems(p, t)
       /\ store[s] # store[t] => \/ addr[s] + Elems(p, s) <= addr[t]
                                 \/ addr[t] + Elems(p, t) <= addr[s]

\* The slab color_slab lays out, for any program: storages do not overlap, and
\* slots that share one live one after the other.
THEOREM SlabLayout ==
  ASSUME NEW p, WellFormed(p)
  PROVE  LET sl == ColorSlab(p) IN
         /\ sl.store \in [Slots(p) -> Nat] /\ sl.sizes \in Seq(Nat)
         /\ \A s \in Defined(p) : sl.store[s] \in 1 .. Len(sl.sizes)
         /\ \A s, t \in Defined(p) :
              s # t /\ sl.store[s] = sl.store[t] => Recycles(p, s, t) \/ Recycles(p, t, s)
         /\ Layout(p, sl.store, sl.off, sl.total)
<1> DEFINE c     == Coloured(p)[Len(p.code)]
           start == Starts(c.sizes)
           sl    == ColorSlab(p)
<1>1. ColourInv(p, c) /\ Stored(p, c) = Defined(p)
  BY ColouringIsSound
<1>2. /\ sl.store = c.store /\ sl.sizes = c.sizes /\ sl.total = start[Len(c.sizes)]
      /\ sl.off = [s \in Slots(p) |-> IF c.store[s] = 0 THEN 0 ELSE start[c.store[s] - 1]]
  BY DEF ColorSlab
<1> HIDE DEF c, sl
<1>3. c.store \in [Slots(p) -> Nat] /\ c.sizes \in Seq(Nat)
  BY <1>1 DEF ColourInv
<1>4. /\ start \in [0 .. Len(c.sizes) -> Nat]
      /\ \A k \in 1 .. Len(c.sizes), m \in 0 .. Len(c.sizes) :
           k <= m => start[k - 1] + c.sizes[k] <= start[m]
  BY <1>3, StartsInOrder
<1>5. \A s \in Defined(p) : /\ s \in Slots(p) /\ c.store[s] \in 1 .. Len(c.sizes)
                            /\ c.sizes[c.store[s]] = Elems(p, s)
  <2> SUFFICES ASSUME NEW s \in Stored(p, c)
               PROVE  /\ s \in Slots(p) /\ c.store[s] \in 1 .. Len(c.sizes)
                      /\ c.sizes[c.store[s]] = Elems(p, s)
    BY <1>1
  <2>1. s \in Slots(p) /\ c.store[s] # 0
    BY DEF Stored
  <2>2. c.store[s] \in Nat /\ c.store[s] <= Len(c.sizes) /\ Len(c.sizes) \in Nat
    BY <1>1, <1>3, <2>1 DEF ColourInv
  <2> QED
    BY <1>1, <2>1, <2>2 DEF ColourInv
<1>6. \A s, t \in Defined(p) :
        s # t /\ c.store[s] = c.store[t] => Recycles(p, s, t) \/ Recycles(p, t, s)
  BY <1>1 DEF ColourInv
<1> HIDE DEF start
<1>7. Len(c.sizes) \in Nat
  BY <1>3
<1>8. Layout(p, c.store, sl.off, sl.total)
  <2>1. sl.total \in Nat /\ sl.off \in [Slots(p) -> Nat]
    <3>1. start[Len(c.sizes)] \in Nat
      BY <1>4, <1>7
    <3>2. ASSUME NEW s \in Slots(p), c.store[s] # 0 PROVE start[c.store[s] - 1] \in Nat
      <4>1. c.store[s] \in Nat /\ c.store[s] <= Len(c.sizes)
        BY <1>1, <1>3 DEF ColourInv
      <4>2. c.store[s] - 1 \in 0 .. Len(c.sizes)
        BY <1>7, <3>2, <4>1
      <4> QED
        BY <1>4, <4>2
    <3> QED
      BY <1>2, <3>1, <3>2
  <2>2. ASSUME NEW s \in Defined(p)
        PROVE  sl.off[s] = start[c.store[s] - 1] /\ sl.off[s] + Elems(p, s) <= sl.total
    <3>1. s \in Slots(p) /\ c.store[s] \in 1 .. Len(c.sizes) /\ c.sizes[c.store[s]] = Elems(p, s)
      BY <1>5
    <3>2. c.store[s] # 0 /\ c.store[s] <= Len(c.sizes) /\ Len(c.sizes) \in 0 .. Len(c.sizes)
      BY <1>7, <3>1
    <3> QED
      BY <1>2, <1>4, <3>1, <3>2
  <2>3. ASSUME NEW s \in Defined(p), NEW t \in Defined(p), c.store[s] < c.store[t]
        PROVE  sl.off[s] + Elems(p, s) <= sl.off[t]
    <3>1. /\ c.store[s] \in 1 .. Len(c.sizes) /\ c.sizes[c.store[s]] = Elems(p, s)
          /\ c.store[t] \in 1 .. Len(c.sizes)
      BY <1>5
    <3>2. c.store[t] - 1 \in 0 .. Len(c.sizes) /\ c.store[s] <= c.store[t] - 1
      BY <1>7, <2>3, <3>1
    <3> QED
      BY <1>4, <2>2, <3>1, <3>2
  <2>4. \A s, t \in Defined(p) :
          /\ c.store[s] = c.store[t] => sl.off[s] = sl.off[t] /\ Elems(p, s) = Elems(p, t)
          /\ c.store[s] # c.store[t] => \/ sl.off[s] + Elems(p, s) <= sl.off[t]
                                        \/ sl.off[t] + Elems(p, t) <= sl.off[s]
    <3> SUFFICES ASSUME NEW s \in Defined(p), NEW t \in Defined(p)
                 PROVE  /\ c.store[s] = c.store[t] =>
                             sl.off[s] = sl.off[t] /\ Elems(p, s) = Elems(p, t)
                        /\ c.store[s] # c.store[t] => \/ sl.off[s] + Elems(p, s) <= sl.off[t]
                                                      \/ sl.off[t] + Elems(p, t) <= sl.off[s]
      OBVIOUS
    <3>1. c.store[s] \in 1 .. Len(c.sizes) /\ c.store[t] \in 1 .. Len(c.sizes)
      BY <1>5
    <3>2. c.store[s] = c.store[t] \/ c.store[s] < c.store[t] \/ c.store[t] < c.store[s]
      BY <1>7, <3>1
    <3>3. CASE c.store[s] = c.store[t]
      BY <3>3, <1>5, <2>2
    <3>4. CASE c.store[s] < c.store[t]
      BY <3>1, <3>4, <2>3, <1>7
    <3>5. CASE c.store[t] < c.store[s]
      BY <3>1, <3>5, <2>3, <1>7
    <3> QED
      BY <3>2, <3>3, <3>4, <3>5
  <2> QED
    BY <2>1, <2>2, <2>4 DEF Layout
<1> QED
  BY <1>2, <1>3, <1>5, <1>6, <1>8 DEF sl

-----------------------------------------------------------------------------
(* CallPlan::build: the storages and their tables *)

LEMMA LatestFacts ==
  ASSUME NEW H \in Nat, NEW T, T \subseteq 0 .. H
  PROVE  Latest(T) \in 0 .. H /\ \A y \in T : y <= Latest(T)
<1>1. T \union {0} \subseteq 0 .. H /\ T \union {0} # {}
  OBVIOUS
<1>2. Max(T \union {0}) \in T \union {0} /\ \A y \in T \union {0} : Max(T \union {0}) >= y
  BY <1>1, MaxIsGreatest
<1> QED
  BY <1>1, <1>2 DEF Latest

LEMMA FunctionIsSeq ==
  ASSUME NEW n \in Nat, NEW S, NEW f \in [1 .. n -> S]
  PROVE  f \in Seq(S) /\ Len(f) = n
<1>1. f \in Seq(S)
  BY SeqDef
<1>2. DOMAIN f = 1 .. n /\ DOMAIN f = 1 .. Len(f) /\ Len(f) \in Nat
  BY <1>1, LenProperties
<1> QED
  BY <1>1, <1>2

\* A task reads slots defined before it, or its own pre-reduction.
LEMMA ReadsEarlier ==
  ASSUME NEW p, WellFormed(p), NEW i \in Pcs(p), p.code[i].op # "sweep", NEW s \in Reads(p, i)
  PROVE  /\ s \in Defined(p) /\ s \in Slots(p) /\ Def(p, s) <= i
         /\ s # Second(p, i) => Def(p, s) < i
         /\ \A j \in Pcs(p) : i <= j => s # j
<1>1. s \in Defined(p) /\ (Def(p, s) < i \/ s = Second(p, i))
  BY DEF WellFormed, Reads
<1>2. s \in Slots(p) /\ Len(p.code) \in Nat /\ i \in 1 .. Len(p.code)
  BY <1>1, SlotFacts, CodeFacts DEF Pcs
<1>3. \A j \in Pcs(p) : Def(p, j) = j /\ j \in Nat /\ j <= Len(p.code)
  BY <1>2 DEF Def, Pcs
<1>4. Def(p, Second(p, i)) = i /\ Second(p, i) > Len(p.code)
  BY <1>2 DEF Def, Second
<1>5. Def(p, s) <= i /\ (s # Second(p, i) => Def(p, s) < i)
  BY <1>1, <1>2, <1>4, SlotFacts DEF Pcs
<1>6. ASSUME NEW j \in Pcs(p), i <= j PROVE s # j
  <2> SUFFICES ASSUME s = j PROVE FALSE
    OBVIOUS
  <2>1. Def(p, s) = j /\ j <= Len(p.code) /\ j \in Nat
    BY <1>3
  <2> QED
    BY <2>1, <1>2, <1>4, <1>5, <1>6
<1> QED
  BY <1>1, <1>2, <1>5, <1>6

LEMMA HomeFacts ==
  ASSUME NEW p, WellFormed(p)
  PROVE  /\ \A s \in Slots(p) : HomeOf(p, s) \in Int
         /\ \A s : Homed(p, s) =>
              /\ s \in Continuous(p) /\ p.code[s].op = "fused"
              /\ \E i \in Continuous(p) : /\ Readers(p, s) = {i} /\ p.code[i].op = "dy"
                                          /\ HomeOf(p, s) = p.code[i].at
<1>1. Continuous(p) \subseteq Pcs(p)
  BY CodeFacts DEF Continuous, Pcs
<1>2. ASSUME NEW s, HomeOf(p, s) # -1
      PROVE  /\ s \in Continuous(p) /\ p.code[s].op = "fused"
             /\ \E i \in Continuous(p) : /\ Readers(p, s) = {i} /\ p.code[i].op = "dy"
                                         /\ HomeOf(p, s) = p.code[i].at
  <2>1. /\ s \in Continuous(p) /\ p.code[s].op = "fused"
        /\ \E i \in Continuous(p) : Readers(p, s) = {i} /\ p.code[i].op = "dy"
    BY <1>2 DEF HomeOf
  <2>2. PICK i \in Continuous(p) : Readers(p, s) = {i} /\ p.code[i].op = "dy"
    BY <2>1
  <2>3. HomeOf(p, s) = p.code[CHOOSE k \in Readers(p, s) : TRUE].at
    BY <2>1 DEF HomeOf
  <2>4. (CHOOSE k \in Readers(p, s) : TRUE) = i
    BY <2>2
  <2> QED
    BY <2>1, <2>2, <2>3, <2>4
<1>3. ASSUME NEW s PROVE HomeOf(p, s) \in Int
  <2>1. CASE HomeOf(p, s) = -1
    BY <2>1
  <2>2. CASE HomeOf(p, s) # -1
    BY <1>1, <1>2, <2>2, CodeFacts
  <2> QED
    BY <2>1, <2>2
<1>4. ASSUME NEW s, Homed(p, s) PROVE HomeOf(p, s) # -1
  BY <1>4 DEF Homed
<1> QED
  BY <1>2, <1>3, <1>4

LEMMA RangeFacts ==
  ASSUME NEW p, WellFormed(p), NEW i \in Pcs(p), NEW r \in DyRange(p, i)
  PROVE  r.lo \in Int /\ r.hi \in Int
<1> DEFINE block == (p.code[i].at \div DyBlock) * DyBlock
<1>1. block \in Int /\ DyBlock \in Int
  <2>1. p.code[i].at \in Nat /\ DyBlock \in Nat \ {0}
    BY CodeFacts, PlanAssumption
  <2>2. p.code[i].at \div DyBlock \in Int
    BY <2>1
  <2> QED
    BY <2>1, <2>2
<1>2. HomeOf(p, i) \in Int /\ p.code[i].elems \in Int
  <2>1. i \in Slots(p)
    BY CodeFacts DEF Slots, Pcs
  <2> QED
    BY <2>1, HomeFacts, CodeFacts
<1> HIDE DEF block
<1> QED
  BY <1>1, <1>2 DEF DyRange, block

WalkFields == {"steps", "seg", "write", "read", "dys", "store", "off", "len", "moved"}

\* The tables know every storage and no phase later than instruction n's; the
\* layout is sound, and moves only part slots that shared a storage.
TableInv(p, sl, n, b) ==
  /\ DOMAIN b = WalkFields
  /\ b.store \in [Slots(p) -> Nat] /\ b.write \in Seq(Nat) /\ b.read \in Seq(Nat)
  /\ Len(b.read) = Len(b.write)
  /\ \A st \in 1 .. Len(b.write) : b.write[st] <= n /\ b.read[st] <= n
  /\ \A d \in b.dys : d.phase \in 0 .. n
  /\ \A s \in Defined(p) : b.store[s] \in 1 .. Len(b.write)
  /\ \A s, t \in Defined(p) : b.store[s] = b.store[t] => sl.store[s] = sl.store[t]
  /\ \A s \in Defined(p) : Def(p, s) \notin Continuous(p) => b.off[s] = sl.off[s]
  /\ Layout(p, b.store, b.off, b.len)

LEMMA TableHolds ==
  ASSUME NEW p, NEW sl, NEW n, NEW b, DOMAIN b = WalkFields,
         b.store \in [Slots(p) -> Nat], b.write \in Seq(Nat), b.read \in Seq(Nat),
         Len(b.read) = Len(b.write),
         \A st \in 1 .. Len(b.write) : b.write[st] <= n /\ b.read[st] <= n,
         \A d \in b.dys : d.phase \in 0 .. n,
         \A s \in Defined(p) : b.store[s] \in 1 .. Len(b.write),
         \A s, t \in Defined(p) : b.store[s] = b.store[t] => sl.store[s] = sl.store[t],
         \A s \in Defined(p) : Def(p, s) \notin Continuous(p) => b.off[s] = sl.off[s],
         Layout(p, b.store, b.off, b.len)
  PROVE  TableInv(p, sl, n, b)
BY Zenon DEF TableInv

LEMMA TableTypes ==
  ASSUME NEW p, NEW sl, NEW n \in Nat, NEW b, TableInv(p, sl, n, b)
  PROVE  /\ Len(b.write) \in Nat
         /\ \A st \in 1 .. Len(b.write) : b.write[st] \in 0 .. n /\ b.read[st] \in 0 .. n
<1>1. /\ b.write \in Seq(Nat) /\ b.read \in Seq(Nat) /\ Len(b.read) = Len(b.write)
      /\ \A st \in 1 .. Len(b.write) : b.write[st] <= n /\ b.read[st] <= n
  BY DEF TableInv
<1> QED
  BY <1>1

LEMMA RoundUpFacts ==
  ASSUME NEW n \in Nat
  PROVE  RoundUp(n) \in Nat /\ n <= RoundUp(n)
<1> USE AlignAssumption
<1> DEFINE q == (n + Align - 1) \div Align
<1>1. n + Align - 1 \in Nat
  OBVIOUS
<1>2. q \in Nat /\ n + Align - 1 < Align * q + Align
  BY <1>1, Quotient
<1> HIDE DEF q
<1>3. q * Align = Align * q /\ Align * q \in Nat
  BY <1>2
<1> QED
  BY <1>2, <1>3 DEF RoundUp, q

\* What a move of slot i leaves as it was.
Unmoved(p, b, i, m) ==
  /\ \A s \in Slots(p) \ {i} : m.store[s] = b.store[s]
  /\ Len(b.write) <= Len(m.write)
  /\ \A st \in 1 .. Len(b.write) : m.write[st] = b.write[st] /\ m.read[st] = b.read[st]
  /\ m.seg = b.seg /\ m.steps = b.steps /\ m.dys = b.dys

\* A moved slot gets a storage, and addresses, that no other slot has.
LEMMA MoveKeeps ==
  ASSUME NEW p, WellFormed(p), NEW sl, NEW n \in Nat, NEW b, TableInv(p, sl, n, b),
         NEW i \in Defined(p), Def(p, i) \in Continuous(p), NEW m, m = Move(p, b, i)
  PROVE  TableInv(p, sl, n, m) /\ Unmoved(p, b, i, m)
<1> DEFINE fresh == Len(b.write) + 1
<1>1. /\ DOMAIN b = WalkFields /\ b.store \in [Slots(p) -> Nat]
      /\ b.write \in Seq(Nat) /\ b.read \in Seq(Nat) /\ Len(b.read) = Len(b.write)
      /\ b.off \in [Slots(p) -> Nat] /\ b.len \in Nat
  BY DEF TableInv, Layout
<1>2. /\ DOMAIN m = WalkFields
      /\ m.store = [b.store EXCEPT ![i] = fresh]
      /\ m.write = Append(b.write, 0) /\ m.read = Append(b.read, 0)
      /\ m.off = [b.off EXCEPT ![i] = RoundUp(b.len)]
      /\ m.len = RoundUp(b.len) + Elems(p, i)
      /\ m.seg = b.seg /\ m.steps = b.steps /\ m.dys = b.dys
  BY <1>1 DEF Move, WalkFields
<1>3. i \in Slots(p) /\ Elems(p, i) \in Nat /\ RoundUp(b.len) \in Nat /\ b.len <= RoundUp(b.len)
  BY <1>1, SlotFacts, RoundUpFacts
<1>4. /\ m.write \in Seq(Nat) /\ m.read \in Seq(Nat)
      /\ Len(m.write) = fresh /\ Len(m.read) = fresh /\ fresh \in Nat
      /\ \A st \in 1 .. Len(b.write) : m.write[st] = b.write[st] /\ m.read[st] = b.read[st]
      /\ m.write[fresh] = 0 /\ m.read[fresh] = 0
  BY <1>1, <1>2
<1>5. /\ m.store \in [Slots(p) -> Nat] /\ m.store[i] = fresh
      /\ \A s \in Slots(p) \ {i} : m.store[s] = b.store[s]
  BY <1>1, <1>2, <1>3
<1>6. /\ m.off \in [Slots(p) -> Nat] /\ m.off[i] = RoundUp(b.len)
      /\ \A s \in Slots(p) \ {i} : m.off[s] = b.off[s]
      /\ m.len \in Nat
  BY <1>1, <1>2, <1>3
<1>7. \A s \in Defined(p) : s \in Slots(p) /\ b.store[s] \in 1 .. Len(b.write) /\ Elems(p, s) \in Nat
  BY SlotFacts DEF TableInv
<1>8. Layout(p, m.store, m.off, m.len)
  <2>1. \A s \in Defined(p) \ {i} : b.off[s] + Elems(p, s) <= b.len /\ b.off[s] \in Nat
    BY <1>1, <1>7 DEF TableInv, Layout
  <2>2. \A s \in Defined(p) : m.off[s] + Elems(p, s) <= m.len
    <3>1. ASSUME NEW s \in Defined(p), s # i PROVE m.off[s] + Elems(p, s) <= m.len
      <4>1. m.off[s] = b.off[s]
        BY <1>6, <1>7, <3>1
      <4>2. b.off[s] + Elems(p, s) <= b.len /\ b.off[s] \in Nat /\ Elems(p, s) \in Nat
        BY <1>7, <2>1, <3>1
      <4>3. b.len <= m.len /\ b.len \in Nat /\ m.len \in Nat
        BY <1>1, <1>2, <1>3, <1>6
      <4> QED
        BY <4>1, <4>2, <4>3
    <3> QED
      BY <1>2, <1>3, <1>6, <3>1
  <2>3. ASSUME NEW s \in Defined(p), NEW t \in Defined(p)
        PROVE  /\ m.store[s] = m.store[t] => m.off[s] = m.off[t] /\ Elems(p, s) = Elems(p, t)
               /\ m.store[s] # m.store[t] => \/ m.off[s] + Elems(p, s) <= m.off[t]
                                             \/ m.off[t] + Elems(p, t) <= m.off[s]
    <3>1. CASE s = i /\ t = i
      BY <3>1
    <3>2. CASE s = i /\ t # i
      <4>1. m.off[t] + Elems(p, t) <= m.off[s]
        BY <1>1, <1>3, <1>6, <1>7, <2>1, <3>2
      <4>2. m.store[s] # m.store[t]
        BY <1>1, <1>5, <1>7, <3>2
      <4> QED
        BY <4>1, <4>2
    <3>3. CASE s # i /\ t = i
      <4>1. m.off[s] + Elems(p, s) <= m.off[t]
        BY <1>1, <1>3, <1>6, <1>7, <2>1, <3>3
      <4>2. m.store[s] # m.store[t]
        BY <1>1, <1>5, <1>7, <3>3
      <4> QED
        BY <4>1, <4>2
    <3>4. CASE s # i /\ t # i
      <4>1. /\ m.store[s] = b.store[s] /\ m.store[t] = b.store[t]
            /\ m.off[s] = b.off[s] /\ m.off[t] = b.off[t]
        BY <1>5, <1>6, <1>7, <3>4
      <4>2. Layout(p, b.store, b.off, b.len)
        BY DEF TableInv
      <4> QED
        BY <4>1, <4>2 DEF Layout
    <3> QED
      BY <3>1, <3>2, <3>3, <3>4
  <2> QED
    BY <1>6, <2>2, <2>3 DEF Layout
<1>9. \A s, t \in Defined(p) : m.store[s] = m.store[t] => sl.store[s] = sl.store[t]
  <2> SUFFICES ASSUME NEW s \in Defined(p), NEW t \in Defined(p), m.store[s] = m.store[t]
               PROVE  sl.store[s] = sl.store[t]
    OBVIOUS
  <2>1. ASSUME NEW u \in Defined(p), u # i PROVE m.store[u] = b.store[u] /\ m.store[u] # fresh
    <3>1. m.store[u] = b.store[u] /\ b.store[u] \in 1 .. Len(b.write)
      BY <1>5, <1>7, <2>1
    <3>2. Len(b.write) \in Nat
      BY <1>1
    <3> QED
      BY <3>1, <3>2
  <2>2. s = t \/ (s # i /\ t # i)
    BY <1>5, <2>1
  <2>3. CASE s # i /\ t # i
    BY <2>1, <2>3 DEF TableInv
  <2> QED
    BY <2>2, <2>3
<1>10. ASSUME NEW st \in 1 .. Len(m.write) PROVE m.write[st] <= n /\ m.read[st] <= n
  <2>1. st \in 1 .. Len(b.write) \/ st = fresh
    BY <1>1, <1>4
  <2>2. CASE st \in 1 .. Len(b.write)
    <3>1. b.write[st] <= n /\ b.read[st] <= n
      BY <2>2 DEF TableInv
    <3> QED
      BY <1>4, <2>2, <3>1
  <2>3. CASE st = fresh
    BY <1>4, <2>3
  <2> QED
    BY <2>1, <2>2, <2>3
<1>11. ASSUME NEW s \in Defined(p) PROVE m.store[s] \in 1 .. Len(m.write)
  <2>1. CASE s = i
    BY <2>1, <1>4, <1>5
  <2>2. CASE s # i
    <3>1. m.store[s] = b.store[s] /\ b.store[s] \in 1 .. Len(b.write)
      BY <2>2, <1>5, <1>7
    <3> QED
      BY <3>1, <1>1, <1>4
  <2> QED
    BY <2>1, <2>2
<1>12. \A d \in m.dys : d.phase \in 0 .. n
  BY <1>2 DEF TableInv
<1>14. ASSUME NEW s \in Defined(p), Def(p, s) \notin Continuous(p) PROVE m.off[s] = sl.off[s]
  <2>1. s # i /\ s \in Slots(p)
    BY <1>7, <1>14
  <2>2. m.off[s] = b.off[s]
    BY <1>6, <2>1
  <2> QED
    BY <1>14, <2>2 DEF TableInv
<1>15. Len(m.read) = Len(m.write)
  BY <1>4
<1>13. TableInv(p, sl, n, m)
  BY <1>2, <1>4, <1>5, <1>8, <1>9, <1>10, <1>11, <1>12, <1>14, <1>15, TableHolds, ZenonT(40)
<1>16. Len(b.write) <= Len(m.write)
  BY <1>1, <1>4
<1> QED
  BY <1>2, <1>4, <1>5, <1>13, <1>16 DEF Unmoved

-----------------------------------------------------------------------------
(* place: a task's phase comes after those of the earlier tasks it conflicts *)
(* with                                                                      *)

\* Neither task writes a storage, or a stretch of dy, that the other uses.
Apart(p, store, i, j) ==
  /\ \A s \in PlannedWrites(p, i), t \in PlannedWrites(p, j) \union Reads(p, j) :
       store[s] # store[t]
  /\ \A s \in PlannedWrites(p, j), t \in Reads(p, i) : store[s] # store[t]
  /\ \A r \in DyRange(p, i), q \in DyRange(p, j) : r.hi <= q.lo \/ q.hi <= r.lo

LEMMA ApartIsMutual ==
  ASSUME NEW p, NEW store, NEW i, NEW j, Apart(p, store, i, j)
  PROVE  Apart(p, store, j, i)
BY DEF Apart

\* What the plan may place as a task.
Placeable(p, w, i) ==
  /\ i \in Continuous(p) /\ p.code[i].op # "sweep"
  /\ SplitWays(p.code[i], w) > 1 => Shares(p.code[i])
  /\ ~Idle(p, i) /\ ~InBody(p, i)

\* The tables tell a later task to wait for task x.
Noted(p, b, x) ==
  /\ \A s \in PlannedWrites(p, x.pc) : b.write[b.store[s]] >= x.phase + 1
  /\ \A s \in Reads(p, x.pc) : \/ b.write[b.store[s]] >= x.phase + 1
                               \/ b.read[b.store[s]] >= x.phase + 1
  /\ \A r \in DyRange(p, x.pc) :
       \E d \in b.dys : d.lo = r.lo /\ d.hi = r.hi /\ d.phase >= x.phase + 1

SegmentInv(p, w, n, b) ==
  /\ \A x \in b.seg : /\ x.pc \in 1 .. n /\ x.phase \in 0 .. n - 1
                      /\ Placeable(p, w, x.pc) /\ Noted(p, b, x)
  /\ \A x, y \in b.seg : x.pc = y.pc => x.phase = y.phase
  /\ \A x, y \in b.seg :
       x.pc < y.pc => x.phase < y.phase \/ Apart(p, b.store, x.pc, y.pc)

\* Task i in this phase waits for those that used what it uses.
Waits(p, m, i, phase) ==
  /\ \A s \in PlannedWrites(p, i) :
       m.write[m.store[s]] <= phase /\ m.read[m.store[s]] <= phase
  /\ \A s \in Reads(p, i) : m.write[m.store[s]] <= phase
  /\ \A d \in m.dys, r \in DyRange(p, i) :
       r.lo < d.hi /\ d.lo < r.hi => d.phase <= phase

Entered(m, new, i, phase) ==
  /\ new.store = m.store /\ new.off = m.off /\ new.len = m.len /\ new.steps = m.steps
  /\ new.seg = m.seg \union {[pc |-> i, phase |-> phase]}

\* A task that waits for the phases in the tables is entered after every task it
\* is not apart from.
LEMMA EnterKeeps ==
  ASSUME NEW p, WellFormed(p), NEW w, NEW sl, NEW i \in Pcs(p), NEW m,
         TableInv(p, sl, i - 1, m), SegmentInv(p, w, i - 1, m), Placeable(p, w, i),
         NEW phase \in 0 .. i - 1, Waits(p, m, i, phase),
         NEW reads, reads = {m.store[s] : s \in Reads(p, i)},
         NEW writes, writes = {m.store[s] : s \in PlannedWrites(p, i)},
         NEW new, new = Enter(m, i, reads, writes, DyRange(p, i), phase)
  PROVE  TableInv(p, sl, i, new) /\ SegmentInv(p, w, i, new) /\ Entered(m, new, i, phase)
<1> DEFINE k      == Len(m.write)
           me     == [pc |-> i, phase |-> phase]
<1>1. /\ DOMAIN m = WalkFields /\ m.write \in Seq(Nat) /\ m.read \in Seq(Nat)
      /\ Len(m.read) = k /\ k \in Nat
      /\ DOMAIN m.write = 1 .. k /\ DOMAIN m.read = 1 .. k
      /\ \A st \in 1 .. k : /\ m.write[st] \in Nat /\ m.read[st] \in Nat
                            /\ m.write[st] <= i - 1 /\ m.read[st] <= i - 1
  BY DEF TableInv
<1>2. i \in Nat /\ i \in 1 .. Len(p.code) /\ Len(p.code) \in Nat /\ phase \in Nat /\ phase + 1 <= i
  BY CodeFacts DEF Pcs
<1>3. /\ DOMAIN new = WalkFields
      /\ new.read = [st \in 1 .. k |-> CASE st \in writes -> 0
                                         [] st \in reads \ writes -> Latest({m.read[st], phase + 1})
                                         [] OTHER -> m.read[st]]
      /\ new.write = [st \in 1 .. k |-> IF st \in writes THEN phase + 1 ELSE m.write[st]]
      /\ new.dys = m.dys \union
                     {[lo |-> r.lo, hi |-> r.hi, phase |-> phase + 1] : r \in DyRange(p, i)}
      /\ new.seg = m.seg \union {me}
      /\ new.store = m.store /\ new.off = m.off /\ new.len = m.len /\ new.steps = m.steps
  BY <1>1 DEF Enter, WalkFields
<1>13. \A st \in writes : m.write[st] <= phase /\ m.read[st] <= phase
  BY DEF Waits
<1>14. /\ \A s \in PlannedWrites(p, i) : m.store[s] \in writes
       /\ \A s \in Reads(p, i) : m.store[s] \in reads
  OBVIOUS
<1> HIDE DEF k
<1>4. ASSUME NEW st \in 1 .. k
      PROVE  /\ Latest({m.read[st], phase + 1}) \in 0 .. i
             /\ m.read[st] <= Latest({m.read[st], phase + 1})
             /\ phase + 1 <= Latest({m.read[st], phase + 1})
  <2>1. {m.read[st], phase + 1} \subseteq 0 .. i
    BY <1>1, <1>2
  <2> QED
    BY <1>2, <2>1, LatestFacts
<1>5. ASSUME NEW st \in 1 .. k
      PROVE  /\ new.write[st] \in 0 .. i /\ new.read[st] \in 0 .. i
             /\ st \in writes => new.write[st] = phase + 1
             /\ st \notin writes => new.write[st] = m.write[st]
             /\ st \notin writes => m.read[st] <= new.read[st]
             /\ st \in reads \ writes => phase + 1 <= new.read[st]
  <2>1. new.write[st] = IF st \in writes THEN phase + 1 ELSE m.write[st]
    BY <1>3
  <2>2. new.read[st] = CASE st \in writes -> 0
                         [] st \in reads \ writes -> Latest({m.read[st], phase + 1})
                         [] OTHER -> m.read[st]
    BY <1>3
  <2>3. m.write[st] \in 0 .. i /\ m.read[st] \in 0 .. i /\ phase + 1 \in 0 .. i
    BY <1>1, <1>2
  <2>4. CASE st \in writes
    <3>1. new.read[st] = 0
      BY <2>2, <2>4
    <3>2. new.write[st] = phase + 1
      BY <2>1, <2>4
    <3> QED
      BY <1>2, <2>3, <2>4, <3>1, <3>2
  <2>5. CASE st \in reads \ writes
    BY <2>1, <2>2, <2>3, <2>5, <1>4
  <2>6. CASE st \notin reads \union writes
    BY <2>1, <2>2, <2>3, <2>6
  <2> QED
    BY <2>4, <2>5, <2>6
<1>6. TableInv(p, sl, i, new)
  <2>1. new.write \in [1 .. k -> Nat] /\ new.read \in [1 .. k -> Nat]
    <3>1. DOMAIN new.write = 1 .. k /\ DOMAIN new.read = 1 .. k
      BY <1>3
    <3>2. \A st \in 1 .. k : new.write[st] \in Nat /\ new.read[st] \in Nat
      BY <1>5
    <3>3. new.write = [st \in 1 .. k |-> new.write[st]]
      BY <1>3, <3>1
    <3>4. new.read = [st \in 1 .. k |-> new.read[st]]
      BY <1>3, <3>1
    <3>5. new.write \in [1 .. k -> Nat]
      BY <3>2, <3>3
    <3>6. new.read \in [1 .. k -> Nat]
      BY <3>2, <3>4
    <3> QED
      BY <3>5, <3>6, Zenon
  <2>2. new.write \in Seq(Nat) /\ new.read \in Seq(Nat) /\ Len(new.write) = k /\ Len(new.read) = k
    <3>1. k \in Nat
      BY <1>1
    <3>2. new.write \in Seq(Nat) /\ Len(new.write) = k
      BY <2>1, <3>1, FunctionIsSeq
    <3>3. new.read \in Seq(Nat) /\ Len(new.read) = k
      BY <2>1, <3>1, FunctionIsSeq
    <3> QED
      BY <3>2, <3>3
  <2>3. \A d \in new.dys : d.phase \in 0 .. i
    <3>1. \A d \in m.dys : d.phase \in 0 .. i - 1
      BY DEF TableInv
    <3> QED
      BY <3>1, <1>2, <1>3
  <2>4. \A st \in 1 .. k : new.write[st] <= i /\ new.read[st] <= i
    BY <1>2, <1>5
  <2>5. /\ m.store \in [Slots(p) -> Nat]
        /\ \A s \in Defined(p) : m.store[s] \in 1 .. k
        /\ \A s, t \in Defined(p) : m.store[s] = m.store[t] => sl.store[s] = sl.store[t]
        /\ Layout(p, m.store, m.off, m.len)
    BY DEF TableInv, k
  <2>11. \A s \in Defined(p) : Def(p, s) \notin Continuous(p) => m.off[s] = sl.off[s]
    BY DEF TableInv
  <2>12. \A s \in Defined(p) : Def(p, s) \notin Continuous(p) => new.off[s] = sl.off[s]
    BY <2>11, <1>3
  <2>6. new.store = m.store /\ new.off = m.off /\ new.len = m.len /\ DOMAIN new = WalkFields
    BY <1>3
  <2>7. \A st \in 1 .. Len(new.write) : new.write[st] <= i /\ new.read[st] <= i
    BY <2>2, <2>4
  <2>8. \A s \in Defined(p) : new.store[s] \in 1 .. Len(new.write)
    BY <2>2, <2>5, <2>6
  <2>9. /\ new.store \in [Slots(p) -> Nat] /\ Layout(p, new.store, new.off, new.len)
        /\ \A s, t \in Defined(p) : new.store[s] = new.store[t] => sl.store[s] = sl.store[t]
    <3>1. new.store \in [Slots(p) -> Nat] /\ Layout(p, new.store, new.off, new.len)
      BY <2>5, <2>6, Zenon
    <3>2. ASSUME NEW s \in Defined(p), NEW t \in Defined(p), new.store[s] = new.store[t]
          PROVE  sl.store[s] = sl.store[t]
      BY <2>5, <2>6, <3>2
    <3> QED
      BY <3>1, <3>2
  <2>10. Len(new.read) = Len(new.write)
    BY <2>2
  <2> QED
    BY <2>2, <2>3, <2>6, <2>7, <2>8, <2>9, <2>10, <2>12, TableHolds
<1>7. ASSUME NEW x \in m.seg
      PROVE  /\ x.pc \in Pcs(p) /\ x.pc < i /\ x.phase \in 0 .. i - 1 /\ x.phase \in Nat
             /\ Placeable(p, w, x.pc) /\ Noted(p, m, x)
  BY <1>2 DEF SegmentInv, Pcs
<1>8. ASSUME NEW j \in Pcs(p), Placeable(p, w, j),
             NEW s \in PlannedWrites(p, j) \union Reads(p, j)
      PROVE  m.store[s] \in 1 .. k
  <2>1. s \in Defined(p)
    <3>1. CASE s \in Reads(p, j)
      BY <3>1, <1>8, ReadsEarlier DEF Placeable
    <3>2. CASE s \in PlannedWrites(p, j)
      BY <3>2 DEF PlannedWrites, Defined, Defs
    <3> QED
      BY <3>1, <3>2
  <2> QED
    BY <2>1 DEF TableInv, k
<1>9. ASSUME NEW x \in m.seg PROVE Noted(p, new, x)
  <2>1. ASSUME NEW st \in 1 .. k, m.write[st] >= x.phase + 1 \/ m.read[st] >= x.phase + 1
        PROVE  new.write[st] >= x.phase + 1 \/ new.read[st] >= x.phase + 1
    <3>1. CASE st \in writes
      <4>1. m.write[st] <= phase /\ m.read[st] <= phase /\ new.write[st] = phase + 1
        BY <3>1, <1>5, <1>13
      <4>2. m.write[st] \in Nat /\ m.read[st] \in Nat /\ x.phase \in Nat
        BY <1>1, <1>7
      <4> QED
        BY <4>1, <4>2, <2>1, <1>2
    <3>2. CASE st \notin writes
      <4>1. new.write[st] = m.write[st] /\ m.read[st] <= new.read[st] /\ new.read[st] \in Int
        BY <3>2, <1>5
      <4>2. m.read[st] \in Nat /\ x.phase \in Nat
        BY <1>1, <1>7
      <4> QED
        BY <4>1, <4>2, <2>1
    <3> QED
      BY <3>1, <3>2
  <2>2. ASSUME NEW st \in 1 .. k, m.write[st] >= x.phase + 1
        PROVE  new.write[st] >= x.phase + 1
    <3>1. CASE st \in writes
      <4>1. m.write[st] <= phase /\ new.write[st] = phase + 1
        BY <3>1, <1>5, <1>13
      <4>2. m.write[st] \in Nat /\ x.phase \in Nat
        BY <1>1, <1>7
      <4> QED
        BY <4>1, <4>2, <2>2, <1>2
    <3>2. CASE st \notin writes
      BY <3>2, <2>2, <1>5
    <3> QED
      BY <3>1, <3>2
  <2>3. \A s \in PlannedWrites(p, x.pc) : new.write[new.store[s]] >= x.phase + 1
    BY <1>3, <1>7, <1>8, <2>2 DEF Noted
  <2>4. \A s \in Reads(p, x.pc) : \/ new.write[new.store[s]] >= x.phase + 1
                                  \/ new.read[new.store[s]] >= x.phase + 1
    BY <1>3, <1>7, <1>8, <2>1 DEF Noted
  <2>5. \A r \in DyRange(p, x.pc) :
          \E d \in new.dys : d.lo = r.lo /\ d.hi = r.hi /\ d.phase >= x.phase + 1
    BY <1>3, <1>7 DEF Noted
  <2> QED
    BY <2>3, <2>4, <2>5 DEF Noted
<1>10. Noted(p, new, me)
  <2>1. me.pc = i /\ me.phase = phase
    OBVIOUS
  <2>2. ASSUME NEW s \in PlannedWrites(p, i) PROVE new.write[new.store[s]] >= phase + 1
    <3>1. m.store[s] \in writes /\ m.store[s] \in 1 .. k
      BY <1>8, <1>14
    <3>2. new.store[s] = m.store[s]
      BY <1>3
    <3>3. new.write[new.store[s]] = phase + 1
      BY <3>1, <3>2, <1>5
    <3>4. phase + 1 >= phase + 1
      BY <1>2
    <3> QED
      BY <3>3, <3>4, Zenon
  <2>3. ASSUME NEW s \in Reads(p, i)
        PROVE  new.write[new.store[s]] >= phase + 1 \/ new.read[new.store[s]] >= phase + 1
    <3>1. m.store[s] \in reads /\ m.store[s] \in 1 .. k
      BY <1>8, <1>14
    <3>2. new.write[m.store[s]] >= phase + 1 \/ new.read[m.store[s]] >= phase + 1
      <4>1. CASE m.store[s] \in writes
        <5>1. new.write[m.store[s]] = phase + 1
          BY <1>5, <3>1, <4>1
        <5>2. phase + 1 >= phase + 1
          BY <1>2
        <5> QED
          BY <5>1, <5>2, Zenon
      <4>2. CASE m.store[s] \notin writes
        <5>1. phase + 1 <= new.read[m.store[s]] /\ new.read[m.store[s]] \in 0 .. i
          BY <1>5, <3>1, <4>2
        <5> QED
          BY <1>2, <5>1
      <4> QED
        BY <4>1, <4>2
    <3>3. new.store[s] = m.store[s]
      BY <1>3
    <3> QED
      BY <3>2, <3>3, Zenon
  <2>4. ASSUME NEW r \in DyRange(p, i)
        PROVE  \E d \in new.dys : d.lo = r.lo /\ d.hi = r.hi /\ d.phase >= phase + 1
    <3> DEFINE e == [lo |-> r.lo, hi |-> r.hi, phase |-> phase + 1]
    <3>1. e \in new.dys
      BY <1>3
    <3>2. e.lo = r.lo /\ e.hi = r.hi /\ e.phase >= phase + 1
      BY <1>2
    <3> QED
      BY <3>1, <3>2
  <2> QED
    BY <2>1, <2>2, <2>3, <2>4 DEF Noted
<1>11. ASSUME NEW x \in m.seg, ~ (x.phase < phase) PROVE Apart(p, m.store, x.pc, i)
  <2>1. ASSUME NEW s \in PlannedWrites(p, x.pc), NEW t \in PlannedWrites(p, i) \union Reads(p, i)
        PROVE  m.store[s] # m.store[t]
    <3>1. m.write[m.store[s]] >= x.phase + 1 /\ m.write[m.store[t]] <= phase
      BY <1>7 DEF Noted, Waits
    <3>2. m.write[m.store[s]] \in Nat /\ m.write[m.store[t]] \in Nat
      BY <1>1, <1>7, <1>8
    <3> QED
      BY <3>1, <3>2, <1>2, <1>7, <1>11
  <2>2. ASSUME NEW s \in PlannedWrites(p, i), NEW t \in Reads(p, x.pc)
        PROVE  m.store[s] # m.store[t]
    <3>1. /\ m.write[m.store[t]] >= x.phase + 1 \/ m.read[m.store[t]] >= x.phase + 1
          /\ m.write[m.store[s]] <= phase /\ m.read[m.store[s]] <= phase
      BY <1>7 DEF Noted, Waits
    <3>2. /\ m.write[m.store[s]] \in Nat /\ m.write[m.store[t]] \in Nat
          /\ m.read[m.store[s]] \in Nat /\ m.read[m.store[t]] \in Nat
      BY <1>1, <1>7, <1>8
    <3> QED
      BY <3>1, <3>2, <1>2, <1>7, <1>11
  <2>3. ASSUME NEW r \in DyRange(p, x.pc), NEW q \in DyRange(p, i)
        PROVE  r.hi <= q.lo \/ q.hi <= r.lo
    <3>1. PICK d \in m.dys : d.lo = r.lo /\ d.hi = r.hi /\ d.phase >= x.phase + 1
      BY <1>7 DEF Noted
    <3>2. d.phase \in Nat
      BY DEF TableInv
    <3>3. ~ (q.lo < r.hi /\ r.lo < q.hi)
      BY <3>1, <3>2, <1>2, <1>7, <1>11 DEF Waits
    <3>4. r.lo \in Int /\ r.hi \in Int /\ q.lo \in Int /\ q.hi \in Int
      BY <1>7, RangeFacts
    <3> QED
      BY <3>3, <3>4
  <2> QED
    BY <2>1, <2>2, <2>3 DEF Apart
<1>12. SegmentInv(p, w, i, new)
  <2>1. ASSUME NEW x \in new.seg
        PROVE  /\ x.pc \in 1 .. i /\ x.phase \in 0 .. i - 1
               /\ Placeable(p, w, x.pc) /\ Noted(p, new, x)
    <3>1. CASE x \in m.seg
      BY <3>1, <1>2, <1>7, <1>9 DEF Pcs
    <3>2. CASE x = me
      BY <3>2, <1>2, <1>10
    <3> QED
      BY <3>1, <3>2, <1>3
  <2>2. ASSUME NEW x \in new.seg, NEW y \in new.seg
        PROVE  /\ x.pc = y.pc => x.phase = y.phase
               /\ x.pc < y.pc => x.phase < y.phase \/ Apart(p, new.store, x.pc, y.pc)
    <3>1. CASE x \in m.seg /\ y \in m.seg
      BY <3>1, <1>3 DEF SegmentInv
    <3>2. CASE x \in m.seg /\ y = me
      BY <3>2, <1>2, <1>3, <1>7, <1>11 DEF Pcs
    <3>3. CASE x = me /\ y \in m.seg
      BY <3>3, <1>2, <1>7 DEF Pcs
    <3>4. CASE x = me /\ y = me
      BY <3>4, <1>2
    <3> QED
      BY <3>1, <3>2, <3>3, <3>4, <1>3
  <2> QED
    BY <2>1, <2>2 DEF SegmentInv
<1> QED
  BY <1>3, <1>6, <1>12 DEF Entered

\* What a move leaves alone: the tasks already placed.
LEMMA MoveKeepsSegment ==
  ASSUME NEW p, WellFormed(p), NEW w, NEW sl, NEW i \in Pcs(p), i \in Defined(p),
         Def(p, i) \in Continuous(p), NEW b,
         TableInv(p, sl, i - 1, b), SegmentInv(p, w, i - 1, b),
         NEW m, m = Move(p, b, i)
  PROVE  SegmentInv(p, w, i - 1, m)
<1>0. i \in Nat /\ i - 1 \in Nat /\ i \in 1 .. Len(p.code) /\ Len(p.code) \in Nat
  BY CodeFacts DEF Pcs
<1>1. /\ \A s \in Slots(p) \ {i} : m.store[s] = b.store[s]
      /\ \A st \in 1 .. Len(b.write) : m.write[st] = b.write[st] /\ m.read[st] = b.read[st]
      /\ m.seg = b.seg /\ m.dys = b.dys
  <2>1. Unmoved(p, b, i, m)
    BY <1>0, MoveKeeps
  <2> QED
    BY <2>1 DEF Unmoved
<1>2. ASSUME NEW x \in b.seg, NEW s \in PlannedWrites(p, x.pc) \union Reads(p, x.pc)
      PROVE  m.store[s] = b.store[s] /\ b.store[s] \in 1 .. Len(b.write)
  <2>1. x.pc \in Pcs(p) /\ x.pc < i /\ p.code[x.pc].op # "sweep"
    BY <1>0 DEF SegmentInv, Placeable, Pcs
  <2>2. s \in Defined(p) /\ s # i
    <3>1. CASE s \in Reads(p, x.pc)
      BY <1>0, <2>1, <3>1, ReadsEarlier DEF Pcs
    <3>2. CASE s \in PlannedWrites(p, x.pc)
      BY <1>0, <2>1, <3>2 DEF PlannedWrites, Defined, Defs
    <3> QED
      BY <3>1, <3>2
  <2>3. s \in Slots(p)
    BY <2>2, SlotFacts
  <2> QED
    BY <1>1, <2>2, <2>3 DEF TableInv
<1>3. ASSUME NEW x \in b.seg PROVE Noted(p, m, x)
  <2>1. Noted(p, b, x)
    BY DEF SegmentInv
  <2> QED
    BY <1>1, <1>2, <2>1 DEF Noted
<1>4. ASSUME NEW x \in b.seg, NEW y \in b.seg, Apart(p, b.store, x.pc, y.pc)
      PROVE  Apart(p, m.store, x.pc, y.pc)
  BY <1>2, <1>4 DEF Apart
<1> QED
  BY <1>1, <1>3, <1>4 DEF SegmentInv

\* What placing task i leaves: a sound table, and one task more in the segment.
TaskPlaced(p, sl, w, i, b, new) ==
  /\ TableInv(p, sl, i, new) /\ SegmentInv(p, w, i, new)
  /\ \A s \in Slots(p) \ {i} : new.store[s] = b.store[s]
  /\ new.steps = b.steps
  /\ \E phase : new.seg = b.seg \union {[pc |-> i, phase |-> phase]}

LEMMA PlaceTaskKeeps ==
  ASSUME NEW p, WellFormed(p), NEW w, NEW sl, NEW i \in Pcs(p), NEW b,
         TableInv(p, sl, i - 1, b), SegmentInv(p, w, i - 1, b), Placeable(p, w, i),
         NEW new, new = PlaceTask(p, sl, w, b, i)
  PROVE  TaskPlaced(p, sl, w, i, b, new)
<1> DEFINE reads  == {b.store[s] : s \in Reads(p, i)}
           range  == DyRange(p, i)
           close  == {d \in b.dys : \E r \in range : r.lo < d.hi /\ d.lo < r.hi}
           wait   == WaitForDy(b, range)
           ready  == Latest({b.write[st] : st \in reads} \union {wait})
           m      == IF i \in PlannedWrites(p, i) /\ MayMove(p, sl, b, i, ready)
                     THEN Move(p, b, i) ELSE b
           writes == {m.store[s] : s \in PlannedWrites(p, i)}
           stores == WaitForStorage(m, writes)
           phase  == Latest({ready, stores})
<1>0. i \in Nat /\ i - 1 \in Nat /\ i \in 1 .. Len(p.code) /\ Len(p.code) \in Nat
  BY CodeFacts DEF Pcs
<1>1. new = Enter(m, i, reads, writes, range, phase)
  BY DEF PlaceTask
<1>2. \A s \in Reads(p, i) : s \in Defined(p) /\ s \in Slots(p) /\ s # i
  BY <1>0, ReadsEarlier DEF Placeable
<1>3. wait \in 0 .. i - 1 /\ \A d \in close : d.phase <= wait
  <2>1. {d.phase : d \in close} \subseteq 0 .. i - 1
    BY DEF TableInv
  <2>2. wait = Latest({d.phase : d \in close})
    BY DEF WaitForDy
  <2> HIDE DEF close, wait
  <2>3. \A d \in close : d.phase \in {e.phase : e \in close}
    OBVIOUS
  <2> QED
    BY <1>0, <2>1, <2>2, <2>3, LatestFacts
<1>4. ready \in 0 .. i - 1 /\ wait <= ready /\ \A st \in reads : b.write[st] <= ready
  <2> DEFINE T == {b.write[st] : st \in reads} \union {wait}
  <2>1. reads \subseteq 1 .. Len(b.write)
    BY <1>2 DEF TableInv
  <2>2. \A st \in reads : b.write[st] \in 0 .. i - 1
    BY <1>0, <2>1, TableTypes
  <2>3. wait \in T /\ \A st \in reads : b.write[st] \in T
    OBVIOUS
  <2>4. T \subseteq 0 .. i - 1
    BY <1>3, <2>2
  <2> HIDE DEF T, reads, wait
  <2>5. Latest(T) \in 0 .. i - 1 /\ \A y \in T : y <= Latest(T)
    BY <1>0, <2>4, LatestFacts
  <2> QED
    BY <2>3, <2>5 DEF T
<1> HIDE DEF ready, wait
<1>5. /\ TableInv(p, sl, i - 1, m) /\ SegmentInv(p, w, i - 1, m)
      /\ \A s \in Slots(p) \ {i} : m.store[s] = b.store[s]
      /\ \A st \in 1 .. Len(b.write) : m.write[st] = b.write[st]
      /\ m.seg = b.seg /\ m.steps = b.steps /\ m.dys = b.dys
  <2>0. m = b \/ (m = Move(p, b, i) /\ i \in PlannedWrites(p, i))
    OBVIOUS
  <2> HIDE DEF m
  <2>1. CASE m = b
    BY <2>1
  <2>2. CASE m = Move(p, b, i) /\ i \in PlannedWrites(p, i)
    <3>0. i - 1 \in Nat
      BY <1>0
    <3>1. i \in Defined(p)
      BY <2>2 DEF PlannedWrites, Defined, Defs
    <3>2. Def(p, i) \in Continuous(p)
      BY <1>0 DEF Placeable, Def
    <3> QED
      <4>1. TableInv(p, sl, i - 1, m) /\ Unmoved(p, b, i, m)
        BY <2>2, <3>0, <3>1, <3>2, MoveKeeps
      <4>2. SegmentInv(p, w, i - 1, m)
        BY <2>2, <3>1, <3>2, MoveKeepsSegment
      <4> QED
        BY <4>1, <4>2 DEF Unmoved
  <2> QED
    BY <2>0, <2>1, <2>2
<1> HIDE DEF m
<1>6. \A s \in Reads(p, i) : m.store[s] = b.store[s] /\ b.store[s] \in 1 .. Len(b.write)
  BY <1>2, <1>5 DEF TableInv
<1>7. reads = {m.store[s] : s \in Reads(p, i)}
  BY <1>6
<1>8. stores \in 0 .. i - 1 /\ \A st \in writes : m.write[st] <= stores /\ m.read[st] <= stores
  <2> DEFINE T == {m.write[st] : st \in writes} \union {m.read[st] : st \in writes}
  <2>1. writes \subseteq 1 .. Len(m.write)
    <3>1. \A s \in PlannedWrites(p, i) : s \in Defined(p)
      BY DEF PlannedWrites, Defined, Defs
    <3> QED
      BY <1>5, <3>1 DEF TableInv
  <2>2. \A st \in writes : m.write[st] \in 0 .. i - 1 /\ m.read[st] \in 0 .. i - 1
    BY <1>0, <1>5, <2>1, TableTypes
  <2>3. \A st \in writes : m.write[st] \in T /\ m.read[st] \in T
    OBVIOUS
  <2>4. T \subseteq 0 .. i - 1
    BY <2>2
  <2>5. stores = Latest(T)
    BY DEF WaitForStorage
  <2> HIDE DEF T, writes, stores
  <2>6. Latest(T) \in 0 .. i - 1 /\ \A y \in T : y <= Latest(T)
    BY <1>0, <2>4, LatestFacts
  <2> QED
    BY <2>3, <2>5, <2>6
<1> HIDE DEF stores
<1>9. phase \in 0 .. i - 1 /\ ready <= phase /\ stores <= phase
  <2>1. {ready, stores} \subseteq 0 .. i - 1
    BY <1>4, <1>8
  <2> QED
    BY <1>0, <2>1, LatestFacts
<1> HIDE DEF phase
<1>10. \A s \in PlannedWrites(p, i) :
         m.write[m.store[s]] <= phase /\ m.read[m.store[s]] <= phase
  <2> SUFFICES ASSUME NEW s \in PlannedWrites(p, i)
               PROVE  m.write[m.store[s]] <= phase /\ m.read[m.store[s]] <= phase
    OBVIOUS
  <2>1. m.store[s] \in writes
    OBVIOUS
  <2>2. m.store[s] \in 1 .. Len(m.write)
    BY <1>5 DEF TableInv, PlannedWrites, Defined, Defs
  <2>3. m.write[m.store[s]] \in Nat /\ m.read[m.store[s]] \in Nat
    <3>1. /\ m.write[m.store[s]] \in 0 .. i - 1
          /\ m.read[m.store[s]] \in 0 .. i - 1
      BY <1>0, <1>5, <2>2, TableTypes
    <3> QED
      BY <3>1
  <2> HIDE DEF writes
  <2>4. m.write[m.store[s]] <= stores /\ m.read[m.store[s]] <= stores
    BY <1>8, <2>1
  <2>5. m.write[m.store[s]] \in Nat /\ m.read[m.store[s]] \in Nat /\ stores \in Int /\ phase \in Int
    BY <1>8, <1>9, <2>3
  <2> QED
    BY <1>9, <2>4, <2>5
<1>11. \A s \in Reads(p, i) : m.write[m.store[s]] <= phase
  <2> SUFFICES ASSUME NEW s \in Reads(p, i) PROVE m.write[m.store[s]] <= phase
    OBVIOUS
  <2>1. /\ m.write[m.store[s]] = b.write[b.store[s]] /\ b.store[s] \in reads
        /\ b.write[b.store[s]] \in Nat
    <3>1. m.store[s] = b.store[s] /\ b.store[s] \in 1 .. Len(b.write) /\ b.store[s] \in reads
      BY <1>6
    <3>2. m.write[b.store[s]] = b.write[b.store[s]]
      BY <1>5, <3>1
    <3>3. b.write \in Seq(Nat)
      BY DEF TableInv
    <3> QED
      BY <3>1, <3>2, <3>3
  <2> QED
    BY <1>4, <1>9, <2>1
<1>12. \A d \in m.dys, r \in DyRange(p, i) : r.lo < d.hi /\ d.lo < r.hi => d.phase <= phase
  <2> SUFFICES ASSUME NEW d \in b.dys, NEW r \in range, r.lo < d.hi, d.lo < r.hi
               PROVE  d.phase <= phase
    BY <1>5
  <2>1. d \in close /\ d.phase \in Int
    BY DEF TableInv
  <2> HIDE DEF close
  <2> QED
    BY <1>3, <1>4, <1>9, <2>1
<1>13. TableInv(p, sl, i, new) /\ SegmentInv(p, w, i, new) /\ Entered(m, new, i, phase)
  <2>1. Waits(p, m, i, phase)
    BY <1>10, <1>11, <1>12 DEF Waits
  <2> QED
    BY <1>1, <1>5, <1>7, <1>9, <2>1, EnterKeeps
<1> QED
  BY <1>5, <1>13 DEF Entered, TaskPlaced

-----------------------------------------------------------------------------
(* The steps of the plan *)

\* The instructions a step runs.
Runs(st) == IF st.kind = "fork" THEN DOMAIN st.tasks ELSE st.lo .. st.hi

\* A phase of more than one thread has for each whole task a thread of its own to
\* run it, and a split one has as many shares as the phase has threads.
Dealt(w, st) ==
  /\ st.threads \in 1 .. w
  /\ st.threads > 1 =>
       \A i \in DOMAIN st.tasks :
         IF st.tasks[i].ways = 0 THEN st.tasks[i].thread \in 0 .. st.threads - 1
         ELSE st.tasks[i].ways = st.threads

\* Tasks of one phase are apart, and split only where they can run share by share.
ForkSound(p, w, store, st) ==
  /\ w \in Nat \ {0} => Dealt(w, st)
  /\ \A i \in DOMAIN st.tasks :
       /\ Placeable(p, w, i)
       /\ \/ st.tasks[i].ways = 0
          \/ SplitWays(p.code[i], w) # 1 /\ st.tasks[i].ways = SplitWays(p.code[i], w)
  /\ \A i, j \in DOMAIN st.tasks : i < j => Apart(p, store, i, j)

LoopSound(n, st) == st.lo \in Int /\ st.hi \in Int /\ st.lo <= n /\ st.lo <= st.hi

StepSound(p, w, n, b, st) ==
  /\ st.kind \in {"fork", "loop"}
  /\ Runs(st) \subseteq Continuous(p)
  /\ st.kind = "fork" => ForkSound(p, w, b.store, st)
  /\ st.kind = "loop" => LoopSound(n, st)
  /\ \A i \in Runs(st) : i <= n \/ InBody(p, i)
  /\ \A i \in Runs(st), x \in b.seg : i < x.pc

\* A step runs after those with an earlier instruction it conflicts with.
InOrder(p, store, early, late) ==
  \A i \in Runs(early), j \in Runs(late) :
    \/ i < j
    \/ i # j /\ early.kind = "fork" /\ late.kind = "fork" /\ Apart(p, store, i, j)

\* Every instruction up to n is in a step, waits for the flush or does nothing.
Covered(p, n, b) ==
  \A j \in Continuous(p) :
    j <= n => \/ InBody(p, j) \/ Idle(p, j)
              \/ \E x \in b.seg : x.pc = j
              \/ \E k \in DOMAIN b.steps : j \in Runs(b.steps[k])

StepsInv(p, w, n, b) ==
  /\ \E S : b.steps \in Seq(S)
  /\ \A k \in DOMAIN b.steps : StepSound(p, w, n, b, b.steps[k])
  /\ \A k, l \in DOMAIN b.steps : k < l => InOrder(p, b.store, b.steps[k], b.steps[l])
  /\ Covered(p, n, b)

LEMMA ContinuousFacts ==
  ASSUME NEW p, WellFormed(p)
  PROVE  /\ Continuous(p) \subseteq Pcs(p) /\ Continuous(p) \subseteq Int
         /\ \A i \in Continuous(p) : p.const + p.segment < i /\ i <= Len(p.code) /\ i \in Nat
BY CodeFacts DEF Continuous, Pcs

\* A step that is not in a sweep's body comes after all that were placed.
LEMMA NextIsLater ==
  ASSUME NEW p, WellFormed(p), NEW w, NEW n \in Nat, NEW b, StepsInv(p, w, n, b),
         ~InBody(p, n + 1), NEW k \in DOMAIN b.steps, NEW j \in Runs(b.steps[k])
  PROVE  j < n + 1
<1> DEFINE st == b.steps[k]
<1>1. StepSound(p, w, n, b, st)
  BY DEF StepsInv
<1> HIDE DEF st
<1>2. j \in Int /\ (j <= n \/ InBody(p, j))
  BY <1>1, ContinuousFacts DEF StepSound, st
<1>3. CASE st.kind = "fork"
  <2>1. ~InBody(p, j)
    BY <1>1, <1>3 DEF StepSound, ForkSound, Placeable, Runs, st
  <2> QED
    BY <1>2, <2>1
<1>4. CASE st.kind = "loop"
  <2>1. st.lo \in Int /\ st.hi \in Int /\ st.lo <= n /\ j \in st.lo .. st.hi
    BY <1>1, <1>4 DEF StepSound, LoopSound, Runs, st
  <2>2. \A i \in st.lo .. st.hi : i <= n \/ InBody(p, i)
    BY <1>1, <1>4 DEF StepSound, Runs
  <2>3. ~ (n + 1 \in st.lo .. st.hi)
    BY <2>2
  <2> QED
    BY <2>1, <2>3
<1> QED
  BY <1>1, <1>3, <1>4 DEF StepSound

\* Moving the slot of a later instruction does not bring two tasks together.
LEMMA ApartStays ==
  ASSUME NEW p, WellFormed(p), NEW w, NEW n \in Pcs(p), NEW old, NEW new,
         \A s \in Slots(p) \ {n} : new[s] = old[s],
         NEW i \in Pcs(p), i < n, Placeable(p, w, i),
         NEW j \in Pcs(p), j < n, Placeable(p, w, j), Apart(p, old, i, j)
  PROVE  Apart(p, new, i, j)
<1>0. n \in Nat /\ i \in Nat /\ j \in Nat
  BY CodeFacts DEF Pcs
<1>1. ASSUME NEW k \in Pcs(p), k < n, Placeable(p, w, k), k \in Nat,
             NEW s \in PlannedWrites(p, k) \union Reads(p, k)
      PROVE  new[s] = old[s]
  <2>1. s \in Defined(p) /\ s # n
    <3>1. CASE s \in Reads(p, k)
      <4>1. k <= n
        BY <1>0, <1>1
      <4> QED
        BY <1>1, <3>1, <4>1, ReadsEarlier DEF Placeable
    <3>2. CASE s \in PlannedWrites(p, k)
      BY <1>0, <1>1, <3>2 DEF PlannedWrites, Defined, Defs
    <3> QED
      BY <1>1, <3>1, <3>2
  <2> QED
    BY <2>1, SlotFacts
<1> QED
  BY <1>0, <1>1 DEF Apart

LEMMA PhaseFacts ==
  ASSUME NEW p, NEW pcs, NEW w, NEW st, st = Phase(p, pcs, w)
  PROVE  /\ st.kind = "fork" /\ DOMAIN st.tasks = pcs
         /\ \A i \in pcs : st.tasks[i].ways = IF SplitWays(p.code[i], w) = 1
                                              THEN 0 ELSE SplitWays(p.code[i], w)
<1>1. /\ st.kind = "fork"
      /\ st.tasks = [i \in pcs |->
           [ways   |-> IF i \in Wholes(p, pcs, w) THEN 0 ELSE SplitWays(p.code[i], w),
            thread |-> IF i \in Wholes(p, pcs, w) /\ PhaseThreads(p, pcs, w) > 1
                       THEN Balance(p, Wholes(p, pcs, w), w)[i] ELSE 0]]
  BY DEF Phase
<1> QED
  BY <1>1 DEF Wholes

\* Every whole task is dealt to a thread of the phase.
LEMMA LeastIsThread ==
  ASSUME NEW w \in Nat \ {0}, NEW load
  PROVE  Least(load, w) \in 0 .. w - 1
<1> DEFINE least == {t \in 0 .. w - 1 : \A u \in 0 .. w - 1 : load[t] <= load[u]}
<1>1. CASE least = {}
  BY <1>1 DEF Least
<1>2. CASE least # {}
  <2>1. least \subseteq Nat /\ least \subseteq 0 .. w - 1
    OBVIOUS
  <2>2. Least(load, w) = Min(least)
    BY <1>2 DEF Least
  <2> HIDE DEF least
  <2>3. Min(least) \in least
    BY <1>2, <2>1, MinIsLeast
  <2> QED
    BY <2>1, <2>2, <2>3
<1> QED
  BY <1>1, <1>2

LEMMA PhaseIsDealt ==
  ASSUME NEW p, NEW pcs, NEW w \in Nat \ {0}, NEW st, st = Phase(p, pcs, w)
  PROVE  Dealt(w, st)
<1> DEFINE wholes == Wholes(p, pcs, w)
           thread == Balance(p, wholes, w)
           used   == {1} \union {thread[i] + 1 : i \in wholes}
           n      == PhaseThreads(p, pcs, w)
<1>1. /\ st.threads = n /\ DOMAIN st.tasks = pcs
      /\ \A i \in pcs : /\ st.tasks[i].ways = IF i \in wholes THEN 0 ELSE SplitWays(p.code[i], w)
                        /\ st.tasks[i].thread = IF i \in wholes /\ n > 1 THEN thread[i] ELSE 0
  BY DEF Phase
<1>2. n = 1 \/ (wholes # pcs /\ n = w) \/ (wholes = pcs /\ n = Latest(used))
  BY DEF PhaseThreads
<1>3. \A i \in wholes : thread[i] \in 0 .. w - 1
  BY LeastIsThread DEF Balance
<1>4. wholes \subseteq pcs /\ \A i \in pcs \ wholes : SplitWays(p.code[i], w) = w
  BY DEF Wholes, SplitWays, WaysFor
<1> HIDE DEF thread, n, wholes
<1>5. used \subseteq 0 .. w /\ 1 \in used /\ \A i \in wholes : thread[i] + 1 \in used
  BY <1>3
<1> HIDE DEF used
<1>6. Latest(used) \in 0 .. w /\ \A y \in used : y <= Latest(used)
  BY <1>5, LatestFacts
<1>7. n \in 1 .. w
  BY <1>2, <1>5, <1>6
<1>8. ASSUME NEW i \in pcs, n > 1
      PROVE  IF st.tasks[i].ways = 0 THEN st.tasks[i].thread \in 0 .. n - 1
             ELSE st.tasks[i].ways = n
  <2>1. CASE i \in wholes
    <3>1. st.tasks[i].ways = 0 /\ st.tasks[i].thread = thread[i] /\ thread[i] \in 0 .. w - 1
      BY <1>1, <1>3, <1>8, <2>1
    <3>2. CASE n = w
      BY <3>1, <3>2
    <3>3. CASE n = Latest(used)
      <4>1. thread[i] + 1 <= n
        BY <1>5, <1>6, <2>1, <3>3
      <4> QED
        BY <1>7, <3>1, <4>1
    <3> QED
      BY <1>2, <1>8, <3>2, <3>3
  <2>2. CASE i \notin wholes
    <3>1. st.tasks[i].ways = w /\ n = w
      BY <1>1, <1>2, <1>4, <1>8, <2>2
    <3> QED
      BY <3>1
  <2> QED
    BY <2>1, <2>2
<1> QED
  BY <1>1, <1>7, <1>8 DEF Dealt

\* The sequence of two.
LEMMA Joined ==
  ASSUME NEW S, NEW s \in Seq(S), NEW T, NEW t \in Seq(T), NEW u, u = s \o t
  PROVE  /\ u \in Seq(S \union T)
         /\ Len(s) \in Nat /\ Len(t) \in Nat
         /\ DOMAIN u = 1 .. Len(s) + Len(t) /\ DOMAIN s = 1 .. Len(s)
         /\ \A k \in 1 .. Len(s) : u[k] = s[k]
         /\ \A k \in 1 .. Len(t) : u[Len(s) + k] = t[k]
<1>1. s \in Seq(S \union T) /\ t \in Seq(S \union T)
  BY SeqMonotonic
<1>2. /\ s \o t \in Seq(S \union T)
      /\ Len(s \o t) = Len(s) + Len(t)
      /\ \A i \in 1 .. Len(s) + Len(t) :
           (s \o t)[i] = IF i <= Len(s) THEN s[i] ELSE t[i - Len(s)]
  BY <1>1, ConcatProperties
<1>3. Len(s) \in Nat /\ Len(t) \in Nat /\ DOMAIN s = 1 .. Len(s)
  BY LenProperties
<1>4. DOMAIN u = 1 .. Len(s) + Len(t)
  BY <1>2, LenProperties
<1>5. \A k \in 1 .. Len(s) : u[k] = s[k]
  BY <1>2, <1>3
<1>6. ASSUME NEW k \in 1 .. Len(t) PROVE u[Len(s) + k] = t[k]
  <2>1. Len(s) + k \in 1 .. Len(s) + Len(t) /\ ~ (Len(s) + k <= Len(s)) /\ Len(s) + k - Len(s) = k
    BY <1>3
  <2> QED
    BY <1>2, <2>1
<1> QED
  BY <1>2, <1>3, <1>4, <1>5, <1>6

\* A flush adds a step for each phase of the segment, in their order.
LEMMA FlushKeeps ==
  ASSUME NEW p, WellFormed(p), NEW w, NEW sl, NEW n \in Nat, NEW b,
         TableInv(p, sl, n, b), SegmentInv(p, w, n, b), StepsInv(p, w, n, b),
         NEW f, f = Flush(p, b, w)
  PROVE  /\ TableInv(p, sl, n, f) /\ StepsInv(p, w, n, f) /\ f.seg = {}
         /\ f.store = b.store /\ f.off = b.off /\ f.len = b.len
<1> DEFINE phases == Latest({t.phase + 1 : t \in b.seg})
           pcs(k) == {t.pc : t \in {t \in b.seg : t.phase = k - 1}}
           add    == [k \in 1 .. phases |-> Phase(p, pcs(k), w)]
           m      == Len(b.steps)
<1>1. /\ DOMAIN f = WalkFields /\ f.steps = b.steps \o add /\ f.seg = {}
      /\ f.write = b.write /\ f.read = b.read /\ f.dys = b.dys
      /\ f.store = b.store /\ f.off = b.off /\ f.len = b.len
  <2>1. DOMAIN b = WalkFields
    BY DEF TableInv
  <2> QED
    BY <2>1 DEF Flush, WalkFields
<1>2. phases \in 0 .. n /\ \A t \in b.seg : t.phase + 1 \in 1 .. phases
  <2>1. \A t \in b.seg : t.phase \in 0 .. n - 1
    BY DEF SegmentInv
  <2> DEFINE T == {t.phase + 1 : t \in b.seg}
  <2>2. \A t \in b.seg : t.phase + 1 \in 1 .. n /\ t.phase + 1 \in T
    BY <2>1
  <2>3. T \subseteq 0 .. n
    BY <2>2
  <2> HIDE DEF T
  <2>4. Latest(T) \in 0 .. n /\ \A y \in T : y <= Latest(T)
    BY <2>3, LatestFacts
  <2>5. \A t \in b.seg : t.phase + 1 \in 1 .. Latest(T)
    BY <2>2, <2>4
  <2> QED
    BY <2>4, <2>5 DEF T
<1> HIDE DEF phases
<1>3. \A k \in 1 .. phases : add[k] = Phase(p, pcs(k), w)
  OBVIOUS
<1>4. PICK S : b.steps \in Seq(S)
  BY DEF StepsInv
<1>5. /\ \E U : f.steps \in Seq(U)
      /\ m \in Nat /\ DOMAIN b.steps = 1 .. m /\ DOMAIN f.steps = 1 .. m + phases
      /\ \A k \in 1 .. m : f.steps[k] = b.steps[k]
      /\ \A k \in 1 .. phases : f.steps[m + k] = add[k]
  <2> DEFINE T == {add[k] : k \in 1 .. phases}
  <2>0. \A k \in 1 .. phases : add[k] \in T
    OBVIOUS
  <2>1. add \in [1 .. phases -> T] /\ phases \in Nat
    <3> HIDE DEF T
    <3> QED
      BY <1>2, <2>0
  <2> HIDE DEF T, add
  <2>2. add \in Seq(T) /\ Len(add) = phases
    BY <2>1, FunctionIsSeq
  <2> HIDE DEF m
  <2>3. /\ f.steps \in Seq(S \union T)
        /\ m \in Nat /\ DOMAIN f.steps = 1 .. m + Len(add) /\ DOMAIN b.steps = 1 .. m
        /\ \A k \in 1 .. m : f.steps[k] = b.steps[k]
        /\ \A k \in 1 .. Len(add) : f.steps[m + k] = add[k]
    BY <1>1, <1>4, <2>2, Joined, SMTT(30) DEF m
  <2> QED
    BY <2>2, <2>3
<1> HIDE DEF add, m
<1>6. TableInv(p, sl, n, f)
  <2>1. /\ b.store \in [Slots(p) -> Nat] /\ b.write \in Seq(Nat) /\ b.read \in Seq(Nat)
        /\ Len(b.read) = Len(b.write)
        /\ \A st \in 1 .. Len(b.write) : b.write[st] <= n /\ b.read[st] <= n
        /\ \A d \in b.dys : d.phase \in 0 .. n
        /\ \A s \in Defined(p) : b.store[s] \in 1 .. Len(b.write)
    BY DEF TableInv
  <2>2. /\ \A s, t \in Defined(p) : b.store[s] = b.store[t] => sl.store[s] = sl.store[t]
        /\ \A s \in Defined(p) : Def(p, s) \notin Continuous(p) => b.off[s] = sl.off[s]
        /\ Layout(p, b.store, b.off, b.len)
    BY DEF TableInv
  <2>3. /\ f.store \in [Slots(p) -> Nat] /\ f.write \in Seq(Nat) /\ f.read \in Seq(Nat)
        /\ Len(f.read) = Len(f.write)
        /\ \A st \in 1 .. Len(f.write) : f.write[st] <= n /\ f.read[st] <= n
        /\ \A d \in f.dys : d.phase \in 0 .. n
        /\ \A s \in Defined(p) : f.store[s] \in 1 .. Len(f.write)
    BY <1>1, <2>1, ZenonT(40)
  <2>4. /\ \A s, t \in Defined(p) : f.store[s] = f.store[t] => sl.store[s] = sl.store[t]
        /\ \A s \in Defined(p) : Def(p, s) \notin Continuous(p) => f.off[s] = sl.off[s]
        /\ Layout(p, f.store, f.off, f.len)
    BY <1>1, <2>2, ZenonT(40)
  <2>5. DOMAIN f = WalkFields
    BY <1>1
  <2> QED
    BY <2>3, <2>4, <2>5, TableHolds
<1>7. ASSUME NEW k \in 1 .. phases
      PROVE  /\ f.steps[m + k].kind = "fork"
             /\ DOMAIN f.steps[m + k].tasks = pcs(k) /\ Runs(f.steps[m + k]) = pcs(k)
             /\ \A i \in pcs(k) :
                  f.steps[m + k].tasks[i].ways =
                    IF SplitWays(p.code[i], w) = 1 THEN 0 ELSE SplitWays(p.code[i], w)
             /\ w \in Nat \ {0} => Dealt(w, f.steps[m + k])
  <2>1. f.steps[m + k] = Phase(p, pcs(k), w)
    BY <1>3, <1>5
  <2> HIDE DEF pcs
  <2>2. w \in Nat \ {0} => Dealt(w, f.steps[m + k])
    BY <2>1, PhaseIsDealt
  <2> QED
    BY <2>1, <2>2, PhaseFacts DEF Runs
<1>8. ASSUME NEW k \in 1 .. phases, NEW i \in pcs(k)
      PROVE  \E x \in b.seg : x.pc = i /\ x.phase = k - 1
  BY <1>8
<1>9. ASSUME NEW x \in b.seg PROVE x.pc \in pcs(x.phase + 1)
  <2> DEFINE k == x.phase + 1
  <2>1. x.phase = k - 1
    BY DEF SegmentInv
  <2> HIDE DEF k
  <2>2. x.pc \in pcs(k)
    BY <2>1
  <2> QED
    BY <2>2 DEF k
<1> HIDE DEF pcs
<1>10. \A i \in DOMAIN f.steps : i \in 1 .. m \/ \E k \in 1 .. phases : i = m + k
  <2> SUFFICES ASSUME NEW i \in 1 .. m + phases, ~ (i \in 1 .. m)
               PROVE  \E k \in 1 .. phases : i = m + k
    BY <1>5
  <2>1. i - m \in 1 .. phases /\ i = m + (i - m)
    BY <1>2, <1>5
  <2> DEFINE d == i - m
  <2> HIDE DEF d
  <2>2. d \in 1 .. phases /\ i = m + d
    BY <2>1 DEF d
  <2> QED
    BY <2>2
<1>11. ASSUME NEW k \in 1 .. phases PROVE StepSound(p, w, n, f, f.steps[m + k])
  <2> DEFINE st == f.steps[m + k]
  <2>1. ASSUME NEW i \in pcs(k) PROVE Placeable(p, w, i) /\ i \in 1 .. n
    BY <1>8 DEF SegmentInv
  <2>2. ASSUME NEW i \in pcs(k), NEW j \in pcs(k), i < j PROVE Apart(p, f.store, i, j)
    <3>1. PICK x \in b.seg : x.pc = i /\ x.phase = k - 1
      BY <1>8
    <3>2. PICK y \in b.seg : y.pc = j /\ y.phase = k - 1
      BY <1>8
    <3> QED
      BY <1>1, <2>2, <3>1, <3>2 DEF SegmentInv
  <2>3. ForkSound(p, w, f.store, st)
    BY <1>7, <2>1, <2>2 DEF ForkSound
  <2>4. Runs(st) \subseteq Continuous(p) /\ \A i \in Runs(st) : i <= n
    BY <1>7, <2>1 DEF Placeable
  <2> QED
    BY <1>1, <1>7, <2>3, <2>4 DEF StepSound
<1>12. ASSUME NEW k \in 1 .. m PROVE StepSound(p, w, n, f, f.steps[k])
  <2>1. StepSound(p, w, n, b, b.steps[k]) /\ f.steps[k] = b.steps[k]
    BY <1>5 DEF StepsInv
  <2> QED
    BY <1>1, <2>1 DEF StepSound
<1>13. ASSUME NEW k \in DOMAIN f.steps, NEW l \in DOMAIN f.steps, k < l
       PROVE  InOrder(p, f.store, f.steps[k], f.steps[l])
  <2>1. CASE l \in 1 .. m
    <3>1. k \in 1 .. m
      BY <1>5, <1>13, <2>1
    <3> QED
      BY <1>1, <1>5, <1>13, <2>1, <3>1 DEF StepsInv
  <2>2. CASE k \in 1 .. m /\ \E d \in 1 .. phases : l = m + d
    <3>1. PICK d \in 1 .. phases : l = m + d
      BY <2>2
    <3>2. ASSUME NEW i \in Runs(f.steps[k]), NEW j \in Runs(f.steps[l]) PROVE i < j
      <4>1. PICK y \in b.seg : y.pc = j
        BY <1>7, <1>8, <3>1
      <4>2. StepSound(p, w, n, b, b.steps[k]) /\ f.steps[k] = b.steps[k]
        BY <1>5, <2>2 DEF StepsInv
      <4> QED
        BY <4>1, <4>2 DEF StepSound
    <3> QED
      BY <3>2 DEF InOrder
  <2>3. CASE (\E c \in 1 .. phases : k = m + c) /\ (\E d \in 1 .. phases : l = m + d)
    <3>1. PICK c \in 1 .. phases, d \in 1 .. phases : k = m + c /\ l = m + d
      BY <2>3
    <3>2. c < d
      BY <1>5, <1>13, <3>1
    <3>3. ASSUME NEW i \in Runs(f.steps[k]), NEW j \in Runs(f.steps[l])
          PROVE  i < j \/ (i # j /\ Apart(p, f.store, i, j))
      <4>1. PICK x \in b.seg : x.pc = i /\ x.phase = c - 1
        BY <1>7, <1>8, <3>1
      <4>2. PICK y \in b.seg : y.pc = j /\ y.phase = d - 1
        BY <1>7, <1>8, <3>1
      <4>3. x.pc \in Int /\ y.pc \in Int /\ x.phase < y.phase
        BY <3>2, <4>1, <4>2 DEF SegmentInv
      <4>4. i # j
        BY <4>1, <4>2, <4>3 DEF SegmentInv
      <4>5. CASE y.pc < x.pc
        <5>1. ~ (y.phase < x.phase)
          BY <3>2, <4>1, <4>2
        <5>2. Apart(p, b.store, j, i)
          BY <4>1, <4>2, <4>5, <5>1 DEF SegmentInv
        <5> QED
          BY <1>1, <4>4, <5>2, ApartIsMutual
      <4> QED
        BY <4>1, <4>2, <4>3, <4>4, <4>5
    <3> QED
      BY <1>7, <3>1, <3>3 DEF InOrder
  <2>4. CASE (\E c \in 1 .. phases : k = m + c) /\ l \in 1 .. m
    BY <1>5, <1>13, <2>4
  <2> QED
    BY <1>10, <1>13, <2>1, <2>2, <2>3, <2>4
<1>14. Covered(p, n, f)
  <2> SUFFICES ASSUME NEW j \in Continuous(p), j <= n, ~InBody(p, j), ~Idle(p, j)
               PROVE  \E k \in DOMAIN f.steps : j \in Runs(f.steps[k])
    BY DEF Covered
  <2>1. (\E x \in b.seg : x.pc = j) \/ \E k \in DOMAIN b.steps : j \in Runs(b.steps[k])
    BY DEF StepsInv, Covered
  <2>2. CASE \E x \in b.seg : x.pc = j
    <3>1. PICK x \in b.seg : x.pc = j
      BY <2>2
    <3>2. x.phase + 1 \in 1 .. phases /\ j \in pcs(x.phase + 1)
      BY <1>2, <1>9, <3>1
    <3>3. j \in Runs(f.steps[m + (x.phase + 1)])
      BY <1>7, <3>2
    <3>4. m + (x.phase + 1) \in DOMAIN f.steps
      BY <1>2, <1>5, <3>2
    <3> QED
      BY <3>3, <3>4
  <2>3. CASE \E k \in DOMAIN b.steps : j \in Runs(b.steps[k])
    <3>1. PICK k \in 1 .. m : j \in Runs(b.steps[k])
      BY <1>5, <2>3
    <3>2. k \in DOMAIN f.steps
      BY <1>2, <1>5
    <3> QED
      BY <1>5, <3>1, <3>2
  <2> QED
    BY <2>1, <2>2, <2>3
<1>15. \A k \in DOMAIN f.steps : StepSound(p, w, n, f, f.steps[k])
  BY <1>10, <1>11, <1>12
<1>16. StepsInv(p, w, n, f)
  BY <1>5, <1>13, <1>14, <1>15 DEF StepsInv
<1> QED
  BY <1>1, <1>6, <1>16

\* A sequence without its last element.
LEMMA FrontFacts ==
  ASSUME NEW S, NEW s \in Seq(S), s # << >>
  PROVE  /\ Len(s) \in Nat \ {0} /\ Front(s) \in Seq(S) /\ Len(Front(s)) = Len(s) - 1
         /\ \A k \in 1 .. Len(s) - 1 : Front(s)[k] = s[k]
<1> DEFINE n == Len(s)
<1>1. n \in Nat \ {0}
  BY EmptySeq
<1>2. \A k \in 1 .. n - 1 : s[k] \in S
  BY <1>1, ElementOfSeq
<1> HIDE DEF n
<1>3. /\ SubSeq(s, 1, n - 1) \in Seq(S)
      /\ Len(SubSeq(s, 1, n - 1)) = IF 1 <= n - 1 THEN n - 1 - 1 + 1 ELSE 0
      /\ \A k \in 1 .. n - 1 - 1 + 1 : SubSeq(s, 1, n - 1)[k] = s[1 + k - 1]
  BY <1>1, <1>2, SubSeqProperties
<1> DEFINE front == SubSeq(s, 1, n - 1)
<1>4. front \in Seq(S) /\ Len(front) = n - 1
  BY <1>1, <1>3
<1>5. \A k \in 1 .. n - 1 : front[k] = s[k]
  <2> SUFFICES ASSUME NEW k \in 1 .. n - 1 PROVE front[k] = s[k]
    OBVIOUS
  <2>1. k \in 1 .. n - 1 - 1 + 1 /\ 1 + k - 1 = k
    BY <1>1
  <2> QED
    BY <1>3, <2>1
<1>6. front = Front(s)
  BY DEF Front, n
<1> QED
  BY <1>1, <1>4, <1>5, <1>6 DEF n

\* The walk's state after instruction n.
WalkInv(p, sl, w, n, b) ==
  TableInv(p, sl, n, b) /\ SegmentInv(p, w, n, b) /\ StepsInv(p, w, n, b)

\* The instructions a loop step runs from i.
LEMMA LoopFacts ==
  ASSUME NEW p, WellFormed(p), NEW w, NEW i \in Continuous(p), LoopsOver(p.code[i], w) > 0,
         NEW hi, hi = i + LoopsOver(p.code[i], w) - 1
  PROVE  /\ hi \in Int /\ i <= hi /\ hi <= Len(p.code)
         /\ \A j \in i + 1 .. hi : InBody(p, j)
<1>1. /\ i \in Pcs(p) /\ i \in Nat /\ i <= Len(p.code) /\ Len(p.code) \in Nat
      /\ p.code[i].body \in Nat
  BY ContinuousFacts, CodeFacts
<1>2. CASE p.code[i].op = "sweep"
  <2>1. LoopsOver(p.code[i], w) = 1 + p.code[i].body
    BY <1>2 DEF LoopsOver, SplitWays
  <2>2. hi = i + p.code[i].body
    BY <1>1, <2>1
  <2>3. i + p.code[i].body <= Len(p.code)
    BY <1>1, <1>2 DEF WellFormed
  <2>4. \A j \in i + 1 .. hi : InBody(p, j)
    BY <1>1, <1>2, <2>2 DEF InBody, Body
  <2> QED
    BY <1>1, <2>2, <2>3, <2>4
<1>3. CASE p.code[i].op # "sweep"
  <2>1. LoopsOver(p.code[i], w) = 1
    BY <1>3 DEF LoopsOver
  <2> QED
    BY <1>1, <2>1
<1> QED
  BY <1>2, <1>3

\* A loop step joins the one before it, or follows all steps.
LEMMA PlaceLoopKeeps ==
  ASSUME NEW p, WellFormed(p), NEW w, NEW sl, NEW i \in Continuous(p), ~InBody(p, i),
         LoopsOver(p.code[i], w) > 0, NEW b, WalkInv(p, sl, w, i - 1, b),
         NEW hi, hi = i + LoopsOver(p.code[i], w) - 1,
         NEW g, g = PlaceLoop(p, b, w, i, hi)
  PROVE  WalkInv(p, sl, w, i, g)
<1> DEFINE f     == Flush(p, b, w)
           joins == f.steps # << >> /\ Last(f.steps).kind = "loop" /\ Last(f.steps).hi = i - 1
           base  == IF joins THEN Front(f.steps) ELSE f.steps
           step0 == [kind |-> "loop", lo |-> IF joins THEN Last(f.steps).lo ELSE i, hi |-> hi]
           m     == Len(base)
<1>0. /\ i \in Nat /\ i - 1 \in Nat /\ i \in Pcs(p) /\ i <= Len(p.code) /\ Len(p.code) \in Nat
      /\ i - 1 + 1 = i
  BY ContinuousFacts, CodeFacts DEF Pcs
<1>1. /\ TableInv(p, sl, i - 1, f) /\ StepsInv(p, w, i - 1, f) /\ f.seg = {}
  BY <1>0, FlushKeeps DEF WalkInv
<1>2. /\ DOMAIN g = WalkFields
      /\ g.steps = Append(base, step0)
      /\ g.write = [st \in DOMAIN f.write |-> 0] /\ g.read = [st \in DOMAIN f.read |-> 0]
      /\ g.dys = {} /\ g.seg = {}
      /\ g.store = f.store /\ g.off = f.off /\ g.len = f.len
  <2>1. DOMAIN f = WalkFields
    BY <1>1 DEF TableInv
  <2>2. g = [f EXCEPT !.steps = Append(IF joins THEN Front(@) ELSE @, step0),
                      !.write = [st \in DOMAIN @ |-> 0],
                      !.read  = [st \in DOMAIN @ |-> 0],
                      !.dys   = {}]
    BY DEF PlaceLoop
  <2> HIDE DEF f, joins, step0
  <2> QED
    BY <1>1, <2>1, <2>2 DEF WalkFields
<1>3. PICK S : f.steps \in Seq(S)
  BY <1>1 DEF StepsInv
<1> HIDE DEF f
<1>4. /\ base \in Seq(S) /\ m \in Nat
      /\ 1 .. m \subseteq DOMAIN f.steps
      /\ \A k \in 1 .. m : base[k] = f.steps[k]
      /\ joins => m + 1 \in DOMAIN f.steps /\ Last(f.steps) = f.steps[m + 1]
      /\ DOMAIN f.steps = IF joins THEN 1 .. m + 1 ELSE 1 .. m
  <2>0. DOMAIN f.steps = 1 .. Len(f.steps) /\ Len(f.steps) \in Nat
    BY <1>3, LenProperties
  <2>1. CASE joins
    <3>0. base = Front(f.steps) /\ f.steps # << >>
      BY <2>1
    <3>1. f.steps # << >>
      BY <2>1
    <3>2. /\ Len(f.steps) \in Nat \ {0}
          /\ Front(f.steps) \in Seq(S) /\ Len(Front(f.steps)) = Len(f.steps) - 1
          /\ \A k \in 1 .. Len(f.steps) - 1 : Front(f.steps)[k] = f.steps[k]
      BY <1>3, <3>1, FrontFacts
    <3>3. Last(f.steps) = f.steps[Len(f.steps)]
      BY DEF Last
    <3>4. m = Len(f.steps) - 1
      BY <3>0, <3>2
    <3> HIDE DEF joins, base, m
    <3> QED
      BY <2>0, <2>1, <3>0, <3>2, <3>3, <3>4
  <2>2. CASE ~joins
    <3>1. base = f.steps /\ m = Len(f.steps)
      BY <2>2
    <3> HIDE DEF joins, base, m
    <3> QED
      BY <1>3, <2>0, <2>2, <3>1
  <2> QED
    BY <2>1, <2>2
<1>5. joins => Last(f.steps).kind = "loop" /\ Last(f.steps).hi = i - 1
  OBVIOUS
<1>6. /\ step0.kind = "loop" /\ step0.hi = hi
      /\ step0.lo = IF joins THEN Last(f.steps).lo ELSE i
  OBVIOUS
<1> HIDE DEF base, joins, m, step0
<1>7. /\ \E U : g.steps \in Seq(U)
      /\ DOMAIN g.steps = 1 .. m + 1
      /\ \A k \in 1 .. m : g.steps[k] = f.steps[k]
      /\ g.steps[m + 1] = step0
  <2>1. base \in Seq(S \union {step0}) /\ step0 \in S \union {step0}
    BY <1>4, SeqMonotonic
  <2> DEFINE U == S \union {step0}
  <2> HIDE DEF U
  <2>3. /\ Append(base, step0) \in Seq(U) /\ Len(Append(base, step0)) = Len(base) + 1
        /\ \A k \in 1 .. Len(base) : Append(base, step0)[k] = base[k]
        /\ Append(base, step0)[Len(base) + 1] = step0
    BY <2>1, AppendProperties DEF U
  <2>4. m = Len(base) /\ g.steps = Append(base, step0)
    BY <1>2 DEF m
  <2>2. /\ g.steps \in Seq(U) /\ Len(g.steps) = m + 1
        /\ \A k \in 1 .. m : g.steps[k] = base[k]
        /\ g.steps[m + 1] = step0
    BY <2>3, <2>4
  <2> QED
    BY <1>4, <2>2, LenProperties
<1>8. /\ hi \in Int /\ i <= hi /\ hi <= Len(p.code) /\ \A j \in i + 1 .. hi : InBody(p, j)
  BY LoopFacts
<1>9. ASSUME joins
      PROVE  /\ step0.lo \in Int /\ step0.lo <= i - 1
             /\ Runs(f.steps[m + 1]) = step0.lo .. i - 1
             /\ \A j \in step0.lo .. i - 1 : j \in Continuous(p)
             /\ f.steps[m + 1].kind = "loop"
  <2>1. StepSound(p, w, i - 1, f, f.steps[m + 1])
    BY <1>1, <1>4, <1>9 DEF StepsInv
  <2>2. /\ f.steps[m + 1].kind = "loop" /\ f.steps[m + 1].hi = i - 1
        /\ f.steps[m + 1].lo = step0.lo
    BY <1>4, <1>5, <1>6, <1>9
  <2> QED
    BY <2>1, <2>2 DEF StepSound, LoopSound, Runs
<1>10. /\ step0.lo \in Int /\ step0.lo <= i /\ Runs(step0) = step0.lo .. hi
       /\ \A j \in step0.lo .. i - 1 : joins /\ j \in Continuous(p)
  <2>1. CASE joins
    BY <1>0, <1>6, <1>9, <2>1 DEF Runs
  <2>2. CASE ~joins
    BY <1>0, <1>6, <2>2 DEF Runs
  <2> QED
    BY <2>1, <2>2
<1>11. \A j \in Runs(step0) : j \in step0.lo .. i - 1 \/ j = i \/ j \in i + 1 .. hi
  BY <1>0, <1>8, <1>10
<1>12. StepSound(p, w, i, g, step0)
  <2>1. \A j \in i .. hi : j \in Continuous(p)
    BY <1>0, <1>8, ContinuousFacts, CodeFacts DEF Continuous
  <2>2. Runs(step0) \subseteq Continuous(p)
    <3> SUFFICES ASSUME NEW j \in Runs(step0) PROVE j \in Continuous(p)
      OBVIOUS
    <3>1. CASE j \in step0.lo .. i - 1
      BY <1>10, <3>1
    <3>2. CASE j = i
      BY <3>2
    <3>3. CASE j \in i + 1 .. hi
      BY <1>0, <1>8, <2>1, <3>3
    <3> QED
      BY <1>11, <3>1, <3>2, <3>3
  <2>3. \A j \in Runs(step0) : j <= i \/ InBody(p, j)
    BY <1>0, <1>8, <1>11
  <2>4. LoopSound(i, step0)
    BY <1>0, <1>6, <1>8, <1>10 DEF LoopSound
  <2> QED
    BY <1>2, <1>6, <2>2, <2>3, <2>4 DEF StepSound
<1>13. ASSUME NEW k \in 1 .. m PROVE StepSound(p, w, i, g, g.steps[k])
  <2>1. StepSound(p, w, i - 1, f, f.steps[k]) /\ g.steps[k] = f.steps[k]
    BY <1>1, <1>4, <1>7 DEF StepsInv
  <2>2. \A j \in Runs(f.steps[k]) : j <= i \/ InBody(p, j)
    BY <1>0, <2>1, ContinuousFacts DEF StepSound
  <2>3. f.steps[k].kind = "loop" => LoopSound(i, f.steps[k])
    BY <1>0, <2>1 DEF StepSound, LoopSound
  <2> QED
    BY <1>2, <2>1, <2>2, <2>3 DEF StepSound
<1>14. ASSUME NEW k \in 1 .. m, NEW a \in Runs(f.steps[k]), NEW c \in Runs(step0)
       PROVE  a < c
  <2>1. a < i
    <3>1. k \in DOMAIN f.steps
      BY <1>4
    <3> QED
      BY <1>0, <1>1, <3>1, NextIsLater
  <2>2. a \in Int
    <3>1. StepSound(p, w, i - 1, f, f.steps[k])
      BY <1>1, <1>4 DEF StepsInv
    <3> QED
      BY <3>1, ContinuousFacts DEF StepSound
  <2>3. CASE c \in step0.lo .. i - 1
    <3>1. joins /\ c \in Runs(f.steps[m + 1])
      BY <1>9, <1>10, <2>3
    <3>2. InOrder(p, f.store, f.steps[k], f.steps[m + 1])
      <4>1. k \in DOMAIN f.steps /\ m + 1 \in DOMAIN f.steps /\ k < m + 1
        BY <1>4, <3>1
      <4> QED
        BY <1>1, <4>1 DEF StepsInv
    <3> QED
      BY <1>9, <3>1, <3>2 DEF InOrder
  <2> QED
    BY <1>0, <1>11, <2>1, <2>2, <2>3
<1>15. ASSUME NEW k \in DOMAIN g.steps, NEW l \in DOMAIN g.steps, k < l
       PROVE  InOrder(p, g.store, g.steps[k], g.steps[l])
  <2>1. k \in 1 .. m
    BY <1>4, <1>7, <1>15
  <2>2. CASE l \in 1 .. m
    <3>1. InOrder(p, f.store, f.steps[k], f.steps[l])
      BY <1>1, <1>4, <1>15, <2>1, <2>2 DEF StepsInv
    <3> QED
      BY <1>2, <1>7, <2>1, <2>2, <3>1
  <2>3. CASE l = m + 1
    BY <1>7, <1>14, <2>1, <2>3 DEF InOrder
  <2> QED
    BY <1>4, <1>7, <2>2, <2>3
<1>16. Covered(p, i, g)
  <2> SUFFICES ASSUME NEW j \in Continuous(p), j <= i, ~InBody(p, j), ~Idle(p, j)
               PROVE  \E k \in DOMAIN g.steps : j \in Runs(g.steps[k])
    BY DEF Covered
  <2>1. m + 1 \in DOMAIN g.steps
    BY <1>4, <1>7
  <2>2. CASE j = i
    <3>1. j \in Runs(g.steps[m + 1])
      BY <1>0, <1>7, <1>8, <1>10, <2>2
    <3> QED
      BY <2>1, <3>1
  <2>3. CASE j # i
    <3>1. j <= i - 1 /\ j \in Int
      BY <1>0, <2>3, ContinuousFacts
    <3>2. PICK k \in DOMAIN f.steps : j \in Runs(f.steps[k])
      BY <1>1, <3>1 DEF StepsInv, Covered
    <3>3. CASE k \in 1 .. m
      <4>1. k \in DOMAIN g.steps /\ j \in Runs(g.steps[k])
        BY <1>4, <1>7, <3>2, <3>3
      <4> QED
        BY <4>1
    <3>4. CASE joins /\ k = m + 1
      <4>1. j \in Runs(g.steps[m + 1])
        BY <1>0, <1>7, <1>8, <1>9, <1>10, <3>2, <3>4
      <4> QED
        BY <2>1, <4>1
    <3>5. k \in 1 .. m \/ (joins /\ k = m + 1)
      BY <1>4
    <3> QED
      BY <3>3, <3>4, <3>5
  <2> QED
    BY <2>2, <2>3
<1>17. StepsInv(p, w, i, g)
  <2>1. \A k \in DOMAIN g.steps : k \in 1 .. m \/ k = m + 1
    BY <1>4, <1>7
  <2>2. \A k \in DOMAIN g.steps : StepSound(p, w, i, g, g.steps[k])
    BY <1>7, <1>12, <1>13, <2>1
  <2> QED
    BY <1>7, <1>15, <1>16, <2>2 DEF StepsInv
<1>18. TableInv(p, sl, i, g)
  <2> DEFINE h == Len(f.write)
  <2>1. f.write \in Seq(Nat) /\ f.read \in Seq(Nat) /\ Len(f.read) = h
    BY <1>1 DEF TableInv
  <2>2. h \in Nat /\ DOMAIN f.write = 1 .. h /\ DOMAIN f.read = 1 .. h
    BY <2>1, LenProperties
  <2> HIDE DEF h
  <2>3. g.write = [st \in 1 .. h |-> 0] /\ g.read = [st \in 1 .. h |-> 0]
    BY <1>2, <2>2, Zenon
  <2>6. g.write \in [1 .. h -> Nat] /\ g.read \in [1 .. h -> Nat]
    BY <2>3
  <2>4. g.write \in Seq(Nat) /\ g.read \in Seq(Nat) /\ Len(g.write) = h /\ Len(g.read) = h
    BY <2>2, <2>6, FunctionIsSeq
  <2>5. ASSUME NEW st \in 1 .. h PROVE g.write[st] <= i /\ g.read[st] <= i
    <3>1. g.write[st] = 0 /\ g.read[st] = 0
      BY <2>3, Zenon
    <3> QED
      BY <1>0, <3>1
  <2>7. h = Len(g.write)
    BY <2>4
  <2>8. \A st \in 1 .. Len(g.write) : g.write[st] <= i /\ g.read[st] <= i
    BY <2>5, <2>7
  <2>9. Len(g.write) = Len(f.write)
    BY <2>7 DEF h
  <2>10. /\ f.store \in [Slots(p) -> Nat]
         /\ \A d \in f.dys : d.phase \in 0 .. i - 1
         /\ \A s \in Defined(p) : f.store[s] \in 1 .. Len(f.write)
    BY <1>1 DEF TableInv
  <2>11. /\ \A s, t \in Defined(p) : f.store[s] = f.store[t] => sl.store[s] = sl.store[t]
         /\ \A s \in Defined(p) : Def(p, s) \notin Continuous(p) => f.off[s] = sl.off[s]
         /\ Layout(p, f.store, f.off, f.len)
    BY <1>1 DEF TableInv
  <2>12. DOMAIN g = WalkFields /\ g.store = f.store /\ g.off = f.off /\ g.len = f.len
    BY <1>2
  <2>13. \A d \in g.dys : d.phase \in 0 .. i
    BY <1>2
  <2>14. g.store \in [Slots(p) -> Nat] /\ \A s \in Defined(p) : g.store[s] \in 1 .. Len(g.write)
    BY <2>9, <2>10, <2>12
  <2>15. /\ \A s, t \in Defined(p) : g.store[s] = g.store[t] => sl.store[s] = sl.store[t]
         /\ \A s \in Defined(p) : Def(p, s) \notin Continuous(p) => g.off[s] = sl.off[s]
         /\ Layout(p, g.store, g.off, g.len)
    BY <2>11, <2>12
  <2>16. Len(g.read) = Len(g.write)
    BY <2>4
  <2> QED
    BY <2>4, <2>8, <2>12, <2>13, <2>14, <2>15, <2>16, TableHolds, Zenon
<1>19. SegmentInv(p, w, i, g)
  BY <1>2 DEF SegmentInv
<1> QED
  BY <1>17, <1>18, <1>19 DEF WalkInv

\* What every later instruction leaves of the tables.
LEMMA TableGrows ==
  ASSUME NEW p, NEW sl, NEW w, NEW i \in Nat, NEW n \in Nat, n <= i, NEW b,
         TableInv(p, sl, n, b), SegmentInv(p, w, n, b)
  PROVE  TableInv(p, sl, i, b) /\ SegmentInv(p, w, i, b)
<1>1. ASSUME NEW st \in 1 .. Len(b.write) PROVE b.write[st] <= i /\ b.read[st] <= i
  <2>1. b.write[st] \in 0 .. n /\ b.read[st] \in 0 .. n
    BY TableTypes
  <2> QED
    BY <2>1
<1>2. \A d \in b.dys : d.phase \in 0 .. i
  BY DEF TableInv
<1>3. TableInv(p, sl, i, b)
  BY <1>1, <1>2 DEF TableInv
<1>4. \A x \in b.seg : x.pc \in 1 .. i /\ x.phase \in 0 .. i - 1
  BY DEF SegmentInv
<1> QED
  BY <1>3, <1>4 DEF SegmentInv

\* An instruction of a body, or a DyWrite with nothing left to copy, adds nothing.
LEMMA SkipKeeps ==
  ASSUME NEW p, WellFormed(p), NEW w, NEW sl, NEW i \in Continuous(p),
         InBody(p, i) \/ Idle(p, i), NEW b, WalkInv(p, sl, w, i - 1, b)
  PROVE  WalkInv(p, sl, w, i, b)
<1>0. i \in Nat /\ i - 1 \in Nat /\ i - 1 <= i
  BY ContinuousFacts, CodeFacts DEF Pcs
<1>1. TableInv(p, sl, i, b) /\ SegmentInv(p, w, i, b)
  BY <1>0, TableGrows DEF WalkInv
<1>2. ASSUME NEW k \in DOMAIN b.steps PROVE StepSound(p, w, i, b, b.steps[k])
  <2>1. StepSound(p, w, i - 1, b, b.steps[k])
    BY DEF WalkInv, StepsInv
  <2>2. \A j \in Runs(b.steps[k]) : j <= i \/ InBody(p, j)
    BY <1>0, <2>1, ContinuousFacts DEF StepSound
  <2>3. b.steps[k].kind = "loop" => LoopSound(i, b.steps[k])
    BY <1>0, <2>1 DEF StepSound, LoopSound
  <2> QED
    BY <2>1, <2>2, <2>3 DEF StepSound
<1>3. Covered(p, i, b)
  <2> SUFFICES ASSUME NEW j \in Continuous(p), j <= i, ~InBody(p, j), ~Idle(p, j)
               PROVE  \/ \E x \in b.seg : x.pc = j
                      \/ \E k \in DOMAIN b.steps : j \in Runs(b.steps[k])
    BY DEF Covered
  <2>1. j <= i - 1
    <3>1. j # i /\ j \in Int
      BY ContinuousFacts
    <3> QED
      BY <1>0, <3>1
  <2> QED
    BY <2>1 DEF WalkInv, StepsInv, Covered
<1>4. StepsInv(p, w, i, b)
  BY <1>2, <1>3 DEF WalkInv, StepsInv
<1> QED
  BY <1>1, <1>4 DEF WalkInv

\* A task waits for the flush after every step there is.
LEMMA TaskKeeps ==
  ASSUME NEW p, WellFormed(p), NEW w, NEW sl, NEW i \in Continuous(p), Placeable(p, w, i),
         NEW b, WalkInv(p, sl, w, i - 1, b), NEW new, new = PlaceTask(p, sl, w, b, i)
  PROVE  WalkInv(p, sl, w, i, new)
<1>0. /\ i \in Nat /\ i - 1 \in Nat /\ i \in Pcs(p) /\ ~InBody(p, i - 1 + 1) /\ i - 1 + 1 = i
  BY ContinuousFacts, CodeFacts DEF Pcs, Placeable
<1>1. /\ TableInv(p, sl, i - 1, b) /\ SegmentInv(p, w, i - 1, b) /\ StepsInv(p, w, i - 1, b)
  BY DEF WalkInv
<1>2. /\ TableInv(p, sl, i, new) /\ SegmentInv(p, w, i, new)
      /\ \A s \in Slots(p) \ {i} : new.store[s] = b.store[s]
      /\ new.steps = b.steps
      /\ \E phase : new.seg = b.seg \union {[pc |-> i, phase |-> phase]}
  <2>1. TaskPlaced(p, sl, w, i, b, new)
    BY <1>0, <1>1, PlaceTaskKeeps
  <2> QED
    BY <2>1 DEF TaskPlaced
<1>3. PICK phase : new.seg = b.seg \union {[pc |-> i, phase |-> phase]}
  BY <1>2
<1>4. ASSUME NEW k \in DOMAIN b.steps, NEW j \in Runs(b.steps[k])
      PROVE  j < i /\ j \in Int /\ j \in Pcs(p)
  <2>1. j < i - 1 + 1
    BY <1>0, <1>1, NextIsLater
  <2>2. j \in Continuous(p)
    BY <1>1 DEF StepsInv, StepSound
  <2> QED
    BY <1>0, <2>1, <2>2, ContinuousFacts
<1>5. ASSUME NEW k \in DOMAIN b.steps, b.steps[k].kind = "fork", NEW x \in Runs(b.steps[k]),
             NEW l \in DOMAIN b.steps, b.steps[l].kind = "fork", NEW y \in Runs(b.steps[l]),
             Apart(p, b.store, x, y)
      PROVE  Apart(p, new.store, x, y)
  <2>1. Placeable(p, w, x) /\ Placeable(p, w, y)
    BY <1>1, <1>5 DEF StepsInv, StepSound, ForkSound, Runs
  <2> QED
    BY <1>0, <1>2, <1>4, <1>5, <2>1, ApartStays
<1>6. ASSUME NEW k \in DOMAIN b.steps PROVE StepSound(p, w, i, new, b.steps[k])
  <2>1. StepSound(p, w, i - 1, b, b.steps[k])
    BY <1>1 DEF StepsInv
  <2>2. \A j \in Runs(b.steps[k]) : j <= i
    BY <1>0, <1>4
  <2>3. b.steps[k].kind = "loop" => LoopSound(i, b.steps[k])
    BY <1>0, <2>1 DEF StepSound, LoopSound
  <2>4. b.steps[k].kind = "fork" => ForkSound(p, w, new.store, b.steps[k])
    BY <1>5, <2>1 DEF StepSound, ForkSound, Runs
  <2>5. ASSUME NEW j \in Runs(b.steps[k]), NEW x \in new.seg PROVE j < x.pc
    <3>1. CASE x \in b.seg
      BY <2>1, <3>1 DEF StepSound
    <3>2. CASE x = [pc |-> i, phase |-> phase]
      BY <1>4, <3>2
    <3> QED
      BY <1>3, <3>1, <3>2
  <2> QED
    BY <2>1, <2>2, <2>3, <2>4, <2>5 DEF StepSound
<1>7. ASSUME NEW k \in DOMAIN b.steps, NEW l \in DOMAIN b.steps, k < l
      PROVE  InOrder(p, new.store, b.steps[k], b.steps[l])
  <2>1. InOrder(p, b.store, b.steps[k], b.steps[l])
    BY <1>1, <1>7 DEF StepsInv
  <2> QED
    BY <1>5, <2>1 DEF InOrder
<1>8. Covered(p, i, new)
  <2> SUFFICES ASSUME NEW j \in Continuous(p), j <= i, ~InBody(p, j), ~Idle(p, j)
               PROVE  \/ \E x \in new.seg : x.pc = j
                      \/ \E k \in DOMAIN b.steps : j \in Runs(b.steps[k])
    BY <1>2 DEF Covered
  <2>1. CASE j = i
    <3>1. [pc |-> i, phase |-> phase] \in new.seg /\ [pc |-> i, phase |-> phase].pc = i
      BY <1>3
    <3> QED
      BY <2>1, <3>1
  <2>2. CASE j # i
    <3>1. j <= i - 1
      BY <1>0, <2>2, ContinuousFacts
    <3>2. \/ \E x \in b.seg : x.pc = j
          \/ \E k \in DOMAIN b.steps : j \in Runs(b.steps[k])
      BY <1>1, <3>1 DEF StepsInv, Covered
    <3> QED
      BY <1>3, <3>2
  <2> QED
    BY <2>1, <2>2
<1>9. StepsInv(p, w, i, new)
  BY <1>1, <1>2, <1>6, <1>7, <1>8 DEF StepsInv
<1> QED
  BY <1>2, <1>9 DEF WalkInv

LEMMA PlaceInstrKeeps ==
  ASSUME NEW p, WellFormed(p), NEW w, NEW sl, NEW i \in Continuous(p),
         NEW b, WalkInv(p, sl, w, i - 1, b), NEW new, new = PlaceInstr(p, sl, w, b, i)
  PROVE  WalkInv(p, sl, w, i, new)
<1> DEFINE n == LoopsOver(p.code[i], w)
<1>1. n \in Nat
  <2>1. p.code[i].body \in Nat
    BY ContinuousFacts, CodeFacts
  <2>2. n = 1 + p.code[i].body \/ n = 1 \/ n = 0
    BY DEF LoopsOver, SplitWays
  <2> QED
    BY <2>1, <2>2
<1>2. CASE InBody(p, i) \/ (n = 0 /\ Idle(p, i))
  <2>1. new = b
    BY <1>1, <1>2 DEF PlaceInstr
  <2> QED
    BY <1>2, <2>1, SkipKeeps
<1>3. CASE ~InBody(p, i) /\ n > 0
  <2>1. new = PlaceLoop(p, b, w, i, i + n - 1)
    BY <1>1, <1>3 DEF PlaceInstr
  <2> QED
    BY <1>3, <2>1, PlaceLoopKeeps
<1>4. CASE ~InBody(p, i) /\ n = 0 /\ ~Idle(p, i)
  <2>1. new = PlaceTask(p, sl, w, b, i)
    BY <1>1, <1>4 DEF PlaceInstr
  <2>2. Placeable(p, w, i)
    <3>1. p.code[i].op # "sweep"
      <4> SUFFICES ASSUME p.code[i].op = "sweep" PROVE FALSE
        OBVIOUS
      <4>1. n = 1 + p.code[i].body /\ p.code[i].body \in Nat
        BY ContinuousFacts, CodeFacts DEF LoopsOver, SplitWays
      <4> QED
        BY <1>4, <4>1
    <3>2. SplitWays(p.code[i], w) > 1 => Shares(p.code[i])
      BY <1>4, <3>1 DEF LoopsOver
    <3> QED
      BY <1>4, <3>1, <3>2 DEF Placeable
  <2> QED
    BY <2>1, <2>2, TaskKeeps
<1> QED
  BY <1>1, <1>2, <1>3, <1>4

-----------------------------------------------------------------------------
(* The whole walk *)

LEMMA WalkSteps ==
  ASSUME NEW p, WellFormed(p), NEW sl, NEW w,
         NEW from, from = p.const + p.segment, NEW walk, walk = Walk(p, sl, w)
  PROVE  walk = [i \in from .. Len(p.code) |->
           IF i = from THEN StartWalk(p, sl) ELSE PlaceInstr(p, sl, w, walk[i - 1], i)]
<1> DEFINE Rec(g, k) == g = [i \in from .. k |->
             IF i = from THEN StartWalk(p, sl) ELSE PlaceInstr(p, sl, w, g[i - 1], i)]
           B == {k \in Nat : from <= k /\ ~ \E g : Rec(g, k)}
<1>0. from \in Nat /\ Len(p.code) \in Nat /\ from <= Len(p.code)
  BY CodeFacts
<1>1. B = {}
  <2> SUFFICES ASSUME B # {} PROVE FALSE
    OBVIOUS
  <2>1. PICK k \in B : \A y \in B : k <= y
    BY NatHasLeast
  <2>2. k \in Nat /\ from <= k /\ ~ \E g : Rec(g, k)
    BY <2>1
  <2>3. CASE k = from
    <3>1. Rec([i \in from .. from |-> StartWalk(p, sl)], from)
      BY <1>0
    <3> QED
      BY <3>1, <2>2, <2>3
  <2>4. CASE k # from
    <3>1. k - 1 \in Nat /\ from <= k - 1 /\ ~ (k <= k - 1)
      BY <1>0, <2>2, <2>4
    <3>2. k - 1 \notin B
      BY <3>1, <2>1
    <3>3. PICK g : Rec(g, k - 1)
      BY <3>1, <3>2
    <3> DEFINE h == [i \in from .. k |->
                       IF i < k THEN g[i] ELSE PlaceInstr(p, sl, w, g[k - 1], k)]
    <3>4. \A i \in from .. k : h[i] = IF i = from THEN StartWalk(p, sl)
                                      ELSE PlaceInstr(p, sl, w, h[i - 1], i)
      BY <1>0, <3>1, <3>3, <2>2, <2>4
    <3>5. Rec(h, k)
      BY <3>4
    <3> QED
      BY <3>5, <2>2
  <2> QED
    BY <2>3, <2>4
<1>2. PICK g : Rec(g, Len(p.code))
  BY <1>0, <1>1
<1>3. Rec(CHOOSE f : Rec(f, Len(p.code)), Len(p.code))
  BY <1>2, Zenon
<1>4. walk = CHOOSE f : Rec(f, Len(p.code))
  BY DEF Walk
<1> QED
  BY <1>3, <1>4

LEMMA StartIsSound ==
  ASSUME NEW p, WellFormed(p), NEW w, NEW sl, sl = ColorSlab(p),
         NEW from, from = p.const + p.segment, NEW b, b = StartWalk(p, sl)
  PROVE  WalkInv(p, sl, w, from, b)
<1> DEFINE h == Len(sl.sizes)
<1>1. from \in Nat
  BY CodeFacts
<1>2. /\ sl.store \in [Slots(p) -> Nat] /\ sl.sizes \in Seq(Nat)
      /\ \A s \in Defined(p) : sl.store[s] \in 1 .. h
      /\ Layout(p, sl.store, sl.off, sl.total)
  BY SlabLayout
<1>3. h \in Nat /\ DOMAIN sl.sizes = 1 .. h
  BY <1>2, LenProperties
<1>4. /\ DOMAIN b = WalkFields
      /\ b.steps = << >> /\ b.seg = {} /\ b.dys = {}
      /\ b.write = [st \in DOMAIN sl.sizes |-> 0] /\ b.read = [st \in DOMAIN sl.sizes |-> 0]
      /\ b.store = sl.store /\ b.off = sl.off /\ b.len = sl.total
  BY DEF StartWalk, WalkFields
<1> HIDE DEF h
<1>5. b.write = [st \in 1 .. h |-> 0] /\ b.read = [st \in 1 .. h |-> 0]
  BY <1>3, <1>4
<1>6. b.write \in [1 .. h -> Nat] /\ b.read \in [1 .. h -> Nat]
  BY <1>5
<1>7. b.write \in Seq(Nat) /\ b.read \in Seq(Nat) /\ Len(b.write) = h /\ Len(b.read) = h
  BY <1>3, <1>6, FunctionIsSeq
<1>8. ASSUME NEW st \in 1 .. h PROVE b.write[st] <= from /\ b.read[st] <= from
  <2>1. b.write[st] = 0 /\ b.read[st] = 0
    BY <1>5, Zenon
  <2> QED
    BY <1>1, <2>1
<1>9. TableInv(p, sl, from, b)
  BY <1>2, <1>4, <1>7, <1>8 DEF TableInv
<1>10. SegmentInv(p, w, from, b)
  BY <1>4 DEF SegmentInv
<1>11. Covered(p, from, b)
  BY <1>1, ContinuousFacts DEF Covered
<1>12. b.steps \in Seq({}) /\ DOMAIN b.steps = {}
  BY <1>4, EmptySeq
<1>13. StepsInv(p, w, from, b)
  BY <1>11, <1>12 DEF StepsInv
<1> QED
  BY <1>9, <1>10, <1>13 DEF WalkInv

LEMMA WalkIsSound ==
  ASSUME NEW p, WellFormed(p), NEW w, NEW sl, sl = ColorSlab(p)
  PROVE  WalkInv(p, sl, w, Len(p.code), Walk(p, sl, w)[Len(p.code)])
<1> DEFINE from == p.const + p.segment
           walk == Walk(p, sl, w)
           B    == {i \in Nat : i \in from .. Len(p.code) /\ ~WalkInv(p, sl, w, i, walk[i])}
<1>0. from \in Nat /\ Len(p.code) \in Nat /\ from <= Len(p.code)
  BY CodeFacts
<1>1. walk = [i \in from .. Len(p.code) |->
        IF i = from THEN StartWalk(p, sl) ELSE PlaceInstr(p, sl, w, walk[i - 1], i)]
  BY WalkSteps
<1> HIDE DEF walk
<1>2. WalkInv(p, sl, w, from, walk[from])
  <2>1. walk[from] = StartWalk(p, sl)
    BY <1>0, <1>1
  <2> QED
    BY <2>1, StartIsSound
<1>3. \A i \in Continuous(p) : i - 1 \in from .. Len(p.code) /\ i \in from .. Len(p.code) /\ i # from
  BY <1>0, ContinuousFacts
<1>4. ASSUME NEW i \in Continuous(p), WalkInv(p, sl, w, i - 1, walk[i - 1])
      PROVE  WalkInv(p, sl, w, i, walk[i])
  <2>1. walk[i] = PlaceInstr(p, sl, w, walk[i - 1], i)
    BY <1>1, <1>3
  <2> QED
    BY <1>4, <2>1, PlaceInstrKeeps
<1> HIDE DEF from
<1>5. B = {}
  <2> SUFFICES ASSUME B # {} PROVE FALSE
    OBVIOUS
  <2>1. PICK i \in B : \A y \in B : i <= y
    BY NatHasLeast
  <2>2. i # from
    BY <1>2, <2>1
  <2>3. i \in Nat /\ i - 1 \in Nat /\ i - 1 \in from .. Len(p.code) /\ ~ (i <= i - 1)
    BY <1>0, <2>1, <2>2
  <2>4. i \in Continuous(p)
    BY <1>0, <2>1, <2>2 DEF Continuous, from
  <2>5. WalkInv(p, sl, w, i - 1, walk[i - 1])
    BY <2>1, <2>3
  <2> QED
    BY <1>4, <2>1, <2>4, <2>5
<1> QED
  BY <1>0, <1>5 DEF walk

\* What a plan promises: its layout keeps apart what is not of one storage, and
\* its steps order what conflicts and leave no instruction out.
PlanSound(p, sl, w, b, r) ==
  /\ r.ways = w /\ r.steps = b.steps /\ r.off = b.off /\ r.len = b.len
  /\ b.seg = {}
  /\ TableInv(p, sl, Len(p.code), b)
  /\ StepsInv(p, w, Len(p.code), b)

\* What CallPlan::build returns, for any program and width, promises that.
THEOREM PlanIsSound ==
  ASSUME NEW p, WellFormed(p), NEW w, NEW sl, sl = ColorSlab(p)
  PROVE  \E b : PlanSound(p, sl, w, b, BuildPlan(p, sl, w))
<1> DEFINE e == Walk(p, sl, w)[Len(p.code)]
           f == Flush(p, e, w)
<1>0. Len(p.code) \in Nat
  BY CodeFacts
<1>1. TableInv(p, sl, Len(p.code), e) /\ SegmentInv(p, w, Len(p.code), e)
      /\ StepsInv(p, w, Len(p.code), e)
  BY WalkIsSound DEF WalkInv
<1> HIDE DEF e
<1>2. TableInv(p, sl, Len(p.code), f) /\ StepsInv(p, w, Len(p.code), f) /\ f.seg = {}
  BY <1>0, <1>1, FlushKeeps
<1>3. BuildPlan(p, sl, w) = [ways |-> w, steps |-> f.steps, off |-> f.off, len |-> f.len]
  BY DEF BuildPlan, e
<1> HIDE DEF f
<1>4. PlanSound(p, sl, w, f, BuildPlan(p, sl, w))
  BY <1>2, <1>3 DEF PlanSound
<1> QED
  BY <1>4

-----------------------------------------------------------------------------
(* Where tasks read and write *)

ProgramInv ==
  /\ prog \in Programs
  /\ slab = ColorSlab(prog)
  /\ home = [s \in Slots(prog) |-> HomeOf(prog, s)]

SlabSpan(s) == {<<"slab", a>> : a \in off[s] .. off[s] + Elems(prog, s) - 1}
DySpan(r)   == {<<"dy", a>> : a \in r.lo .. r.hi - 1}

PreReduces(p, i) == p.code[i].op = "fused" /\ p.code[i].inner > 0

\* Where a part of task i may write.
WriteSpot(i, l) ==
  \/ \E r \in DyRange(prog, i) : l \in DySpan(r)
  \/ \E s \in PlannedWrites(prog, i) : l \in SlabSpan(s)
  \/ PreReduces(prog, i) /\ l \in SlabSpan(Second(prog, i))

ReadSpot(i, l) == \E s \in Reads(prog, i) \ {Second(prog, i)} : l \in SlabSpan(s)

\* The tape programs the spec runs.
LEMMA ProgFacts ==
  ASSUME ProgramInv
  PROVE  /\ WellFormed(prog) /\ Len(prog.code) \in Nat
         /\ \A i \in Pcs(prog) : prog.code[i].op = "dy" =>
              /\ prog.code[i].at + prog.code[i].elems <= DyLen
              /\ (prog.code[i].at % DyBlock) + prog.code[i].elems <= DyBlock
         /\ \A s \in Slots(prog) : home[s] = HomeOf(prog, s)
<1>1. WellFormed(prog)
  BY TapeAssumption DEF ProgramInv
<1> QED
  BY <1>1, CodeFacts, TapeAssumption DEF ProgramInv

\* Second slots have no home in dy, nor has what a placed task reads.
LEMMA LocFacts ==
  ASSUME ProgramInv, NEW s \in Slots(prog), NEW c
  PROVE  /\ Homed(prog, s) => Loc(s, c) = <<"dy", HomeOf(prog, s) + c>>
         /\ ~Homed(prog, s) => Loc(s, c) = <<"slab", off[s] + c>>
BY ProgFacts DEF Loc, Homed

LEMMA Unhomed ==
  ASSUME ProgramInv, NEW i \in Pcs(prog), prog.code[i].op # "sweep"
  PROVE  /\ ~Homed(prog, Second(prog, i)) /\ Second(prog, i) \in Slots(prog)
         /\ ~Idle(prog, i) => \A s \in Reads(prog, i) : ~Homed(prog, s)
         /\ prog.code[i].op # "fused" => ~Homed(prog, i)
<1>1. WellFormed(prog) /\ Len(prog.code) \in Nat /\ i \in 1 .. Len(prog.code)
  BY ProgFacts DEF Pcs
<1>2. Second(prog, i) \in Slots(prog) /\ Second(prog, i) \notin Continuous(prog)
  <2>1. Second(prog, i) \in Slots(prog) /\ Second(prog, i) > Len(prog.code)
    BY <1>1 DEF Second, Slots
  <2> QED
    BY <1>1, <2>1, ContinuousFacts
<1>3. ASSUME NEW s \in Reads(prog, i), Homed(prog, s) PROVE Idle(prog, i)
  <2>1. PICK k \in Continuous(prog) : Readers(prog, s) = {k} /\ prog.code[k].op = "dy"
    BY <1>1, <1>3, HomeFacts
  <2>2. i \in Readers(prog, s)
    BY DEF Readers
  <2> QED
    BY <1>3, <2>1, <2>2 DEF Idle
<1> QED
  BY <1>1, <1>2, <1>3, HomeFacts

\* The cells a task computes.
LEMMA ExtentFacts ==
  ASSUME ProgramInv, NEW i \in Pcs(prog)
  PROVE  /\ Extent(i) \in Nat /\ All(i) \subseteq Nat
         /\ ~PreReduces(prog, i) => Extent(i) = prog.code[i].elems
         /\ PreReduces(prog, i) => Extent(i) = prog.code[i].inner /\ Extent(i) > 0
<1>1. prog.code[i].elems \in Nat /\ prog.code[i].inner \in Nat
  BY ProgFacts, CodeFacts
<1> QED
  BY <1>1 DEF Extent, All, Code, PreReduces

LEMMA OutCellsFacts ==
  ASSUME ProgramInv, NEW i \in Pcs(prog), NEW cells, cells \subseteq All(i)
  PROVE  /\ OutCells(i, cells) \subseteq 0 .. prog.code[i].elems - 1
         /\ ~PreReduces(prog, i) => OutCells(i, cells) = cells
<1>1. prog.code[i].elems \in Nat
  BY ProgFacts, CodeFacts
<1>2. ASSUME ~PreReduces(prog, i) PROVE OutCells(i, cells) = cells
  <2>1. Extent(i) = prog.code[i].elems /\ cells \subseteq 0 .. prog.code[i].elems - 1
    BY <1>2, ExtentFacts DEF All
  <2>2. \A c \in 0 .. prog.code[i].elems - 1 : c % prog.code[i].elems = c
    BY <1>1
  <2> QED
    BY <2>1, <2>2 DEF OutCells, Code
<1> QED
  BY <1>1, <1>2 DEF OutCells, Code

\* A DyWrite stays in its variable's block.
LEMMA DyWriteInBlock ==
  ASSUME ProgramInv, NEW i \in Pcs(prog), prog.code[i].op = "dy",
         NEW c \in 0 .. prog.code[i].elems - 1
  PROVE  \E r \in DyRange(prog, i) : <<"dy", prog.code[i].at + c>> \in DySpan(r)
<1> DEFINE a     == prog.code[i].at
           e     == prog.code[i].elems
           block == (a \div DyBlock) * DyBlock
           r     == [lo |-> block, hi |-> block + DyBlock]
<1>1. a \in Nat /\ e \in Nat /\ DyBlock \in Nat \ {0} /\ (a % DyBlock) + e <= DyBlock
  BY ProgFacts, CodeFacts, PlanAssumption
<1>2. r \in DyRange(prog, i)
  <2>1. ~Homed(prog, i)
    BY ProgFacts, HomeFacts
  <2> QED
    BY <2>1 DEF DyRange
<1>3. a = block + (a % DyBlock) /\ a % DyBlock \in 0 .. DyBlock - 1 /\ block \in Int
  <2> HIDE DEF a
  <2> DEFINE q == a \div DyBlock
  <2>1. q \in Int /\ a = DyBlock * q + (a % DyBlock) /\ a % DyBlock \in 0 .. DyBlock - 1
    BY <1>1
  <2> HIDE DEF q
  <2>2. DyBlock * q = q * DyBlock /\ q * DyBlock \in Int
    BY <1>1, <2>1
  <2> QED
    BY <2>1, <2>2 DEF q
<1> HIDE DEF a, e
<1>4. c \in Int /\ 0 <= c /\ c <= e - 1
  BY <1>1 DEF e
<1> HIDE DEF block
<1>5. a + c \in block .. block + DyBlock - 1
  BY <1>1, <1>3, <1>4
<1>6. <<"dy", a + c>> \in DySpan(r)
  <2>1. r.lo = block /\ r.hi - 1 = block + DyBlock - 1
    BY <1>1, <1>3 DEF r
  <2>2. a + c \in r.lo .. r.hi - 1
    BY <1>5, <2>1
  <2> HIDE DEF r
  <2> QED
    BY <2>2 DEF DySpan
<1> QED
  BY <1>2, <1>6 DEF a

LEMMA ResultLocs ==
  ASSUME ProgramInv, NEW i \in Continuous(prog), prog.code[i].op # "sweep",
         off \in [Slots(prog) -> Nat],
         NEW cells, cells \subseteq All(i), NEW pass, NEW l \in LocsOf(Results(i, cells, pass))
  PROVE  WriteSpot(i, l)
<1>1. /\ WellFormed(prog) /\ i \in Pcs(prog) /\ i \in Slots(prog) /\ i \in Int
      /\ prog.code[i].elems \in Nat /\ prog.code[i].inner \in Nat
  BY ProgFacts, ContinuousFacts, CodeFacts DEF Pcs, Slots
<1>2. CASE prog.code[i].op = "dy"
  <2>1. PICK c \in cells : l = <<"dy", prog.code[i].at + c>>
    BY <1>2 DEF LocsOf, Results, Code
  <2>2. c \in 0 .. prog.code[i].elems - 1
    BY <1>1, <1>2, ExtentFacts DEF All, PreReduces
  <2> QED
    BY <1>1, <1>2, <2>1, <2>2, DyWriteInBlock DEF WriteSpot
<1>3. CASE prog.code[i].op # "dy"
  <2>1. \/ \E c \in OutCells(i, cells) : l = Loc(i, c)
        \/ PreReduces(prog, i) /\ \E c \in cells : l = Loc(Second(prog, i), c)
    BY <1>3 DEF LocsOf, Results, Code, PreReduces
  <2>2. CASE \E c \in OutCells(i, cells) : l = Loc(i, c)
    <3>1. PICK c \in 0 .. prog.code[i].elems - 1 : l = Loc(i, c)
      BY <1>1, <2>2, OutCellsFacts
    <3>2. CASE Homed(prog, i)
      <4> DEFINE r == [lo |-> HomeOf(prog, i), hi |-> HomeOf(prog, i) + prog.code[i].elems]
      <4>1. r \in DyRange(prog, i)
        BY <1>3, <3>2 DEF DyRange
      <4>2. HomeOf(prog, i) \in Int /\ l = <<"dy", HomeOf(prog, i) + c>>
        BY <1>1, <3>1, <3>2, HomeFacts, LocFacts
      <4>3. HomeOf(prog, i) + c \in r.lo .. r.hi - 1
        BY <1>1, <4>2
      <4>4. l \in DySpan(r)
        BY <4>2, <4>3 DEF DySpan
      <4> QED
        BY <4>1, <4>4 DEF WriteSpot
    <3>3. CASE ~Homed(prog, i)
      <4>1. i \in PlannedWrites(prog, i)
        BY <1>3, <3>3 DEF PlannedWrites
      <4>2. l = <<"slab", off[i] + c>> /\ off[i] \in Nat /\ Elems(prog, i) = prog.code[i].elems
        BY <1>1, <3>1, <3>3, LocFacts, CodeFacts DEF Elems, Pcs
      <4>3. off[i] + c \in off[i] .. off[i] + Elems(prog, i) - 1
        BY <1>1, <4>2
      <4>4. l \in SlabSpan(i)
        BY <4>2, <4>3 DEF SlabSpan
      <4> QED
        BY <4>1, <4>4 DEF WriteSpot
    <3> QED
      BY <3>2, <3>3
  <2>3. CASE PreReduces(prog, i) /\ \E c \in cells : l = Loc(Second(prog, i), c)
    <3> DEFINE s == Second(prog, i)
    <3>1. PICK c \in cells : l = Loc(s, c)
      BY <2>3
    <3>2. c \in 0 .. prog.code[i].inner - 1
      BY <1>1, <2>3, ExtentFacts DEF All
    <3>3. s \in Slots(prog) /\ ~Homed(prog, s) /\ Elems(prog, s) = prog.code[i].inner
      <4>1. s > Len(prog.code) /\ s - Len(prog.code) = i
        BY <1>1, CodeFacts DEF Second, Pcs
      <4>2. Elems(prog, s) = prog.code[i].inner
        BY <4>1 DEF Elems, Def
      <4> QED
        BY <1>1, <4>2, Unhomed
    <3> HIDE DEF s
    <3>4. l = <<"slab", off[s] + c>> /\ off[s] \in Nat
      BY <3>1, <3>3, LocFacts
    <3>5. off[s] + c \in off[s] .. off[s] + Elems(prog, s) - 1
      BY <1>1, <3>2, <3>3, <3>4
    <3>6. l \in SlabSpan(s)
      BY <3>4, <3>5 DEF SlabSpan
    <3> QED
      BY <2>3, <3>6 DEF WriteSpot, s
  <2> QED
    BY <2>1, <2>2, <2>3
<1> QED
  BY <1>2, <1>3

LEMMA OperandLocs ==
  ASSUME ProgramInv, NEW i \in Continuous(prog), prog.code[i].op # "sweep", ~Idle(prog, i),
         off \in [Slots(prog) -> Nat],
         NEW cells, cells \subseteq All(i), NEW l \in LocsOf(Operands(i, cells, 0, 0))
  PROVE  ReadSpot(i, l)
<1>1. /\ WellFormed(prog) /\ i \in Pcs(prog) /\ prog.code[i].elems \in Nat
  BY ProgFacts, ContinuousFacts, CodeFacts
<1>2. PICK s \in Reads(prog, i) \ {Second(prog, i)} :
        \E c \in CellsRead(i, s, cells, 0, 0) : l = Loc(s, c)
  BY DEF LocsOf, Operands
<1>3. PICK c \in CellsRead(i, s, cells, 0, 0) : l = Loc(s, c)
  BY <1>2
<1>4. s \in Slots(prog) /\ s # 0 /\ ~Homed(prog, s) /\ Elems(prog, s) \in Nat
  <2>1. s \in Slots(prog)
    BY <1>1, <1>2, ReadsEarlier
  <2> QED
    BY <1>1, <1>2, <2>1, Unhomed, SlotFacts DEF Slots
<1>5. c \in 0 .. Elems(prog, s) - 1
  <2>1. CASE prog.code[i].op \in {"copy", "dy"}
    <3>1. c \in cells
      BY <1>3, <2>1 DEF CellsRead, Code
    <3>2. Elems(prog, s) = prog.code[i].elems
      BY <1>1, <1>2, <2>1 DEF WellFormed, Reads
    <3>3. Extent(i) = prog.code[i].elems
      BY <1>1, <2>1, ExtentFacts DEF PreReduces
    <3> QED
      BY <1>1, <3>1, <3>2, <3>3 DEF All
  <2>2. CASE prog.code[i].op \notin {"copy", "dy"}
    BY <1>3, <1>4, <2>2 DEF CellsRead, Code
  <2> QED
    BY <2>1, <2>2
<1>6. l = <<"slab", off[s] + c>> /\ off[s] \in Nat
  BY <1>3, <1>4, LocFacts
<1>7. off[s] + c \in off[s] .. off[s] + Elems(prog, s) - 1
  BY <1>4, <1>5, <1>6
<1>8. l \in SlabSpan(s)
  BY <1>6, <1>7 DEF SlabSpan
<1> QED
  BY <1>2, <1>8 DEF ReadSpot

\* Slots of different storages have no address in common.
LEMMA SpansApart ==
  ASSUME ProgramInv, NEW store, NEW len, Layout(prog, store, off, len),
         NEW s \in Defined(prog), NEW t \in Defined(prog), store[s] # store[t],
         NEW l, l \in SlabSpan(s)
  PROVE  l \notin SlabSpan(t)
<1>1. /\ off[s] \in Nat /\ off[t] \in Nat /\ Elems(prog, s) \in Nat /\ Elems(prog, t) \in Nat
      /\ off[s] + Elems(prog, s) <= off[t] \/ off[t] + Elems(prog, t) <= off[s]
  BY ProgFacts, SlotFacts DEF Layout
<1>2. PICK a \in off[s] .. off[s] + Elems(prog, s) - 1 : l = <<"slab", a>>
  BY DEF SlabSpan
<1>3. a \notin off[t] .. off[t] + Elems(prog, t) - 1
  BY <1>1, <1>2
<1> QED
  BY <1>2, <1>3 DEF SlabSpan

\* Where the plan's layout puts what: b is the walk's last state.
PlanLayout(b) ==
  /\ TableInv(prog, slab, Len(prog.code), b)
  /\ off = b.off

LEMMA PlanLayoutFacts ==
  ASSUME ProgramInv, NEW b, PlanLayout(b)
  PROVE  /\ off \in [Slots(prog) -> Nat] /\ Layout(prog, b.store, off, b.len)
         /\ \A s, t \in Defined(prog) : b.store[s] = b.store[t] => slab.store[s] = slab.store[t]
BY DEF PlanLayout, TableInv, Layout

\* A private pre-reduction has a storage of its own in every plan's layout.
LEMMA SecondIsApart ==
  ASSUME ProgramInv, NEW b, PlanLayout(b), PreReductionsPrivate(prog),
         NEW i \in Pcs(prog), PreReduces(prog, i),
         NEW t \in Defined(prog), t # Second(prog, i)
  PROVE  /\ Second(prog, i) \in Defined(prog) /\ b.store[Second(prog, i)] # b.store[t]
<1>1. Second(prog, i) \in Defined(prog)
  BY DEF PreReduces, Defined, Defs
<1>2. slab.store[t] # slab.store[Second(prog, i)]
  BY DEF PreReductionsPrivate, PreReduces, ProgramInv
<1> QED
  BY <1>1, <1>2, PlanLayoutFacts

\* No part of a task writes where a part of a task it is apart from reads or writes.
LEMMA TasksApart ==
  ASSUME ProgramInv, NEW b, PlanLayout(b), PreReductionsPrivate(prog), NEW w,
         NEW i \in Continuous(prog), Placeable(prog, w, i),
         NEW j \in Continuous(prog), Placeable(prog, w, j), i # j,
         Apart(prog, b.store, i, j),
         NEW l, WriteSpot(i, l)
  PROVE  ~WriteSpot(j, l) /\ ~ReadSpot(j, l)
<1> DEFINE S == {t \in PlannedWrites(prog, j) \union Reads(prog, j) : t # Second(prog, j)}
<1>0. /\ WellFormed(prog) /\ i \in Pcs(prog) /\ j \in Pcs(prog)
      /\ i \in 1 .. Len(prog.code) /\ j \in 1 .. Len(prog.code) /\ Len(prog.code) \in Nat
  BY ProgFacts, ContinuousFacts DEF Pcs
<1>1. Layout(prog, b.store, off, b.len)
  BY PlanLayoutFacts
<1>2. /\ \A s \in PlannedWrites(prog, i) : s \in Defined(prog)
      /\ \A s \in S : s \in Defined(prog) /\ s # Second(prog, i)
  <2>1. ASSUME NEW s, NEW k \in Pcs(prog), s \in PlannedWrites(prog, k)
        PROVE  s \in Defined(prog) /\ s = k
    BY <2>1 DEF PlannedWrites, Defined, Defs
  <2>2. ASSUME NEW s \in Reads(prog, j) PROVE s \in Defined(prog)
    BY <1>0, ReadsEarlier DEF Placeable
  <2>3. \A k \in Pcs(prog) : k # Second(prog, i)
    BY <1>0 DEF Second, Pcs
  <2>4. ASSUME PreReduces(prog, i), NEW s \in Reads(prog, j) PROVE s # Second(prog, i)
    BY <1>0, <2>4 DEF PreReductionsPrivate, PreReduces
  <2>5. ASSUME ~PreReduces(prog, i), NEW s \in Reads(prog, j) PROVE s # Second(prog, i)
    <3> SUFFICES ASSUME s = Second(prog, i) PROVE FALSE
      OBVIOUS
    <3>1. s \in Defs(prog, Def(prog, s)) /\ Def(prog, s) = i
      <4>1. Def(prog, s) = i
        BY <1>0 DEF Def, Second
      <4> QED
        BY <1>0, <2>2, <4>1, SlotFacts
    <3>2. s # i
      BY <1>0 DEF Second
    <3>3. prog.code[i].inner > 0 /\ prog.code[i].op \in {"fused", "sweep"}
      BY <1>0, <3>1, <3>2 DEF Defs, WellFormed
    <3> QED
      BY <2>5, <3>3 DEF PreReduces, Placeable
  <2> QED
    BY <1>0, <2>1, <2>2, <2>3, <2>4, <2>5
<1>3. ASSUME NEW s \in PlannedWrites(prog, i), NEW t \in S, l \in SlabSpan(s)
      PROVE  l \notin SlabSpan(t)
  BY <1>1, <1>2, <1>3, SpansApart DEF Apart
<1>4. ASSUME PreReduces(prog, i), NEW t \in S, l \in SlabSpan(Second(prog, i))
      PROVE  l \notin SlabSpan(t)
  <2>1. /\ Second(prog, i) \in Defined(prog) /\ b.store[Second(prog, i)] # b.store[t]
    BY <1>0, <1>2, <1>4, SecondIsApart
  <2> QED
    BY <1>1, <1>2, <1>4, <2>1, SpansApart
<1>5. ASSUME PreReduces(prog, j), NEW s \in PlannedWrites(prog, i), l \in SlabSpan(s)
      PROVE  l \notin SlabSpan(Second(prog, j))
  <2>1. s # Second(prog, j)
    BY <1>0 DEF PlannedWrites, Second
  <2>2. /\ Second(prog, j) \in Defined(prog) /\ b.store[Second(prog, j)] # b.store[s]
    BY <1>0, <1>2, <1>5, <2>1, SecondIsApart
  <2> QED
    BY <1>1, <1>2, <1>5, <2>2, SpansApart
<1>6. ASSUME PreReduces(prog, i), PreReduces(prog, j), l \in SlabSpan(Second(prog, i))
      PROVE  l \notin SlabSpan(Second(prog, j))
  <2>1. Second(prog, i) # Second(prog, j)
    BY <1>0 DEF Second
  <2>2. Second(prog, j) \in Defined(prog)
    BY <1>0, <1>6 DEF PreReduces, Defined, Defs
  <2>3. /\ Second(prog, i) \in Defined(prog)
        /\ b.store[Second(prog, i)] # b.store[Second(prog, j)]
    BY <1>0, <1>6, <2>1, <2>2, SecondIsApart
  <2> QED
    BY <1>1, <1>6, <2>2, <2>3, SpansApart
<1>7. ASSUME NEW s, l \in SlabSpan(s), NEW r, l \in DySpan(r) PROVE FALSE
  BY <1>7 DEF SlabSpan, DySpan
<1>8. ASSUME NEW r \in DyRange(prog, i), NEW q \in DyRange(prog, j), l \in DySpan(r), l \in DySpan(q)
      PROVE  FALSE
  <2>1. r.hi <= q.lo \/ q.hi <= r.lo
    BY DEF Apart
  <2>2. r.lo \in Int /\ r.hi \in Int /\ q.lo \in Int /\ q.hi \in Int
    BY <1>0, RangeFacts
  <2>3. PICK a \in r.lo .. r.hi - 1 : l = <<"dy", a>>
    BY <1>8 DEF DySpan
  <2>4. a \in q.lo .. q.hi - 1
    BY <1>8, <2>3 DEF DySpan
  <2> QED
    BY <2>1, <2>2, <2>3, <2>4
<1>9. PlannedWrites(prog, j) \subseteq S /\ Reads(prog, j) \ {Second(prog, j)} \subseteq S
  BY <1>0 DEF PlannedWrites, Second
<1> HIDE DEF S
<1>10. CASE \E r \in DyRange(prog, i) : l \in DySpan(r)
  BY <1>7, <1>8, <1>10 DEF WriteSpot, ReadSpot
<1>11. CASE \E s \in PlannedWrites(prog, i) : l \in SlabSpan(s)
  BY <1>3, <1>5, <1>7, <1>9, <1>11 DEF WriteSpot, ReadSpot
<1>12. CASE PreReduces(prog, i) /\ l \in SlabSpan(Second(prog, i))
  BY <1>4, <1>6, <1>7, <1>9, <1>12 DEF WriteSpot, ReadSpot
<1> QED
  BY <1>10, <1>11, <1>12 DEF WriteSpot

-----------------------------------------------------------------------------
(* The states of a call *)

\* The layout in use is the slab's, or the last plan's.
LayoutInv ==
  \/ plan = NoPlan /\ off = slab.off
  \/ plan.ways \in Widths /\ plan = BuildPlan(prog, slab, plan.ways) /\ off = plan.off

StageInv ==
  /\ ways \in Widths \union {1} /\ step \in Nat
  /\ stage = "steps" => plan.ways = ways /\ ways \in Widths /\ step # 0

\* No thread has a part in hand between phases, and none has one that is not its.
HandInv ==
  /\ at \in [Threads -> 0 .. Ended]
  /\ ~Forked => \A w \in Threads : at[w] = 0
  /\ \A w \in Threads : Forked /\ at[w] \notin {0, Ended} =>
       at[w] \in DOMAIN Step.tasks /\ TakesPart(w, at[w])

PlanInv == ProgramInv /\ LayoutInv /\ StageInv /\ HandInv

\* In a phase, the plan is the one its walk made, and the phase is one of its steps.
PhaseState(b) ==
  /\ PlanLayout(b) /\ PlanSound(prog, slab, ways, b, plan)
  /\ step \in DOMAIN b.steps /\ Step = b.steps[step]
  /\ StepSound(prog, ways, Len(prog.code), b, Step)

LEMMA StepsState ==
  ASSUME ProgramInv, LayoutInv, StageInv, stage = "steps"
  PROVE  \E b : PlanLayout(b) /\ PlanSound(prog, slab, ways, b, plan)
<1>1. WellFormed(prog) /\ slab = ColorSlab(prog)
  BY ProgFacts DEF ProgramInv
<1>2. plan = BuildPlan(prog, slab, ways) /\ off = plan.off
  <2>1. plan.ways = ways /\ ways \in Nat \ {0}
    BY CallConstants DEF StageInv
  <2>2. plan # NoPlan
    BY <2>1 DEF NoPlan
  <2> QED
    BY <2>1, <2>2 DEF LayoutInv
<1>3. PICK b : PlanSound(prog, slab, ways, b, plan)
  BY <1>1, <1>2, PlanIsSound
<1>4. PlanLayout(b)
  BY <1>2, <1>3 DEF PlanLayout, PlanSound
<1> QED
  BY <1>3, <1>4

LEMMA PhaseStateFacts ==
  ASSUME ProgramInv, LayoutInv, StageInv, InSteps
  PROVE  \E b : PhaseState(b)
<1>1. stage = "steps" /\ step \in Nat /\ step # 0 /\ step <= Len(plan.steps)
  BY DEF InSteps, StageInv
<1>2. PICK b : PlanLayout(b) /\ PlanSound(prog, slab, ways, b, plan)
  BY <1>1, StepsState
<1>3. plan.steps = b.steps
  BY <1>2 DEF PlanSound
<1>4. PICK S : b.steps \in Seq(S)
  BY <1>2 DEF PlanSound, StepsInv
<1>5. step \in DOMAIN b.steps /\ Step = b.steps[step]
  BY <1>1, <1>3, <1>4, LenProperties DEF Step
<1>6. StepSound(prog, ways, Len(prog.code), b, Step)
  BY <1>2, <1>5 DEF PlanSound, StepsInv
<1> QED
  BY <1>2, <1>5, <1>6 DEF PhaseState

\* The tasks of a phase.
LEMMA TaskFacts ==
  ASSUME ProgramInv, NEW b, PhaseState(b), Step.kind = "fork", NEW i \in DOMAIN Step.tasks
  PROVE  /\ i \in Continuous(prog) /\ i \in Pcs(prog) /\ i \in Nat /\ i # 0 /\ i # Ended
         /\ Placeable(prog, ways, i) /\ prog.code[i].op # "sweep" /\ ~Idle(prog, i)
         /\ off \in [Slots(prog) -> Nat]
<1>1. /\ ForkSound(prog, ways, b.store, Step) /\ Runs(Step) \subseteq Continuous(prog)
      /\ Runs(Step) = DOMAIN Step.tasks
  BY DEF PhaseState, StepSound, Runs
<1>2. i \in Continuous(prog) /\ Placeable(prog, ways, i)
  BY <1>1 DEF ForkSound
<1>3. i \in Pcs(prog) /\ i \in Nat /\ i # 0 /\ i # Ended
  BY <1>2, ProgFacts, ContinuousFacts DEF Pcs, Ended
<1>4. off \in [Slots(prog) -> Nat]
  BY PlanLayoutFacts DEF PhaseState
<1> QED
  BY <1>2, <1>3, <1>4 DEF Placeable

\* A task that splits does so at the call's width, and can be run share by share.
LEMMA SplitFacts ==
  ASSUME ProgramInv, NEW b, PhaseState(b), Step.kind = "fork", StageInv, stage = "steps",
         NEW i \in DOMAIN Step.tasks, Step.tasks[i].ways # 0
  PROVE  /\ Step.tasks[i].ways = ways /\ ways \in Nat \ {0}
         /\ prog.code[i].op \in {"copy", "fused", "dy"}
<1>1. ForkSound(prog, ways, b.store, Step)
  BY DEF PhaseState, StepSound
<1>2. /\ SplitWays(prog.code[i], ways) # 1 /\ Step.tasks[i].ways = SplitWays(prog.code[i], ways)
      /\ SplitWays(prog.code[i], ways) > 1 => Shares(prog.code[i])
  BY <1>1 DEF ForkSound, Placeable
<1>3. SplitWays(prog.code[i], ways) = 1 \/ (SplitWays(prog.code[i], ways) = ways /\ ways > 1)
  BY DEF SplitWays, WaysFor
<1>4. ways \in Nat \ {0}
  BY CallConstants DEF StageInv
<1> QED
  BY <1>2, <1>3, <1>4 DEF Shares

\* The shares of a task partition its cells.
LEMMA ShareFacts ==
  ASSUME ProgramInv, off \in [Slots(prog) -> Nat], NEW i \in Pcs(prog), NEW n \in Nat \ {0}
  PROVE  /\ UNION {ShareOf(i, w, n) : w \in 0 .. n - 1} = All(i)
         /\ \A v, w \in 0 .. n - 1 : v # w => ShareOf(i, v, n) \intersect ShareOf(i, w, n) = {}
<1> DEFINE to == IF Code(i).op = "dy" THEN <<"dy", Code(i).at>> ELSE Loc(i, 0)
           a  == IF to[1] = "dy" THEN DyPhase + to[2] ELSE to[2]
<1>1. Extent(i) \in Nat
  BY ExtentFacts
<1>2. a \in Nat
  <2>0. DyPhase \in Nat /\ i \in Slots(prog) /\ prog.code[i].at \in Nat
    BY ProgFacts, CodeFacts, CallConstants DEF Pcs, Slots
  <2>1. CASE Code(i).op = "dy"
    BY <2>0, <2>1 DEF Code
  <2>2. CASE Code(i).op # "dy" /\ Homed(prog, i)
    <3>1. to = <<"dy", HomeOf(prog, i) + 0>>
      BY <2>0, <2>2, LocFacts
    <3>2. HomeOf(prog, i) \in Nat
      BY <2>0, <2>2, ProgFacts, HomeFacts DEF Homed
    <3> QED
      BY <2>0, <3>1, <3>2
  <2>3. CASE Code(i).op # "dy" /\ ~Homed(prog, i)
    <3>1. to = <<"slab", off[i] + 0>> /\ off[i] \in Nat
      BY <2>0, <2>3, LocFacts
    <3> QED
      BY <3>1
  <2> QED
    BY <2>1, <2>2, <2>3
<1>3. \A w : ShareOf(i, w, n) = Share(Extent(i), w, n, a)
  BY DEF ShareOf
<1> HIDE DEF a, to
<1>4. /\ UNION {Share(Extent(i), w, n, a) : w \in 0 .. n - 1} = 0 .. Extent(i) - 1
      /\ \A v, w \in 0 .. n - 1 :
           v # w => Share(Extent(i), v, n, a) \intersect Share(Extent(i), w, n, a) = {}
  BY <1>1, <1>2, SharesPartition
<1>5. {ShareOf(i, w, n) : w \in 0 .. n - 1} = {Share(Extent(i), w, n, a) : w \in 0 .. n - 1}
  BY <1>3
<1> QED
  BY <1>3, <1>4, <1>5 DEF All

\* A thread's part is of the task's cells.
LEMMA PartFacts ==
  ASSUME ProgramInv, NEW b, PhaseState(b), Step.kind = "fork", StageInv, stage = "steps",
         NEW i \in DOMAIN Step.tasks, NEW w \in Threads, TakesPart(w, i)
  PROVE  Part(w, i) \subseteq All(i)
<1>1. CASE Step.tasks[i].ways = 0
  BY <1>1 DEF Part
<1>2. CASE Step.tasks[i].ways # 0
  <2>1. Step.tasks[i].ways = ways /\ ways \in Nat \ {0}
    BY <1>2, SplitFacts
  <2>2. w \in 0 .. ways - 1
    <3>1. w < ways
      BY <2>1 DEF TakesPart
    <3>2. w \in Nat
      BY CallConstants DEF Threads
    <3> QED
      BY <2>1, <3>1, <3>2
  <2>3. UNION {ShareOf(i, v, ways) : v \in 0 .. ways - 1} = All(i)
    BY <2>1, ShareFacts, TaskFacts
  <2>4. Part(w, i) = ShareOf(i, w, ways)
    BY <2>1 DEF Part
  <2> QED
    BY <2>2, <2>3, <2>4
<1> QED
  BY <1>1, <1>2

-----------------------------------------------------------------------------
(* The shares of one task *)

LEMMA ResultCases ==
  ASSUME ProgramInv, NEW i \in Pcs(prog), NEW cells, NEW pass, NEW l \in LocsOf(Results(i, cells, pass))
  PROVE  \/ prog.code[i].op = "dy" /\ \E c \in cells : l = <<"dy", prog.code[i].at + c>>
         \/ prog.code[i].op # "dy" /\ \E c \in OutCells(i, cells) : l = Loc(i, c)
         \/ PreReduces(prog, i) /\ \E c \in cells : l = Loc(Second(prog, i), c)
<1>1. CASE prog.code[i].op = "dy"
  BY <1>1 DEF LocsOf, Results, Code
<1>2. CASE prog.code[i].op # "dy"
  BY <1>2 DEF LocsOf, Results, Code, PreReduces
<1> QED
  BY <1>1, <1>2

LEMMA LocsDiffer ==
  ASSUME ProgramInv, off \in [Slots(prog) -> Nat], NEW s \in Slots(prog),
         NEW c \in Int, NEW d \in Int, Loc(s, c) = Loc(s, d)
  PROVE  c = d
<1>1. CASE Homed(prog, s)
  <2>1. HomeOf(prog, s) \in Int
    BY ProgFacts, HomeFacts
  <2>2. Loc(s, c) = <<"dy", HomeOf(prog, s) + c>> /\ Loc(s, d) = <<"dy", HomeOf(prog, s) + d>>
    BY <1>1, LocFacts
  <2>4. <<"dy", HomeOf(prog, s) + c>> = <<"dy", HomeOf(prog, s) + d>>
    BY <2>2
  <2>3. HomeOf(prog, s) + c = HomeOf(prog, s) + d
    BY <2>4
  <2> QED
    BY <2>1, <2>3
<1>2. CASE ~Homed(prog, s)
  <2>1. off[s] \in Int
    OBVIOUS
  <2>2. Loc(s, c) = <<"slab", off[s] + c>> /\ Loc(s, d) = <<"slab", off[s] + d>>
    BY <1>2, LocFacts
  <2>4. <<"slab", off[s] + c>> = <<"slab", off[s] + d>>
    BY <2>2
  <2>3. off[s] + c = off[s] + d
    BY <2>4
  <2> QED
    BY <2>1, <2>3
<1> QED
  BY <1>1, <1>2

\* A group does not write the storage of what it reads: it is no AliasSafe.
LEMMA GroupReadsElsewhere ==
  ASSUME ProgramInv, NEW b, PlanLayout(b), NEW i \in Pcs(prog), prog.code[i].op = "fused",
         NEW s \in Reads(prog, i) \ {Second(prog, i)}
  PROVE  b.store[s] # b.store[i]
<1> SUFFICES ASSUME b.store[s] = b.store[i] PROVE FALSE
  OBVIOUS
<1>1. WellFormed(prog) /\ slab = ColorSlab(prog) /\ i \in Nat /\ Def(prog, i) = i
  BY ProgFacts DEF ProgramInv, Pcs, Def
<1>2. s \in Defined(prog) /\ s \in Slots(prog) /\ Def(prog, s) < i /\ Def(prog, s) \in Nat /\ s # i
  <2>1. i <= i
    BY <1>1
  <2> QED
    BY <1>1, <2>1, ReadsEarlier, SlotFacts DEF Pcs
<1>3. i \in Defined(prog) /\ i \in Slots(prog)
  BY <1>1, SlotFacts DEF Defined, Defs
<1>4. slab.store[s] = slab.store[i]
  BY <1>2, <1>3, PlanLayoutFacts
<1>5. Recycles(prog, s, i) \/ Recycles(prog, i, s)
  BY <1>1, <1>2, <1>3, <1>4, SlabLayout
<1>6. /\ i <= LastUse(prog, s) /\ LastUse(prog, s) \in Nat
      /\ i <= LastUse(prog, i) /\ LastUse(prog, i) \in Nat
  <2>1. i <= LastUse(prog, s) /\ LastUse(prog, s) \in Pcs(prog)
    BY <1>1, <1>2, LastUseFacts
  <2>2. i <= LastUse(prog, i) /\ LastUse(prog, i) \in Pcs(prog)
    BY <1>1, <1>3, LastUseFacts
  <2> QED
    BY <2>1, <2>2 DEF Pcs
<1>7. ~AliasSafe(prog.code[i])
  BY DEF AliasSafe
<1> QED
  BY <1>1, <1>2, <1>5, <1>6, <1>7 DEF Recycles

\* What a share writes no other share of the task reads or writes.
LEMMA SharesApart ==
  ASSUME ProgramInv, NEW b, PlanLayout(b), PreReductionsPrivate(prog),
         NEW i \in Continuous(prog), ~Idle(prog, i), prog.code[i].op \in {"copy", "fused", "dy"},
         NEW P, P \subseteq All(i), NEW Q, Q \subseteq All(i), P \intersect Q = {}
  PROVE  LocsOf(Results(i, P, 0)) \intersect Touched(i, Q) = {}
<1> SUFFICES ASSUME NEW l \in LocsOf(Results(i, P, 0)),
                    l \in LocsOf(Operands(i, Q, 0, 0)) \/ l \in LocsOf(Results(i, Q, 0))
             PROVE  FALSE
  BY DEF Touched
<1> DEFINE o == Second(prog, i)
<1>0. /\ WellFormed(prog) /\ i \in Pcs(prog) /\ i \in Slots(prog) /\ prog.code[i].op # "sweep"
      /\ off \in [Slots(prog) -> Nat] /\ Layout(prog, b.store, off, b.len)
      /\ o \in Slots(prog) /\ ~Homed(prog, o) /\ o # i
      /\ prog.code[i].at \in Nat /\ i \in Nat
  <2>1. WellFormed(prog) /\ i \in Pcs(prog) /\ prog.code[i].op # "sweep" /\ i \in Nat
        /\ prog.code[i].at \in Nat /\ i <= Len(prog.code) /\ Len(prog.code) \in Nat
    BY ProgFacts, ContinuousFacts, CodeFacts
  <2>2. i \in Slots(prog) /\ o # i
    BY <2>1 DEF Pcs, Slots, Second
  <2> QED
    BY <2>1, <2>2, PlanLayoutFacts, Unhomed
<1>1. P \subseteq Int /\ Q \subseteq Int
  BY <1>0, ExtentFacts
<1>2. OutCells(i, P) \subseteq Int /\ OutCells(i, Q) \subseteq Int
      /\ OutCells(i, P) \intersect OutCells(i, Q) = {}
  <2>1. prog.code[i].elems \in Nat
    BY <1>0, CodeFacts
  <2>2. \A c \in OutCells(i, P) : c % Extent(i) \in P /\ c \in Int
    BY <2>1 DEF OutCells, Code
  <2>3. \A c \in OutCells(i, Q) : c % Extent(i) \in Q /\ c \in Int
    BY <2>1 DEF OutCells, Code
  <2> QED
    BY <2>2, <2>3
\* The output's span, or dy, and the pre-reduction's span.
<1>3. ASSUME NEW R \in {P, Q}, NEW c \in OutCells(i, R), l = Loc(i, c), prog.code[i].op # "dy"
      PROVE  IF Homed(prog, i) THEN \E r : l \in DySpan(r)
             ELSE i \in Defined(prog) /\ l \in SlabSpan(i)
  <2>1. c \in 0 .. prog.code[i].elems - 1 /\ prog.code[i].elems \in Nat
    BY <1>0, <1>3, OutCellsFacts, CodeFacts
  <2>2. CASE Homed(prog, i)
    <3>1. HomeOf(prog, i) \in Int /\ l = <<"dy", HomeOf(prog, i) + c>>
      BY <1>0, <1>3, <2>2, HomeFacts, LocFacts
    <3> DEFINE r == [lo |-> HomeOf(prog, i) + c, hi |-> HomeOf(prog, i) + c + 1]
    <3>2. HomeOf(prog, i) + c \in r.lo .. r.hi - 1
      BY <2>1, <3>1
    <3>3. l \in DySpan(r)
      BY <3>1, <3>2 DEF DySpan
    <3> QED
      BY <2>2, <3>3
  <2>3. CASE ~Homed(prog, i)
    <3>1. i \in Defined(prog)
      BY <1>0, <1>3 DEF Defined, Defs
    <3>2. l = <<"slab", off[i] + c>> /\ off[i] \in Nat /\ Elems(prog, i) = prog.code[i].elems
      <4>1. Elems(prog, i) = prog.code[i].elems
        BY <1>0, CodeFacts DEF Elems, Pcs
      <4> QED
        BY <1>0, <1>3, <2>3, <4>1, LocFacts
    <3>3. off[i] + c \in off[i] .. off[i] + Elems(prog, i) - 1
      BY <2>1, <3>2
    <3>4. l \in SlabSpan(i)
      BY <3>2, <3>3 DEF SlabSpan
    <3> QED
      BY <2>3, <3>1, <3>4
  <2> QED
    BY <2>2, <2>3
<1>4. ASSUME NEW R \in {P, Q}, NEW c \in R, l = Loc(o, c), PreReduces(prog, i)
      PROVE  /\ l \in SlabSpan(o) /\ o \in Defined(prog)
             /\ \A t \in Defined(prog) : t # o => l \notin SlabSpan(t)
  <2>1. c \in 0 .. prog.code[i].inner - 1 /\ prog.code[i].inner \in Nat
    BY <1>0, <1>4, ExtentFacts, CodeFacts DEF All
  <2>2. Elems(prog, o) = prog.code[i].inner /\ off[o] \in Nat /\ l = <<"slab", off[o] + c>>
    <3>1. o > Len(prog.code) /\ o - Len(prog.code) = i
      BY <1>0, CodeFacts DEF Second, Pcs
    <3>2. Elems(prog, o) = prog.code[i].inner
      BY <3>1 DEF Elems, Def
    <3> QED
      BY <1>0, <1>4, <3>2, LocFacts
  <2> HIDE DEF o
  <2>3. off[o] + c \in off[o] .. off[o] + Elems(prog, o) - 1
    BY <2>1, <2>2
  <2>4. l \in SlabSpan(o)
    BY <2>2, <2>3 DEF SlabSpan
  <2>5. o \in Defined(prog) /\ \A t \in Defined(prog) : t # o => b.store[o] # b.store[t]
    <3>1. o \in Defined(prog)
      BY <1>0, <1>4 DEF PreReduces, Defined, Defs, o
    <3> QED
      BY <1>0, <1>4, <3>1, SecondIsApart DEF o
  <2> QED
    BY <1>0, <2>4, <2>5, SpansApart
<1>5. ASSUME NEW s, l \in SlabSpan(s), NEW r, l \in DySpan(r) PROVE FALSE
  BY <1>5 DEF SlabSpan, DySpan
<1>6. ASSUME NEW c, l = <<"dy", c>> PROVE \A s \in Slots(prog) : l \notin SlabSpan(s)
  BY <1>6 DEF SlabSpan
<1>7. CASE l \in LocsOf(Results(i, Q, 0))
  <2>1. CASE prog.code[i].op = "dy"
    <3>0. ~PreReduces(prog, i)
      BY <2>1 DEF PreReduces
    <3>1. PICK c \in P : l = <<"dy", prog.code[i].at + c>>
      BY <1>0, <2>1, <3>0, ResultCases
    <3>2. PICK d \in Q : l = <<"dy", prog.code[i].at + d>>
      BY <1>0, <1>7, <2>1, <3>0, ResultCases
    <3>3. prog.code[i].at + c = prog.code[i].at + d
      BY <3>1, <3>2
    <3>4. c = d
      BY <1>0, <1>1, <3>3
    <3> QED
      BY <3>4
  <2>2. CASE prog.code[i].op # "dy"
    <3>1. \/ \E c \in OutCells(i, P) : l = Loc(i, c)
          \/ PreReduces(prog, i) /\ \E c \in P : l = Loc(o, c)
      BY <1>0, <2>2, ResultCases
    <3>2. \/ \E c \in OutCells(i, Q) : l = Loc(i, c)
          \/ PreReduces(prog, i) /\ \E c \in Q : l = Loc(o, c)
      BY <1>0, <1>7, <2>2, ResultCases
    <3>3. CASE (\E c \in OutCells(i, P) : l = Loc(i, c)) /\ \E c \in OutCells(i, Q) : l = Loc(i, c)
      <4>1. PICK c \in OutCells(i, P), d \in OutCells(i, Q) : l = Loc(i, c) /\ l = Loc(i, d)
        BY <3>3
      <4>2. c = d
        BY <1>0, <1>2, <4>1, LocsDiffer
      <4> QED
        BY <1>2, <4>2
    <3>4. CASE /\ PreReduces(prog, i)
               /\ \E c \in P : l = Loc(o, c)
               /\ \E c \in Q : l = Loc(o, c)
      <4>1. PICK c \in P, d \in Q : l = Loc(o, c) /\ l = Loc(o, d)
        BY <3>4
      <4>2. c = d
        BY <1>0, <1>1, <4>1, LocsDiffer
      <4> QED
        BY <4>2
    <3>5. CASE /\ PreReduces(prog, i)
               /\ \E R \in {P, Q} : \E c \in OutCells(i, R) : l = Loc(i, c)
               /\ \E R \in {P, Q} : \E c \in R : l = Loc(o, c)
      <4>1. l \in SlabSpan(o) /\ \A t \in Defined(prog) : t # o => l \notin SlabSpan(t)
        BY <1>4, <3>5
      <4>2. IF Homed(prog, i) THEN \E r : l \in DySpan(r)
            ELSE i \in Defined(prog) /\ l \in SlabSpan(i)
        BY <1>3, <2>2, <3>5
      <4> QED
        BY <1>0, <1>5, <4>1, <4>2
    <3> QED
      BY <3>1, <3>2, <3>3, <3>4, <3>5
  <2> QED
    BY <2>1, <2>2
<1>8. CASE l \in LocsOf(Operands(i, Q, 0, 0))
  <2>1. PICK s \in Reads(prog, i) \ {o} : l \in SlabSpan(s)
    BY <1>0, <1>8, OperandLocs DEF ReadSpot
  <2>2. s \in Defined(prog) /\ s \in Slots(prog)
    BY <1>0, ReadsEarlier
  <2>3. CASE prog.code[i].op = "dy"
    <3>1. PICK c \in P : l = <<"dy", prog.code[i].at + c>>
      BY <1>0, <2>3, ResultCases DEF PreReduces
    <3> QED
      BY <1>6, <2>1, <2>2, <3>1
  <2>4. CASE PreReduces(prog, i) /\ \E c \in P : l = Loc(o, c)
    <3>1. \A t \in Defined(prog) : t # o => l \notin SlabSpan(t)
      BY <1>4, <2>4
    <3> QED
      BY <2>1, <2>2, <3>1
  <2>5. CASE prog.code[i].op # "dy" /\ \E c \in OutCells(i, P) : l = Loc(i, c)
    <3>1. ~Homed(prog, i) /\ i \in Defined(prog) /\ l \in SlabSpan(i)
      <4>1. IF Homed(prog, i) THEN \E r : l \in DySpan(r)
            ELSE i \in Defined(prog) /\ l \in SlabSpan(i)
        BY <1>3, <2>5
      <4> QED
        BY <1>5, <2>1, <4>1
    <3>2. b.store[s] = b.store[i]
      BY <1>0, <2>1, <2>2, <3>1, SpansApart
    <3>3. prog.code[i].op = "copy"
      BY <1>0, <2>1, <2>5, <3>2, GroupReadsElsewhere
    <3>4. PICK c \in P : l = Loc(i, c)
      <4>1. OutCells(i, P) = P
        BY <1>0, <3>3, OutCellsFacts DEF PreReduces
      <4> QED
        BY <2>5, <4>1
    <3>5. PICK t \in Reads(prog, i) \ {o}, d \in Q : l = Loc(t, d)
      BY <1>8, <3>3 DEF LocsOf, Operands, CellsRead, Code
    <3>6. t \in Defined(prog) /\ t \in Slots(prog) /\ ~Homed(prog, t)
      BY <1>0, ReadsEarlier, Unhomed
    <3>7. l = <<"slab", off[i] + c>> /\ l = <<"slab", off[t] + d>>
      BY <1>0, <3>1, <3>4, <3>5, <3>6, LocFacts
    <3>8. l \in SlabSpan(t)
      <4>1. d \in 0 .. Elems(prog, t) - 1 /\ Elems(prog, t) \in Nat
        <5>1. Elems(prog, t) = prog.code[i].elems
          BY <1>0, <3>3 DEF WellFormed, Reads
        <5>2. Extent(i) = prog.code[i].elems
          BY <1>0, <3>3, ExtentFacts DEF PreReduces
        <5> QED
          BY <1>0, <5>1, <5>2, CodeFacts DEF All
      <4>2. off[t] + d \in off[t] .. off[t] + Elems(prog, t) - 1
        BY <1>0, <3>6, <4>1
      <4> QED
        BY <3>7, <4>2 DEF SlabSpan
    <3>9. b.store[t] = b.store[i]
      BY <1>0, <3>1, <3>6, <3>8, SpansApart
    <3>10. off[t] = off[i]
      BY <1>0, <3>1, <3>6, <3>9 DEF Layout
    <3>11. off[i] + c = off[i] + d
      BY <3>7, <3>10
    <3>12. c = d
      BY <1>0, <1>1, <3>11
    <3> QED
      BY <3>12
  <2> QED
    BY <1>0, <2>3, <2>4, <2>5, ResultCases
<1> QED
  BY <1>7, <1>8

-----------------------------------------------------------------------------
(* The invariant of the calls, and what follows from it *)

LEMMA InitPlan == Init => PlanInv
<1> SUFFICES ASSUME Init PROVE PlanInv
  OBVIOUS
<1>1. ProgramInv /\ LayoutInv
  BY DEF Init, ProgramInv, LayoutInv
<1>2. StageInv
  BY DEF Init, StageInv
<1>3. HandInv
  <2>1. ~Forked
    BY DEF Init, Forked, InSteps
  <2>2. 0 \in 0 .. Ended
    BY <1>1, ProgFacts DEF Ended
  <2>3. at \in [Threads -> 0 .. Ended] /\ \A w \in Threads : at[w] = 0
    BY <2>2 DEF Init
  <2> QED
    BY <2>1, <2>3 DEF HandInv
<1> QED
  BY <1>1, <1>2, <1>3 DEF PlanInv

\* The part a thread takes up next is one of its own.
LEMMA NextInHand ==
  ASSUME ProgramInv, LayoutInv, StageInv, Forked, NEW w \in Threads, NEW T,
         T = {i \in DOMAIN Step.tasks : i > at[w] /\ TakesPart(w, i)} \union {Ended}
  PROVE  /\ Min(T) \in 0 .. Ended
         /\ Min(T) # Ended => Min(T) \in DOMAIN Step.tasks /\ TakesPart(w, Min(T)) /\ Min(T) > at[w]
         /\ \A i \in DOMAIN Step.tasks : i > at[w] /\ TakesPart(w, i) => Min(T) <= i
<1>1. InSteps /\ Step.kind = "fork"
  BY DEF Forked
<1>2. PICK b : PhaseState(b)
  BY <1>1, PhaseStateFacts
<1>3. \A i \in DOMAIN Step.tasks : i \in Nat /\ i \in Pcs(prog)
  BY <1>1, <1>2, TaskFacts
<1>4. Ended \in Nat /\ \A i \in Pcs(prog) : i \in 0 .. Ended
  BY ProgFacts DEF Ended, Pcs
<1>5. Min(T) \in T /\ \A i \in T : Min(T) <= i
  <2>1. T \subseteq Nat /\ T # {}
    BY <1>3, <1>4
  <2> QED
    BY <2>1, MinIsLeast
<1>6. Min(T) = Ended \/ (Min(T) \in DOMAIN Step.tasks /\ TakesPart(w, Min(T)) /\ Min(T) > at[w])
  BY <1>5
<1> QED
  BY <1>3, <1>4, <1>5, <1>6

LEMMA PlanKept == PlanInv /\ [Next]_vars => PlanInv'
<1> SUFFICES ASSUME PlanInv, [Next]_vars PROVE PlanInv'
  OBVIOUS
<1>0. ProgramInv /\ LayoutInv /\ StageInv /\ HandInv
  BY DEF PlanInv
<1>1. ASSUME prog' = prog, slab' = slab, home' = home PROVE ProgramInv'
  BY <1>0, <1>1 DEF ProgramInv
<1>2. ASSUME prog' = prog, slab' = slab, plan' = plan, off' = off PROVE LayoutInv'
  BY <1>0, <1>2 DEF LayoutInv
\* Where no phase is under way before or after the step.
<1>3. ASSUME ~Forked, prog' = prog, at' = at PROVE HandInv'
  <2>1. Ended' = Ended
    BY <1>3 DEF Ended
  <2>2. at' \in [Threads -> 0 .. Ended'] /\ \A w \in Threads : at'[w] = 0
    BY <1>0, <1>3, <2>1 DEF HandInv
  <2> QED
    BY <2>2 DEF HandInv
<1>4. ASSUME stage # "steps" PROVE ~Forked
  BY <1>4 DEF Forked, InSteps
<1>5. ASSUME NEW w \in Widths, NEW moved \in {"none", "forcing", "params"}, Call(w, moved)
      PROVE  PlanInv'
  <2>1. StageInv'
    BY <1>0, <1>5 DEF Call, StageInv
  <2> QED
    BY <1>1, <1>2, <1>3, <1>4, <1>5, <2>1 DEF Call, PlanInv
<1>6. CASE Prime
  <2>1. StageInv'
    BY <1>0, <1>6 DEF Prime, StageInv
  <2> QED
    BY <1>1, <1>2, <1>3, <1>4, <1>6, <2>1 DEF Prime, PlanInv
<1>7. CASE Plan
  <2>0. /\ stage = "plan" /\ step' = 1
        /\ prog' = prog /\ slab' = slab /\ home' = home /\ ways' = ways /\ at' = at
    BY <1>7 DEF Plan
  <2>1. CASE ways = 1
    <3>1. stage' = "serial" /\ plan' = plan /\ off' = off
      BY <1>7, <2>1 DEF Plan
    <3>2. StageInv'
      BY <1>0, <2>0, <3>1 DEF StageInv
    <3> QED
      BY <1>1, <1>2, <1>3, <1>4, <2>0, <3>1, <3>2 DEF PlanInv
  <2>2. CASE ways # 1
    <3>1. /\ stage' = "steps" /\ ways \in Widths
          /\ plan' = IF plan.ways = ways THEN plan ELSE BuildPlan(prog, slab, ways)
          /\ off' = IF plan.ways = ways THEN off ELSE plan'.off
      BY <1>0, <1>7, <2>2 DEF Plan, StageInv
    <3>2. BuildPlan(prog, slab, ways).ways = ways
      BY DEF BuildPlan
    <3>3. plan'.ways = ways
      BY <3>1, <3>2
    <3>4. StageInv'
      BY <1>0, <2>0, <3>1, <3>3 DEF StageInv
    <3>5. LayoutInv'
      <4>1. CASE plan.ways = ways
        BY <1>2, <2>0, <3>1, <4>1
      <4>2. CASE plan.ways # ways
        BY <2>0, <3>1, <3>3, <4>2 DEF LayoutInv
      <4> QED
        BY <4>1, <4>2
    <3> QED
      BY <1>1, <1>3, <1>4, <2>0, <3>4, <3>5 DEF PlanInv
  <2> QED
    BY <2>1, <2>2
<1>8. CASE RunSerial
  <2>1. StageInv'
    BY <1>0, <1>8 DEF RunSerial, StageInv
  <2> QED
    BY <1>1, <1>2, <1>3, <1>4, <1>8, <2>1 DEF RunSerial, PlanInv
<1>9. CASE RunLoop
  <2>1. ~Forked
    BY <1>9 DEF RunLoop, Forked
  <2>2. StageInv'
    BY <1>0, <1>9 DEF RunLoop, StageInv
  <2> QED
    BY <1>1, <1>2, <1>3, <1>9, <2>1, <2>2 DEF RunLoop, PlanInv
<1>10. CASE RunAlone
  <2>1. ~Forked
    BY <1>10 DEF RunAlone, Forked
  <2>2. StageInv'
    BY <1>0, <1>10 DEF RunAlone, StageInv
  <2> QED
    BY <1>1, <1>2, <1>3, <1>10, <2>1, <2>2 DEF RunAlone, PlanInv
<1>11. ASSUME NEW w \in Threads, Advance(w) PROVE PlanInv'
  <2> DEFINE T == {i \in DOMAIN Step.tasks : i > at[w] /\ TakesPart(w, i)} \union {Ended}
  <2>1. /\ Forked /\ at' = [at EXCEPT ![w] = Min(T)]
        /\ prog' = prog /\ slab' = slab /\ home' = home /\ plan' = plan /\ off' = off
        /\ ways' = ways /\ stage' = stage /\ step' = step
    BY <1>11 DEF Advance
  <2>2. Ended' = Ended /\ Step' = Step /\ Forked'
    BY <2>1 DEF Ended, Step, Forked, InSteps
  <2>3. /\ Min(T) \in 0 .. Ended
        /\ Min(T) # Ended => Min(T) \in DOMAIN Step.tasks /\ TakesPart(w, Min(T))
    BY <1>0, <2>1, NextInHand
  <2> HIDE DEF T
  <2>4. StageInv'
    BY <1>0, <2>1 DEF StageInv
  <2>5. at' \in [Threads -> 0 .. Ended']
    BY <1>0, <2>1, <2>2, <2>3 DEF HandInv
  <2>6. ASSUME NEW v \in Threads, at'[v] \notin {0, Ended}
        PROVE  at'[v] \in DOMAIN Step.tasks /\ TakesPart(v, at'[v])
    <3>1. CASE v = w
      BY <1>0, <2>1, <2>3, <2>6, <3>1 DEF HandInv
    <3>2. CASE v # w
      BY <1>0, <2>1, <2>6, <3>2 DEF HandInv
    <3> QED
      BY <3>1, <3>2
  <2>7. HandInv'
    <3>1. \A v \in Threads : at'[v] \notin {0, Ended'} =>
            at'[v] \in DOMAIN Step'.tasks /\ TakesPart(v, at[v])'
      BY <2>2, <2>6 DEF TakesPart
    <3> QED
      BY <2>2, <2>5, <3>1 DEF HandInv
  <2> QED
    BY <1>1, <1>2, <2>1, <2>4, <2>7 DEF PlanInv
<1>12. CASE Join
  <2>1. /\ at' = [w \in Threads |-> 0] /\ prog' = prog
        /\ step' = step + 1 /\ stage' = stage /\ ways' = ways /\ plan' = plan
    BY <1>12 DEF Join
  <2>2. StageInv'
    BY <1>0, <2>1 DEF StageInv
  <2>3. HandInv'
    <3>1. 0 \in 0 .. Ended' /\ Ended' = Ended
      BY <1>0, <2>1, ProgFacts DEF Ended
    <3>2. at' \in [Threads -> 0 .. Ended'] /\ \A w \in Threads : at'[w] = 0
      BY <2>1, <3>1
    <3> QED
      BY <3>2 DEF HandInv
  <2> QED
    BY <1>1, <1>2, <1>12, <2>2, <2>3 DEF Join, PlanInv
<1>13. CASE Return
  <2>1. ~Forked
    <3>1. stage = "steps" /\ step > Len(plan.steps) /\ step \in Nat
      BY <1>0, <1>13 DEF Return, StageInv
    <3>2. Len(plan.steps) \in Nat
      <4>1. PICK b : PlanSound(prog, slab, ways, b, plan)
        BY <1>0, <3>1, StepsState
      <4> QED
        BY <4>1 DEF PlanSound, StepsInv
    <3> QED
      BY <3>1, <3>2 DEF Forked, InSteps
  <2>2. StageInv'
    BY <1>0, <1>13 DEF Return, StageInv
  <2> QED
    BY <1>1, <1>2, <1>3, <1>13, <2>1, <2>2 DEF Return, PlanInv
<1>14. CASE UNCHANGED vars
  <2>1. /\ prog' = prog /\ slab' = slab /\ home' = home /\ plan' = plan /\ off' = off
        /\ ways' = ways /\ stage' = stage /\ step' = step /\ at' = at
    BY <1>14 DEF vars
  <2>2. StageInv'
    BY <1>0, <2>1 DEF StageInv
  <2>3. Ended' = Ended /\ Step' = Step /\ Forked' = Forked
    BY <2>1 DEF Ended, Step, Forked, InSteps
  <2>4. \A w, i : TakesPart(w, i)' <=> TakesPart(w, i)
    BY <2>3 DEF TakesPart
  <2>5. HandInv'
    BY <1>0, <2>1, <2>3, <2>4 DEF HandInv
  <2> QED
    BY <1>1, <1>2, <2>1, <2>2, <2>5 DEF PlanInv
<1> QED
  BY <1>5, <1>6, <1>7, <1>8, <1>9, <1>10, <1>11, <1>12, <1>13, <1>14 DEF Next, Done

\* The layout in use is that of the slab or of the plan last built, and a thread
\* has in hand what is its own: the invariant of the plan's calls.
THEOREM PlanInvariant == Spec => []PlanInv
<1>1. Init => PlanInv
  BY InitPlan
<1>2. PlanInv /\ [Next]_vars => PlanInv'
  BY PlanKept
<1> QED
  BY <1>1, <1>2, PTL DEF Spec

\* Every cell of a split task is in exactly one thread's share, at any width, any
\* cache line and any address of its output (share_at, as exec_share calls it).
THEOREM SharesOfCalls == Spec => []SharesCoverOnce
<1>1. PlanInv => SharesCoverOnce
  <2> SUFFICES ASSUME PlanInv, Forked, NEW i \in DOMAIN Step.tasks, Step.tasks[i].ways > 0
               PROVE  LET n == Step.tasks[i].ways IN
                      /\ UNION {Part(w, i) : w \in 0 .. n - 1} = All(i)
                      /\ \A v, w \in 0 .. n - 1 : v # w => Part(v, i) \intersect Part(w, i) = {}
    BY DEF SharesCoverOnce
  <2> DEFINE n == Step.tasks[i].ways
  <2>1. ProgramInv /\ LayoutInv /\ StageInv /\ InSteps /\ stage = "steps" /\ Step.kind = "fork"
    BY DEF PlanInv, Forked, InSteps
  <2>2. PICK b : PhaseState(b)
    BY <2>1, PhaseStateFacts
  <2>3. n = ways /\ n \in Nat \ {0}
    BY <2>1, <2>2, SplitFacts
  <2>4. i \in Pcs(prog) /\ off \in [Slots(prog) -> Nat]
    BY <2>1, <2>2, TaskFacts
  <2>5. /\ UNION {ShareOf(i, w, n) : w \in 0 .. n - 1} = All(i)
        /\ \A v, w \in 0 .. n - 1 : v # w => ShareOf(i, v, n) \intersect ShareOf(i, w, n) = {}
    BY <2>1, <2>3, <2>4, ShareFacts
  <2>6. \A w : Part(w, i) = ShareOf(i, w, n)
    BY DEF Part
  <2> HIDE DEF n
  <2>7. {Part(w, i) : w \in 0 .. n - 1} = {ShareOf(i, w, n) : w \in 0 .. n - 1}
    BY <2>6
  <2> QED
    BY <2>5, <2>6, <2>7 DEF n
<1> QED
  BY <1>1, PlanInvariant, PTL

\* The tasks of a phase are apart: neither writes what the other touches.
LEMMA PhaseTasksApart ==
  ASSUME ProgramInv, NEW b, PhaseState(b), Step.kind = "fork", PreReductionsPrivate(prog),
         NEW i \in DOMAIN Step.tasks, NEW j \in DOMAIN Step.tasks, i # j,
         NEW P, P \subseteq All(i), NEW Q, Q \subseteq All(j)
  PROVE  LocsOf(Results(i, P, 0)) \intersect Touched(j, Q) = {}
<1>1. /\ i \in Continuous(prog) /\ i \in Nat /\ Placeable(prog, ways, i)
      /\ prog.code[i].op # "sweep" /\ off \in [Slots(prog) -> Nat]
  BY TaskFacts
<1>2. /\ j \in Continuous(prog) /\ j \in Nat /\ Placeable(prog, ways, j)
      /\ prog.code[j].op # "sweep" /\ ~Idle(prog, j)
  BY TaskFacts
<1>3. Apart(prog, b.store, i, j)
  <2>1. i < j \/ j < i
    BY <1>1, <1>2
  <2>2. \A x, y \in DOMAIN Step.tasks : x < y => Apart(prog, b.store, x, y)
    BY DEF PhaseState, StepSound, ForkSound
  <2> QED
    BY <2>1, <2>2, ApartIsMutual
<1>4. PlanLayout(b)
  BY DEF PhaseState
<1>5. ASSUME NEW l \in LocsOf(Results(i, P, 0)), l \in Touched(j, Q) PROVE FALSE
  <2>1. WriteSpot(i, l)
    BY <1>1, ResultLocs
  <2>2. ~WriteSpot(j, l) /\ ~ReadSpot(j, l)
    BY <1>1, <1>2, <1>3, <1>4, <2>1, TasksApart
  <2>3. CASE l \in LocsOf(Operands(j, Q, 0, 0))
    BY <1>1, <1>2, <2>2, <2>3, OperandLocs
  <2>4. CASE l \in LocsOf(Results(j, Q, 0))
    BY <1>1, <1>2, <2>2, <2>4, ResultLocs
  <2> QED
    BY <1>5, <2>3, <2>4 DEF Touched
<1> QED
  BY <1>5

\* Of two tasks of one phase neither writes what the other touches, for any
\* program whose pre-reductions are its groups' own, at any width and fork floor:
\* what plan.rs says its phases are.
THEOREM PlanOrdersConflicts ==
  ASSUME \A p \in Programs : PreReductionsPrivate(p)
  PROVE  Spec => []PhasesOrderConflicts
<1>1. PlanInv => PhasesOrderConflicts
  <2> SUFFICES ASSUME PlanInv, InSteps, Step.kind = "fork",
                      NEW i \in DOMAIN Step.tasks, NEW j \in DOMAIN Step.tasks, i # j
               PROVE  LocsOf(Results(i, All(i), 0)) \intersect Touched(j, All(j)) = {}
    BY DEF PhasesOrderConflicts
  <2>1. ProgramInv /\ LayoutInv /\ StageInv /\ PreReductionsPrivate(prog)
    BY DEF PlanInv, ProgramInv
  <2>2. PICK b : PhaseState(b)
    BY <2>1, PhaseStateFacts
  <2> QED
    BY <2>1, <2>2, PhaseTasksApart
<1> QED
  BY <1>1, PlanInvariant, PTL

\* No thread of a phase writes what another has in hand, neither tasks of one
\* phase nor shares of one task: what makes PhaseJob's and SendPtr's unsafe impl
\* Sync sound.
THEOREM ThreadsDoNotRace ==
  ASSUME \A p \in Programs : PreReductionsPrivate(p)
  PROVE  Spec => []NoRace
<1>1. PlanInv => NoRace
  <2> SUFFICES ASSUME PlanInv, NEW v \in Threads, NEW w \in Threads, v # w, InHand(v), InHand(w)
               PROVE  LocsOf(Results(at[v], Part(v, at[v]), 0))
                        \intersect Touched(at[w], Part(w, at[w])) = {}
    BY DEF NoRace
  <2> DEFINE i == at[v]
             j == at[w]
  <2>1. /\ ProgramInv /\ LayoutInv /\ StageInv /\ HandInv /\ PreReductionsPrivate(prog)
        /\ Forked /\ InSteps /\ stage = "steps" /\ Step.kind = "fork"
        /\ i \in DOMAIN Step.tasks /\ j \in DOMAIN Step.tasks
    BY DEF PlanInv, ProgramInv, InHand, Forked, InSteps
  <2>2. PICK b : PhaseState(b)
    BY <2>1, PhaseStateFacts
  <2> HIDE DEF i, j
  <2>3. /\ i \notin {0, Ended} /\ j \notin {0, Ended} /\ ~Idle(prog, i)
        /\ i \in Continuous(prog) /\ i \in Pcs(prog) /\ off \in [Slots(prog) -> Nat]
    BY <2>1, <2>2, TaskFacts
  <2>4. TakesPart(v, i) /\ TakesPart(w, j)
    BY <2>1, <2>3 DEF HandInv, i, j
  <2>5. Part(v, i) \subseteq All(i) /\ Part(w, j) \subseteq All(j)
    BY <2>1, <2>2, <2>4, PartFacts
  <2>6. CASE i # j
    BY <2>1, <2>2, <2>5, <2>6, PhaseTasksApart DEF i, j
  <2>7. CASE i = j
    <3>1. Step.tasks[i].ways # 0
      <4> SUFFICES ASSUME Step.tasks[i].ways = 0 PROVE FALSE
        OBVIOUS
      <4>1. Step.tasks[i].thread = v /\ Step.tasks[i].thread = w
        BY <2>4, <2>7 DEF TakesPart
      <4> QED
        BY <4>1
    <3>2. /\ Step.tasks[i].ways = ways /\ ways \in Nat \ {0}
          /\ prog.code[i].op \in {"copy", "fused", "dy"}
      BY <2>1, <2>2, <3>1, SplitFacts
    <3>3. v \in 0 .. ways - 1 /\ w \in 0 .. ways - 1
      <4>1. v < ways /\ w < ways
        BY <2>4, <2>7, <3>2 DEF TakesPart
      <4>2. v \in Nat /\ w \in Nat
        BY CallConstants DEF Threads
      <4> QED
        BY <3>2, <4>1, <4>2
    <3>4. Part(v, i) \intersect Part(w, i) = {}
      <4>1. Part(v, i) = ShareOf(i, v, ways) /\ Part(w, i) = ShareOf(i, w, ways)
        BY <3>2 DEF Part
      <4> QED
        BY <2>1, <2>3, <3>2, <3>3, <4>1, ShareFacts
    <3>5. PlanLayout(b)
      BY <2>2 DEF PhaseState
    <3>6. LocsOf(Results(i, Part(v, i), 0)) \intersect Touched(i, Part(w, i)) = {}
      BY <2>1, <2>3, <2>5, <2>7, <3>2, <3>4, <3>5, SharesApart
    <3> QED
      BY <2>7, <3>6 DEF i, j
  <2> QED
    BY <2>6, <2>7
<1> QED
  BY <1>1, PlanInvariant, PTL
-----------------------------------------------------------------------------
(* What the memory holds *)

\* A program the memory argument covers.
Plain(p) == PreReductionsPrivate(p) /\ HomesPrivate(p) /\ Sweepless(p)

\* A layout in use: slots share addresses only if they share a storage.
Laid(store, len) ==
  /\ Layout(prog, store, off, len)
  /\ \A s, t \in Defined(prog) : store[s] = store[t] => slab.store[s] = slab.store[t]

\* Where the cells of a slot are, and what they hold once computed.
Cells(s) == {<<Loc(s, c), Tag(s, c, 0)>> : c \in 0 .. Elems(prog, s) - 1}

\* The DyWrites that have something left to copy.
Copies(i) == Code(i).op = "dy" /\ ~Idle(prog, i)

\* Once the instructions of D have run: the slots that are still of use.
Staying(D) ==
  {s \in Defined(prog) :
     /\ Def(prog, s) \in D
     /\ Homed(prog, s) \/ Dedicated(prog, s) \/ \E j \in Pcs(prog) \ D : s \in Reads(prog, j)}

StayingCells(D) == UNION {Cells(s) : s \in Staying(D)}

Writes(i, l) == l \in LocsOf(Results(i, All(i), 0))

\* What the copies of D left in dy, the latest winning.
DyLeft(D) ==
  UNION {{r \in Results(i, All(i), 0) : \A j \in D : Copies(j) /\ i < j => ~Writes(j, r[1])} :
         i \in {i \in D : Copies(i)}}

\* What nothing writes.
Untouched ==
  {<<<<"dy", a>>, Junk>> : a \in {a \in 0 .. DyLen - 1 : \A i \in Pcs(prog) :
     Code(i).op = "dy" => a \notin Code(i).at .. Code(i).at + Code(i).elems - 1}}

\* What the memory holds once the instructions of D have run.
Settled(D) == StayingCells(D) \union DyLeft(D) \union Untouched

LEMMA SettledCases ==
  ASSUME NEW D, NEW k, k \in Settled(D)
  PROVE  \/ \E s \in Staying(D) : k \in Cells(s)
         \/ k \in DyLeft(D)
         \/ k \in Untouched
<1>1. Settled(D) = StayingCells(D) \union DyLeft(D) \union Untouched
  BY DEF Settled
<1>2. ASSUME k \in StayingCells(D) PROVE \E s \in Staying(D) : k \in Cells(s)
  BY <1>2 DEF StayingCells
<1> QED
  BY <1>1, <1>2

LEMMA DyLeftFacts ==
  ASSUME NEW D, NEW k
  PROVE  k \in DyLeft(D) <=>
           \E i \in D : /\ Copies(i) /\ k \in Results(i, All(i), 0)
                        /\ \A j \in D : Copies(j) /\ i < j => ~Writes(j, k[1])
BY DEF DyLeft

\* The slots an instruction stores, and the cells of them.
LEMMA ResultsAre ==
  ASSUME ProgramInv, Sweepless(prog), NEW i \in Pcs(prog)
  PROVE  /\ prog.code[i].op = "dy" =>
              \E s \in Reads(prog, i) : /\ Reads(prog, i) = {s} /\ Elems(prog, s) = prog.code[i].elems
                 /\ \A cells : Results(i, cells, 0) =
                      {<<<<"dy", prog.code[i].at + c>>, Tag(s, c, 0)>> : c \in cells}
         /\ prog.code[i].op # "dy" => Results(i, All(i), 0) = UNION {Cells(s) : s \in Defs(prog, i)}
<1>0. WellFormed(prog) /\ Len(prog.code) \in Nat /\ i \in 1 .. Len(prog.code)
  BY ProgFacts DEF Pcs
<1>1. ASSUME prog.code[i].op = "dy"
      PROVE  \E s \in Reads(prog, i) : /\ Reads(prog, i) = {s} /\ Elems(prog, s) = prog.code[i].elems
                 /\ \A cells : Results(i, cells, 0) =
                      {<<<<"dy", prog.code[i].at + c>>, Tag(s, c, 0)>> : c \in cells}
  <2>1. PICK s : Reads(prog, i) = {s}
    BY <1>0, <1>1 DEF WellFormed, Reads, Pcs
  <2>2. Elems(prog, s) = prog.code[i].elems
    BY <1>0, <1>1, <2>1 DEF WellFormed, Reads, Pcs
  <2>3. (CHOOSE t \in Reads(prog, i) : TRUE) = s
    BY <2>1
  <2>4. ASSUME NEW cells
        PROVE  Results(i, cells, 0) = {<<<<"dy", prog.code[i].at + c>>, Tag(s, c, 0)>> : c \in cells}
    BY <1>1, <2>3 DEF Results, Code
  <2> QED
    BY <2>1, <2>2, <2>4
<1>2. ASSUME prog.code[i].op # "dy"
      PROVE  Results(i, All(i), 0) = UNION {Cells(s) : s \in Defs(prog, i)}
  <2>0. prog.code[i].elems \in Nat /\ prog.code[i].inner \in Nat
    BY <1>0, CodeFacts DEF Pcs
  <2>1. Elems(prog, i) = prog.code[i].elems
    BY <1>0 DEF Elems
  <2>2. OutCells(i, All(i)) = 0 .. Elems(prog, i) - 1
    <3>1. CASE ~PreReduces(prog, i)
      BY <2>0, <2>1, <3>1, OutCellsFacts, ExtentFacts DEF All
    <3>2. CASE PreReduces(prog, i)
      <4>1. Extent(i) \in Nat \ {0}
        BY <3>2, ExtentFacts
      <4>2. \A c \in 0 .. prog.code[i].elems - 1 : c % Extent(i) \in 0 .. Extent(i) - 1
        BY <2>0, <4>1
      <4> QED
        BY <2>1, <4>2 DEF OutCells, All, Code
    <3> QED
      BY <3>1, <3>2
  <2>3. {<<Loc(i, c), Tag(i, c, 0)>> : c \in OutCells(i, All(i))} = Cells(i)
    BY <2>2 DEF Cells
  <2>4. CASE ~PreReduces(prog, i)
    <3>1. ~(prog.code[i].inner > 0)
      BY <1>0, <2>4 DEF WellFormed, PreReduces, Sweepless, Pcs
    <3>2. Defs(prog, i) = {i}
      BY <1>2, <3>1 DEF Defs
    <3>3. Results(i, All(i), 0) = Cells(i)
      BY <1>2, <2>3, <2>4 DEF Results, Code, PreReduces
    <3> QED
      BY <3>2, <3>3
  <2>5. CASE PreReduces(prog, i)
    <3> DEFINE z == Second(prog, i)
    <3>1. Defs(prog, i) = {i, z}
      BY <1>2, <2>5 DEF Defs, PreReduces
    <3>2. Elems(prog, z) = prog.code[i].inner
      <4>1. z > Len(prog.code) /\ z - Len(prog.code) = i
        BY <1>0 DEF Second
      <4> QED
        BY <4>1 DEF Elems, Def
    <3>3. All(i) = 0 .. Elems(prog, z) - 1
      BY <2>5, <3>2, ExtentFacts DEF All
    <3>4. Results(i, All(i), 0) = Cells(i) \union {<<Loc(z, c), Tag(z, c, 0)>> : c \in All(i)}
      BY <1>2, <2>3, <2>5 DEF Results, Code, PreReduces
    <3>5. {<<Loc(z, c), Tag(z, c, 0)>> : c \in All(i)} = Cells(z)
      BY <3>3 DEF Cells
    <3> HIDE DEF z
    <3> QED
      BY <3>1, <3>4, <3>5
  <2> QED
    BY <2>4, <2>5
<1> QED
  BY <1>1, <1>2

\* What color_slab's storages say of two slots.
LEMMA SharedStorage ==
  ASSUME ProgramInv, NEW s \in Defined(prog), NEW t \in Defined(prog), s # t,
         slab.store[s] = slab.store[t]
  PROVE  Recycles(prog, s, t) \/ Recycles(prog, t, s)
<1>1. WellFormed(prog) /\ slab = ColorSlab(prog)
  BY ProgFacts DEF ProgramInv
<1> QED
  BY <1>1, SlabLayout

\* A home's stretch of dy is its own.
LEMMA HomeIsPrivate ==
  ASSUME ProgramInv, Plain(prog), NEW s \in Slots(prog), Homed(prog, s),
         NEW i \in Pcs(prog), prog.code[i].op = "dy", s \notin Reads(prog, i),
         NEW c \in 0 .. Elems(prog, s) - 1, NEW d \in 0 .. prog.code[i].elems - 1
  PROVE  Loc(s, c) # <<"dy", prog.code[i].at + d>>
<1>1. /\ prog.code[i].at \in Nat /\ prog.code[i].elems \in Nat
      /\ Elems(prog, s) \in Nat /\ HomeOf(prog, s) \in Int
  BY ProgFacts, CodeFacts, SlotFacts, HomeFacts
<1>2. \/ prog.code[i].at + prog.code[i].elems <= HomeOf(prog, s)
      \/ HomeOf(prog, s) + Elems(prog, s) <= prog.code[i].at
  BY DEF Plain, HomesPrivate
<1>3. HomeOf(prog, s) + c # prog.code[i].at + d
  BY <1>1, <1>2
<1>4. Loc(s, c) = <<"dy", HomeOf(prog, s) + c>>
  BY LocFacts
<1> QED
  BY <1>3, <1>4

\* Two slots meet only in a storage they share.
LEMMA SlotsMeet ==
  ASSUME ProgramInv, Plain(prog), NEW store, NEW len, Laid(store, len),
         NEW s \in Defined(prog), NEW t \in Defined(prog), s # t,
         NEW c \in 0 .. Elems(prog, s) - 1, NEW d \in 0 .. Elems(prog, t) - 1,
         Loc(s, c) = Loc(t, d)
  PROVE  /\ ~Homed(prog, s) /\ ~Homed(prog, t) /\ store[s] = store[t]
         /\ Recycles(prog, s, t) \/ Recycles(prog, t, s)
<1>0. /\ WellFormed(prog) /\ s \in Slots(prog) /\ t \in Slots(prog)
      /\ Elems(prog, s) \in Nat /\ Elems(prog, t) \in Nat
  BY ProgFacts, SlotFacts
<1>1. ASSUME NEW u \in Slots(prog), NEW v \in Slots(prog), ~Homed(prog, u), Homed(prog, v),
             NEW e, NEW f
      PROVE  Loc(u, e) # Loc(v, f)
  <2>1. Loc(u, e) = <<"slab", off[u] + e>> /\ Loc(v, f) = <<"dy", HomeOf(prog, v) + f>>
    BY <1>1, LocFacts
  <2> QED
    BY <2>1
<1>2. ~(Homed(prog, s) /\ Homed(prog, t))
  <2> SUFFICES ASSUME Homed(prog, s), Homed(prog, t) PROVE FALSE
    OBVIOUS
  <2>1. PICK i \in Continuous(prog) : /\ Readers(prog, t) = {i} /\ prog.code[i].op = "dy"
                                      /\ HomeOf(prog, t) = prog.code[i].at
    BY <1>0, HomeFacts
  <2>2. i \in Pcs(prog) /\ t \in Reads(prog, i)
    BY <1>0, <2>1, ContinuousFacts DEF Readers
  <2>3. Reads(prog, i) = {t} /\ Elems(prog, t) = prog.code[i].elems
    BY <2>1, <2>2, ResultsAre DEF Plain
  <2>4. Loc(t, d) = <<"dy", prog.code[i].at + d>>
    BY <1>0, <2>1, LocFacts
  <2>5. s \notin Reads(prog, i) /\ d \in 0 .. prog.code[i].elems - 1
    BY <2>3
  <2> QED
    BY <1>0, <2>1, <2>2, <2>4, <2>5, HomeIsPrivate
<1>3. ~Homed(prog, s) /\ ~Homed(prog, t)
  BY <1>0, <1>1, <1>2
<1>4. store[s] = store[t]
  <2> SUFFICES ASSUME store[s] # store[t] PROVE FALSE
    OBVIOUS
  <2>1. /\ off[s] \in Nat /\ off[t] \in Nat
        /\ off[s] + Elems(prog, s) <= off[t] \/ off[t] + Elems(prog, t) <= off[s]
    BY <1>0 DEF Laid, Layout
  <2>2. off[s] + c # off[t] + d
    BY <1>0, <2>1
  <2> DEFINE x == off[s] + c
             y == off[t] + d
  <2>3. Loc(s, c) = <<"slab", x>> /\ Loc(t, d) = <<"slab", y>>
    BY <1>0, <1>3, LocFacts
  <2> HIDE DEF x, y
  <2>4. <<"slab", x>> = <<"slab", y>>
    BY <2>3
  <2>5. x = y
    BY <2>4
  <2> QED
    BY <2>2, <2>5 DEF x, y
<1>5. slab.store[s] = slab.store[t]
  BY <1>4 DEF Laid
<1> QED
  BY <1>3, <1>4, <1>5, SharedStorage

\* No slot is in another's storage while it is dedicated, nor is a pre-reduction's.
LEMMA AloneInStorage ==
  ASSUME ProgramInv, Plain(prog), NEW s \in Defined(prog), NEW t \in Defined(prog), s # t,
         \/ Dedicated(prog, s)
         \/ \E i \in Pcs(prog) : prog.code[i].op # "dy" /\ s = Second(prog, i)
  PROVE  slab.store[s] # slab.store[t]
<1>1. CASE Dedicated(prog, s)
  BY <1>1, SharedStorage DEF Recycles
<1>2. CASE \E i \in Pcs(prog) : prog.code[i].op # "dy" /\ s = Second(prog, i)
  <2>1. PICK i \in Pcs(prog) : prog.code[i].op # "dy" /\ s = Second(prog, i)
    BY <1>2
  <2>2. WellFormed(prog) /\ Len(prog.code) \in Nat /\ i \in 1 .. Len(prog.code)
    BY ProgFacts DEF Pcs
  <2>3. Def(prog, s) = i /\ s # i
    BY <2>1, <2>2 DEF Def, Second
  <2>4. s \in Defs(prog, i)
    BY <2>2, <2>3, SlotFacts
  <2>5. prog.code[i].inner > 0 /\ prog.code[i].op = "fused"
    BY <2>2, <2>3, <2>4 DEF Defs, WellFormed, Plain, Sweepless, Pcs
  <2>6. ColorSlab(prog).store[t] # ColorSlab(prog).store[s]
    BY <2>1, <2>5 DEF Plain, PreReductionsPrivate
  <2> QED
    BY <2>6 DEF ProgramInv
<1> QED
  BY <1>1, <1>2

-----------------------------------------------------------------------------
(* What a step writes and what it leaves *)

\* Where an instruction writes.
LEMMA WritesWhere ==
  ASSUME ProgramInv, Plain(prog), NEW i \in Pcs(prog), NEW l, Writes(i, l)
  PROVE  \/ prog.code[i].op = "dy" /\ \E c \in 0 .. prog.code[i].elems - 1 :
              l = <<"dy", prog.code[i].at + c>>
         \/ prog.code[i].op # "dy" /\ \E s \in Defs(prog, i) :
              \E c \in 0 .. Elems(prog, s) - 1 : l = Loc(s, c)
<1>0. Sweepless(prog)
  BY DEF Plain
<1>1. CASE prog.code[i].op = "dy"
  <2>1. PICK s : Results(i, All(i), 0) = {<<<<"dy", prog.code[i].at + c>>, Tag(s, c, 0)>> : c \in All(i)}
    BY <1>0, <1>1, ResultsAre
  <2>2. PICK c \in All(i) : l = <<"dy", prog.code[i].at + c>>
    BY <2>1 DEF Writes, LocsOf
  <2>3. All(i) = 0 .. prog.code[i].elems - 1
    BY <1>1, ExtentFacts DEF All, PreReduces
  <2> QED
    BY <1>1, <2>2, <2>3
<1>2. CASE prog.code[i].op # "dy"
  <2>1. Results(i, All(i), 0) = UNION {Cells(s) : s \in Defs(prog, i)}
    BY <1>0, <1>2, ResultsAre
  <2>2. PICK k \in UNION {Cells(s) : s \in Defs(prog, i)} : l = k[1]
    BY <2>1 DEF Writes, LocsOf
  <2>3. PICK s \in Defs(prog, i) : k \in Cells(s)
    BY <2>2
  <2>4. \E c \in 0 .. Elems(prog, s) - 1 : k[1] = Loc(s, c)
    BY <2>3 DEF Cells
  <2> QED
    BY <1>2, <2>2, <2>4
<1> QED
  BY <1>1, <1>2

LEMMA IdleFacts ==
  ASSUME ProgramInv, Plain(prog), NEW i \in Pcs(prog)
  PROVE  /\ \A s \in Reads(prog, i) : Homed(prog, s) => Idle(prog, i)
         /\ \A s \in Defs(prog, i) : ~Idle(prog, i)
         /\ prog.code[i].op # "dy" => ~Idle(prog, i)
<1>1. prog.code[i].op # "sweep"
  BY DEF Plain, Sweepless
<1> QED
  BY <1>1, Unhomed DEF Idle, Defs

\* The order an execution has to keep: what has not run yet is apart from the
\* later instructions that have.
Ordered(store, D) ==
  \A i \in Pcs(prog) \ D, j \in D :
    i < j /\ ~Idle(prog, i) /\ ~Idle(prog, j) => Apart(prog, store, i, j)

\* T may run next, after D.
Turn(store, D, T) ==
  /\ D \subseteq Pcs(prog) /\ T \subseteq Pcs(prog) /\ T \intersect D = {}
  /\ Ordered(store, D) /\ Ordered(store, D \union T)

\* Instructions that are apart write no storage the other uses.
LEMMA ApartSlots ==
  ASSUME ProgramInv, Plain(prog), NEW store, NEW len, Laid(store, len),
         NEW i \in Pcs(prog), NEW j \in Pcs(prog), i # j,
         Apart(prog, store, i, j) \/ Apart(prog, store, j, i),
         NEW s \in Defs(prog, i), ~Homed(prog, s),
         NEW t \in Defs(prog, j) \union Reads(prog, j), ~Homed(prog, t)
  PROVE  store[s] # store[t]
<1>0. /\ WellFormed(prog) /\ Len(prog.code) \in Nat
      /\ i \in 1 .. Len(prog.code) /\ j \in 1 .. Len(prog.code)
      /\ prog.code[i].op # "sweep" /\ prog.code[j].op # "sweep"
  BY ProgFacts DEF Pcs, Plain, Sweepless
<1>1. s \in Defined(prog) /\ Def(prog, s) = i /\ s \in Slots(prog) /\ prog.code[i].op # "dy"
  BY <1>0, SlotFacts DEF Defined, Defs
<1>2. t \in Defined(prog)
  BY <1>0, ReadsEarlier DEF Defined
<1>3. Apart(prog, store, i, j)
  BY ApartIsMutual
<1>4. s = i \/ s = Second(prog, i)
  BY <1>1 DEF Defs
<1>5. CASE s = i
  <2>1. s \in PlannedWrites(prog, i)
    BY <1>1, <1>5 DEF PlannedWrites
  <2>2. CASE t \in Reads(prog, j)
    BY <1>3, <2>1, <2>2 DEF Apart
  <2>3. CASE t \in Defs(prog, j) /\ t = j
    <3>1. t \in PlannedWrites(prog, j)
      BY <2>3 DEF PlannedWrites, Defs
    <3> QED
      BY <1>3, <2>1, <3>1 DEF Apart
  <2>4. CASE t \in Defs(prog, j) /\ t # j
    <3>1. t = Second(prog, j) /\ prog.code[j].op # "dy"
      BY <2>4 DEF Defs
    <3>2. s # t
      BY <1>0, <1>5, <3>1 DEF Second
    <3>3. slab.store[t] # slab.store[s]
      BY <1>1, <1>2, <3>1, <3>2, AloneInStorage
    <3> QED
      BY <1>1, <1>2, <3>3 DEF Laid
  <2> QED
    BY <2>2, <2>3, <2>4
<1>6. CASE s = Second(prog, i)
  <2>1. s # t
    <3> SUFFICES ASSUME s = t PROVE FALSE
      OBVIOUS
    <3>1. CASE t \in Defs(prog, j)
      BY <1>0, <1>1, <3>1, SlotFacts
    <3>2. CASE t \in Reads(prog, j)
      <4>1. prog.code[i].op = "fused" /\ prog.code[i].inner > 0
        <5>1. prog.code[i].inner > 0
          BY <1>0, <1>1, <1>6 DEF Defs, Second
        <5> QED
          BY <1>0, <5>1 DEF WellFormed, Pcs
      <4> QED
        BY <1>6, <3>2, <4>1 DEF Plain, PreReductionsPrivate
    <3> QED
      BY <3>1, <3>2
  <2>2. slab.store[s] # slab.store[t]
    BY <1>1, <1>2, <1>6, <2>1, AloneInStorage
  <2> QED
    BY <1>1, <1>2, <2>2 DEF Laid
<1> QED
  BY <1>4, <1>5, <1>6

\* What nothing writes stays so.
LEMMA UntouchedStays ==
  ASSUME ProgramInv, Plain(prog), NEW k \in Untouched, NEW i \in Pcs(prog)
  PROVE  ~Writes(i, k[1])
<1> SUFFICES ASSUME Writes(i, k[1]) PROVE FALSE
  OBVIOUS
<1>0. WellFormed(prog)
  BY ProgFacts
<1>1. PICK a \in 0 .. DyLen - 1 :
        /\ k = <<<<"dy", a>>, Junk>>
        /\ \A j \in Pcs(prog) : prog.code[j].op = "dy" =>
             a \notin prog.code[j].at .. prog.code[j].at + prog.code[j].elems - 1
  BY DEF Untouched, Code
<1>2. k[1] = <<"dy", a>>
  BY <1>1
<1>3. ASSUME NEW j \in Pcs(prog), prog.code[j].op = "dy", NEW c \in 0 .. prog.code[j].elems - 1,
             k[1] = <<"dy", prog.code[j].at + c>>
      PROVE  FALSE
  <2>1. prog.code[j].at \in Nat /\ prog.code[j].elems \in Nat
    BY <1>0, CodeFacts
  <2>2. prog.code[j].at + c \in prog.code[j].at .. prog.code[j].at + prog.code[j].elems - 1
    BY <2>1
  <2> DEFINE x == prog.code[j].at + c
  <2>3. <<"dy", a>> = <<"dy", x>>
    BY <1>2, <1>3
  <2> HIDE DEF x
  <2>4. a = x
    BY <2>3
  <2> QED
    BY <1>1, <1>3, <2>2, <2>4 DEF x
<1>4. CASE prog.code[i].op = "dy"
  BY <1>3, <1>4, WritesWhere
<1>5. CASE prog.code[i].op # "dy"
  <2>1. PICK s \in Defs(prog, i) : \E c \in 0 .. Elems(prog, s) - 1 : k[1] = Loc(s, c)
    BY <1>5, WritesWhere
  <2>2. PICK c \in 0 .. Elems(prog, s) - 1 : k[1] = Loc(s, c)
    BY <2>1
  <2>3. s \in Slots(prog)
    BY <1>0, SlotFacts
  <2>4. CASE Homed(prog, s)
    <3>1. PICK j \in Continuous(prog) : /\ Readers(prog, s) = {j} /\ prog.code[j].op = "dy"
                                        /\ HomeOf(prog, s) = prog.code[j].at
      BY <1>0, <2>3, <2>4, HomeFacts
    <3>2. j \in Pcs(prog) /\ s \in Reads(prog, j)
      BY <1>0, <3>1, ContinuousFacts DEF Readers
    <3>3. Elems(prog, s) = prog.code[j].elems
      BY <3>1, <3>2, ResultsAre DEF Plain
    <3>4. k[1] = <<"dy", prog.code[j].at + c>>
      BY <2>2, <2>3, <2>4, <3>1, LocFacts
    <3> QED
      BY <1>3, <3>1, <3>2, <3>3, <3>4
  <2>5. CASE ~Homed(prog, s)
    <3>1. k[1] = <<"slab", off[s] + c>>
      BY <2>2, <2>3, <2>5, LocFacts
    <3>2. k[1][1] = "slab"
      BY <3>1
    <3>3. k[1][1] = "dy"
      BY <1>2
    <3> QED
      BY <3>2, <3>3
  <2> QED
    BY <2>4, <2>5
<1> QED
  BY <1>4, <1>5

\* A DyWrite that copies leaves every slot alone, homed ones too.
LEMMA CopiesMissSlots ==
  ASSUME ProgramInv, Plain(prog), NEW s \in Defined(prog), NEW c \in 0 .. Elems(prog, s) - 1,
         NEW i \in Pcs(prog), Copies(i)
  PROVE  ~Writes(i, Loc(s, c))
<1> SUFFICES ASSUME Writes(i, Loc(s, c)) PROVE FALSE
  OBVIOUS
<1>0. WellFormed(prog) /\ s \in Slots(prog) /\ prog.code[i].op = "dy" /\ ~Idle(prog, i)
  BY ProgFacts, SlotFacts DEF Copies, Code
<1>1. PICK d \in 0 .. prog.code[i].elems - 1 : Loc(s, c) = <<"dy", prog.code[i].at + d>>
  BY <1>0, WritesWhere
<1>2. CASE Homed(prog, s)
  <2>1. s \notin Reads(prog, i)
    BY <1>0, <1>2, IdleFacts
  <2> QED
    BY <1>0, <1>1, <1>2, <2>1, HomeIsPrivate
<1>3. CASE ~Homed(prog, s)
  <2>1. Loc(s, c) = <<"slab", off[s] + c>>
    BY <1>0, <1>3, LocFacts
  <2>2. Loc(s, c)[1] = "slab"
    BY <2>1
  <2>3. Loc(s, c)[1] = "dy"
    BY <1>1
  <2> QED
    BY <2>2, <2>3
<1> QED
  BY <1>2, <1>3

\* A slot that is still of use is not written by what runs next.
LEMMA StayingStays ==
  ASSUME ProgramInv, Plain(prog), NEW store, NEW len, Laid(store, len),
         NEW D, NEW T, Turn(store, D, T),
         NEW s \in Staying(D \union T), Def(prog, s) \in D, NEW c \in 0 .. Elems(prog, s) - 1,
         NEW i \in T, ~Idle(prog, i)
  PROVE  ~Writes(i, Loc(s, c))
<1> SUFFICES ASSUME Writes(i, Loc(s, c)) PROVE FALSE
  OBVIOUS
<1>0. /\ WellFormed(prog) /\ Len(prog.code) \in Nat /\ s \in Defined(prog) /\ s \in Slots(prog)
      /\ i \in Pcs(prog) /\ i \notin D /\ i \in 1 .. Len(prog.code)
      /\ Def(prog, s) \in Pcs(prog) /\ Def(prog, s) \in 1 .. Len(prog.code)
      /\ s \in Defs(prog, Def(prog, s))
  BY ProgFacts, SlotFacts DEF Staying, Turn, Pcs
<1>1. prog.code[i].op # "dy"
  BY <1>0, CopiesMissSlots DEF Copies, Code
<1>2. PICK t \in Defs(prog, i) : \E d \in 0 .. Elems(prog, t) - 1 : Loc(s, c) = Loc(t, d)
  BY <1>0, <1>1, WritesWhere
<1>3. PICK d \in 0 .. Elems(prog, t) - 1 : Loc(s, c) = Loc(t, d)
  BY <1>2
<1>4. t \in Defined(prog) /\ Def(prog, t) = i /\ s # t
  BY <1>0, <1>2, SlotFacts DEF Defined
<1>5. /\ ~Homed(prog, s) /\ ~Homed(prog, t) /\ store[s] = store[t]
      /\ Recycles(prog, s, t) \/ Recycles(prog, t, s)
  BY <1>0, <1>3, <1>4, SlotsMeet
<1>6. PICK j \in Pcs(prog) \ (D \union T) : s \in Reads(prog, j)
  <2>1. ~Dedicated(prog, s)
    BY <1>5 DEF Recycles
  <2> QED
    BY <1>5, <2>1 DEF Staying
<1>7. j \in 1 .. Len(prog.code) /\ ~Idle(prog, j)
  <2>1. prog.code[j].op = "dy" => Reads(prog, j) = {s}
    BY <1>6, ResultsAre DEF Plain
  <2> QED
    BY <1>5, <1>6, <2>1 DEF Idle, Pcs
<1>8. LastUse(prog, s) \in 1 .. Len(prog.code) /\ j <= LastUse(prog, s)
  BY <1>0, <1>6, LastUseFacts DEF Pcs
<1>9. LastUse(prog, t) \in 1 .. Len(prog.code) /\ i <= LastUse(prog, t)
  BY <1>0, <1>2, <1>4, LastUseFacts, SlotFacts DEF Pcs
<1>10. CASE Recycles(prog, s, t)
  <2>1. j <= i /\ j # i
    BY <1>0, <1>4, <1>6, <1>7, <1>8, <1>10 DEF Recycles
  <2>2. Apart(prog, store, j, i)
    BY <1>0, <1>6, <1>7, <2>1 DEF Turn, Ordered
  <2> QED
    BY <1>0, <1>2, <1>5, <1>6, <2>1, <2>2, ApartSlots
<1>11. CASE Recycles(prog, t, s)
  <2>1. i <= Def(prog, s) /\ i # Def(prog, s)
    BY <1>0, <1>9, <1>11 DEF Recycles
  <2>2. ~Idle(prog, Def(prog, s))
    BY <1>0, IdleFacts
  <2>3. Apart(prog, store, i, Def(prog, s))
    BY <1>0, <2>1, <2>2 DEF Turn, Ordered
  <2> QED
    BY <1>0, <1>2, <1>5, <2>1, <2>3, ApartSlots
<1> QED
  BY <1>5, <1>10, <1>11

\* Copies that are apart write no address both.
LEMMA CopiesMeet ==
  ASSUME ProgramInv, Plain(prog), NEW store, NEW i \in Pcs(prog), NEW j \in Pcs(prog),
         Copies(i), Copies(j), NEW l, Writes(i, l), Writes(j, l)
  PROVE  ~Apart(prog, store, i, j)
<1>1. ASSUME NEW k \in Pcs(prog), Copies(k), Writes(k, l)
      PROVE  \E r \in DyRange(prog, k) : l \in DySpan(r)
  <2>1. prog.code[k].op = "dy"
    BY <1>1 DEF Copies, Code
  <2>2. PICK c \in 0 .. prog.code[k].elems - 1 : l = <<"dy", prog.code[k].at + c>>
    BY <1>1, <2>1, WritesWhere
  <2> QED
    BY <2>1, <2>2, DyWriteInBlock
<1>2. PICK r \in DyRange(prog, i) : l \in DySpan(r)
  BY <1>1
<1>3. PICK q \in DyRange(prog, j) : l \in DySpan(q)
  BY <1>1
<1>4. r.lo \in Int /\ r.hi \in Int /\ q.lo \in Int /\ q.hi \in Int
  BY ProgFacts, RangeFacts
<1>5. PICK a \in r.lo .. r.hi - 1 : l = <<"dy", a>>
  BY <1>2 DEF DySpan
<1>6. PICK b \in q.lo .. q.hi - 1 : l = <<"dy", b>>
  BY <1>3 DEF DySpan
<1>7. <<"dy", a>> = <<"dy", b>>
  BY <1>5, <1>6
<1>8. a = b
  BY <1>7
<1>9. ~(r.hi <= q.lo \/ q.hi <= r.lo)
  BY <1>4, <1>5, <1>6, <1>8
<1> QED
  BY <1>9 DEF Apart

\* What is settled once T has run, T wrote or it was settled before and T left it.
SettledBy(D, T, k) ==
  \/ \E i \in T : ~Idle(prog, i) /\ k \in Results(i, All(i), 0)
  \/ k \in Settled(D) /\ \A i \in T : ~Idle(prog, i) => ~Writes(i, k[1])

LEMMA SettledNext ==
  ASSUME ProgramInv, Plain(prog), NEW store, NEW len, Laid(store, len),
         NEW D, NEW T, Turn(store, D, T), NEW k \in Settled(D \union T)
  PROVE  SettledBy(D, T, k)
<1>0. /\ WellFormed(prog) /\ D \subseteq Pcs(prog) /\ T \subseteq Pcs(prog) /\ T \intersect D = {}
      /\ Len(prog.code) \in Nat /\ Pcs(prog) = 1 .. Len(prog.code)
  BY ProgFacts DEF Turn, Pcs
<1>1. CASE \E s \in Staying(D \union T) : k \in Cells(s)
  <2>1. PICK s \in Staying(D \union T) : k \in Cells(s)
    BY <1>1
  <2>2. s \in Defined(prog) /\ s \in Defs(prog, Def(prog, s)) /\ Def(prog, s) \in D \union T
    BY <1>0, SlotFacts DEF Staying
  <2>3. CASE Def(prog, s) \in T
    <3> DEFINE i == Def(prog, s)
    <3>1. i \in Pcs(prog) /\ prog.code[i].op # "dy" /\ ~Idle(prog, i)
      BY <1>0, <2>2, <2>3, IdleFacts DEF Defs
    <3>2. Results(i, All(i), 0) = UNION {Cells(t) : t \in Defs(prog, i)}
      BY <3>1, ResultsAre DEF Plain
    <3>3. k \in Results(i, All(i), 0)
      BY <2>1, <2>2, <3>2
    <3> QED
      BY <2>3, <3>1, <3>3 DEF SettledBy
  <2>4. CASE Def(prog, s) \in D
    <3>1. s \in Staying(D)
      BY <2>2, <2>4 DEF Staying
    <3>2. k \in Settled(D)
      BY <2>1, <3>1 DEF Settled, StayingCells
    <3>3. PICK c \in 0 .. Elems(prog, s) - 1 : k = <<Loc(s, c), Tag(s, c, 0)>>
      BY <2>1 DEF Cells
    <3>4. k[1] = Loc(s, c)
      BY <3>3
    <3>5. \A i \in T : ~Idle(prog, i) => ~Writes(i, k[1])
      BY <2>4, <3>4, StayingStays
    <3> QED
      BY <3>2, <3>5 DEF SettledBy
  <2> QED
    BY <2>2, <2>3, <2>4
<1>2. CASE k \in DyLeft(D \union T)
  <2>1. PICK j \in D \union T : /\ Copies(j) /\ k \in Results(j, All(j), 0)
                                /\ \A h \in D \union T : Copies(h) /\ j < h => ~Writes(h, k[1])
    BY <1>2, DyLeftFacts
  <2>2. CASE j \in T
    BY <2>1, <2>2 DEF SettledBy, Copies
  <2>3. CASE j \in D
    <3>1. k \in Settled(D)
      <4>1. k \in DyLeft(D)
        BY <2>1, <2>3, DyLeftFacts
      <4> QED
        BY <4>1 DEF Settled
    <3>2. Writes(j, k[1]) /\ j \in Pcs(prog)
      BY <1>0, <2>1 DEF Writes, LocsOf
    <3>3. ASSUME NEW i \in T, ~Idle(prog, i), Writes(i, k[1]) PROVE FALSE
      <4>0. i \in Pcs(prog) /\ i # j /\ i \notin D
        BY <1>0, <2>3
      <4>1. CASE prog.code[i].op = "dy"
        <5>1. Copies(i)
          BY <3>3, <4>1 DEF Copies, Code
        <5>2. i < j
          <6>1. ~(j < i)
            BY <2>1, <3>3, <5>1
          <6>2. i \in 1 .. Len(prog.code) /\ j \in 1 .. Len(prog.code)
            BY <1>0, <3>2, <4>0
          <6> QED
            BY <1>0, <4>0, <6>1, <6>2
        <5>3. Apart(prog, store, i, j)
          BY <2>1, <2>3, <3>3, <4>0, <5>2 DEF Turn, Ordered, Copies
        <5> QED
          BY <2>1, <3>2, <3>3, <4>0, <5>1, <5>3, CopiesMeet
      <4>2. CASE prog.code[i].op # "dy"
        <5>1. PICK s \in Defs(prog, i) : \E c \in 0 .. Elems(prog, s) - 1 : k[1] = Loc(s, c)
          BY <3>3, <4>0, <4>2, WritesWhere
        <5>2. s \in Defined(prog)
          BY <4>0 DEF Defined
        <5> QED
          BY <2>1, <3>2, <5>1, <5>2, CopiesMissSlots
      <4> QED
        BY <4>1, <4>2
    <3> QED
      BY <3>1, <3>3 DEF SettledBy
  <2> QED
    BY <2>1, <2>2, <2>3
<1>3. CASE k \in Untouched
  <2>1. k \in Settled(D)
    BY <1>3 DEF Settled
  <2> QED
    BY <1>0, <1>3, <2>1, UntouchedStays DEF SettledBy
<1> QED
  BY <1>1, <1>2, <1>3, SettledCases

\* What does nothing settles nothing.
LEMMA IdleSettlesNothing ==
  ASSUME ProgramInv, Plain(prog), NEW D, D \subseteq Pcs(prog), NEW E, E \subseteq Pcs(prog),
         D \subseteq E, \A i \in E \ D : Idle(prog, i), NEW k \in Settled(E)
  PROVE  k \in Settled(D)
<1>1. CASE \E s \in Staying(E) : k \in Cells(s)
  <2>1. PICK s \in Staying(E) : k \in Cells(s)
    BY <1>1
  <2>2. s \in Defined(prog) /\ s \in Defs(prog, Def(prog, s)) /\ Def(prog, s) \in E
    BY ProgFacts, SlotFacts DEF Staying
  <2>3. ~Idle(prog, Def(prog, s))
    BY <2>2, IdleFacts
  <2>4. s \in Staying(D)
    BY <2>2, <2>3 DEF Staying
  <2> QED
    BY <2>1, <2>4 DEF Settled, StayingCells
<1>2. CASE k \in DyLeft(E)
  <2>1. PICK j \in E : /\ Copies(j) /\ k \in Results(j, All(j), 0)
                       /\ \A h \in E : Copies(h) /\ j < h => ~Writes(h, k[1])
    BY <1>2, DyLeftFacts
  <2>2. j \in D
    BY <2>1 DEF Copies
  <2>3. k \in DyLeft(D)
    BY <2>1, <2>2, DyLeftFacts
  <2> QED
    BY <2>3 DEF Settled
<1>3. CASE k \in Untouched
  BY <1>3 DEF Settled
<1> QED
  BY <1>1, <1>2, <1>3, SettledCases

-----------------------------------------------------------------------------
(* What a step reads *)

\* What runs next reads what is settled.
LEMMA OperandsSettled ==
  ASSUME ProgramInv, Plain(prog), NEW store, NEW len, Laid(store, len),
         NEW D, NEW T, Turn(store, D, T), NEW i \in T, ~Idle(prog, i),
         \A j \in T : j < i => Apart(prog, store, j, i),
         NEW cells, cells \subseteq All(i), NEW o \in Operands(i, cells, 0, 0)
  PROVE  o \in Settled(D)
<1>0. /\ WellFormed(prog) /\ Len(prog.code) \in Nat /\ Pcs(prog) = 1 .. Len(prog.code)
      /\ i \in Pcs(prog) /\ i \notin D /\ prog.code[i].op # "sweep" /\ prog.code[i].elems \in Nat
  <2>1. i \in Pcs(prog)
    BY DEF Turn
  <2> QED
    BY <2>1, ProgFacts, CodeFacts DEF Turn, Pcs, Plain, Sweepless
<1>1. PICK s \in Reads(prog, i) \ {Second(prog, i)} :
        o \in {<<Loc(s, c), Tag(s, c, 0)>> : c \in CellsRead(i, s, cells, 0, 0)}
  BY DEF Operands
<1>2. /\ s \in Defined(prog) /\ s \in Slots(prog) /\ s # 0 /\ Def(prog, s) < i
      /\ Def(prog, s) \in Pcs(prog) /\ s \in Defs(prog, Def(prog, s))
      /\ ~Homed(prog, s) /\ Elems(prog, s) \in Nat
  <2>1. s \in Defined(prog) /\ s \in Slots(prog) /\ Def(prog, s) < i
    BY <1>0, <1>1, ReadsEarlier
  <2>2. s # 0
    BY <1>0, <2>1 DEF Slots
  <2> QED
    BY <1>0, <1>1, <2>1, <2>2, SlotFacts, IdleFacts
<1>3. Def(prog, s) \in D
  <2> DEFINE j == Def(prog, s)
  <2> SUFFICES ASSUME j \notin D PROVE FALSE
    OBVIOUS
  <2>1. ~Idle(prog, j)
    BY <1>0, <1>2, IdleFacts
  <2>2. Apart(prog, store, j, i)
    <3>1. CASE j \in T
      BY <1>2, <3>1
    <3>2. CASE j \notin T
      BY <1>0, <1>2, <2>1, <3>2 DEF Turn, Ordered
    <3> QED
      BY <3>1, <3>2
  <2>3. j # i
    BY <1>0, <1>2
  <2> HIDE DEF j
  <2>4. store[s] # store[s]
    BY <1>0, <1>1, <1>2, <2>2, <2>3, ApartSlots DEF j
  <2> QED
    BY <2>4
<1>4. s \in Staying(D)
  BY <1>0, <1>1, <1>2, <1>3 DEF Staying
<1>5. CellsRead(i, s, cells, 0, 0) \subseteq 0 .. Elems(prog, s) - 1
  <2>1. CASE prog.code[i].op \in {"copy", "dy"}
    <3>1. Elems(prog, s) = prog.code[i].elems
      BY <1>0, <1>1, <2>1 DEF WellFormed, Reads
    <3>2. Extent(i) = prog.code[i].elems
      BY <1>0, <2>1, ExtentFacts DEF PreReduces
    <3> QED
      BY <2>1, <3>1, <3>2 DEF All, CellsRead, Code
  <2>2. CASE prog.code[i].op \notin {"copy", "dy"}
    BY <1>2, <2>2 DEF CellsRead, Code
  <2> QED
    BY <2>1, <2>2
<1>6. o \in Cells(s)
  BY <1>1, <1>5 DEF Cells
<1> QED
  BY <1>4, <1>6 DEF Settled, StayingCells

-----------------------------------------------------------------------------
(* Storing *)

LEMMA PartOfResults ==
  ASSUME ProgramInv, Plain(prog), NEW i \in Pcs(prog), NEW cells, cells \subseteq All(i)
  PROVE  Results(i, cells, 0) \subseteq Results(i, All(i), 0)
<1>1. OutCells(i, cells) \subseteq OutCells(i, All(i))
  BY DEF OutCells
<1>2. CASE prog.code[i].op = "dy"
  BY <1>2, ResultsAre DEF Plain
<1>3. CASE prog.code[i].op # "dy"
  <2>1. CASE PreReduces(prog, i)
    <3>1. ASSUME NEW e
          PROVE  Results(i, e, 0) = {<<Loc(i, c), Tag(i, c, 0)>> : c \in OutCells(i, e)}
                   \union {<<Loc(Second(prog, i), c), Tag(Second(prog, i), c, 0)>> : c \in e}
      BY <1>3, <2>1 DEF Results, Code, PreReduces
    <3> QED
      BY <1>1, <3>1
  <2>2. CASE ~PreReduces(prog, i)
    <3>1. ASSUME NEW e
          PROVE  Results(i, e, 0) = {<<Loc(i, c), Tag(i, c, 0)>> : c \in OutCells(i, e)}
      BY <1>3, <2>2 DEF Results, Code, PreReduces
    <3> QED
      BY <1>1, <3>1
  <2> QED
    BY <2>1, <2>2
<1> QED
  BY <1>2, <1>3

\* An instruction writes each of its locations once.
LEMMA ResultsAgree ==
  ASSUME ProgramInv, Plain(prog), NEW store, NEW len, Laid(store, len), NEW i \in Pcs(prog),
         NEW k \in Results(i, All(i), 0), NEW r \in Results(i, All(i), 0), k[1] = r[1]
  PROVE  k = r
<1>0. WellFormed(prog) /\ Len(prog.code) \in Nat /\ Pcs(prog) = 1 .. Len(prog.code)
  BY ProgFacts DEF Pcs
<1>1. CASE prog.code[i].op = "dy"
  <2>0. prog.code[i].at \in Nat /\ prog.code[i].elems \in Nat /\ All(i) \subseteq Nat
    BY <1>0, CodeFacts, ExtentFacts
  <2>1. PICK s : Results(i, All(i), 0) = {<<<<"dy", prog.code[i].at + c>>, Tag(s, c, 0)>> : c \in All(i)}
    BY <1>1, ResultsAre DEF Plain
  <2>2. PICK c \in All(i) : k = <<<<"dy", prog.code[i].at + c>>, Tag(s, c, 0)>>
    BY <2>1
  <2>3. PICK d \in All(i) : r = <<<<"dy", prog.code[i].at + d>>, Tag(s, d, 0)>>
    BY <2>1
  <2> DEFINE x == prog.code[i].at + c
             y == prog.code[i].at + d
  <2>4. k[1] = <<"dy", x>> /\ r[1] = <<"dy", y>>
    BY <2>2, <2>3
  <2> HIDE DEF x, y
  <2>5. <<"dy", x>> = <<"dy", y>>
    BY <2>4
  <2>6. x = y
    BY <2>5
  <2>7. c = d
    BY <2>0, <2>6 DEF x, y
  <2> QED
    BY <2>2, <2>3, <2>7
<1>2. CASE prog.code[i].op # "dy"
  <2>1. Results(i, All(i), 0) = UNION {Cells(s) : s \in Defs(prog, i)}
    BY <1>2, ResultsAre DEF Plain
  <2>2. PICK s \in Defs(prog, i) : k \in Cells(s)
    BY <2>1
  <2>3. PICK t \in Defs(prog, i) : r \in Cells(t)
    BY <2>1
  <2>4. PICK c \in 0 .. Elems(prog, s) - 1 : k = <<Loc(s, c), Tag(s, c, 0)>>
    BY <2>2 DEF Cells
  <2>5. PICK d \in 0 .. Elems(prog, t) - 1 : r = <<Loc(t, d), Tag(t, d, 0)>>
    BY <2>3 DEF Cells
  <2>6. Loc(s, c) = Loc(t, d)
    BY <2>4, <2>5
  <2>7. s \in Defined(prog) /\ t \in Defined(prog) /\ s \in Slots(prog) /\ t \in Slots(prog)
    BY <1>0, SlotFacts DEF Defined
  <2>8. s = t
    <3> SUFFICES ASSUME s # t PROVE FALSE
      OBVIOUS
    <3>1. store[s] = store[t]
      BY <2>6, <2>7, SlotsMeet
    <3>2. s = Second(prog, i) \/ t = Second(prog, i)
      BY <1>2 DEF Defs
    <3>3. slab.store[s] # slab.store[t]
      BY <1>2, <2>7, <3>2, AloneInStorage
    <3> QED
      BY <2>7, <3>1, <3>3 DEF Laid
  <2>9. c = d
    <3>1. off \in [Slots(prog) -> Nat]
      BY DEF Laid, Layout
    <3>2. Elems(prog, s) \in Nat /\ c \in Int /\ d \in Int
      BY <1>0, <2>7, SlotFacts
    <3> QED
      BY <2>6, <2>7, <2>8, <3>1, <3>2, LocsDiffer
  <2> QED
    BY <2>4, <2>5, <2>8, <2>9
<1> QED
  BY <1>1, <1>2

\* What a slot's cells, and the copies, are stored in.
LEMMA CellsInMemory ==
  ASSUME ProgramInv, Plain(prog), NEW store, NEW len, Laid(store, len)
  PROVE  /\ \A s \in Defined(prog) : \A k \in Cells(s) : k[1] \in SlabLocs(len) \union DyLocs
         /\ \A i \in Pcs(prog) : \A k \in Results(i, All(i), 0) : k[1] \in SlabLocs(len) \union DyLocs
<1>0. WellFormed(prog) /\ len \in Nat /\ DyLen \in Nat
  BY ProgFacts, CallConstants DEF Laid, Layout
<1>1. ASSUME NEW i \in Pcs(prog), prog.code[i].op = "dy", NEW c \in 0 .. prog.code[i].elems - 1
      PROVE  <<"dy", prog.code[i].at + c>> \in DyLocs
  <2>1. /\ prog.code[i].at \in Nat /\ prog.code[i].elems \in Nat
        /\ prog.code[i].at + prog.code[i].elems <= DyLen
    BY <1>0, <1>1, CodeFacts, ProgFacts
  <2>2. prog.code[i].at + c \in 0 .. DyLen - 1
    BY <1>0, <2>1
  <2> QED
    BY <2>2 DEF DyLocs
<1>2. ASSUME NEW s \in Defined(prog), NEW k \in Cells(s)
      PROVE  k[1] \in SlabLocs(len) \union DyLocs
  <2>1. PICK c \in 0 .. Elems(prog, s) - 1 : k = <<Loc(s, c), Tag(s, c, 0)>>
    BY <1>2 DEF Cells
  <2>2. s \in Slots(prog) /\ Elems(prog, s) \in Nat
    BY <1>0, SlotFacts
  <2>3. CASE Homed(prog, s)
    <3>1. PICK j \in Continuous(prog) : /\ Readers(prog, s) = {j} /\ prog.code[j].op = "dy"
                                        /\ HomeOf(prog, s) = prog.code[j].at
      BY <1>0, <2>2, <2>3, HomeFacts
    <3>2. j \in Pcs(prog) /\ s \in Reads(prog, j)
      BY <1>0, <3>1, ContinuousFacts DEF Readers
    <3>3. Elems(prog, s) = prog.code[j].elems
      BY <3>1, <3>2, ResultsAre DEF Plain
    <3>4. k[1] = <<"dy", prog.code[j].at + c>>
      BY <2>1, <2>2, <2>3, <3>1, LocFacts
    <3> QED
      BY <1>1, <3>1, <3>2, <3>3, <3>4
  <2>4. CASE ~Homed(prog, s)
    <3>1. off[s] \in Nat /\ off[s] + Elems(prog, s) <= len
      BY <2>2 DEF Laid, Layout
    <3>2. off[s] + c \in 0 .. len - 1
      BY <1>0, <2>2, <3>1
    <3>3. k[1] = <<"slab", off[s] + c>>
      BY <2>1, <2>2, <2>4, LocFacts
    <3> QED
      BY <3>2, <3>3 DEF SlabLocs
  <2> QED
    BY <2>3, <2>4
<1>3. ASSUME NEW i \in Pcs(prog), NEW k \in Results(i, All(i), 0)
      PROVE  k[1] \in SlabLocs(len) \union DyLocs
  <2>1. CASE prog.code[i].op = "dy"
    <3>1. Writes(i, k[1])
      BY DEF Writes, LocsOf
    <3> QED
      BY <1>1, <2>1, <3>1, WritesWhere
  <2>2. CASE prog.code[i].op # "dy"
    <3>1. PICK s \in Defs(prog, i) : k \in Cells(s)
      BY <1>3, <2>2, ResultsAre DEF Plain
    <3> QED
      BY <1>2, <3>1 DEF Defined
  <2> QED
    BY <2>1, <2>2
<1> QED
  BY <1>2, <1>3

LEMMA SettledInMemory ==
  ASSUME ProgramInv, Plain(prog), NEW store, NEW len, Laid(store, len),
         NEW D, D \subseteq Pcs(prog), NEW k \in Settled(D)
  PROVE  k[1] \in SlabLocs(len) \union DyLocs
<1>1. CASE \E s \in Staying(D) : k \in Cells(s)
  BY <1>1, CellsInMemory DEF Staying
<1>2. CASE k \in DyLeft(D)
  BY <1>2, DyLeftFacts, CellsInMemory
<1>3. CASE k \in Untouched
  BY <1>3 DEF Untouched, DyLocs
<1> QED
  BY <1>1, <1>2, <1>3, SettledCases

\* Cells of which none are at one location, all in memory.
Storable(m, R) ==
  /\ \A k, r \in R : k[1] = r[1] => k = r
  /\ \A k \in R : k[1] \in DOMAIN m

\* n is m with these cells stored.
Wrote(m, R, n) ==
  /\ DOMAIN n = DOMAIN m
  /\ \A k \in R : n[k[1]] = k[2]
  /\ \A l \in DOMAIN m : l \notin LocsOf(R) => n[l] = m[l]

LEMMA StoreFacts ==
  ASSUME NEW m, NEW R, Storable(m, R)
  PROVE  Wrote(m, R, Store(m, TRUE, R))
<1> DEFINE n == Store(m, TRUE, R)
           t == [l \in LocsOf(R) |-> (CHOOSE r \in R : r[1] = l)[2]]
<1>1. n = [l \in DOMAIN m |-> IF l \notin LocsOf(R) THEN m[l] ELSE t[l]]
  BY DEF Store, LocsOf, n
<1>2. ASSUME NEW k \in R PROVE t[k[1]] = k[2]
  <2>1. (CHOOSE r \in R : r[1] = k[1]) \in R /\ (CHOOSE r \in R : r[1] = k[1])[1] = k[1]
    OBVIOUS
  <2>2. (CHOOSE r \in R : r[1] = k[1]) = k
    BY <2>1 DEF Storable
  <2>3. k[1] \in LocsOf(R)
    BY DEF LocsOf
  <2> QED
    BY <2>2, <2>3
<1> HIDE DEF t, n
<1>3. ASSUME NEW k \in R PROVE n[k[1]] = k[2]
  <2>1. k[1] \in LocsOf(R) /\ k[1] \in DOMAIN m
    BY DEF LocsOf, Storable
  <2> QED
    BY <1>1, <1>2, <2>1
<1>4. DOMAIN n = DOMAIN m
  BY <1>1
<1>5. ASSUME NEW l \in DOMAIN m, l \notin LocsOf(R) PROVE n[l] = m[l]
  BY <1>1, <1>5
<1> QED
  BY <1>3, <1>4, <1>5 DEF Wrote, n

-----------------------------------------------------------------------------
(* Instructions run one by one *)

Holds(m, D) == \A k \in Settled(D) : m[k[1]] = k[2]

InMemory(m, len) == SlabLocs(len) \union DyLocs \subseteq DOMAIN m

LEMMA ExecHolds ==
  ASSUME ProgramInv, Plain(prog), NEW store, NEW len, Laid(store, len),
         NEW D, NEW i, Turn(store, D, {i}), NEW m, InMemory(m, len), Holds(m, D),
         NEW n, n = Exec(m, i, 0, 0)
  PROVE  Holds(n, D \union {i}) /\ DOMAIN n = DOMAIN m
<1>0. i \in Pcs(prog) /\ D \subseteq Pcs(prog)
  BY DEF Turn
<1>1. CASE Idle(prog, i)
  <2>1. n = m
    BY <1>1 DEF Exec
  <2>2. \A k \in Settled(D \union {i}) : k \in Settled(D)
    BY <1>0, <1>1, IdleSettlesNothing
  <2> QED
    BY <2>1, <2>2 DEF Holds
<1>2. CASE ~Idle(prog, i)
  <2> DEFINE R == Results(i, All(i), 0)
  <2>0. Pcs(prog) \subseteq Int
    BY DEF Pcs
  <2>1. \A o \in Operands(i, All(i), 0, 0) : o \in Settled(D)
    BY <1>0, <1>2, <2>0, OperandsSettled
  <2>2. Found(m, Operands(i, All(i), 0, 0))
    BY <2>1 DEF Found, Holds
  <2>3. n = Store(m, TRUE, R)
    BY <1>2, <2>2 DEF Exec
  <2>4. Storable(m, R)
    BY <1>0, ResultsAgree, CellsInMemory DEF InMemory, Storable
  <2>5. Wrote(m, R, n)
    BY <2>3, <2>4, StoreFacts
  <2>6. /\ DOMAIN n = DOMAIN m
        /\ \A k \in R : n[k[1]] = k[2]
        /\ \A l \in DOMAIN m : l \notin LocsOf(R) => n[l] = m[l]
    BY <2>5 DEF Wrote
  <2>7. ASSUME NEW k \in Settled(D \union {i}) PROVE n[k[1]] = k[2]
    <3>1. SettledBy(D, {i}, k)
      BY SettledNext
    <3>2. CASE k \in R
      BY <2>6, <3>2
    <3>3. CASE k \in Settled(D) /\ ~Writes(i, k[1])
      <4>1. k[1] \in DOMAIN m
        BY <1>0, <3>3, SettledInMemory DEF InMemory
      <4>2. n[k[1]] = m[k[1]]
        BY <2>6, <3>3, <4>1 DEF Writes
      <4> QED
        BY <3>3, <4>2 DEF Holds
    <3> QED
      BY <1>2, <3>1, <3>2, <3>3 DEF SettledBy
  <2> QED
    BY <2>6, <2>7 DEF Holds
<1> QED
  BY <1>1, <1>2

UpTo(T, k) == {j \in T : j <= k}

\* Of what may run next, the earlier part may, and then the rest.
LEMMA TurnByTurn ==
  ASSUME ProgramInv, NEW store, NEW D, NEW T, Turn(store, D, T), NEW i \in T
  PROVE  /\ Turn(store, D \union UpTo(T, i - 1), {i})
         /\ D \union UpTo(T, i - 1) \union {i} = D \union UpTo(T, i)
<1> DEFINE S == {j \in T : j < i}
<1>0. D \subseteq Pcs(prog) /\ T \subseteq Pcs(prog) /\ T \intersect D = {} /\ Pcs(prog) \subseteq Int
      /\ Ordered(store, D) /\ Ordered(store, D \union T)
  BY DEF Turn, Pcs
<1>1. D \union S \union {i} = D \union {j \in T : j <= i}
  BY <1>0
<1>2. ASSUME NEW E, E \subseteq T, \A x \in T, y \in E : x < y => x \in E
      PROVE  Ordered(store, D \union E)
  <2> SUFFICES ASSUME NEW x \in Pcs(prog) \ (D \union E), NEW y \in D \union E,
                      x < y, ~Idle(prog, x), ~Idle(prog, y)
               PROVE  Apart(prog, store, x, y)
    BY DEF Ordered
  <2>1. CASE y \in D
    BY <1>0, <2>1 DEF Ordered
  <2>2. CASE y \in E
    <3>1. x \notin T
      BY <1>2, <2>2
    <3> QED
      BY <1>0, <1>2, <2>2, <3>1 DEF Ordered
  <2> QED
    BY <2>1, <2>2
<1>3. Ordered(store, D \union S)
  <2>1. \A x \in T, y \in S : x < y => x \in S
    BY <1>0
  <2>2. S \subseteq T
    OBVIOUS
  <2> HIDE DEF S
  <2> QED
    BY <1>2, <2>1, <2>2
<1>4. Ordered(store, D \union {j \in T : j <= i})
  <2>1. \A x \in T, y \in {j \in T : j <= i} : x < y => x \in {j \in T : j <= i}
    BY <1>0
  <2> QED
    BY <1>2, <2>1
<1>5. UpTo(T, i - 1) = S
  <2>1. \A j \in T : j <= i - 1 <=> j < i
    BY <1>0
  <2> QED
    BY <2>1 DEF UpTo
<1>6. i \notin D \union S /\ i \in Pcs(prog) /\ D \union S \subseteq Pcs(prog)
  BY <1>0
<1> QED
  BY <1>1, <1>3, <1>4, <1>5, <1>6 DEF Turn, UpTo

LEMMA StepOfRun ==
  ASSUME ProgramInv, Plain(prog), NEW store, NEW len, Laid(store, len),
         NEW D, NEW T, Turn(store, D, T), NEW k \in T,
         NEW old, InMemory(old, len), Holds(old, D \union UpTo(T, k - 1)),
         NEW new, new = Exec(old, k, 0, 0)
  PROVE  Holds(new, D \union UpTo(T, k)) /\ DOMAIN new = DOMAIN old
<1> DEFINE E == D \union UpTo(T, k - 1)
<1>1. Turn(store, E, {k}) /\ E \union {k} = D \union UpTo(T, k)
  BY TurnByTurn
<1>2. Holds(old, E)
  OBVIOUS
<1> HIDE DEF E
<1>3. Holds(new, E \union {k}) /\ DOMAIN new = DOMAIN old
  BY <1>1, <1>2, ExecHolds
<1> QED
  BY <1>1, <1>3

\* A run over lo .. hi that executes T and skips the rest.
RunsOver(run, m, T, lo, hi) ==
  /\ lo \in Nat \ {0} /\ hi \in Nat /\ lo - 1 <= hi /\ T \subseteq lo .. hi
  /\ run[lo - 1] = m
  /\ \A k \in lo .. hi : run[k] = IF k \in T THEN Exec(run[k - 1], k, 0, 0) ELSE run[k - 1]

\* In this layout, with this memory, T may run next.
Ready(store, len, D, T, m) ==
  Laid(store, len) /\ Turn(store, D, T) /\ InMemory(m, len) /\ Holds(m, D)

After(m, D, n) == Holds(n, D) /\ DOMAIN n = DOMAIN m

LEMMA RunHolds ==
  ASSUME ProgramInv, Plain(prog), NEW store, NEW len, NEW D, NEW T, NEW m, Ready(store, len, D, T, m),
         NEW run, NEW lo, NEW hi, RunsOver(run, m, T, lo, hi)
  PROVE  After(m, D \union T, run[hi])
<1>00. Laid(store, len) /\ Turn(store, D, T) /\ InMemory(m, len) /\ Holds(m, D)
  BY DEF Ready
<1>01. lo \in Nat \ {0} /\ hi \in Nat /\ lo - 1 <= hi /\ T \subseteq lo .. hi
  BY DEF RunsOver
<1> DEFINE P(k) == Holds(run[k], D \union UpTo(T, k)) /\ DOMAIN run[k] = DOMAIN m
           B == {k \in lo - 1 .. hi : ~P(k)}
<1>0. /\ \A i \in T : i \in Int /\ lo <= i /\ i <= hi
      /\ B \subseteq Nat /\ \A k \in B : lo - 1 <= k /\ k <= hi /\ k \in Nat
  BY <1>01
<1>1. UpTo(T, lo - 1) = {}
  <2>1. \A i \in T : ~(i <= lo - 1)
    BY <1>0, <1>01
  <2> QED
    BY <2>1 DEF UpTo
<1>2. P(lo - 1)
  <2>1. D \union UpTo(T, lo - 1) = D
    BY <1>1
  <2> QED
    BY <1>00, <2>1 DEF RunsOver
<1>3. ASSUME NEW k, k \in lo .. hi, P(k - 1) PROVE P(k)
  <2>0. k \in Int /\ k \in lo .. hi
    BY <1>01, <1>3
  <2>1. CASE k \notin T
    <3>1. UpTo(T, k) = UpTo(T, k - 1)
      <4>1. \A i \in T : i <= k <=> i <= k - 1
        BY <1>0, <2>0, <2>1
      <4> QED
        BY <4>1 DEF UpTo
    <3>2. run[k] = run[k - 1]
      BY <2>0, <2>1 DEF RunsOver
    <3> QED
      BY <1>3, <3>1, <3>2
  <2>2. CASE k \in T
    <3> DEFINE old == run[k - 1]
               new == run[k]
    <3>1. new = Exec(old, k, 0, 0)
      BY <2>0, <2>2 DEF RunsOver
    <3>2. InMemory(old, len) /\ Holds(old, D \union UpTo(T, k - 1)) /\ DOMAIN old = DOMAIN m
      BY <1>00, <1>3 DEF InMemory
    <3> HIDE DEF old, new
    <3>3. Holds(new, D \union UpTo(T, k)) /\ DOMAIN new = DOMAIN old
      BY <1>00, <2>2, <3>1, <3>2, StepOfRun
    <3> QED
      BY <3>2, <3>3 DEF new, old
  <2> QED
    BY <2>1, <2>2
<1> HIDE DEF P
<1>4. B = {}
  <2> SUFFICES ASSUME B # {} PROVE FALSE
    OBVIOUS
  <2>1. PICK k \in B : \A y \in B : k <= y
    BY <1>0, NatHasLeast
  <2>2. k \in Nat /\ lo - 1 <= k /\ k <= hi /\ ~P(k)
    BY <1>0, <2>1
  <2>3. k # lo - 1
    BY <1>2, <2>2
  <2>4. k \in lo .. hi /\ k - 1 \in lo - 1 .. hi /\ ~(k <= k - 1)
    BY <1>01, <2>2, <2>3
  <2>5. P(k - 1)
    BY <2>1, <2>4
  <2> QED
    BY <1>3, <2>2, <2>4, <2>5
<1>5. P(hi)
  <2>1. hi \in lo - 1 .. hi
    BY <1>01
  <2> QED
    BY <1>4, <2>1
<1>6. UpTo(T, hi) = T
  BY <1>0, <1>01 DEF UpTo
<1> QED
  BY <1>5, <1>6 DEF P, After

LEMMA RunRangeSteps ==
  ASSUME NEW m, NEW lo \in Nat \ {0}, NEW hi \in Nat, lo - 1 <= hi
  PROVE  \E run : /\ RunRange(m, lo, hi) = run[hi] /\ run[lo - 1] = m
                  /\ \A k \in lo .. hi : run[k] = RunInstr(run[k - 1], k)
<1> DEFINE Rec(g, h) == g = [k \in lo - 1 .. h |-> IF k < lo THEN m ELSE RunInstr(g[k - 1], k)]
           B == {h \in Nat : lo - 1 <= h /\ ~ \E g : Rec(g, h)}
<1>1. B = {}
  <2> SUFFICES ASSUME B # {} PROVE FALSE
    OBVIOUS
  <2>1. PICK h \in B : \A y \in B : h <= y
    BY NatHasLeast
  <2>2. h \in Nat /\ lo - 1 <= h /\ ~ \E g : Rec(g, h)
    BY <2>1
  <2>3. CASE h = lo - 1
    <3>1. Rec([k \in lo - 1 .. lo - 1 |-> m], lo - 1)
      OBVIOUS
    <3> QED
      BY <3>1, <2>2, <2>3
  <2>4. CASE h # lo - 1
    <3>1. h - 1 \in Nat /\ lo - 1 <= h - 1 /\ ~(h <= h - 1)
      BY <2>2, <2>4
    <3>2. h - 1 \notin B
      BY <3>1, <2>1
    <3>3. PICK g : Rec(g, h - 1)
      BY <3>1, <3>2
    <3> DEFINE f == [k \in lo - 1 .. h |-> IF k < h THEN g[k] ELSE RunInstr(g[h - 1], h)]
    <3>4. ASSUME NEW k \in lo - 1 .. h
          PROVE  f[k] = IF k < lo THEN m ELSE RunInstr(f[k - 1], k)
      <4>1. CASE k = h
        <5>1. f[k] = RunInstr(g[k - 1], k) /\ ~(k < lo)
          BY <2>2, <2>4, <4>1
        <5>2. f[k - 1] = g[k - 1]
          BY <2>2, <2>4, <4>1
        <5> HIDE DEF f
        <5> QED
          BY <5>1, <5>2
      <4>2. CASE k # h
        <5>1. f[k] = g[k] /\ k \in lo - 1 .. h - 1
          BY <2>2, <4>2
        <5>2. g[k] = IF k < lo THEN m ELSE RunInstr(g[k - 1], k)
          BY <3>3, <5>1
        <5>3. ~(k < lo) => f[k - 1] = g[k - 1]
          BY <2>2, <4>2
        <5> HIDE DEF f
        <5> QED
          BY <5>1, <5>2, <5>3
      <4> QED
        BY <4>1, <4>2
    <3>5. Rec(f, h)
      BY <3>4
    <3> QED
      BY <3>5, <2>2
  <2> QED
    BY <2>3, <2>4
<1>2. PICK g : Rec(g, hi)
  BY <1>1
<1> DEFINE run == CHOOSE f : Rec(f, hi)
<1>3. Rec(run, hi)
  BY <1>2, Zenon
<1>4. RunRange(m, lo, hi) = run[hi]
  BY DEF RunRange
<1> HIDE DEF run
<1>5. run[lo - 1] = m /\ \A k \in lo .. hi : run[k] = RunInstr(run[k - 1], k)
  BY <1>3
<1> QED
  BY <1>4, <1>5

LEMMA RunTasksSteps ==
  ASSUME NEW m, NEW pcs, Len(prog.code) \in Nat
  PROVE  \E run : /\ RunTasks(m, pcs) = run[Len(prog.code)] /\ run[0] = m
                  /\ \A k \in 1 .. Len(prog.code) :
                       run[k] = IF k \in pcs THEN Exec(run[k - 1], k, 0, 0) ELSE run[k - 1]
<1> DEFINE Rec(g, h) == g = [i \in 0 .. h |-> IF i = 0 THEN m ELSE IF i \in pcs
                               THEN Exec(g[i - 1], i, 0, 0) ELSE g[i - 1]]
           B == {h \in Nat : ~ \E g : Rec(g, h)}
<1>1. B = {}
  <2> SUFFICES ASSUME B # {} PROVE FALSE
    OBVIOUS
  <2>1. PICK h \in B : \A y \in B : h <= y
    BY NatHasLeast
  <2>2. h \in Nat /\ ~ \E g : Rec(g, h)
    BY <2>1
  <2>3. CASE h = 0
    <3>1. Rec([k \in 0 .. 0 |-> m], 0)
      OBVIOUS
    <3> QED
      BY <3>1, <2>2, <2>3
  <2>4. CASE h # 0
    <3>1. h - 1 \in Nat /\ ~(h <= h - 1)
      BY <2>2, <2>4
    <3>2. h - 1 \notin B
      BY <3>1, <2>1
    <3>3. PICK g : Rec(g, h - 1)
      BY <3>1, <3>2
    <3> DEFINE last == IF h \in pcs THEN Exec(g[h - 1], h, 0, 0) ELSE g[h - 1]
               f == [k \in 0 .. h |-> IF k < h THEN g[k] ELSE last]
    <3>4. \A k \in 0 .. h : f[k] = IF k = 0 THEN m ELSE IF k \in pcs
                                   THEN Exec(f[k - 1], k, 0, 0) ELSE f[k - 1]
      BY <3>1, <3>3, <2>2, <2>4
    <3>5. Rec(f, h)
      BY <3>4
    <3> QED
      BY <3>5, <2>2
  <2> QED
    BY <2>3, <2>4
<1>2. PICK g : Rec(g, Len(prog.code))
  BY <1>1
<1> DEFINE run == CHOOSE f : Rec(f, Len(prog.code))
<1>3. Rec(run, Len(prog.code))
  BY <1>2, Zenon
<1>4. RunTasks(m, pcs) = run[Len(prog.code)]
  BY DEF RunTasks
<1> HIDE DEF run
<1>5. run[0] = m /\ \A k \in 1 .. Len(prog.code) :
                       run[k] = IF k \in pcs THEN Exec(run[k - 1], k, 0, 0) ELSE run[k - 1]
  BY <1>3, SMTT(30)
<1> QED
  BY <1>4, <1>5

\* The instruction loop over a range that may run next.
LEMMA LoopHolds ==
  ASSUME ProgramInv, Plain(prog), NEW lo \in Nat \ {0}, NEW hi \in Nat, lo - 1 <= hi,
         NEW store, NEW len, NEW D, NEW T, T = lo .. hi, NEW m, Ready(store, len, D, T, m)
  PROVE  After(m, D \union T, RunRange(m, lo, hi))
<1>1. PICK run : /\ RunRange(m, lo, hi) = run[hi] /\ run[lo - 1] = m
                 /\ \A k \in lo .. hi : run[k] = RunInstr(run[k - 1], k)
  BY RunRangeSteps
<1>2. ASSUME NEW k \in lo .. hi PROVE run[k] = Exec(run[k - 1], k, 0, 0)
  <2>1. k \in Pcs(prog) /\ Sweepless(prog)
    BY DEF Ready, Turn, Plain
  <2>2. ~InBody(prog, k) /\ prog.code[k].op # "sweep"
    BY <2>1 DEF InBody, Sweepless
  <2> QED
    BY <1>1, <2>2 DEF RunInstr, Code
<1>3. RunsOver(run, m, T, lo, hi)
  BY <1>1, <1>2 DEF RunsOver
<1>4. After(m, D \union T, run[hi])
  BY <1>3, RunHolds
<1> QED
  BY <1>1, <1>4

LEMMA TasksHold ==
  ASSUME ProgramInv, Plain(prog), NEW store, NEW len, NEW D, NEW T, NEW m, Ready(store, len, D, T, m)
  PROVE  After(m, D \union T, RunTasks(m, T))
<1>0. Len(prog.code) \in Nat /\ T \subseteq 1 .. Len(prog.code)
  BY ProgFacts DEF Ready, Turn, Pcs
<1>1. PICK run : /\ RunTasks(m, T) = run[Len(prog.code)] /\ run[0] = m
                 /\ \A k \in 1 .. Len(prog.code) :
                      run[k] = IF k \in T THEN Exec(run[k - 1], k, 0, 0) ELSE run[k - 1]
  BY <1>0, RunTasksSteps
<1>2. RunsOver(run, m, T, 1, Len(prog.code))
  BY <1>0, <1>1 DEF RunsOver
<1>3. After(m, D \union T, run[Len(prog.code)])
  BY <1>2, RunHolds
<1> QED
  BY <1>1, <1>3

-----------------------------------------------------------------------------
(* The layout in use, and what a plan runs when *)

LayoutLen == IF plan = NoPlan THEN slab.total ELSE plan.len

\* What plans leave where color_slab put it.
KeptUnmoved == \A s \in Defined(prog) : Def(prog, s) \notin Continuous(prog) => off[s] = slab.off[s]

LEMMA PlanLaid ==
  ASSUME ProgramInv, plan.ways \in Widths, NEW w, NEW b, PlanSound(prog, slab, w, b, plan), off = b.off
  PROVE  Laid(b.store, LayoutLen) /\ KeptUnmoved
<1>1. plan # NoPlan
  BY CallConstants DEF NoPlan
<1>2. LayoutLen = b.len
  BY <1>1 DEF LayoutLen, PlanSound
<1>3. TableInv(prog, slab, Len(prog.code), b)
  BY DEF PlanSound
<1> QED
  BY <1>2, <1>3 DEF TableInv, Laid, KeptUnmoved

LEMMA LayoutFacts ==
  ASSUME ProgramInv, LayoutInv
  PROVE  (\E store : Laid(store, LayoutLen)) /\ KeptUnmoved
<1>0. WellFormed(prog) /\ slab = ColorSlab(prog)
  BY ProgFacts DEF ProgramInv
<1>1. CASE plan = NoPlan /\ off = slab.off
  <2>1. Layout(prog, slab.store, slab.off, slab.total)
    BY <1>0, SlabLayout
  <2>2. Laid(slab.store, LayoutLen)
    BY <1>1, <2>1 DEF Laid, LayoutLen
  <2> QED
    BY <1>1, <2>2 DEF KeptUnmoved
<1>2. CASE plan.ways \in Widths /\ plan = BuildPlan(prog, slab, plan.ways) /\ off = plan.off
  <2>1. PICK b : PlanSound(prog, slab, plan.ways, b, plan)
    BY <1>0, <1>2, PlanIsSound
  <2>2. off = b.off
    BY <1>2, <2>1 DEF PlanSound
  <2> QED
    BY <1>2, <2>1, <2>2, PlanLaid
<1> QED
  BY <1>1, <1>2 DEF LayoutInv

\* The kept sections' instructions.
KeptPcs == 1 .. prog.const + prog.segment

\* What has run before the plan's n-th step.
RanBefore(n) == KeptPcs \union UNION {Runs(plan.steps[k]) : k \in {k \in DOMAIN plan.steps : k < n}}

LEMMA RanBeforeFacts ==
  ASSUME NEW n, NEW i
  PROVE  i \in RanBefore(n) <=>
           i \in KeptPcs \/ \E k \in DOMAIN plan.steps : k < n /\ i \in Runs(plan.steps[k])
<1> DEFINE U == UNION {Runs(plan.steps[k]) : k \in {k \in DOMAIN plan.steps : k < n}}
<1>1. i \in U <=> \E k \in DOMAIN plan.steps : k < n /\ i \in Runs(plan.steps[k])
  OBVIOUS
<1>2. RanBefore(n) = KeptPcs \union U
  BY DEF RanBefore
<1> HIDE DEF U
<1> QED
  BY <1>1, <1>2

LEMMA PcsFacts ==
  ASSUME ProgramInv
  PROVE  /\ WellFormed(prog) /\ Len(prog.code) \in Nat /\ Pcs(prog) = 1 .. Len(prog.code)
         /\ prog.const \in Nat /\ prog.segment \in Nat /\ prog.const + prog.segment <= Len(prog.code)
         /\ Pcs(prog) = KeptPcs \union Continuous(prog) /\ KeptPcs \intersect Continuous(prog) = {}
         /\ \A i \in KeptPcs, j \in Continuous(prog) : i < j
<1>1. /\ WellFormed(prog) /\ Len(prog.code) \in Nat /\ Pcs(prog) = 1 .. Len(prog.code)
      /\ prog.const \in Nat /\ prog.segment \in Nat /\ prog.const + prog.segment <= Len(prog.code)
  BY ProgFacts, CodeFacts DEF Pcs
<1>2. \A i : i \in Pcs(prog) <=> i \in KeptPcs \/ i \in Continuous(prog)
  BY <1>1 DEF KeptPcs, Continuous
<1>3. \A i \in KeptPcs, j \in Continuous(prog) : i < j /\ i # j
  BY <1>1 DEF KeptPcs, Continuous
<1> QED
  BY <1>1, <1>2, <1>3

\* A plan's steps keep the order.
LEMMA PlanOrdered ==
  ASSUME ProgramInv, Sweepless(prog), NEW w, NEW b, PlanSound(prog, slab, w, b, plan), NEW n \in Nat
  PROVE  /\ RanBefore(n) \subseteq Pcs(prog) /\ Ordered(b.store, RanBefore(n))
         /\ \A k \in DOMAIN plan.steps : n <= k => Runs(plan.steps[k]) \intersect RanBefore(n) = {}
         /\ \A j \in Pcs(prog) : Idle(prog, j) \/ n <= Len(plan.steps) \/ j \in RanBefore(n)
<1>0. /\ plan.steps = b.steps /\ StepsInv(prog, w, Len(prog.code), b) /\ b.seg = {}
  BY DEF PlanSound
<1>1. PICK S : b.steps \in Seq(S)
  BY <1>0 DEF StepsInv
<1>2. DOMAIN plan.steps \subseteq Nat
  BY <1>0, <1>1
<1>3. \A k \in DOMAIN plan.steps : Runs(plan.steps[k]) \subseteq Continuous(prog)
  BY <1>0 DEF StepsInv, StepSound
<1>4. \A k, l \in DOMAIN plan.steps : k < l => InOrder(prog, b.store, plan.steps[k], plan.steps[l])
  BY <1>0 DEF StepsInv
<1>5. RanBefore(n) \subseteq Pcs(prog)
  BY <1>3, RanBeforeFacts, PcsFacts
<1>6. ASSUME NEW j \in Continuous(prog), ~Idle(prog, j)
      PROVE  \E k \in DOMAIN plan.steps : j \in Runs(plan.steps[k])
  <2>1. ~InBody(prog, j)
    BY DEF InBody, Sweepless
  <2>2. j <= Len(prog.code)
    BY ProgFacts, ContinuousFacts
  <2> QED
    BY <1>0, <1>6, <2>1, <2>2 DEF StepsInv, Covered
<1>7. Ordered(b.store, RanBefore(n))
  <2> SUFFICES ASSUME NEW i \in Pcs(prog) \ RanBefore(n), NEW j \in RanBefore(n),
                      i < j, ~Idle(prog, i), ~Idle(prog, j)
               PROVE  Apart(prog, b.store, i, j)
    BY DEF Ordered
  <2>1. i \in Continuous(prog) /\ i \in Pcs(prog) /\ j \in Pcs(prog)
    BY <1>5, RanBeforeFacts, PcsFacts
  <2>2. j \notin KeptPcs
    <3> SUFFICES ASSUME j \in KeptPcs PROVE FALSE
      OBVIOUS
    <3>1. j < i /\ i \in Int /\ j \in Int
      BY <2>1, PcsFacts
    <3> QED
      BY <3>1
  <2>3. PICK k \in DOMAIN plan.steps : k < n /\ j \in Runs(plan.steps[k])
    BY <2>2, RanBeforeFacts
  <2>4. PICK l \in DOMAIN plan.steps : i \in Runs(plan.steps[l])
    BY <1>6, <2>1
  <2>5. ~(l < n)
    BY <2>4, RanBeforeFacts
  <2>6. k < l
    BY <1>2, <2>3, <2>5
  <2>7. InOrder(prog, b.store, plan.steps[k], plan.steps[l])
    BY <1>4, <2>6
  <2>8. ~(j < i)
    BY <2>1, PcsFacts
  <2>9. Apart(prog, b.store, j, i)
    BY <2>3, <2>4, <2>7, <2>8 DEF InOrder
  <2> QED
    BY <2>9, ApartIsMutual
<1>8. ASSUME NEW k \in DOMAIN plan.steps, n <= k
      PROVE  Runs(plan.steps[k]) \intersect RanBefore(n) = {}
  <2> SUFFICES ASSUME NEW i \in Runs(plan.steps[k]), i \in RanBefore(n) PROVE FALSE
    OBVIOUS
  <2>1. i \in Continuous(prog) /\ i \notin KeptPcs /\ i \in Int
    BY <1>3, PcsFacts
  <2>2. PICK l \in DOMAIN plan.steps : l < n /\ i \in Runs(plan.steps[l])
    BY <2>1, RanBeforeFacts
  <2>3. l < k
    BY <1>2, <1>8, <2>2
  <2>4. InOrder(prog, b.store, plan.steps[l], plan.steps[k])
    BY <1>4, <2>3
  <2>5. i < i \/ i # i
    BY <2>2, <2>4 DEF InOrder
  <2> QED
    BY <2>1, <2>5
<1>9. ASSUME NEW j \in Pcs(prog), ~Idle(prog, j), ~(n <= Len(plan.steps))
      PROVE  j \in RanBefore(n)
  <2>1. CASE j \in KeptPcs
    BY <2>1, RanBeforeFacts
  <2>2. CASE j \notin KeptPcs
    <3>1. PICK k \in DOMAIN plan.steps : j \in Runs(plan.steps[k])
      BY <1>6, <1>9, <2>2, PcsFacts
    <3>2. Len(plan.steps) \in Nat /\ k \in 1 .. Len(plan.steps)
      BY <1>0, <1>1, LenProperties
    <3>3. k < n
      BY <1>9, <3>2
    <3> QED
      BY <3>1, <3>3, RanBeforeFacts
  <2> QED
    BY <2>1, <2>2
<1> QED
  BY <1>5, <1>7, <1>8, <1>9

\* The plan's next step may run.
LEMMA PlanTurn ==
  ASSUME ProgramInv, Sweepless(prog), NEW w, NEW b, PlanSound(prog, slab, w, b, plan),
         NEW n \in DOMAIN plan.steps
  PROVE  /\ n \in Nat
         /\ RanBefore(n + 1) = RanBefore(n) \union Runs(plan.steps[n])
         /\ Turn(b.store, RanBefore(n), Runs(plan.steps[n]))
<1>0. PICK S : plan.steps \in Seq(S)
  BY DEF PlanSound, StepsInv
<1>1. DOMAIN plan.steps \subseteq Nat
  BY <1>0
<1>2. n \in Nat /\ n + 1 \in Nat
  BY <1>1
<1>3. RanBefore(n + 1) = RanBefore(n) \union Runs(plan.steps[n])
  <2>1. ASSUME NEW i PROVE i \in RanBefore(n + 1) <=> i \in RanBefore(n) \/ i \in Runs(plan.steps[n])
    <3>1. \A k \in DOMAIN plan.steps : k < n + 1 <=> k < n \/ k = n
      BY <1>1, <1>2
    <3> QED
      BY <3>1, RanBeforeFacts
  <2> QED
    BY <2>1
<1>4. Runs(plan.steps[n]) \subseteq Pcs(prog)
  <2>1. Runs(plan.steps[n]) \subseteq Continuous(prog)
    BY DEF PlanSound, StepsInv, StepSound
  <2> QED
    BY <2>1, PcsFacts
<1>5. /\ RanBefore(n) \subseteq Pcs(prog) /\ Ordered(b.store, RanBefore(n))
      /\ Runs(plan.steps[n]) \intersect RanBefore(n) = {}
  BY <1>2, PlanOrdered
<1>6. Ordered(b.store, RanBefore(n + 1))
  BY <1>2, PlanOrdered
<1> QED
  BY <1>2, <1>3, <1>4, <1>5, <1>6 DEF Turn

\* So may what comes next in the code, after all before it.
LEMMA PrefixTurn ==
  ASSUME ProgramInv, NEW store, NEW a \in Nat, NEW z \in Nat, a <= z, z <= Len(prog.code)
  PROVE  Turn(store, 1 .. a, a + 1 .. z) /\ (1 .. a) \union (a + 1 .. z) = 1 .. z
<1>1. Len(prog.code) \in Nat /\ Pcs(prog) = 1 .. Len(prog.code)
  BY PcsFacts
<1>2. (1 .. a) \union (a + 1 .. z) = 1 .. z
  OBVIOUS
<1>3. ASSUME NEW c \in Nat PROVE Ordered(store, 1 .. c)
  BY <1>1, <1>3 DEF Ordered
<1>4. Ordered(store, 1 .. a) /\ Ordered(store, (1 .. a) \union (a + 1 .. z))
  BY <1>2, <1>3
<1>5. 1 .. a \subseteq Pcs(prog) /\ a + 1 .. z \subseteq Pcs(prog)
  BY <1>1
<1>6. (a + 1 .. z) \intersect (1 .. a) = {}
  OBVIOUS
<1>7. Turn(store, 1 .. a, a + 1 .. z)
  BY <1>4, <1>5, <1>6 DEF Turn
<1> QED
  BY <1>2, <1>7

-----------------------------------------------------------------------------
(* The memory in every state of a call *)

\* What has run of the call.
HasRun ==
  CASE stage = "idle" -> IF epoch.continuous = 0 THEN {} ELSE Pcs(prog)
    [] stage = "params" -> {}
    [] stage = "forcing" -> 1 .. prog.const
    [] stage \in {"plan", "serial"} -> KeptPcs
    [] OTHER -> RanBefore(step)

PartResults(w, i) == Results(i, Part(w, i), 0)

\* Thread w has written its part of the task at i.
PartDone(w, i) ==
  Forked /\ w < Step.threads /\ i \in DOMAIN Step.tasks /\ TakesPart(w, i) /\ i < at[w]

EpochInv ==
  /\ epoch \in [const : Nat, segment : Nat, continuous : Nat]
  /\ epoch.continuous = 0 => epoch.const = 0 /\ stage = "idle"

\* What has run is settled, but for what the phase under way has overwritten; and
\* no thread missed an operand.
DataInv ==
  /\ InMemory(mem, LayoutLen)
  /\ \A w \in Threads, i \in Nat \ {0} : PartDone(w, i) => \A r \in PartResults(w, i) : mem[r[1]] = r[2]
  /\ \A D : D = HasRun => \A k \in Settled(D) :
       \/ mem[k[1]] = k[2]
       \/ \E w \in Threads, i \in Nat \ {0} : PartDone(w, i) /\ k[1] \in LocsOf(PartResults(w, i))
  /\ \A w \in Threads : InHand(w) /\ at[w] # 0 => found[w]

MemoryInv == EpochInv /\ DataInv

\* Between phases.
Calm == \A w \in Threads : at[w] = 0

LEMMA CalmHolds ==
  ASSUME DataInv, Calm
  PROVE  InMemory(mem, LayoutLen) /\ Holds(mem, HasRun)
<1>1. \A w \in Threads, i \in Nat \ {0} : ~PartDone(w, i)
  BY DEF PartDone, Calm
<1> QED
  BY <1>1 DEF DataInv, Holds

LEMMA CalmNext ==
  ASSUME \A w \in Threads : at'[w] = 0, InMemory(mem', LayoutLen'),
         \A D : D = HasRun' => \A k \in Settled(D)' : mem'[k[1]] = k[2]
  PROVE  DataInv'
<1>1. \A w \in Threads, i \in Nat \ {0} : ~PartDone(w, i)'
  BY DEF PartDone
<1>2. InMemory(mem, LayoutLen)'
  BY DEF InMemory, SlabLocs, DyLocs
<1>3. (\A w \in Threads : InHand(w) /\ at[w] # 0 => found[w])'
  OBVIOUS
<1>4. (\A D : D = HasRun => \A k \in Settled(D) :
       \/ mem[k[1]] = k[2]
       \/ \E w \in Threads, i \in Nat \ {0} : PartDone(w, i) /\ k[1] \in LocsOf(PartResults(w, i)))'
  OBVIOUS
<1>5. (\A w \in Threads, i \in Nat \ {0} : PartDone(w, i) => \A r \in PartResults(w, i) : mem[r[1]] = r[2])'
  BY <1>1
<1> QED
  BY <1>2, <1>3, <1>4, <1>5 DEF DataInv

\* What is settled depends on the program, the layout and the epochs.
LEMMA SameCells ==
  ASSUME prog' = prog, home' = home, off' = off, epoch' = epoch
  PROVE  /\ \A i, cells : Results(i, cells, 0)' = Results(i, cells, 0)
         /\ \A D : Settled(D)' = Settled(D)
<1>1. \A s, c : Loc(s, c)' = Loc(s, c) /\ Tag(s, c, 0)' = Tag(s, c, 0)
  BY DEF Loc, Tag
<1>2. \A i : Extent(i)' = Extent(i) /\ All(i)' = All(i) /\ Code(i)' = Code(i)
  BY DEF Extent, All, Code
<1>3. \A i, cells : OutCells(i, cells)' = OutCells(i, cells)
  BY <1>2 DEF OutCells
<1>4. ASSUME NEW i, NEW cells PROVE Results(i, cells, 0)' = Results(i, cells, 0)
  BY <1>1, <1>2, <1>3 DEF Results
<1>5. \A s : Cells(s)' = Cells(s)
  BY <1>1 DEF Cells
<1>6. \A D : Staying(D)' = Staying(D)
  BY DEF Staying
<1>7. \A D : StayingCells(D)' = StayingCells(D)
  BY <1>5, <1>6 DEF StayingCells
<1>8. \A i, l : Writes(i, l)' <=> Writes(i, l)
  BY <1>2, <1>4 DEF Writes
<1>9. \A i : Copies(i)' <=> Copies(i)
  BY <1>2 DEF Copies
<1>10. \A D : DyLeft(D)' = DyLeft(D)
  BY <1>2, <1>4, <1>8, <1>9 DEF DyLeft
<1>11. Untouched' = Untouched
  BY <1>2 DEF Untouched
<1> QED
  BY <1>4, <1>7, <1>10, <1>11 DEF Settled

\* Before anything has run, only what nothing writes is settled.
LEMMA InitMemory == Init => MemoryInv
<1> SUFFICES ASSUME Init PROVE MemoryInv
  OBVIOUS
<1>1. /\ stage = "idle" /\ plan = NoPlan /\ epoch = [const |-> 0, segment |-> 0, continuous |-> 0]
      /\ mem = [l \in SlabLocs(slab.total) \union DyLocs |-> Junk]
  BY DEF Init
<1>2. EpochInv
  BY <1>1 DEF EpochInv
<1>3. HasRun = {} /\ ~Forked
  BY <1>1 DEF HasRun, Forked, InSteps
<1>4. InMemory(mem, LayoutLen)
  BY <1>1 DEF InMemory, LayoutLen
<1>5. ASSUME NEW k \in Settled({}) PROVE mem[k[1]] = k[2]
  <2>1. Staying({}) = {}
    BY DEF Staying
  <2>2. k \notin DyLeft({})
    BY DyLeftFacts
  <2>3. k \in Untouched
    BY <2>1, <2>2, SettledCases
  <2>4. PICK a \in 0 .. DyLen - 1 : k = <<<<"dy", a>>, Junk>>
    BY <2>3 DEF Untouched
  <2>5. k[1] \in DyLocs /\ k[2] = Junk
    BY <2>4 DEF DyLocs
  <2> QED
    BY <1>1, <2>5
<1>6. DataInv
  BY <1>3, <1>4, <1>5 DEF DataInv, PartDone, InHand
<1> QED
  BY <1>2, <1>6 DEF MemoryInv

-----------------------------------------------------------------------------
(* Steps between phases *)

\* What the kept sections left stays settled while their slots stay where they
\* are and their values are of the same run.
LEMMA KeptSettled ==
  ASSUME ProgramInv, prog' = prog, home' = home,
         NEW a \in {0, prog.const, prog.const + prog.segment},
         \A s \in Defined(prog) : Def(prog, s) \in 1 .. a =>
           /\ off'[s] = off[s]
           /\ epoch'[SectionOf(prog, Def(prog, s))] = epoch[SectionOf(prog, Def(prog, s))],
         NEW E, 1 .. a \subseteq E,
         NEW k \in Settled(1 .. a)'
  PROVE  k \in Settled(E)
<1>0. /\ WellFormed(prog) /\ Len(prog.code) \in Nat /\ Pcs(prog) = 1 .. Len(prog.code)
      /\ prog.const \in Nat /\ prog.segment \in Nat /\ prog.const + prog.segment <= Len(prog.code)
  BY PcsFacts
<1>1. a \in Nat /\ a <= prog.const + prog.segment
  BY <1>0
<1>2. CASE k \in StayingCells(1 .. a)'
  <2>1. PICK s \in Defined(prog) :
          /\ Def(prog, s) \in 1 .. a /\ k \in Cells(s)'
          /\ Homed(prog, s) \/ Dedicated(prog, s) \/ \E j \in Pcs(prog) \ (1 .. a) : s \in Reads(prog, j)
    BY <1>2 DEF StayingCells, Staying
  <2>2. s \in Slots(prog) /\ Def(prog, s) \in Int /\ Def(prog, s) <= a
    BY <1>0, <1>1, <2>1, SlotFacts
  <2>3. ~Homed(prog, s)
    <3> SUFFICES ASSUME Homed(prog, s) PROVE FALSE
      OBVIOUS
    <3>1. s \in Continuous(prog)
      BY <1>0, HomeFacts
    <3>2. s \in Int /\ prog.const + prog.segment < s /\ s <= Len(prog.code)
      BY <1>0, <3>1, ContinuousFacts
    <3>3. Def(prog, s) = s
      BY <1>0, <3>2 DEF Def
    <3> QED
      BY <1>0, <1>1, <2>2, <3>2, <3>3
  <2>4. Dedicated(prog, s)
    <3>1. CASE \E j \in Pcs(prog) \ (1 .. a) : s \in Reads(prog, j)
      <4>1. PICK j \in Pcs(prog) : j \notin 1 .. a /\ s \in Reads(prog, j)
        BY <3>1
      <4>2. LastUse(prog, s) \in Pcs(prog) /\ j <= LastUse(prog, s)
        BY <1>0, <2>2, <4>1, LastUseFacts
      <4>3. LastUse(prog, s) \in Int /\ a < LastUse(prog, s)
        BY <1>0, <1>1, <4>1, <4>2
      <4>4. SectionOf(prog, LastUse(prog, s)) # SectionOf(prog, Def(prog, s))
        <5> DEFINE u == LastUse(prog, s)
                   d == Def(prog, s)
        <5>1. u \in Int /\ d \in Int /\ d <= a /\ a < u /\ 1 <= d
          BY <1>1, <2>1, <2>2, <4>3
        <5> HIDE DEF u, d
        <5>2. SectionOf(prog, u) # SectionOf(prog, d)
          <6>1. a = prog.const \/ a = prog.const + prog.segment
            BY <5>1
          <6>2. ~(u <= prog.const)
            BY <1>0, <5>1, <6>1
          <6>3. d <= prog.const => SectionOf(prog, d) = "const"
            BY DEF SectionOf
          <6>4. CASE a = prog.const
            <7>1. SectionOf(prog, d) = "const"
              BY <5>1, <6>3, <6>4
            <7>2. SectionOf(prog, u) # "const"
              BY <6>2 DEF SectionOf
            <7> QED
              BY <7>1, <7>2
          <6>5. CASE a = prog.const + prog.segment
            <7>1. ~(u <= prog.const + prog.segment)
              BY <1>0, <5>1, <6>5
            <7>2. SectionOf(prog, u) = "continuous"
              BY <6>2, <7>1 DEF SectionOf
            <7>3. SectionOf(prog, d) # "continuous"
              BY <5>1, <6>5 DEF SectionOf
            <7> QED
              BY <7>2, <7>3
          <6> QED
            BY <6>1, <6>4, <6>5
        <5> QED
          BY <5>2 DEF u, d
      <4> QED
        BY <4>4 DEF Dedicated
    <3> QED
      BY <2>1, <2>3, <3>1
  <2>5. s \in Staying(E)
    BY <2>1, <2>4 DEF Staying
  <2>6. k \in Cells(s)
    <3>1. \A c : Loc(s, c)' = Loc(s, c)
      BY <2>1 DEF Loc
    <3>2. \A c : Tag(s, c, 0)' = Tag(s, c, 0)
      BY <2>1 DEF Tag
    <3>3. Cells(s)' = Cells(s)
      BY <3>1, <3>2 DEF Cells
    <3> QED
      BY <2>1, <3>3
  <2> QED
    BY <2>5, <2>6 DEF Settled, StayingCells
<1>3. k \notin DyLeft(1 .. a)'
  <2>1. ASSUME NEW i \in 1 .. a PROVE ~Copies(i)'
    <3>1. i \in Pcs(prog) /\ i \notin Continuous(prog)
      BY <1>0, <1>1 DEF Continuous
    <3>2. prog.code[i].op # "dy"
      BY <1>0, <3>1 DEF WellFormed
    <3> QED
      BY <3>2 DEF Copies, Code
  <2> QED
    BY <2>1 DEF DyLeft
<1>4. CASE k \in Untouched'
  <2>1. Untouched' = Untouched
    BY DEF Untouched, Code
  <2> QED
    BY <1>4, <2>1 DEF Settled
<1> QED
  BY <1>2, <1>3, <1>4 DEF Settled

\* A step between phases, in the layout in use.
Settles(E) ==
  /\ prog' = prog /\ slab' = slab /\ home' = home /\ plan' = plan /\ off' = off /\ epoch' = epoch
  /\ \A w \in Threads : at'[w] = 0
  /\ HasRun' = E

LEMMA SettleStep ==
  ASSUME NEW E, Settles(E), InMemory(mem, LayoutLen), After(mem, E, mem')
  PROVE  DataInv'
<1>1. LayoutLen' = LayoutLen
  BY DEF LayoutLen, Settles
<1>2. InMemory(mem', LayoutLen')
  BY <1>1 DEF InMemory, After
<1>3. Settled(E)' = Settled(E)
  BY SameCells DEF Settles
<1>4. \A k \in Settled(E)' : mem'[k[1]] = k[2]
  BY <1>3 DEF After, Holds
<1>5. \A D : D = HasRun' => \A k \in Settled(D)' : mem'[k[1]] = k[2]
  BY <1>4 DEF Settles
<1>6. \A w \in Threads : at'[w] = 0
  BY DEF Settles
<1> QED
  BY <1>2, <1>5, <1>6, CalmNext

LEMMA CalmFacts ==
  ASSUME HandInv, ~Forked
  PROVE  Calm
BY DEF HandInv, Calm

\* The instruction loop, over what comes next.
LEMMA RangeRuns ==
  ASSUME ProgramInv, LayoutInv, Plain(prog), DataInv, Calm,
         NEW a \in Nat, NEW z \in Nat, a <= z, z <= Len(prog.code),
         HasRun = 1 .. a, Settles(1 .. z), mem' = RunRange(mem, a + 1, z)
  PROVE  DataInv'
<1>1. PICK store : Laid(store, LayoutLen)
  BY LayoutFacts
<1> DEFINE D == 1 .. a
           T == a + 1 .. z
<1>2. Turn(store, D, T) /\ D \union T = 1 .. z
  BY PrefixTurn
<1>3. InMemory(mem, LayoutLen) /\ Holds(mem, D)
  BY CalmHolds
<1> HIDE DEF D
<1>4. Ready(store, LayoutLen, D, T, mem)
  BY <1>1, <1>2, <1>3 DEF Ready
<1>5. a + 1 \in Nat \ {0} /\ (a + 1) - 1 <= z
  OBVIOUS
<1>6. After(mem, D \union T, RunRange(mem, a + 1, z))
  BY <1>4, <1>5, LoopHolds
<1> HIDE DEF T
<1>7. After(mem, 1 .. z, mem')
  BY <1>2, <1>6
<1> QED
  BY <1>3, <1>7, SettleStep

LEMMA PrimeKeeps ==
  ASSUME PlanInv, Plain(prog), MemoryInv, Prime
  PROVE  MemoryInv'
<1>0. ProgramInv /\ LayoutInv /\ HandInv /\ EpochInv /\ DataInv
  BY DEF PlanInv, MemoryInv
<1>1. /\ stage \in {"params", "forcing"} /\ stage' = "plan"
      /\ prog' = prog /\ slab' = slab /\ home' = home /\ plan' = plan /\ off' = off
      /\ epoch' = epoch /\ at' = at
  BY DEF Prime
<1>2. Calm
  BY <1>0, <1>1, CalmFacts DEF Forked, InSteps
<1> DEFINE a == IF stage = "params" THEN 0 ELSE prog.const
           z == prog.const + prog.segment
<1>3. /\ a \in Nat /\ z \in Nat /\ a <= z /\ z <= Len(prog.code)
  BY <1>0, PcsFacts
<1>4. HasRun = 1 .. a
  BY <1>1 DEF HasRun
<1>5. HasRun' = 1 .. z
  BY <1>1 DEF HasRun, KeptPcs
<1>6. mem' = RunRange(mem, a + 1, z)
  <2>1. CASE stage = "params"
    <3>1. a + 1 = 1
      BY <2>1
    <3> QED
      BY <2>1, <3>1 DEF Prime
  <2>2. CASE stage # "params"
    BY <2>2 DEF Prime
  <2> QED
    BY <2>1, <2>2
<1> HIDE DEF a, z
<1>7. Settles(1 .. z)
  BY <1>1, <1>2, <1>5 DEF Settles, Calm
<1>8. DataInv'
  BY <1>0, <1>2, <1>3, <1>4, <1>6, <1>7, RangeRuns
<1>9. EpochInv'
  BY <1>0, <1>1 DEF EpochInv
<1> QED
  BY <1>8, <1>9 DEF MemoryInv

LEMMA SerialKeeps ==
  ASSUME PlanInv, Plain(prog), MemoryInv, RunSerial
  PROVE  MemoryInv'
<1>0. ProgramInv /\ LayoutInv /\ HandInv /\ EpochInv /\ DataInv
  BY DEF PlanInv, MemoryInv
<1>1. /\ stage = "serial" /\ stage' = "idle"
      /\ prog' = prog /\ slab' = slab /\ home' = home /\ plan' = plan /\ off' = off
      /\ epoch' = epoch /\ at' = at
      /\ mem' = RunRange(mem, prog.const + prog.segment + 1, Len(prog.code))
  BY DEF RunSerial
<1>2. Calm
  BY <1>0, <1>1, CalmFacts DEF Forked, InSteps
<1> DEFINE a == prog.const + prog.segment
           z == Len(prog.code)
<1>3. a \in Nat /\ z \in Nat /\ a <= z /\ Pcs(prog) = 1 .. z
  BY <1>0, PcsFacts
<1>4. HasRun = 1 .. a
  BY <1>1 DEF HasRun, KeptPcs
<1>5. epoch.continuous # 0
  BY <1>0, <1>1 DEF EpochInv
<1>6. HasRun' = 1 .. z
  <2>1. HasRun' = Pcs(prog)
    BY <1>1, <1>5 DEF HasRun
  <2> QED
    BY <1>3, <2>1
<1>7. mem' = RunRange(mem, a + 1, z)
  BY <1>1
<1> HIDE DEF a
<1>8. Settles(1 .. z)
  BY <1>1, <1>2, <1>6 DEF Settles, Calm
<1>9. DataInv'
  BY <1>0, <1>2, <1>3, <1>4, <1>7, <1>8, RangeRuns
<1>10. EpochInv'
  BY <1>0, <1>1 DEF EpochInv
<1> QED
  BY <1>9, <1>10 DEF MemoryInv

\* The state of a step of the plan.
LEMMA StepTurn ==
  ASSUME PlanInv, Plain(prog), InSteps
  PROVE  \E b : /\ PhaseState(b) /\ Laid(b.store, LayoutLen) /\ HasRun = RanBefore(step)
                /\ RanBefore(step + 1) = RanBefore(step) \union Runs(Step)
                /\ Turn(b.store, RanBefore(step), Runs(Step))
<1>0. ProgramInv /\ LayoutInv /\ StageInv /\ Sweepless(prog)
  BY DEF PlanInv, Plain
<1>1. PICK b : PhaseState(b)
  BY <1>0, PhaseStateFacts
<1>2. /\ PlanSound(prog, slab, ways, b, plan) /\ off = b.off /\ plan.steps = b.steps
      /\ step \in DOMAIN plan.steps /\ Step = plan.steps[step]
  BY <1>1 DEF PhaseState, PlanLayout, PlanSound, Step
<1>3. plan.ways \in Widths /\ stage = "steps"
  BY <1>0 DEF StageInv, InSteps
<1>4. Laid(b.store, LayoutLen)
  BY <1>0, <1>2, <1>3, PlanLaid
<1>5. /\ RanBefore(step + 1) = RanBefore(step) \union Runs(Step)
      /\ Turn(b.store, RanBefore(step), Runs(Step))
  BY <1>0, <1>2, PlanTurn
<1>6. HasRun = RanBefore(step)
  BY <1>3 DEF HasRun
<1> QED
  BY <1>1, <1>4, <1>5, <1>6

\* A step that is no fork runs, or does so alone.
LEMMA LoopKeeps ==
  ASSUME PlanInv, Plain(prog), MemoryInv, RunLoop
  PROVE  MemoryInv'
<1>0. ProgramInv /\ LayoutInv /\ HandInv /\ EpochInv /\ DataInv
  BY DEF PlanInv, MemoryInv
<1>1. /\ InSteps /\ Step.kind = "loop" /\ stage = "steps"
      /\ prog' = prog /\ slab' = slab /\ home' = home /\ plan' = plan /\ off' = off
      /\ epoch' = epoch /\ at' = at /\ stage' = stage /\ step' = step + 1
      /\ mem' = RunRange(mem, Step.lo, Step.hi)
  BY DEF RunLoop, InSteps
<1>2. Calm
  BY <1>0, <1>1, CalmFacts DEF Forked
<1>3. PICK b : /\ PhaseState(b) /\ Laid(b.store, LayoutLen) /\ HasRun = RanBefore(step)
               /\ RanBefore(step + 1) = RanBefore(step) \union Runs(Step)
               /\ Turn(b.store, RanBefore(step), Runs(Step))
  BY <1>1, StepTurn
<1> DEFINE D == RanBefore(step)
           T == Runs(Step)
           lo == Step.lo
           hi == Step.hi
<1>4. T = lo .. hi
  BY <1>1 DEF Runs
<1>5. lo \in Nat \ {0} /\ hi \in Nat /\ lo - 1 <= hi
  <2>1. lo \in Int /\ hi \in Int /\ lo <= hi
    BY <1>1, <1>3 DEF PhaseState, StepSound, LoopSound
  <2>2. lo \in Pcs(prog)
    BY <1>3, <1>4, <2>1 DEF Turn
  <2> QED
    BY <2>1, <2>2 DEF Pcs
<1>6. InMemory(mem, LayoutLen) /\ Holds(mem, D)
  BY <1>0, <1>2, <1>3, CalmHolds
<1>7. HasRun' = D \union T
  <2>1. HasRun' = RanBefore(step + 1)
    BY <1>1 DEF HasRun, RanBefore, KeptPcs
  <2> QED
    BY <1>3, <2>1
<1>8. Settles(D \union T)
  BY <1>1, <1>2, <1>7 DEF Settles, Calm
<1> HIDE DEF D, T, lo, hi
<1>9. Ready(b.store, LayoutLen, D, T, mem)
  BY <1>3, <1>6 DEF Ready, D, T
<1>10. After(mem, D \union T, RunRange(mem, lo, hi))
  BY <1>0, <1>4, <1>5, <1>9, LoopHolds
<1>11. After(mem, D \union T, mem')
  BY <1>1, <1>10 DEF lo, hi
<1>12. DataInv'
  BY <1>6, <1>8, <1>11, SettleStep
<1>13. EpochInv'
  BY <1>0, <1>1 DEF EpochInv
<1> QED
  BY <1>12, <1>13 DEF MemoryInv

LEMMA AloneKeeps ==
  ASSUME PlanInv, Plain(prog), MemoryInv, RunAlone
  PROVE  MemoryInv'
<1>0. ProgramInv /\ LayoutInv /\ HandInv /\ EpochInv /\ DataInv
  BY DEF PlanInv, MemoryInv
<1>1. /\ InSteps /\ Step.kind = "fork" /\ Step.threads = 1 /\ stage = "steps"
      /\ prog' = prog /\ slab' = slab /\ home' = home /\ plan' = plan /\ off' = off
      /\ epoch' = epoch /\ at' = at /\ stage' = stage /\ step' = step + 1
      /\ mem' = RunTasks(mem, DOMAIN Step.tasks)
  BY DEF RunAlone, InSteps
<1>2. Calm
  BY <1>0, <1>1, CalmFacts DEF Forked
<1>3. PICK b : /\ PhaseState(b) /\ Laid(b.store, LayoutLen) /\ HasRun = RanBefore(step)
               /\ RanBefore(step + 1) = RanBefore(step) \union Runs(Step)
               /\ Turn(b.store, RanBefore(step), Runs(Step))
  BY <1>1, StepTurn
<1> DEFINE D == RanBefore(step)
           T == Runs(Step)
<1>4. mem' = RunTasks(mem, T)
  BY <1>1 DEF Runs
<1>6. InMemory(mem, LayoutLen) /\ Holds(mem, D)
  BY <1>0, <1>2, <1>3, CalmHolds
<1>7. HasRun' = D \union T
  <2>1. HasRun' = RanBefore(step + 1)
    BY <1>1 DEF HasRun, RanBefore, KeptPcs
  <2> QED
    BY <1>3, <2>1
<1>8. Settles(D \union T)
  BY <1>1, <1>2, <1>7 DEF Settles, Calm
<1> HIDE DEF D, T
<1>9. Ready(b.store, LayoutLen, D, T, mem)
  BY <1>3, <1>6 DEF Ready, D, T
<1>10. After(mem, D \union T, RunTasks(mem, T))
  BY <1>0, <1>9, TasksHold
<1>11. DataInv'
  BY <1>4, <1>6, <1>8, <1>10, SettleStep
<1>12. EpochInv'
  BY <1>0, <1>1 DEF EpochInv
<1> QED
  BY <1>11, <1>12 DEF MemoryInv

LEMMA ReturnKeeps ==
  ASSUME PlanInv, Plain(prog), MemoryInv, Return
  PROVE  MemoryInv'
<1>0. ProgramInv /\ LayoutInv /\ StageInv /\ HandInv /\ EpochInv /\ DataInv /\ Sweepless(prog)
  BY DEF PlanInv, MemoryInv, Plain
<1>1. /\ stage = "steps" /\ stage' = "idle" /\ step > Len(plan.steps) /\ step \in Nat
      /\ prog' = prog /\ slab' = slab /\ home' = home /\ plan' = plan /\ off' = off
      /\ epoch' = epoch /\ at' = at /\ mem' = mem
  BY <1>0 DEF Return, StageInv
<1>2. PICK b : PlanSound(prog, slab, ways, b, plan)
  BY <1>0, <1>1, StepsState
<1>3. Len(plan.steps) \in Nat
  BY <1>2 DEF PlanSound, StepsInv
<1>4. ~Forked
  BY <1>1, <1>3 DEF Forked, InSteps
<1>5. Calm
  BY <1>0, <1>4, CalmFacts
<1> DEFINE D == RanBefore(step)
           E == Pcs(prog)
<1>6. HasRun = D
  BY <1>1 DEF HasRun
<1>7. D \subseteq E /\ \A j \in E \ D : Idle(prog, j)
  <2>1. ~(step <= Len(plan.steps))
    BY <1>1, <1>3
  <2> QED
    BY <1>0, <1>1, <1>2, <2>1, PlanOrdered
<1>8. InMemory(mem, LayoutLen) /\ Holds(mem, D)
  BY <1>0, <1>5, <1>6, CalmHolds
<1>9. epoch.continuous # 0
  BY <1>0, <1>1 DEF EpochInv
<1>10. HasRun' = E
  BY <1>1, <1>9 DEF HasRun
<1>11. Settles(E)
  BY <1>1, <1>5, <1>10 DEF Settles, Calm
<1> HIDE DEF D
<1>12. \A k \in Settled(E) : k \in Settled(D)
  BY <1>0, <1>7, IdleSettlesNothing
<1>13. After(mem, E, mem')
  BY <1>1, <1>8, <1>12 DEF After, Holds
<1>14. DataInv'
  BY <1>8, <1>11, <1>13, SettleStep
<1>15. EpochInv'
  BY <1>0, <1>1, <1>9 DEF EpochInv
<1> QED
  BY <1>14, <1>15 DEF MemoryInv

LEMMA CallKeeps ==
  ASSUME PlanInv, MemoryInv, NEW w, NEW moved, Call(w, moved)
  PROVE  MemoryInv'
<1>0. ProgramInv /\ HandInv /\ EpochInv /\ DataInv
  BY DEF PlanInv, MemoryInv
<1>1. /\ stage = "idle" /\ moved \in Moved
      /\ stage' = IF moved = "none" THEN "plan" ELSE moved
      /\ prog' = prog /\ slab' = slab /\ home' = home /\ plan' = plan /\ off' = off
      /\ mem' = mem /\ at' = at
      /\ epoch' = [const      |-> epoch.const + (IF moved = "params" THEN 1 ELSE 0),
                   segment    |-> epoch.segment + (IF moved = "none" THEN 0 ELSE 1),
                   continuous |-> epoch.continuous + 1]
  BY DEF Call
<1>2. Calm
  BY <1>0, <1>1, CalmFacts DEF Forked, InSteps
<1>3. EpochInv'
  BY <1>0, <1>1 DEF EpochInv
<1>a. PICK a : a = IF moved = "params" THEN 0
                   ELSE IF moved = "forcing" THEN prog.const ELSE prog.const + prog.segment
  OBVIOUS
<1>4. moved \in {"none", "params", "forcing"} /\ (moved # "params" => epoch.continuous # 0)
  BY <1>1 DEF Moved
<1>5. /\ a \in {0, prog.const, prog.const + prog.segment}
      /\ prog.const \in Nat /\ prog.segment \in Nat /\ prog.const + prog.segment <= Len(prog.code)
      /\ Pcs(prog) = 1 .. Len(prog.code) /\ Len(prog.code) \in Nat
  BY <1>0, <1>a, PcsFacts
<1>6. HasRun' = 1 .. a
  <2>1. CASE moved = "params"
    BY <1>1, <1>a, <2>1 DEF HasRun
  <2>2. CASE moved = "forcing"
    BY <1>1, <1>a, <2>2 DEF HasRun
  <2>3. CASE moved = "none"
    BY <1>1, <1>a, <2>3 DEF HasRun, KeptPcs
  <2> QED
    BY <1>4, <2>1, <2>2, <2>3
<1>7. 1 .. a \subseteq HasRun
  <2>1. CASE moved = "params"
    BY <1>a, <2>1
  <2>2. CASE moved # "params"
    <3>1. HasRun = Pcs(prog)
      BY <1>1, <1>4, <2>2 DEF HasRun
    <3> QED
      BY <1>5, <3>1
  <2> QED
    BY <2>1, <2>2
<1>8. ASSUME NEW s \in Defined(prog), Def(prog, s) \in 1 .. a
      PROVE  epoch'[SectionOf(prog, Def(prog, s))] = epoch[SectionOf(prog, Def(prog, s))]
  <2> DEFINE d == Def(prog, s)
  <2>1. d \in Int /\ 1 <= d /\ d <= a
    BY <1>5, <1>8
  <2> HIDE DEF d
  <2>2. CASE moved = "params"
    BY <1>a, <2>1, <2>2
  <2>3. CASE moved = "forcing"
    <3>1. SectionOf(prog, d) = "const"
      BY <1>a, <2>1, <2>3 DEF SectionOf
    <3>2. epoch'.const = epoch.const
      BY <1>0, <1>1, <2>3 DEF EpochInv
    <3> QED
      BY <3>1, <3>2 DEF d
  <2>4. CASE moved = "none"
    <3>1. SectionOf(prog, d) \in {"const", "segment"}
      BY <1>5, <1>a, <2>1, <2>4 DEF SectionOf
    <3>2. epoch'.const = epoch.const /\ epoch'.segment = epoch.segment
      BY <1>0, <1>1, <2>4 DEF EpochInv
    <3> QED
      BY <3>1, <3>2 DEF d
  <2> QED
    BY <1>4, <2>2, <2>3, <2>4
<1>9. LayoutLen' = LayoutLen
  BY <1>1 DEF LayoutLen
<1>10. InMemory(mem, LayoutLen) /\ Holds(mem, HasRun)
  BY <1>0, <1>2, CalmHolds
<1>11. ASSUME NEW k \in Settled(1 .. a)' PROVE k \in Settled(HasRun)
  <2> DEFINE E == HasRun
  <2>1. 1 .. a \subseteq E
    BY <1>7
  <2> HIDE DEF E
  <2>2. k \in Settled(E)
    BY <1>0, <1>1, <1>5, <1>8, <2>1, KeptSettled
  <2> QED
    BY <2>2 DEF E
<1>12. \A k \in Settled(1 .. a)' : mem'[k[1]] = k[2]
  BY <1>1, <1>10, <1>11 DEF Holds
<1>13. \A D : D = HasRun' => \A k \in Settled(D)' : mem'[k[1]] = k[2]
  BY <1>6, <1>12
<1>14. InMemory(mem', LayoutLen')
  BY <1>1, <1>9, <1>10
<1>15. \A v \in Threads : at'[v] = 0
  BY <1>1, <1>2 DEF Calm
<1>16. DataInv'
  BY <1>13, <1>14, <1>15, CalmNext
<1> QED
  BY <1>3, <1>16 DEF MemoryInv

\* A new plan's layout leaves what the kept sections computed where it is.
LEMMA PlanKeeps ==
  ASSUME PlanInv, Plain(prog), MemoryInv, Plan
  PROVE  MemoryInv'
<1>0. /\ ProgramInv /\ LayoutInv /\ StageInv /\ HandInv /\ EpochInv /\ DataInv
      /\ WellFormed(prog) /\ slab = ColorSlab(prog)
  BY ProgFacts DEF PlanInv, MemoryInv, ProgramInv
<1>1. /\ stage = "plan" /\ step' = 1
      /\ prog' = prog /\ slab' = slab /\ home' = home /\ epoch' = epoch /\ at' = at
  BY DEF Plan
<1>2. Calm
  BY <1>0, <1>1, CalmFacts DEF Forked, InSteps
<1>3. EpochInv'
  BY <1>0, <1>1 DEF EpochInv
<1>4. HasRun = KeptPcs
  BY <1>1 DEF HasRun
<1>5. InMemory(mem, LayoutLen) /\ Holds(mem, KeptPcs)
  BY <1>0, <1>2, <1>4, CalmHolds
<1>6. CASE ways = 1
  <2>1. stage' = "serial" /\ plan' = plan /\ off' = off /\ mem' = mem
    BY <1>6 DEF Plan
  <2>2. HasRun' = KeptPcs
    BY <1>1, <2>1 DEF HasRun, KeptPcs
  <2> DEFINE E == KeptPcs
  <2> HIDE DEF E
  <2>3. Settles(E)
    BY <1>1, <1>2, <2>1, <2>2 DEF Settles, Calm, E
  <2>4. After(mem, E, mem')
    BY <1>5, <2>1 DEF After, E
  <2>5. DataInv'
    BY <1>5, <2>3, <2>4, SettleStep
  <2> QED
    BY <1>3, <2>5 DEF MemoryInv
<1>7. CASE ways # 1
  <2>1. /\ stage' = "steps" /\ ways \in Widths
        /\ plan' = IF plan.ways = ways THEN plan ELSE BuildPlan(prog, slab, ways)
        /\ off' = IF plan.ways = ways THEN off ELSE plan'.off
        /\ mem' = [l \in DOMAIN mem \union SlabLocs(plan'.len) |->
                     IF l \in DOMAIN mem THEN mem[l] ELSE Junk]
    BY <1>0, <1>7 DEF Plan, StageInv
  <2>2. ways \in Nat \ {0}
    BY <2>1, CallConstants
  <2>3. plan'.ways = ways /\ off' = plan'.off /\ plan' = BuildPlan(prog, slab, ways)
    <3>1. CASE plan.ways = ways
      <4>1. plan # NoPlan
        BY <2>2, <3>1 DEF NoPlan
      <4> QED
        BY <1>0, <2>1, <3>1, <4>1 DEF LayoutInv
    <3>2. CASE plan.ways # ways
      <4>1. BuildPlan(prog, slab, ways).ways = ways
        BY DEF BuildPlan
      <4> QED
        BY <2>1, <3>2, <4>1
    <3> QED
      BY <3>1, <3>2
  <2>4. PICK b : PlanSound(prog, slab, ways, b, plan')
    BY <1>0, <2>3, PlanIsSound
  <2>5. PICK S : plan'.steps \in Seq(S)
    BY <2>4 DEF PlanSound, StepsInv
  <2>6. LayoutLen' = plan'.len
    <3>1. plan' # NoPlan
      BY <2>2, <2>3 DEF NoPlan
    <3> QED
      BY <3>1 DEF LayoutLen, NoPlan
  <2>7. InMemory(mem', LayoutLen')
    <3>1. DOMAIN mem' = DOMAIN mem \union SlabLocs(plan'.len)
      BY <2>1
    <3> QED
      BY <1>5, <2>6, <3>1 DEF InMemory
  <2>8. HasRun' = KeptPcs
    <3>1. \A k \in DOMAIN plan'.steps : ~(k < 1)
      BY <2>5
    <3>2. RanBefore(step)' = KeptPcs' \union UNION {Runs(plan.steps[k])' : k \in {}}
      BY <1>1, <3>1 DEF RanBefore
    <3>3. KeptPcs' = KeptPcs
      BY <1>1 DEF KeptPcs
    <3>4. HasRun' = RanBefore(step)'
      BY <2>1 DEF HasRun
    <3> QED
      BY <3>2, <3>3, <3>4
  <2>a. PICK a : a = prog.const + prog.segment
    OBVIOUS
  <2>9. ASSUME NEW s \in Defined(prog), Def(prog, s) \in 1 .. a PROVE off'[s] = off[s]
    <3>1. Def(prog, s) \notin Continuous(prog)
      BY <1>0, <2>a, <2>9, PcsFacts DEF Continuous
    <3>2. off[s] = slab.off[s]
      BY <1>0, <3>1, LayoutFacts DEF KeptUnmoved
    <3>3. b.off[s] = slab.off[s] /\ off' = b.off
      BY <2>3, <2>4, <3>1 DEF PlanSound, TableInv
    <3> QED
      BY <3>2, <3>3
  <2>10. ASSUME NEW k \in Settled(1 .. a)' PROVE k \in Settled(1 .. a)
    <3>0. a \in {0, prog.const, prog.const + prog.segment}
      BY <2>a
    <3> DEFINE E == 1 .. a
    <3>1. 1 .. a \subseteq E
      OBVIOUS
    <3> HIDE DEF E
    <3>2. k \in Settled(E)
      BY <1>0, <1>1, <2>9, <2>10, <3>0, <3>1, KeptSettled
    <3> QED
      BY <3>2 DEF E
  <2>11. KeptPcs = 1 .. a
    BY <2>a DEF KeptPcs
  <2>12. ASSUME NEW k \in Settled(1 .. a)' PROVE mem'[k[1]] = k[2]
    <3>1. mem[k[1]] = k[2]
      BY <1>5, <2>10, <2>11, <2>12 DEF Holds
    <3>2. k[1] \in DOMAIN mem
      <4>1. PICK store : Laid(store, LayoutLen)
        BY <1>0, LayoutFacts
      <4>2. 1 .. a \subseteq Pcs(prog)
        BY <1>0, <2>11, PcsFacts
      <4> DEFINE D == 1 .. a
                 len == LayoutLen
      <4>3. k \in Settled(D) /\ D \subseteq Pcs(prog) /\ Laid(store, len)
        BY <2>10, <2>12, <4>1, <4>2
      <4> HIDE DEF D, len
      <4>4. k[1] \in SlabLocs(len) \union DyLocs
        BY <1>0, <4>3, SettledInMemory
      <4> QED
        BY <1>5, <4>4 DEF InMemory, len
    <3> QED
      BY <2>1, <3>1, <3>2
  <2>13. \A D : D = HasRun' => \A k \in Settled(D)' : mem'[k[1]] = k[2]
    BY <2>8, <2>11, <2>12
  <2>14. \A v \in Threads : at'[v] = 0
    BY <1>1, <1>2 DEF Calm
  <2>15. DataInv'
    BY <2>7, <2>13, <2>14, CalmNext
  <2> QED
    BY <1>3, <2>15 DEF MemoryInv
<1> QED
  BY <1>6, <1>7

-----------------------------------------------------------------------------
(* Threads of a phase *)

\* What a phase has written has one place in the state.
LEMMA SameParts ==
  ASSUME prog' = prog, home' = home, off' = off, epoch' = epoch, plan' = plan, step' = step,
         stage' = stage
  PROVE  /\ Step' = Step /\ (Forked' <=> Forked) /\ Ended' = Ended
         /\ \A w, i : /\ TakesPart(w, i)' <=> TakesPart(w, i)
                      /\ PartResults(w, i)' = PartResults(w, i)
<1>1. Step' = Step /\ (Forked' <=> Forked) /\ Ended' = Ended
  BY DEF Step, Forked, InSteps, Ended
<1>2. \A w, i : TakesPart(w, i)' <=> TakesPart(w, i)
  BY <1>1 DEF TakesPart
<1>3. ASSUME NEW w, NEW i PROVE Part(w, i)' = Part(w, i)
  <2>1. \A s, c : Loc(s, c)' = Loc(s, c)
    BY DEF Loc
  <2>2. Extent(i)' = Extent(i) /\ All(i)' = All(i) /\ Code(i)' = Code(i)
    BY DEF Extent, All, Code
  <2>3. \A n : ShareOf(i, w, n)' = ShareOf(i, w, n)
    BY <2>1, <2>2 DEF ShareOf
  <2> QED
    BY <1>1, <2>2, <2>3 DEF Part
<1>4. ASSUME NEW w, NEW i PROVE PartResults(w, i)' = PartResults(w, i)
  <2>1. Results(i, Part(w, i), 0)' = Results(i, Part(w, i), 0)
    <3>1. \A s, c : Loc(s, c)' = Loc(s, c) /\ Tag(s, c, 0)' = Tag(s, c, 0)
      BY DEF Loc, Tag
    <3>2. Extent(i)' = Extent(i) /\ Code(i)' = Code(i)
      BY DEF Extent, Code
    <3>3. OutCells(i, Part(w, i))' = OutCells(i, Part(w, i))
      BY <1>3, <3>2 DEF OutCells
    <3> QED
      BY <1>3, <3>1, <3>2, <3>3 DEF Results
  <2> QED
    BY <2>1 DEF PartResults
<1> QED
  BY <1>1, <1>2, <1>4

\* Different parts of one phase are apart, tasks of it or shares of one task.
LEMMA PartsApart ==
  ASSUME PlanInv, Plain(prog), Forked, NEW b, PhaseState(b),
         NEW v \in Threads, NEW w \in Threads, NEW i \in DOMAIN Step.tasks, NEW j \in DOMAIN Step.tasks,
         TakesPart(v, i), TakesPart(w, j), v # w \/ i # j
  PROVE  LocsOf(PartResults(v, i)) \intersect Touched(j, Part(w, j)) = {}
<1>1. /\ ProgramInv /\ LayoutInv /\ StageInv /\ HandInv /\ PreReductionsPrivate(prog)
      /\ InSteps /\ stage = "steps" /\ Step.kind = "fork"
  BY DEF PlanInv, Plain, Forked, InSteps
<1>2. /\ ~Idle(prog, i) /\ i \in Continuous(prog) /\ i \in Pcs(prog) /\ off \in [Slots(prog) -> Nat]
  BY <1>1, TaskFacts
<1>3. Part(v, i) \subseteq All(i) /\ Part(w, j) \subseteq All(j)
  BY <1>1, PartFacts
<1>4. CASE i # j
  BY <1>1, <1>3, <1>4, PhaseTasksApart DEF PartResults
<1>5. CASE i = j
  <2>1. Step.tasks[i].ways # 0
    <3> SUFFICES ASSUME Step.tasks[i].ways = 0 PROVE FALSE
      OBVIOUS
    <3>1. Step.tasks[i].thread = v /\ Step.tasks[i].thread = w
      BY <1>5 DEF TakesPart
    <3> QED
      BY <1>5, <3>1
  <2>2. /\ Step.tasks[i].ways = ways /\ ways \in Nat \ {0}
        /\ prog.code[i].op \in {"copy", "fused", "dy"}
    BY <1>1, <2>1, SplitFacts
  <2>3. v \in 0 .. ways - 1 /\ w \in 0 .. ways - 1
    <3>1. v < ways /\ w < ways
      BY <1>5, <2>2 DEF TakesPart
    <3>2. v \in Nat /\ w \in Nat
      BY CallConstants DEF Threads
    <3> QED
      BY <2>2, <3>1, <3>2
  <2>4. Part(v, i) \intersect Part(w, i) = {}
    <3>1. Part(v, i) = ShareOf(i, v, ways) /\ Part(w, i) = ShareOf(i, w, ways)
      BY <2>2 DEF Part
    <3> QED
      BY <1>1, <1>2, <1>5, <2>2, <2>3, <3>1, ShareFacts
  <2>5. PlanLayout(b)
    BY DEF PhaseState
  <2>6. LocsOf(Results(i, Part(v, i), 0)) \intersect Touched(i, Part(w, i)) = {}
    BY <1>1, <1>2, <1>3, <1>5, <2>2, <2>4, <2>5, SharesApart
  <2> QED
    BY <1>5, <2>6 DEF PartResults
<1> QED
  BY <1>4, <1>5

\* Every result is of one of the cells its instruction runs over.
LEMMA CellOfResults ==
  ASSUME NEW i, NEW cells, NEW k \in Results(i, cells, 0)
  PROVE  \E c \in cells : \A e : c \in e => k \in Results(i, e, 0)
<1>1. CASE Code(i).op = "dy"
  <2> DEFINE s == CHOOSE s \in Reads(prog, i) : TRUE
  <2>1. \A e : Results(i, e, 0) = {<<<<"dy", Code(i).at + c>>, Tag(s, c, 0)>> : c \in e}
    BY <1>1 DEF Results
  <2> HIDE DEF s
  <2>2. PICK c \in cells : k = <<<<"dy", Code(i).at + c>>, Tag(s, c, 0)>>
    BY <2>1
  <2>3. \A e : c \in e => k \in Results(i, e, 0)
    BY <2>1, <2>2
  <2> QED
    BY <2>3
<1>2. CASE Code(i).op # "dy"
  <2> DEFINE pre == Code(i).op = "fused" /\ Code(i).inner > 0
             out(e) == {<<Loc(i, c), Tag(i, c, 0)>> : c \in OutCells(i, e)}
             second(e) == {<<Loc(Second(prog, i), c), Tag(Second(prog, i), c, 0)>> : c \in e}
  <2>1. \A e : Results(i, e, 0) = out(e) \union IF pre THEN second(e) ELSE {}
    BY <1>2 DEF Results
  <2>2. CASE k \in out(cells)
    <3>1. PICK c \in OutCells(i, cells) : k = <<Loc(i, c), Tag(i, c, 0)>>
      BY <2>2
    <3>2. c \in 0 .. Code(i).elems - 1 /\ c % Extent(i) \in cells
      BY DEF OutCells
    <3>3. \A e : c % Extent(i) \in e => k \in out(e)
      BY <3>1, <3>2 DEF OutCells
    <3>4. \A e : c % Extent(i) \in e => k \in Results(i, e, 0)
      BY <2>1, <3>3
    <3> QED
      BY <3>2, <3>4
  <2>3. CASE pre /\ k \in second(cells)
    <3>1. PICK c \in cells : k = <<Loc(Second(prog, i), c), Tag(Second(prog, i), c, 0)>>
      BY <2>3
    <3>2. \A e : c \in e => k \in second(e)
      BY <3>1
    <3>3. \A e : c \in e => k \in Results(i, e, 0)
      BY <2>1, <2>3, <3>2
    <3> QED
      BY <3>3
  <2> QED
    BY <2>1, <2>2, <2>3
<1> QED
  BY <1>1, <1>2

\* Every result of a task is of some thread's part.
LEMMA SomePart ==
  ASSUME PlanInv, Plain(prog), Forked, NEW b, PhaseState(b),
         NEW i \in DOMAIN Step.tasks, NEW k \in Results(i, All(i), 0)
  PROVE  \E v \in Threads : v < Step.threads /\ TakesPart(v, i) /\ k \in PartResults(v, i)
<1>1. /\ ProgramInv /\ LayoutInv /\ StageInv /\ stage = "steps" /\ InSteps
      /\ Step.kind = "fork" /\ Step.threads > 1
  BY DEF PlanInv, Forked, InSteps
<1>2. ways \in Widths /\ ways \in Nat \ {0} /\ Max(Widths) \in Nat /\ ways <= Max(Widths)
  BY <1>1, CallConstants DEF StageInv
<1>3. Dealt(ways, Step)
  BY <1>1, <1>2 DEF PhaseState, StepSound, ForkSound
<1>4. Step.threads \in 1 .. ways
  BY <1>3 DEF Dealt
<1>5. 0 .. Step.threads - 1 \subseteq Threads /\ \A v \in 0 .. Step.threads - 1 : v < Step.threads
  BY <1>2, <1>4 DEF Threads
<1>6. CASE Step.tasks[i].ways = 0
  <2> DEFINE v == Step.tasks[i].thread
  <2>1. v \in 0 .. Step.threads - 1
    BY <1>1, <1>3, <1>6 DEF Dealt
  <2>2. TakesPart(v, i) /\ Part(v, i) = All(i)
    BY <1>6 DEF TakesPart, Part
  <2>3. k \in PartResults(v, i)
    BY <2>2 DEF PartResults
  <2> HIDE DEF v
  <2> QED
    BY <1>5, <2>1, <2>2, <2>3
<1>7. CASE Step.tasks[i].ways # 0
  <2> DEFINE n == Step.tasks[i].ways
  <2>1. n = ways /\ n \in Nat \ {0}
    BY <1>1, <1>7, SplitFacts
  <2>2. n = Step.threads
    BY <1>1, <1>3, <1>7 DEF Dealt
  <2>3. i \in Pcs(prog) /\ off \in [Slots(prog) -> Nat]
    BY <1>1, TaskFacts
  <2>4. PICK c \in All(i) : \A e : c \in e => k \in Results(i, e, 0)
    BY CellOfResults
  <2>5. \A v : Part(v, i) = ShareOf(i, v, n) /\ (TakesPart(v, i) <=> v < n)
    BY <2>1 DEF Part, TakesPart
  <2> HIDE DEF n
  <2>6. UNION {ShareOf(i, v, n) : v \in 0 .. n - 1} = All(i)
    BY <1>1, <2>1, <2>3, ShareFacts
  <2>7. PICK v \in 0 .. n - 1 : c \in ShareOf(i, v, n)
    BY <2>4, <2>6
  <2>8. v \in Threads /\ v < Step.threads /\ TakesPart(v, i)
    BY <1>5, <2>1, <2>2, <2>5, <2>7
  <2>9. k \in PartResults(v, i)
    BY <2>4, <2>5, <2>7 DEF PartResults
  <2> QED
    BY <2>8, <2>9
<1> QED
  BY <1>6, <1>7

LEMMA JoinKeeps ==
  ASSUME PlanInv, Plain(prog), MemoryInv, Join
  PROVE  MemoryInv'
<1>0. ProgramInv /\ LayoutInv /\ HandInv /\ EpochInv /\ DataInv
  BY DEF PlanInv, MemoryInv
<1>1. /\ Forked /\ InSteps /\ stage = "steps" /\ Step.kind = "fork"
      /\ \A w \in 0 .. Step.threads - 1 : at[w] = Ended
      /\ prog' = prog /\ slab' = slab /\ home' = home /\ plan' = plan /\ off' = off
      /\ epoch' = epoch /\ at' = [w \in Threads |-> 0] /\ stage' = stage /\ step' = step + 1
      /\ mem' = mem
  BY DEF Join, Forked, InSteps
<1>2. PICK b : /\ PhaseState(b) /\ Laid(b.store, LayoutLen) /\ HasRun = RanBefore(step)
               /\ RanBefore(step + 1) = RanBefore(step) \union Runs(Step)
               /\ Turn(b.store, RanBefore(step), Runs(Step))
  BY <1>0, <1>1, StepTurn
<1> DEFINE D == RanBefore(step)
           T == Runs(Step)
<1>3. T = DOMAIN Step.tasks
  BY <1>1 DEF Runs
<1>4. ASSUME NEW k \in Settled(D \union T) PROVE mem[k[1]] = k[2]
  <2>1. SettledBy(D, T, k)
    BY <1>0, <1>2, SettledNext
  <2>2. CASE \E i \in T : k \in Results(i, All(i), 0)
    <3>1. PICK i \in DOMAIN Step.tasks : k \in Results(i, All(i), 0)
      BY <1>3, <2>2
    <3>2. PICK v \in Threads : v < Step.threads /\ TakesPart(v, i) /\ k \in PartResults(v, i)
      BY <1>1, <1>2, <3>1, SomePart
    <3>3. i \in Nat \ {0} /\ i < Ended
      <4>1. i \in Pcs(prog) /\ i \in Nat /\ i # 0
        BY <1>0, <1>1, <1>2, TaskFacts
      <4> QED
        BY <1>0, <4>1, PcsFacts DEF Ended
    <3>4. at[v] = Ended
      <4>1. v \in Nat
        BY CallConstants DEF Threads
      <4>2. Step.threads \in Nat
        <5>1. ways \in Nat \ {0}
          BY <1>1, CallConstants DEF PlanInv, StageInv
        <5>2. Dealt(ways, Step)
          BY <1>1, <1>2, <5>1 DEF PhaseState, StepSound, ForkSound
        <5> QED
          BY <5>1, <5>2 DEF Dealt
      <4>3. v \in 0 .. Step.threads - 1
        BY <3>2, <4>1, <4>2
      <4> QED
        BY <1>1, <4>3
    <3>5. PartDone(v, i)
      BY <1>1, <3>2, <3>3, <3>4 DEF PartDone
    <3> QED
      BY <1>0, <3>2, <3>3, <3>5 DEF DataInv
  <2>3. CASE k \in Settled(D) /\ \A i \in T : ~Idle(prog, i) => ~Writes(i, k[1])
    <3> SUFFICES ASSUME mem[k[1]] # k[2] PROVE FALSE
      OBVIOUS
    <3>1. PICK v \in Threads, i \in Nat \ {0} : PartDone(v, i) /\ k[1] \in LocsOf(PartResults(v, i))
      BY <1>0, <1>2, <2>3 DEF DataInv
    <3>2. i \in DOMAIN Step.tasks /\ TakesPart(v, i)
      BY <3>1 DEF PartDone
    <3>3. ~Idle(prog, i) /\ i \in Pcs(prog)
      BY <1>0, <1>1, <1>2, <3>2, TaskFacts
    <3>4. Part(v, i) \subseteq All(i)
      BY <1>0, <1>1, <1>2, <3>2, PartFacts DEF PlanInv
    <3>5. PartResults(v, i) \subseteq Results(i, All(i), 0)
      BY <1>0, <3>3, <3>4, PartOfResults DEF PartResults
    <3>6. Writes(i, k[1])
      BY <3>1, <3>5 DEF Writes, LocsOf
    <3> QED
      BY <1>3, <2>3, <3>2, <3>3, <3>6
  <2> QED
    BY <2>1, <2>2, <2>3 DEF SettledBy
<1>5. InMemory(mem, LayoutLen)
  BY <1>0 DEF DataInv
<1>6. HasRun' = D \union T
  <2>1. HasRun' = RanBefore(step + 1)
    BY <1>1 DEF HasRun, RanBefore, KeptPcs
  <2> QED
    BY <1>2, <2>1
<1> DEFINE E == D \union T
<1>7. Settles(E)
  BY <1>1, <1>6 DEF Settles
<1>8. After(mem, E, mem')
  BY <1>1, <1>4 DEF After, Holds
<1> HIDE DEF E
<1>9. DataInv'
  BY <1>5, <1>7, <1>8, SettleStep
<1>10. EpochInv'
  BY <1>0, <1>1 DEF EpochInv
<1> QED
  BY <1>9, <1>10 DEF MemoryInv

\* What thread w has written once it takes up its next part.
LEMMA DoneNext ==
  ASSUME PlanInv, NEW w \in Threads, Advance(w), NEW v \in Threads, NEW j \in Nat \ {0}
  PROVE  PartDone(v, j)' <=> PartDone(v, j) \/ (v = w /\ j = at[w] /\ InHand(w))
<1> DEFINE T == {i \in DOMAIN Step.tasks : i > at[w] /\ TakesPart(w, i)} \union {Ended}
<1>0. ProgramInv /\ LayoutInv /\ StageInv /\ HandInv
  BY DEF PlanInv
<1>1. /\ Forked /\ InSteps /\ Step.kind = "fork" /\ w < Step.threads /\ at[w] # Ended
      /\ at' = [at EXCEPT ![w] = Min(T)]
      /\ prog' = prog /\ home' = home /\ plan' = plan /\ off' = off
      /\ epoch' = epoch /\ stage' = stage /\ step' = step
  BY DEF Advance, Forked, InSteps
<1>2. /\ Step' = Step /\ (Forked' <=> Forked) /\ Ended' = Ended
      /\ \A u, i : TakesPart(u, i)' <=> TakesPart(u, i)
  BY <1>1, SameParts
<1>3. /\ Min(T) \in 0 .. Ended
      /\ Min(T) # Ended => Min(T) \in DOMAIN Step.tasks /\ TakesPart(w, Min(T)) /\ Min(T) > at[w]
      /\ \A i \in DOMAIN Step.tasks : i > at[w] /\ TakesPart(w, i) => Min(T) <= i
  BY <1>0, <1>1, NextInHand
<1> DEFINE next == Min(T)
<1> HIDE DEF T
<1>4. at[w] \in 0 .. Ended /\ at \in [Threads -> 0 .. Ended] /\ Ended \in Nat
  BY <1>0, PcsFacts DEF HandInv, Ended
<1>5. at[w] < next
  BY <1>1, <1>3, <1>4
<1>6. PartDone(v, j)' <=> /\ v < Step.threads /\ j \in DOMAIN Step.tasks /\ TakesPart(v, j)
                          /\ j < at'[v]
  BY <1>1, <1>2 DEF PartDone
<1>7. PartDone(v, j) <=> /\ v < Step.threads /\ j \in DOMAIN Step.tasks /\ TakesPart(v, j)
                         /\ j < at[v]
  BY <1>1 DEF PartDone
<1>8. CASE v # w
  <2>1. at'[v] = at[v]
    BY <1>1, <1>4, <1>8
  <2> QED
    BY <1>6, <1>7, <1>8, <2>1
<1>9. CASE v = w
  <2>1. at'[v] = next
    BY <1>1, <1>4, <1>9
  <2>2. ASSUME InHand(w), j = at[w] PROVE j \in DOMAIN Step.tasks /\ TakesPart(w, j)
    <3>1. at[w] \notin {0, Ended}
      BY <1>1, <2>2
    <3> QED
      BY <1>0, <1>1, <2>2, <3>1 DEF HandInv
  <2>3. ASSUME PartDone(v, j) PROVE PartDone(v, j)'
    <3>1. j < next
      BY <1>4, <1>5, <1>7, <1>9, <2>3, <1>3
    <3> QED
      BY <1>6, <1>7, <2>1, <2>3, <3>1
  <2>4. ASSUME InHand(w), j = at[w] PROVE PartDone(v, j)'
    BY <1>1, <1>5, <1>6, <1>9, <2>1, <2>2, <2>4
  <2>5. ASSUME PartDone(v, j)' PROVE PartDone(v, j) \/ (j = at[w] /\ InHand(w))
    <3>1. /\ j \in DOMAIN Step.tasks /\ TakesPart(w, j) /\ j < next /\ v < Step.threads
      BY <1>6, <1>9, <2>1, <2>5
    <3>2. ~(j > at[w])
      <4>1. j > at[w] => next <= j
        BY <1>3, <3>1
      <4> QED
        BY <1>3, <3>1, <4>1
    <3>3. CASE j = at[w]
      BY <1>1, <3>1, <3>3 DEF InHand
    <3>4. CASE j # at[w]
      <4>1. j < at[w]
        BY <1>4, <3>2, <3>4
      <4> QED
        BY <1>7, <1>9, <3>1, <4>1
    <3> QED
      BY <3>3, <3>4
  <2> QED
    BY <1>9, <2>3, <2>4, <2>5
<1> QED
  BY <1>8, <1>9

\* Every thread has found its operands or has not.
FoundType == found \in [Threads -> BOOLEAN]

\* What is settled is in place, or a part done has taken it.
InPlace(m, k) ==
  \/ m[k[1]] = k[2]
  \/ \E v \in Threads, i \in Nat \ {0} : PartDone(v, i) /\ k[1] \in LocsOf(PartResults(v, i))

LEMMA AdvanceKeeps ==
  ASSUME PlanInv, FoundType, Plain(prog), MemoryInv, NEW w \in Threads, Advance(w)
  PROVE  MemoryInv'
<1> DEFINE T == {i \in DOMAIN Step.tasks : i > at[w] /\ TakesPart(w, i)} \union {Ended}
<1>0. ProgramInv /\ LayoutInv /\ StageInv /\ HandInv /\ EpochInv /\ DataInv
  BY DEF PlanInv, MemoryInv
<1>1. /\ Forked /\ InSteps /\ stage = "steps" /\ Step.kind = "fork" /\ w < Step.threads /\ at[w] # Ended
      /\ mem' = IF InHand(w) THEN Store(mem, found[w], Results(at[w], Part(w, at[w]), 0)) ELSE mem
      /\ at' = [at EXCEPT ![w] = Min(T)]
      /\ found' = [found EXCEPT ![w] =
             Min(T) # Ended /\ Found(mem', Operands(Min(T), Part(w, Min(T)), 0, 0))]
      /\ prog' = prog /\ slab' = slab /\ home' = home /\ plan' = plan /\ off' = off
      /\ epoch' = epoch /\ stage' = stage /\ step' = step
  BY DEF Advance, Forked, InSteps
<1>2. /\ Step' = Step /\ (Forked' <=> Forked) /\ Ended' = Ended
      /\ \A u, i : /\ TakesPart(u, i)' <=> TakesPart(u, i)
                   /\ PartResults(u, i)' = PartResults(u, i)
  BY <1>1, SameParts
<1>3. PICK b : /\ PhaseState(b) /\ Laid(b.store, LayoutLen) /\ HasRun = RanBefore(step)
               /\ RanBefore(step + 1) = RanBefore(step) \union Runs(Step)
               /\ Turn(b.store, RanBefore(step), Runs(Step))
  BY <1>1, StepTurn
<1>4. PICK next : next = Min(T)
  OBVIOUS
<1>5. /\ next \in 0 .. Ended
      /\ next # Ended => next \in DOMAIN Step.tasks /\ TakesPart(w, next) /\ next > at[w]
  BY <1>0, <1>1, <1>4, NextInHand
<1> HIDE DEF T
<1>6. \A v \in Threads, j \in Nat \ {0} :
        PartDone(v, j)' <=> PartDone(v, j) \/ (v = w /\ j = at[w] /\ InHand(w))
  BY DoneNext
<1>7. PICK D : D = RanBefore(step)
  OBVIOUS
<1>8. InMemory(mem, LayoutLen) /\ \A k \in Settled(D) : InPlace(mem, k)
  BY <1>0, <1>3, <1>7 DEF DataInv, InPlace
<1>9. \A i \in DOMAIN Step.tasks : i \in Pcs(prog) /\ ~Idle(prog, i) /\ i \in Nat \ {0} /\ i # Ended
  BY <1>0, <1>1, <1>3, TaskFacts
\* What a part writes is of its task, and in memory.
<1>10. ASSUME NEW v \in Threads, NEW i \in DOMAIN Step.tasks, TakesPart(v, i)
       PROVE  /\ PartResults(v, i) \subseteq Results(i, All(i), 0)
              /\ \A r \in PartResults(v, i) : r[1] \in DOMAIN mem
  <2>1. Part(v, i) \subseteq All(i)
    BY <1>0, <1>1, <1>3, <1>10, PartFacts
  <2>2. PartResults(v, i) \subseteq Results(i, All(i), 0)
    BY <1>0, <1>9, <2>1, PartOfResults DEF PartResults
  <2>3. \A r \in Results(i, All(i), 0) : r[1] \in SlabLocs(LayoutLen) \union DyLocs
    <3> DEFINE len == LayoutLen
    <3>1. Laid(b.store, len)
      BY <1>3
    <3> HIDE DEF len
    <3>2. \A r \in Results(i, All(i), 0) : r[1] \in SlabLocs(len) \union DyLocs
      BY <1>0, <1>9, <3>1, CellsInMemory
    <3> QED
      BY <3>2 DEF len
  <2> QED
    BY <1>8, <2>2, <2>3 DEF InMemory
<1>11. PICK i : i = at[w]
  OBVIOUS
<1>12. PICK R : R = IF InHand(w) THEN PartResults(w, i) ELSE {}
  OBVIOUS
<1>13. InHand(w) => i \in DOMAIN Step.tasks /\ TakesPart(w, i) /\ PartDone(w, i)'
  <2> SUFFICES ASSUME InHand(w) PROVE i \in DOMAIN Step.tasks /\ TakesPart(w, i) /\ PartDone(w, i)'
    OBVIOUS
  <2>1. i \in DOMAIN Step.tasks
    BY <1>11 DEF InHand
  <2>2. i \in Nat \ {0} /\ i # Ended
    BY <1>9, <2>1
  <2>3. TakesPart(w, i)
    BY <1>0, <1>1, <1>11, <2>2 DEF HandInv
  <2> QED
    BY <1>6, <1>11, <2>1, <2>2, <2>3
<1>14. Wrote(mem, R, mem')
  <2>1. CASE InHand(w)
    <3>1. found[w]
      BY <1>0, <1>9, <1>11, <1>13, <2>1 DEF DataInv
    <3>2. mem' = Store(mem, TRUE, R)
      BY <1>1, <1>11, <1>12, <2>1, <3>1 DEF PartResults, Store
    <3>3. R \subseteq Results(i, All(i), 0) /\ \A r \in R : r[1] \in DOMAIN mem
      BY <1>10, <1>12, <1>13, <2>1
    <3>4. \A k, r \in R : k[1] = r[1] => k = r
      BY <1>0, <1>3, <1>9, <1>13, <2>1, <3>3, ResultsAgree
    <3>5. Storable(mem, R)
      BY <3>3, <3>4 DEF Storable
    <3> QED
      BY <3>2, <3>5, StoreFacts
  <2>2. CASE ~InHand(w)
    BY <1>1, <1>12, <2>2 DEF Wrote
  <2> QED
    BY <2>1, <2>2
<1>15. /\ DOMAIN mem' = DOMAIN mem
       /\ \A k \in R : mem'[k[1]] = k[2]
       /\ \A l \in DOMAIN mem : l \notin LocsOf(R) => mem'[l] = mem[l]
  BY <1>14 DEF Wrote
\* The parts done keep what they wrote.
<1>16. ASSUME NEW v \in Threads, NEW j \in Nat \ {0}, PartDone(v, j)', NEW r \in PartResults(v, j)
       PROVE  mem'[r[1]] = r[2]
  <2>1. CASE v = w /\ j = i /\ InHand(w)
    BY <1>12, <1>15, <1>16, <2>1
  <2>2. CASE ~(v = w /\ j = i /\ InHand(w))
    <3>1. PartDone(v, j)
      BY <1>6, <1>11, <1>16, <2>2
    <3>2. j \in DOMAIN Step.tasks /\ TakesPart(v, j) /\ mem[r[1]] = r[2]
      BY <1>0, <3>1 DEF DataInv, PartDone
    <3>3. r[1] \in DOMAIN mem
      BY <1>10, <3>2
    <3>4. r[1] \notin LocsOf(R)
      <4> SUFFICES ASSUME r[1] \in LocsOf(R) PROVE FALSE
        OBVIOUS
      <4>1. InHand(w) /\ R = PartResults(w, i)
        BY <1>12 DEF LocsOf
      <4>2. v # w \/ j # i
        BY <2>2, <4>1
      <4>3. LocsOf(PartResults(w, i)) \intersect Touched(j, Part(v, j)) = {}
        BY <1>1, <1>3, <1>13, <3>2, <4>1, <4>2, PartsApart
      <4>4. r[1] \in Touched(j, Part(v, j))
        BY DEF Touched, LocsOf, PartResults
      <4> QED
        BY <4>1, <4>3, <4>4
    <3> QED
      BY <1>15, <3>2, <3>3, <3>4
  <2> QED
    BY <2>1, <2>2
\* What was in place is, or this part has taken it.
<1>17. ASSUME NEW k \in Settled(D)
       PROVE  \/ mem'[k[1]] = k[2]
              \/ \E v \in Threads, j \in Nat \ {0} : PartDone(v, j)' /\ k[1] \in LocsOf(PartResults(v, j))
  <2>1. CASE mem[k[1]] = k[2]
    <3>1. CASE k[1] \in LocsOf(R)
      <4>1. InHand(w) /\ R = PartResults(w, i)
        BY <1>12, <3>1 DEF LocsOf
      <4>2. i \in Nat \ {0} /\ PartDone(w, i)'
        BY <1>9, <1>13, <4>1
      <4> QED
        BY <3>1, <4>1, <4>2
    <3>2. CASE k[1] \notin LocsOf(R)
      <4>1. k[1] \in DOMAIN mem
        <5> DEFINE len == LayoutLen
        <5>1. D \subseteq Pcs(prog) /\ Laid(b.store, len)
          BY <1>3, <1>7 DEF Turn
        <5> HIDE DEF len
        <5>2. k[1] \in SlabLocs(len) \union DyLocs
          BY <1>0, <5>1, SettledInMemory
        <5> QED
          BY <1>8, <5>2 DEF InMemory, len
      <4> QED
        BY <1>15, <2>1, <3>2, <4>1
    <3> QED
      BY <3>1, <3>2
  <2>2. CASE mem[k[1]] # k[2]
    <3>1. PICK v \in Threads, j \in Nat \ {0} : PartDone(v, j) /\ k[1] \in LocsOf(PartResults(v, j))
      BY <1>8, <2>2 DEF InPlace
    <3> QED
      BY <1>6, <3>1
  <2> QED
    BY <2>1, <2>2
\* The part taken up finds its operands.
<1>18. ASSUME next # Ended PROVE Found(mem', Operands(next, Part(w, next), 0, 0))
  <2>1. next \in DOMAIN Step.tasks /\ TakesPart(w, next) /\ next > at[w] /\ next \in Pcs(prog)
    BY <1>5, <1>9, <1>18
  <2>2. Part(w, next) \subseteq All(next)
    BY <1>0, <1>1, <1>3, <2>1, PartFacts
  <2> SUFFICES ASSUME NEW o \in Operands(next, Part(w, next), 0, 0) PROVE mem'[o[1]] = o[2]
    BY DEF Found
  <2>3. o \in Settled(D)
    <3> DEFINE tasks == Runs(Step)
    <3>1. tasks = DOMAIN Step.tasks
      BY <1>1 DEF Runs
    <3>2. \A x \in tasks : x < next => Apart(prog, b.store, x, next)
      <4>1. ForkSound(prog, ways, b.store, Step)
        BY <1>1, <1>3 DEF PhaseState, StepSound
      <4> QED
        BY <2>1, <3>1, <4>1 DEF ForkSound
    <3>3. Turn(b.store, D, tasks) /\ next \in tasks /\ ~Idle(prog, next) /\ Laid(b.store, LayoutLen)
      BY <1>3, <1>7, <1>9, <2>1, <3>1
    <3> DEFINE len == LayoutLen
    <3>4. Laid(b.store, len)
      BY <3>3
    <3> HIDE DEF tasks, len
    <3> QED
      BY <1>0, <2>2, <3>2, <3>3, <3>4, OperandsSettled
  <2>4. ASSUME NEW v \in Threads, NEW j \in Nat \ {0}, PartDone(v, j)',
               o[1] \in LocsOf(PartResults(v, j))
        PROVE  FALSE
    <3>1. j \in DOMAIN Step.tasks /\ TakesPart(v, j) /\ j < at'[v]
      BY <1>2, <2>4 DEF PartDone
    <3>2. v # w \/ j # next
      <4>1. v = w => at'[v] = next
        BY <1>0, <1>1, <1>4 DEF HandInv
      <4>2. ~(next < next)
        BY <1>9, <2>1
      <4> QED
        BY <3>1, <4>1, <4>2
    <3>3. LocsOf(PartResults(v, j)) \intersect Touched(next, Part(w, next)) = {}
      BY <1>1, <1>3, <2>1, <3>1, <3>2, PartsApart
    <3>4. o[1] \in Touched(next, Part(w, next))
      BY DEF Touched, LocsOf
    <3> QED
      BY <2>4, <3>3, <3>4
  <2> QED
    BY <1>17, <2>3, <2>4
<1>19. ASSUME NEW v \in Threads, InHand(v)', at'[v] # 0 PROVE found'[v]
  <2>1. CASE v # w
    <3>1. at'[v] = at[v]
      BY <1>0, <1>1, <2>1 DEF HandInv
    <3>2. InHand(v)
      BY <1>1, <1>2, <1>19, <3>1 DEF InHand
    <3>3. found[v]
      BY <1>0, <1>19, <3>1, <3>2 DEF DataInv
    <3> QED
      BY <1>1, <2>1, <3>3
  <2>2. CASE v = w
    <3>1. at'[v] = next
      BY <1>0, <1>1, <1>4, <2>2 DEF HandInv
    <3>2. next \in DOMAIN Step.tasks
      BY <1>2, <1>19, <3>1 DEF InHand
    <3>3. next # Ended
      BY <1>9, <3>2
    <3> QED
      BY <1>1, <1>4, <1>18, <2>2, <3>3 DEF FoundType
  <2> QED
    BY <2>1, <2>2
<1>20. DataInv'
  <2>1. InMemory(mem, LayoutLen)'
    <3>1. LayoutLen' = LayoutLen
      BY <1>1 DEF LayoutLen
    <3> QED
      BY <1>8, <1>15, <3>1 DEF InMemory, SlabLocs, DyLocs
  <2>2. (\A v \in Threads, j \in Nat \ {0} :
           PartDone(v, j) => \A r \in PartResults(v, j) : mem[r[1]] = r[2])'
    BY <1>2, <1>16
  <2>3. HasRun' = D
    <3>1. HasRun' = RanBefore(step)
      BY <1>1 DEF HasRun, RanBefore, KeptPcs
    <3> QED
      BY <1>7, <3>1
  <2>4. Settled(D)' = Settled(D)
    BY <1>1, SameCells
  <2>5. (\A E : E = HasRun => \A k \in Settled(E) :
           \/ mem[k[1]] = k[2]
           \/ \E v \in Threads, j \in Nat \ {0} : PartDone(v, j) /\ k[1] \in LocsOf(PartResults(v, j)))'
    <3>1. \A k \in Settled(D)' :
            \/ mem'[k[1]] = k[2]
            \/ \E v \in Threads, j \in Nat \ {0} : PartDone(v, j)' /\ k[1] \in LocsOf(PartResults(v, j))
      BY <1>17, <2>4
    <3>2. \A k \in Settled(D)' :
            \/ mem'[k[1]] = k[2]
            \/ \E v \in Threads, j \in Nat \ {0} : PartDone(v, j)' /\ k[1] \in LocsOf(PartResults(v, j)')
      BY <1>2, <3>1
    <3>3. \A v, j : LocsOf(PartResults(v, j))' = LocsOf(PartResults(v, j)')
      BY DEF LocsOf
    <3> QED
      BY <2>3, <3>2, <3>3
  <2>6. (\A v \in Threads : InHand(v) /\ at[v] # 0 => found[v])'
    BY <1>19
  <2> QED
    BY <2>1, <2>2, <2>5, <2>6 DEF DataInv
<1>21. EpochInv'
  BY <1>0, <1>1 DEF EpochInv
<1> QED
  BY <1>20, <1>21 DEF MemoryInv

LEMMA FoundTyped == Spec => []FoundType
<1>1. Init => FoundType
  BY DEF Init, FoundType
<1>2. FoundType /\ [Next]_vars => FoundType'
  <2> SUFFICES ASSUME FoundType, [Next]_vars PROVE FoundType'
    OBVIOUS
  <2>1. ASSUME NEW w \in Threads, Advance(w) PROVE FoundType'
    <3>1. PICK yes \in BOOLEAN : found' = [found EXCEPT ![w] = yes]
      BY <2>1 DEF Advance
    <3> QED
      BY <3>1 DEF FoundType
  <2>2. CASE found' = found
    BY <2>2 DEF FoundType
  <2> QED
    BY <2>1, <2>2 DEF Next, Call, Prime, Plan, RunSerial, RunLoop, RunAlone, Join, Return, Done, vars
<1> QED
  BY <1>1, <1>2, PTL DEF Spec

\* Nothing but time passes.
LEMMA StutterKeeps ==
  ASSUME MemoryInv, UNCHANGED vars
  PROVE  MemoryInv'
<1>0. EpochInv /\ DataInv
  BY DEF MemoryInv
<1>1. /\ prog' = prog /\ slab' = slab /\ home' = home /\ plan' = plan /\ off' = off /\ mem' = mem
      /\ epoch' = epoch /\ stage' = stage /\ step' = step /\ at' = at /\ found' = found
  BY DEF vars
<1>2. /\ Step' = Step /\ (Forked' <=> Forked) /\ Ended' = Ended
      /\ \A u, i : /\ TakesPart(u, i)' <=> TakesPart(u, i)
                   /\ PartResults(u, i)' = PartResults(u, i)
  BY <1>1, SameParts
<1>3. \A v, j : PartDone(v, j)' <=> PartDone(v, j)
  BY <1>1, <1>2 DEF PartDone
<1>4. HasRun' = HasRun /\ LayoutLen' = LayoutLen
  BY <1>1 DEF HasRun, KeptPcs, RanBefore, LayoutLen
<1>5. \A D : Settled(D)' = Settled(D)
  BY <1>1, SameCells
<1>6. InMemory(mem, LayoutLen)'
  BY <1>0, <1>1, <1>4 DEF DataInv, InMemory, SlabLocs, DyLocs
<1>7. (\A v \in Threads, j \in Nat \ {0} :
         PartDone(v, j) => \A r \in PartResults(v, j) : mem[r[1]] = r[2])'
  BY <1>0, <1>1, <1>2, <1>3 DEF DataInv
<1>8. (\A E : E = HasRun => \A k \in Settled(E) :
         \/ mem[k[1]] = k[2]
         \/ \E v \in Threads, j \in Nat \ {0} : PartDone(v, j) /\ k[1] \in LocsOf(PartResults(v, j)))'
  <2>1. ASSUME NEW k \in Settled(HasRun)
        PROVE  \/ mem[k[1]] = k[2]
               \/ \E v \in Threads, j \in Nat \ {0} : PartDone(v, j) /\ k[1] \in LocsOf(PartResults(v, j))
    BY <1>0 DEF DataInv
  <2>2. \A v, j : LocsOf(PartResults(v, j))' = LocsOf(PartResults(v, j))
    BY <1>2 DEF LocsOf
  <2>3. ASSUME NEW E, E = HasRun', NEW k \in Settled(E)'
        PROVE  \/ mem'[k[1]] = k[2]
               \/ \E v \in Threads, j \in Nat \ {0} : PartDone(v, j)' /\ k[1] \in LocsOf(PartResults(v, j))'
    <3>1. k \in Settled(E) /\ E = HasRun
      BY <1>4, <1>5, <2>3
    <3>2. k \in Settled(HasRun)
      BY <3>1
    <3> QED
      BY <1>1, <1>3, <2>1, <2>2, <3>2
  <2> QED
    BY <2>3
<1>9. (\A v \in Threads : InHand(v) /\ at[v] # 0 => found[v])'
  BY <1>0, <1>1, <1>2 DEF DataInv, InHand
<1>10. DataInv'
  BY <1>6, <1>7, <1>8, <1>9 DEF DataInv
<1>11. EpochInv'
  BY <1>0, <1>1 DEF EpochInv
<1> QED
  BY <1>10, <1>11 DEF MemoryInv

\* A call's program is the program's for good.
LEMMA SameProgram == [Next]_vars => prog' = prog
BY DEF Next, Call, Prime, Plan, RunSerial, RunLoop, RunAlone, Advance, Join, Return, Done, vars

\* What has run of a call is in memory, but for what the phase under way has
\* overwritten, and no instruction misses an operand: the invariant of the memory
\* of a program without sweeps whose pre-reductions and homes are its groups' own.
THEOREM MemoryInvariant ==
  ASSUME \A p \in Programs : PreReductionsPrivate(p) /\ HomesPrivate(p)
  PROVE  Spec => [](Sweepless(prog) => MemoryInv)
<1>1. Init => (Sweepless(prog) => MemoryInv)
  BY InitMemory
<1>2. PlanInv /\ FoundType /\ (Sweepless(prog) => MemoryInv) /\ [Next]_vars
        => (Sweepless(prog) => MemoryInv)'
  <2> SUFFICES ASSUME PlanInv, FoundType, MemoryInv, Sweepless(prog), [Next]_vars
               PROVE  MemoryInv'
    BY SameProgram
  <2>1. Plain(prog)
    BY DEF PlanInv, ProgramInv, Plain
  <2>2. ASSUME NEW w \in Widths, NEW moved \in {"none", "forcing", "params"}, Call(w, moved)
        PROVE  MemoryInv'
    BY <2>2, CallKeeps
  <2>3. CASE Prime
    BY <2>1, <2>3, PrimeKeeps
  <2>4. CASE Plan
    BY <2>1, <2>4, PlanKeeps
  <2>5. CASE RunSerial
    BY <2>1, <2>5, SerialKeeps
  <2>6. CASE RunLoop
    BY <2>1, <2>6, LoopKeeps
  <2>7. CASE RunAlone
    BY <2>1, <2>7, AloneKeeps
  <2>8. ASSUME NEW w \in Threads, Advance(w) PROVE MemoryInv'
    BY <2>1, <2>8, AdvanceKeeps
  <2>9. CASE Join
    BY <2>1, <2>9, JoinKeeps
  <2>10. CASE Return
    BY <2>1, <2>10, ReturnKeeps
  <2>11. CASE UNCHANGED vars
    BY <2>11, StutterKeeps
  <2> QED
    BY <2>2, <2>3, <2>4, <2>5, <2>6, <2>7, <2>8, <2>9, <2>10, <2>11 DEF Next, Done
<1> QED
  BY <1>1, <1>2, PlanInvariant, FoundTyped, PTL DEF Spec

-----------------------------------------------------------------------------
(* What calls promise of the memory *)

\* What the last of its DyWrites leaves at a position of dy.
DyWriters(a) ==
  {i \in Continuous(prog) :
     Code(i).op = "dy" /\ a \in Code(i).at .. Code(i).at + Code(i).elems - 1}

DyValue(W, a) ==
  IF W = {} THEN Junk
  ELSE Tag(CHOOSE s \in Reads(prog, Max(W)) : TRUE, a - Code(Max(W)).at, 0)

\* What dy holds once all has run.
LEMMA DyIsSerial ==
  ASSUME PlanInv, Plain(prog), Holds(mem, Pcs(prog)), NEW a \in 0 .. DyLen - 1,
         NEW writers, writers = DyWriters(a)
  PROVE  mem[<<"dy", a>>] = DyValue(writers, a)
<1>0. /\ ProgramInv /\ WellFormed(prog) /\ Len(prog.code) \in Nat /\ DyLen \in Nat
      /\ Pcs(prog) = 1 .. Len(prog.code)
  BY CallConstants, PcsFacts DEF PlanInv
<1>1. ASSUME NEW i \in Pcs(prog), Code(i).op = "dy" PROVE i \in Continuous(prog)
  BY <1>0, <1>1 DEF WellFormed, Code
<1>2. CASE writers = {}
  <2>1. \A i \in Pcs(prog) : Code(i).op = "dy" => a \notin Code(i).at .. Code(i).at + Code(i).elems - 1
    BY <1>1, <1>2 DEF DyWriters
  <2> DEFINE k == <<<<"dy", a>>, Junk>>
  <2>2. k \in Untouched
    BY <2>1 DEF Untouched
  <2>3. k \in Settled(Pcs(prog))
    BY <2>2 DEF Settled
  <2>4. mem[k[1]] = k[2]
    BY <2>3 DEF Holds
  <2> QED
    BY <1>2, <2>4 DEF DyValue
<1>3. CASE writers # {}
  <2>1. PICK i : i = Max(writers)
    OBVIOUS
  <2>2. i \in writers /\ \A j \in writers : j <= i
    <3>1. writers \subseteq 0 .. Len(prog.code)
      BY <1>0, ContinuousFacts DEF DyWriters
    <3> QED
      BY <1>0, <1>3, <2>1, <3>1, MaxIsGreatest
  <2>3. /\ i \in Continuous(prog) /\ i \in Pcs(prog) /\ Code(i).op = "dy" /\ prog.code[i].op = "dy"
        /\ a \in Code(i).at .. Code(i).at + Code(i).elems - 1
        /\ prog.code[i].at \in Nat /\ prog.code[i].elems \in Nat
    BY <1>0, <2>2, ContinuousFacts, CodeFacts DEF Code, DyWriters
  <2>4. PICK s \in Reads(prog, i) :
          /\ Reads(prog, i) = {s} /\ Elems(prog, s) = prog.code[i].elems
          /\ \A cells : Results(i, cells, 0) =
               {<<<<"dy", prog.code[i].at + c>>, Tag(s, c, 0)>> : c \in cells}
    BY <1>0, <2>3, ResultsAre DEF Plain
  <2>5. PICK c : c = a - prog.code[i].at
    OBVIOUS
  <2>6. c \in 0 .. prog.code[i].elems - 1 /\ prog.code[i].at + c = a
    BY <2>3, <2>5 DEF Code
  <2>7. PICK k : k = <<<<"dy", a>>, Tag(s, c, 0)>>
    OBVIOUS
  <2>8. k \in Settled(Pcs(prog))
    <3>1. CASE Idle(prog, i)
      <4>1. Homed(prog, s)
        BY <2>4, <3>1 DEF Idle
      <4>2. s \in Defined(prog) /\ s \in Slots(prog) /\ Def(prog, s) \in Pcs(prog)
        BY <1>0, <2>3, ReadsEarlier, SlotFacts
      <4>3. HomeOf(prog, s) = prog.code[i].at
        <5>1. PICK j \in Continuous(prog) : Readers(prog, s) = {j} /\ HomeOf(prog, s) = prog.code[j].at
          BY <1>0, <4>1, HomeFacts
        <5>2. i \in Readers(prog, s)
          BY <2>3, <2>4 DEF Readers
        <5> QED
          BY <5>1, <5>2
      <4>4. Loc(s, c) = <<"dy", a>>
        BY <1>0, <2>6, <4>1, <4>2, <4>3, LocFacts
      <4>5. k \in Cells(s)
        BY <2>4, <2>6, <2>7, <4>4 DEF Cells
      <4>6. s \in Staying(Pcs(prog))
        BY <4>1, <4>2 DEF Staying
      <4> QED
        BY <4>5, <4>6 DEF Settled, StayingCells
    <3>2. CASE ~Idle(prog, i)
      <4>1. Copies(i)
        BY <2>3, <3>2 DEF Copies
      <4>2. c \in All(i)
        BY <1>0, <2>3, <2>6, ExtentFacts DEF All, PreReduces
      <4>3. k \in Results(i, All(i), 0)
        BY <2>4, <2>6, <2>7, <4>2
      <4>4. ASSUME NEW j \in Pcs(prog), Copies(j), i < j, Writes(j, k[1]) PROVE FALSE
        <5>1. prog.code[j].op = "dy" /\ prog.code[j].at \in Nat /\ prog.code[j].elems \in Nat
          BY <1>0, <4>4, CodeFacts DEF Copies, Code
        <5>2. PICK d \in 0 .. prog.code[j].elems - 1 : k[1] = <<"dy", prog.code[j].at + d>>
          BY <1>0, <4>4, <5>1, WritesWhere
        <5>3. PICK x : x = prog.code[j].at + d
          OBVIOUS
        <5>4. <<"dy", a>> = <<"dy", x>>
          BY <2>7, <5>2, <5>3
        <5>5. a = x
          BY <5>4
        <5>6. a \in Code(j).at .. Code(j).at + Code(j).elems - 1
          BY <5>1, <5>3, <5>5 DEF Code
        <5>7. j \in writers
          BY <1>1, <5>1, <5>6 DEF Code, DyWriters
        <5>8. j <= i
          BY <2>2, <5>7
        <5> QED
          BY <1>0, <2>3, <4>4, <5>8
      <4>5. k \in DyLeft(Pcs(prog))
        BY <2>3, <4>1, <4>3, <4>4, DyLeftFacts
      <4> QED
        BY <4>5 DEF Settled
    <3> QED
      BY <3>1, <3>2
  <2>9. mem[k[1]] = k[2]
    BY <2>8 DEF Holds
  <2>10. (CHOOSE t \in Reads(prog, i) : TRUE) = s
    BY <2>4
  <2>11. mem[<<"dy", a>>] = Tag(s, c, 0)
    BY <2>7, <2>9
  <2>12. c = a - Code(i).at
    BY <2>5 DEF Code
  <2> QED
    BY <1>3, <2>1, <2>10, <2>11, <2>12 DEF DyValue
<1> QED
  BY <1>2, <1>3

\* What dy holds once a call is over is what running the instructions one by one
\* computes: at any width, whatever the widths of the calls before, on any
\* interleaving of the threads of its phases, for any program without sweeps whose
\* pre-reductions and homes are its groups' own (run_continuous and run_plan
\* against run_range).
THEOREM CallsAreSerial ==
  ASSUME \A p \in Programs : PreReductionsPrivate(p) /\ HomesPrivate(p)
  PROVE  Spec => [](Sweepless(prog) => CallIsSerial)
<1>1. PlanInv /\ MemoryInv /\ Sweepless(prog) => CallIsSerial
  <2> SUFFICES ASSUME PlanInv, MemoryInv, Sweepless(prog), stage = "idle", epoch.continuous > 0,
                      NEW a \in 0 .. DyLen - 1
               PROVE  LET writers == {i \in Continuous(prog) :
                            Code(i).op = "dy" /\ a \in Code(i).at .. Code(i).at + Code(i).elems - 1}
                          i == Max(writers)
                          s == CHOOSE s \in Reads(prog, i) : TRUE
                      IN mem[<<"dy", a>>] = IF writers = {} THEN Junk ELSE Tag(s, a - Code(i).at, 0)
    BY DEF CallIsSerial
  <2>1. ProgramInv /\ HandInv /\ EpochInv /\ DataInv /\ Plain(prog)
    BY DEF PlanInv, MemoryInv, ProgramInv, Plain
  <2>2. Calm
    BY <2>1, CalmFacts DEF Forked, InSteps
  <2>3. HasRun = Pcs(prog)
    <3>1. epoch.continuous # 0
      BY <2>1 DEF EpochInv
    <3> QED
      BY <3>1 DEF HasRun
  <2>4. Holds(mem, Pcs(prog))
    BY <2>1, <2>2, <2>3, CalmHolds
  <2>5. mem[<<"dy", a>>] = DyValue(DyWriters(a), a)
    BY <2>1, <2>4, DyIsSerial
  <2> QED
    BY <2>5 DEF DyValue, DyWriters
<1> QED
  BY <1>1, PlanInvariant, MemoryInvariant, PTL

\* A kept section's slot that a later section reads holds its section's last run
\* at every moment after it, amid a phase too: no slot recycled, no plan's layout
\* and no thread ever takes its storage, for the programs of the theorem above.
THEOREM KeptSlotsHold ==
  ASSUME \A p \in Programs : PreReductionsPrivate(p) /\ HomesPrivate(p)
  PROVE  Spec => [](Sweepless(prog) => KeptSlotsStand)
<1>1. PlanInv /\ MemoryInv /\ Sweepless(prog) => KeptSlotsStand
  <2> SUFFICES ASSUME PlanInv, MemoryInv, Sweepless(prog), stage \in {"idle", "plan", "serial", "steps"}, epoch.const > 0,
                      NEW s \in Defined(prog), SectionOf(prog, Def(prog, s)) # "continuous",
                      SectionOf(prog, LastUse(prog, s)) # SectionOf(prog, Def(prog, s)),
                      NEW c \in 0 .. Elems(prog, s) - 1
               PROVE  mem[Loc(s, c)] = Tag(s, c, 0)
    BY DEF KeptSlotsStand
  <2>1. ProgramInv /\ LayoutInv /\ StageInv /\ HandInv /\ EpochInv /\ DataInv /\ Plain(prog)
    BY DEF PlanInv, MemoryInv, ProgramInv, Plain
  <2>2. /\ WellFormed(prog) /\ Len(prog.code) \in Nat /\ Pcs(prog) = 1 .. Len(prog.code)
        /\ prog.const \in Nat /\ prog.segment \in Nat /\ prog.const + prog.segment <= Len(prog.code)
    BY <2>1, PcsFacts
  <2>3. Def(prog, s) \in KeptPcs /\ Def(prog, s) \in Pcs(prog) /\ Dedicated(prog, s)
    <3>1. Def(prog, s) \in Pcs(prog)
      BY <2>2, SlotFacts
    <3> QED
      BY <2>2, <3>1 DEF SectionOf, KeptPcs, Dedicated
  <2>4. PICK D : D = HasRun
    OBVIOUS
  <2>5. Def(prog, s) \in D
    <3>1. CASE stage = "idle"
      <4>1. epoch.continuous # 0
        BY <2>1 DEF EpochInv
      <4> QED
        BY <2>3, <2>4, <3>1, <4>1 DEF HasRun
    <3>2. CASE stage \in {"plan", "serial"}
      BY <2>3, <2>4, <3>2 DEF HasRun
    <3>3. CASE stage = "steps"
      BY <2>3, <2>4, <3>3, RanBeforeFacts DEF HasRun
    <3> QED
      BY <3>1, <3>2, <3>3
  <2>6. s \in Staying(D)
    BY <2>3, <2>5 DEF Staying
  <2>7. PICK k : k = <<Loc(s, c), Tag(s, c, 0)>>
    OBVIOUS
  <2>8. k \in Settled(D)
    BY <2>6, <2>7 DEF Settled, StayingCells, Cells
  <2>9. ASSUME NEW v \in Threads, NEW i \in Nat \ {0}, PartDone(v, i), k[1] \in LocsOf(PartResults(v, i))
        PROVE  FALSE
    <3>1. /\ Forked /\ InSteps /\ stage = "steps" /\ Step.kind = "fork"
          /\ i \in DOMAIN Step.tasks /\ TakesPart(v, i)
      BY <2>9 DEF PartDone, Forked, InSteps
    <3>2. PICK b : /\ PhaseState(b) /\ Laid(b.store, LayoutLen) /\ HasRun = RanBefore(step)
                   /\ RanBefore(step + 1) = RanBefore(step) \union Runs(Step)
                   /\ Turn(b.store, RanBefore(step), Runs(Step))
      BY <2>1, <3>1, StepTurn
    <3>3. PICK T : T = Runs(Step)
      OBVIOUS
    <3>4. Turn(b.store, D, T) /\ i \in T
      BY <2>4, <3>1, <3>2, <3>3 DEF Runs
    <3>5. ~Idle(prog, i) /\ i \in Pcs(prog)
      BY <2>1, <3>1, <3>2, TaskFacts
    <3>6. Writes(i, Loc(s, c))
      <4>1. Part(v, i) \subseteq All(i)
        BY <2>1, <3>1, <3>2, PartFacts
      <4>2. PartResults(v, i) \subseteq Results(i, All(i), 0)
        BY <2>1, <3>5, <4>1, PartOfResults DEF PartResults
      <4> QED
        BY <2>7, <2>9, <4>2 DEF Writes, LocsOf
    <3>7. s \in Staying(D \union T)
      BY <2>3, <2>5 DEF Staying
    <3> DEFINE len == LayoutLen
    <3>8. Laid(b.store, len)
      BY <3>2
    <3> HIDE DEF len
    <3>9. ~Writes(i, Loc(s, c))
      BY <2>1, <2>5, <3>4, <3>5, <3>7, <3>8, StayingStays
    <3> QED
      BY <3>6, <3>9
  <2>10. mem[k[1]] = k[2]
    BY <2>1, <2>4, <2>8, <2>9 DEF DataInv
  <2> QED
    BY <2>7, <2>10
<1> QED
  BY <1>1, PlanInvariant, MemoryInvariant, PTL
=============================================================================

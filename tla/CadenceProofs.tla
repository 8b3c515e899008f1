------------------------------ MODULE CadenceProofs ------------------------------
(***************************************************************************)
(* Proofs about the cadence pass, for any model and any order of its       *)
(* names, in three parts.                                                  *)
(*                                                                         *)
(* Guard 1 of partition_model: the depth-first walk over the derived index *)
(* sets lets a partition through only when no set needs itself, and names  *)
(* a real cycle when it refuses.  The walk is described over D, the sets   *)
(* walked, R, what each reads, c, the colours, and h, the visits under way.*)
(*                                                                         *)
(* The memo (Ctx::classify and Ctx::seed_observed): whatever is asked      *)
(* first, a class that is kept is the join of all the leaves behind its    *)
(* observed, no observed that needs itself is given one, and a refusal     *)
(* names definitions that really lead to each other.  What a model makes   *)
(* of names is gathered in one record d: d.obs the observeds, d.reads the  *)
(* names an observed's definition reads, d.seed the class of a name that   *)
(* is not observed, d.leads the names below an expression, d.names all.    *)
(*                                                                         *)
(* The rounds and their outputs (partition_model): everything an operator  *)
(* needs is kept when a round is answered, so what Output computes is what *)
(* the classes are, and each round leaves out no operator.  The operators  *)
(* of a model are gathered in a record f: f.kids, f.under what is below    *)
(* each, f.class its class, f.roots the right-hand sides.                  *)
(***************************************************************************)
EXTENDS Cadence, SequenceTheorems, FiniteSetTheorems, WellFoundedInduction, TLAPS

Less == {ss \in Nat \X Nat : ss[1] < ss[2]}

LEMMA LessWellFounded == IsWellFoundedOn(Less, Nat)
BY NatLessThanWellFounded DEF OpToRel, Less

\* What Min returns.
LEMMA LeastIsMember ==
  ASSUME NEW T, T \subseteq Nat, T # {}
  PROVE  Min(T) \in T
<1>1. PICK x \in T : \A y \in T : ~ (<<y, x>> \in Less)
  BY LessWellFounded, WFMin
<1>2. ASSUME NEW y \in T, y < x PROVE FALSE
  <2>1. <<y, x>> \in Less
    BY <1>2 DEF Less
  <2> QED
    BY <1>1, <2>1
<1>3. \A y \in T : x <= y
  BY <1>2
<1> QED
  BY <1>3 DEF Min

\* A sequence without its last element.
LEMMA AllButLast ==
  ASSUME NEW F, NEW h \in Seq(F), Len(h) > 0
  PROVE  /\ SubSeq(h, 1, Len(h) - 1) \in Seq(F)
         /\ Len(SubSeq(h, 1, Len(h) - 1)) = Len(h) - 1
         /\ \A i \in 1 .. Len(h) - 1 : SubSeq(h, 1, Len(h) - 1)[i] = h[i]
<1> DEFINE n == Len(h)
<1>1. n \in Nat /\ n > 0
  OBVIOUS
<1>2. CASE n = 1
  BY <1>2
<1>3. CASE n > 1
  BY <1>1, <1>3
<1> HIDE DEF n
<1>4. n = 1 \/ n > 1
  BY <1>1
<1> QED
  BY <1>2, <1>3, <1>4, Zenon

\* A sequence whose last element is replaced.
LEMMA LastReplaced ==
  ASSUME NEW F, NEW h \in Seq(F), Len(h) > 0, NEW q \in F
  PROVE  /\ Len(h) \in Nat /\ h[Len(h)] \in F
         /\ [h EXCEPT ![Len(h)] = q] \in Seq(F)
         /\ Len([h EXCEPT ![Len(h)] = q]) = Len(h)
         /\ [h EXCEPT ![Len(h)] = q][Len(h)] = q
         /\ \A i \in 1 .. Len(h) : i # Len(h) => [h EXCEPT ![Len(h)] = q][i] = h[i]
OBVIOUS

---------------------------------------------------------------------------
(* The invariant of the walk *)

IsGray(c, s) == s \in DOMAIN c /\ c[s] = "gray"
IsBlack(c, s) == s \in DOMAIN c /\ c[s] = "black"

\* A set has one of two colours, a visit has left only what its set reads.
WalkTypes(D, R, c, h) ==
  /\ DOMAIN c \subseteq D
  /\ \A s \in DOMAIN c : c[s] \in {"gray", "black"}
  /\ h \in Seq([set : D, left : SUBSET D])
  /\ \A i \in 1 .. Len(h) : h[i].left \subseteq R[h[i].set]

\* The gray sets are those under way, each once.
GrayIsUnderWay(c, h) ==
  /\ \A i \in 1 .. Len(h) : IsGray(c, h[i].set)
  /\ \A i, j \in 1 .. Len(h) : h[i].set = h[j].set => i = j
  /\ \A s \in DOMAIN c : c[s] = "gray" => \E i \in 1 .. Len(h) : h[i].set = s

\* Each visit was started by the one below it.
VisitsLead(R, h) == \A i \in 1 .. Len(h) - 1 : h[i + 1].set \in R[h[i].set]

\* What a visit has read is finished, but for the visit above it.
ReadsAreFinished(R, c, h) ==
  \A i \in 1 .. Len(h) : \A t \in R[h[i].set] :
    \/ t \in h[i].left
    \/ IsBlack(c, t)
    \/ i < Len(h) /\ t = h[i + 1].set

\* A finished set reads finished sets.
BlackReadsBlack(R, c) == \A s, t : IsBlack(c, s) /\ t \in R[s] => IsBlack(c, t)

\* Of any finished sets, one reads none of them.
BlackHasNoCycle(R, c) ==
  \A S : S # {} /\ (\A s \in S : IsBlack(c, s)) => \E s \in S : R[s] \intersect S = {}

Walk(D, R, c, h) ==
  /\ WalkTypes(D, R, c, h)
  /\ GrayIsUnderWay(c, h)
  /\ VisitsLead(R, h)
  /\ ReadsAreFinished(R, c, h)
  /\ BlackReadsBlack(R, c)
  /\ BlackHasNoCycle(R, c)

ReadsOf == [s \in Derived |-> Reads(s)]

\* What a refusal for a cycle of index sets says.
RefusalIsReal ==
  fault # None /\ fault.kind = "set cycle" =>
    /\ Closes(fault.path, LAMBDA s, t : t \in Reads(s))
    /\ Head(fault.path) = Last(fault.path)

WalkInv ==
  /\ model \in Models
  /\ Walk(Derived, ReadsOf, colour, chain)
  /\ phase \in {"outputs", "done"} => \A s \in Derived : IsBlack(colour, s)
  /\ RefusalIsReal
---------------------------------------------------------------------------
(* The operations on the walk *)

\* As ReadsAreFinished, but that the last visit is about to look at s.
ReadsAreFinishedBut(R, c, h, s) ==
  \A i \in 1 .. Len(h) : \A t \in R[h[i].set] :
    \/ t \in h[i].left
    \/ IsBlack(c, t)
    \/ i < Len(h) /\ t = h[i + 1].set
    \/ i = Len(h) /\ t = s

Painted(c, s, col) == [x \in DOMAIN c \union {s} |-> IF x = s THEN col ELSE c[x]]

TakenOff(h, s) == [h EXCEPT ![Len(h)].left = @ \ {s}]

\* Taking s off what the last visit has left to read.
LEMMA TakeOff ==
  ASSUME NEW D, NEW R \in [D -> SUBSET D], NEW c, NEW h, NEW s,
         Walk(D, R, c, h), Len(h) > 0, s \in h[Len(h)].left
  PROVE  /\ WalkTypes(D, R, c, TakenOff(h, s))
         /\ GrayIsUnderWay(c, TakenOff(h, s))
         /\ VisitsLead(R, TakenOff(h, s))
         /\ ReadsAreFinishedBut(R, c, TakenOff(h, s), s)
         /\ Len(TakenOff(h, s)) = Len(h)
         /\ s \in D /\ s \in R[TakenOff(h, s)[Len(h)].set]
<1> DEFINE g == TakenOff(h, s)
           F == [set : D, left : SUBSET D]
           q == [h[Len(h)] EXCEPT !.left = @ \ {s}]
<1>1. h \in Seq(F) /\ Len(h) \in Nat
  BY DEF Walk, WalkTypes
<1> HIDE DEF F
<1>2. h[Len(h)] \in F
  BY <1>1, LastReplaced
<1>3. /\ h[Len(h)] \in [set : D, left : SUBSET D]
      /\ q \in F
      /\ q.set = h[Len(h)].set
      /\ q.left = h[Len(h)].left \ {s}
  BY <1>2 DEF F
<1>4. g = [h EXCEPT ![Len(h)] = q]
  BY DEF TakenOff
<1> HIDE DEF g, q
<1>5. /\ Len(g) = Len(h)
      /\ \A i \in 1 .. Len(h) : i # Len(h) => g[i] = h[i]
      /\ g[Len(h)] = q
      /\ g \in Seq(F)
  BY <1>1, <1>3, <1>4, LastReplaced
<1>6. \A i \in 1 .. Len(h) : g[i].set = h[i].set
  BY <1>3, <1>5
<1>7. WalkTypes(D, R, c, g)
  BY <1>1, <1>3, <1>5 DEF Walk, WalkTypes, F
<1>8. GrayIsUnderWay(c, g)
  BY <1>1, <1>5, <1>6 DEF Walk, GrayIsUnderWay
<1>9. VisitsLead(R, g)
  BY <1>1, <1>5, <1>6 DEF Walk, VisitsLead
<1>10. ReadsAreFinishedBut(R, c, g, s)
  <2> SUFFICES ASSUME NEW i \in 1 .. Len(h), NEW t \in R[h[i].set]
               PROVE  \/ t \in g[i].left \/ IsBlack(c, t)
                      \/ (i < Len(h) /\ t = g[i + 1].set) \/ (i = Len(h) /\ t = s)
    BY <1>5, <1>6 DEF ReadsAreFinishedBut
  <2>1. t \in h[i].left \/ IsBlack(c, t) \/ (i < Len(h) /\ t = h[i + 1].set)
    BY DEF Walk, ReadsAreFinished
  <2>2. CASE i = Len(h)
    BY <2>1, <2>2, <1>1, <1>3, <1>5
  <2>3. CASE i # Len(h)
    <3>1. i + 1 \in 1 .. Len(h)
      BY <2>3, <1>1
    <3> QED
      BY <2>1, <2>3, <3>1, <1>5, <1>6
  <2> QED
    BY <2>2, <2>3
<1>11. s \in D /\ s \in R[g[Len(h)].set]
  BY <1>1, <1>3, <1>5, <1>6 DEF Walk, WalkTypes, F
<1> QED
  BY <1>5, <1>7, <1>8, <1>9, <1>10, <1>11 DEF g

\* Looking at a finished set.
LEMMA SkipFinished ==
  ASSUME NEW D, NEW R \in [D -> SUBSET D], NEW c, NEW h, NEW s,
         Walk(D, R, c, h), Len(h) > 0, s \in h[Len(h)].left, IsBlack(c, s)
  PROVE  Walk(D, R, c, TakenOff(h, s))
<1>1. /\ ReadsAreFinishedBut(R, c, TakenOff(h, s), s)
      /\ Len(TakenOff(h, s)) = Len(h)
  BY TakeOff
<1>2. ReadsAreFinished(R, c, TakenOff(h, s))
  BY <1>1 DEF ReadsAreFinishedBut, ReadsAreFinished
<1> QED
  BY <1>2, TakeOff DEF Walk

\* Visiting a set never seen: a first one, or one that the last visit reads.
LEMMA VisitNew ==
  ASSUME NEW D, NEW R \in [D -> SUBSET D], NEW c, NEW h, NEW s \in D,
         WalkTypes(D, R, c, h), GrayIsUnderWay(c, h), VisitsLead(R, h),
         ReadsAreFinishedBut(R, c, h, s), BlackReadsBlack(R, c), BlackHasNoCycle(R, c),
         Len(h) > 0 => s \in R[h[Len(h)].set],
         s \notin DOMAIN c
  PROVE  Walk(D, R, Painted(c, s, "gray"), Append(h, [set |-> s, left |-> R[s]]))
<1> DEFINE f == [set |-> s, left |-> R[s]]
           g == Append(h, f)
           k == Painted(c, s, "gray")
<1>1. h \in Seq([set : D, left : SUBSET D]) /\ Len(h) \in Nat
  BY DEF WalkTypes
<1>2. f \in [set : D, left : SUBSET D]
  OBVIOUS
<1>3. /\ g \in Seq([set : D, left : SUBSET D])
      /\ Len(g) = Len(h) + 1
      /\ \A i \in 1 .. Len(h) : g[i] = h[i]
      /\ g[Len(h) + 1].set = s /\ g[Len(h) + 1].left = R[s]
  BY <1>1, <1>2
<1>4. /\ DOMAIN k = DOMAIN c \union {s}
      /\ \A x \in DOMAIN c : k[x] = c[x]
      /\ k[s] = "gray"
  BY DEF Painted
<1>5. \A x : IsBlack(k, x) <=> IsBlack(c, x)
  BY <1>4 DEF IsBlack
<1>6. \A i \in 1 .. Len(h) : h[i].set \in DOMAIN c
  BY DEF GrayIsUnderWay, IsGray
<1> HIDE DEF f, g, k
<1>7. WalkTypes(D, R, k, g)
  <2>1. DOMAIN k \subseteq D /\ \A x \in DOMAIN k : k[x] \in {"gray", "black"}
    BY <1>4 DEF WalkTypes
  <2>2. ASSUME NEW i \in 1 .. Len(g) PROVE g[i].left \subseteq R[g[i].set]
    BY <1>1, <1>3 DEF WalkTypes
  <2> QED
    BY <1>3, <2>1, <2>2 DEF WalkTypes
<1>8. GrayIsUnderWay(k, g)
  <2>1. ASSUME NEW i \in 1 .. Len(g) PROVE IsGray(k, g[i].set)
    BY <1>1, <1>3, <1>4 DEF GrayIsUnderWay, IsGray
  <2>2. ASSUME NEW i \in 1 .. Len(g), NEW j \in 1 .. Len(g), g[i].set = g[j].set
        PROVE  i = j
    BY <2>2, <1>1, <1>3, <1>6 DEF GrayIsUnderWay
  <2>3. ASSUME NEW x \in DOMAIN k, k[x] = "gray" PROVE \E i \in 1 .. Len(g) : g[i].set = x
    <3>1. CASE x = s
      BY <3>1, <1>1, <1>3
    <3>2. CASE x # s
      <4>1. PICK i \in 1 .. Len(h) : h[i].set = x
        BY <2>3, <3>2, <1>4 DEF GrayIsUnderWay
      <4> QED
        BY <4>1, <1>1, <1>3
    <3> QED
      BY <3>1, <3>2
  <2> QED
    BY <2>1, <2>2, <2>3 DEF GrayIsUnderWay
<1>9. VisitsLead(R, g)
  BY <1>1, <1>3 DEF VisitsLead
<1>10. ReadsAreFinished(R, k, g)
  <2> SUFFICES ASSUME NEW i \in 1 .. Len(g), NEW t \in R[g[i].set]
               PROVE  t \in g[i].left \/ IsBlack(k, t) \/ (i < Len(g) /\ t = g[i + 1].set)
    BY DEF ReadsAreFinished
  <2>1. CASE i = Len(h) + 1
    BY <2>1, <1>3
  <2>2. CASE i \in 1 .. Len(h)
    BY <2>2, <1>1, <1>3, <1>5 DEF ReadsAreFinishedBut
  <2> QED
    BY <2>1, <2>2, <1>1, <1>3
<1>11. BlackReadsBlack(R, k)
  BY <1>5 DEF BlackReadsBlack
<1>12. BlackHasNoCycle(R, k)
  BY <1>5 DEF BlackHasNoCycle
<1> QED
  BY <1>7, <1>8, <1>9, <1>10, <1>11, <1>12 DEF Walk, f, g, k

\* Finishing the last visit, with nothing left to read.
LEMMA FinishLast ==
  ASSUME NEW D, NEW R \in [D -> SUBSET D], NEW c, NEW h,
         Walk(D, R, c, h), Len(h) > 0, h[Len(h)].left = {}
  PROVE  Walk(D, R, Painted(c, h[Len(h)].set, "black"), SubSeq(h, 1, Len(h) - 1))
<1> DEFINE n == Len(h)
           s == h[n].set
           F == [set : D, left : SUBSET D]
           g == SubSeq(h, 1, n - 1)
           k == Painted(c, s, "black")
<1>1. h \in Seq(F) /\ n \in Nat /\ n > 0 /\ n \in 1 .. n
  BY DEF Walk, WalkTypes
<1> HIDE DEF F
<1>2. /\ g \in Seq(F)
      /\ Len(g) = n - 1
      /\ \A i \in 1 .. n - 1 : g[i] = h[i]
  BY <1>1, AllButLast
<1>3. IsGray(c, s) /\ s \in D
  BY <1>1 DEF Walk, WalkTypes, GrayIsUnderWay, IsGray
<1>4. /\ DOMAIN k = DOMAIN c
      /\ \A x \in DOMAIN c : x # s => k[x] = c[x]
      /\ k[s] = "black"
  BY <1>3 DEF Painted, IsGray
<1>5. \A x : IsBlack(k, x) <=> (IsBlack(c, x) \/ x = s)
  BY <1>3, <1>4 DEF IsBlack, IsGray
<1>6. \A i \in 1 .. n - 1 : h[i].set # s
  BY <1>1 DEF Walk, GrayIsUnderWay
<1>7. \A t \in R[s] : IsBlack(c, t)
  BY <1>1 DEF Walk, ReadsAreFinished
<1>8. ~IsBlack(c, s)
  BY <1>3 DEF IsGray, IsBlack
<1> HIDE DEF g, k, s, n
<1>9. WalkTypes(D, R, k, g)
  <2>1. DOMAIN k \subseteq D /\ \A x \in DOMAIN k : k[x] \in {"gray", "black"}
    BY <1>4 DEF Walk, WalkTypes
  <2>2. ASSUME NEW i \in 1 .. Len(g) PROVE g[i].left \subseteq R[g[i].set]
    <3>1. \A m \in 1 .. n : h[m].left \subseteq R[h[m].set]
      BY DEF Walk, WalkTypes, n
    <3>2. i \in 1 .. n - 1 /\ i \in 1 .. n
      BY <1>1, <1>2
    <3> QED
      BY <1>2, <3>1, <3>2
  <2> QED
    BY <1>2, <2>1, <2>2 DEF WalkTypes, F
<1>10. GrayIsUnderWay(k, g)
  <2>1. ASSUME NEW i \in 1 .. Len(g) PROVE IsGray(k, g[i].set)
    BY <1>1, <1>2, <1>4, <1>6 DEF Walk, GrayIsUnderWay, IsGray, n
  <2>2. ASSUME NEW i \in 1 .. Len(g), NEW j \in 1 .. Len(g), g[i].set = g[j].set
        PROVE  i = j
    BY <2>2, <1>1, <1>2 DEF Walk, GrayIsUnderWay, n
  <2>3. ASSUME NEW x \in DOMAIN k, k[x] = "gray" PROVE \E i \in 1 .. Len(g) : g[i].set = x
    <3>1. x # s /\ c[x] = "gray" /\ x \in DOMAIN c
      BY <2>3, <1>4
    <3>2. PICK i \in 1 .. n : h[i].set = x
      BY <3>1 DEF Walk, GrayIsUnderWay, n
    <3>3. i \in 1 .. n - 1
      BY <3>1, <3>2, <1>1 DEF s
    <3> QED
      BY <3>2, <3>3, <1>2
  <2> QED
    BY <2>1, <2>2, <2>3 DEF GrayIsUnderWay
<1>11. VisitsLead(R, g)
  <2> SUFFICES ASSUME NEW i \in 1 .. n - 2 PROVE g[i + 1].set \in R[g[i].set]
    BY <1>1, <1>2 DEF VisitsLead
  <2>1. i \in 1 .. n - 1 /\ i + 1 \in 1 .. n - 1
    BY <1>1
  <2>2. h[i + 1].set \in R[h[i].set]
    BY <2>1 DEF Walk, VisitsLead, n
  <2> QED
    BY <2>1, <2>2, <1>2
<1>12. ReadsAreFinished(R, k, g)
  <2> SUFFICES ASSUME NEW i \in 1 .. n - 1, NEW t \in R[h[i].set]
               PROVE  t \in h[i].left \/ IsBlack(k, t) \/ (i < n - 1 /\ t = h[i + 1].set)
    BY <1>1, <1>2 DEF ReadsAreFinished
  <2>1. t \in h[i].left \/ IsBlack(c, t) \/ t = h[i + 1].set
    BY <1>1 DEF Walk, ReadsAreFinished, n
  <2>2. i = n - 1 => h[i + 1].set = s
    BY <1>1 DEF s
  <2> QED
    BY <2>1, <2>2, <1>1, <1>5
<1>13. BlackReadsBlack(R, k)
  BY <1>5, <1>7 DEF Walk, BlackReadsBlack
<1>14. BlackHasNoCycle(R, k)
  <2> SUFFICES ASSUME NEW S, S # {}, \A x \in S : IsBlack(k, x)
               PROVE  \E x \in S : R[x] \intersect S = {}
    BY DEF BlackHasNoCycle
  <2>1. CASE S \ {s} = {}
    <3>1. S = {s}
      BY <2>1
    <3> QED
      BY <3>1, <1>7, <1>8
  <2>2. CASE S \ {s} # {}
    <3>1. \A x \in S \ {s} : IsBlack(c, x)
      BY <1>5
    <3>2. PICK x \in S \ {s} : R[x] \intersect (S \ {s}) = {}
      BY <2>2, <3>1 DEF Walk, BlackHasNoCycle
    <3>3. \A t \in R[x] : IsBlack(c, t)
      BY <3>1, <3>2 DEF Walk, BlackReadsBlack
    <3>4. s \notin R[x]
      BY <3>3, <1>8
    <3> QED
      BY <3>2, <3>4
  <2> QED
    BY <2>1, <2>2
<1> QED
  BY <1>9, <1>10, <1>11, <1>12, <1>13, <1>14 DEF Walk, g, k, s, n

\* A sequence from its a-th element on, and one element more.
LEMMA TailAndOne ==
  ASSUME NEW F, NEW t \in Seq(F), NEW a \in 1 .. Len(t), NEW q \in F
  PROVE  /\ Append(SubSeq(t, a, Len(t)), q) \in Seq(F)
         /\ Len(Append(SubSeq(t, a, Len(t)), q)) = Len(t) - a + 2
         /\ Append(SubSeq(t, a, Len(t)), q)[Len(t) - a + 2] = q
         /\ \A i \in 1 .. Len(t) - a + 1 :
              Append(SubSeq(t, a, Len(t)), q)[i] = t[a + i - 1]
<1> DEFINE n == Len(t)
           u == SubSeq(t, a, n)
<1>1. n \in Nat /\ a \in 1 .. n /\ \A i \in a .. n : t[i] \in F
  OBVIOUS
<1>2. a \in Int /\ n \in Int /\ a <= n
  BY <1>1
<1> HIDE DEF n
<1>3. u \in Seq(F) /\ Len(u) = n - a + 1 /\ \A i \in 1 .. n - a + 1 : u[i] = t[a + i - 1]
  BY <1>1, <1>2, SubSeqProperties
<1> HIDE DEF u
<1>4. /\ Append(u, q) \in Seq(F)
      /\ Len(Append(u, q)) = Len(u) + 1
      /\ Append(u, q)[Len(u) + 1] = q
      /\ \A i \in 1 .. Len(u) : Append(u, q)[i] = u[i]
  BY <1>3
<1>5. n - a + 1 + 1 = n - a + 2
  BY <1>2
<1> QED
  BY <1>3, <1>4, <1>5 DEF u, n

\* The last visit of h is about to look at s, which is under way at a.
MeetsItself(h, s, a) ==
  /\ Len(h) > 0 /\ s \in h[Len(h)].left
  /\ a \in 1 .. Len(h) /\ h[a].set = s

\* P is the sets of the visits from a on, and s again.
Rounds(D, h, s, a, names, P) ==
  /\ names \in Seq(D) /\ Len(names) = Len(h)
  /\ \A i \in 1 .. Len(h) : names[i] = h[i].set
  /\ P = Append(SubSeq(names, a, Len(names)), s)

\* P is a path of sets that read each other, from s to s.
RealCycle(D, R, s, P) ==
  /\ Len(P) \in Nat /\ Len(P) > 1 /\ P \in Seq(D)
  /\ P[1] = s /\ P[Len(P)] = s
  /\ \A i \in 1 .. Len(P) - 1 : P[i] \in D /\ P[i + 1] \in R[P[i]]

\* The path a refusal names is a real one.
LEMMA CyclePath ==
  ASSUME NEW D, NEW R \in [D -> SUBSET D], NEW c, NEW h, NEW s, NEW a, NEW names, NEW P,
         Walk(D, R, c, h), MeetsItself(h, s, a), Rounds(D, h, s, a, names, P)
  PROVE  RealCycle(D, R, s, P)
<1> DEFINE F == [set : D, left : SUBSET D]
           n == Len(h)
           m == n - a + 1
<1>0. /\ Len(h) > 0 /\ s \in h[Len(h)].left /\ a \in 1 .. Len(h) /\ h[a].set = s
      /\ names \in Seq(D) /\ Len(names) = Len(h)
      /\ \A i \in 1 .. Len(h) : names[i] = h[i].set
      /\ P = Append(SubSeq(names, a, Len(names)), s)
  BY DEF MeetsItself, Rounds
<1>1. h \in Seq(F) /\ n \in Nat /\ n \in 1 .. n /\ a \in 1 .. n
  BY <1>0 DEF Walk, WalkTypes
<1>2. ASSUME NEW i \in 1 .. n PROVE h[i].set \in D
  <2> HIDE DEF F
  <2>1. h[i] \in F
    BY <1>1
  <2> QED
    BY <2>1 DEF F
<1>3. names \in Seq(D) /\ Len(names) = n /\ \A i \in 1 .. n : names[i] = h[i].set
  BY <1>0
<1>4. s \in D /\ s \in R[names[n]]
  BY <1>0, <1>1, <1>2, <1>3 DEF Walk, WalkTypes
<1>5. \A i \in 1 .. n - 1 : names[i + 1] \in R[names[i]]
  BY <1>1, <1>3 DEF Walk, VisitsLead
<1>6. P = Append(SubSeq(names, a, Len(names)), s) /\ names[a] = s
  BY <1>0, <1>1, <1>3
<1> HIDE DEF F, n
<1>7. m \in Nat /\ m > 0 /\ n - a + 2 = m + 1
  BY <1>1
<1>8. s \in D /\ a \in 1 .. Len(names)
  BY <1>1, <1>3, <1>4
<1>9. /\ P \in Seq(D) /\ Len(P) = m + 1
      /\ \A i \in 1 .. m : P[i] = names[a + i - 1]
      /\ P[m + 1] = s
  <2> DEFINE T == Append(SubSeq(names, a, Len(names)), s)
  <2>0. names \in Seq(D) /\ a \in 1 .. Len(names) /\ s \in D
    BY <1>3, <1>8
  <2>1. /\ T \in Seq(D)
        /\ Len(T) = Len(names) - a + 2
        /\ T[Len(names) - a + 2] = s
        /\ \A i \in 1 .. Len(names) - a + 1 : T[i] = names[a + i - 1]
    BY ONLY <2>0, TailAndOne DEF T
  <2> HIDE DEF T
  <2>2. P = T /\ Len(names) - a + 2 = m + 1 /\ Len(names) - a + 1 = m
    BY <1>3, <1>6, <1>7 DEF T, m
  <2> QED
    BY <2>1, <2>2
<1> HIDE DEF m
<1>10. P[1] = s
  <2>1. 1 \in 1 .. m /\ a + 1 - 1 = a
    BY <1>1, <1>7
  <2>2. P[1] = names[a + 1 - 1]
    BY <2>1, <1>9
  <2> QED
    BY <2>1, <2>2, <1>6
<1>11. ASSUME NEW i \in 1 .. m PROVE P[i] \in D /\ P[i + 1] \in R[P[i]]
  <2>0. a + i - 1 \in 1 .. n
    BY <1>1 DEF m
  <2>1. P[i] = names[a + i - 1] /\ a + i - 1 \in 1 .. n
    BY <2>0, <1>9
  <2>2. P[i] \in D
    BY <2>1, <1>2, <1>3
  <2>3. CASE i = m
    <3>1. a + i - 1 = n
      BY <2>3, <1>1 DEF m
    <3> QED
      BY <2>1, <2>2, <2>3, <3>1, <1>4, <1>9
  <2>4. CASE i # m
    <3>1. i + 1 \in 1 .. m /\ a + i - 1 \in 1 .. n - 1 /\ a + (i + 1) - 1 = (a + i - 1) + 1
      BY <2>4, <1>1, <1>7 DEF m
    <3>2. names[(a + i - 1) + 1] \in R[names[a + i - 1]]
      BY <3>1, <1>5
    <3>3. P[i + 1] = names[(a + i - 1) + 1]
      BY <3>1, <1>9
    <3> QED
      BY <2>1, <2>2, <3>2, <3>3
  <2> QED
    BY <2>3, <2>4
<1>12. Len(P) \in Nat /\ Len(P) > 1 /\ Len(P) - 1 = m
  BY <1>7, <1>9
<1> QED
  BY <1>9, <1>10, <1>11, <1>12 DEF RealCycle

---------------------------------------------------------------------------
(* The pass keeps the invariant *)

LEMMA ReadsOfTypes ==
  ASSUME model \in Models
  PROVE  /\ ReadsOf \in [Derived -> SUBSET Derived]
         /\ Derived \subseteq Nat
BY CadenceAssumption DEF ReadsOf, Reads, Derived

LEMMA WalkStarts == Init => WalkInv
<1> SUFFICES ASSUME Init PROVE WalkInv
  OBVIOUS
<1>1. model \in Models /\ colour = << >> /\ chain = << >> /\ phase = "expect" /\ fault = None
  BY DEF Init
<1>2. Len(chain) = 0 /\ DOMAIN colour = {}
  BY <1>1
<1>3. \A s : ~IsBlack(colour, s)
  BY <1>2 DEF IsBlack
<1>4. WalkTypes(Derived, ReadsOf, colour, chain)
  BY <1>1, <1>2 DEF WalkTypes
<1>5. GrayIsUnderWay(colour, chain)
  BY <1>2 DEF GrayIsUnderWay
<1>6. VisitsLead(ReadsOf, chain) /\ ReadsAreFinished(ReadsOf, colour, chain)
  BY <1>2 DEF VisitsLead, ReadsAreFinished
<1>7. BlackReadsBlack(ReadsOf, colour) /\ BlackHasNoCycle(ReadsOf, colour)
  BY <1>3 DEF BlackReadsBlack, BlackHasNoCycle
<1> QED
  BY <1>1, <1>4, <1>5, <1>6, <1>7 DEF WalkInv, Walk, RefusalIsReal

LEMMA SameGraph ==
  ASSUME model' = model
  PROVE  Derived' = Derived /\ ReadsOf' = ReadsOf
BY DEF Derived, ReadsOf, Reads

\* A refusal that stands, or one for something else.
LEMMA RefusalStands ==
  ASSUME RefusalIsReal, model' = model,
         fault' = fault \/ fault'.kind # "set cycle"
  PROVE  RefusalIsReal'
BY DEF RefusalIsReal, Closes, Last, Reads, Derived

\* A step that leaves the walk alone.
LEMMA WalkAside ==
  ASSUME WalkInv, UNCHANGED <<model, colour, chain>>,
         fault' = fault \/ fault'.kind # "set cycle",
         phase' \in {"outputs", "done"} => phase \in {"outputs", "done"}
  PROVE  WalkInv'
<1>1. Derived' = Derived /\ ReadsOf' = ReadsOf
  BY SameGraph
<1>2. RefusalIsReal'
  BY RefusalStands DEF WalkInv
<1>3. Walk(Derived, ReadsOf, colour, chain)'
  BY <1>1 DEF WalkInv
<1>4. (phase \in {"outputs", "done"} => \A s \in Derived : IsBlack(colour, s))'
  BY <1>1 DEF WalkInv
<1> QED
  BY <1>2, <1>3, <1>4 DEF WalkInv

\* A step of the walk that refuses nothing.
LEMMA WalkOn ==
  ASSUME WalkInv, model' = model, fault' = fault, phase' = "sets",
         Walk(Derived, ReadsOf, colour', chain')
  PROVE  WalkInv'
<1>1. Derived' = Derived /\ ReadsOf' = ReadsOf
  BY SameGraph
<1>2. RefusalIsReal'
  BY RefusalStands DEF WalkInv
<1>3. Walk(Derived, ReadsOf, colour, chain)'
  BY <1>1
<1> QED
  BY <1>2, <1>3 DEF WalkInv

LEMMA StartVisitKeeps == ASSUME WalkInv, StartVisit PROVE WalkInv'
<1> DEFINE s == Min(Derived \ DOMAIN colour)
<1>1. ReadsOf \in [Derived -> SUBSET Derived] /\ Derived \subseteq Nat
  BY ReadsOfTypes DEF WalkInv
<1>2. /\ phase = "sets" /\ chain = << >> /\ Derived \ DOMAIN colour # {}
      /\ UNCHANGED <<model, phase, fault>>
      /\ colour' = Painted(colour, s, "gray")
      /\ chain' = Append(chain, [set |-> s, left |-> Reads(s)])
  BY DEF StartVisit, Visit, Paint, Painted
<1>3. s \in Derived \ DOMAIN colour
  BY <1>1, <1>2, LeastIsMember
<1> HIDE DEF s
<1>4. Reads(s) = ReadsOf[s]
  BY <1>3 DEF ReadsOf
<1>5. Len(chain) = 0
  BY <1>2
<1>6. ReadsAreFinishedBut(ReadsOf, colour, chain, s)
  BY <1>5 DEF ReadsAreFinishedBut
<1>7. Walk(Derived, ReadsOf, colour, chain)
  BY DEF WalkInv
<1>8. /\ WalkTypes(Derived, ReadsOf, colour, chain) /\ GrayIsUnderWay(colour, chain)
      /\ VisitsLead(ReadsOf, chain) /\ BlackReadsBlack(ReadsOf, colour)
      /\ BlackHasNoCycle(ReadsOf, colour)
  BY <1>7 DEF Walk
<1>9. /\ ReadsOf \in [Derived -> SUBSET Derived] /\ s \in Derived /\ s \notin DOMAIN colour
      /\ (Len(chain) > 0 => s \in ReadsOf[chain[Len(chain)].set])
  BY <1>1, <1>3, <1>5
<1>10. Walk(Derived, ReadsOf, Painted(colour, s, "gray"),
            Append(chain, [set |-> s, left |-> ReadsOf[s]]))
  BY ONLY <1>6, <1>8, <1>9, VisitNew
<1>11. Walk(Derived, ReadsOf, colour', chain')
  BY <1>2, <1>4, <1>10
<1> QED
  BY <1>2, <1>11, WalkOn

LEMMA ReadNextKeeps == ASSUME WalkInv, ReadNext PROVE WalkInv'
<1> DEFINE n == Len(chain)
           s == Min(chain[n].left)
           rest == TakenOff(chain, s)
<1>1. ReadsOf \in [Derived -> SUBSET Derived] /\ Derived \subseteq Nat
  BY ReadsOfTypes DEF WalkInv
<1>2. /\ phase = "sets" /\ chain # << >> /\ chain[n].left # {}
      /\ model' = model
  BY DEF ReadNext, Last
<1>3. Walk(Derived, ReadsOf, colour, chain)
  BY DEF WalkInv
<1>4. n \in Nat /\ n > 0
  BY <1>2, <1>3 DEF Walk, WalkTypes
<1>5. chain[n] \in [set : Derived, left : SUBSET Derived]
  <2> DEFINE F == [set : Derived, left : SUBSET Derived]
  <2>1. chain \in Seq(F)
    BY <1>3 DEF Walk, WalkTypes
  <2> HIDE DEF F
  <2>2. chain[n] \in F
    BY <1>4, <2>1, LastReplaced
  <2> QED
    BY <2>2 DEF F
<1>6. s \in chain[n].left
  BY <1>1, <1>2, <1>5, LeastIsMember
<1>7. \/ /\ s \notin DOMAIN colour
         /\ colour' = Painted(colour, s, "gray")
         /\ chain' = Append(rest, [set |-> s, left |-> Reads(s)])
         /\ UNCHANGED <<phase, fault>>
      \/ /\ IsBlack(colour, s)
         /\ chain' = rest
         /\ UNCHANGED <<phase, colour, fault>>
      \/ /\ IsGray(colour, s)
         /\ phase' = "failed"
         /\ fault' = [kind |-> "set cycle",
                      path |-> Append(SubSeq([i \in DOMAIN chain |-> chain[i].set],
                                 CHOOSE i \in DOMAIN chain :
                                   [j \in DOMAIN chain |-> chain[j].set][i] = s,
                                 Len([i \in DOMAIN chain |-> chain[i].set])), s)]
         /\ UNCHANGED <<colour, chain>>
  BY DEF ReadNext, Last, Visit, Paint, Painted, TakenOff, Fail, IsBlack, IsGray
<1> HIDE DEF n, s, rest
<1>8. /\ WalkTypes(Derived, ReadsOf, colour, rest)
      /\ GrayIsUnderWay(colour, rest)
      /\ VisitsLead(ReadsOf, rest)
      /\ ReadsAreFinishedBut(ReadsOf, colour, rest, s)
      /\ Len(rest) = n
      /\ s \in Derived /\ s \in ReadsOf[rest[n].set]
  BY <1>1, <1>3, <1>4, <1>6, TakeOff DEF n, rest
<1>9. CASE /\ s \notin DOMAIN colour
           /\ colour' = Painted(colour, s, "gray")
           /\ chain' = Append(rest, [set |-> s, left |-> Reads(s)])
           /\ UNCHANGED <<phase, fault>>
  <2>1. Reads(s) = ReadsOf[s]
    BY <1>8 DEF ReadsOf
  <2>2. BlackReadsBlack(ReadsOf, colour) /\ BlackHasNoCycle(ReadsOf, colour)
    BY <1>3 DEF Walk
  <2>3. Walk(Derived, ReadsOf, colour', chain')
    BY <1>1, <1>8, <1>9, <2>1, <2>2, VisitNew
  <2> QED
    BY <1>2, <1>9, <2>3, WalkOn
<1>10. CASE /\ IsBlack(colour, s)
            /\ chain' = rest
            /\ UNCHANGED <<phase, colour, fault>>
  <2>1. Walk(Derived, ReadsOf, colour', chain')
    BY <1>1, <1>3, <1>4, <1>6, <1>10, SkipFinished DEF n, rest
  <2> QED
    BY <1>2, <1>10, <2>1, WalkOn
<1>11. CASE /\ IsGray(colour, s)
            /\ phase' = "failed"
            /\ fault' = [kind |-> "set cycle",
                         path |-> Append(SubSeq([i \in DOMAIN chain |-> chain[i].set],
                                    CHOOSE i \in DOMAIN chain :
                                      [j \in DOMAIN chain |-> chain[j].set][i] = s,
                                    Len([i \in DOMAIN chain |-> chain[i].set])), s)]
            /\ UNCHANGED <<colour, chain>>
  <2> DEFINE a == CHOOSE i \in DOMAIN chain : [j \in DOMAIN chain |-> chain[j].set][i] = s
             P == Append(SubSeq([i \in DOMAIN chain |-> chain[i].set], a,
                                Len([i \in DOMAIN chain |-> chain[i].set])), s)
  <2>1. \E i \in 1 .. n : chain[i].set = s
    BY <1>3, <1>11 DEF Walk, GrayIsUnderWay, IsGray, n
  <2>2. DOMAIN chain = 1 .. n
    BY <1>3 DEF Walk, WalkTypes, n
  <2>3. a \in 1 .. n /\ chain[a].set = s
    BY <2>1, <2>2
  <2>4. fault' = [kind |-> "set cycle", path |-> P]
    BY <1>11
  <2> HIDE DEF a
  <2>5. /\ Len(P) \in Nat /\ Len(P) > 1 /\ P \in Seq(Derived)
        /\ P[1] = s /\ P[Len(P)] = s
        /\ \A i \in 1 .. Len(P) - 1 : P[i] \in Derived /\ P[i + 1] \in ReadsOf[P[i]]
    <3>1. ReadsOf \in [Derived -> SUBSET Derived]
      BY <1>1
    <3>2. MeetsItself(chain, s, a)
      BY <1>4, <1>6, <2>3 DEF n, MeetsItself
    <3> DEFINE names == [i \in DOMAIN chain |-> chain[i].set]
           F == [set : Derived, left : SUBSET Derived]
    <3>3. P = Append(SubSeq(names, a, Len(names)), s)
      OBVIOUS
    <3>4. chain \in Seq(F)
      BY <1>3 DEF Walk, WalkTypes
    <3>5. ASSUME NEW i \in 1 .. Len(chain) PROVE chain[i].set \in Derived
      <4> HIDE DEF F
      <4>1. chain[i] \in F
        BY <3>4
      <4> QED
        BY <4>1 DEF F
    <3>6. /\ names \in Seq(Derived) /\ Len(names) = Len(chain)
          /\ \A i \in 1 .. Len(chain) : names[i] = chain[i].set
      BY <3>4, <3>5
    <3> HIDE DEF P, names
    <3>7. Rounds(Derived, chain, s, a, names, P)
      BY <3>3, <3>6 DEF Rounds
    <3>8. RealCycle(Derived, ReadsOf, s, P)
      BY ONLY <1>3, <3>1, <3>2, <3>7, CyclePath
    <3> QED
      BY <3>8 DEF RealCycle
  <2> HIDE DEF P
  <2>6. \A i \in 1 .. Len(P) - 1 : P[i + 1] \in Reads(P[i])
    BY <2>5 DEF ReadsOf
  <2>7. Head(P) = P[1]
    BY <2>5
  <2>8. 1 \in 1 .. Len(P) - 1
    BY <2>5
  <2>9. fault'.path = P
    BY <2>4
  <2>10. RefusalIsReal'
    BY <1>2, <2>5, <2>6, <2>7, <2>8, <2>9 DEF RefusalIsReal, Closes, Last, Reads, Derived
  <2>11. Derived' = Derived /\ ReadsOf' = ReadsOf
    BY <1>2, SameGraph
  <2>12. Walk(Derived, ReadsOf, colour, chain)'
    BY <1>3, <1>11, <2>11
  <2> QED
    BY <1>2, <1>11, <2>10, <2>12 DEF WalkInv
<1> QED
  BY <1>7, <1>9, <1>10, <1>11

LEMMA EndVisitKeeps == ASSUME WalkInv, EndVisit PROVE WalkInv'
<1>1. ReadsOf \in [Derived -> SUBSET Derived]
  BY ReadsOfTypes DEF WalkInv
<1>2. /\ phase = "sets" /\ chain # << >> /\ chain[Len(chain)].left = {}
      /\ UNCHANGED <<model, phase, fault>>
      /\ colour' = Painted(colour, chain[Len(chain)].set, "black")
      /\ chain' = SubSeq(chain, 1, Len(chain) - 1)
  BY DEF EndVisit, Last, Front, Paint, Painted
<1>3. Walk(Derived, ReadsOf, colour, chain)
  BY DEF WalkInv
<1>4. Len(chain) > 0
  BY <1>2, <1>3 DEF Walk, WalkTypes
<1>5. Walk(Derived, ReadsOf, colour', chain')
  BY <1>1, <1>2, <1>3, <1>4, FinishLast
<1> QED
  BY <1>2, <1>5, WalkOn

LEMMA EndSetsKeeps == ASSUME WalkInv, EndSets PROVE WalkInv'
<1>1. /\ chain = << >> /\ Derived \subseteq DOMAIN colour
      /\ UNCHANGED <<model, colour, chain, fault>>
  BY DEF EndSets
<1>2. Derived' = Derived /\ ReadsOf' = ReadsOf
  BY <1>1, SameGraph
<1>3. RefusalIsReal'
  BY <1>1, RefusalStands DEF WalkInv
<1>4. Walk(Derived, ReadsOf, colour, chain)'
  BY <1>1, <1>2 DEF WalkInv
<1>5. ASSUME NEW s \in Derived PROVE IsBlack(colour, s)
  <2>1. s \in DOMAIN colour /\ colour[s] \in {"gray", "black"}
    BY <1>1 DEF WalkInv, Walk, WalkTypes
  <2>2. colour[s] # "gray"
    BY <1>1, <2>1 DEF WalkInv, Walk, GrayIsUnderWay
  <2> QED
    BY <2>1, <2>2 DEF IsBlack
<1>6. (\A s \in Derived : IsBlack(colour, s))'
  BY <1>1, <1>2, <1>5
<1> QED
  BY <1>1, <1>3, <1>4, <1>6 DEF WalkInv

LEMMA WalkStep == WalkInv /\ [Next]_vars => WalkInv'
<1> SUFFICES ASSUME WalkInv, [Next]_vars PROVE WalkInv'
  OBVIOUS
<1>1. CASE Ask \/ Pass \/ Descend \/ TakeSeed \/ TakeMemo \/ Resolve \/ Memoise
  <2>1. UNCHANGED <<model, phase, colour, chain, fault>>
    BY <1>1 DEF Ask, Pass, Descend, TakeSeed, TakeMemo, Resolve, Memoise
  <2> QED
    BY <2>1, WalkAside
<1>2. CASE RefuseCycle \/ RefuseLeaf
  <2>1. /\ UNCHANGED <<model, colour, chain>> /\ phase' = "failed"
        /\ \/ fault' = [kind |-> "observed cycle", path |-> Append(Resolving, Operand)]
           \/ fault' = [kind |-> "unexpected leaf", path |-> <<Operand>>]
    BY <1>2 DEF RefuseCycle, RefuseLeaf, Fail
  <2>2. fault'.kind \in {"observed cycle", "unexpected leaf"}
    <3>1. CASE fault' = [kind |-> "observed cycle", path |-> Append(Resolving, Operand)]
      BY <3>1
    <3>2. CASE fault' = [kind |-> "unexpected leaf", path |-> <<Operand>>]
      BY <3>2
    <3> QED
      BY <2>1, <3>1, <3>2
  <2>3. fault'.kind # "set cycle"
    BY <2>2
  <2> QED
    BY <2>1, <2>3, WalkAside
<1>3. CASE CheckExpect \/ Output
  <2>1. UNCHANGED <<model, phase, colour, chain, fault>>
    BY <1>3 DEF CheckExpect, Output
  <2> QED
    BY <2>1, WalkAside
<1>4. CASE CheckRelational
  <2>1. /\ UNCHANGED <<model, colour, chain>>
        /\ \/ UNCHANGED <<phase, fault>>
           \/ phase' = "failed" /\ fault' = [kind |-> "continuous relational", path |-> <<Top.of>>]
    BY <1>4 DEF CheckRelational, Fail
  <2>2. CASE UNCHANGED <<phase, fault>>
    BY <2>1, <2>2, WalkAside
  <2>3. CASE phase' = "failed" /\ fault' = [kind |-> "continuous relational", path |-> <<Top.of>>]
    <3>1. fault'.kind # "set cycle"
      BY <2>3
    <3> QED
      BY <2>1, <2>3, <3>1, WalkAside
  <2> QED
    BY <2>1, <2>2, <2>3
<1>5. CASE EndExpect
  <2>1. /\ UNCHANGED <<model, colour, chain>>
        /\ \/ phase' = "relational" /\ fault' = fault
           \/ phase' = "failed" /\ fault' = [kind |-> "expect mismatch", path |-> << >>]
    BY <1>5 DEF EndExpect, Fail
  <2>2. CASE phase' = "relational" /\ fault' = fault
    BY <2>1, <2>2, WalkAside
  <2>3. CASE phase' = "failed" /\ fault' = [kind |-> "expect mismatch", path |-> << >>]
    <3>1. fault'.kind # "set cycle"
      BY <2>3
    <3> QED
      BY <2>1, <2>3, <3>1, WalkAside
  <2> QED
    BY <2>1, <2>2, <2>3
<1>6. CASE EndRelational \/ EndOutputs
  <2>1. /\ UNCHANGED <<model, colour, chain, fault>>
        /\ phase' = "sets" \/ phase = "outputs"
    BY <1>6 DEF EndRelational, EndOutputs, RoundOver
  <2> QED
    BY <2>1, WalkAside
<1>7. CASE StartVisit
  BY <1>7, StartVisitKeeps
<1>8. CASE ReadNext
  BY <1>8, ReadNextKeeps
<1>9. CASE EndVisit
  BY <1>9, EndVisitKeeps
<1>10. CASE EndSets
  BY <1>10, EndSetsKeeps
<1>11. CASE Returned \/ UNCHANGED vars
  <2>1. UNCHANGED <<model, phase, colour, chain, fault>>
    BY <1>11 DEF Returned, vars
  <2> QED
    BY <2>1, WalkAside
<1> QED
  BY <1>1, <1>2, <1>3, <1>4, <1>5, <1>6, <1>7, <1>8, <1>9, <1>10, <1>11 DEF Next

(***************************************************************************)
(* For any model and any order of its names, the invariant of the walk     *)
(* holds: the visits under way are a path of sets that read each other,    *)
(* and the finished sets contain no cycle (assert_acyclic_index_sets).     *)
(***************************************************************************)
THEOREM WalkInvariant == Spec => []WalkInv
<1> QED
  BY WalkStarts, WalkStep, PTL DEF Spec

(***************************************************************************)
(* Guard 1, for any model: a partition is returned only when no derived    *)
(* index set needs itself, and a refusal names sets that really read each  *)
(* other and end where they began.                                         *)
(***************************************************************************)
THEOREM SetCyclesAreRefused == Spec => []SetCyclesRefused
<1>1. WalkInv => SetCyclesRefused
  <2> SUFFICES ASSUME WalkInv PROVE SetCyclesRefused
    OBVIOUS
  <2>1. ASSUME phase = "done", NEW S \in SUBSET Derived, S # {}
        PROVE  \E s \in S : Reads(s) \intersect S = {}
    <3>1. \A s \in S : IsBlack(colour, s)
      BY <2>1 DEF WalkInv
    <3>2. PICK s \in S : ReadsOf[s] \intersect S = {}
      BY <2>1, <3>1 DEF WalkInv, Walk, BlackHasNoCycle
    <3> QED
      BY <3>2 DEF ReadsOf
  <2> QED
    BY <2>1 DEF SetCyclesRefused, WalkInv, RefusalIsReal
<1> QED
  BY <1>1, WalkInvariant, PTL

-----------------------------------------------------------------------------
(* The memo of classes *)

Expressions == Leaves \union Nodes

---------------------------------------------------------------------------
(* Joins *)

LEMMA JoinBounds ==
  ASSUME NEW S \in SUBSET Classes
  PROVE  /\ Join(S) \in Classes
         /\ Join(S) \in S \union {Const}
         /\ \A c \in S : c <= Join(S)
<1> DEFINE T == S \union {Const}
<1>1. T \subseteq {0, 1, 2} /\ 0 \in T
  BY DEF Classes, Const, Discrete, Continuous
<1>2. \E x \in T : \A y \in T : x >= y
  <2>1. CASE 2 \in T
    BY <1>1, <2>1
  <2>2. CASE 2 \notin T /\ 1 \in T
    BY <1>1, <2>2
  <2>3. CASE 2 \notin T /\ 1 \notin T
    BY <1>1, <2>3
  <2> QED
    BY <2>1, <2>2, <2>3
<1>3. Max(T) \in T /\ \A y \in T : Max(T) >= y
  BY <1>2 DEF Max
<1>4. Join(S) = Max(T)
  BY DEF Join
<1> HIDE DEF T
<1>5. Join(S) \in T /\ \A y \in T : Join(S) >= y
  BY <1>3, <1>4
<1>6. \A x : x \in T <=> x \in S \/ x = Const
  BY DEF T
<1>7. Join(S) \in Classes
  <2>1. Join(S) \in {0, 1, 2}
    BY <1>1, <1>5
  <2> QED
    BY <2>1 DEF Classes, Const, Continuous
<1>8. Join(S) \in S \union {Const}
  BY <1>5, <1>6
<1>9. ASSUME NEW c \in S PROVE c <= Join(S)
  <2>1. c \in T
    BY <1>6
  <2>2. c \in 0 .. 2
    BY <1>1, <2>1
  <2>3. Join(S) >= c /\ Join(S) \in 0 .. 2
    BY <1>5, <1>7, <2>1 DEF Classes, Const, Discrete, Continuous
  <2> QED
    BY <2>2, <2>3
<1> QED
  BY <1>7, <1>8, <1>9

LEMMA JoinOfUnion ==
  ASSUME NEW A \in SUBSET Classes, NEW B \in SUBSET Classes
  PROVE  Join(A \union B) = Join({Join(A), Join(B)})
<1>1. /\ Join(A) \in Classes /\ Join(A) \in A \union {Const} /\ \A c \in A : c <= Join(A)
      /\ Join(B) \in Classes /\ Join(B) \in B \union {Const} /\ \A c \in B : c <= Join(B)
  BY JoinBounds
<1>2. A \union B \in SUBSET Classes /\ {Join(A), Join(B)} \in SUBSET Classes
  BY <1>1
<1>3. /\ Join(A \union B) \in Classes /\ Join(A \union B) \in (A \union B) \union {Const}
      /\ \A c \in A \union B : c <= Join(A \union B)
  BY <1>2, JoinBounds
<1>4. /\ Join({Join(A), Join(B)}) \in Classes /\ Join({Join(A), Join(B)}) \in {Join(A), Join(B)} \union {Const}
      /\ \A c \in {Join(A), Join(B)} : c <= Join({Join(A), Join(B)})
  BY <1>2, JoinBounds
<1> QED
  BY <1>1, <1>3, <1>4 DEF Classes, Const, Discrete, Continuous

LEMMA JoinOfTwo ==
  ASSUME NEW a \in Classes, NEW b \in Classes
  PROVE  Join({a, b}) = IF a <= b THEN b ELSE a
<1>1. {a, b} \in SUBSET Classes
  OBVIOUS
<1>2. /\ Join({a, b}) \in Classes /\ Join({a, b}) \in {a, b} \union {Const}
      /\ \A c \in {a, b} : c <= Join({a, b})
  BY <1>1, JoinBounds
<1> QED
  BY <1>2 DEF Classes, Const, Discrete, Continuous

LEMMA JoinOfOne == ASSUME NEW a \in Classes PROVE Join({a}) = a
<1>1. /\ Join({a}) \in {a} \union {Const} /\ \A c \in {a} : c <= Join({a})
  BY JoinBounds
<1> QED
  BY <1>1 DEF Classes, Const, Discrete, Continuous

---------------------------------------------------------------------------
(* What is behind names *)

Table(d) ==
  /\ d.obs \subseteq d.names
  /\ d.reads \in [d.obs -> SUBSET d.names]
  /\ d.seed \in [d.names -> Classes]
  /\ d.leads \in [Expressions -> SUBSET d.names]
  /\ d.obs \subseteq Leaves
  /\ \A x \in Leaves : d.leads[x] = {x}

\* The observeds behind the names of S, all names behind them that are leaves,
\* and the class they make.
Below(d, S) ==
  {x \in d.obs : \A T \in SUBSET d.obs :
     S \intersect d.obs \subseteq T /\ (\A y \in T : d.reads[y] \intersect d.obs \subseteq T)
       => x \in T}
Seeds(d, S) == (S \union UNION {d.reads[y] : y \in Below(d, S)}) \ d.obs
Fast(d, S) == Join({d.seed[x] : x \in Seeds(d, S)})

LEMMA BelowIsClosed ==
  ASSUME NEW d, NEW S
  PROVE  /\ Below(d, S) \subseteq d.obs
         /\ S \intersect d.obs \subseteq Below(d, S)
         /\ \A y \in Below(d, S) : d.reads[y] \intersect d.obs \subseteq Below(d, S)
BY DEF Below

LEMMA BelowIsLeast ==
  ASSUME NEW d, NEW S, NEW T \in SUBSET d.obs, S \intersect d.obs \subseteq T,
         \A y \in T : d.reads[y] \intersect d.obs \subseteq T
  PROVE  Below(d, S) \subseteq T
BY DEF Below

LEMMA BelowUnion ==
  ASSUME NEW d, NEW A, NEW B
  PROVE  Below(d, A \union B) = Below(d, A) \union Below(d, B)
<1>1. Below(d, A \union B) \subseteq Below(d, A) \union Below(d, B)
  <2> DEFINE T == Below(d, A) \union Below(d, B)
  <2>1. /\ T \in SUBSET d.obs /\ (A \union B) \intersect d.obs \subseteq T
        /\ \A y \in T : d.reads[y] \intersect d.obs \subseteq T
    BY BelowIsClosed
  <2> HIDE DEF T
  <2>2. Below(d, A \union B) \subseteq T
    BY <2>1, BelowIsLeast
  <2> QED
    BY <2>2 DEF T
<1>2. Below(d, A) \subseteq Below(d, A \union B)
  BY BelowIsClosed, BelowIsLeast
<1>3. Below(d, B) \subseteq Below(d, A \union B)
  BY BelowIsClosed, BelowIsLeast
<1> QED
  BY <1>1, <1>2, <1>3

LEMMA BelowOne ==
  ASSUME NEW d, NEW x \in d.obs
  PROVE  Below(d, {x}) = {x} \union Below(d, d.reads[x])
<1>1. Below(d, {x}) \subseteq {x} \union Below(d, d.reads[x])
  <2> DEFINE T == {x} \union Below(d, d.reads[x])
  <2>1. /\ T \in SUBSET d.obs /\ {x} \intersect d.obs \subseteq T
        /\ \A y \in T : d.reads[y] \intersect d.obs \subseteq T
    BY BelowIsClosed
  <2> HIDE DEF T
  <2>2. Below(d, {x}) \subseteq T
    BY <2>1, BelowIsLeast
  <2> QED
    BY <2>2 DEF T
<1>2. x \in Below(d, {x}) /\ d.reads[x] \intersect d.obs \subseteq Below(d, {x})
  BY BelowIsClosed
<1>3. Below(d, d.reads[x]) \subseteq Below(d, {x})
  BY <1>2, BelowIsClosed, BelowIsLeast
<1> QED
  BY <1>1, <1>2, <1>3

LEMMA SeedsUnion ==
  ASSUME NEW d, NEW A, NEW B
  PROVE  Seeds(d, A \union B) = Seeds(d, A) \union Seeds(d, B)
<1>1. \A y : y \in Below(d, A \union B) <=> y \in Below(d, A) \/ y \in Below(d, B)
  BY BelowUnion
<1>2. ASSUME NEW x
      PROVE  x \in Seeds(d, A \union B) <=> x \in Seeds(d, A) \/ x \in Seeds(d, B)
  BY <1>1 DEF Seeds
<1> QED
  BY <1>2

LEMMA SeedsOne ==
  ASSUME NEW d, NEW x \in d.obs
  PROVE  Seeds(d, {x}) = Seeds(d, d.reads[x])
BY BelowOne DEF Seeds

LEMMA SeedsLeaf ==
  ASSUME NEW d, NEW x, x \notin d.obs
  PROVE  Seeds(d, {x}) = {x}
<1>1. Below(d, {x}) = {}
  <2> DEFINE T == {}
  <2>1. T \in SUBSET d.obs /\ {x} \intersect d.obs \subseteq T
        /\ \A y \in T : d.reads[y] \intersect d.obs \subseteq T
    OBVIOUS
  <2> HIDE DEF T
  <2>2. Below(d, {x}) \subseteq T
    BY <2>1, BelowIsLeast
  <2> QED
    BY <2>2 DEF T
<1> QED
  BY <1>1 DEF Seeds

LEMMA SeedsAreNames ==
  ASSUME NEW d, Table(d), NEW S \in SUBSET d.names
  PROVE  /\ Seeds(d, S) \subseteq d.names
         /\ {d.seed[x] : x \in Seeds(d, S)} \in SUBSET Classes
<1>1. \A y \in Below(d, S) : d.reads[y] \subseteq d.names
  BY BelowIsClosed DEF Table
<1>2. Seeds(d, S) \subseteq d.names
  BY <1>1 DEF Seeds
<1> QED
  BY <1>2 DEF Table

LEMMA FastIsClass ==
  ASSUME NEW d, Table(d), NEW S \in SUBSET d.names
  PROVE  Fast(d, S) \in Classes
BY SeedsAreNames, JoinBounds DEF Fast

LEMMA FastUnion ==
  ASSUME NEW d, Table(d), NEW A \in SUBSET d.names, NEW B \in SUBSET d.names
  PROVE  Fast(d, A \union B) = Join({Fast(d, A), Fast(d, B)})
<1> DEFINE I(S) == {d.seed[x] : x \in Seeds(d, S)}
<1>1. I(A) \in SUBSET Classes /\ I(B) \in SUBSET Classes
  BY SeedsAreNames
<1>2. I(A \union B) = I(A) \union I(B)
  BY SeedsUnion
<1> HIDE DEF I
<1>3. Join(I(A \union B)) = Join({Join(I(A)), Join(I(B))})
  BY <1>1, <1>2, JoinOfUnion
<1> QED
  BY <1>3 DEF Fast, I

LEMMA FastOne ==
  ASSUME NEW d, NEW x \in d.obs
  PROVE  Fast(d, {x}) = Fast(d, d.reads[x])
BY SeedsOne DEF Fast

LEMMA FastLeaf ==
  ASSUME NEW d, Table(d), NEW x \in d.names, x \notin d.obs
  PROVE  Fast(d, {x}) = d.seed[x]
<1>1. Seeds(d, {x}) = {x}
  BY SeedsLeaf
<1>2. {d.seed[y] : y \in Seeds(d, {x})} = {d.seed[x]}
  BY <1>1
<1>3. d.seed[x] \in Classes
  BY DEF Table
<1> QED
  BY <1>2, <1>3, JoinOfOne DEF Fast

LEMMA FastNone ==
  ASSUME NEW d PROVE Fast(d, {}) = Const
<1>1. Below(d, {}) = {}
  BY BelowIsLeast
<1>2. {d.seed[y] : y \in Seeds(d, {})} = {}
  BY <1>1 DEF Seeds
<1>3. Join({}) = Const
  <2>1. {} \in SUBSET Classes
    OBVIOUS
  <2> QED
    BY <2>1, JoinBounds
<1> QED
  BY <1>2, <1>3 DEF Fast

---------------------------------------------------------------------------
(* The memo and the calls *)

Calls == [of : Expressions, left : Seq(Expressions), acc : Classes]

\* The names a call asks about, and those of the expressions it has left to read.
Whole(d, c) == IF c \in d.obs THEN d.reads[c] ELSE d.leads[c]
Rest(d, q) == UNION {d.leads[q[i]] : i \in 1 .. Len(q)}

\* What a call has joined and what it has left make up what it asks about.
Partial(d, M, f) ==
  /\ Rest(d, f.left) \subseteq Whole(d, f.of)
  /\ Whole(d, f.of) \intersect d.obs \subseteq Rest(d, f.left) \union DOMAIN M
  /\ Join({f.acc, Fast(d, Rest(d, f.left))}) = Fast(d, Whole(d, f.of))

\* A kept class is right, everything behind it is kept, and it does not need itself.
Kept(d, M) ==
  /\ DOMAIN M \subseteq d.obs /\ M \in [DOMAIN M -> Classes]
  /\ \A x \in DOMAIN M :
       /\ M[x] = Fast(d, {x})
       /\ d.reads[x] \intersect d.obs \subseteq DOMAIN M
       /\ x \notin Below(d, d.reads[x])

\* The call at the bottom is about a node; each other one is about an observed
\* that is not kept, that no other call is about, and that the call below reads next.
Stack(d, M, C) ==
  /\ C \in Seq(Calls)
  /\ \A i \in 1 .. Len(C) : Partial(d, M, C[i])
  /\ \A i \in 1 .. Len(C) : IF i = 1 THEN C[i].of \in Nodes ELSE C[i].of \in d.obs \ DOMAIN M
  /\ \A i, j \in 1 .. Len(C) : C[i].of = C[j].of => i = j
  /\ \A i \in 1 .. Len(C) - 1 : C[i].left # << >> /\ Head(C[i].left) = C[i + 1].of

---------------------------------------------------------------------------
(* What this model makes of names *)

Named == Leaves \union UNION {LeavesUnder(c) : c \in Expressions}

Data ==
  [obs   |-> ObservedUnknowns,
   reads |-> [x \in ObservedUnknowns |-> DefReads(x)],
   seed  |-> [x \in Named |-> SeedLeaf(x)],
   leads |-> [c \in Expressions |-> LeavesUnder(c)],
   names |-> Named]

\* A refusal names definitions each of which reads the next, the last an earlier one.
PathIsReal(d, P) ==
  /\ \A i \in 1 .. Len(P) - 1 : P[i] \in d.obs /\ P[i + 1] \in d.reads[P[i]]
  /\ \E i \in 1 .. Len(P) - 1 : P[i] = P[Len(P)]

\* The rounds: which expression is being classified, and in the last round that
\* everything below the roots that are done with is kept.
Progress(d) ==
  /\ todo \in Seq(Expressions)
  /\ calls # << >> => todo # << >> /\ calls[1].of = Head(todo)
  /\ phase \in {"sets", "done"} => todo = << >> /\ calls = << >>
  /\ phase \in {"outputs", "done"} =>
       \A n \in RootNodes :
         n \in ToSet(todo) \/ d.leads[n] \intersect d.obs \subseteq DOMAIN memo

MemoInv ==
  /\ model \in Models
  /\ phase \in {"expect", "relational", "sets", "outputs", "done", "failed"}
  /\ Kept(Data, memo)
  /\ Stack(Data, memo, calls)
  /\ Progress(Data)
  /\ fault # None /\ fault.kind = "observed cycle" => PathIsReal(Data, fault.path)

---------------------------------------------------------------------------
(* The operations on the calls *)

LEMMA RestHead ==
  ASSUME NEW d, NEW q \in Seq(Expressions), q # << >>
  PROVE  /\ Head(q) \in Expressions /\ Tail(q) \in Seq(Expressions)
         /\ Rest(d, q) = d.leads[Head(q)] \union Rest(d, Tail(q))
<1>1. /\ Len(q) \in Nat \ {0} /\ Head(q) = q[1] /\ q[1] \in Expressions
      /\ Tail(q) \in Seq(Expressions) /\ Len(Tail(q)) = Len(q) - 1
      /\ \A i \in 1 .. Len(q) - 1 : Tail(q)[i] = q[i + 1]
  OBVIOUS
<1>2. ASSUME NEW x, x \in Rest(d, q) PROVE x \in d.leads[Head(q)] \union Rest(d, Tail(q))
  <2>1. PICK i \in 1 .. Len(q) : x \in d.leads[q[i]]
    BY <1>2 DEF Rest
  <2>2. CASE i = 1
    BY <1>1, <2>1, <2>2
  <2>3. CASE i # 1
    <3>1. i - 1 \in 1 .. Len(Tail(q)) /\ Tail(q)[i - 1] = q[i]
      BY <1>1, <2>3
    <3> QED
      BY <2>1, <3>1 DEF Rest
  <2> QED
    BY <2>2, <2>3
<1>3. ASSUME NEW x, x \in d.leads[Head(q)] \union Rest(d, Tail(q)) PROVE x \in Rest(d, q)
  <2>1. CASE x \in d.leads[Head(q)]
    <3>1. 1 \in 1 .. Len(q)
      BY <1>1
    <3> QED
      BY <1>1, <2>1, <3>1 DEF Rest
  <2>2. CASE x \in Rest(d, Tail(q))
    <3>1. PICK i \in 1 .. Len(Tail(q)) : x \in d.leads[Tail(q)[i]]
      BY <2>2 DEF Rest
    <3>2. i + 1 \in 1 .. Len(q) /\ Tail(q)[i] = q[i + 1]
      BY <1>1
    <3> QED
      BY <3>1, <3>2 DEF Rest
  <2> QED
    BY <1>3, <2>1, <2>2
<1> QED
  BY <1>1, <1>2, <1>3

LEMMA RestConcat ==
  ASSUME NEW d, NEW p \in Seq(Expressions), NEW q \in Seq(Expressions)
  PROVE  /\ p \o q \in Seq(Expressions)
         /\ Rest(d, p \o q) = Rest(d, p) \union Rest(d, q)
<1>1. /\ Len(p) \in Nat /\ Len(q) \in Nat /\ p \o q \in Seq(Expressions)
      /\ Len(p \o q) = Len(p) + Len(q)
      /\ \A i \in 1 .. Len(p) + Len(q) : (p \o q)[i] = IF i <= Len(p) THEN p[i] ELSE q[i - Len(p)]
  OBVIOUS
<1> DEFINE r == p \o q
<1> HIDE DEF r
<1>2. /\ Len(r) = Len(p) + Len(q)
      /\ \A i \in 1 .. Len(p) + Len(q) : r[i] = IF i <= Len(p) THEN p[i] ELSE q[i - Len(p)]
  BY <1>1 DEF r
<1>3. ASSUME NEW x, x \in Rest(d, r) PROVE x \in Rest(d, p) \union Rest(d, q)
  <2>1. PICK i \in 1 .. Len(r) : x \in d.leads[r[i]]
    BY <1>3 DEF Rest
  <2>2. CASE i <= Len(p)
    <3>1. i \in 1 .. Len(p) /\ r[i] = p[i]
      BY <1>1, <1>2, <2>2
    <3> QED
      BY <2>1, <3>1 DEF Rest
  <2>3. CASE ~(i <= Len(p))
    <3>1. i - Len(p) \in 1 .. Len(q) /\ r[i] = q[i - Len(p)]
      BY <1>1, <1>2, <2>3
    <3> QED
      BY <2>1, <3>1 DEF Rest
  <2> QED
    BY <2>2, <2>3
<1>4. ASSUME NEW x, x \in Rest(d, p) PROVE x \in Rest(d, r)
  <2>1. PICK i \in 1 .. Len(p) : x \in d.leads[p[i]]
    BY <1>4 DEF Rest
  <2>2. i \in 1 .. Len(r) /\ r[i] = p[i]
    BY <1>1, <1>2
  <2> QED
    BY <2>1, <2>2 DEF Rest
<1>5. ASSUME NEW x, x \in Rest(d, q) PROVE x \in Rest(d, r)
  <2>1. PICK i \in 1 .. Len(q) : x \in d.leads[q[i]]
    BY <1>5 DEF Rest
  <2>2. i + Len(p) \in 1 .. Len(r) /\ r[i + Len(p)] = q[i]
    BY <1>1, <1>2
  <2> QED
    BY <2>1, <2>2 DEF Rest
<1> QED
  BY <1>1, <1>3, <1>4, <1>5 DEF r

LEMMA RestNone == ASSUME NEW d PROVE Rest(d, << >>) = {}
BY DEF Rest

LEMMA RestOne == ASSUME NEW d, NEW c \in Expressions PROVE Rest(d, <<c>>) = d.leads[c]
<1>1. Len(<<c>>) = 1 /\ <<c>>[1] = c
  OBVIOUS
<1>2. ASSUME NEW x, x \in Rest(d, <<c>>) PROVE x \in d.leads[c]
  BY <1>1, <1>2 DEF Rest
<1>3. ASSUME NEW x, x \in d.leads[c] PROVE x \in Rest(d, <<c>>)
  <2>1. 1 \in 1 .. Len(<<c>>)
    BY <1>1
  <2> QED
    BY <1>1, <1>3, <2>1 DEF Rest
<1> QED
  BY <1>2, <1>3

LEMMA RestAreNames ==
  ASSUME NEW d, Table(d), NEW q \in Seq(Expressions)
  PROVE  Rest(d, q) \in SUBSET d.names
<1>1. ASSUME NEW i \in 1 .. Len(q) PROVE d.leads[q[i]] \subseteq d.names
  <2>1. q[i] \in Expressions
    OBVIOUS
  <2> QED
    BY <2>1 DEF Table
<1> QED
  BY <1>1 DEF Rest

LEMMA WholeAreNames ==
  ASSUME NEW d, Table(d), NEW c \in Expressions
  PROVE  Whole(d, c) \in SUBSET d.names
BY DEF Table, Whole

Associates(a, b, c) == Join({Join({a, b}), c}) = Join({a, Join({b, c})})

LEMMA JoinIsAssociative ==
  ASSUME NEW a \in Classes, NEW b \in Classes, NEW c \in Classes
  PROVE  Associates(a, b, c)
<1>1. /\ Join({a, b}) = IF a <= b THEN b ELSE a
      /\ Join({b, c}) = IF b <= c THEN c ELSE b
  BY JoinOfTwo
<1>2. Join({a, b}) \in Classes /\ Join({b, c}) \in Classes
  BY <1>1
<1>3. /\ Join({Join({a, b}), c}) = IF Join({a, b}) <= c THEN c ELSE Join({a, b})
      /\ Join({a, Join({b, c})}) = IF a <= Join({b, c}) THEN Join({b, c}) ELSE a
  BY <1>2, JoinOfTwo
<1> QED
  BY <1>1, <1>3 DEF Associates, Classes, Const, Continuous

LEMMA PartialStarts ==
  ASSUME NEW d, Table(d), NEW M, NEW f \in Calls, f.acc = Const,
         Rest(d, f.left) = Whole(d, f.of)
  PROVE  Partial(d, M, f)
<1>1. Whole(d, f.of) \in SUBSET d.names
  BY WholeAreNames DEF Calls
<1>2. Fast(d, Whole(d, f.of)) \in Classes /\ Const \in Classes
  BY <1>1, FastIsClass DEF Classes, Const, Continuous
<1>3. Join({Const, Fast(d, Whole(d, f.of))}) = Fast(d, Whole(d, f.of))
  BY <1>2, JoinOfTwo DEF Classes, Const, Continuous
<1> QED
  BY <1>3 DEF Partial

LEMMA PartialGrows ==
  ASSUME NEW d, NEW M, NEW N, NEW f, Partial(d, M, f), DOMAIN M \subseteq DOMAIN N
  PROVE  Partial(d, N, f)
BY DEF Partial

LEMMA PartialEnds ==
  ASSUME NEW d, Table(d), NEW M, NEW f \in Calls, Partial(d, M, f), f.left = << >>
  PROVE  Whole(d, f.of) \intersect d.obs \subseteq DOMAIN M /\ f.acc = Fast(d, Whole(d, f.of))
<1>1. Rest(d, f.left) = {}
  BY RestNone
<1>2. Fast(d, Rest(d, f.left)) = Const
  BY <1>1, FastNone
<1>3. f.acc \in Classes /\ Const \in Classes
  BY DEF Calls, Classes, Const, Continuous
<1>4. Join({f.acc, Const}) = f.acc
  <2>1. Join({f.acc, Const}) = IF f.acc <= Const THEN Const ELSE f.acc
    BY <1>3, JoinOfTwo
  <2> QED
    BY <1>3, <2>1 DEF Classes, Const, Continuous
<1> QED
  BY <1>1, <1>2, <1>4 DEF Partial

\* Descend: a node is replaced by its children.
LEMMA PartialDescends ==
  ASSUME NEW d, Table(d), NEW M, NEW f \in Calls, Partial(d, M, f), f.left # << >>,
         NEW q \in Seq(Expressions), d.leads[Head(f.left)] = Rest(d, q)
  PROVE  /\ [f EXCEPT !.left = q \o Tail(@)] \in Calls
         /\ Partial(d, M, [f EXCEPT !.left = q \o Tail(@)])
<1> DEFINE g == [f EXCEPT !.left = q \o Tail(@)]
<1>1. f.left \in Seq(Expressions)
  BY DEF Calls
<1>2. /\ Tail(f.left) \in Seq(Expressions)
      /\ Rest(d, f.left) = d.leads[Head(f.left)] \union Rest(d, Tail(f.left))
  BY <1>1, RestHead
<1>3. /\ q \o Tail(f.left) \in Seq(Expressions)
      /\ Rest(d, q \o Tail(f.left)) = Rest(d, f.left)
  <2> DEFINE t == Tail(f.left)
  <2>1. t \in Seq(Expressions)
    BY <1>2
  <2> HIDE DEF t
  <2>2. q \o t \in Seq(Expressions) /\ Rest(d, q \o t) = Rest(d, q) \union Rest(d, t)
    BY <2>1, RestConcat
  <2> QED
    BY <1>2, <2>2 DEF t
<1>4. g.of = f.of /\ g.left = q \o Tail(f.left) /\ g.acc = f.acc /\ g \in Calls
  BY <1>3 DEF Calls
<1> HIDE DEF g
<1>5. Partial(d, M, g)
  BY <1>3, <1>4 DEF Partial
<1> QED
  BY <1>4, <1>5 DEF g

\* Joined: a name is taken off what is left, and its class joined.
LEMMA PartialTakes ==
  ASSUME NEW d, Table(d), NEW M, NEW f \in Calls, Partial(d, M, f), f.left # << >>,
         NEW x \in Leaves, Head(f.left) = x,
         NEW c, c = Fast(d, {x}), x \in d.obs => x \in DOMAIN M
  PROVE  /\ [f EXCEPT !.left = Tail(@), !.acc = Join({@, c})] \in Calls
         /\ Partial(d, M, [f EXCEPT !.left = Tail(@), !.acc = Join({@, c})])
<1> DEFINE g == [f EXCEPT !.left = Tail(@), !.acc = Join({@, c})]
           t == Rest(d, Tail(f.left))
<1>1. f.left \in Seq(Expressions) /\ f.acc \in Classes
  BY DEF Calls
<1>2. x \in Expressions /\ d.leads[x] = {x} /\ {x} \in SUBSET d.names
  BY DEF Expressions, Table
<1>3. /\ Tail(f.left) \in Seq(Expressions)
      /\ Rest(d, f.left) = {x} \union t
  BY <1>1, <1>2, RestHead
<1>4. t \in SUBSET d.names
  BY <1>3, RestAreNames
<1>5. c \in Classes /\ Fast(d, t) \in Classes
  BY <1>2, <1>4, FastIsClass
<1>6. Fast(d, Rest(d, f.left)) = Join({c, Fast(d, t)})
  BY <1>2, <1>3, <1>4, FastUnion
<1>7. Join({f.acc, c}) \in Classes
  BY <1>1, <1>5, JoinOfTwo
<1>8. g.of = f.of /\ g.left = Tail(f.left) /\ g.acc = Join({f.acc, c}) /\ g \in Calls
  BY <1>3, <1>7 DEF Calls
<1> HIDE DEF g
<1>9. Join({g.acc, Fast(d, Rest(d, g.left))}) = Fast(d, Whole(d, g.of))
  <2>1. Join({Join({f.acc, c}), Fast(d, t)}) = Join({f.acc, Join({c, Fast(d, t)})})
    <3>1. Associates(f.acc, c, Fast(d, t))
      BY <1>1, <1>5, JoinIsAssociative
    <3> QED
      BY ONLY <3>1, Zenon DEF Associates
  <2>2. Join({f.acc, Fast(d, Rest(d, f.left))}) = Fast(d, Whole(d, f.of))
    BY DEF Partial
  <2> QED
    BY <1>6, <1>8, <2>1, <2>2
<1>10. Partial(d, M, g)
  BY <1>3, <1>8, <1>9 DEF Partial
<1> QED
  BY <1>8, <1>10 DEF g

---------------------------------------------------------------------------
(* The operations on the stack *)

\* The call on top goes on.
LEMMA StackGoesOn ==
  ASSUME NEW d, NEW M, NEW C, Stack(d, M, C), Len(C) > 0,
         NEW g \in Calls, g.of = C[Len(C)].of, Partial(d, M, g)
  PROVE  /\ Stack(d, M, [C EXCEPT ![Len(C)] = g])
         /\ [C EXCEPT ![Len(C)] = g] # << >>
         /\ [C EXCEPT ![Len(C)] = g][1].of = C[1].of
<1> DEFINE B == [C EXCEPT ![Len(C)] = g]
<1>1. C \in Seq(Calls) /\ Len(C) \in Nat /\ Len(C) > 0
  BY DEF Stack
<1>2. /\ B \in Seq(Calls) /\ Len(B) = Len(C) /\ B[Len(C)] = g
      /\ \A i \in 1 .. Len(C) : i # Len(C) => B[i] = C[i]
  BY <1>1, LastReplaced
<1> HIDE DEF B
<1>3. \A i \in 1 .. Len(C) : B[i].of = C[i].of
  BY <1>2
<1>4. \A i \in 1 .. Len(C) : Partial(d, M, B[i])
  BY <1>2 DEF Stack
<1>5. ASSUME NEW i \in 1 .. Len(C) - 1
      PROVE  B[i].left # << >> /\ Head(B[i].left) = B[i + 1].of
  <2>1. i \in 1 .. Len(C) /\ i # Len(C) /\ i + 1 \in 1 .. Len(C)
    BY <1>1
  <2>2. B[i] = C[i] /\ B[i + 1].of = C[i + 1].of
    BY <2>1, <1>2, <1>3
  <2> QED
    BY <2>2 DEF Stack
<1>6. Stack(d, M, B)
  <2>1. \A i \in 1 .. Len(B) : IF i = 1 THEN B[i].of \in Nodes ELSE B[i].of \in d.obs \ DOMAIN M
    BY <1>2, <1>3 DEF Stack
  <2>2. \A i, j \in 1 .. Len(B) : B[i].of = B[j].of => i = j
    BY <1>2, <1>3 DEF Stack
  <2> QED
    BY <1>2, <1>4, <1>5, <2>1, <2>2 DEF Stack
<1>7. B # << >> /\ B[1].of = C[1].of
  <2>1. 1 \in 1 .. Len(C)
    BY <1>1
  <2> QED
    BY <1>1, <1>2, <1>3, <2>1
<1> QED
  BY <1>6, <1>7 DEF B

\* A call for the observed that the call on top reads next.
LEMMA StackGrows ==
  ASSUME NEW d, NEW M, NEW C, Stack(d, M, C), Len(C) > 0,
         C[Len(C)].left # << >>, NEW f \in Calls, f.of = Head(C[Len(C)].left),
         f.of \in d.obs \ DOMAIN M, f.of \notin Nodes,
         \A i \in 1 .. Len(C) - 1 : C[i + 1].of # f.of,
         Partial(d, M, f)
  PROVE  /\ Stack(d, M, Append(C, f))
         /\ Append(C, f) # << >> /\ Append(C, f)[1].of = C[1].of
<1> DEFINE B == Append(C, f)
           n == Len(C)
<1>1. C \in Seq(Calls) /\ n \in Nat /\ n > 0
  BY DEF Stack
<1>2. /\ B \in Seq(Calls) /\ Len(B) = n + 1 /\ B[n + 1] = f
      /\ \A i \in 1 .. n : B[i] = C[i]
  BY <1>1
<1> HIDE DEF B
<1>3. \A i \in 1 .. n + 1 : i \in 1 .. n \/ i = n + 1
  BY <1>1
<1>4. \A i \in 1 .. n : C[i].of # f.of
  <2> SUFFICES ASSUME NEW i \in 1 .. n PROVE C[i].of # f.of
    OBVIOUS
  <2>1. CASE i = 1
    BY <2>1, <1>1 DEF Stack
  <2>2. CASE i # 1
    <3>1. i - 1 \in 1 .. n - 1 /\ (i - 1) + 1 = i
      BY <2>2, <1>1
    <3> QED
      BY <3>1
  <2> QED
    BY <2>1, <2>2
<1>5. \A i \in 1 .. n + 1 : Partial(d, M, B[i])
  BY <1>2, <1>3 DEF Stack
<1>6. \A i \in 1 .. n + 1 : IF i = 1 THEN B[i].of \in Nodes ELSE B[i].of \in d.obs \ DOMAIN M
  <2> SUFFICES ASSUME NEW i \in 1 .. n + 1
               PROVE  IF i = 1 THEN B[i].of \in Nodes ELSE B[i].of \in d.obs \ DOMAIN M
    OBVIOUS
  <2>1. CASE i \in 1 .. n
    BY <2>1, <1>2 DEF Stack
  <2>2. CASE i = n + 1
    BY <2>2, <1>1, <1>2
  <2> QED
    BY <1>3, <2>1, <2>2
<1>7. \A i, j \in 1 .. n + 1 : B[i].of = B[j].of => i = j
  BY <1>2, <1>3, <1>4 DEF Stack
<1>8. ASSUME NEW i \in 1 .. n
      PROVE  B[i].left # << >> /\ Head(B[i].left) = B[i + 1].of
  <2>1. CASE i = n
    BY <2>1, <1>2
  <2>2. CASE i # n
    <3>1. i \in 1 .. n - 1 /\ i + 1 \in 1 .. n
      BY <2>2, <1>1
    <3>2. C[i].left # << >> /\ Head(C[i].left) = C[i + 1].of
      BY <3>1 DEF Stack
    <3> QED
      BY <3>1, <3>2, <1>2
  <2> QED
    BY <2>1, <2>2
<1>9. Stack(d, M, B)
  BY <1>1, <1>2, <1>5, <1>6, <1>7, <1>8 DEF Stack
<1>10. 1 \in 1 .. n
  BY <1>1
<1> QED
  BY <1>1, <1>2, <1>9, <1>10 DEF B

\* The call on top is over, and its observed is kept.
LEMMA StackShrinks ==
  ASSUME NEW d, NEW M, NEW N, NEW C, Stack(d, M, C), Len(C) > 1,
         DOMAIN N = DOMAIN M \union {C[Len(C)].of}
  PROVE  /\ Stack(d, N, SubSeq(C, 1, Len(C) - 1))
         /\ Len(SubSeq(C, 1, Len(C) - 1)) = Len(C) - 1
         /\ SubSeq(C, 1, Len(C) - 1)[1] = C[1]
         /\ C[Len(C) - 1].left # << >> /\ Head(C[Len(C) - 1].left) = C[Len(C)].of
         /\ SubSeq(C, 1, Len(C) - 1)[Len(C) - 1] = C[Len(C) - 1]
<1> DEFINE B == SubSeq(C, 1, Len(C) - 1)
           n == Len(C)
<1>1. C \in Seq(Calls) /\ n \in Nat /\ n > 1
  BY DEF Stack
<1>2. /\ B \in Seq(Calls) /\ Len(B) = n - 1
      /\ \A i \in 1 .. n - 1 : B[i] = C[i]
  BY <1>1, AllButLast
<1> HIDE DEF B
<1>3. \A i \in 1 .. n - 1 : i \in 1 .. n /\ i # n
  BY <1>1
<1>4. n \in 1 .. n /\ 1 \in 1 .. n - 1 /\ n - 1 \in 1 .. n - 1 /\ (n - 1) + 1 = n
  BY <1>1
<1>5. \A i \in 1 .. n - 1 : Partial(d, N, B[i])
  BY <1>2, <1>3, PartialGrows DEF Stack
<1>6. \A i \in 1 .. n - 1 : C[i].of # C[n].of
  BY <1>3, <1>4 DEF Stack
<1>7. \A i \in 1 .. n - 1 : IF i = 1 THEN B[i].of \in Nodes ELSE B[i].of \in d.obs \ DOMAIN N
  BY <1>2, <1>3, <1>6 DEF Stack
<1>8. \A i, j \in 1 .. n - 1 : B[i].of = B[j].of => i = j
  BY <1>2, <1>3 DEF Stack
<1>9. ASSUME NEW i \in 1 .. n - 2
      PROVE  B[i].left # << >> /\ Head(B[i].left) = B[i + 1].of
  <2>1. i \in 1 .. n - 1 /\ i + 1 \in 1 .. n - 1
    BY <1>1
  <2> QED
    BY <2>1, <1>2 DEF Stack
<1>10. Stack(d, N, B)
  BY <1>1, <1>2, <1>5, <1>7, <1>8, <1>9 DEF Stack
<1>11. C[n - 1].left # << >> /\ Head(C[n - 1].left) = C[n].of
  BY <1>4 DEF Stack
<1> QED
  BY <1>2, <1>4, <1>10, <1>11 DEF B

---------------------------------------------------------------------------
(* The operations on the memo *)

LEMMA KeptIsClosed ==
  ASSUME NEW d, NEW M, Kept(d, M), NEW S, S \intersect d.obs \subseteq DOMAIN M
  PROVE  Below(d, S) \subseteq DOMAIN M
<1> DEFINE T == DOMAIN M
<1>1. T \in SUBSET d.obs /\ \A y \in T : d.reads[y] \intersect d.obs \subseteq T
  BY DEF Kept
<1>2. S \intersect d.obs \subseteq T
  OBVIOUS
<1> HIDE DEF T
<1>3. Below(d, S) \subseteq T
  BY <1>1, <1>2, BelowIsLeast
<1> QED
  BY <1>3 DEF T

LEMMA KeepOne ==
  ASSUME NEW d, Table(d), NEW M, Kept(d, M), NEW x \in d.obs, x \notin DOMAIN M,
         d.reads[x] \intersect d.obs \subseteq DOMAIN M,
         NEW c, c = Fast(d, d.reads[x])
  PROVE  Kept(d, [y \in DOMAIN M \union {x} |-> IF y = x THEN c ELSE M[y]])
<1> DEFINE N == [y \in DOMAIN M \union {x} |-> IF y = x THEN c ELSE M[y]]
<1>1. DOMAIN N = DOMAIN M \union {x} /\ N[x] = c /\ \A y \in DOMAIN M : N[y] = M[y]
  OBVIOUS
<1>5. N \in [DOMAIN N -> Classes]
  <2>1. c \in Classes
    BY FastIsClass DEF Table
  <2>2. \A y \in DOMAIN M : M[y] \in Classes
    BY DEF Kept
  <2> QED
    BY <2>1, <2>2
<1> HIDE DEF N
<1>2. c = Fast(d, {x})
  BY FastOne
<1>3. x \notin Below(d, d.reads[x])
  BY KeptIsClosed
<1>4. Kept(d, N)
  BY <1>1, <1>2, <1>3, <1>5 DEF Kept
<1> QED
  BY <1>4 DEF N

---------------------------------------------------------------------------
(* The names of this model *)

LEMMA SameData == ASSUME model' = model PROVE Data' = Data
<1>1. NodesUnder' = NodesUnder
  BY Zenon DEF NodesUnder, Kids
<1>2. ObservedUnknowns' = ObservedUnknowns
  BY DEF ObservedUnknowns, OdeStates
<1>3. [c \in Expressions |-> LeavesUnder(c)]' = [c \in Expressions |-> LeavesUnder(c)]
  BY <1>1 DEF LeavesUnder
<1>4. Named' = Named
  BY <1>1 DEF Named, LeavesUnder
<1>5. [x \in ObservedUnknowns |-> DefReads(x)]' = [x \in ObservedUnknowns |-> DefReads(x)]
  BY <1>1, <1>2 DEF DefReads, Definition, LeavesUnder
<1>6. [x \in Named |-> SeedLeaf(x)]' = [x \in Named |-> SeedLeaf(x)]
  BY <1>2, <1>4 DEF SeedLeaf, OdeStates, ObservedUnknowns, AlgebraicUnknowns, BrownianParameters,
       DiscreteParameters, DiscreteParameterSeed
<1> QED
  BY <1>2, <1>3, <1>4, <1>5, <1>6 DEF Data

LEMMA UnderUnfolds ==
  NodesUnder = [n \in Nodes |-> {n} \union UNION {NodesUnder[k] : k \in Kids(n)}]
<1> DEFINE closed(T) == \A m \in T : Kids(m) \subseteq T
           g == [n \in Nodes |->
                   {m \in Nodes : \A T \in SUBSET Nodes : n \in T /\ closed(T) => m \in T}]
<1>1. g = [n \in Nodes |-> {n} \union UNION {g[k] : k \in Kids(n)}]
  <2>1. \A n \in Nodes : Kids(n) \subseteq Nodes
    BY DEF Kids
  <2>2. ASSUME NEW n \in Nodes PROVE g[n] = {n} \union UNION {g[k] : k \in Kids(n)}
    <3>1. ASSUME NEW x \in {n} \union UNION {g[k] : k \in Kids(n)} PROVE x \in g[n]
      BY <2>1
    <3>2. ASSUME NEW x \in g[n] PROVE x \in {n} \union UNION {g[k] : k \in Kids(n)}
      <4> DEFINE U == {n} \union UNION {g[k] : k \in Kids(n)}
      <4>1. U \in SUBSET Nodes /\ n \in U
        BY <2>1
      <4>2. ASSUME NEW m \in U, NEW j \in Kids(m) PROVE j \in U
        <5>1. m \in Nodes /\ j \in Nodes
          BY <2>1, <4>1
        <5>2. j \in g[j]
          BY <5>1
        <5>3. CASE m = n
          BY <5>2, <5>3
        <5>4. CASE m # n
          <6>1. PICK k \in Kids(n) : m \in g[k]
            BY <5>4
          <6>2. k \in Nodes
            BY <2>1
          <6>3. j \in g[k]
            BY <5>1, <6>1, <6>2
          <6> QED
            BY <6>3
        <5> QED
          BY <5>3, <5>4
      <4>3. closed(U)
        BY <4>2
      <4> QED
        BY <4>1, <4>3
    <3> QED
      BY <3>1, <3>2
  <2> QED
    BY <2>2
<1> HIDE DEF g
<1>2. \E f : f = [n \in Nodes |-> {n} \union UNION {f[k] : k \in Kids(n)}]
  BY <1>1
<1> QED
  BY <1>2, Zenon DEF NodesUnder

LEMMA KidsAreExpressions ==
  ASSUME model \in Models, NEW n \in Nodes
  PROVE  model.kids[n] \in Seq(Expressions)
BY CadenceAssumption DEF Expressions

LEMMA DefinitionIsExpression ==
  ASSUME model \in Models, NEW x \in ObservedUnknowns
  PROVE  Definition(x) \in Expressions
<1> DEFINE E == [form : {"derivative", "bare", "expression"}, name : Unknowns \union {None},
                 rhs : Leaves \union Nodes, arrayed : BOOLEAN]
<1>1. model.eqs \in Seq(E)
  BY CadenceAssumption
<1> HIDE DEF E
<1>2. \A e \in ToSet(model.eqs) : e \in E
  BY <1>1 DEF ToSet
<1>3. \E e \in ToSet(model.eqs) : e.form = "bare" /\ e.name = x
  BY DEF ObservedUnknowns
<1>4. (CHOOSE e \in ToSet(model.eqs) : e.form = "bare" /\ e.name = x) \in E
  BY <1>2, <1>3
<1> QED
  BY <1>4 DEF Definition, E, Expressions

LEMMA SeedIsClass == \A x : SeedLeaf(x) \in Classes
BY DEF SeedLeaf, DiscreteParameterSeed, Classes, Const, Discrete, Continuous

LEMMA DataIsTable == ASSUME model \in Models PROVE Table(Data)
<1>1. Data.obs \subseteq Leaves /\ Data.obs \subseteq Data.names
  BY DEF Data, ObservedUnknowns, Named, Leaves
<1>2. Data.reads \in [Data.obs -> SUBSET Data.names]
  BY DefinitionIsExpression DEF Data, DefReads, Named
<1>3. Data.seed \in [Data.names -> Classes]
  BY SeedIsClass DEF Data
<1>4. Data.leads \in [Expressions -> SUBSET Data.names]
  BY DEF Data, Named
<1>5. \A x \in Leaves : Data.leads[x] = {x}
  BY DEF Data, LeavesUnder, Expressions
<1> QED
  BY <1>1, <1>2, <1>3, <1>4, <1>5 DEF Table

\* The names below a node are those below its children.
LEMMA LeadsToKids ==
  ASSUME model \in Models, NEW n \in Nodes
  PROVE  Data.leads[n] = Rest(Data, model.kids[n])
<1> DEFINE q == model.kids[n]
<1>1. q \in Seq(Expressions)
  BY KidsAreExpressions
<1>2. Leaves \intersect Nodes = {}
  BY CadenceAssumption
<1>3. \A m \in Nodes : NodesUnder[m] = {m} \union UNION {NodesUnder[k] : k \in Kids(m)}
  BY UnderUnfolds
<1>4. \A m \in Nodes : Data.leads[m] = UNION {ToSet(model.kids[j]) \ Nodes : j \in NodesUnder[m]}
  BY <1>2 DEF Data, Expressions, LeavesUnder
<1>5. \A x \in Leaves : Data.leads[x] = {x}
  BY DataIsTable DEF Table
<1>6. ASSUME NEW x, x \in Data.leads[n] PROVE x \in Rest(Data, q)
  <2>1. PICK m \in NodesUnder[n] : x \in ToSet(model.kids[m]) \ Nodes
    BY <1>4, <1>6
  <2>2. CASE m = n
    <3>1. PICK i \in 1 .. Len(q) : q[i] = x
      BY <1>1, <2>1, <2>2 DEF ToSet
    <3>2. x \in Leaves
      BY <1>1, <2>1, <3>1 DEF Expressions
    <3> QED
      BY <1>5, <3>1, <3>2 DEF Rest
  <2>3. CASE m # n
    <3>1. PICK k \in Kids(n) : m \in NodesUnder[k]
      BY <1>3, <2>1, <2>3
    <3>2. k \in Nodes /\ k \in ToSet(q)
      BY DEF Kids
    <3>3. PICK i \in 1 .. Len(q) : q[i] = k
      BY <1>1, <3>2 DEF ToSet
    <3>4. x \in Data.leads[k]
      BY <1>4, <2>1, <3>1, <3>2
    <3> QED
      BY <3>3, <3>4 DEF Rest
  <2> QED
    BY <2>2, <2>3
<1>7. ASSUME NEW x, x \in Rest(Data, q) PROVE x \in Data.leads[n]
  <2>1. PICK i \in 1 .. Len(q) : x \in Data.leads[q[i]]
    BY <1>7 DEF Rest
  <2>2. q[i] \in Expressions /\ q[i] \in ToSet(q)
    BY <1>1 DEF ToSet
  <2>3. CASE q[i] \in Nodes
    <3>1. q[i] \in Kids(n)
      BY <2>2, <2>3 DEF Kids
    <3>2. PICK m \in NodesUnder[q[i]] : x \in ToSet(model.kids[m]) \ Nodes
      BY <1>4, <2>1, <2>3
    <3>3. m \in NodesUnder[n]
      BY <1>3, <3>1, <3>2
    <3> QED
      BY <1>4, <3>2, <3>3
  <2>4. CASE q[i] \notin Nodes
    <3>1. q[i] \in Leaves
      BY <2>2, <2>4 DEF Expressions
    <3>2. x = q[i] /\ x \notin Nodes
      BY <1>5, <2>1, <2>4, <3>1
    <3>3. n \in NodesUnder[n]
      BY <1>3
    <3> QED
      BY <1>4, <2>2, <3>2, <3>3
  <2> QED
    BY <2>3, <2>4
<1> QED
  BY <1>6, <1>7

LEMMA ReadsDefinition ==
  ASSUME model \in Models, NEW x \in Data.obs
  PROVE  Data.reads[x] = Data.leads[Definition(x)] /\ Definition(x) \in Expressions
BY DefinitionIsExpression DEF Data, DefReads

LEMMA NodesAreNotNames ==
  ASSUME model \in Models, NEW n \in Nodes
  PROVE  n \notin Leaves /\ n \notin Data.obs /\ n \in Expressions
BY CadenceAssumption, DataIsTable DEF Table, Expressions

LEMMA RootsAreExpressions ==
  ASSUME model \in Models
  PROVE  Roots \in Seq(Expressions) /\ \A n \in RootNodes : n \in Nodes /\ n \in ToSet(Roots)
<1> DEFINE E == [form : {"derivative", "bare", "expression"}, name : Unknowns \union {None},
                 rhs : Leaves \union Nodes, arrayed : BOOLEAN]
<1>1. model.eqs \in Seq(E)
  BY CadenceAssumption
<1> HIDE DEF E
<1>2. \A i \in 1 .. Len(model.eqs) : model.eqs[i] \in E
  BY <1>1
<1>3. \A i \in 1 .. Len(model.eqs) : model.eqs[i].rhs \in Expressions
  BY <1>2 DEF E, Expressions
<1>4. Roots \in Seq(Expressions)
  BY <1>1, <1>3 DEF Roots
<1> QED
  BY <1>4 DEF RootNodes

LEMMA SameRoots == ASSUME model' = model PROVE Roots' = Roots /\ RootNodes' = RootNodes
BY DEF Roots, RootNodes

---------------------------------------------------------------------------
(* The pass keeps the invariant *)

\* A call goes on, is made, or returns to the one below.
LEMMA CallStep ==
  ASSUME MemoInv, UNCHANGED <<model, phase, todo, fault>>,
         calls # << >>, calls' # << >>, calls'[1].of = calls[1].of,
         DOMAIN memo \subseteq DOMAIN memo', Kept(Data, memo'), Stack(Data, memo', calls')
  PROVE  MemoInv'
<1>1. Data' = Data /\ RootNodes' = RootNodes
  BY SameData, SameRoots
<1>2. Kept(Data, memo)' /\ Stack(Data, memo, calls)'
  BY <1>1
<1>3. Progress(Data)'
  BY <1>1 DEF MemoInv, Progress
<1>4. (fault # None /\ fault.kind = "observed cycle" => PathIsReal(Data, fault.path))'
  BY <1>1 DEF MemoInv
<1> QED
  BY <1>2, <1>3, <1>4 DEF MemoInv

LEMMA NoCalls == ASSUME NEW d, NEW M PROVE Stack(d, M, << >>)
BY DEF Stack

\* A step that leaves no call under way and keeps the memo.
LEMMA QuietStep ==
  ASSUME MemoInv, UNCHANGED <<model, memo>>, calls' = << >>,
         fault' = fault \/ fault'.kind # "observed cycle",
         todo' \in Seq(Expressions),
         phase' \in {"expect", "relational", "sets", "outputs", "done", "failed"},
         phase' \in {"sets", "done"} => todo' = << >>,
         phase' \in {"outputs", "done"} =>
           \A n \in RootNodes :
             n \in ToSet(todo') \/ Data.leads[n] \intersect Data.obs \subseteq DOMAIN memo
  PROVE  MemoInv'
<1>1. Data' = Data /\ RootNodes' = RootNodes
  BY SameData, SameRoots
<1>2. Kept(Data, memo)'
  BY <1>1 DEF MemoInv
<1>3. Stack(Data, memo, << >>)
  BY NoCalls
<1>4. Stack(Data, memo, calls)'
  BY <1>1, <1>3
<1>5. Progress(Data)'
  BY <1>1 DEF Progress
<1>6. (fault # None /\ fault.kind = "observed cycle" => PathIsReal(Data, fault.path))'
  BY <1>1 DEF MemoInv
<1> QED
  BY <1>2, <1>4, <1>5, <1>6 DEF MemoInv

LEMMA MemoStarts == Init => MemoInv
<1> SUFFICES ASSUME Init PROVE MemoInv
  OBVIOUS
<1>1. /\ model \in Models /\ phase = "expect" /\ todo = Roots /\ calls = << >>
      /\ memo = << >> /\ fault = None
  BY DEF Init
<1>2. DOMAIN memo = {} /\ Len(calls) = 0 /\ calls \in Seq(Calls)
  BY <1>1
<1>3. Kept(Data, memo)
  <2>1. memo \in [{} -> Classes]
    BY <1>1
  <2> QED
    BY <1>2, <2>1 DEF Kept
<1>4. Stack(Data, memo, calls)
  BY <1>2 DEF Stack
<1>5. Progress(Data)
  BY <1>1, RootsAreExpressions DEF Progress
<1> QED
  BY <1>1, <1>3, <1>4, <1>5 DEF MemoInv

LEMMA AskKeeps == ASSUME MemoInv, Ask PROVE MemoInv'
<1> DEFINE n == Head(todo)
           f == [of |-> n, left |-> model.kids[n], acc |-> Const]
<1>1. /\ calls = << >> /\ todo # << >> /\ n \in Nodes /\ calls' = <<f>>
      /\ UNCHANGED <<model, phase, todo, memo, fault>>
      /\ phase # "failed"
  BY DEF Ask, Wanted
<1>2. phase \notin {"sets", "done"}
  BY <1>1 DEF MemoInv, Progress
<1>3. Table(Data) /\ Data' = Data /\ RootNodes' = RootNodes
  BY <1>1, DataIsTable, SameData, SameRoots DEF MemoInv
<1>4. n \notin Data.obs /\ n \in Expressions
  BY <1>1, NodesAreNotNames DEF MemoInv
<1>5. f \in Calls
  <2>1. model.kids[n] \in Seq(Expressions)
    BY <1>1, KidsAreExpressions DEF MemoInv
  <2> QED
    BY <1>4, <2>1 DEF Calls, Classes, Const, Continuous
<1>6. Rest(Data, f.left) = Whole(Data, f.of)
  BY <1>1, <1>4, LeadsToKids DEF MemoInv, Whole
<1>7. Partial(Data, memo, f)
  BY <1>3, <1>5, <1>6, PartialStarts
<1>8. f.of = n
  OBVIOUS
<1> HIDE DEF f
<1>9. Stack(Data, memo, <<f>>)
  <2>1. /\ <<f>> \in Seq(Calls) /\ Len(<<f>>) = 1 /\ <<f>>[1] = f
        /\ \A i \in 1 .. 1 : i = 1
    BY <1>5
  <2> QED
    BY <1>1, <1>7, <1>8, <2>1 DEF Stack
<1>10. Progress(Data)'
  BY <1>1, <1>2, <1>3, <1>8 DEF MemoInv, Progress
<1> QED
  BY <1>1, <1>3, <1>9, <1>10 DEF MemoInv

\* The call on top, and the expression it reads next.
LEMMA TopIsCall ==
  ASSUME MemoInv, Reading
  PROVE  /\ Len(calls) \in Nat /\ Len(calls) > 0
         /\ Top = calls[Len(calls)] /\ Top \in Calls /\ Partial(Data, memo, Top)
         /\ Top.left \in Seq(Expressions) /\ Top.left # << >>
         /\ Operand \in Expressions
<1>1. calls \in Seq(Calls) /\ calls # << >> /\ Top.left # << >>
  BY DEF MemoInv, Stack, Reading
<1>2. Len(calls) \in Nat /\ Len(calls) > 0 /\ Top = calls[Len(calls)]
  BY <1>1 DEF Top, Last
<1>3. Len(calls) \in 1 .. Len(calls)
  BY <1>2
<1>4. Top \in Calls /\ Partial(Data, memo, Top)
  <2>1. Stack(Data, memo, calls)
    BY DEF MemoInv
  <2>2. calls[Len(calls)] \in Calls
    BY <1>1, <1>3
  <2> QED
    BY <1>2, <1>3, <2>1, <2>2 DEF Stack
<1>5. Top.left \in Seq(Expressions)
  BY <1>4 DEF Calls
<1> QED
  BY <1>1, <1>2, <1>4, <1>5 DEF Operand

LEMMA DescendKeeps == ASSUME MemoInv, Descend PROVE MemoInv'
<1> DEFINE q == model.kids[Operand]
           g == [Top EXCEPT !.left = q \o Tail(@)]
<1>1. Reading /\ Operand \in Nodes /\ UNCHANGED <<model, phase, todo, memo, fault>>
  BY DEF Descend
<1>2. calls' = [calls EXCEPT ![Len(calls)] = g]
  BY <1>1, TopIsCall DEF Descend
<1>3. q \in Seq(Expressions) /\ Data.leads[Operand] = Rest(Data, q) /\ Table(Data)
  BY <1>1, KidsAreExpressions, LeadsToKids, DataIsTable DEF MemoInv
<1>4. Head(Top.left) = Operand
  BY DEF Operand
<1> HIDE DEF q
<1>5. g \in Calls /\ Partial(Data, memo, g)
  BY <1>1, <1>3, <1>4, TopIsCall, PartialDescends
<1>6. g.of = calls[Len(calls)].of
  BY <1>1, TopIsCall DEF Calls
<1> HIDE DEF g
<1>7. Kept(Data, memo) /\ Stack(Data, memo, calls)
  BY DEF MemoInv
<1>8. Stack(Data, memo, calls') /\ calls' # << >> /\ calls'[1].of = calls[1].of
  <2>1. Len(calls) > 0
    BY <1>1, TopIsCall
  <2>2. /\ Stack(Data, memo, [calls EXCEPT ![Len(calls)] = g])
        /\ [calls EXCEPT ![Len(calls)] = g] # << >>
        /\ [calls EXCEPT ![Len(calls)] = g][1].of = calls[1].of
    BY ONLY <1>5, <1>6, <1>7, <2>1, StackGoesOn
  <2> QED
    BY <1>2, <2>2
<1> QED
  BY <1>1, <1>7, <1>8, CallStep DEF Reading

\* A name whose class is known.
LEMMA JoinKeeps ==
  ASSUME MemoInv, Reading, UNCHANGED <<model, phase, todo, memo, fault>>,
         Operand \in Leaves, NEW c, c = Fast(Data, {Operand}),
         Operand \in Data.obs => Operand \in DOMAIN memo,
         calls' = Joined(calls, c)
  PROVE  MemoInv'
<1> DEFINE g == [Top EXCEPT !.left = Tail(@), !.acc = Join({@, c})]
<1>1. calls' = [calls EXCEPT ![Len(calls)] = g]
  BY TopIsCall DEF Joined
<1>2. Table(Data)
  BY DataIsTable DEF MemoInv
<1>3. Head(Top.left) = Operand
  BY DEF Operand
<1>4. g \in Calls /\ Partial(Data, memo, g)
  BY <1>2, <1>3, TopIsCall, PartialTakes
<1>5. g.of = calls[Len(calls)].of
  BY TopIsCall DEF Calls
<1> HIDE DEF g
<1>6. Kept(Data, memo) /\ Stack(Data, memo, calls)
  BY DEF MemoInv
<1>7. Stack(Data, memo, calls') /\ calls' # << >> /\ calls'[1].of = calls[1].of
  <2>1. Len(calls) > 0
    BY TopIsCall
  <2>2. /\ Stack(Data, memo, [calls EXCEPT ![Len(calls)] = g])
        /\ [calls EXCEPT ![Len(calls)] = g] # << >>
        /\ [calls EXCEPT ![Len(calls)] = g][1].of = calls[1].of
    BY ONLY <1>4, <1>5, <1>6, <2>1, StackGoesOn
  <2> QED
    BY <1>1, <2>2
<1> QED
  BY <1>6, <1>7, CallStep DEF Reading

LEMMA TakeSeedKeeps == ASSUME MemoInv, TakeSeed PROVE MemoInv'
<1>1. /\ Reading /\ Operand \in Leaves \ ObservedUnknowns /\ calls' = Joined(calls, SeedLeaf(Operand))
      /\ UNCHANGED <<model, phase, todo, memo, fault>>
  BY DEF TakeSeed
<1>2. Operand \in Data.names /\ Operand \notin Data.obs /\ Data.seed[Operand] = SeedLeaf(Operand)
  BY <1>1 DEF Data, Named
<1>3. SeedLeaf(Operand) = Fast(Data, {Operand})
  BY <1>2, FastLeaf, DataIsTable DEF MemoInv
<1> QED
  BY <1>1, <1>2, <1>3, JoinKeeps

LEMMA TakeMemoKeeps == ASSUME MemoInv, TakeMemo PROVE MemoInv'
<1>1. /\ Reading /\ Operand \in DOMAIN memo /\ calls' = Joined(calls, memo[Operand])
      /\ UNCHANGED <<model, phase, todo, memo, fault>>
  BY DEF TakeMemo
<1>2. memo[Operand] = Fast(Data, {Operand}) /\ Operand \in Data.obs
  BY <1>1 DEF MemoInv, Kept
<1>3. Operand \in Leaves
  BY <1>2, DataIsTable DEF MemoInv, Table
<1> QED
  BY <1>1, <1>2, <1>3, JoinKeeps

\* The observeds whose definitions are being classified.
LEMMA ResolvingIs ==
  ASSUME MemoInv, calls # << >>
  PROVE  /\ Resolving \in Seq(Data.obs) /\ Len(Resolving) = Len(calls) - 1
         /\ \A i \in 1 .. Len(calls) - 1 :
              /\ Resolving[i] = calls[i + 1].of
              /\ calls[i + 1] \in Calls /\ Partial(Data, memo, calls[i + 1])
              /\ Resolving[i] \in Data.obs \ DOMAIN memo
         /\ \A i, j \in 1 .. Len(calls) - 1 : Resolving[i] = Resolving[j] => i = j
<1>1. Stack(Data, memo, calls)
  BY DEF MemoInv
<1>2. calls \in Seq(Calls) /\ Len(calls) \in Nat /\ Len(calls) > 0
  BY <1>1 DEF Stack
<1>3. ASSUME NEW i \in 1 .. Len(calls) - 1
      PROVE  /\ i + 1 \in 1 .. Len(calls) /\ i + 1 # 1
             /\ Resolving[i] = calls[i + 1].of /\ calls[i + 1] \in Calls
  BY <1>2 DEF Resolving
<1>4. ASSUME NEW i \in 1 .. Len(calls) - 1
      PROVE  Partial(Data, memo, calls[i + 1]) /\ Resolving[i] \in Data.obs \ DOMAIN memo
  BY <1>1, <1>3 DEF Stack
<1>5. ASSUME NEW i \in 1 .. Len(calls) - 1, NEW j \in 1 .. Len(calls) - 1,
             Resolving[i] = Resolving[j]
      PROVE  i = j
  <2>1. calls[i + 1].of = calls[j + 1].of /\ i + 1 \in 1 .. Len(calls) /\ j + 1 \in 1 .. Len(calls)
    BY <1>3, <1>5
  <2>2. i + 1 = j + 1
    BY <1>1, <2>1 DEF Stack
  <2> QED
    BY <2>2
<1>6. Resolving \in Seq(Data.obs) /\ Len(Resolving) = Len(calls) - 1
  <2>1. Resolving \in [1 .. Len(calls) - 1 -> Data.obs] /\ Len(calls) - 1 \in Nat
    BY <1>2, <1>4 DEF Resolving
  <2> QED
    BY <2>1
<1> QED
  BY <1>3, <1>4, <1>5, <1>6

LEMMA ResolveKeeps == ASSUME MemoInv, Resolve PROVE MemoInv'
<1> DEFINE f == [of |-> Operand, left |-> <<Definition(Operand)>>, acc |-> Const]
<1>1. /\ Reading /\ Operand \in ObservedUnknowns \ DOMAIN memo
      /\ ~Contains(Resolving, Operand) /\ calls' = Append(calls, f)
      /\ UNCHANGED <<model, phase, todo, memo, fault>>
  BY DEF Resolve, Unresolved
<1>2. model \in Models /\ Table(Data) /\ Operand \in Data.obs
  BY <1>1, DataIsTable DEF MemoInv, Data
<1>3. Data.reads[Operand] = Data.leads[Definition(Operand)] /\ Definition(Operand) \in Expressions
  BY <1>2, ReadsDefinition
<1>4. Operand \notin Nodes
  BY <1>2, NodesAreNotNames
<1>5. f \in Calls /\ f.of = Operand /\ f.acc = Const /\ f.left = <<Definition(Operand)>>
  BY <1>1, <1>3, TopIsCall DEF Calls, Classes, Const, Continuous
<1>6. Rest(Data, f.left) = Whole(Data, f.of)
  <2>1. Rest(Data, <<Definition(Operand)>>) = Data.leads[Definition(Operand)]
    BY <1>3, RestOne
  <2> QED
    BY <1>2, <1>3, <1>5, <2>1 DEF Whole
<1> HIDE DEF f
<1>7. Partial(Data, memo, f)
  BY <1>2, <1>5, <1>6, PartialStarts
<1>8. Stack(Data, memo, calls) /\ Kept(Data, memo)
  BY DEF MemoInv
<1>9. calls # << >> /\ Len(calls) > 0 /\ calls[Len(calls)].left # << >>
      /\ f.of = Head(calls[Len(calls)].left)
  BY <1>1, <1>5, TopIsCall DEF Operand, Reading
<1>10. \A i \in 1 .. Len(calls) - 1 : calls[i + 1].of # f.of
  BY <1>1, <1>5, <1>9, ResolvingIs DEF Contains
<1>11. f.of \in Data.obs \ DOMAIN memo /\ f.of \notin Nodes /\ f \in Calls
  BY <1>1, <1>2, <1>4, <1>5
<1>12. /\ Stack(Data, memo, Append(calls, f)) /\ Append(calls, f) # << >>
       /\ Append(calls, f)[1].of = calls[1].of
  BY ONLY <1>7, <1>8, <1>9, <1>10, <1>11, StackGrows
<1> QED
  BY <1>1, <1>8, <1>9, <1>12, CallStep

LEMMA RefuseLeafKeeps == ASSUME MemoInv, RefuseLeaf PROVE MemoInv'
<1>1. /\ phase' = "failed" /\ fault' = [kind |-> "unexpected leaf", path |-> <<Operand>>]
      /\ UNCHANGED <<model, todo, calls, memo>>
  BY DEF RefuseLeaf, Fail
<1>2. Data' = Data /\ RootNodes' = RootNodes
  BY <1>1, SameData, SameRoots
<1>3. Kept(Data, memo)' /\ Stack(Data, memo, calls)'
  BY <1>1, <1>2 DEF MemoInv
<1>4. Progress(Data)'
  BY <1>1, <1>2 DEF MemoInv, Progress
<1>5. fault'.kind = "unexpected leaf"
  BY <1>1
<1> QED
  BY <1>1, <1>3, <1>4, <1>5 DEF MemoInv

LEMMA RefuseCycleKeeps == ASSUME MemoInv, RefuseCycle PROVE MemoInv'
<1> DEFINE n == Len(calls) - 1
           P == Append(Resolving, Operand)
<1>1. /\ Reading /\ Operand \in ObservedUnknowns /\ Contains(Resolving, Operand)
      /\ phase' = "failed" /\ fault' = [kind |-> "observed cycle", path |-> P]
      /\ UNCHANGED <<model, todo, calls, memo>>
  BY DEF RefuseCycle, Unresolved, Fail
<1>2. Table(Data) /\ Stack(Data, memo, calls) /\ calls # << >>
  BY <1>1, DataIsTable DEF MemoInv, Reading
<1>3. /\ Resolving \in Seq(Data.obs) /\ Len(Resolving) = n
      /\ \A i \in 1 .. n : /\ Resolving[i] = calls[i + 1].of
                           /\ calls[i + 1] \in Calls /\ Partial(Data, memo, calls[i + 1])
  BY <1>2, ResolvingIs
<1>4. Operand \in Data.obs
  BY <1>1 DEF Data
<1>5. /\ P \in Seq(Data.obs) /\ Len(P) = n + 1 /\ P[n + 1] = Operand
      /\ \A i \in 1 .. n : P[i] = Resolving[i]
      /\ n \in Nat
  BY <1>3, <1>4
<1> HIDE DEF P
<1>6. ASSUME NEW i \in 1 .. n
      PROVE  calls[i + 1].left # << >> /\ Head(calls[i + 1].left) = P[i + 1]
  <2>1. CASE i = n
    <3>1. i + 1 = Len(calls) /\ P[i + 1] = Operand
      BY <2>1, <1>5
    <3> QED
      BY <3>1, <1>1, TopIsCall DEF Operand
  <2>2. CASE i # n
    <3>1. i + 1 \in 1 .. n
      BY <2>2, <1>5
    <3>2. calls[i + 1].left # << >> /\ Head(calls[i + 1].left) = calls[(i + 1) + 1].of
      BY <1>2, <3>1 DEF Stack
    <3> QED
      BY <3>1, <3>2, <1>3, <1>5
  <2> QED
    BY <2>1, <2>2
<1>7. ASSUME NEW i \in 1 .. n
      PROVE  P[i] \in Data.obs /\ P[i + 1] \in Data.reads[P[i]]
  <2> DEFINE g == calls[i + 1]
  <2>1. P[i] = g.of /\ P[i] \in Data.obs /\ g \in Calls /\ Partial(Data, memo, g)
    BY <1>3, <1>5
  <2>2. g.left # << >> /\ Head(g.left) = P[i + 1]
    BY <1>6
  <2> HIDE DEF g
  <2>3. P[i + 1] \in Data.obs
    BY <1>5
  <2>4. P[i + 1] \in Data.leads[Head(g.left)]
    BY <1>2, <2>2, <2>3 DEF Table
  <2>5. g.left \in Seq(Expressions)
    BY <2>1 DEF Calls
  <2>6. Rest(Data, g.left) = Data.leads[Head(g.left)] \union Rest(Data, Tail(g.left))
    BY <2>2, <2>5, RestHead
  <2>7. P[i + 1] \in Whole(Data, g.of)
    BY <2>1, <2>4, <2>6 DEF Partial
  <2> QED
    BY <2>1, <2>7 DEF Whole
<1>8. \E i \in 1 .. n : P[i] = P[n + 1]
  BY <1>1, <1>3, <1>5 DEF Contains
<1>9. PathIsReal(Data, P)
  BY <1>5, <1>7, <1>8 DEF PathIsReal
<1>10. Data' = Data /\ RootNodes' = RootNodes
  BY <1>1, SameData, SameRoots
<1>11. fault'.path = P
  BY <1>1
<1>12. Progress(Data)'
  BY <1>1, <1>10 DEF MemoInv, Progress
<1>13. PathIsReal(Data, fault.path)'
  BY <1>9, <1>10, <1>11
<1> QED
  BY <1>1, <1>2, <1>10, <1>12, <1>13 DEF MemoInv

LEMMA MemoiseKeeps == ASSUME MemoInv, Memoise PROVE MemoInv'
<1> DEFINE n == Len(calls)
           x == Top.of
           N == [y \in DOMAIN memo \union {x} |-> IF y = x THEN Top.acc ELSE memo[y]]
           B == SubSeq(calls, 1, Len(calls) - 1)
<1>1. /\ phase # "failed" /\ n > 1 /\ Top.left = << >> /\ memo' = N
      /\ calls' = Joined(B, Top.acc)
      /\ UNCHANGED <<model, phase, todo, fault>>
  BY DEF Memoise, Front
<1>2. Table(Data) /\ Stack(Data, memo, calls) /\ Kept(Data, memo)
  BY DataIsTable DEF MemoInv
<1>3. calls \in Seq(Calls) /\ n \in Nat /\ calls # << >> /\ Top = calls[n] /\ n \in 1 .. n
  BY <1>1, <1>2 DEF Stack, Top, Last
<1>4. Top \in Calls /\ Partial(Data, memo, Top) /\ x \in Data.obs \ DOMAIN memo
  <2>1. calls[n] \in Calls
    BY <1>3
  <2> QED
    BY <1>1, <1>2, <1>3, <2>1 DEF Stack
<1>5. Data.reads[x] \intersect Data.obs \subseteq DOMAIN memo /\ Top.acc = Fast(Data, Data.reads[x])
  <2>1. Whole(Data, x) = Data.reads[x]
    BY <1>4 DEF Whole
  <2> QED
    BY <1>1, <1>2, <1>4, <2>1, PartialEnds
<1>6. Kept(Data, N)
  BY <1>2, <1>4, <1>5, KeepOne
<1>7. DOMAIN N = DOMAIN memo \union {calls[n].of} /\ x \in DOMAIN N
  BY <1>3
<1>8. Top.acc = Fast(Data, {x})
  BY <1>4, <1>5, FastOne
<1> HIDE DEF N, B
<1>9. /\ Stack(Data, N, B) /\ Len(B) = n - 1 /\ B[1] = calls[1]
      /\ calls[n - 1].left # << >> /\ Head(calls[n - 1].left) = calls[n].of
      /\ B[n - 1] = calls[n - 1]
  BY <1>1, <1>2, <1>7, StackShrinks DEF B
<1> DEFINE t == B[n - 1]
           c == Top.acc
           g == [t EXCEPT !.left = Tail(@), !.acc = Join({@, c})]
<1>10. B \in Seq(Calls) /\ Len(B) > 0 /\ Len(B) \in 1 .. Len(B)
  BY <1>1, <1>3, <1>9 DEF Stack
<1>11. t \in Calls /\ Partial(Data, N, t) /\ t.left # << >> /\ Head(t.left) = x
  <2>1. t \in Calls
    BY <1>9, <1>10
  <2> QED
    BY <1>3, <1>9, <1>10, <2>1 DEF Stack
<1>12. calls' = [B EXCEPT ![Len(B)] = g]
  BY <1>1, <1>9, <1>10 DEF Joined
<1>13. x \in Leaves
  BY <1>2, <1>4 DEF Table
<1> HIDE DEF t, c, x
<1>14. c = Fast(Data, {x})
  BY <1>8 DEF c
<1>15. g \in Calls /\ Partial(Data, N, g)
  BY <1>2, <1>7, <1>11, <1>13, <1>14, PartialTakes
<1>16. g.of = B[Len(B)].of
  BY <1>9, <1>11 DEF Calls, t
<1> HIDE DEF g
<1>17. /\ Stack(Data, N, [B EXCEPT ![Len(B)] = g]) /\ [B EXCEPT ![Len(B)] = g] # << >>
       /\ [B EXCEPT ![Len(B)] = g][1].of = B[1].of
  BY ONLY <1>9, <1>10, <1>15, <1>16, StackGoesOn
<1>18. Stack(Data, N, calls') /\ calls' # << >> /\ calls'[1].of = calls[1].of
  BY <1>9, <1>12, <1>17
<1> QED
  BY <1>1, <1>3, <1>6, <1>7, <1>18, CallStep

---------------------------------------------------------------------------
(* The rounds *)

\* The next expression is replaced by its children.
LEMMA TodoGoesOn ==
  ASSUME MemoInv, todo # << >>
  PROVE  /\ Head(todo) \in Expressions /\ Tail(todo) \in Seq(Expressions)
         /\ Children(Head(todo)) \o Tail(todo) \in Seq(Expressions)
         /\ Head(todo) \notin Nodes => Children(Head(todo)) \o Tail(todo) = Tail(todo)
         /\ \A n \in ToSet(todo) : n = Head(todo) \/ n \in ToSet(Tail(todo))
<1>1. todo \in Seq(Expressions)
  BY DEF MemoInv, Progress
<1>2. /\ Head(todo) \in Expressions /\ Tail(todo) \in Seq(Expressions)
      /\ Len(Tail(todo)) = Len(todo) - 1 /\ Head(todo) = todo[1] /\ Len(todo) \in Nat
      /\ \A i \in 1 .. Len(todo) - 1 : Tail(todo)[i] = todo[i + 1]
  BY <1>1
<1>3. Children(Head(todo)) \in Seq(Expressions)
  <2>1. CASE Head(todo) \in Nodes
    <3>1. model.kids[Head(todo)] \in Seq(Expressions)
      BY <2>1, KidsAreExpressions DEF MemoInv
    <3> QED
      BY <2>1, <3>1 DEF Children
  <2>2. CASE Head(todo) \notin Nodes
    BY <2>2 DEF Children
  <2> QED
    BY <2>1, <2>2
<1>4. Head(todo) \notin Nodes => Children(Head(todo)) \o Tail(todo) = Tail(todo)
  BY <1>2, ConcatEmptySeq DEF Children
<1>5. ASSUME NEW n \in ToSet(todo), n # Head(todo) PROVE n \in ToSet(Tail(todo))
  <2>1. PICK i \in 1 .. Len(todo) : n = todo[i]
    BY <1>1 DEF ToSet
  <2>2. i - 1 \in 1 .. Len(Tail(todo)) /\ Tail(todo)[i - 1] = n
    BY <1>2, <1>5, <2>1
  <2>3. DOMAIN Tail(todo) = 1 .. Len(Tail(todo))
    BY <1>2
  <2> QED
    BY <2>2, <2>3 DEF ToSet
<1> QED
  BY <1>2, <1>3, <1>4, <1>5, ConcatProperties

LEMMA PassKeeps == ASSUME MemoInv, Pass PROVE MemoInv'
<1>1. /\ phase # "failed" /\ calls = << >> /\ todo # << >> /\ ~Wanted(Head(todo))
      /\ todo' = Children(Head(todo)) \o Tail(todo)
      /\ UNCHANGED <<model, phase, calls, memo, fault>>
  BY DEF Pass
<1>2. phase \notin {"sets", "done"}
  BY <1>1 DEF MemoInv, Progress
<1>3. ASSUME phase = "outputs", NEW n \in RootNodes
      PROVE  n \in ToSet(todo') \/ Data.leads[n] \intersect Data.obs \subseteq DOMAIN memo
  <2>1. Head(todo) \notin Nodes
    BY <1>1, <1>3 DEF Wanted
  <2>2. n \in Nodes
    BY RootsAreExpressions DEF MemoInv
  <2>3. n \in ToSet(todo) => n \in ToSet(todo')
    BY <1>1, <2>1, <2>2, TodoGoesOn
  <2> QED
    BY <1>3, <2>3 DEF MemoInv, Progress
<1>4. todo' \in Seq(Expressions)
  BY <1>1, TodoGoesOn
<1> QED
  BY <1>1, <1>2, <1>3, <1>4, QuietStep DEF MemoInv

\* The call that a round made is over.
LEMMA AnswerIs ==
  ASSUME MemoInv, Answered
  PROVE  /\ todo # << >> /\ Top.of = Head(todo) /\ Top.of \in Nodes
         /\ Data.leads[Top.of] \intersect Data.obs \subseteq DOMAIN memo
<1>1. Table(Data) /\ Stack(Data, memo, calls) /\ model \in Models
  BY DataIsTable DEF MemoInv
<1>2. /\ calls \in Seq(Calls) /\ Len(calls) = 1 /\ calls # << >> /\ Top = calls[1]
      /\ Top.left = << >> /\ 1 \in 1 .. Len(calls)
  <2>1. calls \in Seq(Calls)
    BY <1>1 DEF Stack
  <2>2. Len(calls) = 1 /\ Top.left = << >> /\ Top = calls[Len(calls)]
    BY DEF Answered, Top, Last
  <2>3. calls # << >>
    <3>1. Len(calls) # Len(<< >>)
      BY <2>2
    <3> QED
      BY <3>1
  <2> QED
    BY <2>1, <2>2, <2>3
<1>3. Top \in Calls /\ Partial(Data, memo, Top) /\ Top.of \in Nodes
  <2>1. calls[1] \in Calls
    BY <1>2
  <2> QED
    BY <1>1, <1>2, <2>1 DEF Stack
<1>4. Whole(Data, Top.of) = Data.leads[Top.of]
  BY <1>1, <1>3, NodesAreNotNames DEF Whole
<1>5. Data.leads[Top.of] \intersect Data.obs \subseteq DOMAIN memo
  BY <1>1, <1>2, <1>3, <1>4, PartialEnds
<1>6. todo # << >> /\ Top.of = Head(todo)
  BY <1>2 DEF MemoInv, Progress
<1> QED
  BY <1>3, <1>5, <1>6

LEMMA CheckKeeps == ASSUME MemoInv, CheckExpect \/ CheckRelational PROVE MemoInv'
<1>1. /\ phase \in {"expect", "relational"} /\ Answered /\ calls' = << >>
      /\ todo' = Children(Top.of) \o Tail(todo) /\ UNCHANGED <<model, memo>>
  BY DEF CheckExpect, CheckRelational
<1>2. todo' \in Seq(Expressions)
  BY <1>1, AnswerIs, TodoGoesOn
<1>3. \/ UNCHANGED <<phase, fault>>
      \/ phase' = "failed" /\ fault' = [kind |-> "continuous relational", path |-> <<Top.of>>]
  BY DEF CheckExpect, CheckRelational, Fail
<1>4. CASE UNCHANGED <<phase, fault>>
  BY <1>1, <1>2, <1>4, QuietStep
<1>5. CASE phase' = "failed" /\ fault' = [kind |-> "continuous relational", path |-> <<Top.of>>]
  <2>1. fault'.kind # "observed cycle"
    BY <1>5
  <2> QED
    BY <1>1, <1>2, <1>5, <2>1, QuietStep
<1> QED
  BY <1>3, <1>4, <1>5

LEMMA OutputKeeps == ASSUME MemoInv, Output PROVE MemoInv'
<1>1. /\ phase = "outputs" /\ Answered /\ calls' = << >> /\ todo' = Tail(todo)
      /\ UNCHANGED <<model, phase, memo, fault>>
  BY DEF Output
<1>2. todo # << >> /\ Top.of = Head(todo)
      /\ Data.leads[Top.of] \intersect Data.obs \subseteq DOMAIN memo
  BY <1>1, AnswerIs
<1>3. ASSUME NEW n \in RootNodes
      PROVE  n \in ToSet(todo') \/ Data.leads[n] \intersect Data.obs \subseteq DOMAIN memo
  <2>1. n \in ToSet(todo) \/ Data.leads[n] \intersect Data.obs \subseteq DOMAIN memo
    BY <1>1 DEF MemoInv, Progress
  <2>2. n \in ToSet(todo) => n = Top.of \/ n \in ToSet(todo')
    BY <1>1, <1>2, TodoGoesOn
  <2> QED
    BY <1>2, <2>1, <2>2
<1>4. todo' \in Seq(Expressions)
  BY <1>1, <1>2, TodoGoesOn
<1> QED
  BY <1>1, <1>3, <1>4, QuietStep

LEMMA RoundEndKeeps ==
  ASSUME MemoInv, EndExpect \/ EndRelational \/ EndOutputs \/ EndSets
  PROVE  MemoInv'
<1>1. model \in Models /\ todo \in Seq(Expressions) /\ UNCHANGED <<model, memo>>
  BY DEF MemoInv, Progress, EndExpect, EndRelational, EndOutputs, EndSets
<1>2. Roots \in Seq(Expressions)
  BY <1>1, RootsAreExpressions
<1>3. CASE EndExpect
  <2>1. /\ calls' = << >>
        /\ \/ /\ phase' = "failed" /\ todo' = todo
              /\ fault' = [kind |-> "expect mismatch", path |-> << >>]
           \/ phase' = "relational" /\ todo' = Roots /\ fault' = fault
    BY <1>3 DEF EndExpect, RoundOver, Fail
  <2>2. fault' = fault \/ fault'.kind # "observed cycle"
    <3>1. CASE fault' = [kind |-> "expect mismatch", path |-> << >>]
      <4>1. fault'.kind = "expect mismatch"
        BY <3>1
      <4> QED
        BY <4>1
    <3> QED
      BY <2>1, <3>1
  <2> QED
    BY <1>1, <1>2, <2>1, <2>2, QuietStep
<1>4. CASE EndRelational
  <2>1. phase' = "sets" /\ todo' = << >> /\ calls' = << >> /\ fault' = fault
    BY <1>4 DEF EndRelational, RoundOver
  <2> QED
    BY <1>1, <2>1, QuietStep
<1>5. CASE EndOutputs
  <2>1. phase = "outputs" /\ phase' = "done" /\ todo' = todo /\ todo = << >> /\ calls' = << >> /\ fault' = fault
    BY <1>5 DEF EndOutputs, RoundOver
  <2>2. \A n \in RootNodes :
          n \in ToSet(todo') \/ Data.leads[n] \intersect Data.obs \subseteq DOMAIN memo
    BY <2>1 DEF MemoInv, Progress
  <2> QED
    BY <1>1, <2>1, <2>2, QuietStep
<1>6. CASE EndSets
  <2>1. phase = "sets" /\ phase' = "outputs" /\ todo' = Roots /\ calls' = calls /\ fault' = fault
    BY <1>6 DEF EndSets
  <2>2. calls' = << >>
    BY <2>1 DEF MemoInv, Progress
  <2>3. \A n \in RootNodes : n \in ToSet(todo')
    BY <1>1, <2>1, RootsAreExpressions
  <2> QED
    BY <1>1, <1>2, <2>1, <2>2, <2>3, QuietStep
<1> QED
  BY <1>3, <1>4, <1>5, <1>6

\* The walk over the index sets comes when nothing is being classified.
LEMMA SetsKeep ==
  ASSUME MemoInv, StartVisit \/ ReadNext \/ EndVisit
  PROVE  MemoInv'
<1>1. phase = "sets" /\ UNCHANGED <<model, memo, todo, calls>>
  BY DEF StartVisit, ReadNext, EndVisit
<1>2. todo = << >> /\ calls = << >> /\ todo \in Seq(Expressions)
  BY <1>1 DEF MemoInv, Progress
<1>3. \/ phase' = phase /\ fault' = fault
      \/ phase' = "failed" /\ \E p : fault' = [kind |-> "set cycle", path |-> p]
  BY DEF StartVisit, ReadNext, EndVisit, Visit, Fail
<1>4. fault' = fault \/ fault'.kind # "observed cycle"
  <2>1. CASE fault' = fault
    BY <2>1
  <2>2. CASE \E p : fault' = [kind |-> "set cycle", path |-> p]
    <3>1. PICK p : fault' = [kind |-> "set cycle", path |-> p]
      BY <2>2
    <3>2. fault'.kind = "set cycle"
      BY <3>1
    <3> QED
      BY <3>2
  <2> QED
    BY <1>3, <2>1, <2>2
<1> QED
  BY <1>1, <1>2, <1>3, <1>4, QuietStep

LEMMA MemoStep == MemoInv /\ [Next]_vars => MemoInv'
<1> SUFFICES ASSUME MemoInv, [Next]_vars PROVE MemoInv'
  OBVIOUS
<1>1. CASE Returned \/ UNCHANGED vars
  <2>1. UNCHANGED <<model, phase, todo, calls, memo, fault>>
    BY <1>1 DEF Returned, vars
  <2>2. Data' = Data /\ RootNodes' = RootNodes
    BY <2>1, SameData, SameRoots
  <2>3. Progress(Data)'
    BY <2>1, <2>2 DEF MemoInv, Progress
  <2> QED
    BY <2>1, <2>2, <2>3 DEF MemoInv
<1> QED
  BY <1>1, AskKeeps, PassKeeps, DescendKeeps, TakeSeedKeeps, TakeMemoKeeps, ResolveKeeps,
     RefuseLeafKeeps, RefuseCycleKeeps, MemoiseKeeps, CheckKeeps, OutputKeeps, RoundEndKeeps, SetsKeep DEF Next

---------------------------------------------------------------------------
(* What follows *)

(***************************************************************************)
(* For any model, whatever is asked and in what order: the classes kept    *)
(* are those of everything behind their observeds, and the calls under way *)
(* are definitions that lead to each other, none of them twice             *)
(* (Ctx::classify, Ctx::seed_observed).                                    *)
(***************************************************************************)
THEOREM MemoInvariant == Spec => []MemoInv
<1> QED
  BY MemoStarts, MemoStep, PTL DEF Spec

\* The join of Cadence's properties is that of the data.
LEMMA DataSaysWhatIsTrue ==
  ASSUME model \in Models
  PROVE  /\ \A S \in SUBSET Named : Behind(S) = Below(Data, S) /\ TrueClass(S) = Fast(Data, S)
         /\ \A x \in ObservedUnknowns : DefReads(x) = Data.reads[x] /\ DefReads(x) \in SUBSET Named
         /\ \A n \in Nodes : LeavesUnder(n) = Data.leads[n] /\ LeavesUnder(n) \in SUBSET Named
         /\ Data.obs = ObservedUnknowns /\ Data.obs \subseteq Named
<1>1. Data.obs = ObservedUnknowns /\ \A x \in ObservedUnknowns : DefReads(x) = Data.reads[x]
  BY DEF Data
<1>2. Table(Data) /\ Data.names = Named
  BY DataIsTable DEF Data
<1>3. \A S : Behind(S) = Below(Data, S)
  BY <1>1 DEF Behind, Below
<1>4. ASSUME NEW S \in SUBSET Named PROVE TrueClass(S) = Fast(Data, S)
  <2>1. (S \union UNION {DefReads(y) : y \in Behind(S)}) \ ObservedUnknowns = Seeds(Data, S)
    <3>1. \A y \in Below(Data, S) : DefReads(y) = Data.reads[y]
      BY <1>1, BelowIsClosed
    <3>2. {DefReads(y) : y \in Behind(S)} = {Data.reads[y] : y \in Below(Data, S)}
      BY <1>3, <3>1
    <3> QED
      BY <1>1, <3>2 DEF Seeds
  <2>2. Seeds(Data, S) \subseteq Named
    BY <1>2, SeedsAreNames
  <2>3. {SeedLeaf(x) : x \in Seeds(Data, S)} = {Data.seed[x] : x \in Seeds(Data, S)}
    BY <2>2 DEF Data
  <2> QED
    BY <2>1, <2>3 DEF TrueClass, Fast
<1>5. \A n \in Nodes : LeavesUnder(n) = Data.leads[n] /\ LeavesUnder(n) \in SUBSET Named
  BY DEF Data, Expressions, Named
<1>6. \A x \in ObservedUnknowns : DefReads(x) \in SUBSET Named
  BY <1>1, <1>2 DEF Table
<1> QED
  BY <1>1, <1>2, <1>3, <1>4, <1>5, <1>6 DEF Table

LEMMA KeptIsNotCircular ==
  ASSUME MemoInv, NEW S, S \intersect ObservedUnknowns \subseteq DOMAIN memo, S \in SUBSET Named
  PROVE  \A y \in Behind(S) : ~Circular(y)
<1>1. Kept(Data, memo) /\ model \in Models
  BY DEF MemoInv
<1>2. Behind(S) = Below(Data, S) /\ S \intersect Data.obs \subseteq DOMAIN memo
  BY <1>1, DataSaysWhatIsTrue
<1>3. Behind(S) \subseteq DOMAIN memo
  BY <1>1, <1>2, KeptIsClosed
<1>4. ASSUME NEW y \in DOMAIN memo PROVE ~Circular(y)
  <2>1. y \in ObservedUnknowns /\ y \notin Below(Data, Data.reads[y])
    BY <1>1, DataSaysWhatIsTrue DEF Kept
  <2> QED
    BY <1>1, <2>1, DataSaysWhatIsTrue DEF Circular
<1> QED
  BY <1>3, <1>4

(***************************************************************************)
(* For any model: a class kept in the memo is the join of all the leaves   *)
(* behind that observed, whatever was asked before, and no observed that   *)
(* reaches a circular definition is given one (Ctx::seed_observed).        *)
(***************************************************************************)
THEOREM MemoIsAlwaysJoin == Spec => []MemoIsJoin
<1>1. MemoInv => MemoIsJoin
  <2> SUFFICES ASSUME MemoInv, NEW x \in DOMAIN memo
               PROVE  memo[x] = TrueClass({x}) /\ \A y \in Behind({x}) : ~Circular(y)
    BY DEF MemoIsJoin
  <2>1. Kept(Data, memo) /\ model \in Models
    BY DEF MemoInv
  <2>2. x \in Data.obs /\ memo[x] = Fast(Data, {x})
    BY <2>1 DEF Kept
  <2>3. {x} \in SUBSET Named
    BY <2>1, <2>2, DataSaysWhatIsTrue
  <2>4. memo[x] = TrueClass({x})
    BY <2>1, <2>2, <2>3, DataSaysWhatIsTrue
  <2> QED
    BY <2>3, <2>4, KeptIsNotCircular
<1> QED
  BY <1>1, MemoInvariant, PTL

(***************************************************************************)
(* For any model: nothing behind an operator right-hand side of a          *)
(* partition that is returned is circular, and the path that a refusal     *)
(* names leads from definition to definition and closes                    *)
(* (Ctx::seed_observed).                                                   *)
(***************************************************************************)
THEOREM ObservedCyclesAreRefused == Spec => []ObservedCyclesRefused
<1>1. MemoInv => ObservedCyclesRefused
  <2> SUFFICES ASSUME MemoInv PROVE ObservedCyclesRefused
    OBVIOUS
  <2>1. model \in Models
    BY DEF MemoInv
  <2>2. ASSUME phase = "done", NEW n \in RootNodes
        PROVE  \A x \in Behind(LeavesUnder(n)) : ~Circular(x)
    <3>1. n \in Nodes
      BY <2>1, RootsAreExpressions
    <3>2. todo = << >>
      BY <2>2 DEF MemoInv, Progress
    <3>3. n \notin ToSet(todo)
      BY <3>2 DEF ToSet
    <3>4. Data.leads[n] \intersect Data.obs \subseteq DOMAIN memo
      BY <2>2, <3>3 DEF MemoInv, Progress
    <3>5. LeavesUnder(n) \intersect ObservedUnknowns \subseteq DOMAIN memo /\ LeavesUnder(n) \in SUBSET Named
      BY <2>1, <3>1, <3>4, DataSaysWhatIsTrue
    <3> QED
      BY <3>5, KeptIsNotCircular
  <2>3. ASSUME fault # None, fault.kind = "observed cycle"
        PROVE  Closes(fault.path, LAMBDA x, y : y \in DefReads(x))
    <3>1. PathIsReal(Data, fault.path)
      BY <2>3 DEF MemoInv
    <3>2. \A x \in Data.obs : DefReads(x) = Data.reads[x]
      BY <2>1, DataSaysWhatIsTrue
    <3> QED
      BY <3>1, <3>2 DEF PathIsReal, Closes, Last
  <2> QED
    BY <2>2, <2>3 DEF ObservedCyclesRefused
<1> QED
  BY <1>1, MemoInvariant, PTL

\* A colour for each set that was visited, and for no other.
ColoursAreKept == colour \in [DOMAIN colour -> {"gray", "black"}]

LEMMA ColoursStand == ColoursAreKept /\ [Next]_vars => ColoursAreKept'
<1> SUFFICES ASSUME ColoursAreKept, [Next]_vars PROVE ColoursAreKept'
  OBVIOUS
<1>1. \A s, c : c \in {"gray", "black"} => Paint(s, c) \in [DOMAIN Paint(s, c) -> {"gray", "black"}]
  BY DEF Paint, ColoursAreKept
<1>2. colour' = colour \/ \E s : \E c \in {"gray", "black"} : colour' = Paint(s, c)
  <2>1. CASE StartVisit \/ ReadNext \/ EndVisit
    BY <2>1 DEF StartVisit, ReadNext, EndVisit, Visit
  <2>2. CASE ~(StartVisit \/ ReadNext \/ EndVisit)
    BY <2>2 DEF Next, Ask, Pass, Descend, TakeSeed, RefuseLeaf, TakeMemo, Resolve, RefuseCycle, Memoise,
         CheckExpect, CheckRelational, Output, EndExpect, EndRelational, EndOutputs, EndSets,
         Returned, vars
  <2> QED
    BY <2>1, <2>2
<1> QED
  BY <1>1, <1>2 DEF ColoursAreKept

(***************************************************************************)
(* For any model, the types of the pass, with no observed being resolved   *)
(* twice and the gray index sets those under way.                          *)
(***************************************************************************)
THEOREM CadenceTypeCorrect == Spec => []TypeOK
<1>1. MemoInv /\ WalkInv /\ ColoursAreKept => TypeOK
  <2> SUFFICES ASSUME MemoInv, WalkInv, ColoursAreKept PROVE TypeOK
    OBVIOUS
  <2>1. /\ phase \in {"expect", "relational", "sets", "outputs", "done", "failed"}
        /\ todo \in Seq(Leaves \union Nodes)
        /\ Kept(Data, memo) /\ model \in Models
    BY DEF MemoInv, Progress, Expressions
  <2>2. memo \in UNION {[D -> Classes] : D \in SUBSET ObservedUnknowns}
    <3>1. DOMAIN memo \in SUBSET ObservedUnknowns /\ memo \in [DOMAIN memo -> Classes]
      BY <2>1, DataSaysWhatIsTrue DEF Kept
    <3> HIDE DEF Classes
    <3> QED
      BY <3>1
  <2>3. ToSet(Resolving) \subseteq ObservedUnknowns \ DOMAIN memo /\ IsInjective(Resolving)
    <3>1. CASE calls = << >>
      <4>1. Len(calls) = 0
        BY <3>1
      <4>2. DOMAIN Resolving = {}
        BY <4>1 DEF Resolving
      <4> QED
        BY <4>2 DEF ToSet, IsInjective
    <3>2. CASE calls # << >>
      <4>1. /\ DOMAIN Resolving = 1 .. Len(calls) - 1
            /\ \A i \in 1 .. Len(calls) - 1 : Resolving[i] \in ObservedUnknowns \ DOMAIN memo
            /\ \A i, j \in 1 .. Len(calls) - 1 : Resolving[i] = Resolving[j] => i = j
        BY <2>1, <3>2, ResolvingIs, DataSaysWhatIsTrue DEF Resolving
      <4> QED
        BY <4>1 DEF ToSet, IsInjective
    <3> QED
      BY <3>1, <3>2
  <2>4. Walk(Derived, ReadsOf, colour, chain)
    BY DEF WalkInv
  <2>5. colour \in UNION {[D -> {"gray", "black"}] : D \in SUBSET Derived}
    <3>1. DOMAIN colour \in SUBSET Derived
      BY <2>4 DEF Walk, WalkTypes
    <3> QED
      BY <3>1 DEF ColoursAreKept
  <2>6. {s \in DOMAIN colour : colour[s] = "gray"} = {f.set : f \in ToSet(chain)}
    <3>1. DOMAIN chain = 1 .. Len(chain)
      BY <2>4 DEF Walk, WalkTypes
    <3>2. ASSUME NEW i \in 1 .. Len(chain)
          PROVE  chain[i].set \in DOMAIN colour /\ colour[chain[i].set] = "gray"
      BY <2>4 DEF Walk, GrayIsUnderWay, IsGray
    <3>3. ASSUME NEW s \in DOMAIN colour, colour[s] = "gray"
          PROVE  \E i \in 1 .. Len(chain) : chain[i].set = s
      BY <2>4, <3>3 DEF Walk, GrayIsUnderWay
    <3> QED
      BY <3>1, <3>2, <3>3 DEF ToSet
  <2> QED
    BY <2>1, <2>2, <2>3, <2>5, <2>6 DEF TypeOK
<1>2. Init => ColoursAreKept
  <2> SUFFICES ASSUME Init PROVE ColoursAreKept
    OBVIOUS
  <2>1. colour = << >>
    BY DEF Init
  <2>2. DOMAIN colour = {} /\ colour \in [{} -> {"gray", "black"}]
    BY <2>1
  <2> QED
    BY <2>2 DEF ColoursAreKept
<1> QED
  BY <1>1, <1>2, ColoursStand, MemoInvariant, WalkInvariant, PTL DEF Spec

---------------------------------------------------------------------------
(* Faster and slower *)

\* A join is no slower than what it joins, and what is behind more is no slower.
LEMMA FastGrows ==
  ASSUME NEW d, Table(d), NEW B \in SUBSET d.names, NEW A \in SUBSET B
  PROVE  Fast(d, A) <= Fast(d, B)
<1>1. A \in SUBSET d.names /\ A \union B = B
  OBVIOUS
<1>2. Fast(d, A) \in Classes /\ Fast(d, B) \in Classes
  BY <1>1, FastIsClass
<1>3. Fast(d, B) = Join({Fast(d, A), Fast(d, B)})
  BY <1>1, FastUnion
<1>4. Join({Fast(d, A), Fast(d, B)}) = IF Fast(d, A) <= Fast(d, B) THEN Fast(d, B) ELSE Fast(d, A)
  BY <1>2, JoinOfTwo
<1> QED
  BY <1>2, <1>3, <1>4 DEF Classes, Const, Continuous

\* What is behind names is what is behind one of them.
LEMMA SeedsOfEach ==
  ASSUME NEW d, NEW S, NEW y, y \in Seeds(d, S)
  PROVE  \E x \in S : y \in Seeds(d, {x})
<1> DEFINE T == UNION {Below(d, {x}) : x \in S}
<1>1. Below(d, S) \subseteq T
  <2>1. T \in SUBSET d.obs
    BY BelowIsClosed
  <2>2. ASSUME NEW x \in S \intersect d.obs PROVE x \in T
    <3>1. x \in Below(d, {x})
      BY BelowIsClosed
    <3> QED
      BY <3>1
  <2>3. ASSUME NEW z \in T PROVE d.reads[z] \intersect d.obs \subseteq T
    <3>1. PICK x \in S : z \in Below(d, {x})
      OBVIOUS
    <3>2. d.reads[z] \intersect d.obs \subseteq Below(d, {x})
      BY <3>1, BelowIsClosed
    <3> QED
      BY <3>2
  <2> HIDE DEF T
  <2> QED
    BY <2>1, <2>2, <2>3, BelowIsLeast
<1>2. CASE y \in S \ d.obs
  BY <1>2, SeedsLeaf
<1>3. CASE \E z \in Below(d, S) : y \in d.reads[z] /\ y \notin d.obs
  <2>1. PICK z \in Below(d, S) : y \in d.reads[z] /\ y \notin d.obs
    BY <1>3
  <2>2. PICK x \in S : z \in Below(d, {x})
    BY <1>1, <2>1
  <2> QED
    BY <2>1, <2>2 DEF Seeds
<1> QED
  BY <1>2, <1>3 DEF Seeds

\* The class of names is the join of the classes of each.
LEMMA FastOfEach ==
  ASSUME NEW d, Table(d), NEW S \in SUBSET d.names
  PROVE  Join({Fast(d, {x}) : x \in S}) = Fast(d, S)
<1> DEFINE A == {Fast(d, {x}) : x \in S}
<1>1. ASSUME NEW x \in S PROVE Fast(d, {x}) \in Classes /\ Fast(d, {x}) <= Fast(d, S)
  <2>1. {x} \in SUBSET S /\ {x} \in SUBSET d.names
    OBVIOUS
  <2> QED
    BY <2>1, FastIsClass, FastGrows
<1>2. A \in SUBSET Classes /\ Fast(d, S) \in Classes
  BY <1>1, FastIsClass
<1>3. \A c \in A : c <= Fast(d, S)
  BY <1>1
<1>4. Fast(d, S) = Const \/ \E c \in A : Fast(d, S) <= c
  <2> DEFINE B == {d.seed[y] : y \in Seeds(d, S)}
  <2>1. B \in SUBSET Classes
    BY SeedsAreNames
  <2>2. Fast(d, S) \in B \union {Const}
    BY <2>1, JoinBounds DEF Fast
  <2>3. ASSUME NEW y \in Seeds(d, S) PROVE \E x \in S : d.seed[y] <= Fast(d, {x})
    <3>1. PICK x \in S : y \in Seeds(d, {x})
      BY SeedsOfEach
    <3>2. {x} \in SUBSET d.names
      OBVIOUS
    <3>3. {d.seed[z] : z \in Seeds(d, {x})} \in SUBSET Classes
      BY <3>2, SeedsAreNames
    <3>4. d.seed[y] <= Join({d.seed[z] : z \in Seeds(d, {x})})
      BY <3>1, <3>3, JoinBounds
    <3> QED
      BY <3>4 DEF Fast
  <2> QED
    BY <2>2, <2>3
<1> HIDE DEF A
<1>5. Join(A) \in Classes /\ Join(A) \in A \union {Const} /\ \A c \in A : c <= Join(A)
  BY <1>2, JoinBounds
<1>6. Join(A) = Fast(d, S)
  <2>1. Join(A) <= Fast(d, S)
    BY <1>2, <1>3, <1>5 DEF Classes, Const, Continuous
  <2>2. Fast(d, S) <= Join(A)
    <3>1. CASE Fast(d, S) = Const
      BY <3>1, <1>5 DEF Classes, Const, Continuous
    <3>2. CASE \E c \in A : Fast(d, S) <= c
      <4>1. PICK c \in A : Fast(d, S) <= c
        BY <3>2
      <4>2. c \in Classes /\ c <= Join(A)
        BY <1>2, <1>5
      <4> QED
        BY <4>1, <4>2, <1>2, <1>5 DEF Classes, Const, Continuous
    <3> QED
      BY <1>4, <3>1, <3>2
  <2> QED
    BY <1>2, <1>5, <2>1, <2>2 DEF Classes, Const, Continuous
<1> QED
  BY <1>6 DEF A

\* What Ctx::classify answers from the memo alone.
LEMMA ClassOfIs ==
  ASSUME MemoInv, NEW n \in Nodes, Data.leads[n] \intersect Data.obs \subseteq DOMAIN memo
  PROVE  ClassOf(n) = Fast(Data, Data.leads[n])
<1> DEFINE S == Data.leads[n]
<1>1. Table(Data) /\ Kept(Data, memo) /\ model \in Models
  BY DataIsTable DEF MemoInv
<1>2. LeavesUnder(n) = S /\ S \in SUBSET Data.names /\ Data.names = Named
  BY <1>1, DataSaysWhatIsTrue DEF Data
<1>3. ASSUME NEW x \in S
      PROVE  (IF x \in ObservedUnknowns THEN memo[x] ELSE SeedLeaf(x)) = Fast(Data, {x})
  <2>1. CASE x \in ObservedUnknowns
    <3>1. x \in DOMAIN memo
      BY <1>1, <2>1, DataSaysWhatIsTrue
    <3> QED
      BY <1>1, <2>1, <3>1 DEF Kept
  <2>2. CASE x \notin ObservedUnknowns
    <3>1. x \notin Data.obs /\ x \in Data.names
      BY <1>1, <1>2, <2>2, DataSaysWhatIsTrue
    <3>2. Fast(Data, {x}) = Data.seed[x]
      BY <1>1, <3>1, FastLeaf
    <3>3. Data.seed[x] = SeedLeaf(x)
      BY <1>2, <3>1 DEF Data
    <3> QED
      BY <2>2, <3>2, <3>3
  <2> QED
    BY <2>1, <2>2
<1> HIDE DEF S
<1>4. {IF x \in ObservedUnknowns THEN memo[x] ELSE SeedLeaf(x) : x \in LeavesUnder(n)}
        = {Fast(Data, {x}) : x \in S}
  BY <1>2, <1>3
<1>5. Join({Fast(Data, {x}) : x \in S}) = Fast(Data, S)
  BY <1>1, <1>2, FastOfEach
<1> QED
  BY <1>4, <1>5 DEF ClassOf, S

---------------------------------------------------------------------------
(* The expressions of this model, and the classes they ought to have *)

Forest ==
  [kids  |-> [n \in Nodes |-> Kids(n)],
   under |-> NodesUnder,
   class |-> [n \in Nodes |-> Fast(Data, Data.leads[n])],
   roots |-> Roots]

\* No operator is below itself.
HasDepth(f) == \A S \in SUBSET Nodes : S # {} => \E n \in S : f.kids[n] \intersect S = {}

Trees(f) ==
  /\ f.kids \in [Nodes -> SUBSET Nodes]
  /\ f.under \in [Nodes -> SUBSET Nodes]
  /\ \A n \in Nodes : f.under[n] = {n} \union UNION {f.under[k] : k \in f.kids[n]}
  /\ HasDepth(f)

\* An operator is no slower than what it reads, and no two right-hand sides share one.
IsForest(f) ==
  /\ Trees(f)
  /\ f.class \in [Nodes -> Classes]
  /\ \A n \in Nodes : \A k \in f.kids[n] : f.class[k] <= f.class[n]
  /\ f.roots \in Seq(Expressions)
  /\ \A i, j \in 1 .. Len(f.roots) :
       i # j /\ f.roots[i] \in Nodes /\ f.roots[j] \in Nodes =>
         f.under[f.roots[i]] \intersect f.under[f.roots[j]] = {}

\* What holds of an operator when it holds of all its children holds of all.
LEMMA TreeInduction ==
  ASSUME NEW f, HasDepth(f), NEW G, \A n \in Nodes : f.kids[n] \subseteq G => n \in G,
         \A n \in Nodes : f.kids[n] \subseteq Nodes
  PROVE  Nodes \subseteq G
<1> DEFINE B == Nodes \ G
<1>1. ASSUME B # {} PROVE FALSE
  <2>1. B \in SUBSET Nodes
    OBVIOUS
  <2>2. PICK n \in B : f.kids[n] \intersect B = {}
    BY <1>1, <2>1 DEF HasDepth
  <2>3. f.kids[n] \subseteq G
    BY <2>2
  <2> QED
    BY <2>2, <2>3
<1> QED
  BY <1>1

\* The operators below an operator below n are below n.
LEMMA UnderIsClosed ==
  ASSUME NEW f, Trees(f), NEW n \in Nodes
  PROVE  /\ n \in f.under[n]
         /\ \A m \in f.under[n] : f.kids[m] \subseteq f.under[n] /\ f.under[m] \subseteq f.under[n]
<1> DEFINE G == {m \in Nodes : \A j \in f.under[m] :
                   f.kids[j] \subseteq f.under[m] /\ f.under[j] \subseteq f.under[m]}
<1>1. \A m \in Nodes : f.kids[m] \subseteq Nodes /\ m \in f.under[m]
                         /\ f.under[m] = {m} \union UNION {f.under[k] : k \in f.kids[m]}
  BY DEF Trees
<1>2. ASSUME NEW m \in Nodes, f.kids[m] \subseteq G PROVE m \in G
  <2> SUFFICES ASSUME NEW j \in f.under[m]
               PROVE  f.kids[j] \subseteq f.under[m] /\ f.under[j] \subseteq f.under[m]
    OBVIOUS
  <2>1. CASE j = m
    <3>1. \A k \in f.kids[m] : k \in f.under[k] /\ f.under[k] \subseteq f.under[m]
      BY <1>1
    <3> QED
      BY <2>1, <3>1
  <2>2. CASE j # m
    <3>1. PICK k \in f.kids[m] : j \in f.under[k]
      BY <1>1, <2>2
    <3>2. f.kids[j] \subseteq f.under[k] /\ f.under[j] \subseteq f.under[k]
      BY <1>2, <3>1
    <3>3. f.under[k] \subseteq f.under[m]
      BY <1>1, <3>1
    <3> QED
      BY <3>2, <3>3
  <2> QED
    BY <2>1, <2>2
<1> HIDE DEF G
<1>3. Nodes \subseteq G
  BY <1>1, <1>2, TreeInduction DEF Trees
<1> QED
  BY <1>1, <1>3 DEF G

\* The operators below n are the least that hold n and the children of each.
LEMMA UnderIsLeast ==
  ASSUME NEW f, Trees(f), NEW n \in Nodes, NEW G, n \in G, \A m \in f.under[n] \intersect G : f.kids[m] \subseteq G
  PROVE  f.under[n] \subseteq G
<1> DEFINE H == {m \in Nodes : m \in f.under[n] \intersect G => f.under[m] \subseteq G}
<1>1. \A m \in Nodes : f.kids[m] \subseteq Nodes
                         /\ f.under[m] = {m} \union UNION {f.under[k] : k \in f.kids[m]}
  BY DEF Trees
<1>2. ASSUME NEW m \in Nodes, f.kids[m] \subseteq H PROVE m \in H
  <2> SUFFICES ASSUME m \in f.under[n] \intersect G PROVE f.under[m] \subseteq G
    OBVIOUS
  <2>1. f.kids[m] \subseteq G /\ f.kids[m] \subseteq f.under[n]
    BY UnderIsClosed
  <2>2. \A k \in f.kids[m] : f.under[k] \subseteq G
    BY <1>2, <2>1
  <2> QED
    BY <1>1, <2>2
<1> HIDE DEF H
<1>3. Nodes \subseteq H
  BY <1>1, <1>2, TreeInduction DEF Trees
<1> QED
  BY <1>3, UnderIsClosed DEF H

\* What is below n, other than n, is a child of something below n.
LEMMA UnderHasParent ==
  ASSUME NEW f, Trees(f), NEW n \in Nodes, NEW m \in f.under[n], m # n
  PROVE  \E p \in f.under[n] : m \in f.kids[p]
<1> DEFINE G == {n} \union UNION {f.kids[p] : p \in f.under[n]}
<1>1. n \in G /\ \A p \in f.under[n] \intersect G : f.kids[p] \subseteq G
  OBVIOUS
<1> HIDE DEF G
<1>2. f.under[n] \subseteq G
  BY <1>1, UnderIsLeast
<1> QED
  BY <1>2 DEF G

\* The names below a child, or below anything below, are below the operator.
LEMMA LeadsGrow ==
  ASSUME model \in Models, NEW n \in Nodes, NEW k \in Kids(n)
  PROVE  k \in Nodes /\ Data.leads[k] \subseteq Data.leads[n]
<1>1. k \in Nodes /\ k \in ToSet(model.kids[n])
  BY DEF Kids
<1>2. model.kids[n] \in Seq(Expressions)
  BY KidsAreExpressions
<1>3. PICK i \in 1 .. Len(model.kids[n]) : model.kids[n][i] = k
  BY <1>1, <1>2 DEF ToSet
<1>4. Data.leads[k] \subseteq Rest(Data, model.kids[n])
  BY <1>3 DEF Rest
<1> QED
  BY <1>1, <1>4, LeadsToKids

LEMMA KidsHaveDepth ==
  ASSUME model \in Models
  PROVE  HasDepth([kids |-> [n \in Nodes |-> Kids(n)]])
<1> DEFINE f == [kids |-> [n \in Nodes |-> Kids(n)]]
<1>1. \A n \in Nodes : f.kids[n] = Kids(n)
  OBVIOUS
<1>2. \A S \in SUBSET Nodes : S # {} => \E n \in S : ToSet(model.kids[n]) \intersect S = {}
  BY ExpressionsAreTrees
<1> HIDE DEF f
<1>3. HasDepth(f)
  BY <1>1, <1>2 DEF HasDepth, Kids
<1> QED
  BY <1>3 DEF f

LEMMA ForestIsTrees == ASSUME model \in Models PROVE Trees(Forest)
<1> DEFINE G == {n \in Nodes : NodesUnder[n] \subseteq Nodes}
           f == [kids |-> [n \in Nodes |-> Kids(n)]]
<1>1. \A n \in Nodes : Kids(n) \subseteq Nodes
  BY DEF Kids
<1>2. \A n \in Nodes : NodesUnder[n] = {n} \union UNION {NodesUnder[k] : k \in Kids(n)}
  BY UnderUnfolds
<1>3. \A n \in Nodes : Kids(n) \subseteq G => n \in G
  BY <1>2
<1>4. HasDepth(f) /\ \A n \in Nodes : f.kids[n] = Kids(n)
  BY KidsHaveDepth
<1> HIDE DEF G, f
<1>5. Nodes \subseteq G
  BY <1>1, <1>3, <1>4, TreeInduction
<1>6. NodesUnder \in [Nodes -> SUBSET Nodes]
  <2>1. \A n \in Nodes : NodesUnder[n] \in SUBSET Nodes
    BY <1>5 DEF G
  <2>2. NodesUnder = [n \in Nodes |-> NodesUnder[n]]
    BY UnderUnfolds
  <2> QED
    BY <2>1, <2>2
<1>7. HasDepth(Forest)
  BY <1>4 DEF HasDepth, Forest, f
<1> QED
  BY <1>1, <1>2, <1>6, <1>7 DEF Trees, Forest

\* No two right-hand sides share an operator: nothing has two parents.
LEMMA RootsAreApart ==
  ASSUME model \in Models, NEW i \in DOMAIN model.eqs, NEW j \in DOMAIN model.eqs, i # j,
         model.eqs[i].rhs \in Nodes, model.eqs[j].rhs \in Nodes
  PROVE  NodesUnder[model.eqs[i].rhs] \intersect NodesUnder[model.eqs[j].rhs] = {}
<1> DEFINE a == model.eqs[i].rhs
           b == model.eqs[j].rhs
           G == Nodes \ NodesUnder[b]
<1>1. Trees(Forest) /\ Forest.under = NodesUnder /\ \A n \in Nodes : Forest.kids[n] = Kids(n)
  BY ForestIsTrees DEF Forest
<1>2. a # b /\ \A n \in Nodes : a \notin Kids(n) /\ b \notin Kids(n)
  BY ExpressionsAreTrees DEF Kids
<1>3. \A n \in Nodes : \A k \in Nodes \ {n} : Kids(n) \intersect Kids(k) = {}
  BY ExpressionsAreTrees DEF Kids
<1>4. a \in Nodes /\ b \in Nodes
  OBVIOUS
<1> HIDE DEF a, b
<1>5. \A n \in Nodes : Kids(n) \subseteq Nodes
  BY DEF Kids
<1>6. \A m \in NodesUnder[b] : m \in Nodes /\ (m # b => \E p \in NodesUnder[b] : p \in Nodes /\ m \in Kids(p))
  <2>1. NodesUnder[b] \subseteq Nodes
    BY <1>1, <1>4 DEF Trees
  <2> QED
    BY <1>1, <1>4, <2>1, UnderHasParent
<1>7. a \in G
  BY <1>2, <1>4, <1>6
<1>8. ASSUME NEW m \in G, NEW k \in Kids(m) PROVE k \in G
  <2>1. k \in Nodes /\ k # b /\ m \in Nodes
    BY <1>2, <1>5
  <2>2. ASSUME k \in NodesUnder[b] PROVE FALSE
    <3>1. PICK p \in NodesUnder[b] : p \in Nodes /\ k \in Kids(p)
      BY <1>6, <2>1, <2>2
    <3>2. p = m
      BY <1>3, <2>1, <3>1
    <3> QED
      BY <3>1, <3>2
  <2> QED
    BY <2>1, <2>2
<1> DEFINE H == G
<1>9. a \in H /\ \A m \in H : m \in Nodes /\ Kids(m) \subseteq H
  BY <1>7, <1>8
<1>10. H \intersect NodesUnder[b] = {}
  OBVIOUS
<1> HIDE DEF H, G
<1>11. \A m \in Forest.under[a] \intersect H : Forest.kids[m] \subseteq H
  BY <1>1, <1>9
<1>12. Forest.under[a] \subseteq H
  BY <1>1, <1>4, <1>9, <1>11, UnderIsLeast
<1>13. NodesUnder[a] \intersect NodesUnder[b] = {}
  BY <1>1, <1>10, <1>12
<1> QED
  BY <1>13 DEF a, b

LEMMA ForestIs == ASSUME model \in Models PROVE IsForest(Forest)
<1>1. Table(Data) /\ Trees(Forest)
  BY DataIsTable, ForestIsTrees
<1>2. \A n \in Nodes : Data.leads[n] \in SUBSET Data.names
  BY <1>1 DEF Table, Expressions
<1>3. \A n \in Nodes : Forest.class[n] = Fast(Data, Data.leads[n]) /\ Forest.kids[n] = Kids(n)
  BY DEF Forest
<1>4. Forest.class \in [Nodes -> Classes]
  <2>1. \A n \in Nodes : Fast(Data, Data.leads[n]) \in Classes
    BY <1>1, <1>2, FastIsClass
  <2> QED
    BY <2>1 DEF Forest
<1>5. ASSUME NEW n \in Nodes, NEW k \in Forest.kids[n] PROVE Forest.class[k] <= Forest.class[n]
  <2>1. k \in Nodes /\ Data.leads[k] \subseteq Data.leads[n]
    BY <1>3, LeadsGrow
  <2>2. Fast(Data, Data.leads[k]) <= Fast(Data, Data.leads[n])
    BY <1>1, <1>2, <2>1, FastGrows
  <2> QED
    BY <1>3, <2>1, <2>2
<1>6. Forest.roots = Roots /\ Roots \in Seq(Expressions)
  BY RootsAreExpressions DEF Forest
<1>7. ASSUME NEW i \in 1 .. Len(Roots), NEW j \in 1 .. Len(Roots), i # j,
             Roots[i] \in Nodes, Roots[j] \in Nodes
      PROVE  NodesUnder[Roots[i]] \intersect NodesUnder[Roots[j]] = {}
  <2>1. DOMAIN Roots = DOMAIN model.eqs /\ i \in DOMAIN Roots /\ j \in DOMAIN Roots
    BY <1>6 DEF Roots
  <2>2. Roots[i] = model.eqs[i].rhs /\ Roots[j] = model.eqs[j].rhs
    BY <2>1 DEF Roots
  <2> QED
    BY <1>7, <2>1, <2>2, RootsAreApart
<1>8. Forest.under = NodesUnder
  BY DEF Forest
<1> QED
  BY <1>1, <1>4, <1>5, <1>6, <1>7, <1>8 DEF IsForest

LEMMA SameForest == ASSUME model' = model PROVE Forest' = Forest
<1>1. NodesUnder' = NodesUnder
  BY Zenon DEF NodesUnder, Kids
<1>2. Data' = Data /\ Roots' = Roots
  BY SameData, SameRoots
<1> QED
  BY <1>1, <1>2 DEF Forest, Kids

\* The names below anything below an operator are below it.
LEMMA LeadsUnder ==
  ASSUME model \in Models, NEW n \in Nodes, NEW m \in NodesUnder[n]
  PROVE  m \in Nodes /\ Data.leads[m] \subseteq Data.leads[n]
<1> DEFINE G == {j \in Nodes : Data.leads[j] \subseteq Data.leads[n]}
<1>1. Trees(Forest) /\ Forest.under = NodesUnder /\ \A j \in Nodes : Forest.kids[j] = Kids(j)
  BY ForestIsTrees DEF Forest
<1>2. ASSUME NEW j \in G, NEW k \in Kids(j) PROVE k \in G
  BY LeadsGrow
<1>3. n \in G /\ \A j \in Forest.under[n] \intersect G : Forest.kids[j] \subseteq G
  BY <1>1, <1>2
<1>4. \A j \in G : j \in Nodes /\ Data.leads[j] \subseteq Data.leads[n]
  OBVIOUS
<1> HIDE DEF G
<1>5. Forest.under[n] \subseteq G
  BY <1>1, <1>3, UnderIsLeast
<1> QED
  BY <1>1, <1>4, <1>5

---------------------------------------------------------------------------
(* The cut of an expression *)

Edge(k, low, high) == [kind |-> "expr_edge", node |-> k, drop |-> <<low, high>>]

\* Where, below n, an operator as fast as n reads a slower one.
Dropped(f, n) ==
  {k \in f.under[n] : \E m \in f.under[n] :
     k \in f.kids[m] /\ f.class[m] = f.class[n] /\ f.class[k] < f.class[m]}
Cut(f, n) == {Edge(k, f.class[k], f.class[n]) : k \in Dropped(f, n)}

\* What is below is no faster.
LEMMA SlowerBelow ==
  ASSUME NEW f, IsForest(f), NEW n \in Nodes, NEW m \in f.under[n]
  PROVE  m \in Nodes /\ f.class[m] \in Classes /\ f.class[m] <= f.class[n]
<1> DEFINE G == {j \in Nodes : f.class[j] <= f.class[n]}
<1>1. Trees(f) /\ f.class \in [Nodes -> Classes]
  BY DEF IsForest
<1>2. ASSUME NEW j \in G, NEW k \in f.kids[j] PROVE k \in G
  <2>1. k \in Nodes /\ j \in Nodes /\ f.class[k] <= f.class[j] /\ f.class[j] <= f.class[n]
    BY <1>1 DEF IsForest, Trees
  <2>2. f.class[k] \in Classes /\ f.class[j] \in Classes /\ f.class[n] \in Classes
    BY <1>1, <2>1
  <2> QED
    BY <2>1, <2>2 DEF Classes, Const, Continuous
<1>3. n \in G
  BY <1>1 DEF Classes, Const, Continuous
<1>4. \A j \in G : j \in Nodes /\ f.class[j] <= f.class[n]
  OBVIOUS
<1> HIDE DEF G
<1>5. f.under[n] \subseteq G
  BY <1>1, <1>2, <1>3, UnderIsLeast
<1> QED
  BY <1>1, <1>4, <1>5

LEMMA DroppedUnfolds ==
  ASSUME NEW f, IsForest(f), NEW n \in Nodes
  PROVE  \A j : j \in Dropped(f, n) <=>
           \E k \in f.kids[n] : IF f.class[k] < f.class[n] THEN j = k ELSE j \in Dropped(f, k)
<1>1. /\ Trees(f) /\ f.kids[n] \subseteq Nodes
      /\ f.under[n] = {n} \union UNION {f.under[k] : k \in f.kids[n]}
  BY DEF IsForest, Trees
<1>2. \A k \in f.kids[n] : /\ k \in f.under[n] /\ f.under[k] \subseteq f.under[n]
                           /\ f.class[k] \in Classes /\ f.class[k] <= f.class[n]
  BY <1>1, UnderIsClosed, SlowerBelow
<1>3. n \in f.under[n] /\ f.class[n] \in Classes
  BY <1>1, UnderIsClosed, SlowerBelow
<1>4. ASSUME NEW k \in f.kids[n], ~(f.class[k] < f.class[n]) PROVE f.class[k] = f.class[n]
  BY <1>2, <1>3, <1>4 DEF Classes, Const, Continuous
<1>5. ASSUME NEW j \in Dropped(f, n)
      PROVE  \E k \in f.kids[n] : IF f.class[k] < f.class[n] THEN j = k ELSE j \in Dropped(f, k)
  <2>1. PICK m \in f.under[n] : j \in f.kids[m] /\ f.class[m] = f.class[n] /\ f.class[j] < f.class[m]
    BY DEF Dropped
  <2>2. CASE m = n
    BY <2>1, <2>2
  <2>3. CASE m # n
    <3>1. PICK k \in f.kids[n] : m \in f.under[k]
      BY <1>1, <2>3
    <3>2. k \in Nodes /\ f.class[m] \in Classes /\ f.class[m] <= f.class[k]
      BY <1>1, <3>1, SlowerBelow
    <3>3. f.class[k] = f.class[n] /\ ~(f.class[k] < f.class[n])
      BY <1>2, <1>3, <2>1, <3>1, <3>2 DEF Classes, Const, Continuous
    <3>4. j \in f.under[k]
      BY <1>1, <2>1, <3>1, <3>2, UnderIsClosed
    <3>5. j \in Dropped(f, k)
      BY <2>1, <3>1, <3>3, <3>4 DEF Dropped
    <3> QED
      BY <3>1, <3>3, <3>5
  <2> QED
    BY <2>2, <2>3
<1>6. ASSUME NEW k \in f.kids[n], NEW j,
             IF f.class[k] < f.class[n] THEN j = k ELSE j \in Dropped(f, k)
      PROVE  j \in Dropped(f, n)
  <2>1. CASE f.class[k] < f.class[n]
    BY <1>2, <1>3, <1>6, <2>1 DEF Dropped
  <2>2. CASE ~(f.class[k] < f.class[n])
    <3>1. j \in Dropped(f, k) /\ f.class[k] = f.class[n]
      BY <1>4, <1>6, <2>2
    <3> QED
      BY <1>2, <3>1 DEF Dropped
  <2> QED
    BY <2>1, <2>2
<1> QED
  BY <1>5, <1>6

\* The cut of n, child by child.
LEMMA CutUnfolds ==
  ASSUME NEW f, IsForest(f), NEW n \in Nodes
  PROVE  Cut(f, n) = UNION {IF f.class[k] < f.class[n] THEN {Edge(k, f.class[k], f.class[n])}
                            ELSE Cut(f, k) : k \in f.kids[n]}
<1> DEFINE C(k) == IF f.class[k] < f.class[n] THEN {Edge(k, f.class[k], f.class[n])} ELSE Cut(f, k)
<1>1. f.kids[n] \subseteq Nodes /\ \A k \in f.kids[n] : k \in f.under[n]
  BY UnderIsClosed DEF IsForest, Trees
<1>2. \A k \in f.kids[n] : ~(f.class[k] < f.class[n]) => f.class[k] = f.class[n]
  <2> SUFFICES ASSUME NEW k \in f.kids[n], ~(f.class[k] < f.class[n]) PROVE f.class[k] = f.class[n]
    OBVIOUS
  <2>1. f.class[k] \in Classes /\ f.class[k] <= f.class[n] /\ f.class[n] \in Classes
    BY <1>1, SlowerBelow DEF IsForest
  <2> QED
    BY <2>1 DEF Classes, Const, Continuous
<1>3. ASSUME NEW p \in Cut(f, n) PROVE p \in UNION {C(k) : k \in f.kids[n]}
  <2>1. PICK j \in Dropped(f, n) : p = Edge(j, f.class[j], f.class[n])
    BY DEF Cut
  <2>2. PICK k \in f.kids[n] : IF f.class[k] < f.class[n] THEN j = k ELSE j \in Dropped(f, k)
    BY DroppedUnfolds
  <2>3. p \in C(k)
    BY <1>2, <2>1, <2>2 DEF Cut
  <2> HIDE DEF C
  <2> QED
    BY <2>3
<1>4. ASSUME NEW p, NEW k \in f.kids[n], p \in C(k) PROVE p \in Cut(f, n)
  <2>1. CASE f.class[k] < f.class[n]
    <3>1. k \in Dropped(f, n) /\ p = Edge(k, f.class[k], f.class[n])
      BY <1>4, <2>1, DroppedUnfolds
    <3> QED
      BY <3>1 DEF Cut
  <2>2. CASE ~(f.class[k] < f.class[n])
    <3>1. f.class[k] = f.class[n] /\ p \in Cut(f, k)
      BY <1>2, <1>4, <2>2
    <3>2. PICK j \in Dropped(f, k) : p = Edge(j, f.class[j], f.class[k])
      BY <3>1 DEF Cut
    <3>3. j \in Dropped(f, n)
      BY <2>2, <3>2, DroppedUnfolds
    <3> QED
      BY <3>1, <3>2, <3>3 DEF Cut
  <2> QED
    BY <2>1, <2>2
<1> HIDE DEF C
<1>5. Cut(f, n) = UNION {C(k) : k \in f.kids[n]}
  BY <1>3, <1>4
<1> QED
  BY <1>5 DEF C

\* materialization_frontier really recurs: whatever is kept, its equations have a solution.
LEMMA FrontierUnfolds ==
  Frontier = [n \in Nodes |->
    UNION {IF Drops(n, k) THEN {Edge(k, ClassOf(k), ClassOf(n))} ELSE Frontier[k] : k \in Kids(n)}]
<1> DEFINE goes(m) == {k \in Kids(m) : ~Drops(m, k)}
           closed(T) == \A m \in T : goes(m) \subseteq T
           reach == [n \in Nodes |->
                      {m \in Nodes : \A T \in SUBSET Nodes : n \in T /\ closed(T) => m \in T}]
           base(m) == {Edge(k, ClassOf(k), ClassOf(m)) : k \in {k \in Kids(m) : Drops(m, k)}}
           g == [n \in Nodes |-> UNION {base(m) : m \in reach[n]}]
<1>1. \A n \in Nodes : goes(n) \subseteq Nodes /\ Kids(n) \subseteq Nodes
  BY DEF Kids
<1>2. ASSUME NEW n \in Nodes
      PROVE  \A x : x \in reach[n] <=> x = n \/ \E k \in goes(n) : x \in reach[k]
  <2> HIDE DEF goes
  <2>1. ASSUME NEW x, x = n \/ \E k \in goes(n) : x \in reach[k] PROVE x \in reach[n]
    BY <1>1, <2>1
  <2>2. ASSUME NEW x \in reach[n] PROVE x = n \/ \E k \in goes(n) : x \in reach[k]
    <3> DEFINE U == {n} \union UNION {reach[k] : k \in goes(n)}
    <3>1. U \in SUBSET Nodes /\ n \in U
      BY <1>1
    <3>2. ASSUME NEW m \in U, NEW j \in goes(m) PROVE j \in U
      <4>1. m \in Nodes /\ j \in Nodes
        BY <1>1, <3>1
      <4>2. j \in reach[j]
        BY <4>1
      <4>3. CASE m = n
        BY <4>2, <4>3
      <4>4. CASE m # n
        <5>1. PICK k \in goes(n) : m \in reach[k]
          BY <4>4
        <5>2. k \in Nodes
          BY <1>1
        <5>3. j \in reach[k]
          BY <4>1, <5>1, <5>2
        <5> QED
          BY <5>3
      <4> QED
        BY <4>3, <4>4
    <3>3. closed(U)
      BY <3>2
    <3>4. x \in U
      BY <3>1, <3>3
    <3> QED
      BY <3>4
  <2> QED
    BY <2>1, <2>2
<1>3. \A n \in Nodes : g[n] = UNION {base(m) : m \in reach[n]}
  OBVIOUS
<1>4. DOMAIN g = Nodes /\ g = [n \in Nodes |-> g[n]]
  OBVIOUS
<1>5. \A m, p : p \in base(m) <=> \E k \in Kids(m) : Drops(m, k) /\ p = Edge(k, ClassOf(k), ClassOf(m))
  OBVIOUS
<1>6. \A m, k : k \in goes(m) <=> k \in Kids(m) /\ ~Drops(m, k)
  OBVIOUS
<1> HIDE DEF goes, reach, base, g
<1> DEFINE C(n, k) == IF Drops(n, k) THEN {Edge(k, ClassOf(k), ClassOf(n))} ELSE g[k]
<1>7. ASSUME NEW n \in Nodes PROVE g[n] = UNION {C(n, k) : k \in Kids(n)}
  <2>1. ASSUME NEW p \in g[n] PROVE \E k \in Kids(n) : p \in C(n, k)
    <3>1. PICK m \in reach[n] : p \in base(m)
      BY <1>3
    <3>2. CASE m = n
      BY <1>5, <3>1, <3>2
    <3>3. CASE m # n
      <4>1. PICK k \in goes(n) : m \in reach[k]
        BY <1>2, <3>1, <3>3
      <4>2. k \in Nodes /\ k \in Kids(n) /\ ~Drops(n, k)
        BY <1>1, <1>6, <4>1
      <4>3. p \in g[k]
        BY <1>3, <3>1, <4>1, <4>2
      <4> QED
        BY <4>2, <4>3
    <3> QED
      BY <3>2, <3>3
  <2>2. ASSUME NEW k \in Kids(n), NEW p \in C(n, k) PROVE p \in g[n]
    <3>1. CASE Drops(n, k)
      <4>1. p \in base(n)
        BY <1>5, <2>2, <3>1
      <4>2. n \in reach[n]
        BY <1>2
      <4> QED
        BY <1>3, <4>1, <4>2
    <3>2. CASE ~Drops(n, k)
      <4>1. p \in g[k] /\ k \in goes(n) /\ k \in Nodes
        BY <1>1, <1>6, <2>2, <3>2
      <4>2. PICK m \in reach[k] : p \in base(m)
        BY <1>3, <4>1
      <4>3. m \in reach[n]
        BY <1>2, <4>1, <4>2
      <4> QED
        BY <1>3, <4>2, <4>3
    <3> QED
      BY <3>1, <3>2
  <2> HIDE DEF C
  <2> QED
    BY <2>1, <2>2
<1>8. g = [n \in Nodes |-> UNION {IF Drops(n, k) THEN {Edge(k, ClassOf(k), ClassOf(n))} ELSE g[k] :
                                   k \in Kids(n)}]
  BY <1>4, <1>7, Zenon
<1>9. \E f : f = [n \in Nodes |->
        UNION {IF Drops(n, k) THEN {[kind |-> "expr_edge", node |-> k, drop |-> <<ClassOf(k), ClassOf(n)>>]}
               ELSE f[k] : k \in Kids(n)}]
  BY <1>8, Zenon DEF Edge
<1> QED
  BY <1>9, Zenon DEF Frontier, Edge

\* The frontier of an expression all of whose observeds are kept is its cut.
LEMMA FrontierIs ==
  ASSUME MemoInv, NEW n \in Nodes, Data.leads[n] \intersect Data.obs \subseteq DOMAIN memo
  PROVE  Frontier[n] = Cut(Forest, n)
<1> DEFINE known(m) == Data.leads[m] \intersect Data.obs \subseteq DOMAIN memo
           G == {m \in Nodes : known(m) => Frontier[m] = Cut(Forest, m)}
<1>1. model \in Models /\ IsForest(Forest)
  BY ForestIs DEF MemoInv
<1>2. \A m \in Nodes : Forest.kids[m] = Kids(m) /\ Kids(m) \subseteq Nodes
                         /\ Forest.class[m] = Fast(Data, Data.leads[m])
  BY DEF Forest, Kids
<1>3. ASSUME NEW m \in Nodes, Kids(m) \subseteq G PROVE m \in G
  <2> SUFFICES ASSUME known(m) PROVE Frontier[m] = Cut(Forest, m)
    OBVIOUS
  <2>1. ClassOf(m) = Forest.class[m]
    BY <1>2, ClassOfIs
  <2>2. ASSUME NEW k \in Kids(m)
        PROVE  ClassOf(k) = Forest.class[k] /\ Frontier[k] = Cut(Forest, k)
    <3>1. k \in Nodes /\ known(k)
      BY <1>1, LeadsGrow
    <3>2. ClassOf(k) = Forest.class[k]
      BY <1>2, <3>1, ClassOfIs
    <3> QED
      BY <1>3, <3>1, <3>2
  <2> DEFINE C(k) == IF Drops(m, k) THEN {Edge(k, ClassOf(k), ClassOf(m))} ELSE Frontier[k]
             D(k) == IF Forest.class[k] < Forest.class[m]
                     THEN {Edge(k, Forest.class[k], Forest.class[m])} ELSE Cut(Forest, k)
  <2>3. Frontier[m] = UNION {C(k) : k \in Kids(m)}
    BY FrontierUnfolds, Zenon
  <2>4. \A k \in Kids(m) : C(k) = D(k)
    BY <2>1, <2>2 DEF Drops
  <2>5. Cut(Forest, m) = UNION {D(k) : k \in Kids(m)}
    BY <1>1, <1>2, CutUnfolds
  <2> HIDE DEF C, D
  <2> QED
    BY <2>3, <2>4, <2>5
<1>4. \A m \in G : known(m) => Frontier[m] = Cut(Forest, m)
  OBVIOUS
<1>5. HasDepth(Forest)
  BY <1>1 DEF IsForest, Trees
<1> HIDE DEF G
<1>6. Nodes \subseteq G
  BY <1>2, <1>3, <1>5, TreeInduction
<1> QED
  BY <1>4, <1>6

---------------------------------------------------------------------------
(* What the three rounds have seen and written *)

Over(f, R) == UNION {f.under[r] : r \in R}
Ops(q) == ToSet(q) \intersect Nodes

\* The operators whose annotation is right, and those that may be relational.
RightOnes(f, m) == {n \in Nodes : m.expect[n] \in {None, f.class[n]}}
CoolOnes(f, m) == {n \in Nodes : n \in m.relational => f.class[n] # Continuous}

\* The outputs of the right-hand sides of R.
Annotations(f, m, R, c) == {n \in Over(f, R) : m.expect[n] = c}
Buffers(f, m, R) ==
  {e.rhs : e \in {e \in ToSet(m.eqs) : e.rhs \in R /\ e.arrayed /\ f.class[e.rhs] = Const}}
Written(f, m, R, out) ==
  /\ out.tally = [c \in Classes |-> Cardinality(Annotations(f, m, R, c))]
  /\ out.hot = (\E r \in R : f.class[r] = Continuous)
  /\ {p \in out.points : p.kind = "expr_edge"} = UNION {Cut(f, r) : r \in R}
  /\ {p.node : p \in {p \in out.points : p.kind = "output_buffer"}} = Buffers(f, m, R)

\* q is what comes after the first j of r.
After(r, j, q) == Len(q) = Len(r) - j /\ \A i \in 1 .. Len(q) : q[i] = r[i + j]
First(r, j) == {r[i] : i \in 1 .. j} \intersect Nodes

\* An operator is still to be visited, or has been found right; then it may not be
\* relational and continuous; then the outputs of the right-hand sides are written in turn.
ThreeRounds(f, m, ph, q, mis, out) ==
  /\ ph = "expect" => mis \/ Over(f, Ops(f.roots)) \subseteq Over(f, Ops(q)) \union RightOnes(f, m)
  /\ ph \in {"relational", "sets", "outputs", "done"} => Over(f, Ops(f.roots)) \subseteq RightOnes(f, m)
  /\ ph = "relational" => Over(f, Ops(f.roots)) \subseteq Over(f, Ops(q)) \union CoolOnes(f, m)
  /\ ph \in {"sets", "outputs", "done"} => Over(f, Ops(f.roots)) \subseteq CoolOnes(f, m)
  /\ ph \in {"expect", "relational", "sets"} => Written(f, m, {}, out)
  /\ ph \in {"outputs", "done"} =>
       \E j \in 0 .. Len(f.roots) : After(f.roots, j, q) /\ Written(f, m, First(f.roots, j), out)

RoundsInv == ThreeRounds(Forest, model, phase, todo, mismatch, outputs)

\* Going from an expression to its children leaves out nothing but itself.
LEMMA PendingGoesOn ==
  ASSUME MemoInv, todo # << >>
  PROVE  Over(Forest, Ops(todo)) \subseteq
           Over(Forest, Ops(Children(Head(todo)) \o Tail(todo))) \union ({Head(todo)} \intersect Nodes)
<1> DEFINE c == Head(todo)
           p == Children(c)
           t == Tail(todo)
           r == p \o t
<1>1. /\ c \in Expressions /\ t \in Seq(Expressions)
      /\ \A n \in ToSet(todo) : n = c \/ n \in ToSet(t)
  BY TodoGoesOn
<1>2. p \in Seq(Expressions) /\ (c \in Nodes => p = model.kids[c])
  <2>1. CASE c \in Nodes
    <3>1. model.kids[c] \in Seq(Expressions)
      BY <2>1, KidsAreExpressions DEF MemoInv
    <3> QED
      BY <2>1, <3>1 DEF Children
  <2>2. CASE c \notin Nodes
    BY <2>2 DEF Children
  <2> QED
    BY <2>1, <2>2
<1> HIDE DEF c, p, t
<1>3. \A x : x \in ToSet(p) \/ x \in ToSet(t) => x \in ToSet(r)
  <2>1. /\ Len(r) = Len(p) + Len(t) /\ Len(p) \in Nat /\ Len(t) \in Nat /\ r \in Seq(Expressions)
        /\ \A i \in 1 .. Len(p) : r[i] = p[i]
        /\ \A i \in 1 .. Len(t) : r[i + Len(p)] = t[i]
    BY <1>1, <1>2
  <2>2. DOMAIN r = 1 .. Len(p) + Len(t) /\ DOMAIN p = 1 .. Len(p) /\ DOMAIN t = 1 .. Len(t)
    BY <1>1, <1>2, <2>1
  <2> HIDE DEF r
  <2>3. ASSUME NEW i \in 1 .. Len(p) PROVE p[i] \in ToSet(r)
    <3>1. i \in DOMAIN r
      BY <2>1, <2>2
    <3> QED
      BY <2>1, <3>1 DEF ToSet
  <2>4. ASSUME NEW i \in 1 .. Len(t) PROVE t[i] \in ToSet(r)
    <3>1. i + Len(p) \in DOMAIN r
      BY <2>1, <2>2
    <3> QED
      BY <2>1, <3>1 DEF ToSet
  <2> QED
    BY <2>2, <2>3, <2>4 DEF ToSet
<1> HIDE DEF r
<1>4. Trees(Forest) /\ \A n \in Nodes : Forest.kids[n] = Kids(n)
  BY ForestIsTrees DEF MemoInv, Forest
<1>5. ASSUME NEW x \in Over(Forest, Ops(todo)) PROVE x \in Over(Forest, Ops(r)) \union ({c} \intersect Nodes)
  <2>1. PICK n \in Ops(todo) : x \in Forest.under[n]
    BY DEF Over
  <2>2. n \in Nodes /\ n \in ToSet(todo)
    BY DEF Ops
  <2>3. CASE n \in ToSet(t)
    <3>1. n \in Ops(r)
      BY <1>3, <2>2, <2>3 DEF Ops
    <3> QED
      BY <2>1, <3>1 DEF Over
  <2>4. CASE n = c /\ x # c
    <3>1. Forest.under[n] = {n} \union UNION {Forest.under[k] : k \in Kids(n)}
      BY <1>4, <2>2 DEF Trees
    <3>2. PICK k \in Kids(n) : x \in Forest.under[k]
      BY <2>1, <2>4, <3>1
    <3>3. k \in Nodes /\ k \in ToSet(p)
      BY <1>2, <2>2, <2>4 DEF Kids
    <3>4. k \in Ops(r)
      BY <1>3, <3>3 DEF Ops
    <3> QED
      BY <3>2, <3>4 DEF Over
  <2>5. CASE n = c /\ x = c
    BY <2>2, <2>5
  <2> QED
    BY <1>1, <2>2, <2>3, <2>4, <2>5
<1> QED
  BY <1>5 DEF r, c, p, t

\* The next right-hand side.
LEMMA NextAfter ==
  ASSUME NEW r \in Seq(Expressions), NEW j \in 0 .. Len(r), NEW q \in Seq(Expressions), q # << >>,
         After(r, j, q)
  PROVE  /\ j + 1 \in 1 .. Len(r) /\ Head(q) = r[j + 1] /\ After(r, j + 1, Tail(q))
         /\ First(r, j + 1) = First(r, j) \union ({Head(q)} \intersect Nodes)
<1>1. /\ Len(r) \in Nat /\ Len(q) \in Nat /\ Len(q) > 0 /\ Head(q) = q[1]
      /\ Len(Tail(q)) = Len(q) - 1 /\ \A i \in 1 .. Len(q) - 1 : Tail(q)[i] = q[i + 1]
  OBVIOUS
<1>2. Len(q) = Len(r) - j /\ \A i \in 1 .. Len(q) : q[i] = r[i + j]
  BY DEF After
<1>3. j + 1 \in 1 .. Len(r) /\ Head(q) = r[j + 1]
  <2>1. q[1] = r[1 + j] /\ 1 + j = j + 1
    BY <1>1, <1>2
  <2> QED
    BY <1>1, <1>2, <2>1
<1>4. After(r, j + 1, Tail(q))
  <2>1. Len(Tail(q)) = Len(r) - (j + 1)
    BY <1>1, <1>2
  <2>2. ASSUME NEW i \in 1 .. Len(Tail(q)) PROVE Tail(q)[i] = r[i + (j + 1)]
    <3>1. i + 1 \in 1 .. Len(q) /\ (i + 1) + j = i + (j + 1) /\ i \in 1 .. Len(q) - 1
      BY <1>1
    <3>2. q[i + 1] = r[(i + 1) + j]
      BY <1>2, <3>1
    <3> QED
      BY <1>1, <3>1, <3>2
  <2> QED
    BY <2>1, <2>2 DEF After
<1>5. \A i : i \in 1 .. j + 1 <=> i \in 1 .. j \/ i = j + 1
  BY <1>1
<1>6. First(r, j + 1) = First(r, j) \union ({Head(q)} \intersect Nodes)
  BY <1>3, <1>5 DEF First
<1> QED
  BY <1>3, <1>4, <1>6

\* The operators of right-hand sides that come apart.
LEMMA FirstIsApart ==
  ASSUME NEW f, IsForest(f), NEW j \in 0 .. Len(f.roots), j + 1 \in 1 .. Len(f.roots),
         f.roots[j + 1] \in Nodes
  PROVE  /\ First(f.roots, j) \subseteq Nodes
         /\ Over(f, First(f.roots, j)) \intersect f.under[f.roots[j + 1]] = {}
         /\ Over(f, First(f.roots, j)) \subseteq Over(f, Ops(f.roots))
         /\ f.under[f.roots[j + 1]] \subseteq Over(f, Ops(f.roots))
<1>1. f.roots \in Seq(Expressions) /\ Len(f.roots) \in Nat /\ DOMAIN f.roots = 1 .. Len(f.roots)
  BY DEF IsForest
<1>2. ASSUME NEW n \in First(f.roots, j)
      PROVE  /\ n \in Nodes /\ f.under[n] \intersect f.under[f.roots[j + 1]] = {}
             /\ n \in Ops(f.roots)
  <2>1. PICK i \in 1 .. j : n = f.roots[i] /\ n \in Nodes
    BY DEF First
  <2>2. i \in 1 .. Len(f.roots) /\ i # j + 1
    BY <1>1
  <2> QED
    BY <1>1, <2>1, <2>2 DEF IsForest, Ops, ToSet
<1>3. Over(f, First(f.roots, j)) \intersect f.under[f.roots[j + 1]] = {}
  BY <1>2 DEF Over
<1>4. f.roots[j + 1] \in Ops(f.roots)
  BY <1>1 DEF Ops, ToSet
<1> QED
  BY <1>2, <1>3, <1>4 DEF Over

\* What Output adds for the right-hand side x.
AddsBuffer(f, m, x) ==
  {[kind |-> "output_buffer", node |-> x, drop |-> <<Const, Const>>] :
     e \in {e \in ToSet(m.eqs) : e.rhs = x /\ e.arrayed /\ f.class[x] = Const}}
Adds(f, m, x, out, new) ==
  /\ new.tally = [c \in Classes |->
       out.tally[c] + Cardinality({n \in f.under[x] : m.expect[n] # None /\ f.class[n] = c})]
  /\ new.points = out.points \union Cut(f, x) \union AddsBuffer(f, m, x)
  /\ new.hot = (out.hot \/ f.class[x] = Continuous)

LEMMA TallyGrows ==
  ASSUME NEW f, IsForest(f), NEW m, NEW R \in SUBSET Nodes, NEW x \in Nodes, NEW c \in Classes,
         Over(f, R) \intersect f.under[x] = {}, f.under[x] \subseteq RightOnes(f, m)
  PROVE  Cardinality(Annotations(f, m, R \union {x}, c)) =
           Cardinality(Annotations(f, m, R, c))
             + Cardinality({n \in f.under[x] : m.expect[n] # None /\ f.class[n] = c})
<1> DEFINE A == Annotations(f, m, R, c)
           B == {n \in f.under[x] : m.expect[n] # None /\ f.class[n] = c}
           C == Annotations(f, m, R \union {x}, c)
<1>1. c # None
  BY CadenceAssumption
<1>2. \A n \in f.under[x] : (m.expect[n] # None /\ f.class[n] = c) <=> m.expect[n] = c
  BY <1>1 DEF RightOnes
<1>3. Over(f, R \union {x}) = Over(f, R) \union f.under[x]
  BY DEF Over
<1>4. C = A \union B
  BY <1>2, <1>3 DEF Annotations
<1>5. A \intersect B = {}
  BY DEF Annotations
<1>6. \A n \in Nodes : f.under[n] \subseteq Nodes
  BY DEF IsForest, Trees
<1>7. A \in SUBSET Nodes /\ B \in SUBSET Nodes
  BY <1>6 DEF Annotations, Over
<1> HIDE DEF A, B, C
<1>8. IsFiniteSet(A) /\ IsFiniteSet(B)
  BY <1>7, FS_Subset, ExpressionsAreTrees
<1>9. Cardinality(A \union B) = Cardinality(A) + Cardinality(B) - Cardinality(A \intersect B)
  BY <1>8, FS_Union
<1>10. Cardinality(A) \in Nat /\ Cardinality(B) \in Nat
  BY <1>8, FS_CardinalityType
<1>11. Cardinality({}) = 0
  BY FS_EmptySet
<1>12. Cardinality(C) = Cardinality(A) + Cardinality(B)
  <2>1. Cardinality(A \intersect B) = 0
    BY <1>5, <1>11
  <2>2. Cardinality(A \union B) = Cardinality(A) + Cardinality(B)
    BY <1>9, <1>10, <2>1
  <2> QED
    BY <1>4, <2>2
<1> QED
  BY <1>12 DEF A, B, C

LEMMA WrittenGrows ==
  ASSUME NEW f, IsForest(f), NEW m, NEW R \in SUBSET Nodes, NEW x \in Nodes,
         Over(f, R) \intersect f.under[x] = {}, f.under[x] \subseteq RightOnes(f, m),
         NEW out, NEW new, Written(f, m, R, out), Adds(f, m, x, out, new)
  PROVE  Written(f, m, R \union {x}, new)
<1>1. new.tally = [c \in Classes |-> Cardinality(Annotations(f, m, R \union {x}, c))]
  <2>1. \A c \in Classes : out.tally[c] = Cardinality(Annotations(f, m, R, c))
    BY DEF Written
  <2>2. \A c \in Classes :
          Cardinality(Annotations(f, m, R \union {x}, c)) =
            Cardinality(Annotations(f, m, R, c))
              + Cardinality({n \in f.under[x] : m.expect[n] # None /\ f.class[n] = c})
    BY TallyGrows
  <2>3. \A c \in Classes :
          out.tally[c] + Cardinality({n \in f.under[x] : m.expect[n] # None /\ f.class[n] = c})
            = Cardinality(Annotations(f, m, R \union {x}, c))
    BY <2>1, <2>2
  <2> QED
    BY <2>3, Zenon DEF Adds
<1>2. new.hot = (\E r \in R \union {x} : f.class[r] = Continuous)
  BY DEF Adds, Written
<1>3. /\ \A p \in Cut(f, x) : p.kind = "expr_edge"
      /\ \A p \in AddsBuffer(f, m, x) : p.kind = "output_buffer" /\ p.node = x
  BY DEF Cut, Edge, AddsBuffer
<1>4. new.points = out.points \union Cut(f, x) \union AddsBuffer(f, m, x)
  BY DEF Adds
<1>5. {p \in new.points : p.kind = "expr_edge"} = UNION {Cut(f, r) : r \in R \union {x}}
  <2>1. {p \in out.points : p.kind = "expr_edge"} = UNION {Cut(f, r) : r \in R}
    BY DEF Written
  <2>2. {p \in new.points : p.kind = "expr_edge"} =
          {p \in out.points : p.kind = "expr_edge"} \union Cut(f, x)
    BY <1>3, <1>4
  <2> QED
    BY <2>1, <2>2
<1>6. {p.node : p \in {p \in new.points : p.kind = "output_buffer"}} = Buffers(f, m, R \union {x})
  <2> DEFINE E == {e \in ToSet(m.eqs) : e.rhs = x /\ e.arrayed /\ f.class[x] = Const}
             P == {p \in out.points : p.kind = "output_buffer"}
  <2>1. {p.node : p \in P} = Buffers(f, m, R)
    BY DEF Written
  <2>2. {p \in new.points : p.kind = "output_buffer"} = P \union AddsBuffer(f, m, x)
    BY <1>3, <1>4
  <2>3. {p.node : p \in AddsBuffer(f, m, x)} = {e.rhs : e \in E}
    <3>1. \A e \in E : e.rhs = x
      OBVIOUS
    <3>2. E = {} <=> AddsBuffer(f, m, x) = {}
      BY DEF AddsBuffer
    <3> HIDE DEF E
    <3>3. CASE E = {}
      BY <3>2, <3>3
    <3>4. CASE E # {}
      <4>1. {e.rhs : e \in E} = {x}
        BY <3>1, <3>4
      <4>2. {p.node : p \in AddsBuffer(f, m, x)} = {x}
        BY <1>3, <3>2, <3>4
      <4> QED
        BY <4>1, <4>2
    <3> QED
      BY <3>3, <3>4
  <2>4. Buffers(f, m, R \union {x}) = Buffers(f, m, R) \union {e.rhs : e \in E}
    BY DEF Buffers
  <2> HIDE DEF E, P
  <2>5. {p.node : p \in P \union AddsBuffer(f, m, x)} =
          {p.node : p \in P} \union {p.node : p \in AddsBuffer(f, m, x)}
    OBVIOUS
  <2> QED
    BY <2>1, <2>2, <2>3, <2>4, <2>5
<1> QED
  BY <1>1, <1>2, <1>5, <1>6 DEF Written

LEMMA NothingWritten ==
  ASSUME NEW f, NEW m, NEW out,
         out = [tally |-> [c \in Classes |-> 0], points |-> {}, hot |-> FALSE]
  PROVE  Written(f, m, {}, out)
<1>1. \A c : Annotations(f, m, {}, c) = {}
  BY DEF Annotations, Over
<1>2. Cardinality({}) = 0
  BY FS_EmptySet
<1>3. out.tally = [c \in Classes |-> Cardinality(Annotations(f, m, {}, c))]
  BY <1>1, <1>2
<1>4. {p \in out.points : p.kind = "expr_edge"} = UNION {Cut(f, r) : r \in {}}
  OBVIOUS
<1>5. {p.node : p \in {p \in out.points : p.kind = "output_buffer"}} = Buffers(f, m, {})
  BY DEF Buffers
<1>6. out.hot = (\E r \in {} : f.class[r] = Continuous)
  OBVIOUS
<1> QED
  BY <1>3, <1>4, <1>5, <1>6 DEF Written

\* What a call that a round made is answered, and all that Output computes from it.
LEMMA AnswerIsTrue ==
  ASSUME MemoInv, Answered
  PROVE  /\ Top.acc = Forest.class[Top.of]
         /\ \A n \in Forest.under[Top.of] : ClassOf(n) = Forest.class[n]
         /\ Frontier[Top.of] = Cut(Forest, Top.of)
<1>1. Table(Data) /\ Stack(Data, memo, calls) /\ model \in Models
  BY DataIsTable DEF MemoInv
<1>2. Top.of \in Nodes /\ Data.leads[Top.of] \intersect Data.obs \subseteq DOMAIN memo
  BY AnswerIs
<1>3. calls \in Seq(Calls) /\ Len(calls) = 1 /\ Top = calls[1] /\ Top.left = << >> /\ 1 \in 1 .. Len(calls)
  <2>1. calls \in Seq(Calls)
    BY <1>1 DEF Stack
  <2>2. Len(calls) = 1 /\ Top.left = << >> /\ Top = calls[Len(calls)]
    BY DEF Answered, Top, Last
  <2> QED
    BY <2>1, <2>2
<1>4. Top \in Calls /\ Partial(Data, memo, Top)
  <2>1. calls[1] \in Calls
    BY <1>3
  <2> QED
    BY <1>1, <1>3, <2>1 DEF Stack
<1>5. Whole(Data, Top.of) = Data.leads[Top.of]
  BY <1>1, <1>2, NodesAreNotNames DEF Whole
<1>6. Top.acc = Fast(Data, Data.leads[Top.of])
  BY <1>1, <1>3, <1>4, <1>5, PartialEnds
<1>7. ASSUME NEW n \in NodesUnder[Top.of] PROVE ClassOf(n) = Forest.class[n]
  <2>1. n \in Nodes /\ Data.leads[n] \subseteq Data.leads[Top.of]
    BY <1>1, <1>2, LeadsUnder
  <2>2. ClassOf(n) = Fast(Data, Data.leads[n])
    BY <1>2, <2>1, ClassOfIs
  <2> QED
    BY <2>1, <2>2 DEF Forest
<1>8. Frontier[Top.of] = Cut(Forest, Top.of)
  BY <1>2, FrontierIs
<1> QED
  BY <1>2, <1>6, <1>7, <1>8 DEF Forest

---------------------------------------------------------------------------
(* The pass keeps it *)

\* A step of a round, or into the next.
LEMMA RoundGoesOn ==
  ASSUME model' = model, ThreeRounds(Forest, model, phase', todo', mismatch', outputs')
  PROVE  RoundsInv'
BY SameForest DEF RoundsInv

LEMMA RefusedIsOver ==
  ASSUME NEW f, NEW m, NEW q, NEW mis, NEW out
  PROVE  ThreeRounds(f, m, "failed", q, mis, out)
BY DEF ThreeRounds

LEMMA RoundsStart == Init => RoundsInv
<1> SUFFICES ASSUME Init PROVE RoundsInv
  OBVIOUS
<1>1. /\ phase = "expect" /\ todo = Roots /\ Forest.roots = Roots
      /\ outputs = [tally |-> [c \in Classes |-> 0], points |-> {}, hot |-> FALSE]
  BY DEF Init, Forest
<1>2. Written(Forest, model, {}, outputs)
  BY <1>1, NothingWritten
<1> QED
  BY <1>1, <1>2 DEF RoundsInv, ThreeRounds

\* Nothing of a leaf is left to visit, and it is no right-hand side to write.
LEMMA PassRound == ASSUME MemoInv, RoundsInv, Pass PROVE RoundsInv'
<1> DEFINE c == Head(todo)
           r == Children(c) \o Tail(todo)
<1>1. /\ phase # "failed" /\ todo # << >> /\ ~Wanted(c) /\ todo' = r
      /\ UNCHANGED <<model, phase, mismatch, outputs>>
  BY DEF Pass
<1>2. phase \in {"expect", "relational", "outputs"} /\ todo \in Seq(Expressions)
  BY <1>1 DEF MemoInv, Progress
<1>3. Over(Forest, Ops(todo)) \subseteq Over(Forest, Ops(r)) \union ({c} \intersect Nodes)
  BY <1>1, PendingGoesOn
<1>4. c \notin Nodes => r = Tail(todo)
  BY <1>1, TodoGoesOn
<1> HIDE DEF c, r
<1>5. CASE phase = "expect"
  <2>1. {c} \intersect Nodes \subseteq RightOnes(Forest, model)
    BY <1>1, <1>5 DEF Wanted, RightOnes
  <2> QED
    BY <1>1, <1>3, <1>5, <2>1, RoundGoesOn DEF RoundsInv, ThreeRounds
<1>6. CASE phase = "relational"
  <2>1. {c} \intersect Nodes \subseteq CoolOnes(Forest, model)
    BY <1>1, <1>6 DEF Wanted, CoolOnes
  <2> QED
    BY <1>1, <1>3, <1>6, <2>1, RoundGoesOn DEF RoundsInv, ThreeRounds
<1>7. CASE phase = "outputs"
  <2>1. c \notin Nodes /\ r = Tail(todo)
    BY <1>1, <1>4, <1>7 DEF Wanted
  <2>2. PICK j \in 0 .. Len(Forest.roots) :
          After(Forest.roots, j, todo) /\ Written(Forest, model, First(Forest.roots, j), outputs)
    BY <1>7 DEF RoundsInv, ThreeRounds
  <2>3. Forest.roots \in Seq(Expressions)
    BY ForestIs DEF MemoInv, IsForest
  <2>4. /\ j + 1 \in 1 .. Len(Forest.roots) /\ After(Forest.roots, j + 1, Tail(todo))
        /\ First(Forest.roots, j + 1) = First(Forest.roots, j) \union ({c} \intersect Nodes)
    BY <1>1, <1>2, <2>2, <2>3, NextAfter DEF c
  <2>5. First(Forest.roots, j + 1) = First(Forest.roots, j)
    BY <2>1, <2>4
  <2>6. j + 1 \in 0 .. Len(Forest.roots)
    BY <2>4
  <2>7. After(Forest.roots, j + 1, r) /\ Written(Forest, model, First(Forest.roots, j + 1), outputs)
    BY <2>1, <2>2, <2>4, <2>5
  <2>8. ThreeRounds(Forest, model, phase, r, mismatch, outputs)
    BY <1>7, <2>6, <2>7 DEF RoundsInv, ThreeRounds
  <2> QED
    BY <1>1, <2>8, RoundGoesOn
<1> QED
  BY <1>2, <1>5, <1>6, <1>7

LEMMA CheckExpectRound == ASSUME MemoInv, RoundsInv, CheckExpect PROVE RoundsInv'
<1> DEFINE c == Top.of
           r == Children(c) \o Tail(todo)
<1>1. /\ phase = "expect" /\ Answered /\ todo' = r /\ UNCHANGED <<model, phase, outputs>>
      /\ mismatch' = (mismatch \/ Top.acc # model.expect[c])
  BY DEF CheckExpect
<1>2. todo # << >> /\ c = Head(todo) /\ c \in Nodes
  BY <1>1, AnswerIs
<1>3. Over(Forest, Ops(todo)) \subseteq Over(Forest, Ops(r)) \union ({c} \intersect Nodes)
  BY <1>2, PendingGoesOn
<1>4. ~mismatch' => c \in RightOnes(Forest, model)
  BY <1>1, <1>2, AnswerIsTrue DEF RightOnes
<1> HIDE DEF c, r
<1>5. ~mismatch' => Over(Forest, Ops(Forest.roots)) \subseteq Over(Forest, Ops(r)) \union RightOnes(Forest, model)
  BY <1>1, <1>3, <1>4 DEF RoundsInv, ThreeRounds
<1>6. Written(Forest, model, {}, outputs)
  BY <1>1 DEF RoundsInv, ThreeRounds
<1>7. ThreeRounds(Forest, model, "expect", r, mismatch', outputs)
  BY <1>5, <1>6 DEF ThreeRounds
<1> QED
  BY <1>1, <1>7, RoundGoesOn

LEMMA CheckRelationalRound == ASSUME MemoInv, RoundsInv, CheckRelational PROVE RoundsInv'
<1> DEFINE c == Top.of
           r == Children(c) \o Tail(todo)
<1>1. /\ phase = "relational" /\ Answered /\ todo' = r /\ UNCHANGED <<model, mismatch, outputs>>
      /\ IF Top.acc = Continuous THEN phase' = "failed" ELSE phase' = phase
  BY DEF CheckRelational, Fail
<1>2. todo # << >> /\ c = Head(todo) /\ c \in Nodes
  BY <1>1, AnswerIs
<1>3. Over(Forest, Ops(todo)) \subseteq Over(Forest, Ops(r)) \union ({c} \intersect Nodes)
  BY <1>2, PendingGoesOn
<1>4. Top.acc = Forest.class[c]
  BY <1>1, AnswerIsTrue
<1> HIDE DEF c, r
<1>5. CASE Top.acc = Continuous
  BY <1>1, <1>5, RefusedIsOver, RoundGoesOn
<1>6. CASE Top.acc # Continuous
  <2>1. c \in CoolOnes(Forest, model)
    BY <1>2, <1>4, <1>6 DEF CoolOnes
  <2>2. ThreeRounds(Forest, model, "relational", r, mismatch, outputs)
    BY <1>1, <1>3, <2>1 DEF RoundsInv, ThreeRounds
  <2> QED
    BY <1>1, <1>6, <2>2, RoundGoesOn
<1> QED
  BY <1>5, <1>6

LEMMA OutputRound == ASSUME MemoInv, RoundsInv, Output PROVE RoundsInv'
<1> DEFINE x == Top.of
           f == Forest
<1>1. /\ phase = "outputs" /\ Answered /\ todo' = Tail(todo) /\ UNCHANGED <<model, phase, mismatch>>
      /\ outputs' = [tally  |-> [c \in Classes |-> outputs.tally[c] + Cardinality(Annotated(x, c))],
                     points |-> outputs.points \union Frontier[x] \union OutputBuffer(x),
                     hot    |-> outputs.hot \/ Top.acc = Continuous]
  BY DEF Output
<1>2. todo # << >> /\ x = Head(todo) /\ x \in Nodes /\ model \in Models /\ todo \in Seq(Expressions)
  BY <1>1, AnswerIs DEF MemoInv, Progress
<1>3. /\ Top.acc = f.class[x] /\ \A n \in f.under[x] : ClassOf(n) = f.class[n]
      /\ Frontier[x] = Cut(f, x)
  BY <1>1, AnswerIsTrue
<1>4. IsForest(f) /\ f.under = NodesUnder /\ x \in f.under[x]
  <2>1. IsForest(f) /\ f.under = NodesUnder
    BY <1>2, ForestIs DEF Forest
  <2> QED
    BY <1>2, <2>1, UnderIsClosed DEF IsForest
<1>5. PICK j \in 0 .. Len(f.roots) :
        After(f.roots, j, todo) /\ Written(f, model, First(f.roots, j), outputs)
  BY <1>1 DEF RoundsInv, ThreeRounds
<1>6. Adds(f, model, x, outputs, outputs')
  <2>1. \A c : Annotated(x, c) = {n \in f.under[x] : model.expect[n] # None /\ f.class[n] = c}
    BY <1>3, <1>4 DEF Annotated
  <2>2. OutputBuffer(x) = AddsBuffer(f, model, x)
    BY <1>3, <1>4 DEF OutputBuffer, AddsBuffer
  <2> HIDE DEF f, x
  <2>3. outputs'.tally = [c \in Classes |-> outputs.tally[c] + Cardinality(Annotated(x, c))]
    BY <1>1
  <2>4. outputs'.tally = [c \in Classes |-> outputs.tally[c]
           + Cardinality({n \in f.under[x] : model.expect[n] # None /\ f.class[n] = c})]
    BY <2>1, <2>3
  <2>5. outputs'.points = outputs.points \union Cut(f, x) \union AddsBuffer(f, model, x)
    BY <1>1, <1>3, <2>2
  <2>6. outputs'.hot = (outputs.hot \/ f.class[x] = Continuous)
    BY <1>1, <1>3
  <2> QED
    BY <2>4, <2>5, <2>6 DEF Adds
<1> HIDE DEF x, f
<1>7. /\ j + 1 \in 1 .. Len(f.roots) /\ x = f.roots[j + 1] /\ After(f.roots, j + 1, Tail(todo))
      /\ First(f.roots, j + 1) = First(f.roots, j) \union {x}
  <2>1. f.roots \in Seq(Expressions)
    BY <1>4 DEF IsForest
  <2>2. /\ j + 1 \in 1 .. Len(f.roots) /\ Head(todo) = f.roots[j + 1] /\ After(f.roots, j + 1, Tail(todo))
        /\ First(f.roots, j + 1) = First(f.roots, j) \union ({Head(todo)} \intersect Nodes)
    BY <1>2, <1>5, <2>1, NextAfter
  <2> QED
    BY <1>2, <2>2
<1>8. /\ First(f.roots, j) \in SUBSET Nodes /\ Over(f, First(f.roots, j)) \intersect f.under[x] = {}
      /\ f.under[x] \subseteq Over(f, Ops(f.roots))
  BY <1>2, <1>4, <1>7, FirstIsApart
<1>9. ThreeRounds(f, model, "outputs", todo, mismatch, outputs)
  BY <1>1 DEF RoundsInv, f
<1>10. f.under[x] \subseteq RightOnes(f, model)
  BY <1>8, <1>9 DEF ThreeRounds
<1>11. Written(f, model, First(f.roots, j) \union {x}, outputs')
  BY <1>2, <1>4, <1>5, <1>6, <1>8, <1>10, WrittenGrows
<1>12. j + 1 \in 0 .. Len(f.roots)
  BY <1>7
<1>13. ThreeRounds(f, model, "outputs", Tail(todo), mismatch, outputs')
  BY <1>7, <1>9, <1>11, <1>12 DEF ThreeRounds
<1> QED
  BY <1>1, <1>13, RoundGoesOn DEF f

LEMMA EndRound ==
  ASSUME MemoInv, RoundsInv, EndExpect \/ EndRelational \/ EndSets \/ EndOutputs
  PROVE  RoundsInv'
<1> DEFINE f == Forest
<1>1. UNCHANGED <<model, mismatch, outputs>> /\ f.roots = Roots /\ Roots \in Seq(Expressions)
  BY RootsAreExpressions DEF MemoInv, EndExpect, EndRelational, EndSets, EndOutputs, Forest
<1>2. ThreeRounds(f, model, phase, todo, mismatch, outputs)
  BY DEF RoundsInv
<1> HIDE DEF f
<1>3. Over(f, Ops(<< >>)) = {}
  BY DEF Over, Ops, ToSet
<1>4. CASE EndExpect
  <2>1. phase = "expect" /\ todo = << >>
    BY <1>4 DEF EndExpect, RoundOver
  <2>2. CASE mismatch
    <3>1. phase' = "failed"
      BY <1>4, <2>2 DEF EndExpect, Fail
    <3> QED
      BY <1>1, <3>1, RefusedIsOver, RoundGoesOn
  <2>3. CASE ~mismatch
    <3>1. phase' = "relational" /\ todo' = Roots
      BY <1>4, <2>3 DEF EndExpect
    <3>2. ThreeRounds(f, model, "relational", Roots, mismatch, outputs)
      BY <1>1, <1>2, <1>3, <2>1, <2>3 DEF ThreeRounds
    <3> QED
      BY <1>1, <3>1, <3>2, RoundGoesOn DEF f
  <2> QED
    BY <2>2, <2>3
<1>5. CASE EndRelational
  <2>1. phase = "relational" /\ todo = << >> /\ phase' = "sets" /\ todo' = todo
    BY <1>5 DEF EndRelational, RoundOver
  <2>2. ThreeRounds(f, model, "sets", todo, mismatch, outputs)
    BY <1>2, <1>3, <2>1 DEF ThreeRounds
  <2> QED
    BY <1>1, <2>1, <2>2, RoundGoesOn DEF f
<1>6. CASE EndSets
  <2>1. phase = "sets" /\ phase' = "outputs" /\ todo' = Roots
    BY <1>6 DEF EndSets
  <2>2. After(Roots, 0, Roots) /\ First(Roots, 0) = {} /\ 0 \in 0 .. Len(Roots)
    BY <1>1 DEF After, First
  <2>3. Written(f, model, First(f.roots, 0), outputs) /\ After(f.roots, 0, Roots) /\ 0 \in 0 .. Len(f.roots)
    BY <1>1, <1>2, <2>1, <2>2 DEF ThreeRounds
  <2>4. ThreeRounds(f, model, "outputs", Roots, mismatch, outputs)
    BY <1>2, <2>1, <2>3 DEF ThreeRounds
  <2> QED
    BY <1>1, <2>1, <2>4, RoundGoesOn DEF f
<1>7. CASE EndOutputs
  <2>1. phase = "outputs" /\ phase' = "done" /\ todo' = todo
    BY <1>7 DEF EndOutputs, RoundOver
  <2>2. ThreeRounds(f, model, "done", todo, mismatch, outputs)
    BY <1>2, <2>1 DEF ThreeRounds
  <2> QED
    BY <1>1, <2>1, <2>2, RoundGoesOn DEF f
<1> QED
  BY <1>4, <1>5, <1>6, <1>7

\* The other steps leave the rounds alone, or refuse.
LEMMA RoundsAside ==
  ASSUME RoundsInv, UNCHANGED <<model, todo, mismatch, outputs>>, phase' \in {phase, "failed"}
  PROVE  RoundsInv'
<1>1. CASE phase' = phase
  BY <1>1, RoundGoesOn DEF RoundsInv
<1>2. CASE phase' = "failed"
  BY <1>2, RefusedIsOver, RoundGoesOn
<1> QED
  BY <1>1, <1>2

LEMMA RoundsStep == MemoInv /\ RoundsInv /\ [Next]_vars => RoundsInv'
<1> SUFFICES ASSUME MemoInv, RoundsInv, [Next]_vars PROVE RoundsInv'
  OBVIOUS
<1>1. CASE \/ Ask \/ Descend \/ TakeSeed \/ RefuseLeaf
           \/ TakeMemo \/ Resolve \/ RefuseCycle \/ Memoise
  <2>1. UNCHANGED <<model, todo, mismatch, outputs>> /\ phase' \in {phase, "failed"}
    BY <1>1 DEF Ask, Descend, TakeSeed, RefuseLeaf, TakeMemo, Resolve, RefuseCycle, Memoise, Fail
  <2> QED
    BY <2>1, RoundsAside
<1>2. CASE StartVisit \/ ReadNext \/ EndVisit \/ Returned \/ UNCHANGED vars
  <2>1. UNCHANGED <<model, todo, mismatch, outputs>> /\ phase' \in {phase, "failed"}
    BY <1>2 DEF StartVisit, ReadNext, EndVisit, Returned, vars, Fail
  <2> QED
    BY <2>1, RoundsAside
<1> QED
  BY <1>1, <1>2, PassRound, CheckExpectRound, CheckRelationalRound, OutputRound, EndRound DEF Next

(***************************************************************************)
(* For any model: what each round of partition_model has yet to visit, or  *)
(* has found right, is every operator of the model, and the outputs are    *)
(* those of the right-hand sides the last round is done with.              *)
(***************************************************************************)
THEOREM RoundsInvariant == Spec => []RoundsInv
<1> QED
  BY RoundsStart, RoundsStep, MemoInvariant, PTL DEF Spec

(***************************************************************************)
(* For any model: the outputs of a partition that is returned follow the   *)
(* classes (partition_model): the tally counts the annotations, nothing    *)
(* relational is continuous, the hot tree is as the right-hand sides are,  *)
(* and what is cut are the drops from operators as fast as their root.     *)
(***************************************************************************)
THEOREM OutputsAlwaysFollowClasses == Spec => []OutputsFollowClasses
<1>1. MemoInv /\ RoundsInv => OutputsFollowClasses
  <2> SUFFICES ASSUME MemoInv, RoundsInv, phase = "done" PROVE OutputsFollowClasses
    BY DEF OutputsFollowClasses
  <2> DEFINE f == Forest
             R == RootNodes
  <2>1. model \in Models /\ todo = << >> /\ Len(todo) = 0
    BY DEF MemoInv, Progress
  <2>2. /\ IsForest(f) /\ f.under = NodesUnder /\ f.roots = Roots
        /\ \A n \in Nodes : f.kids[n] = Kids(n) /\ f.class[n] = Fast(Data, Data.leads[n])
    BY <2>1, ForestIs DEF Forest
  <2>3. ASSUME NEW n \in Nodes PROVE NodeClass(n) = f.class[n] /\ f.under[n] \subseteq Nodes
    <3>1. LeavesUnder(n) = Data.leads[n] /\ LeavesUnder(n) \in SUBSET Named
      BY <2>1, DataSaysWhatIsTrue
    <3>2. NodeClass(n) = Fast(Data, Data.leads[n])
      BY <2>1, <3>1, DataSaysWhatIsTrue DEF NodeClass
    <3> QED
      BY <2>2, <3>2 DEF IsForest, Trees
  <2>4. PICK j \in 0 .. Len(f.roots) :
          After(f.roots, j, todo) /\ Written(f, model, First(f.roots, j), outputs)
    BY DEF RoundsInv, ThreeRounds
  <2>5. Roots \in Seq(Expressions) /\ Len(Roots) \in Nat /\ DOMAIN Roots = 1 .. Len(Roots)
        /\ R = Ops(Roots) /\ R \subseteq Nodes
    BY <2>1, RootsAreExpressions DEF RootNodes, Ops
  <2>6. First(f.roots, j) = R
    <3>1. j = Len(Roots)
      BY <2>1, <2>2, <2>4, <2>5 DEF After
    <3> QED
      BY <2>2, <2>5, <3>1 DEF First, RootNodes, ToSet
  <2>7. Written(f, model, R, outputs)
    BY <2>4, <2>6
  <2>8. Over(f, R) \subseteq RightOnes(f, model) /\ Over(f, R) \subseteq CoolOnes(f, model)
    BY <2>2, <2>5 DEF RoundsInv, ThreeRounds
  <2>9. TreeNodes = Over(f, R)
    BY <2>2 DEF TreeNodes, Over
  <2> HIDE DEF f, R
  <2>10. \A c \in Classes : outputs.tally[c] = Cardinality({n \in TreeNodes : model.expect[n] = c})
    BY <2>7, <2>9 DEF Written, Annotations
  <2>11. \A n \in model.relational \intersect TreeNodes : NodeClass(n) # Continuous
    BY <2>3, <2>8, <2>9 DEF CoolOnes
  <2>12. outputs.hot <=> \E n \in R : NodeClass(n) = Continuous
    BY <2>3, <2>5, <2>7 DEF Written
  <2>13. ASSUME NEW r \in R
         PROVE  Cut(f, r) =
                  {[kind |-> "expr_edge", node |-> k, drop |-> <<NodeClass(k), NodeClass(r)>>] :
                     k \in {k \in NodesUnder[r] :
                              \E n \in NodesUnder[r] : k \in Kids(n)
                                /\ NodeClass(n) = NodeClass(r) /\ NodeClass(k) < NodeClass(n)}}
    <3> DEFINE D == {k \in NodesUnder[r] :
                       \E n \in NodesUnder[r] : k \in Kids(n)
                         /\ NodeClass(n) = NodeClass(r) /\ NodeClass(k) < NodeClass(n)}
    <3>1. r \in Nodes /\ NodesUnder[r] = f.under[r] /\ f.under[r] \subseteq Nodes
      BY <2>2, <2>3, <2>5
    <3>2. D = Dropped(f, r)
      BY <2>2, <2>3, <3>1 DEF Dropped
    <3>3. D \subseteq Nodes
      BY <3>1
    <3> HIDE DEF D
    <3>4. \A k \in D : NodeClass(k) = f.class[k] /\ NodeClass(r) = f.class[r]
      BY <2>3, <3>1, <3>3
    <3>5. Cut(f, r) = {[kind |-> "expr_edge", node |-> k, drop |-> <<NodeClass(k), NodeClass(r)>>] : k \in D}
      BY <3>2, <3>4 DEF Cut, Edge
    <3> QED
      BY <3>5 DEF D
  <2>14. {p \in outputs.points : p.kind = "expr_edge"} = UNION {Cut(f, r) : r \in R}
    BY <2>7 DEF Written
  <2>15. {p \in outputs.points : p.kind = "expr_edge"} =
           UNION {{[kind |-> "expr_edge", node |-> k, drop |-> <<NodeClass(k), NodeClass(r)>>] :
                     k \in {k \in NodesUnder[r] :
                              \E n \in NodesUnder[r] : k \in Kids(n)
                                /\ NodeClass(n) = NodeClass(r) /\ NodeClass(k) < NodeClass(n)}} :
                  r \in R}
    <3> DEFINE X(r) == {[kind |-> "expr_edge", node |-> k, drop |-> <<NodeClass(k), NodeClass(r)>>] :
                          k \in {k \in NodesUnder[r] :
                                   \E n \in NodesUnder[r] : k \in Kids(n)
                                     /\ NodeClass(n) = NodeClass(r) /\ NodeClass(k) < NodeClass(n)}}
    <3>1. \A r \in R : Cut(f, r) = X(r)
      BY <2>13
    <3> HIDE DEF X
    <3>2. UNION {Cut(f, r) : r \in R} = UNION {X(r) : r \in R}
      BY <3>1
    <3> QED
      BY <2>14, <3>2 DEF X
  <2>16. {p.node : p \in {p \in outputs.points : p.kind = "output_buffer"}} =
           {e.rhs : e \in {e \in ToSet(model.eqs) :
                             e.rhs \in Nodes /\ e.arrayed /\ NodeClass(e.rhs) = Const}}
    <3>1. \A e \in ToSet(model.eqs) : e.rhs \in Nodes => e.rhs \in R
      BY DEF RootNodes, Roots, ToSet, R
    <3>2. \A e : (e \in ToSet(model.eqs) /\ e.rhs \in R /\ e.arrayed /\ f.class[e.rhs] = Const)
             <=> (e \in ToSet(model.eqs) /\ e.rhs \in Nodes /\ e.arrayed /\ NodeClass(e.rhs) = Const)
      BY <2>3, <2>5, <3>1
    <3>3. {e \in ToSet(model.eqs) : e.rhs \in R /\ e.arrayed /\ f.class[e.rhs] = Const} =
            {e \in ToSet(model.eqs) : e.rhs \in Nodes /\ e.arrayed /\ NodeClass(e.rhs) = Const}
      BY <3>2
    <3> QED
      BY <2>7, <3>3 DEF Written, Buffers
  <2> QED
    BY <2>10, <2>11, <2>12, <2>15, <2>16 DEF OutputsFollowClasses, R
<1> QED
  BY <1>1, MemoInvariant, RoundsInvariant, PTL
=============================================================================

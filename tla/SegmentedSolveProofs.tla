------------------------ MODULE SegmentedSolveProofs ------------------------
(***************************************************************************)
(* Proofs about SegmentedSolve, for spans of any length, every output grid *)
(* and every set of refresh boundaries: what the trajectory of a segmented *)
(* run holds, however the run ends.  The argument is one inductive         *)
(* invariant, SolveInv.                                                    *)
(***************************************************************************)
EXTENDS SegmentedSolve, FiniteSetTheorems, SequenceTheorems, TLAPS

Increasing(s) == \A i, j \in DOMAIN s : i < j => s[i] < s[j]

Grid == saveat # Native

\* The output times of the segment up to u.
Due(u) == {g \in SegmentGrid : g <= u}

\* The trajectory of the segments that are over reaches from 0 to a.
OutReachesStart ==
  pc # "done" =>
    IF Grid THEN ToSet(out) = IF a = 0 THEN {} ELSE {g \in saveat : g <= a}
    ELSE IF a = 0 THEN ToSet(out) = {} ELSE {0, a} \subseteq ToSet(out) /\ ToSet(out) \subseteq 0 .. a

Entering ==
  pc = "enter" =>
    /\ seed = a /\ reached = a /\ t = a /\ retcode = "Success"
    /\ report.step <= before /\ report.t <= a

Stepping ==
  pc = "step" =>
    /\ seed = a /\ reached = t /\ t < b /\ retcode = "Success"
    /\ report = [step |-> before + steps, t |-> t]
    /\ IF Grid THEN ToSet(segOut) = Due(t) /\ left = SegmentGrid \ Due(t)
       ELSE {a, t} \subseteq ToSet(segOut) /\ ToSet(segOut) \subseteq a .. t

\* A segment that is over reports its grid as far as it came.
Closing ==
  pc = "close" =>
    /\ retcode # "Error" /\ reached \in a .. b
    /\ report.step <= before + steps /\ report.t <= t
    /\ ~Grid => ToSet(segOut) \subseteq a .. b
    /\ retcode = "Success" =>
         /\ ~Single => t = b /\ reached = b
         /\ IF Grid THEN ToSet(segOut) = IF end = 0 THEN saveat ELSE Due(b)
            ELSE {a, b} \subseteq ToSet(segOut)
    /\ retcode \in {"MaxIters", "Unstable"} /\ Grid => ToSet(segOut) = Due(reached)
    /\ retcode = "Terminated" /\ Grid =>
         \E u \in (IF a = 0 THEN -1 ELSE a) .. reached : ToSet(segOut) = Due(u)

SegmentShape ==
  /\ boundaries \subseteq 1 .. end - 1
  /\ a < b \/ end = 0
  /\ Single => a = 0 /\ b = end
  /\ report \in [step : Nat, t : Nat]

SolveInv ==
  /\ TypeOK /\ SegmentShape
  /\ Increasing(out) /\ OutReachesStart
  /\ pc \in {"step", "close"} => Increasing(segOut)
  /\ Entering /\ Stepping /\ Closing
  /\ SuccessReportsTheGrid /\ StoppedReportsWhatItReached

-----------------------------------------------------------------------------
(* Sequences in increasing order *)

\* Sorted lists each number of a finite set once, in order.
LEMMA SortedFacts ==
  ASSUME NEW S \in SUBSET Int, IsFiniteSet(S)
  PROVE  /\ Sorted(S) \in Seq(S) /\ ToSet(Sorted(S)) = S /\ Increasing(Sorted(S))
         /\ DOMAIN Sorted(S) = 1 .. Len(Sorted(S))
<1> DEFINE Rank(x) == Cardinality({y \in S : y < x})
           n == Cardinality(S)
           s == Sorted(S)
<1>1. n \in Nat
  BY FS_CardinalityType
<1>2. \A x \in S : /\ IsFiniteSet({y \in S : y < x})
                   /\ Rank(x) \in 0 .. n - 1
  <2> TAKE x \in S
  <2>1. IsFiniteSet(S \ {x}) /\ Cardinality(S \ {x}) = n - 1
    BY FS_RemoveElement
  <2>2. {y \in S : y < x} \in SUBSET (S \ {x})
    OBVIOUS
  <2>3. IsFiniteSet({y \in S : y < x}) /\ Rank(x) <= n - 1
    BY <2>1, <2>2, FS_Subset
  <2>4. Rank(x) \in Nat
    BY <2>3, FS_CardinalityType
  <2> QED
    BY <1>1, <2>3, <2>4
<1>3. \A x, y \in S : x < y => Rank(x) < Rank(y)
  <2> SUFFICES ASSUME NEW x \in S, NEW y \in S, x < y PROVE Rank(x) < Rank(y)
    OBVIOUS
  <2> DEFINE X == {z \in S : z < x}
             Y == {z \in S : z < y}
  <2>1. IsFiniteSet(X) /\ IsFiniteSet(Y)
    BY <1>2
  <2>2. x \notin X /\ X \union {x} \in SUBSET Y
    <3>1. x \in Int /\ y \in Int /\ \A z \in S : z \in Int
      OBVIOUS
    <3>2. x \notin X
      BY <3>1
    <3>3. \A z \in X \union {x} : z \in Y
      BY <3>1
    <3> QED
      BY <3>2, <3>3
  <2>3. Cardinality(X \union {x}) = Cardinality(X) + 1
    BY <2>1, <2>2, FS_AddElement
  <2>4. Cardinality(X \union {x}) <= Cardinality(Y)
    BY <2>1, <2>2, FS_Subset
  <2>5. Rank(x) \in Nat /\ Rank(y) \in Nat
    BY <1>2
  <2> QED
    BY <2>3, <2>4, <2>5
<1>4. \A x, y \in S : Rank(x) = Rank(y) => x = y
  <2> SUFFICES ASSUME NEW x \in S, NEW y \in S, Rank(x) = Rank(y), x # y PROVE FALSE
    OBVIOUS
  <2>1. x < y \/ y < x
    OBVIOUS
  <2>2. Rank(x) < Rank(y) \/ Rank(y) < Rank(x)
    BY <1>3, <2>1
  <2>3. Rank(x) \in Nat /\ Rank(y) \in Nat
    BY <1>2
  <2> HIDE DEF Rank
  <2> QED
    BY <2>2, <2>3
<1>5. \A i \in 1 .. n : \E x \in S : Rank(x) = i - 1
  <2> DEFINE f == [x \in S |-> Rank(x)]
  <2> HIDE DEF Rank
  <2>1. f \in Injection(S, 0 .. n - 1)
    BY <1>2, <1>4 DEF Injection, IsInjective
  <2>2. IsFiniteSet(0 .. n - 1) /\ Cardinality(0 .. n - 1) = n
    BY <1>1, FS_Interval
  <2>3. f \in Surjection(S, 0 .. n - 1)
    BY <2>1, <2>2, FS_Injection
  <2> TAKE i \in 1 .. n
  <2>4. i - 1 \in 0 .. n - 1
    BY <1>1
  <2>5. \E x \in S : f[x] = i - 1
    BY <2>3, <2>4 DEF Surjection
  <2> QED
    BY <2>5
<1>6. /\ DOMAIN s = 1 .. n
      /\ \A i \in 1 .. n : s[i] \in S /\ Rank(s[i]) = i - 1
  <2>1. s = [i \in 1 .. n |-> CHOOSE x \in S : Rank(x) = i - 1]
    BY DEF Sorted
  <2> HIDE DEF Rank, n, s
  <2> QED
    BY <1>5, <2>1
<1> HIDE DEF Rank, n, s
<1>7. s \in Seq(S)
  <2>1. s \in [1 .. n -> S]
    <3>1. s = [i \in 1 .. n |-> s[i]]
      BY <1>6 DEF s, Sorted, n
    <3> QED
      BY <1>6, <3>1
  <2> QED
    BY <1>1, <2>1 DEF Seq
<1>8. Len(s) = n
  BY <1>1, <1>6, <1>7, LenProperties
<1>9. \A x \in S : \E i \in 1 .. n : s[i] = x
  <2> TAKE x \in S
  <2>1. Rank(x) \in 0 .. n - 1
    BY <1>2
  <2>2. Rank(x) + 1 \in 1 .. n /\ (Rank(x) + 1) - 1 = Rank(x)
    BY <1>1, <2>1
  <2>3. Rank(s[Rank(x) + 1]) = Rank(x) /\ s[Rank(x) + 1] \in S
    BY <1>6, <2>2
  <2>4. s[Rank(x) + 1] = x
    BY <1>4, <2>3
  <2> QED
    BY <2>2, <2>4
<1>10. ToSet(s) = S
  BY <1>6, <1>9 DEF ToSet
<1>11. Increasing(s)
  <2> SUFFICES ASSUME NEW i \in 1 .. n, NEW j \in 1 .. n, i < j PROVE s[i] < s[j]
    BY <1>6 DEF Increasing
  <2>1. s[i] \in S /\ s[j] \in S /\ Rank(s[i]) = i - 1 /\ Rank(s[j]) = j - 1
    BY <1>6
  <2>2. s[i] \in Int /\ s[j] \in Int
    BY <2>1
  <2>3. CASE s[j] < s[i]
    <3>1. Rank(s[j]) < Rank(s[i])
      BY <1>3, <2>1, <2>3
    <3> QED
      BY <1>1, <2>1, <3>1
  <2>4. s[i] # s[j]
    BY <1>1, <2>1
  <2> QED
    BY <2>2, <2>3, <2>4
<1> QED
  BY <1>6, <1>7, <1>8, <1>10, <1>11 DEF s

LEMMA SetOfSeq ==
  ASSUME NEW S, NEW s \in Seq(S)
  PROVE  /\ ToSet(s) \subseteq S /\ DOMAIN s = 1 .. Len(s) /\ Len(s) \in Nat
         /\ \A x : Contains(s, x) <=> x \in ToSet(s)
<1>1. DOMAIN s = 1 .. Len(s) /\ Len(s) \in Nat /\ \A i \in 1 .. Len(s) : s[i] \in S
  BY LenProperties, ElementOfSeq
<1> QED
  BY <1>1 DEF ToSet, Contains

\* A trajectory continued by later times.
LEMMA ConcatIncreasing ==
  ASSUME NEW s \in Seq(Times), NEW r \in Seq(Times), Increasing(s), Increasing(r),
         \A x \in ToSet(s), y \in ToSet(r) : x < y
  PROVE  /\ s \o r \in Seq(Times)
         /\ ToSet(s \o r) = ToSet(s) \union ToSet(r)
         /\ Increasing(s \o r)
<1> DEFINE c == s \o r
           m == Len(s)
           k == Len(r)
<1>1. /\ m \in Nat /\ k \in Nat /\ DOMAIN s = 1 .. m /\ DOMAIN r = 1 .. k
      /\ ToSet(s) \subseteq Times /\ ToSet(r) \subseteq Times
  BY SetOfSeq
<1>2. /\ c \in Seq(Times) /\ Len(c) = m + k
      /\ \A i \in 1 .. m + k : c[i] = IF i <= m THEN s[i] ELSE r[i - m]
  BY ConcatProperties
<1>3. DOMAIN c = 1 .. m + k
  BY <1>2, LenProperties
<1> HIDE DEF c, m, k
<1>4. ToSet(c) = ToSet(s) \union ToSet(r)
  <2>1. ASSUME NEW x \in ToSet(c) PROVE x \in ToSet(s) \union ToSet(r)
    <3>1. PICK i \in 1 .. m + k : x = c[i]
      BY <1>3, <2>1 DEF ToSet
    <3>2. CASE i <= m
      BY <1>1, <1>2, <3>1, <3>2 DEF ToSet
    <3>3. CASE ~(i <= m)
      <4>1. i - m \in 1 .. k
        BY <1>1, <3>3
      <4> QED
        BY <1>1, <1>2, <3>1, <3>3, <4>1 DEF ToSet
    <3> QED
      BY <3>2, <3>3
  <2>2. ASSUME NEW x \in ToSet(s) PROVE x \in ToSet(c)
    <3>1. PICK i \in 1 .. m : x = s[i]
      BY <1>1, <2>2 DEF ToSet
    <3>2. i \in 1 .. m + k /\ c[i] = x
      BY <1>1, <1>2, <3>1
    <3> QED
      BY <1>3, <3>2 DEF ToSet
  <2>3. ASSUME NEW x \in ToSet(r) PROVE x \in ToSet(c)
    <3>1. PICK i \in 1 .. k : x = r[i]
      BY <1>1, <2>3 DEF ToSet
    <3>2. i + m \in 1 .. m + k /\ ~(i + m <= m) /\ (i + m) - m = i
      BY <1>1
    <3>3. c[i + m] = x
      BY <1>2, <3>1, <3>2
    <3> QED
      BY <1>3, <3>2, <3>3 DEF ToSet
  <2> QED
    BY <2>1, <2>2, <2>3
<1>5. Increasing(c)
  <2> SUFFICES ASSUME NEW i \in 1 .. m + k, NEW j \in 1 .. m + k, i < j PROVE c[i] < c[j]
    BY <1>3 DEF Increasing
  <2>1. CASE j <= m
    <3>1. i \in 1 .. m /\ j \in 1 .. m
      BY <1>1, <2>1
    <3>2. s[i] < s[j]
      BY <1>1, <3>1 DEF Increasing
    <3> QED
      BY <1>1, <1>2, <3>1, <3>2
  <2>2. CASE ~(i <= m)
    <3>1. i - m \in 1 .. k /\ j - m \in 1 .. k /\ i - m < j - m /\ ~(j <= m)
      BY <1>1, <2>2
    <3>2. r[i - m] < r[j - m]
      BY <1>1, <3>1 DEF Increasing
    <3> QED
      BY <1>2, <2>2, <3>1, <3>2
  <2>3. CASE i <= m /\ ~(j <= m)
    <3>1. i \in 1 .. m /\ j - m \in 1 .. k
      BY <1>1, <2>3
    <3>2. s[i] \in ToSet(s) /\ r[j - m] \in ToSet(r)
      BY <1>1, <3>1 DEF ToSet
    <3>3. s[i] < r[j - m]
      BY <3>2
    <3> QED
      BY <1>2, <2>3, <3>3
  <2> QED
    BY <2>1, <2>2, <2>3
<1> QED
  BY <1>2, <1>4, <1>5 DEF c

\* What joins the trajectory is the times kept, still in order.
LEMMA CollectedFacts ==
  ASSUME segOut \in Seq(Times), Increasing(segOut)
  PROVE  /\ Collected \in Seq(Times) /\ Increasing(Collected)
         /\ ToSet(Collected) = {x \in ToSet(segOut) : Kept(x)}
<1> DEFINE I  == {k \in DOMAIN segOut : Kept(segOut[k])}
           at == Sorted(I)
           c  == Collected
<1>1. DOMAIN segOut = 1 .. Len(segOut) /\ Len(segOut) \in Nat /\ \A i \in DOMAIN segOut : segOut[i] \in Times
  BY LenProperties, ElementOfSeq
<1>2. I \in SUBSET Int /\ IsFiniteSet(I)
  <2>1. IsFiniteSet(1 .. Len(segOut)) /\ I \in SUBSET (1 .. Len(segOut))
    BY <1>1, FS_Interval
  <2> QED
    BY <2>1, FS_Subset
<1> HIDE DEF I
<1>3. /\ at \in Seq(I) /\ ToSet(at) = I /\ Increasing(at) /\ DOMAIN at = 1 .. Len(at) /\ Len(at) \in Nat
  BY <1>2, SortedFacts, SetOfSeq
<1>4. c = [k \in DOMAIN at |-> segOut[at[k]]]
  BY DEF Collected, I
<1> HIDE DEF at, c
<1>5. \A k \in DOMAIN at : at[k] \in I
  BY <1>3 DEF ToSet
<1>6. c \in Seq(Times)
  <2>1. c \in [1 .. Len(at) -> Times]
    BY <1>1, <1>3, <1>4, <1>5 DEF I
  <2> QED
    BY <1>3, <2>1 DEF Seq
<1>7. ToSet(c) = {x \in ToSet(segOut) : Kept(x)}
  <2>1. ASSUME NEW x \in ToSet(c) PROVE x \in ToSet(segOut) /\ Kept(x)
    <3>1. PICK k \in DOMAIN at : x = segOut[at[k]]
      BY <1>4 DEF ToSet
    <3> QED
      BY <1>5, <3>1 DEF ToSet, I
  <2>2. ASSUME NEW x \in ToSet(segOut), Kept(x) PROVE x \in ToSet(c)
    <3>1. PICK i \in DOMAIN segOut : x = segOut[i]
      BY DEF ToSet
    <3>2. i \in ToSet(at)
      BY <1>3, <2>2, <3>1 DEF I
    <3>3. PICK k \in DOMAIN at : at[k] = i
      BY <3>2 DEF ToSet
    <3>4. k \in DOMAIN c /\ c[k] = x
      BY <1>4, <3>1, <3>3
    <3> QED
      BY <3>4 DEF ToSet
  <2> QED
    BY <2>1, <2>2
<1>8. Increasing(c)
  <2> SUFFICES ASSUME NEW i \in DOMAIN at, NEW j \in DOMAIN at, i < j PROVE c[i] < c[j]
    BY <1>4 DEF Increasing
  <2>1. at[i] < at[j] /\ at[i] \in DOMAIN segOut /\ at[j] \in DOMAIN segOut
    BY <1>3, <1>5 DEF Increasing, I
  <2> QED
    BY <1>4, <2>1 DEF Increasing
<1> QED
  BY <1>6, <1>7, <1>8 DEF c

-----------------------------------------------------------------------------
(* Segments *)

\* The segment that starts at a time inside the span ends later, inside it.
LEMMA NextEndpointFacts ==
  ASSUME end \in Nat, boundaries \subseteq 1 .. end - 1, NEW from \in Nat, from < end
  PROVE  NextEndpoint(from) \in from + 1 .. end
<1> DEFINE inside == {x \in boundaries : from < x /\ x < end}
           Below == OpToRel(<, Nat)
<1>1. CASE inside = {}
  BY <1>1 DEF NextEndpoint
<1>2. CASE inside # {}
  <2>0. \A x \in 1 .. end - 1 : x \in Nat
    OBVIOUS
  <2>1. inside \subseteq Nat
    BY <2>0
  <2>2. PICK x \in inside : \A y \in inside : ~ (<<y, x>> \in Below)
    BY <1>2, <2>1, NatLessThanWellFounded, WFMin
  <2>3. \A y \in inside : x <= y
    <3> TAKE y \in inside
    <3>1. x \in Nat /\ y \in Nat /\ ~ (<<y, x>> \in Below)
      BY <2>1, <2>2
    <3> QED
      BY <3>1 DEF OpToRel
  <2>4. Min(inside) \in inside
    <3>1. \E z \in inside : \A y \in inside : z <= y
      BY <2>2, <2>3
    <3> HIDE DEF inside
    <3> QED
      BY <3>1 DEF Min
  <2>5. NextEndpoint(from) = Min(inside)
    BY <1>2 DEF NextEndpoint
  <2>6. Min(inside) \in Nat /\ from < Min(inside) /\ Min(inside) < end
    BY <2>1, <2>4
  <2> QED
    BY <2>5, <2>6
<1> QED
  BY <1>1, <1>2

LEMMA TimesAreFinite ==
  /\ Ticks \subseteq Times /\ Times \subseteq Nat /\ Ticks \subseteq Nat /\ IsFiniteSet(Times)
  /\ \A S \in SUBSET Times : IsFiniteSet(S) /\ S \in SUBSET Int
  /\ Horizon \in Nat
<1>1. IsFiniteSet(Times)
  BY SolveConstants, FS_Interval DEF Times
<1>2. Ticks \subseteq Times /\ Times \subseteq Nat /\ Horizon \in Nat
  BY SolveConstants DEF Ticks, Times
<1>3. ASSUME NEW S \in SUBSET Times PROVE IsFiniteSet(S) /\ S \in SUBSET Int
  <2>1. \A x \in Times : x \in Int
    BY <1>2
  <2> QED
    BY <1>1, <2>1, FS_Subset
<1> QED
  BY <1>1, <1>2, <1>3

LEMMA SolveTypes ==
  ASSUME TypeOK, SegmentShape
  PROVE  /\ end \in Nat /\ a \in Nat /\ b \in Nat /\ t \in Nat /\ end <= Horizon
         /\ a <= b /\ b <= end /\ a <= t /\ t <= b /\ reached \in Nat
         /\ Grid => saveat \subseteq Times /\ SegmentGrid \subseteq Times
         /\ Grid => Requested \subseteq saveat
         /\ before \in Nat /\ steps \in Nat
<1>1. /\ end \in Nat /\ a \in Nat /\ b \in Nat /\ t \in Nat /\ end <= Horizon
      /\ a <= b /\ b <= end /\ a <= t /\ t <= b
      /\ reached \in Nat /\ b \in Times
  BY SolveConstants DEF TypeOK, Ticks, Times
<1>2. Grid => saveat \subseteq Times /\ SegmentGrid \subseteq Times /\ Requested \subseteq saveat
  BY <1>1 DEF TypeOK, Grid, SegmentGrid, Requested
<1> QED
  BY <1>1, <1>2 DEF TypeOK

-----------------------------------------------------------------------------
(* The steps within a segment *)

LEMMA InitSolve == Init => SolveInv
<1> SUFFICES ASSUME Init PROVE SolveInv
  OBVIOUS
<1> USE DEF Init
<1>1. end \in Nat /\ boundaries \subseteq 1 .. end - 1 /\ end <= Horizon /\ 0 \in Ticks
  BY SolveConstants DEF Ticks
<1>2. /\ b \in 0 .. end /\ (0 < b \/ end = 0) /\ (Single => b = end)
  <2>1. CASE end = 0
    <3>0. \A x \in 1 .. 0 - 1 : FALSE
      OBVIOUS
    <3>1. {x \in boundaries : 0 < x /\ x < end} = {}
      BY <1>1, <2>1, <3>0
    <3>2. NextEndpoint(0) = end
      BY <3>1 DEF NextEndpoint
    <3> QED
      BY <2>1, <3>2
  <2>2. CASE end # 0
    <3>1. NextEndpoint(0) \in 1 .. end
      BY <1>1, <2>2, NextEndpointFacts
    <3>2. Single => NextEndpoint(0) = end
      BY DEF Single, NextEndpoint
    <3> QED
      BY <1>1, <3>1, <3>2
  <2> QED
    BY <2>1, <2>2
<1>3. TypeOK
  <2>1. saveat = Native \/ saveat \subseteq Times
    OBVIOUS
  <2>2. boundaries \subseteq Ticks
    BY <1>1, SolveConstants DEF Ticks
  <2>3. << >> \in Seq(Times) /\ {} \subseteq Times
    OBVIOUS
  <2> QED
    BY <1>1, <1>2, <2>1, <2>2, <2>3 DEF TypeOK
<1>4. SegmentShape
  BY <1>1, <1>2 DEF SegmentShape
<1>5. Increasing(out) /\ ToSet(out) = {}
  BY DEF Increasing, ToSet
<1>6. OutReachesStart /\ Entering /\ Stepping /\ Closing
  BY <1>5 DEF OutReachesStart, Entering, Stepping, Closing
<1>7. SuccessReportsTheGrid /\ StoppedReportsWhatItReached
  BY DEF SuccessReportsTheGrid, StoppedReportsWhatItReached
<1> QED
  BY <1>3, <1>4, <1>5, <1>6, <1>7 DEF SolveInv

\* What is left to show of a step inside a segment.
LEMMA InSegment ==
  ASSUME SolveInv, UNCHANGED <<options, segment>>, pc \in {"enter", "step"}, pc' \in {"step", "close"},
         t' \in a .. b, reached' \in Ticks, steps' \in Nat, left' \subseteq Times,
         retcode' \in {"Success", "MaxIters", "Unstable", "Terminated"},
         report' \in [step : Nat, t : Nat], segOut' \in Seq(Times), Increasing(segOut'),
         Stepping', Closing'
  PROVE  SolveInv'
<1> USE DEF options, segment
<1>1. TypeOK'
  BY DEF SolveInv, TypeOK
<1>2. SegmentShape'
  BY DEF SolveInv, SegmentShape, Single
<1>3. OutReachesStart' /\ Increasing(out)'
  BY DEF SolveInv, OutReachesStart, Grid, Increasing
<1>4. Entering' /\ SuccessReportsTheGrid' /\ StoppedReportsWhatItReached'
  BY DEF Entering, SuccessReportsTheGrid, StoppedReportsWhatItReached
<1>5. Increasing(segOut)'
  BY DEF Increasing
<1> QED
  BY <1>1, <1>2, <1>3, <1>4, <1>5 DEF SolveInv

\* A step inside a segment leaves its grid alone.
LEMMA SameGrid ==
  ASSUME UNCHANGED <<options, segment>>
  PROVE  /\ SegmentGrid' = SegmentGrid /\ (Grid' <=> Grid) /\ (Single' <=> Single)
         /\ \A u : Due(u)' = Due(u)
BY DEF options, segment, SegmentGrid, Requested, Single, Grid, Due

\* The grid of a later segment begins after its start.
LEMMA GridShape ==
  ASSUME TypeOK, SegmentShape
  PROVE  /\ end = 0 => Single /\ a = 0 /\ b = 0
         /\ ~Single => a < b /\ b \in SegmentGrid
         /\ a # 0 /\ Grid => \A g \in SegmentGrid : g > a
<1>1. /\ end \in Nat /\ a \in Nat /\ b \in Nat /\ a <= b /\ b <= end
  BY SolveTypes
<1>2. end = 0 => Single /\ a = 0 /\ b = 0
  BY <1>1 DEF SegmentShape, Single
<1>3. ~Single => a < b /\ b \in SegmentGrid
  BY <1>2 DEF SegmentShape, SegmentGrid
<1>4. ASSUME a # 0, Grid, NEW g \in SegmentGrid PROVE g > a
  <2>1. ~Single /\ a < b
    BY <1>3, <1>4 DEF SegmentShape
  <2>2. SegmentGrid = Requested \union {b}
    BY <2>1 DEF SegmentGrid
  <2>3. \A x \in Requested : x > a
    BY <1>4 DEF Requested
  <2> QED
    BY <2>1, <2>2, <2>3
<1> QED
  BY <1>2, <1>3, <1>4

LEMMA EnterStep ==
  ASSUME SolveInv, NEW cancel \in BOOLEAN, Enter(cancel)
  PROVE  SolveInv'
<1>0. /\ end \in Nat /\ a \in Nat /\ b \in Nat /\ a <= b /\ before \in Nat
      /\ Grid => saveat \subseteq Times /\ SegmentGrid \subseteq Times
      /\ end = 0 => Single /\ a = 0 /\ b = 0
      /\ ~Single => a < b /\ b \in SegmentGrid
      /\ a # 0 /\ Grid => \A g \in SegmentGrid : g > a
      /\ a \in Times
  BY SolveTypes, GridShape, TimesAreFinite DEF SolveInv, TypeOK, Ticks, Times
<1>1. /\ pc = "enter" /\ t' = a /\ steps' = 0 /\ report' = [step |-> before, t |-> a]
      /\ UNCHANGED <<options, segment, reached>>
  BY DEF Enter
<1>2. seed = a /\ reached = a /\ retcode = "Success" /\ reached \in Ticks
  BY <1>1 DEF SolveInv, Entering, TypeOK
<1>3. /\ SegmentGrid' = SegmentGrid /\ (Grid' <=> Grid) /\ (Single' <=> Single)
      /\ \A u : Due(u)' = Due(u)
  BY <1>1, SameGrid
<1>4. a' = a /\ b' = b /\ seed' = seed /\ before' = before /\ end' = end /\ saveat' = saveat
  BY <1>1 DEF options, segment
<1>5. t' \in a .. b /\ steps' \in Nat /\ reached' \in Ticks /\ report' \in [step : Nat, t : Nat]
  BY <1>0, <1>1, <1>2
<1>6. CASE cancel
  <2>1. pc' = "close" /\ retcode' = "Terminated" /\ segOut' = <<>> /\ left' = {}
    BY <1>6 DEF Enter, Stop
  <2>2. segOut' \in Seq(Times) /\ Increasing(segOut') /\ ToSet(segOut') = {}
    BY <2>1 DEF Increasing, ToSet
  <2>3. Stepping'
    BY <2>1 DEF Stepping
  <2>4. Grid => \E u \in (IF a = 0 THEN -1 ELSE a) .. a : {} = Due(u)
    <3> SUFFICES ASSUME Grid PROVE \E u \in (IF a = 0 THEN -1 ELSE a) .. a : {} = Due(u)
      OBVIOUS
    <3>1. CASE a = 0
      <4>1. \A g \in SegmentGrid : g \in Nat
        BY <1>0, TimesAreFinite
      <4>2. Due(-1) = {}
        BY <4>1 DEF Due
      <4>3. -1 \in -1 .. a
        BY <3>1
      <4> QED
        BY <3>1, <4>2, <4>3
    <3>2. CASE a # 0
      <4>1. \A g \in SegmentGrid : g > a /\ g \in Nat
        BY <1>0, <3>2, TimesAreFinite
      <4>2. Due(a) = {}
        BY <1>0, <4>1 DEF Due
      <4>3. a \in a .. a
        BY <1>0
      <4> QED
        BY <3>2, <4>2, <4>3
    <3> QED
      BY <3>1, <3>2
  <2>5. Closing'
    <3>1. Grid' => \E u \in (IF a' = 0 THEN -1 ELSE a') .. reached' : ToSet(segOut)' = Due(u)'
      BY <1>1, <1>2, <1>3, <1>4, <2>2, <2>4
    <3>2. reached' \in a' .. b' /\ report'.step <= before' + steps' /\ report'.t <= t'
      BY <1>0, <1>1, <1>2, <1>4
    <3> QED
      BY <2>1, <2>2, <3>1, <3>2 DEF Closing
  <2>6. left' \subseteq Times
    BY <2>1
  <2> QED
    BY <1>1, <1>5, <2>1, <2>2, <2>3, <2>5, <2>6, InSegment
<1>7. CASE ~cancel /\ saveat = Native
  <2>1. /\ pc' = (IF NonAdvancing THEN "close" ELSE "step") /\ retcode' = "Success"
        /\ segOut' = <<a>> /\ left' = {}
    BY <1>2, <1>7 DEF Enter
  <2>2. segOut' \in Seq(Times) /\ Increasing(segOut') /\ ToSet(segOut') = {a}
    <3>1. DOMAIN segOut' = {1} /\ segOut'[1] = a
      BY <2>1
    <3> QED
      BY <1>0, <2>1, <3>1 DEF Increasing, ToSet
  <2>3. NonAdvancing <=> b <= a
    BY <1>7 DEF NonAdvancing
  <2>4. b <= a => end = 0 /\ a = b
    BY <1>0 DEF SolveInv, SegmentShape
  <2>5. Stepping'
    BY <1>0, <1>1, <1>2, <1>3, <1>4, <1>7, <2>1, <2>2, <2>3 DEF Stepping, Grid
  <2>6. Closing'
    BY <1>0, <1>1, <1>2, <1>3, <1>4, <1>7, <2>1, <2>2, <2>3, <2>4 DEF Closing, Grid
  <2>7. left' \subseteq Times
    BY <2>1
  <2> QED
    BY <1>1, <1>5, <2>1, <2>2, <2>5, <2>6, <2>7, InSegment
<1>8. CASE ~cancel /\ Grid /\ NonAdvancing
  <2>1. /\ pc' = "close" /\ retcode' = "Success" /\ segOut' = Sorted(SegmentGrid)
        /\ left' = SegmentGrid \ SegmentGrid
    BY <1>2, <1>8 DEF Enter, Grid
  <2>2. segOut' \in Seq(Times) /\ Increasing(segOut') /\ ToSet(segOut') = SegmentGrid
    <3>1. SegmentGrid \in SUBSET Times
      BY <1>0, <1>8
    <3>2. /\ Sorted(SegmentGrid) \in Seq(SegmentGrid) /\ ToSet(Sorted(SegmentGrid)) = SegmentGrid
          /\ Increasing(Sorted(SegmentGrid))
      BY <3>1, TimesAreFinite, SortedFacts
    <3>3. Sorted(SegmentGrid) \in Seq(Times)
      BY <3>1, <3>2, SeqMonotonic
    <3> QED
      BY <2>1, <3>2, <3>3
  <2>3. Single
    <3>1. ~Single => FALSE
      BY <1>0, <1>8, TimesAreFinite DEF NonAdvancing
    <3> QED
      BY <3>1
  <2>4. end # 0 => SegmentGrid = Due(b)
    <3> SUFFICES ASSUME end # 0 PROVE SegmentGrid = Due(b)
      OBVIOUS
    <3>1. a < b
      BY DEF SolveInv, SegmentShape
    <3>2. \A g \in SegmentGrid : g <= a /\ g \in Nat
      <4>1. \A g \in SegmentGrid : g \in Nat
        BY <1>0, <1>8, TimesAreFinite
      <4>2. ~(b <= a)
        BY <1>0, <3>1
      <4> QED
        BY <1>8, <4>1, <4>2 DEF NonAdvancing
    <3> QED
      BY <1>0, <3>1, <3>2 DEF Due
  <2>5. end = 0 => SegmentGrid = saveat
    BY <2>3 DEF SegmentGrid
  <2>6. Stepping'
    BY <2>1 DEF Stepping
  <2>7. Closing'
    BY <1>0, <1>1, <1>2, <1>3, <1>4, <1>8, <2>1, <2>2, <2>3, <2>4, <2>5 DEF Closing
  <2>8. left' \subseteq Times
    BY <2>1
  <2> QED
    BY <1>1, <1>5, <2>1, <2>2, <2>6, <2>7, <2>8, InSegment
<1>9. CASE ~cancel /\ Grid /\ ~NonAdvancing
  <2>1. /\ pc' = "step" /\ retcode' = "Success" /\ segOut' = Sorted(Due(a))
        /\ left' = SegmentGrid \ Due(a)
    BY <1>2, <1>9 DEF Enter, Grid, Due
  <2>2. segOut' \in Seq(Times) /\ Increasing(segOut') /\ ToSet(segOut') = Due(a)
    <3>1. Due(a) \in SUBSET Times
      BY <1>0, <1>9 DEF Due
    <3>2. /\ Sorted(Due(a)) \in Seq(Due(a)) /\ ToSet(Sorted(Due(a))) = Due(a)
          /\ Increasing(Sorted(Due(a)))
      BY <3>1, TimesAreFinite, SortedFacts
    <3>3. Sorted(Due(a)) \in Seq(Times)
      BY <3>1, <3>2, SeqMonotonic
    <3> QED
      BY <2>1, <3>2, <3>3
  <2>3. a < b
    BY <1>0, <1>9 DEF NonAdvancing
  <2>4. Stepping'
    <3>1. before' + steps' = before
      BY <1>0, <1>1, <1>4
    <3> QED
      BY <1>1, <1>2, <1>3, <1>4, <1>9, <2>1, <2>2, <2>3, <3>1 DEF Stepping
  <2>5. Closing'
    BY <2>1 DEF Closing
  <2>6. left' \subseteq Times
    BY <1>0, <1>9, <2>1
  <2> QED
    BY <1>1, <1>5, <2>1, <2>2, <2>4, <2>5, <2>6, InSegment
<1> QED
  BY <1>6, <1>7, <1>8, <1>9 DEF Grid

\* The output times up to `to`, added to those up to the step's start.
LEMMA StepStep ==
  ASSUME SolveInv, NEW to \in Ticks, NEW cancel \in BOOLEAN, Step(to, cancel)
  PROVE  SolveInv'
<1>0. /\ end \in Nat /\ a \in Nat /\ b \in Nat /\ a <= b /\ b <= end /\ before \in Nat /\ steps \in Nat
      /\ t \in Nat /\ a <= t /\ to \in Nat /\ to \in Times
      /\ Grid => SegmentGrid \subseteq Times
      /\ ~Single => b \in SegmentGrid
  BY SolveTypes, GridShape, TimesAreFinite DEF SolveInv
<1>1. /\ pc = "step" /\ t < to /\ to <= b /\ t' = to /\ steps' = steps + 1
      /\ report' = [step |-> before + (steps + 1), t |-> to] /\ reached' = to
      /\ UNCHANGED <<options, segment>>
  BY DEF Step, StepTo
<1>2. /\ seed = a /\ reached = t /\ retcode = "Success" /\ Increasing(segOut)
      /\ segOut \in Seq(Times)
      /\ Grid => ToSet(segOut) = Due(t) /\ left = SegmentGrid \ Due(t)
      /\ ~Grid => {a, t} \subseteq ToSet(segOut) /\ ToSet(segOut) \subseteq a .. t
  BY <1>1 DEF SolveInv, Stepping, TypeOK
<1>3. /\ SegmentGrid' = SegmentGrid /\ (Grid' <=> Grid) /\ (Single' <=> Single)
      /\ \A u : Due(u)' = Due(u)
  BY <1>1, SameGrid
<1>4. a' = a /\ b' = b /\ seed' = seed /\ before' = before /\ end' = end /\ saveat' = saveat
  BY <1>1 DEF options, segment
<1>5. /\ t' \in a .. b /\ steps' \in Nat /\ reached' \in Ticks /\ report' \in [step : Nat, t : Nat]
      /\ reached' \in a' .. b' /\ report' = [step |-> before' + steps', t |-> t'] /\ end # 0
  BY <1>0, <1>1, <1>4
<1>6. /\ pc' = IF cancel \/ to = b THEN "close" ELSE "step"
      /\ retcode' = IF cancel THEN "Terminated" ELSE "Success"
  BY <1>2 DEF Step, Stop
<1> DEFINE due == IF saveat = Native THEN {to}
                  ELSE IF cancel THEN {} ELSE {g \in left : g <= to}
<1>7. segOut' = segOut \o Sorted(due) /\ left' = left \ due
  BY DEF Step
<1>8. due \in SUBSET Times /\ left' \subseteq Times
  <2>1. left \subseteq Times
    BY DEF SolveInv, TypeOK
  <2> QED
    BY <1>0, <1>7, <2>1
<1>9. \A y \in due : t < y
  <2>1. CASE Grid
    <3>1. \A y \in due : y \in SegmentGrid /\ y \notin Due(t)
      BY <1>2, <2>1 DEF Grid
    <3>2. \A y \in SegmentGrid : y \in Nat
      BY <1>0, <2>1, TimesAreFinite
    <3> HIDE DEF due
    <3> QED
      BY <1>0, <3>1, <3>2 DEF Due
  <2>2. CASE ~Grid
    BY <1>1, <2>2 DEF Grid
  <2> QED
    BY <2>1, <2>2
<1>10. \A x \in ToSet(segOut) : x <= t
  <2>1. CASE Grid
    BY <1>2, <2>1 DEF Due
  <2>2. CASE ~Grid
    BY <1>0, <1>2, <2>2
  <2> QED
    BY <2>1, <2>2
<1>11. /\ segOut' \in Seq(Times) /\ Increasing(segOut')
       /\ ToSet(segOut') = ToSet(segOut) \union due
  <2> HIDE DEF due
  <2>1. /\ Sorted(due) \in Seq(due) /\ ToSet(Sorted(due)) = due /\ Increasing(Sorted(due))
    BY <1>8, TimesAreFinite, SortedFacts
  <2>2. Sorted(due) \in Seq(Times)
    BY <1>8, <2>1, SeqMonotonic
  <2>3. \A x \in ToSet(segOut), y \in due : x < y
    <3> SUFFICES ASSUME NEW x \in ToSet(segOut), NEW y \in due PROVE x < y
      OBVIOUS
    <3>1. x \in Nat /\ y \in Nat
      BY <1>2, <1>8, SetOfSeq, TimesAreFinite
    <3>2. x <= t /\ t < y
      BY <1>9, <1>10
    <3> QED
      BY <1>0, <3>1, <3>2
  <2> QED
    BY <1>2, <1>7, <2>1, <2>2, <2>3, ConcatIncreasing
<1>12. Grid /\ ~cancel => ToSet(segOut') = Due(to) /\ left' = SegmentGrid \ Due(to)
  <2> SUFFICES ASSUME Grid, ~cancel PROVE ToSet(segOut') = Due(to) /\ left' = SegmentGrid \ Due(to)
    OBVIOUS
  <2>1. due = {g \in SegmentGrid \ Due(t) : g <= to}
    BY <1>2 DEF Grid
  <2>2. \A g \in SegmentGrid : g \in Nat
    BY <1>0, TimesAreFinite
  <2> HIDE DEF due
  <2>3. \A g \in SegmentGrid : g <= t => g <= to
    BY <1>0, <1>1, <2>2
  <2>4. Due(t) \union due = Due(to)
    BY <2>1, <2>3 DEF Due
  <2>5. (SegmentGrid \ Due(t)) \ due = SegmentGrid \ Due(to)
    BY <2>1, <2>3 DEF Due
  <2> QED
    BY <1>2, <1>7, <1>11, <2>4, <2>5
<1>13. Grid /\ cancel => ToSet(segOut') = Due(t)
  BY <1>2, <1>11 DEF Grid
<1>14. ~Grid => ToSet(segOut') = ToSet(segOut) \union {to}
  BY <1>11 DEF Grid
<1> HIDE DEF due
<1>15. ~Grid => {a, to} \subseteq ToSet(segOut') /\ ToSet(segOut') \subseteq a .. to
  <2>1. a .. t \subseteq a .. to /\ to \in a .. to
    BY <1>0, <1>1
  <2> QED
    BY <1>2, <1>14, <2>1
<1>16. Stepping'
  <2> SUFFICES ASSUME ~cancel, to # b PROVE Stepping'
    BY <1>6 DEF Stepping
  <2>1. t' < b'
    BY <1>0, <1>1, <1>4
  <2> QED
    BY <1>1, <1>2, <1>3, <1>4, <1>5, <1>6, <1>12, <1>15, <2>1 DEF Stepping
<1>17. Closing'
  <2>1. report'.step <= before' + steps' /\ report'.t <= t' /\ retcode' # "Error"
    BY <1>0, <1>1, <1>4, <1>5, <1>6
  <2>2. ~Grid' => ToSet(segOut)' \subseteq a' .. b'
    <3>1. a .. to \subseteq a .. b
      BY <1>0, <1>1
    <3> QED
      BY <1>3, <1>4, <1>15, <3>1
  <2>3. CASE cancel
    <3>1. Grid' => \E u \in (IF a' = 0 THEN -1 ELSE a') .. reached' : ToSet(segOut)' = Due(u)'
      <4>1. t \in (IF a' = 0 THEN -1 ELSE a') .. reached'
        BY <1>0, <1>1, <1>4
      <4> QED
        BY <1>3, <1>13, <2>3, <4>1
    <3> QED
      BY <1>5, <1>6, <2>1, <2>2, <2>3, <3>1 DEF Closing
  <2>4. CASE ~cancel
    <3> SUFFICES ASSUME to = b PROVE Closing'
      BY <1>6, <2>4 DEF Closing
    <3> QED
      BY <1>1, <1>3, <1>4, <1>5, <1>6, <1>12, <1>15, <2>1, <2>2, <2>4 DEF Closing
  <2> QED
    BY <2>3, <2>4
<1>18. pc' \in {"step", "close"} /\ retcode' \in {"Success", "MaxIters", "Unstable", "Terminated"}
  BY <1>6
<1> QED
  BY <1>1, <1>5, <1>8, <1>11, <1>16, <1>17, <1>18, InSegment

\* The exits of the solver loop leave what the segment reported as it is.
LEMMA ExitStep ==
  ASSUME SolveInv, GridDone \/ HitsCap \/ \E to \in Ticks : Blowup(to)
  PROVE  SolveInv'
<1>0. /\ end \in Nat /\ a \in Nat /\ b \in Nat /\ a <= b /\ b <= end /\ before \in Nat /\ steps \in Nat
      /\ t \in Nat /\ a <= t /\ t <= b
      /\ Grid => SegmentGrid \subseteq Times
      /\ ~Single => b \in SegmentGrid
  BY SolveTypes, GridShape DEF SolveInv
<1>1. /\ pc = "step" /\ pc' = "close" /\ UNCHANGED <<options, segment, left, segOut, report, reached>>
      /\ \/ retcode' = "Success" /\ Grid /\ left = {} /\ t' = t /\ steps' = steps
         \/ retcode' = "MaxIters" /\ t' = t /\ steps' = steps
         \/ retcode' = "Unstable" /\ t' \in Ticks /\ t < t' /\ t' <= b /\ steps' = steps + 1
  BY DEF GridDone, HitsCap, Blowup, StepTo, Stop, Exhausted, Grid, solver
<1>2. /\ reached = t /\ t < b /\ report = [step |-> before + steps, t |-> t] /\ Increasing(segOut)
      /\ Grid => ToSet(segOut) = Due(t) /\ left = SegmentGrid \ Due(t)
      /\ ~Grid => ToSet(segOut) \subseteq a .. t
      /\ reached \in Ticks /\ left \subseteq Times /\ segOut \in Seq(Times)
  BY <1>1 DEF SolveInv, Stepping, TypeOK
<1>3. /\ SegmentGrid' = SegmentGrid /\ (Grid' <=> Grid) /\ (Single' <=> Single)
      /\ \A u : Due(u)' = Due(u)
  BY <1>1, SameGrid
<1>4. a' = a /\ b' = b /\ seed' = seed /\ before' = before /\ end' = end /\ saveat' = saveat
  BY <1>1 DEF options, segment
<1>5. t' \in Nat /\ t <= t' /\ t' <= b /\ steps' \in Nat /\ steps <= steps'
  <2>1. \A x \in Ticks : x \in Nat
    BY TimesAreFinite
  <2>2. t' = t \/ (t' \in Nat /\ t < t' /\ t' <= b)
    BY <1>1, <2>1
  <2>3. steps' = steps \/ steps' = steps + 1
    BY <1>1
  <2> QED
    BY <1>0, <2>2, <2>3
<1>6. /\ t' \in a .. b /\ reached' \in Ticks /\ report' \in [step : Nat, t : Nat]
      /\ reached' \in a' .. b' /\ report'.step <= before' + steps' /\ report'.t <= t'
  <2>1. report' = [step |-> before + steps, t |-> t] /\ reached' = t /\ reached' \in Ticks
    BY <1>1, <1>2
  <2>2. report'.step = before + steps /\ report'.t = t /\ report' \in [step : Nat, t : Nat]
    BY <1>0, <2>1
  <2>3. before + steps <= before' + steps'
    <3>1. before' = before /\ before \in Nat /\ steps \in Nat
      BY <1>0, <1>4
    <3>2. \A k, n \in Nat : n <= k => before + n <= before + k
      BY <3>1
    <3>3. before + steps <= before + steps'
      BY <1>5, <3>1, <3>2
    <3> QED
      BY <3>1, <3>3
  <2>4. t' \in a .. b /\ t \in a .. b
    BY <1>0, <1>5
  <2>5. report'.t <= t'
    BY <1>5, <2>2
  <2> QED
    BY <1>4, <2>1, <2>2, <2>3, <2>4, <2>5
<1>7. ~Grid' => ToSet(segOut)' \subseteq a' .. b'
  <2>1. a .. t \subseteq a .. b
    BY <1>0
  <2> QED
    BY <1>1, <1>2, <1>3, <1>4, <2>1
<1>8. ASSUME Grid, left = {}
      PROVE  Single /\ ToSet(segOut) = Due(b) /\ end # 0
  <2>1. \A g \in SegmentGrid : g <= t /\ g \in Nat
    BY <1>0, <1>2, <1>8, TimesAreFinite DEF Due
  <2>2. Single
    <3>1. ~Single => b <= t
      BY <1>0, <2>1
    <3> QED
      BY <1>0, <1>2, <3>1
  <2>3. Due(t) = Due(b)
    BY <1>0, <1>2, <2>1 DEF Due
  <2> QED
    BY <1>0, <1>2, <1>8, <2>2, <2>3
<1>9. Closing'
  <2>1. CASE retcode' = "Success"
    BY <1>1, <1>3, <1>4, <1>6, <1>7, <1>8, <2>1 DEF Closing
  <2>2. CASE retcode' # "Success"
    <3>1. ToSet(segOut)' = ToSet(segOut) /\ reached' = t
      BY <1>1, <1>2
    <3> QED
      BY <1>1, <1>2, <1>3, <1>6, <1>7, <2>2, <3>1 DEF Closing
  <2> QED
    BY <2>1, <2>2
<1>10. Stepping'
  BY <1>1 DEF Stepping
<1> QED
  BY <1>1, <1>2, <1>5, <1>6, <1>9, <1>10, InSegment

-----------------------------------------------------------------------------
(* The end of a segment *)

LEMMA NeighboursInOrder ==
  ASSUME NEW s \in Seq(Times), Increasing(s)
  PROVE  \A i \in 1 .. Len(s) - 1 : s[i] < s[i + 1]
<1>1. DOMAIN s = 1 .. Len(s) /\ Len(s) \in Nat
  BY SetOfSeq
<1>2. \A i \in 1 .. Len(s) - 1 : i \in 1 .. Len(s) /\ i + 1 \in 1 .. Len(s) /\ i < i + 1
  BY <1>1
<1> QED
  BY <1>1, <1>2 DEF Increasing

\* The trajectory with the segment's times is in order.
LEMMA CloseAppends ==
  ASSUME SolveInv, Close
  PROVE  /\ out' \in Seq(Times) /\ Increasing(out')
         /\ ToSet(out') = ToSet(out) \union {x \in ToSet(segOut) : Kept(x)}
<1>0. /\ a \in Nat /\ a <= b /\ out \in Seq(Times) /\ segOut \in Seq(Times)
      /\ ToSet(out) \subseteq Times /\ ToSet(segOut) \subseteq Times
  BY SolveTypes, SetOfSeq DEF SolveInv, TypeOK
<1>1. pc = "close" /\ out' = out \o Collected
  BY DEF Close
<1>2. /\ Increasing(out) /\ Increasing(segOut) /\ (Single => a = 0)
      /\ a = 0 => ToSet(out) = {}
      /\ a # 0 => \A x \in ToSet(out) : x <= a
  <2>1. Increasing(out) /\ Increasing(segOut) /\ (Single => a = 0) /\ OutReachesStart
    BY <1>1 DEF SolveInv, SegmentShape
  <2>2. a = 0 => ToSet(out) = {}
    BY <1>1, <2>1 DEF OutReachesStart
  <2>3. ASSUME a # 0, NEW x \in ToSet(out) PROVE x <= a
    <3>1. CASE Grid
      BY <1>1, <2>1, <2>3, <3>1 DEF OutReachesStart
    <3>2. CASE ~Grid
      <4>1. x \in 0 .. a
        BY <1>1, <2>1, <2>3, <3>2 DEF OutReachesStart
      <4> QED
        BY <1>0, <4>1
    <3> QED
      BY <3>1, <3>2
  <2> QED
    BY <2>1, <2>2, <2>3
<1>3. /\ Collected \in Seq(Times) /\ Increasing(Collected)
      /\ ToSet(Collected) = {x \in ToSet(segOut) : Kept(x)}
  BY <1>0, <1>2, CollectedFacts
<1>4. ASSUME NEW x \in ToSet(out), NEW y \in ToSet(Collected) PROVE x < y
  <2>1. a # 0 /\ ~Single /\ x <= a
    BY <1>2
  <2>2. y > a
    BY <1>3, <2>1 DEF Kept, Requested
  <2>3. x \in Nat /\ y \in Nat
    BY <1>0, <1>3, TimesAreFinite
  <2> QED
    BY <1>0, <2>1, <2>2, <2>3
<1> QED
  BY <1>0, <1>1, <1>2, <1>3, <1>4, ConcatIncreasing

\* A segment that reports its grid up to u makes the trajectory reach u.
LEMMA CloseReaches ==
  ASSUME SolveInv, Close, Grid, NEW u \in Int, (IF a = 0 THEN -1 ELSE a) <= u, u <= b,
         ToSet(segOut) = Due(u)
  PROVE  ToSet(out') = {g \in saveat : g <= u}
<1>0. /\ a \in Nat /\ b \in Nat /\ a <= b /\ saveat \subseteq Nat /\ Requested \subseteq saveat
  BY SolveTypes, TimesAreFinite DEF SolveInv
<1>1. ToSet(out) = IF a = 0 THEN {} ELSE {g \in saveat : g <= a}
  BY DEF Close, SolveInv, OutReachesStart
<1>2. ToSet(out') = ToSet(out) \union {x \in Due(u) : Kept(x)}
  BY CloseAppends
<1>3. CASE Single
  <2>1. a = 0 /\ SegmentGrid = saveat /\ \A x : Kept(x)
    BY <1>3 DEF SolveInv, SegmentShape, SegmentGrid, Kept
  <2> QED
    BY <1>1, <1>2, <2>1 DEF Due
<1>4. CASE ~Single
  <2>1. SegmentGrid = Requested \union {b} /\ \A x : Kept(x) <=> x \in Requested
    BY <1>4 DEF SegmentGrid, Kept, Grid
  <2>2. {x \in Due(u) : Kept(x)} = {x \in Requested : x <= u}
    BY <2>1 DEF Due
  <2>3. CASE a = 0
    <3>1. \A g \in saveat : g <= u => g \in Requested
      BY <1>0, <2>3 DEF Requested
    <3> QED
      BY <1>0, <1>1, <1>2, <2>2, <2>3, <3>1
  <2>4. CASE a # 0
    <3>1. \A g \in saveat : g <= a \/ (g \in Requested /\ g <= u) <=> g <= u
      BY <1>0, <2>4 DEF Requested
    <3> QED
      BY <1>0, <1>1, <1>2, <2>2, <2>4, <3>1
  <2> QED
    BY <2>3, <2>4
<1> QED
  BY <1>3, <1>4

LEMMA CloseStep ==
  ASSUME SolveInv, Close
  PROVE  SolveInv'
<1>0. /\ end \in Nat /\ a \in Nat /\ b \in Nat /\ a <= b /\ b <= end /\ before \in Nat /\ steps \in Nat
      /\ end <= Horizon /\ Horizon \in Nat /\ reached \in Nat /\ t \in Nat /\ a <= t /\ t <= b
      /\ Grid => saveat \subseteq Nat
  BY SolveTypes, TimesAreFinite DEF SolveInv
<1>1. /\ pc = "close" /\ before' = before + steps
      /\ seed' = IF Contains(segOut, b) THEN b ELSE seed
      /\ UNCHANGED <<options, solver, retcode, report, reached>>
      /\ IF retcode # "Success" \/ b = end
         THEN pc' = "done" /\ UNCHANGED <<a, b>>
         ELSE pc' = "enter" /\ a' = b /\ b' = NextEndpoint(b)
  BY DEF Close
<1>2. /\ end' = end /\ saveat' = saveat /\ boundaries' = boundaries
      /\ t' = t /\ steps' = steps /\ left' = left /\ segOut' = segOut
  BY <1>1 DEF options, solver
<1>3. /\ out' \in Seq(Times) /\ Increasing(out')
      /\ ToSet(out') = ToSet(out) \union {x \in ToSet(segOut) : Kept(x)}
  BY CloseAppends
<1>4. Closing /\ (Single <=> boundaries = {}) /\ (Single => a = 0 /\ b = end)
  BY DEF SolveInv, SegmentShape, Single
<1>5. InOrder'
  BY <1>3, NeighboursInOrder DEF InOrder
<1>6. reached \in a .. b /\ retcode # "Error"
  BY <1>1, <1>4 DEF Closing
<1>7. CASE retcode = "Success" /\ b # end
  <2>1. /\ pc' = "enter" /\ a' = b /\ b' = NextEndpoint(b) /\ retcode' = "Success" /\ b < end
    BY <1>0, <1>1, <1>7
  <2>2. ~Single /\ t = b /\ reached = b /\ end # 0
    BY <1>0, <1>1, <1>4, <1>7 DEF Closing
  <2>3. b' \in b + 1 .. end
    BY <1>0, <2>1, NextEndpointFacts DEF SolveInv, SegmentShape
  <2>4. a < b /\ b \in SegmentGrid
    BY <2>2, GridShape DEF SolveInv
  <2>5. b \in ToSet(segOut) /\ Contains(segOut, b)
    <3>1. b \in ToSet(segOut)
      BY <1>0, <1>1, <1>4, <1>7, <2>2, <2>4 DEF Closing, Due
    <3> QED
      BY <3>1, SetOfSeq DEF SolveInv, TypeOK
  <2>6. seed' = b
    BY <1>1, <2>5
  <2>7. OutReachesStart'
    <3>1. CASE Grid
      <4>1. ToSet(segOut) = Due(b)
        BY <1>1, <1>4, <1>7, <2>2, <3>1 DEF Closing
      <4>2. b \in Int /\ (IF a = 0 THEN -1 ELSE a) <= b /\ b <= b
        BY <1>0
      <4>3. ToSet(out') = {g \in saveat : g <= b}
        BY <3>1, <4>1, <4>2, CloseReaches
      <4> QED
        BY <1>0, <1>2, <2>1, <2>4, <3>1, <4>3 DEF OutReachesStart, Grid
    <3>2. CASE ~Grid
      <4>1. /\ {a, b} \subseteq ToSet(segOut) /\ ToSet(segOut) \subseteq a .. b
            /\ IF a = 0 THEN ToSet(out) = {} ELSE {0, a} \subseteq ToSet(out) /\ ToSet(out) \subseteq 0 .. a
        BY <1>1, <1>4, <1>7, <3>2 DEF Closing, SolveInv, OutReachesStart
      <4>2. \A x : Kept(x) <=> (IF a = 0 THEN x >= a ELSE x > a) /\ x <= b
        BY <2>2, <3>2 DEF Kept, Grid
      <4>3. 0 \in ToSet(out') /\ b \in ToSet(out')
        <5>1. Kept(b) /\ (a = 0 => Kept(a))
          BY <1>0, <2>4, <4>2
        <5> QED
          BY <1>3, <4>1, <5>1
      <4>4. ToSet(out') \subseteq 0 .. b
        <5>1. a .. b \subseteq 0 .. b /\ 0 .. a \subseteq 0 .. b
          BY <1>0
        <5> QED
          BY <1>3, <4>1, <5>1
      <4> QED
        BY <1>0, <1>2, <2>1, <2>4, <3>2, <4>3, <4>4 DEF OutReachesStart, Grid
    <3> QED
      BY <3>1, <3>2
  <2>8. TypeOK'
    <3>1. b' \in 0 .. end' /\ a' \in 0 .. b' /\ t' \in a' .. b'
      BY <1>0, <1>2, <2>1, <2>2, <2>3
    <3>2. seed' \in Ticks /\ before' \in Nat
      BY <1>0, <1>1, <2>6 DEF Ticks
    <3> QED
      BY <1>1, <1>2, <1>3, <2>1, <3>1, <3>2 DEF SolveInv, TypeOK
  <2>9. SegmentShape'
    <3>1. a' < b' /\ ~Single'
      BY <1>0, <1>2, <2>1, <2>2, <2>3 DEF Single
    <3> QED
      BY <1>1, <1>2, <3>1 DEF SolveInv, SegmentShape
  <2>10. Entering'
    <3>1. report.step <= before + steps /\ report.t <= t
      BY <1>1, <1>4 DEF Closing
    <3> QED
      BY <1>1, <1>2, <2>1, <2>2, <2>6, <3>1 DEF Entering
  <2>11. /\ Stepping' /\ Closing' /\ SuccessReportsTheGrid' /\ StoppedReportsWhatItReached'
         /\ (pc \in {"step", "close"} => Increasing(segOut))'
    BY <2>1 DEF Stepping, Closing, SuccessReportsTheGrid, StoppedReportsWhatItReached
  <2>12. Increasing(out)'
    BY <1>3 DEF Increasing
  <2> QED
    BY <2>7, <2>8, <2>9, <2>10, <2>11, <2>12 DEF SolveInv
<1>8. CASE retcode # "Success" \/ b = end
  <2>1. pc' = "done" /\ a' = a /\ b' = b /\ retcode' = retcode /\ reached' = reached
    BY <1>1, <1>8
  <2>2. TypeOK'
    <3>1. seed' \in Ticks /\ before' \in Nat
      BY <1>0, <1>1 DEF SolveInv, TypeOK, Ticks
    <3> QED
      BY <1>1, <1>2, <1>3, <2>1, <3>1 DEF SolveInv, TypeOK
  <2>3. SegmentShape'
    BY <1>1, <1>2, <2>1 DEF SolveInv, SegmentShape, Single
  <2>4. SuccessReportsTheGrid'
    <3> SUFFICES ASSUME retcode = "Success"
                 PROVE  IF saveat = Native THEN {0, end} \subseteq ToSet(out')
                        ELSE ToSet(out') = IF end = 0 THEN saveat ELSE {g \in saveat : g <= end}
      BY <1>2, <1>5, <2>1 DEF SuccessReportsTheGrid, OutputTimes
    <3>1. b = end
      BY <1>8
    <3>2. CASE ~Grid
      <4>1. /\ {a, b} \subseteq ToSet(segOut)
            /\ a # 0 => 0 \in ToSet(out)
        BY <1>1, <1>4, <3>2 DEF Closing, SolveInv, OutReachesStart
      <4>2. Kept(b) /\ (a = 0 => Kept(a))
        <5>1. a < b \/ a = 0
          BY <1>0 DEF SolveInv, SegmentShape
        <5> QED
          BY <1>0, <3>2, <5>1 DEF Kept, Grid
      <4> QED
        BY <1>3, <3>1, <3>2, <4>1, <4>2 DEF Grid
    <3>3. CASE Grid /\ end = 0
      <4>1. Single /\ a = 0 /\ ToSet(segOut) = saveat
        BY <1>1, <1>4, <3>3, GridShape DEF Closing, SolveInv
      <4>2. ToSet(out) = {} /\ \A x : Kept(x)
        BY <1>1, <3>3, <4>1 DEF SolveInv, OutReachesStart, Kept
      <4>3. ToSet(out') = saveat
        BY <1>3, <4>1, <4>2
      <4> QED
        BY <3>3, <4>3 DEF Grid
    <3>4. CASE Grid /\ end # 0
      <4>1. ToSet(segOut) = Due(b)
        BY <1>1, <1>4, <3>4 DEF Closing
      <4>2. b \in Int /\ (IF a = 0 THEN -1 ELSE a) <= b /\ b <= b
        BY <1>0
      <4>3. ToSet(out') = {g \in saveat : g <= b}
        BY <3>4, <4>1, <4>2, CloseReaches
      <4> QED
        BY <3>1, <3>4, <4>3 DEF Grid
    <3> QED
      BY <3>2, <3>3, <3>4
  <2>5. StoppedReportsWhatItReached'
    <3> SUFFICES ASSUME Grid
                 PROVE  /\ retcode \in {"MaxIters", "Unstable"} => ToSet(out') = {g \in saveat : g <= reached}
                        /\ retcode = "Terminated" =>
                             \E upTo \in -1 .. reached : ToSet(out') = {g \in saveat : g <= upTo}
      BY <1>2, <1>5, <2>1 DEF StoppedReportsWhatItReached, OutputTimes, Grid
    <3>1. ASSUME retcode \in {"MaxIters", "Unstable"}
          PROVE  ToSet(out') = {g \in saveat : g <= reached}
      <4>1. ToSet(segOut) = Due(reached)
        BY <1>1, <1>4, <3>1 DEF Closing
      <4>2. reached \in Int /\ (IF a = 0 THEN -1 ELSE a) <= reached /\ reached <= b
        BY <1>0, <1>6
      <4> QED
        BY <4>1, <4>2, CloseReaches
    <3>2. ASSUME retcode = "Terminated"
          PROVE  \E upTo \in -1 .. reached : ToSet(out') = {g \in saveat : g <= upTo}
      <4>1. PICK u \in (IF a = 0 THEN -1 ELSE a) .. reached : ToSet(segOut) = Due(u)
        BY <1>1, <1>4, <3>2 DEF Closing
      <4>2. /\ u \in Int /\ (IF a = 0 THEN -1 ELSE a) <= u /\ u <= b /\ u \in -1 .. reached
        BY <1>0, <1>6
      <4>3. ToSet(out') = {g \in saveat : g <= u}
        BY <4>1, <4>2, CloseReaches
      <4> QED
        BY <4>2, <4>3
    <3> QED
      BY <3>1, <3>2
  <2>6. /\ OutReachesStart' /\ Entering' /\ Stepping' /\ Closing'
        /\ (pc \in {"step", "close"} => Increasing(segOut))'
    BY <2>1 DEF OutReachesStart, Entering, Stepping, Closing
  <2>7. Increasing(out)'
    BY <1>3 DEF Increasing
  <2> QED
    BY <2>2, <2>3, <2>4, <2>5, <2>6, <2>7 DEF SolveInv
<1> QED
  BY <1>7, <1>8

LEMMA FailStep ==
  ASSUME SolveInv, Fail
  PROVE  SolveInv'
<1>1. /\ pc' = "done" /\ retcode' = "Error" /\ UNCHANGED <<options, segment, solver, report, reached>>
  BY DEF Fail
<1> USE DEF options, segment, solver
<1>2. TypeOK' /\ SegmentShape' /\ Increasing(out)'
  BY <1>1 DEF SolveInv, TypeOK, SegmentShape, Single, Increasing
<1>3. InOrder'
  BY <1>1, NeighboursInOrder DEF SolveInv, TypeOK, InOrder
<1>4. SuccessReportsTheGrid' /\ StoppedReportsWhatItReached'
  BY <1>1, <1>3 DEF SuccessReportsTheGrid, StoppedReportsWhatItReached
<1>5. /\ OutReachesStart' /\ Entering' /\ Stepping' /\ Closing'
      /\ (pc \in {"step", "close"} => Increasing(segOut))'
  BY <1>1 DEF OutReachesStart, Entering, Stepping, Closing
<1> QED
  BY <1>2, <1>4, <1>5 DEF SolveInv

-----------------------------------------------------------------------------
(* The theorems *)

LEMMA StepSolve == SolveInv /\ [Next]_vars => SolveInv'
<1> SUFFICES ASSUME SolveInv, [Next]_vars PROVE SolveInv'
  OBVIOUS
<1>1. CASE UNCHANGED vars
  <2>1. UNCHANGED <<options, segment, solver, pc, retcode, report, reached>>
    BY <1>1 DEF vars
  <2>2. /\ SegmentGrid' = SegmentGrid /\ (Grid' <=> Grid) /\ (Single' <=> Single)
        /\ \A u : Due(u)' = Due(u)
    BY <2>1, SameGrid
  <2>3. /\ UNCHANGED <<end, saveat, boundaries, cap>> /\ UNCHANGED <<a, b, seed, out, before>>
        /\ UNCHANGED <<t, steps, left, segOut>> /\ UNCHANGED <<pc, retcode, report, reached>>
    BY <2>1 DEF options, segment, solver
  <2>4. TypeOK' /\ SegmentShape'
    BY <2>2, <2>3 DEF SolveInv, TypeOK, SegmentShape
  <2>5. Increasing(out)' /\ (pc \in {"step", "close"} => Increasing(segOut))'
    BY <2>3 DEF SolveInv, Increasing
  <2>6. OutReachesStart' /\ Entering'
    BY <2>2, <2>3 DEF SolveInv, OutReachesStart, Entering
  <2>7. Stepping'
    BY <2>2, <2>3 DEF SolveInv, Stepping
  <2>8. Closing'
    BY <2>2, <2>3 DEF SolveInv, Closing
  <2>9. SuccessReportsTheGrid' /\ StoppedReportsWhatItReached'
    BY <2>3 DEF SolveInv, SuccessReportsTheGrid, StoppedReportsWhatItReached, InOrder, OutputTimes
  <2> QED
    BY <2>4, <2>5, <2>6, <2>7, <2>8, <2>9 DEF SolveInv
<1>2. CASE Next
  BY <1>2, EnterStep, StepStep, ExitStep, CloseStep, FailStep DEF Next
<1> QED
  BY <1>1, <1>2

\* The inductive invariant holds in every reachable state.
THEOREM SolveInvariant == Spec => []SolveInv
<1> QED
  BY InitSolve, StepSolve, PTL DEF Spec

\* Times, counters and the solver stay in their ranges, and the solver in its
\* segment (run_segmented, run_solver).
THEOREM SolveTypeCorrect == Spec => []TypeOK
<1>1. SolveInv => TypeOK
  BY DEF SolveInv
<1> QED
  BY <1>1, SolveInvariant, PTL

\* Every segment is integrated from the state at its start (u0 in run_segmented).
THEOREM SegmentsAreSeeded == Spec => []SegmentStartsFromItsState
<1>1. SolveInv => SegmentStartsFromItsState
  BY DEF SolveInv, Entering, Stepping, SegmentStartsFromItsState
<1> QED
  BY <1>1, SolveInvariant, PTL

\* However the refresh boundaries cut the span, a successful run reports its
\* output grid, in order and once (run_segmented).
THEOREM GridIsReported == Spec => []SuccessReportsTheGrid
<1>1. SolveInv => SuccessReportsTheGrid
  BY DEF SolveInv
<1> QED
  BY <1>1, SolveInvariant, PTL

\* A run that stops early reports its grid as far as it came (run_solver).
THEOREM StoppedRunIsReported == Spec => []StoppedReportsWhatItReached
<1>1. SolveInv => StoppedReportsWhatItReached
  BY DEF SolveInv
<1> QED
  BY <1>1, SolveInvariant, PTL

\* The progress a host is shown never goes back, a segment boundary included
\* (the wrapped observer of run_segmented).
THEOREM ProgressIsMonotone == Spec => ProgressNeverRestarts
<1>1. SolveInv /\ [Next]_vars => [report'.step >= report.step /\ report'.t >= report.t]_vars
  <2> SUFFICES ASSUME SolveInv, Next PROVE report'.step >= report.step /\ report'.t >= report.t
    OBVIOUS
  <2>0. /\ report \in [step : Nat, t : Nat] /\ before \in Nat /\ steps \in Nat /\ a \in Nat /\ t \in Nat
    BY SolveTypes DEF SolveInv, SegmentShape
  <2>1. ASSUME NEW cancel \in BOOLEAN, Enter(cancel)
        PROVE  report'.step >= report.step /\ report'.t >= report.t
    <3>1. report' = [step |-> before, t |-> a] /\ report.step <= before /\ report.t <= a
      BY <2>1 DEF Enter, SolveInv, Entering
    <3> QED
      BY <2>0, <3>1
  <2>2. ASSUME NEW to \in Ticks, NEW cancel \in BOOLEAN, Step(to, cancel)
        PROVE  report'.step >= report.step /\ report'.t >= report.t
    <3>1. /\ report' = [step |-> before + (steps + 1), t |-> to] /\ t < to
          /\ report = [step |-> before + steps, t |-> t]
      BY <2>2 DEF Step, StepTo, SolveInv, Stepping
    <3>2. to \in Nat
      BY TimesAreFinite
    <3> QED
      BY <2>0, <3>1, <3>2
  <2>3. CASE GridDone \/ HitsCap \/ Close \/ Fail \/ \E to \in Ticks : Blowup(to)
    <3>1. report' = report
      BY <2>3 DEF GridDone, HitsCap, Close, Fail, Blowup
    <3> QED
      BY <2>0, <3>1
  <2> QED
    BY <2>1, <2>2, <2>3 DEF Next
<1> QED
  BY <1>1, SolveInvariant, PTL DEF Spec, ProgressNeverRestarts
=============================================================================

----------------------- MODULE TemplateImportsProofs -----------------------
(***************************************************************************)
(* Proofs about the walk over the imports, for any documents and import    *)
(* graphs: a document that loads reaches no file that imports itself, a    *)
(* load is refused for a cycle only where there is one, and the files      *)
(* being resolved are a path without repetition, which is what bounds the  *)
(* depth of the walk; and what a template calls always comes with it, under *)
(* the name it calls it by.                                                *)
(*                                                                         *)
(* The argument is over F, the files, R, the files the document's units    *)
(* import, l, the imports of the unit being resolved, and h, the stack.    *)
(***************************************************************************)
EXTENDS TemplateImports, SequenceTheorems, FiniteSetTheorems, WellFoundedInduction, TLAPS

Imported(F, f) == Targets(F[f].imports)

Graph(F) ==
  \A f \in DOMAIN F : F[f].imports \in Seq(Range(F[f].imports)) /\ Imported(F, f) \subseteq DOMAIN F

\* The files from which no file that imports itself is reached.
Clean(F) ==
  {f \in DOMAIN F : \A g \in Reached(F, {f}) : g \notin Reached(F, Imported(F, g))}

-----------------------------------------------------------------------------
(* Reachability *)

LEMMA ReachedIsClosed ==
  ASSUME NEW F, Graph(F), NEW from \in SUBSET DOMAIN F
  PROVE  /\ from \subseteq Reached(F, from) /\ Reached(F, from) \subseteq DOMAIN F
         /\ \A g \in Reached(F, from) : Imported(F, g) \subseteq Reached(F, from)
BY DEF Reached, Graph, Imported

LEMMA ReachedIsLeast ==
  ASSUME NEW F, NEW from, NEW S \in SUBSET DOMAIN F,
         from \subseteq S, \A g \in S : Imported(F, g) \subseteq S
  PROVE  Reached(F, from) \subseteq S
BY DEF Reached, Imported

\* What is reached from some files is reached from one of them.
LEMMA ReachedFromOne ==
  ASSUME NEW F, Graph(F), NEW from \in SUBSET DOMAIN F, NEW g \in Reached(F, from)
  PROVE  \E f \in from : g \in Reached(F, {f})
<1> DEFINE S == UNION {Reached(F, {f}) : f \in from}
<1>1. \A f \in from : /\ f \in Reached(F, {f}) /\ Reached(F, {f}) \subseteq DOMAIN F
                      /\ \A x \in Reached(F, {f}) : Imported(F, x) \subseteq Reached(F, {f})
  BY ReachedIsClosed
<1>2. S \in SUBSET DOMAIN F /\ from \subseteq S
  BY <1>1
<1>3. \A x \in S : Imported(F, x) \subseteq S
  BY <1>1
<1>4. Reached(F, from) \subseteq S
  BY <1>2, <1>3, ReachedIsLeast
<1> QED
  BY <1>4

\* Of files that are clean nothing unclean is reached.
LEMMA CleanReachesClean ==
  ASSUME NEW F, Graph(F), NEW from \in SUBSET Clean(F), NEW g \in Reached(F, from)
  PROVE  g \notin Reached(F, Imported(F, g))
<1>1. from \in SUBSET DOMAIN F
  BY DEF Clean
<1>2. PICK f \in from : g \in Reached(F, {f})
  BY <1>1, ReachedFromOne
<1> QED
  BY <1>2 DEF Clean

\* A file all of whose imports are clean is clean: were it reached from them,
\* one of them would not be.
LEMMA ImportsClean ==
  ASSUME NEW F, Graph(F), NEW f \in DOMAIN F, Imported(F, f) \subseteq Clean(F)
  PROVE  f \in Clean(F)
<1> DEFINE below == Reached(F, Imported(F, f))
<1>1. Imported(F, f) \in SUBSET DOMAIN F
  BY DEF Clean
<1>2. /\ Imported(F, f) \subseteq below /\ below \subseteq DOMAIN F
      /\ \A g \in below : Imported(F, g) \subseteq below
  BY <1>1, ReachedIsClosed
<1>3. \A g \in below : g \notin Reached(F, Imported(F, g))
  BY CleanReachesClean
<1>4. f \notin below
  BY <1>3
<1> HIDE DEF below
<1>5. Reached(F, {f}) \subseteq below \union {f}
  <2> DEFINE S == below \union {f}
  <2>1. S \in SUBSET DOMAIN F /\ {f} \subseteq S /\ \A g \in S : Imported(F, g) \subseteq S
    BY <1>2
  <2> HIDE DEF S
  <2>2. Reached(F, {f}) \subseteq S
    BY <2>1, ReachedIsLeast
  <2> QED
    BY <2>2 DEF S
<1>6. \A g \in Reached(F, {f}) : g \notin Reached(F, Imported(F, g))
  BY <1>3, <1>4, <1>5 DEF below
<1> QED
  BY <1>6 DEF Clean

-----------------------------------------------------------------------------
(* Sequences *)

LEMMA SequenceOfItsOwn ==
  ASSUME NEW S, NEW s \in Seq(S)
  PROVE  /\ s \in Seq(Range(s)) /\ Len(s) \in Nat /\ DOMAIN s = 1 .. Len(s)
         /\ Range(s) \subseteq S
<1>1. Len(s) \in Nat /\ s \in [1 .. Len(s) -> S] /\ DOMAIN s = 1 .. Len(s)
  BY LenProperties
<1>2. \A i \in 1 .. Len(s) : s[i] \in Range(s)
  BY <1>1 DEF Range
<1>3. s = [i \in 1 .. Len(s) |-> s[i]]
  BY <1>1
<1>4. s \in Seq(Range(s))
  BY <1>1, <1>2, <1>3
<1> QED
  BY <1>1, <1>4 DEF Range

LEMMA OneMore ==
  ASSUME NEW S, NEW s \in Seq(S), NEW e
  PROVE  /\ Append(s, e) \in Seq(S \union {e}) /\ Len(Append(s, e)) = Len(s) + 1
         /\ \A i \in 1 .. Len(s) : Append(s, e)[i] = s[i]
         /\ Append(s, e)[Len(s) + 1] = e
<1>1. s \in Seq(S \union {e})
  BY SeqMonotonic
<1> QED
  BY <1>1

LEMMA OneLess ==
  ASSUME NEW S, NEW s \in Seq(S), Len(s) > 0
  PROVE  /\ Front(s) \in Seq(S) /\ Len(Front(s)) = Len(s) - 1
         /\ \A i \in 1 .. Len(s) - 1 : Front(s)[i] = s[i]
<1>1. Len(s) \in Nat /\ \A i \in 1 .. Len(s) : s[i] \in S
  BY LenProperties, ElementOfSeq
<1>2. \A i \in 1 .. Len(s) - 1 : s[i] \in S
  BY <1>1
<1>3. /\ SubSeq(s, 1, Len(s) - 1) \in Seq(S)
      /\ Len(SubSeq(s, 1, Len(s) - 1)) = IF 1 <= Len(s) - 1 THEN Len(s) - 1 - 1 + 1 ELSE 0
      /\ \A i \in 1 .. Len(s) - 1 - 1 + 1 : SubSeq(s, 1, Len(s) - 1)[i] = s[1 + i - 1]
  BY <1>1, <1>2, SubSeqProperties
<1> DEFINE front == SubSeq(s, 1, Len(s) - 1)
<1> HIDE DEF front
<1>4. /\ front \in Seq(S) /\ Len(front) = IF 1 <= Len(s) - 1 THEN Len(s) - 1 - 1 + 1 ELSE 0
      /\ \A i \in 1 .. Len(s) - 1 - 1 + 1 : front[i] = s[1 + i - 1]
  BY ONLY <1>3 DEF front
<1>5. front \in Seq(S) /\ Len(front) = Len(s) - 1 /\ \A i \in 1 .. Len(s) - 1 : front[i] = s[i]
  <2>1. /\ Len(s) - 1 - 1 + 1 = Len(s) - 1
        /\ (IF 1 <= Len(s) - 1 THEN Len(s) - 1 ELSE 0) = Len(s) - 1
        /\ \A i \in 1 .. Len(s) - 1 : 1 + i - 1 = i
    <3>1. \A k \in Nat : k > 0 =>
            /\ k - 1 - 1 + 1 = k - 1 /\ (IF 1 <= k - 1 THEN k - 1 ELSE 0) = k - 1
            /\ \A i \in 1 .. k - 1 : 1 + i - 1 = i
      BY ONLY TRUE
    <3> QED
      BY ONLY <1>1, <3>1, Len(s) > 0
  <2>2. \A i \in 1 .. Len(s) - 1 : front[i] = s[i]
    BY <1>4, <2>1
  <2> QED
    BY <1>4, <2>1, <2>2
<1> QED
  BY <1>5 DEF Front, front

-----------------------------------------------------------------------------
(* The import stack *)

Setting(F, R, l) ==
  Graph(F) /\ R \in SUBSET DOMAIN F /\ l \in Seq(Range(l)) /\ Targets(l) \subseteq R

ListAt(F, l, h, i) == IF i = 1 THEN l ELSE F[h[i].file].imports

\* What is left of a list of edges; the files behind it are clean.
LeftOf(F, list, todo) ==
  /\ todo \in Seq(Range(list)) /\ Len(todo) <= Len(list)
  /\ \A k \in 1 .. Len(todo) : todo[k] = list[Len(list) - Len(todo) + k]
  /\ \A k \in 1 .. Len(list) - Len(todo) : list[k].ref \in Clean(F)

FrameAt(F, R, l, h, i) ==
  /\ h[i] = [file |-> h[i].file, todo |-> h[i].todo, scope |-> h[i].scope]
  /\ i > 1 => h[i].file \in Reached(F, R)
  /\ LeftOf(F, ListAt(F, l, h, i), h[i].todo)

\* Every file but the first is the one its importer waits for.
Linked(h) ==
  \A i \in 1 .. Len(h) - 1 : h[i].todo # << >> /\ h[i + 1].file = Head(h[i].todo).ref

\* A file is reached from those below it, and is none of them.
Path(F, h) ==
  \A i, j \in 2 .. Len(h) : i < j =>
    h[j].file \in Reached(F, Imported(F, h[i].file)) /\ h[i].file # h[j].file

Stack(F, R, l, h) ==
  /\ h \in Seq(Range(h)) /\ h # << >>
  /\ \A i \in 1 .. Len(h) : FrameAt(F, R, l, h, i)
  /\ Linked(h) /\ Path(F, h)

LEMMA StackTypes ==
  ASSUME NEW F, NEW R, NEW l, NEW h, Setting(F, R, l), Stack(F, R, l, h)
  PROVE  /\ Len(h) \in Nat /\ Len(h) > 0 /\ DOMAIN h = 1 .. Len(h)
         /\ \A i \in 1 .. Len(h) :
              /\ ListAt(F, l, h, i) \in Seq(Range(ListAt(F, l, h, i)))
              /\ i > 1 => h[i].file \in DOMAIN F
<1>1. h \in Seq(Range(h)) /\ h # << >>
  BY DEF Stack
<1>2. Len(h) \in Nat /\ Len(h) > 0 /\ DOMAIN h = 1 .. Len(h)
  BY <1>1, LenProperties, EmptySeq
<1>3. ASSUME NEW i \in 1 .. Len(h)
      PROVE  /\ ListAt(F, l, h, i) \in Seq(Range(ListAt(F, l, h, i)))
             /\ i > 1 => h[i].file \in DOMAIN F
  <2>1. i > 1 => h[i].file \in Reached(F, R)
    BY DEF Stack, FrameAt
  <2>2. i > 1 => h[i].file \in DOMAIN F
    BY <2>1, ReachedIsClosed DEF Setting
  <2>3. CASE i = 1
    BY <2>3 DEF ListAt, Setting
  <2>4. CASE i > 1
    BY <2>2, <2>4 DEF ListAt, Setting, Graph
  <2> QED
    BY <2>2, <2>3, <2>4
<1> QED
  BY <1>2, <1>3

\* The file that comes next, seen from the stack.
LEMMA NextTarget ==
  ASSUME NEW F, NEW R, NEW l, NEW h, Setting(F, R, l), Stack(F, R, l, h),
         NEW i \in 1 .. Len(h), h[i].todo # << >>
  PROVE  LET f == Head(h[i].todo).ref IN
         /\ f \in DOMAIN F /\ f \in Reached(F, R)
         /\ i > 1 => f \in Imported(F, h[i].file)
         /\ \A j \in 2 .. i : f \in Reached(F, Imported(F, h[j].file))
<1> DEFINE list == ListAt(F, l, h, i)
           todo == h[i].todo
           f == Head(todo).ref
<1>1. /\ Len(h) \in Nat /\ list \in Seq(Range(list)) /\ (i > 1 => h[i].file \in DOMAIN F)
      /\ todo \in Seq(Range(list))
  BY StackTypes DEF Stack, FrameAt, LeftOf
<1>2. Head(todo) \in Range(list)
  BY <1>1, HeadTailProperties
<1>3. f \in Targets(list)
  BY <1>2 DEF Range, Targets
<1>4. i > 1 => f \in Imported(F, h[i].file) /\ h[i].file \in Reached(F, R)
  <2> SUFFICES ASSUME i > 1 PROVE f \in Imported(F, h[i].file) /\ h[i].file \in Reached(F, R)
    OBVIOUS
  <2>1. h[i].file \in Reached(F, R)
    BY DEF Stack, FrameAt
  <2>2. i # 1
    BY <1>1
  <2>3. list = F[h[i].file].imports
    BY <2>2 DEF ListAt
  <2> QED
    BY <1>3, <2>1, <2>3 DEF Imported
<1>5. f \in DOMAIN F /\ f \in Reached(F, R)
  <2>1. CASE i = 1
    BY <1>3, <2>1, ReachedIsClosed DEF ListAt, Setting
  <2>2. CASE i > 1
    BY <1>1, <1>4, <2>2, ReachedIsClosed DEF Setting, Graph
  <2> QED
    BY <2>1, <2>2
<1>6. ASSUME NEW j \in 2 .. i PROVE f \in Reached(F, Imported(F, h[j].file))
  <2>1. h[j].file \in DOMAIN F /\ Graph(F)
    BY <1>1, StackTypes DEF Setting
  <2>2. Imported(F, h[j].file) \in SUBSET DOMAIN F
    BY <2>1 DEF Graph
  <2>3. CASE j = i
    BY <1>4, <2>1, <2>2, <2>3, ReachedIsClosed
  <2>4. CASE j < i
    <3>1. h[i].file \in Reached(F, Imported(F, h[j].file))
      BY <1>1, <2>4 DEF Stack, Path
    <3> QED
      BY <1>4, <2>1, <2>2, <2>4, <3>1, ReachedIsClosed
  <2> QED
    BY <2>3, <2>4
<1> QED
  BY <1>4, <1>5, <1>6

\* A list of which nothing is left has only clean files.
LEMMA NothingLeft ==
  ASSUME NEW F, NEW list, list \in Seq(Range(list)), LeftOf(F, list, << >>)
  PROVE  Targets(list) \subseteq Clean(F)
<1>1. Len(list) \in Nat /\ DOMAIN list = 1 .. Len(list)
  BY LenProperties
<1>2. \A k \in 1 .. Len(list) : list[k].ref \in Clean(F)
  BY <1>1 DEF LeftOf
<1> QED
  BY <1>1, <1>2 DEF Targets

LEMMA AllLeft ==
  ASSUME NEW F, NEW list, list \in Seq(Range(list))
  PROVE  LeftOf(F, list, list)
<1>1. Len(list) \in Nat
  BY LenProperties
<1> QED
  BY <1>1 DEF LeftOf

LEMMA OneMerged ==
  ASSUME NEW F, NEW list, NEW todo, list \in Seq(Range(list)), LeftOf(F, list, todo),
         todo # << >>, Head(todo).ref \in Clean(F)
  PROVE  LeftOf(F, list, Tail(todo))
<1> DEFINE n == Len(list)
           m == Len(todo)
<1>1. /\ n \in Nat /\ m \in Nat /\ m <= n /\ m > 0 /\ todo \in Seq(Range(list))
      /\ \A k \in 1 .. m : todo[k] = list[n - m + k]
      /\ \A k \in 1 .. n - m : list[k].ref \in Clean(F)
  BY LenProperties, EmptySeq DEF LeftOf
<1>2. /\ Tail(todo) \in Seq(Range(list)) /\ Len(Tail(todo)) = m - 1
      /\ \A k \in 1 .. m - 1 : Tail(todo)[k] = todo[k + 1]
      /\ Head(todo) = todo[1]
  BY <1>1, HeadTailProperties
<1> HIDE DEF n, m
<1>3. list[n - m + 1].ref \in Clean(F)
  BY <1>1, <1>2
<1>4. \A k \in 1 .. m - 1 : Tail(todo)[k] = list[n - (m - 1) + k]
  <2> TAKE k \in 1 .. m - 1
  <2>1. k + 1 \in 1 .. m /\ n - m + (k + 1) = n - (m - 1) + k
    BY <1>1
  <2> QED
    BY <1>1, <1>2, <2>1
<1>5. \A k \in 1 .. n - (m - 1) : list[k].ref \in Clean(F)
  <2> TAKE k \in 1 .. n - (m - 1)
  <2>1. k = n - m + 1 \/ k \in 1 .. n - m
    BY <1>1
  <2> QED
    BY <1>1, <1>3, <2>1
<1> QED
  BY <1>1, <1>2, <1>4, <1>5 DEF LeftOf, n, m

LEMMA StackStarts ==
  ASSUME NEW F, NEW R, NEW l, Setting(F, R, l)
  PROVE  Stack(F, R, l, <<Frame(Root, l)>>)
<1> DEFINE h == <<Frame(Root, l)>>
<1>1. h \in Seq({Frame(Root, l)}) /\ Len(h) = 1 /\ h[1] = Frame(Root, l) /\ h # << >>
  OBVIOUS
<1>2. h \in Seq(Range(h))
  BY <1>1, SequenceOfItsOwn
<1> HIDE DEF h
<1>3. FrameAt(F, R, l, h, 1)
  BY <1>1, AllLeft DEF FrameAt, Frame, ListAt, Setting
<1>4. Linked(h) /\ Path(F, h)
  BY <1>1 DEF Linked, Path
<1>5. Stack(F, R, l, h)
  BY <1>1, <1>2, <1>3, <1>4 DEF Stack
<1> QED
  BY <1>5 DEF h

\* A file that is not under way is entered.
LEMMA StackGrows ==
  ASSUME NEW F, NEW R, NEW l, NEW h, Setting(F, R, l), Stack(F, R, l, h),
         NEW f, h[Len(h)].todo # << >>, f = Head(h[Len(h)].todo).ref,
         \A i \in 2 .. Len(h) : h[i].file # f
  PROVE  Stack(F, R, l, Append(h, Frame(f, F[f].imports)))
<1> DEFINE n == Len(h)
           e == Frame(f, F[f].imports)
           g == Append(h, e)
<1>1. n \in Nat /\ n > 0 /\ n \in 1 .. n /\ h \in Seq(Range(h))
  BY StackTypes DEF Stack
<1>2. /\ g \in Seq(Range(h) \union {e}) /\ Len(g) = n + 1
      /\ \A i \in 1 .. n : g[i] = h[i]
      /\ g[n + 1] = e
  BY <1>1, OneMore
<1>3. g \in Seq(Range(g)) /\ g # << >>
  <2> HIDE DEF g
  <2>1. Len(g) > 0
    BY <1>1, <1>2
  <2> QED
    BY <1>2, <2>1, SequenceOfItsOwn
<1>4. /\ f \in DOMAIN F /\ f \in Reached(F, R)
      /\ \A j \in 2 .. n : f \in Reached(F, Imported(F, h[j].file))
  BY <1>1, NextTarget
<1>5. e = [file |-> f, todo |-> F[f].imports, scope |-> e.scope] /\ e.file = f
  BY DEF Frame
<1> HIDE DEF n, e, g
<1>6. ASSUME NEW i \in 1 .. n + 1 PROVE FrameAt(F, R, l, g, i)
  <2>1. CASE i \in 1 .. n
    <3>1. FrameAt(F, R, l, h, i) /\ g[i] = h[i]
      BY <1>2, <2>1 DEF Stack, n
    <3> QED
      BY ONLY <3>1 DEF FrameAt, ListAt
  <2>2. CASE i = n + 1
    <3>1. F[f].imports \in Seq(Range(F[f].imports))
      BY <1>4 DEF Setting, Graph
    <3>2. LeftOf(F, F[f].imports, F[f].imports)
      BY <3>1, AllLeft
    <3>3. g[i] = e /\ i # 1
      BY <1>1, <1>2, <2>2
    <3> QED
      BY <1>4, <1>5, <3>2, <3>3 DEF FrameAt, ListAt
  <2> QED
    BY <1>1, <2>1, <2>2
<1>7. Linked(g)
  <2> SUFFICES ASSUME NEW i \in 1 .. n
               PROVE  g[i].todo # << >> /\ g[i + 1].file = Head(g[i].todo).ref
    BY <1>1, <1>2 DEF Linked
  <2>1. CASE i = n
    BY <1>1, <1>2, <1>5, <2>1 DEF n
  <2>2. CASE i < n
    <3>1. i \in 1 .. n - 1 /\ i + 1 \in 1 .. n
      BY <1>1, <2>2
    <3> QED
      BY <1>2, <3>1 DEF Stack, Linked, n
  <2> QED
    BY <1>1, <2>1, <2>2
<1>8. Path(F, g)
  <2> SUFFICES ASSUME NEW i \in 2 .. n + 1, NEW j \in 2 .. n + 1, i < j
               PROVE  g[j].file \in Reached(F, Imported(F, g[i].file)) /\ g[i].file # g[j].file
    BY <1>2 DEF Path
  <2>1. i \in 2 .. n /\ g[i] = h[i]
    BY <1>1, <1>2
  <2>2. CASE j = n + 1
    BY <1>2, <1>4, <1>5, <2>1, <2>2 DEF n
  <2>3. CASE j \in 2 .. n
    <3>1. g[j] = h[j]
      BY <1>1, <1>2, <2>3
    <3> QED
      BY <2>1, <2>3, <3>1 DEF Stack, Path, n
  <2> QED
    BY <1>1, <2>2, <2>3
<1>9. Stack(F, R, l, g)
  BY <1>2, <1>3, <1>6, <1>7, <1>8 DEF Stack
<1> QED
  BY <1>9 DEF g, e

\* A file whose imports are all merged is left, and it is clean.
LEMMA StackShrinks ==
  ASSUME NEW F, NEW R, NEW l, NEW h, Setting(F, R, l), Stack(F, R, l, h),
         Len(h) > 1, h[Len(h)].todo = << >>
  PROVE  /\ Stack(F, R, l, Front(h))
         /\ Last(Front(h)).todo # << >> /\ Head(Last(Front(h)).todo).ref \in Clean(F)
<1> DEFINE n == Len(h)
           g == Front(h)
           f == h[n].file
<1>1. n \in Nat /\ n > 1 /\ n - 1 \in 1 .. n /\ h \in Seq(Range(h)) /\ n \in 1 .. n
  BY StackTypes DEF Stack
<1>2. g \in Seq(Range(h)) /\ Len(g) = n - 1 /\ \A i \in 1 .. n - 1 : g[i] = h[i]
  BY <1>1, OneLess
<1> HIDE DEF g
<1>3. g \in Seq(Range(g)) /\ g # << >>
  <2>1. Len(g) > 0
    BY <1>1, <1>2
  <2>2. g # << >>
    BY <2>1
  <2> QED
    BY <1>2, <2>2, SequenceOfItsOwn
<1>4. f \in Clean(F)
  <2>1. f \in DOMAIN F /\ FrameAt(F, R, l, h, n)
    BY <1>1, StackTypes DEF Stack
  <2>2. ListAt(F, l, h, n) = F[f].imports
    BY <1>1 DEF ListAt
  <2>3. LeftOf(F, F[f].imports, << >>)
    BY <2>1, <2>2 DEF FrameAt
  <2>4. F[f].imports \in Seq(Range(F[f].imports))
    BY <2>1 DEF Setting, Graph
  <2>5. Imported(F, f) \subseteq Clean(F)
    BY <2>3, <2>4, NothingLeft DEF Imported
  <2> QED
    BY <2>1, <2>5, ImportsClean DEF Setting
<1>5. h[n - 1].todo # << >> /\ f = Head(h[n - 1].todo).ref
  <2>1. n - 1 \in 1 .. n - 1 /\ n - 1 + 1 = n
    BY <1>1
  <2> QED
    BY <2>1 DEF Stack, Linked
<1> HIDE DEF n, g, f
<1>6. Last(g) = h[n - 1]
  BY <1>1, <1>2 DEF Last
<1>7. ASSUME NEW i \in 1 .. n - 1 PROVE FrameAt(F, R, l, g, i)
  <2>1. FrameAt(F, R, l, h, i) /\ g[i] = h[i]
    BY <1>1, <1>2 DEF Stack, n
  <2> QED
    BY ONLY <2>1 DEF FrameAt, ListAt
<1>8. Linked(g)
  <2> SUFFICES ASSUME NEW i \in 1 .. n - 2
               PROVE  g[i].todo # << >> /\ g[i + 1].file = Head(g[i].todo).ref
    BY <1>1, <1>2 DEF Linked
  <2>1. i \in 1 .. n - 1 /\ i + 1 \in 1 .. n - 1
    BY <1>1
  <2> QED
    BY <1>2, <2>1 DEF Stack, Linked, n
<1>9. Path(F, g)
  <2> SUFFICES ASSUME NEW i \in 2 .. n - 1, NEW j \in 2 .. n - 1, i < j
               PROVE  g[j].file \in Reached(F, Imported(F, g[i].file)) /\ g[i].file # g[j].file
    BY <1>2 DEF Path
  <2>1. g[i] = h[i] /\ g[j] = h[j] /\ i \in 2 .. n /\ j \in 2 .. n
    BY <1>1, <1>2
  <2> QED
    BY <2>1 DEF Stack, Path, n
<1>10. Stack(F, R, l, g)
  BY <1>2, <1>3, <1>7, <1>8, <1>9 DEF Stack
<1> QED
  BY <1>4, <1>5, <1>6, <1>10 DEF g

LEMMA FrameMoves ==
  ASSUME NEW r, r = [file |-> r.file, todo |-> r.todo, scope |-> r.scope],
         NEW t, NEW s, NEW q, q = [[r EXCEPT !.todo = t] EXCEPT !.scope = s]
  PROVE  /\ q.file = r.file /\ q.todo = t
         /\ q = [file |-> q.file, todo |-> q.todo, scope |-> q.scope]
<1> PICK f, u, v : r = [file |-> f, todo |-> u, scope |-> v]
  OBVIOUS
<1>1. r.file = f
  OBVIOUS
<1>2. q = [file |-> f, todo |-> t, scope |-> s]
  OBVIOUS
<1> QED
  BY ONLY <1>1, <1>2

\* An edge to a clean file is merged.
LEMMA StackGoesOn ==
  ASSUME NEW F, NEW R, NEW l, NEW h, NEW g, NEW s, Setting(F, R, l), Stack(F, R, l, h),
         h[Len(h)].todo # << >>, Head(h[Len(h)].todo).ref \in Clean(F),
         g = [h EXCEPT ![Len(h)].todo = Tail(@), ![Len(h)].scope = s]
  PROVE  Stack(F, R, l, g)
<1> DEFINE n == Len(h)
<1>1. n \in Nat /\ n > 0 /\ n \in 1 .. n /\ DOMAIN h = 1 .. n
  BY StackTypes
<1>2. h[n] = [file |-> h[n].file, todo |-> h[n].todo, scope |-> h[n].scope]
  BY <1>1 DEF Stack, FrameAt
<1>3. /\ DOMAIN g = 1 .. n /\ g = [i \in 1 .. n |-> g[i]]
      /\ \A i \in 1 .. n - 1 : g[i] = h[i]
      /\ g[n].file = h[n].file /\ g[n].todo = Tail(h[n].todo)
      /\ g[n] = [file |-> g[n].file, todo |-> g[n].todo, scope |-> g[n].scope]
  <2>1. DOMAIN g = 1 .. n /\ g = [i \in 1 .. n |-> g[i]]
    BY <1>1
  <2>2. \A i \in 1 .. n - 1 : g[i] = h[i]
    BY <1>1
  <2>3. g[n] = [[h[n] EXCEPT !.todo = Tail(h[n].todo)] EXCEPT !.scope = s]
    BY <1>1
  <2>4. /\ g[n].file = h[n].file /\ g[n].todo = Tail(h[n].todo)
        /\ g[n] = [file |-> g[n].file, todo |-> g[n].todo, scope |-> g[n].scope]
    BY ONLY <1>2, <2>3, FrameMoves
  <2> QED
    BY <2>1, <2>2, <2>4
<1>4. g \in Seq(Range(g)) /\ Len(g) = n /\ g # << >>
  <2>1. \A i \in 1 .. n : g[i] \in Range(g)
    BY <1>3 DEF Range
  <2>2. n \in Nat /\ n > 0 /\ g = [i \in 1 .. n |-> g[i]]
    BY <1>1, <1>3
  <2>3. g \in [1 .. n -> Range(g)]
    BY <2>1, <2>2
  <2> HIDE DEF n
  <2>4. g \in Seq(Range(g))
    BY ONLY <2>2, <2>3
  <2>5. Len(g) = n
    BY ONLY <2>2, <2>3
  <2> QED
    BY <2>2, <2>4, <2>5, EmptySeq
<1> HIDE DEF n
<1>5. ASSUME NEW i \in 1 .. n PROVE FrameAt(F, R, l, g, i)
  <2>1. FrameAt(F, R, l, h, i)
    BY DEF Stack, n
  <2>2. CASE i # n
    <3>1. g[i] = h[i]
      BY <1>1, <1>3, <2>2
    <3> QED
      BY ONLY <2>1, <3>1 DEF FrameAt, ListAt
  <2>3. CASE i = n
    <3>1. ListAt(F, l, g, n) = ListAt(F, l, h, n)
      BY <1>3 DEF ListAt
    <3>2. ListAt(F, l, h, n) \in Seq(Range(ListAt(F, l, h, n)))
      BY <1>1, StackTypes DEF n
    <3>3. LeftOf(F, ListAt(F, l, h, n), Tail(h[n].todo))
      BY <2>1, <2>3, <3>2, OneMerged DEF FrameAt, n
    <3> QED
      BY <1>3, <2>1, <2>3, <3>1, <3>3 DEF FrameAt
  <2> QED
    BY <2>2, <2>3
<1>6. \A i \in 1 .. n : g[i].file = h[i].file
  BY <1>1, <1>3
<1>7. Linked(g)
  <2> SUFFICES ASSUME NEW i \in 1 .. n - 1
               PROVE  g[i].todo # << >> /\ g[i + 1].file = Head(g[i].todo).ref
    BY <1>4 DEF Linked
  <2>1. i + 1 \in 1 .. n
    BY <1>1
  <2> QED
    BY <1>3, <1>6, <2>1 DEF Stack, Linked, n
<1>8. Path(F, g)
  <2> SUFFICES ASSUME NEW i \in 2 .. n, NEW j \in 2 .. n, i < j
               PROVE  g[j].file \in Reached(F, Imported(F, g[i].file)) /\ g[i].file # g[j].file
    BY <1>4 DEF Path
  <2>1. i \in 1 .. n /\ j \in 1 .. n
    BY <1>1
  <2> QED
    BY <1>6, <2>1 DEF Stack, Path, n
<1> QED
  BY <1>4, <1>5, <1>7, <1>8 DEF Stack

-----------------------------------------------------------------------------
(* The invariant *)

RootTargets(p) == UNION {Targets(p.units[u].imports) : u \in DOMAIN p.units}

\* While imports are resolved: the stack, and a library that was finished is
\* clean, and the one its importer waits for.
Resolving ==
  phase = "imports" =>
    /\ Len(blocks) < Len(project.units)
    /\ Stack(project.files, RootTargets(project), Unit.imports, frames)
    /\ returned # None => Top.todo # << >> /\ Edge.ref \in Clean(project.files)

ImportInv ==
  /\ project \in Projects /\ phase \in {"imports", "close", "done", "refused"}
  /\ blocks \in Seq(Range(blocks)) /\ Len(blocks) <= Len(project.units)
  /\ \A u \in 1 .. Len(blocks) : Targets(project.units[u].imports) \subseteq Clean(project.files)
  /\ Resolving
  /\ phase \in {"close", "done"} => Len(blocks) = Len(project.units)
  /\ fault = "import_cycle" => CyclicImports(project)

-----------------------------------------------------------------------------
(* Faults: only the stack refuses a load for a cycle *)

LEMMA LeastIsMember ==
  ASSUME NEW n \in Nat, NEW T \in SUBSET (1 .. n), T # {}
  PROVE  Min(T) \in T
<1> DEFINE Less == {ss \in Nat \X Nat : ss[1] < ss[2]}
<1>1. IsWellFoundedOn(Less, Nat)
  BY NatLessThanWellFounded DEF OpToRel
<1>2. T \subseteq Nat
  OBVIOUS
<1>3. PICK x \in T : \A y \in T : ~ (<<y, x>> \in Less)
  BY <1>1, <1>2, WFMin
<1>4. \A y \in T : x <= y
  <2> SUFFICES ASSUME NEW y \in T, y < x PROVE FALSE
    BY <1>2
  <2>1. <<y, x>> \in Less
    BY <1>2
  <2> QED
    BY <1>3, <2>1
<1> QED
  BY <1>4 DEF Min

LEMMA FirstFaultIs ==
  ASSUME NEW n \in Nat, NEW checks, DOMAIN checks = 1 .. n,
         NEW code, code # None, \A i \in 1 .. n : checks[i][2] # code
  PROVE  FirstFault(checks) # code
<1> DEFINE failed == {i \in DOMAIN checks : checks[i][1]}
<1>1. failed \in SUBSET (1 .. n)
  OBVIOUS
<1> HIDE DEF failed
<1>2. failed # {} => Min(failed) \in 1 .. n
  BY <1>1, LeastIsMember
<1>3. FirstFault(checks) = IF failed = {} THEN None ELSE checks[Min(failed)][2]
  BY DEF FirstFault, failed
<1> QED
  BY <1>2, <1>3

NotCycle(code) == code # "import_cycle"

LEMMA NoneIsNotCycle == NotCycle(None)
BY ImportAssumption DEF ImportAssumption, Faults, NotCycle

LEMMA ChecksAreNotCycle ==
  /\ \A a : NotCycle(FirstFault(<< <<a, "unknown_name">> >>))
  /\ \A a : NotCycle(FirstFault(<< <<a, "metaparameter_name_conflict">> >>))
  /\ \A a, b, c : NotCycle(FirstFault(<< <<a, "name_conflict">>, <<b, "index_set_conflict">>,
                                        <<c, "name_conflict">> >>))
  /\ \A a, b, c : NotCycle(FirstFault(<< <<a, "unknown_template">>, <<b, "recursive_body">>,
                                        <<c, "expansion_too_deep">> >>))
  /\ \A a, b, c, d, e, f :
       NotCycle(FirstFault(<< <<a, "rename_unknown_name">>, <<b, "rename_collision">>,
                              <<c, "rebind_unknown_name">>, <<d, "rename_invalid">>,
                              <<e, "rebind_unknown_name">>, <<f, "rename_collision">> >>))
  /\ \A a, b, c, d, e :
       NotCycle(FirstFault(<< <<a, "unknown_name">>, <<b, "metaparameter_unbound">>,
                              <<c, "metaparameter_name_conflict">>, <<d, "metaparameter_name_conflict">>,
                              <<e, "metaparameter_unbound">> >>))
<1> "import_cycle" # None
  BY NoneIsNotCycle DEF NotCycle
<1>1. ASSUME NEW a PROVE NotCycle(FirstFault(<< <<a, "unknown_name">> >>))
  <2> DEFINE checks == << <<a, "unknown_name">> >>
  <2>1. DOMAIN checks = 1 .. 1 /\ \A i \in 1 .. 1 : checks[i][2] # "import_cycle"
    OBVIOUS
  <2> HIDE DEF checks
  <2>2. NotCycle(FirstFault(checks))
    BY <2>1, FirstFaultIs DEF NotCycle
  <2> QED
    BY <2>2 DEF checks
<1>2. ASSUME NEW a PROVE NotCycle(FirstFault(<< <<a, "metaparameter_name_conflict">> >>))
  <2> DEFINE checks == << <<a, "metaparameter_name_conflict">> >>
  <2>1. DOMAIN checks = 1 .. 1 /\ \A i \in 1 .. 1 : checks[i][2] # "import_cycle"
    OBVIOUS
  <2> HIDE DEF checks
  <2>2. NotCycle(FirstFault(checks))
    BY <2>1, FirstFaultIs DEF NotCycle
  <2> QED
    BY <2>2 DEF checks
<1>3. ASSUME NEW a, NEW b, NEW c
      PROVE  NotCycle(FirstFault(<< <<a, "name_conflict">>, <<b, "index_set_conflict">>, <<c, "name_conflict">> >>))
  <2> DEFINE checks == << <<a, "name_conflict">>, <<b, "index_set_conflict">>, <<c, "name_conflict">> >>
  <2>1. DOMAIN checks = 1 .. 3 /\ \A i \in 1 .. 3 : checks[i][2] # "import_cycle"
    OBVIOUS
  <2> HIDE DEF checks
  <2>2. NotCycle(FirstFault(checks))
    BY <2>1, FirstFaultIs DEF NotCycle
  <2> QED
    BY <2>2 DEF checks
<1>4. ASSUME NEW a, NEW b, NEW c
      PROVE  NotCycle(FirstFault(<< <<a, "unknown_template">>, <<b, "recursive_body">>, <<c, "expansion_too_deep">> >>))
  <2> DEFINE checks == << <<a, "unknown_template">>, <<b, "recursive_body">>, <<c, "expansion_too_deep">> >>
  <2>1. DOMAIN checks = 1 .. 3 /\ \A i \in 1 .. 3 : checks[i][2] # "import_cycle"
    OBVIOUS
  <2> HIDE DEF checks
  <2>2. NotCycle(FirstFault(checks))
    BY <2>1, FirstFaultIs DEF NotCycle
  <2> QED
    BY <2>2 DEF checks
<1>5. ASSUME NEW a, NEW b, NEW c, NEW d, NEW e, NEW f
      PROVE  NotCycle(FirstFault(<< <<a, "rename_unknown_name">>, <<b, "rename_collision">>, <<c, "rebind_unknown_name">>,
       <<d, "rename_invalid">>, <<e, "rebind_unknown_name">>, <<f, "rename_collision">> >>))
  <2> DEFINE checks == << <<a, "rename_unknown_name">>, <<b, "rename_collision">>, <<c, "rebind_unknown_name">>,
       <<d, "rename_invalid">>, <<e, "rebind_unknown_name">>, <<f, "rename_collision">> >>
  <2>1. DOMAIN checks = 1 .. 6 /\ \A i \in 1 .. 6 : checks[i][2] # "import_cycle"
    OBVIOUS
  <2> HIDE DEF checks
  <2>2. NotCycle(FirstFault(checks))
    BY <2>1, FirstFaultIs DEF NotCycle
  <2> QED
    BY <2>2 DEF checks
<1>6. ASSUME NEW a, NEW b, NEW c, NEW d, NEW e
      PROVE  NotCycle(FirstFault(<< <<a, "unknown_name">>, <<b, "metaparameter_unbound">>, <<c, "metaparameter_name_conflict">>,
       <<d, "metaparameter_name_conflict">>, <<e, "metaparameter_unbound">> >>))
  <2> DEFINE checks == << <<a, "unknown_name">>, <<b, "metaparameter_unbound">>, <<c, "metaparameter_name_conflict">>,
       <<d, "metaparameter_name_conflict">>, <<e, "metaparameter_unbound">> >>
  <2>1. DOMAIN checks = 1 .. 5 /\ \A i \in 1 .. 5 : checks[i][2] # "import_cycle"
    OBVIOUS
  <2> HIDE DEF checks
  <2>2. NotCycle(FirstFault(checks))
    BY <2>1, FirstFaultIs DEF NotCycle
  <2> QED
    BY <2>2 DEF checks
<1> QED
  BY <1>1, <1>2, <1>3, <1>4, <1>5, <1>6

LEMMA FaultsAreNotCycle ==
  /\ \A x, y : NotCycle(x) /\ NotCycle(y) => NotCycle(Or(x, y))
  /\ \A x, y : NotCycle(MergeFault(x, y))
  /\ \A x, y : NotCycle(RenameFault(x, y))
  /\ \A x : NotCycle(BodyFault(x))
  /\ \A x, y : NotCycle(LoopFault(x, y))
<1>1. \A x, y : NotCycle(x) /\ NotCycle(y) => NotCycle(Or(x, y))
  BY DEF Or
<1>2. \A x, y : NotCycle(MergeFault(x, y))
  BY ChecksAreNotCycle DEF MergeFault
<1>3. \A x, y : NotCycle(RenameFault(x, y))
  BY ChecksAreNotCycle DEF RenameFault
<1>4. \A x : NotCycle(BodyFault(x))
  BY ChecksAreNotCycle DEF BodyFault
<1>5. \A x, y : NotCycle(LoopFault(x, y))
  BY ChecksAreNotCycle DEF LoopFault
<1> QED
  BY <1>1, <1>2, <1>3, <1>4, <1>5

-----------------------------------------------------------------------------
(* Every action keeps the invariant *)

LEMMA ProjectFacts ==
  ASSUME NEW p \in Projects
  PROVE  /\ Len(p.units) \in Nat /\ Len(p.units) > 0 /\ DOMAIN p.units = 1 .. Len(p.units)
         /\ RootTargets(p) \in SUBSET DOMAIN p.files /\ Graph(p.files)
         /\ \A u \in 1 .. Len(p.units) : Setting(p.files, RootTargets(p), p.units[u].imports)
<1> DEFINE lists == {p.units[u].imports : u \in DOMAIN p.units}
                      \union {p.files[f].imports : f \in DOMAIN p.files}
<1>1. /\ p.units \in Seq(Range(p.units)) /\ p.units # << >>
      /\ \A list \in lists : list \in Seq(Range(list)) /\ Targets(list) \subseteq DOMAIN p.files
  BY ImportAssumption DEF ImportAssumption
<1>2. Len(p.units) \in Nat /\ Len(p.units) > 0 /\ DOMAIN p.units = 1 .. Len(p.units)
  BY <1>1, LenProperties, EmptySeq
<1>3. \A u \in DOMAIN p.units :
        /\ p.units[u].imports \in Seq(Range(p.units[u].imports))
        /\ Targets(p.units[u].imports) \subseteq DOMAIN p.files
  BY <1>1
<1>4. Graph(p.files)
  BY <1>1 DEF Graph, Imported
<1>5. RootTargets(p) \in SUBSET DOMAIN p.files
  BY <1>3 DEF RootTargets
<1>6. \A u \in DOMAIN p.units : Targets(p.units[u].imports) \subseteq RootTargets(p)
  BY DEF RootTargets
<1> QED
  BY <1>2, <1>3, <1>4, <1>5, <1>6 DEF Setting

LEMMA UnitSetting ==
  ASSUME ImportInv, phase = "imports"
  PROVE  /\ Setting(project.files, RootTargets(project), Unit.imports)
         /\ Stack(project.files, RootTargets(project), Unit.imports, frames)
         /\ Len(blocks) \in Nat /\ Len(blocks) + 1 \in 1 .. Len(project.units)
         /\ Len(frames) \in Nat /\ Len(frames) > 0 /\ frames \in Seq(Range(frames))
<1>1. project \in Projects /\ Len(blocks) < Len(project.units) /\ blocks \in Seq(Range(blocks))
  BY DEF ImportInv, Resolving
<1>2. Len(blocks) \in Nat /\ Len(blocks) + 1 \in 1 .. Len(project.units)
  BY <1>1, ProjectFacts, LenProperties
<1>3. Setting(project.files, RootTargets(project), Unit.imports)
  BY <1>1, <1>2, ProjectFacts DEF Unit
<1>4. Stack(project.files, RootTargets(project), Unit.imports, frames)
  BY DEF ImportInv, Resolving
<1> QED
  BY <1>2, <1>3, <1>4, StackTypes DEF Stack

LEMMA ImportsStart == Init => ImportInv
<1> SUFFICES ASSUME Init PROVE ImportInv
  OBVIOUS
<1>1. /\ project \in Projects /\ frames = UnitFrame(project, 1) /\ returned = None
      /\ blocks = << >> /\ phase = "imports" /\ fault = None
  BY DEF Init
<1>2. blocks \in Seq(Range(blocks)) /\ Len(blocks) = 0
  BY <1>1
<1>3. /\ Len(project.units) \in Nat /\ Len(project.units) > 0 /\ Unit = project.units[1]
      /\ Setting(project.files, RootTargets(project), Unit.imports)
  BY <1>1, <1>2, ProjectFacts DEF Unit
<1>4. Stack(project.files, RootTargets(project), Unit.imports, frames)
  BY <1>1, <1>3, StackStarts DEF UnitFrame
<1>5. fault # "import_cycle"
  BY <1>1, NoneIsNotCycle DEF NotCycle
<1> QED
  BY <1>1, <1>2, <1>3, <1>4, <1>5 DEF ImportInv, Resolving

\* A refusal that is not for a cycle.
LEMMA RefuseKeeps ==
  ASSUME ImportInv, NEW code, NotCycle(code), Refuse(code)
  PROVE  ImportInv'
<1>1. phase' = "refused" /\ fault' = code /\ UNCHANGED <<project, blocks>>
  BY DEF Refuse
<1> QED
  BY <1>1 DEF ImportInv, Resolving, NotCycle

\* Where the walk meets a file of the stack, there is a cycle.
LEMMA CycleIsReal ==
  ASSUME ImportInv, phase = "imports", Top.todo # << >>, Edge.ref \in OnStack
  PROVE  CyclicImports(project)
<1> DEFINE n == Len(frames)
           F == project.files
           f == Edge.ref
<1>1. /\ Setting(F, RootTargets(project), Unit.imports)
      /\ Stack(F, RootTargets(project), Unit.imports, frames) /\ n \in Nat /\ n \in 1 .. n
  BY UnitSetting
<1>2. frames[n].todo # << >> /\ f = Head(frames[n].todo).ref
  BY DEF Top, Edge, Last
<1>3. PICK i \in 2 .. n : f = frames[i].file
  BY DEF OnStack
<1>4. f \in Reached(F, RootTargets(project)) /\ f \in Reached(F, Imported(F, frames[i].file))
  BY <1>1, <1>2, NextTarget
<1> QED
  BY <1>3, <1>4 DEF CyclicImports, RootTargets, Imported

LEMMA EnterLibraryKeeps == ASSUME ImportInv, EnterLibrary PROVE ImportInv'
<1>1. phase = "imports" /\ returned = None /\ Top.todo # << >>
  BY DEF EnterLibrary, Importing
<1>2. CASE /\ Edge.ref \notin OnStack
           /\ frames' = Append(frames, Frame(Edge.ref, project.files[Edge.ref].imports))
           /\ UNCHANGED <<project, returned, registry, blocks, phase, fault>>
  <2>1. /\ Setting(project.files, RootTargets(project), Unit.imports)
        /\ Stack(project.files, RootTargets(project), Unit.imports, frames)
    BY <1>1, UnitSetting
  <2>2. /\ frames[Len(frames)].todo # << >> /\ Edge.ref = Head(frames[Len(frames)].todo).ref
        /\ \A i \in 2 .. Len(frames) : frames[i].file # Edge.ref
    BY <1>1, <1>2 DEF Top, Edge, Last, OnStack
  <2>3. Stack(project.files, RootTargets(project), Unit.imports, frames')
    BY <1>2, <2>1, <2>2, StackGrows
  <2>4. Unit' = Unit
    BY <1>2 DEF Unit
  <2> QED
    BY <1>1, <1>2, <2>3, <2>4 DEF ImportInv, Resolving
<1>3. CASE Edge.ref \in OnStack /\ Refuse("import_cycle")
  <2>1. CyclicImports(project)
    BY <1>1, <1>3, CycleIsReal
  <2>2. phase' = "refused" /\ UNCHANGED <<project, blocks>>
    BY <1>3 DEF Refuse
  <2> QED
    BY <2>1, <2>2 DEF ImportInv, Resolving
<1>4. CASE Refuse("not_library")
  BY <1>4, RefuseKeeps DEF NotCycle
<1> QED
  BY <1>2, <1>3, <1>4 DEF EnterLibrary

LEMMA FinishLibraryKeeps == ASSUME ImportInv, FinishLibrary PROVE ImportInv'
<1> DEFINE own == project.files[Top.file]
           scope == MergedScope(Top.scope, own)
           wrong == Or(MergeFault(Top.scope, own),
                       Or(BodyFault(scope.templates), LoopFault(Named(scope.metas), scope.templates)))
<1>1. phase = "imports" /\ Top.todo = << >> /\ Len(frames) > 1
  BY DEF FinishLibrary, Importing
<1>2. \/ /\ frames' = Front(frames)
         /\ UNCHANGED <<project, registry, blocks, phase, fault>>
      \/ Refuse(wrong)
  BY DEF FinishLibrary
<1>3. NotCycle(wrong)
  BY FaultsAreNotCycle
<1> HIDE DEF wrong
<1>4. CASE /\ frames' = Front(frames)
           /\ UNCHANGED <<project, registry, blocks, phase, fault>>
  <2>1. /\ Setting(project.files, RootTargets(project), Unit.imports)
        /\ Stack(project.files, RootTargets(project), Unit.imports, frames)
        /\ frames[Len(frames)].todo = << >>
    BY <1>1, UnitSetting DEF Top, Last
  <2>2. /\ Stack(project.files, RootTargets(project), Unit.imports, frames')
        /\ Last(frames').todo # << >> /\ Head(Last(frames').todo).ref \in Clean(project.files)
    BY <1>1, <1>4, <2>1, StackShrinks
  <2>3. Unit' = Unit /\ Top' = Last(frames') /\ Edge' = Head(Last(frames').todo)
    BY <1>4 DEF Unit, Top, Edge
  <2> QED
    BY <1>1, <1>4, <2>2, <2>3 DEF ImportInv, Resolving
<1> QED
  BY <1>2, <1>3, <1>4, RefuseKeeps

LEMMA ImportKeeps == ASSUME ImportInv, Import PROVE ImportInv'
<1> DEFINE bound == Instantiated(returned, Edge.bind)
           kept == Filtered(bound, Edge.only)
           scope == Renamed(Edge, kept)
           unknown == \/ ~(DOMAIN Edge.bind \subseteq Named(returned.metas))
                      \/ Edge.only # None /\ ~(Edge.only \subseteq Named(returned.templates))
           wrong == Or(FirstFault(<< <<unknown, "unknown_name">> >>),
                       Or(RenameFault(Edge, kept), MergeFault(Top.scope, scope)))
<1>1. phase = "imports" /\ returned # None
  BY DEF Import
<1>2. \/ /\ frames' = [frames EXCEPT ![Len(frames)].todo = Tail(@),
                                     ![Len(frames)].scope = MergedScope(@, scope)]
         /\ returned' = None
         /\ UNCHANGED <<project, registry, blocks, phase, fault>>
      \/ Refuse(wrong)
  BY DEF Import
<1>3. NotCycle(wrong)
  BY FaultsAreNotCycle, ChecksAreNotCycle
<1> HIDE DEF scope, wrong
<1>4. CASE /\ frames' = [frames EXCEPT ![Len(frames)].todo = Tail(@),
                                      ![Len(frames)].scope = MergedScope(@, scope)]
           /\ returned' = None
           /\ UNCHANGED <<project, registry, blocks, phase, fault>>
  <2>1. /\ Setting(project.files, RootTargets(project), Unit.imports)
        /\ Stack(project.files, RootTargets(project), Unit.imports, frames)
    BY <1>1, UnitSetting
  <2>2. frames[Len(frames)].todo # << >> /\ Head(frames[Len(frames)].todo).ref \in Clean(project.files)
    BY <1>1 DEF ImportInv, Resolving, Top, Edge, Last
  <2>3. PICK s : frames' = [frames EXCEPT ![Len(frames)].todo = Tail(@), ![Len(frames)].scope = s]
    BY <1>4
  <2>4. Stack(project.files, RootTargets(project), Unit.imports, frames')
    BY <2>1, <2>2, <2>3, StackGoesOn
  <2>5. Unit' = Unit
    BY <1>4 DEF Unit
  <2> QED
    BY <1>1, <1>4, <2>4, <2>5 DEF ImportInv, Resolving
<1> QED
  BY <1>2, <1>3, <1>4, RefuseKeeps

LEMMA FinishUnitKeeps == ASSUME ImportInv, FinishUnit PROVE ImportInv'
<1> DEFINE arrived == Top.scope
           own == [templates |-> Unit.templates, sets |-> << >>, metas |-> << >>]
           document == [templates |-> << >>, sets |-> registry.sets, metas |-> registry.metas]
           wrong == Or(MergeFault(arrived, own),
                       MergeFault(document, [arrived EXCEPT !.templates = << >>]))
           last == Len(blocks) + 1 = Len(project.units)
           block == Merged(arrived.templates, own.templates)
<1>1. phase = "imports" /\ returned = None /\ Top.todo = << >> /\ Len(frames) = 1
  BY DEF FinishUnit, Importing
<1>2. \/ /\ blocks' = Append(blocks, block)
         /\ frames' = IF last THEN << >> ELSE UnitFrame(project, Len(blocks) + 2)
         /\ phase' = IF last THEN "close" ELSE phase
         /\ UNCHANGED <<project, returned, fault>>
      \/ Refuse(wrong)
  BY DEF FinishUnit
<1>3. NotCycle(wrong)
  BY FaultsAreNotCycle
<1> HIDE DEF wrong, block
<1>4. CASE /\ blocks' = Append(blocks, block)
           /\ frames' = IF last THEN << >> ELSE UnitFrame(project, Len(blocks) + 2)
           /\ phase' = IF last THEN "close" ELSE phase
           /\ UNCHANGED <<project, returned, fault>>
  <2> DEFINE n == Len(blocks)
             F == project.files
             R == RootTargets(project)
  <2>1. /\ Setting(F, R, Unit.imports) /\ Stack(F, R, Unit.imports, frames)
        /\ n \in Nat /\ n + 1 \in 1 .. Len(project.units)
    BY <1>1, UnitSetting
  <2>2. Targets(Unit.imports) \subseteq Clean(F)
    <3>1. frames[1].todo = << >> /\ FrameAt(F, R, Unit.imports, frames, 1)
      BY <1>1, <2>1 DEF Top, Last, Stack
    <3>2. LeftOf(F, Unit.imports, << >>)
      BY <3>1 DEF FrameAt, ListAt
    <3> QED
      BY <2>1, <3>2, NothingLeft DEF Setting
  <2>3. /\ blocks' \in Seq(Range(blocks) \union {block}) /\ Len(blocks') = n + 1
    BY <1>4, OneMore DEF ImportInv
  <2>4. blocks' \in Seq(Range(blocks'))
    BY <2>3, SequenceOfItsOwn
  <2>5. \A u \in 1 .. n + 1 : Targets(project.units[u].imports) \subseteq Clean(F)
    <3> TAKE u \in 1 .. n + 1
    <3>1. u \in 1 .. n \/ u = n + 1
      BY <2>1
    <3> QED
      BY <2>2, <3>1 DEF Unit, ImportInv
  <2>6. CASE last
    <3>1. phase' = "close" /\ Len(blocks') = Len(project.units)
      BY <1>4, <2>3, <2>6
    <3> QED
      BY <1>4, <2>1, <2>3, <2>4, <2>5, <3>1 DEF ImportInv, Resolving
  <2>7. CASE ~last
    <3>1. /\ phase' = "imports" /\ Len(blocks') < Len(project.units)
          /\ frames' = <<Frame(Root, project.units[n + 2].imports)>>
      BY <1>1, <1>4, <2>1, <2>3, <2>7 DEF UnitFrame
    <3>2. Unit' = project.units[n + 2]
      BY <1>4, <2>1, <2>3 DEF Unit
    <3>3. Setting(F, R, project.units[n + 2].imports)
      <4>1. n + 2 \in 1 .. Len(project.units)
        BY <2>1, <2>7
      <4> QED
        BY <4>1, ProjectFacts DEF ImportInv
    <3>4. Stack(F, R, project.units[n + 2].imports, frames')
      BY <3>1, <3>3, StackStarts
    <3> QED
      BY <1>1, <1>4, <2>1, <2>3, <2>4, <2>5, <3>1, <3>2, <3>4 DEF ImportInv, Resolving
  <2> QED
    BY <2>6, <2>7
<1> QED
  BY <1>2, <1>3, <1>4, RefuseKeeps

LEMMA CloseKeeps == ASSUME ImportInv, Close PROVE ImportInv'
<1> DEFINE values == Closing(project, registry.metas)
           names == DOMAIN values
           all == FlattenSeq(blocks)
           closed(d) == BoundTemplate(d, values)
           sets == Rekeyed(registry.sets, Same, LAMBDA d : BoundSet(d, values))
           block(b) == Rekeyed(b, Same, closed)
           put(u) == IF project.library THEN project.units[u].templates ELSE block(blocks[u])
           early == FirstFault(<<
             <<~(DOMAIN project.api \subseteq names), "unknown_name">>,
             <<\E n \in names : values[n] = None, "metaparameter_unbound">>,
             <<names \intersect Visible(project, registry.sets) # {}, "metaparameter_name_conflict">>,
             <<LoopFault(names, all) # None, "metaparameter_name_conflict">>,
             <<\E d \in ToSet(sets) : ~(ToSet(d.decl.size) \subseteq Literals),
               "metaparameter_unbound">> >>)
           late == IF project.library THEN BodyFault(all) ELSE None
<1>1. phase = "close"
  BY DEF Close
<1>2. \/ /\ blocks' = [u \in DOMAIN blocks |-> put(u)]
         /\ phase' = "done"
         /\ UNCHANGED <<project, frames, returned, fault>>
      \/ Refuse(Or(early, late))
  BY DEF Close
<1>3. NotCycle(Or(early, late))
  <2>1. NotCycle(early)
    BY ChecksAreNotCycle
  <2>2. NotCycle(late)
    BY FaultsAreNotCycle, NoneIsNotCycle
  <2> HIDE DEF early, late
  <2> QED
    BY <2>1, <2>2, FaultsAreNotCycle
<1> HIDE DEF early, late, put
<1>4. CASE /\ blocks' = [u \in DOMAIN blocks |-> put(u)]
           /\ phase' = "done"
           /\ UNCHANGED <<project, frames, returned, fault>>
  <2>1. Len(blocks) \in Nat /\ DOMAIN blocks = 1 .. Len(blocks)
    BY LenProperties DEF ImportInv
  <2>2. DOMAIN blocks' = 1 .. Len(blocks) /\ blocks' = [u \in 1 .. Len(blocks) |-> blocks'[u]]
    BY <1>4, <2>1
  <2>3. \A u \in 1 .. Len(blocks) : blocks'[u] \in Range(blocks')
    BY <2>2 DEF Range
  <2>4. blocks' \in Seq(Range(blocks')) /\ Len(blocks') = Len(blocks)
    BY <2>1, <2>2, <2>3
  <2> QED
    BY <1>1, <1>4, <2>4 DEF ImportInv, Resolving
<1> QED
  BY <1>2, <1>3, <1>4, RefuseKeeps

LEMMA ImportsStep == ImportInv /\ [Next]_vars => ImportInv'
<1> SUFFICES ASSUME ImportInv, [Next]_vars PROVE ImportInv'
  OBVIOUS
<1>1. CASE UNCHANGED vars
  <2>1. UNCHANGED <<project, frames, returned, blocks, phase, fault>>
    BY <1>1 DEF vars
  <2>2. Unit' = Unit /\ Top' = Top /\ Edge' = Edge
    BY <2>1 DEF Unit, Top, Edge
  <2> QED
    BY <2>1, <2>2 DEF ImportInv, Resolving
<1> QED
  BY <1>1, EnterLibraryKeeps, FinishLibraryKeeps, ImportKeeps, FinishUnitKeeps, CloseKeeps DEF Next, Ended

-----------------------------------------------------------------------------
(* The theorems *)

\* The inductive invariant holds in every reachable state.
THEOREM ImportInvariant == Spec => []ImportInv
<1> QED
  BY ImportsStart, ImportsStep, PTL DEF Spec

\* For any documents and libraries: a document whose import graph has a cycle
\* never loads, and a load is refused for one only where there is one
\* (the stack of resolve_import_entry).
THEOREM CyclesAreRefused == Spec => []ImportCyclesRefused
<1>1. ImportInv => ImportCyclesRefused
  <2> SUFFICES ASSUME ImportInv, phase = "done" PROVE ~CyclicImports(project)
    BY DEF ImportInv, ImportCyclesRefused
  <2> DEFINE R == RootTargets(project)
             F == project.files
  <2>1. DOMAIN project.units = 1 .. Len(project.units) /\ Graph(F)
    BY ProjectFacts DEF ImportInv
  <2>2. R \in SUBSET Clean(F)
    BY <2>1 DEF ImportInv, RootTargets
  <2>3. \A g \in Reached(F, R) : g \notin Reached(F, Imported(F, g))
    BY <2>1, <2>2, CleanReachesClean
  <2> QED
    BY <2>3 DEF CyclicImports, RootTargets, Imported
<1> QED
  BY <1>1, ImportInvariant, PTL

\* The libraries being resolved are different files of the project, each
\* imported by the one below it: the depth of the walk is at most their number
\* (resolve_import_entry, process_library).
StackIsAPath ==
  phase = "imports" =>
    /\ \A i \in 2 .. Len(frames) : frames[i].file \in DOMAIN project.files
    /\ \A i, j \in 2 .. Len(frames) : frames[i].file = frames[j].file => i = j
    /\ \A i \in 2 .. Len(frames) - 1 :
         frames[i + 1].file \in Targets(project.files[frames[i].file].imports)

THEOREM ResolvingIsAPath == Spec => []StackIsAPath
<1>1. ImportInv => StackIsAPath
  <2> SUFFICES ASSUME ImportInv, phase = "imports"
               PROVE  /\ \A i \in 2 .. Len(frames) : frames[i].file \in DOMAIN project.files
                      /\ \A i, j \in 2 .. Len(frames) : frames[i].file = frames[j].file => i = j
                      /\ \A i \in 2 .. Len(frames) - 1 :
                           frames[i + 1].file \in Targets(project.files[frames[i].file].imports)
    BY DEF StackIsAPath
  <2>1. /\ Setting(project.files, RootTargets(project), Unit.imports)
        /\ Stack(project.files, RootTargets(project), Unit.imports, frames)
        /\ Len(frames) \in Nat
    BY UnitSetting
  <2>2. \A i \in 2 .. Len(frames) : frames[i].file \in DOMAIN project.files
    BY <2>1, StackTypes
  <2>3. \A i, j \in 2 .. Len(frames) : i < j => frames[i].file # frames[j].file
    BY <2>1 DEF Stack, Path
  <2>4. \A i, j \in 2 .. Len(frames) : frames[i].file = frames[j].file => i = j
    BY <2>1, <2>3
  <2>5. ASSUME NEW i \in 2 .. Len(frames) - 1
        PROVE  frames[i + 1].file \in Targets(project.files[frames[i].file].imports)
    <3>1. i \in 1 .. Len(frames) /\ i \in 1 .. Len(frames) - 1 /\ i > 1
      BY <2>1
    <3>2. frames[i].todo # << >> /\ frames[i + 1].file = Head(frames[i].todo).ref
      BY <2>1, <3>1 DEF Stack, Linked
    <3> QED
      BY <2>1, <3>1, <3>2, NextTarget DEF Imported
  <2> QED
    BY <2>2, <2>4, <2>5
<1> QED
  BY <1>1, ImportInvariant, PTL

-----------------------------------------------------------------------------
(* Maps *)

LEMMA NatHasLeast ==
  ASSUME NEW T, T \subseteq Nat, T # {}
  PROVE  \E x \in T : \A y \in T : x <= y
<1> DEFINE Less == {ss \in Nat \X Nat : ss[1] < ss[2]}
<1>1. IsWellFoundedOn(Less, Nat)
  BY NatLessThanWellFounded DEF OpToRel
<1>2. PICK x \in T : \A y \in T : ~ (<<y, x>> \in Less)
  BY <1>1, WFMin
<1>3. ASSUME NEW y \in T, y < x PROVE FALSE
  <2>1. <<y, x>> \in Less
    BY <1>3
  <2> QED
    BY <2>1, <1>2
<1> QED
  BY <1>3

LEMMA SequenceFacts ==
  ASSUME NEW m, m \in Seq(Range(m))
  PROVE  Len(m) \in Nat /\ DOMAIN m = 1 .. Len(m)
BY LenProperties

LEMMA NamesOf ==
  ASSUME NEW m, m \in Seq(Range(m))
  PROVE  Named(m) = {m[i].name : i \in 1 .. Len(m)}
BY SequenceFacts DEF Named

LEMMA MapFacts ==
  ASSUME NEW m, m \in Seq(Range(m))
  PROVE  IsMap(m) <=> \A i, j \in 1 .. Len(m) : m[i].name = m[j].name => i = j
BY SequenceFacts DEF IsMap

\* What Decl finds in a map.
LEMMA DeclIs ==
  ASSUME NEW m, IsMap(m), NEW i \in 1 .. Len(m)
  PROVE  Decl(m, m[i].name) = m[i].decl
<1>1. m \in Seq(Range(m)) /\ DOMAIN m = 1 .. Len(m)
  BY SequenceFacts DEF IsMap
<1> DEFINE k == CHOOSE j \in DOMAIN m : m[j].name = m[i].name
<1>2. k \in DOMAIN m /\ m[k].name = m[i].name
  BY <1>1
<1>3. k = i
  BY <1>1, <1>2 DEF IsMap
<1> QED
  BY <1>3 DEF Decl

\* Kept is a walk over the entries.
LEMMA KeptSteps ==
  ASSUME NEW m, Len(m) \in Nat, NEW names
  PROVE  \E k : /\ Kept(m, names) = k[Len(m)] /\ k[0] = << >>
                /\ \A i \in 1 .. Len(m) :
                     k[i] = IF m[i].name \in names THEN Append(k[i - 1], m[i]) ELSE k[i - 1]
<1> DEFINE Rec(g, h) == g = [i \in 0 .. h |-> IF i = 0 THEN << >> ELSE IF m[i].name \in names
                               THEN Append(g[i - 1], m[i]) ELSE g[i - 1]]
           B == {h \in Nat : ~ \E g : Rec(g, h)}
<1>1. B = {}
  <2> SUFFICES ASSUME B # {} PROVE FALSE
    OBVIOUS
  <2>1. PICK h \in B : \A y \in B : h <= y
    BY NatHasLeast
  <2>2. h \in Nat /\ ~ \E g : Rec(g, h)
    BY <2>1
  <2>3. CASE h = 0
    <3>1. Rec([k \in 0 .. 0 |-> << >>], 0)
      OBVIOUS
    <3> QED
      BY <3>1, <2>2, <2>3
  <2>4. CASE h # 0
    <3>1. h - 1 \in Nat /\ ~(h <= h - 1)
      BY <2>2, <2>4
    <3>2. h - 1 \notin B
      BY <3>1, <2>1
    <3>3. PICK g : Rec(g, h - 1)
      BY <3>1, <3>2
    <3> DEFINE last == IF m[h].name \in names THEN Append(g[h - 1], m[h]) ELSE g[h - 1]
               f == [k \in 0 .. h |-> IF k < h THEN g[k] ELSE last]
    <3>4. \A k \in 0 .. h : f[k] = IF k = 0 THEN << >> ELSE IF m[k].name \in names
                                   THEN Append(f[k - 1], m[k]) ELSE f[k - 1]
      <4> TAKE k \in 0 .. h
      <4>1. g = [i \in 0 .. h - 1 |-> IF i = 0 THEN << >> ELSE IF m[i].name \in names
                                      THEN Append(g[i - 1], m[i]) ELSE g[i - 1]]
        BY <3>3
      <4>2. /\ \A j \in 0 .. h - 1 : f[j] = g[j]
            /\ \A j \in 0 .. h - 1 : g[j] = IF j = 0 THEN << >> ELSE IF m[j].name \in names
                                             THEN Append(g[j - 1], m[j]) ELSE g[j - 1]
        <5>1. \A j \in 0 .. h - 1 : f[j] = g[j]
          BY <3>1, <2>2
        <5> HIDE DEF f
        <5>2. \A j \in 0 .. h - 1 : g[j] = IF j = 0 THEN << >> ELSE IF m[j].name \in names
                                             THEN Append(g[j - 1], m[j]) ELSE g[j - 1]
          BY <4>1, Zenon
        <5> QED
          BY <5>1, <5>2
      <4>3. f[h] = last
        BY <3>1
      <4> HIDE DEF f, Rec
      <4>4. CASE k = h
        <5>1. h - 1 \in 0 .. h - 1 /\ f[h - 1] = g[h - 1]
          BY <3>1, <4>2
        <5> QED
          BY <2>2, <2>4, <4>3, <4>4, <5>1
      <4>5. CASE k # h
        <5>1. k \in 0 .. h - 1 /\ (k # 0 => k - 1 \in 0 .. h - 1)
          BY <2>2, <4>5
        <5> QED
          BY <4>2, <5>1
      <4> QED
        BY <4>4, <4>5
    <3>5. Rec(f, h)
      BY <3>4
    <3> QED
      BY <3>5, <2>2
  <2> QED
    BY <2>3, <2>4
<1>2. PICK g : Rec(g, Len(m))
  BY <1>1
<1> DEFINE kept == CHOOSE f : Rec(f, Len(m))
<1>3. Rec(kept, Len(m))
  BY <1>2, Zenon
<1>4. Kept(m, names) = kept[Len(m)]
  BY DEF Kept
<1> HIDE DEF kept
<1>5. kept[0] = << >> /\ \A i \in 1 .. Len(m) :
        kept[i] = IF m[i].name \in names THEN Append(kept[i - 1], m[i]) ELSE kept[i - 1]
  <2>1. \A i \in 0 .. Len(m) :
          kept[i] = IF i = 0 THEN << >> ELSE IF m[i].name \in names
                    THEN Append(kept[i - 1], m[i]) ELSE kept[i - 1]
    BY <1>3
  <2>2. 0 \in 0 .. Len(m) /\ \A i \in 1 .. Len(m) : i \in 0 .. Len(m) /\ i # 0
    OBVIOUS
  <2> QED
    BY <2>1, <2>2
<1> QED
  BY <1>4, <1>5

\* What is kept of the first h entries.
KeptOf(m, names, h, k) ==
  /\ k \in Seq(Range(m))
  /\ \A j \in 1 .. Len(k) : \E i \in 1 .. h : k[j] = m[i] /\ m[i].name \in names
  /\ \A i \in 1 .. h : m[i].name \in names => \E j \in 1 .. Len(k) : k[j] = m[i]
  /\ \A i, j \in 1 .. Len(k) : k[i].name = k[j].name => i = j

LEMMA KeptGrows ==
  ASSUME NEW m, IsMap(m), NEW names, NEW h \in 1 .. Len(m), NEW k, KeptOf(m, names, h - 1, k),
         NEW q, q = IF m[h].name \in names THEN Append(k, m[h]) ELSE k
  PROVE  KeptOf(m, names, h, q)
<1>1. /\ m \in Seq(Range(m)) /\ Len(m) \in Nat /\ DOMAIN m = 1 .. Len(m) /\ h \in Nat
      /\ \A i, j \in 1 .. Len(m) : m[i].name = m[j].name => i = j
      /\ \A i \in 1 .. h : i \in 1 .. h - 1 \/ i = h
      /\ 1 .. h - 1 \subseteq 1 .. h /\ h \in 1 .. h /\ 1 .. h - 1 \subseteq 1 .. Len(m)
  BY SequenceFacts, MapFacts DEF IsMap
<1>2. k \in Seq(Range(m)) /\ Len(k) \in Nat
  BY LenProperties DEF KeptOf
<1>3. CASE m[h].name \notin names
  <2>1. q = k
    BY <1>3
  <2> QED
    BY <1>1, <1>3, <2>1 DEF KeptOf
<1>4. CASE m[h].name \in names
  <2>1. m[h] \in Range(m)
    BY <1>1 DEF Range
  <2>2. /\ q \in Seq(Range(m)) /\ Len(q) = Len(k) + 1
        /\ \A j \in 1 .. Len(k) : q[j] = k[j]
        /\ q[Len(k) + 1] = m[h]
    BY <1>2, <1>4, <2>1
  <2>3. \A j \in 1 .. Len(q) : j \in 1 .. Len(k) \/ j = Len(k) + 1
    BY <1>2, <2>2
  <2>4. \A j \in 1 .. Len(k) : k[j].name # m[h].name
    <3> SUFFICES ASSUME NEW j \in 1 .. Len(k) PROVE k[j].name # m[h].name
      OBVIOUS
    <3>1. PICK i \in 1 .. h - 1 : k[j] = m[i]
      BY DEF KeptOf
    <3> QED
      BY <1>1, <3>1
  <2>5. \A j \in 1 .. Len(q) : \E i \in 1 .. h : q[j] = m[i] /\ m[i].name \in names
    BY <1>1, <1>4, <2>2, <2>3 DEF KeptOf
  <2>6. \A i \in 1 .. h : m[i].name \in names => \E j \in 1 .. Len(q) : q[j] = m[i]
    <3> SUFFICES ASSUME NEW i \in 1 .. h, m[i].name \in names PROVE \E j \in 1 .. Len(q) : q[j] = m[i]
      OBVIOUS
    <3>1. CASE i = h
      BY <1>2, <2>2, <3>1
    <3>2. CASE i \in 1 .. h - 1
      <4>1. PICK j \in 1 .. Len(k) : k[j] = m[i]
        BY <3>2 DEF KeptOf
      <4>2. j \in 1 .. Len(q) /\ q[j] = m[i]
        BY <1>2, <2>2, <4>1
      <4> QED
        BY <4>2
    <3> QED
      BY <1>1, <3>1, <3>2
  <2>7. ASSUME NEW i \in 1 .. Len(q), NEW j \in 1 .. Len(q), q[i].name = q[j].name PROVE i = j
    BY <1>2, <2>2, <2>3, <2>4, <2>7 DEF KeptOf
  <2> QED
    BY <2>2, <2>5, <2>6, <2>7 DEF KeptOf
<1> QED
  BY <1>3, <1>4

\* The entries with these names, each of them and no others.
LEMMA KeptIs ==
  ASSUME NEW m, IsMap(m), NEW names
  PROVE  KeptOf(m, names, Len(m), Kept(m, names))
<1>1. m \in Seq(Range(m)) /\ Len(m) \in Nat
  BY SequenceFacts DEF IsMap
<1>2. PICK k : /\ Kept(m, names) = k[Len(m)] /\ k[0] = << >>
               /\ \A i \in 1 .. Len(m) :
                    k[i] = IF m[i].name \in names THEN Append(k[i - 1], m[i]) ELSE k[i - 1]
  BY <1>1, KeptSteps
<1> DEFINE B == {h \in 0 .. Len(m) : ~KeptOf(m, names, h, k[h])}
<1>3. B = {}
  <2> SUFFICES ASSUME B # {} PROVE FALSE
    OBVIOUS
  <2>1. B \subseteq Nat
    OBVIOUS
  <2>2. PICK h \in B : \A y \in B : h <= y
    BY <2>1, NatHasLeast
  <2>3. h \in 0 .. Len(m) /\ ~KeptOf(m, names, h, k[h])
    BY <2>2
  <2>4. CASE h = 0
    <3>1. k[0] \in Seq(Range(m)) /\ Len(k[0]) = 0
      BY <1>2
    <3> QED
      BY <2>3, <2>4, <3>1 DEF KeptOf
  <2>5. CASE h # 0
    <3>1. h \in 1 .. Len(m) /\ h - 1 \in 0 .. Len(m) /\ ~(h <= h - 1)
      BY <1>1, <2>3, <2>5
    <3>2. KeptOf(m, names, h - 1, k[h - 1])
      BY <2>2, <3>1
    <3> QED
      BY <1>2, <2>3, <3>1, <3>2, KeptGrows
  <2> QED
    BY <2>4, <2>5
<1>4. Len(m) \in 0 .. Len(m)
  BY <1>1
<1> QED
  BY <1>2, <1>3, <1>4

Fields == {"params", "rule", "vars", "loops", "axes", "from", "calls"}

\* What every template calls is there.
Resolves(m) == \A i \in 1 .. Len(m) : ToSet(m[i].decl.calls) \subseteq Named(m)

LEMMA TemplateFacts ==
  ASSUME NEW m
  PROVE  IsTemplates(m) <=> IsMap(m) /\ \A i \in 1 .. Len(m) : DOMAIN m[i].decl = Fields
<1>1. IsMap(m) => Range(m) = {m[i] : i \in 1 .. Len(m)}
  BY SequenceFacts DEF IsMap, Range
<1>2. IsTemplates(m) <=> IsMap(m) /\ \A t \in Range(m) : DOMAIN t.decl = Fields
  BY DEF IsTemplates, Fields
<1> QED
  BY <1>1, <1>2

LEMMA KeptTemplates ==
  ASSUME NEW m, IsTemplates(m), NEW names, NEW k, k = Kept(m, names)
  PROVE  /\ IsTemplates(k) /\ Named(k) = Named(m) \intersect names
         /\ \A j \in 1 .. Len(k) : \E i \in 1 .. Len(m) : k[j] = m[i]
<1>1. IsMap(m) /\ KeptOf(m, names, Len(m), k) /\ m \in Seq(Range(m))
  BY TemplateFacts, KeptIs DEF IsMap
<1>2. k \in Seq(Range(k)) /\ Len(k) \in Nat
  BY <1>1, SequenceOfItsOwn DEF KeptOf
<1>3. IsMap(k)
  BY <1>1, <1>2, MapFacts DEF KeptOf
<1>4. Named(k) = Named(m) \intersect names
  <2>1. Named(k) = {k[j].name : j \in 1 .. Len(k)} /\ Named(m) = {m[i].name : i \in 1 .. Len(m)}
    BY <1>1, <1>2, NamesOf
  <2>2. ASSUME NEW j \in 1 .. Len(k) PROVE k[j].name \in Named(m) \intersect names
    <3>1. PICK i \in 1 .. Len(m) : k[j] = m[i] /\ m[i].name \in names
      BY <1>1 DEF KeptOf
    <3> QED
      BY <2>1, <3>1
  <2>3. ASSUME NEW i \in 1 .. Len(m), m[i].name \in names PROVE m[i].name \in Named(k)
    <3>1. PICK j \in 1 .. Len(k) : k[j] = m[i]
      BY <1>1, <2>3 DEF KeptOf
    <3> QED
      BY <2>1, <3>1
  <2> QED
    BY <2>1, <2>2, <2>3
<1>5. \A j \in 1 .. Len(k) : \E i \in 1 .. Len(m) : k[j] = m[i]
  BY <1>1 DEF KeptOf
<1>6. \A j \in 1 .. Len(k) : DOMAIN k[j].decl = Fields
  BY <1>5, TemplateFacts
<1> QED
  BY <1>3, <1>4, <1>5, <1>6, TemplateFacts

\* merge_named keeps every name of both, each once.
LEMMA MergedIs ==
  ASSUME NEW dst, IsTemplates(dst), NEW src, IsTemplates(src), NEW m, m = Merged(dst, src)
  PROVE  /\ IsTemplates(m) /\ Named(m) = Named(dst) \union Named(src)
         /\ \A i \in 1 .. Len(dst) : m[i] = dst[i]
         /\ \A i \in 1 .. Len(m) : i \in 1 .. Len(dst) \/ \E j \in 1 .. Len(src) : m[i] = src[j]
<1> DEFINE k == Kept(src, Named(src) \ Named(dst))
<1>2. m = dst \o k
  BY DEF Merged
<1>0. k = Kept(src, Named(src) \ Named(dst))
  OBVIOUS
<1> HIDE DEF k
<1>1. /\ IsTemplates(k) /\ Named(k) = Named(src) \intersect (Named(src) \ Named(dst))
      /\ \A j \in 1 .. Len(k) : \E i \in 1 .. Len(src) : k[j] = src[i]
  <2> DEFINE names == Named(src) \ Named(dst)
  <2>1. k = Kept(src, names)
    BY <1>0
  <2> HIDE DEF names
  <2>2. /\ IsTemplates(k) /\ Named(k) = Named(src) \intersect names
        /\ \A j \in 1 .. Len(k) : \E i \in 1 .. Len(src) : k[j] = src[i]
    BY <2>1, KeptTemplates
  <2> QED
    BY <2>2 DEF names
<1>3. /\ dst \in Seq(Range(dst)) /\ Len(dst) \in Nat /\ k \in Seq(Range(k)) /\ Len(k) \in Nat
      /\ DOMAIN dst = 1 .. Len(dst) /\ DOMAIN k = 1 .. Len(k)
  <2>1. dst \in Seq(Range(dst)) /\ k \in Seq(Range(k))
    BY <1>1 DEF IsTemplates, IsMap
  <2> QED
    BY <2>1, SequenceFacts
<1>4. /\ Len(m) = Len(dst) + Len(k)
      /\ \A i \in 1 .. Len(dst) : m[i] = dst[i]
      /\ \A i \in 1 .. Len(k) : m[Len(dst) + i] = k[i]
      /\ m \in Seq(Range(dst) \union Range(k))
  <2>1. dst \in Seq(Range(dst) \union Range(k)) /\ k \in Seq(Range(dst) \union Range(k))
    BY <1>3, SeqMonotonic
  <2> QED
    BY <1>2, <1>3, <2>1, ConcatProperties
<1>5. \A i \in 1 .. Len(m) : i \in 1 .. Len(dst) \/ \E j \in 1 .. Len(k) : i = Len(dst) + j /\ m[i] = k[j]
  <2> TAKE i \in 1 .. Len(m)
  <2>1. CASE i > Len(dst)
    <3>1. i - Len(dst) \in 1 .. Len(k) /\ i = Len(dst) + (i - Len(dst))
      BY <1>3, <1>4, <2>1
    <3> QED
      BY <1>4, <3>1
  <2> QED
    BY <1>3, <2>1
<1>6. m \in Seq(Range(m)) /\ Len(m) \in Nat
  BY <1>4, SequenceOfItsOwn
<1>7. Named(dst) = {dst[i].name : i \in 1 .. Len(dst)} /\ Named(k) = {k[i].name : i \in 1 .. Len(k)}
      /\ Named(m) = {m[i].name : i \in 1 .. Len(m)}
  BY <1>3, <1>6, NamesOf
<1>8. Named(m) = Named(dst) \union Named(k)
  <2>1. ASSUME NEW i \in 1 .. Len(m) PROVE m[i].name \in Named(dst) \union Named(k)
    BY <1>4, <1>5, <1>7
  <2>2. ASSUME NEW i \in 1 .. Len(dst) PROVE dst[i].name \in Named(m)
    <3>1. i \in 1 .. Len(m) /\ m[i] = dst[i]
      BY <1>3, <1>4
    <3> QED
      BY <1>7, <3>1
  <2>3. ASSUME NEW i \in 1 .. Len(k) PROVE k[i].name \in Named(m)
    <3>1. Len(dst) + i \in 1 .. Len(m) /\ m[Len(dst) + i] = k[i]
      BY <1>3, <1>4
    <3> QED
      BY <1>7, <3>1
  <2> QED
    BY <1>7, <2>1, <2>2, <2>3
<1>9. Named(m) = Named(dst) \union Named(src)
  BY <1>1, <1>8
<1>10. \A i, j \in 1 .. Len(m) : m[i].name = m[j].name => i = j
  <2> SUFFICES ASSUME NEW i \in 1 .. Len(m), NEW j \in 1 .. Len(m), m[i].name = m[j].name PROVE i = j
    OBVIOUS
  <2>1. Named(dst) \intersect Named(k) = {}
    BY <1>1
  <2>2. \A x \in 1 .. Len(dst) : m[x].name \in Named(dst)
    BY <1>4, <1>7
  <2>3. \A x \in 1 .. Len(k) : k[x].name \in Named(k)
    BY <1>7
  <2>4. \A x, y \in 1 .. Len(k) : k[x].name = k[y].name => x = y
    BY <1>1, <1>3, TemplateFacts, MapFacts
  <2>5. \A x, y \in 1 .. Len(dst) : dst[x].name = dst[y].name => x = y
    BY <1>3, TemplateFacts, MapFacts
  <2>0. /\ i \in 1 .. Len(dst) \/ \E x \in 1 .. Len(k) : i = Len(dst) + x /\ m[i] = k[x]
        /\ j \in 1 .. Len(dst) \/ \E x \in 1 .. Len(k) : j = Len(dst) + x /\ m[j] = k[x]
    BY <1>5
  <2>6. CASE i \in 1 .. Len(dst) /\ j \in 1 .. Len(dst)
    BY <1>4, <2>5, <2>6
  <2>7. CASE i \in 1 .. Len(dst) /\ j \notin 1 .. Len(dst)
    BY <2>0, <2>1, <2>2, <2>3, <2>7
  <2>8. CASE i \notin 1 .. Len(dst) /\ j \in 1 .. Len(dst)
    BY <2>0, <2>1, <2>2, <2>3, <2>8
  <2>9. CASE i \notin 1 .. Len(dst) /\ j \notin 1 .. Len(dst)
    <3>1. PICK x \in 1 .. Len(k) : i = Len(dst) + x /\ m[i] = k[x]
      BY <2>0, <2>9
    <3>2. PICK y \in 1 .. Len(k) : j = Len(dst) + y /\ m[j] = k[y]
      BY <2>0, <2>9
    <3> QED
      BY <2>4, <3>1, <3>2
  <2> QED
    BY <2>6, <2>7, <2>8, <2>9
<1>11. IsMap(m)
  BY <1>6, <1>10, MapFacts
<1>12. \A i \in 1 .. Len(m) : i \in 1 .. Len(dst) \/ \E j \in 1 .. Len(src) : m[i] = src[j]
  BY <1>1, <1>5
<1>13. \A i \in 1 .. Len(m) : DOMAIN m[i].decl = Fields
  BY <1>4, <1>12, TemplateFacts
<1> QED
  BY <1>4, <1>9, <1>11, <1>12, <1>13, TemplateFacts

LEMMA MergedResolves ==
  ASSUME NEW dst, IsTemplates(dst), Resolves(dst), NEW src, IsTemplates(src), Resolves(src)
  PROVE  Resolves(Merged(dst, src))
<1> DEFINE m == Merged(dst, src)
<1>1. /\ Named(m) = Named(dst) \union Named(src)
      /\ \A i \in 1 .. Len(dst) : m[i] = dst[i]
      /\ \A i \in 1 .. Len(m) : i \in 1 .. Len(dst) \/ \E j \in 1 .. Len(src) : m[i] = src[j]
  BY MergedIs
<1> HIDE DEF m
<1>2. Resolves(m)
  BY <1>1 DEF Resolves
<1> QED
  BY <1>2 DEF m

\* Entries get other names, each its own, and other declarations.
LEMMA NewEntries ==
  ASSUME NEW m, IsTemplates(m), NEW q, q \in [DOMAIN m -> Range(q)],
         \A i \in 1 .. Len(m) : DOMAIN q[i].decl = Fields,
         \A i, j \in 1 .. Len(m) : q[i].name = q[j].name => m[i].name = m[j].name
  PROVE  IsTemplates(q) /\ Len(q) = Len(m) /\ Named(q) = {q[i].name : i \in 1 .. Len(m)}
<1>1. /\ m \in Seq(Range(m)) /\ Len(m) \in Nat /\ DOMAIN m = 1 .. Len(m)
      /\ \A i, j \in 1 .. Len(m) : m[i].name = m[j].name => i = j
  BY TemplateFacts, SequenceFacts, MapFacts DEF IsMap
<1>5. q \in Seq(Range(q)) /\ Len(q) = Len(m)
  BY <1>1
<1>6. IsMap(q) /\ Named(q) = {q[i].name : i \in 1 .. Len(m)}
  BY <1>1, <1>5, MapFacts, NamesOf
<1> QED
  BY <1>5, <1>6, TemplateFacts

-----------------------------------------------------------------------------
(* What the pipeline of an edge does to the templates *)

LEMMA BoundTemplateFacts ==
  ASSUME NEW d, DOMAIN d = Fields, NEW values
  PROVE  DOMAIN BoundTemplate(d, values) = Fields /\ BoundTemplate(d, values).calls = d.calls
<1>1. "calls" \in Fields /\ "vars" \in Fields /\ "from" \in Fields
  BY DEF Fields
<1>2. ASSUME NEW x, NEW y
      PROVE  /\ DOMAIN [d EXCEPT !.vars = x, !.from = y] = Fields
             /\ [d EXCEPT !.vars = x, !.from = y].calls = d.calls
  BY <1>1
<1>3. BoundTemplate(d, values) =
        [d EXCEPT !.vars = Rewrite(Without(values, d.params), d.vars),
                  !.from = Rewrite(Without(values, d.params), d.from)]
  BY <1>1 DEF BoundTemplate
<1> QED
  BY <1>2, <1>3

BoundMap(m, values) == Rekeyed(m, Same, LAMBDA d : BoundTemplate(d, values))

LEMMA BoundTemplates ==
  ASSUME NEW m, IsTemplates(m), NEW values, NEW q, q = BoundMap(m, values)
  PROVE  /\ IsTemplates(q) /\ Named(q) = Named(m) /\ Len(q) = Len(m)
         /\ \A i \in 1 .. Len(m) : q[i].name = m[i].name /\ q[i].decl.calls = m[i].decl.calls
<1>1. m \in Seq(Range(m)) /\ DOMAIN m = 1 .. Len(m) /\ \A i \in 1 .. Len(m) : DOMAIN m[i].decl = Fields
  BY TemplateFacts, SequenceFacts DEF IsMap
<1>2. q = [i \in DOMAIN m |-> [name |-> m[i].name, decl |-> BoundTemplate(m[i].decl, values)]]
  BY DEF BoundMap, Rekeyed, Same
<1>3. q \in [DOMAIN m -> Range(q)]
  BY <1>2 DEF Range
<1>8. ASSUME NEW i \in 1 .. Len(m)
      PROVE  q[i].name = m[i].name /\ q[i].decl = BoundTemplate(m[i].decl, values)
  <2>1. q[i] = [name |-> m[i].name, decl |-> BoundTemplate(m[i].decl, values)]
    BY <1>1, <1>2
  <2> QED
    BY <2>1
<1>4. ASSUME NEW i \in 1 .. Len(m)
      PROVE  DOMAIN q[i].decl = Fields /\ q[i].decl.calls = m[i].decl.calls
  <2> DEFINE d == m[i].decl
  <2>1. DOMAIN d = Fields /\ q[i].decl = BoundTemplate(d, values)
    BY <1>1, <1>8
  <2> HIDE DEF d
  <2>2. DOMAIN q[i].decl = Fields /\ q[i].decl.calls = d.calls
    BY <2>1, BoundTemplateFacts
  <2> QED
    BY <2>2 DEF d
<1>5. IsTemplates(q) /\ Len(q) = Len(m) /\ Named(q) = {q[i].name : i \in 1 .. Len(m)}
  <2>1. \A i, j \in 1 .. Len(m) : q[i].name = q[j].name => m[i].name = m[j].name
    BY <1>8
  <2>2. \A i \in 1 .. Len(m) : DOMAIN q[i].decl = Fields
    BY <1>4
  <2> QED
    BY ONLY IsTemplates(m), <1>3, <2>1, <2>2, NewEntries
<1>6. Named(m) = {m[i].name : i \in 1 .. Len(m)}
  BY <1>1, NamesOf
<1>7. Named(q) = Named(m)
  <2>1. \A i \in 1 .. Len(m) : q[i].name = m[i].name
    BY <1>8
  <2>2. \A x : x \in {q[i].name : i \in 1 .. Len(m)} <=> x \in {m[i].name : i \in 1 .. Len(m)}
    BY <2>1
  <2> QED
    BY <2>2, <1>5, <1>6
<1> QED
  BY <1>8, <1>4, <1>5, <1>7

\* The names of a map are no more than its entries.
LEMMA NamesAreFew ==
  ASSUME NEW m, IsMap(m)
  PROVE  IsFiniteSet(Named(m)) /\ Cardinality(Named(m)) <= Len(m)
<1>1. Len(m) \in Nat /\ Named(m) = {m[i].name : i \in 1 .. Len(m)}
  BY SequenceFacts, NamesOf DEF IsMap
<1> DEFINE f == [i \in 1 .. Len(m) |-> m[i].name]
<1>2. f \in Surjection(1 .. Len(m), Named(m))
  BY <1>1 DEF Surjection
<1>3. IsFiniteSet(1 .. Len(m)) /\ Cardinality(1 .. Len(m)) = Len(m)
  <2>1. \A n \in Nat : IsFiniteSet(1 .. n) /\ Cardinality(1 .. n) = IF 1 > n THEN 0 ELSE n - 1 + 1
    BY ONLY FS_Interval
  <2>2. \A n \in Nat : (IF 1 > n THEN 0 ELSE n - 1 + 1) = n
    BY ONLY TRUE
  <2> QED
    BY <1>1, <2>1, <2>2
<1> QED
  BY <1>2, <1>3, FS_Surjection

\* Carried is a walk that adds what is called.
CarryWalk(m, roots, r) ==
  /\ Carried(m, roots) = r[Len(m)] /\ r[0] = roots
  /\ \A k \in 1 .. Len(m) : r[k] = r[k - 1] \union Called(m, r[k - 1])

LEMMA CarriedSteps ==
  ASSUME NEW m, Len(m) \in Nat, NEW roots
  PROVE  \E r : CarryWalk(m, roots, r)
<1> DEFINE Rec(g, h) == g = [k \in 0 .. h |-> IF k = 0 THEN roots
                               ELSE g[k - 1] \union Called(m, g[k - 1])]
           B == {h \in Nat : ~ \E g : Rec(g, h)}
<1>1. B = {}
  <2> SUFFICES ASSUME B # {} PROVE FALSE
    OBVIOUS
  <2>1. PICK h \in B : \A y \in B : h <= y
    BY NatHasLeast
  <2>2. h \in Nat /\ ~ \E g : Rec(g, h)
    BY <2>1
  <2>3. CASE h = 0
    <3>1. Rec([k \in 0 .. 0 |-> roots], 0)
      OBVIOUS
    <3> QED
      BY <3>1, <2>2, <2>3
  <2>4. CASE h # 0
    <3>1. h - 1 \in Nat /\ ~(h <= h - 1)
      BY <2>2, <2>4
    <3>2. h - 1 \notin B
      BY <3>1, <2>1
    <3>3. PICK g : Rec(g, h - 1)
      BY <3>1, <3>2
    <3> DEFINE last == g[h - 1] \union Called(m, g[h - 1])
               f == [k \in 0 .. h |-> IF k < h THEN g[k] ELSE last]
    <3>4. \A k \in 0 .. h : f[k] = IF k = 0 THEN roots ELSE f[k - 1] \union Called(m, f[k - 1])
      <4> TAKE k \in 0 .. h
      <4>1. g = [j \in 0 .. h - 1 |-> IF j = 0 THEN roots ELSE g[j - 1] \union Called(m, g[j - 1])]
        BY <3>3
      <4>2. \A j \in 0 .. h - 1 : f[j] = g[j]
        BY <3>1, <2>2
      <4>3. f[h] = last
        BY <3>1
      <4> HIDE DEF f, Rec
      <4>4. \A j \in 0 .. h - 1 : g[j] = IF j = 0 THEN roots ELSE g[j - 1] \union Called(m, g[j - 1])
        BY <4>1, Zenon
      <4>5. CASE k = h
        <5>1. h - 1 \in 0 .. h - 1 /\ f[h - 1] = g[h - 1]
          BY <3>1, <4>2
        <5> QED
          BY <2>2, <2>4, <4>3, <4>5, <5>1
      <4>6. CASE k # h
        <5>1. k \in 0 .. h - 1 /\ (k # 0 => k - 1 \in 0 .. h - 1)
          BY <2>2, <4>6
        <5>2. f[k] = g[k] /\ (k # 0 => f[k - 1] = g[k - 1])
          BY <4>2, <5>1
        <5>3. g[k] = IF k = 0 THEN roots ELSE g[k - 1] \union Called(m, g[k - 1])
          BY <4>4, <5>1
        <5> QED
          BY <5>2, <5>3
      <4> QED
        BY <4>5, <4>6
    <3>5. Rec(f, h)
      BY <3>4
    <3> QED
      BY <3>5, <2>2
  <2> QED
    BY <2>3, <2>4
<1>2. PICK g : Rec(g, Len(m))
  BY <1>1
<1> DEFINE reach == CHOOSE f : Rec(f, Len(m))
<1>3. Rec(reach, Len(m))
  BY <1>2, Zenon
<1>4. Carried(m, roots) = reach[Len(m)]
  BY DEF Carried
<1> HIDE DEF reach
<1>5. reach[0] = roots /\ \A k \in 1 .. Len(m) : reach[k] = reach[k - 1] \union Called(m, reach[k - 1])
  <2>1. \A k \in 0 .. Len(m) :
          reach[k] = IF k = 0 THEN roots ELSE reach[k - 1] \union Called(m, reach[k - 1])
    BY <1>3
  <2>2. 0 \in 0 .. Len(m) /\ \A k \in 1 .. Len(m) : k \in 0 .. Len(m) /\ k # 0
    OBVIOUS
  <2> QED
    BY <2>1, <2>2
<1> QED
  BY <1>4, <1>5 DEF CarryWalk

\* `only` is closed: as many rounds as there are templates reach all that the
\* named ones call, because each round that is not the last adds a template.
LEMMA CarriedCloses ==
  ASSUME NEW m, IsMap(m), NEW roots \in SUBSET Named(m)
  PROVE  /\ roots \subseteq Carried(m, roots) /\ Carried(m, roots) \subseteq Named(m)
         /\ Called(m, Carried(m, roots)) \subseteq Carried(m, roots)
<1>1. Len(m) \in Nat
  BY SequenceFacts DEF IsMap
<1>2. PICK r : CarryWalk(m, roots, r)
  BY <1>1, CarriedSteps
<1>3. IsFiniteSet(Named(m)) /\ Cardinality(Named(m)) <= Len(m)
  BY NamesAreFew
<1>4. \A R : Called(m, R) \subseteq Named(m)
  BY DEF Called
\* Either it is closed already after k rounds, or k templates are there.
<1> DEFINE Good(k) == /\ roots \subseteq r[k] /\ r[k] \subseteq Named(m)
                      /\ Called(m, r[k]) \subseteq r[k] \/ Cardinality(r[k]) >= k
           B == {k \in 0 .. Len(m) : ~Good(k)}
<1>5. B = {}
  <2> SUFFICES ASSUME B # {} PROVE FALSE
    OBVIOUS
  <2>1. B \subseteq Nat
    BY <1>1
  <2>2. PICK k \in B : \A y \in B : k <= y
    BY <2>1, NatHasLeast
  <2>3. k \in 0 .. Len(m) /\ ~Good(k)
    BY <2>2
  <2>4. CASE k = 0
    <3>1. roots \subseteq r[0] /\ r[0] \subseteq Named(m)
      BY <1>2 DEF CarryWalk
    <3>2. Cardinality(r[0]) >= 0
      BY <1>3, <3>1, FS_Subset, FS_CardinalityType
    <3> QED
      BY <2>3, <2>4, <3>1, <3>2
  <2>5. CASE k # 0
    <3>1. k \in 1 .. Len(m) /\ k - 1 \in 0 .. Len(m) /\ ~(k <= k - 1) /\ k \in Nat
      BY <1>1, <2>3, <2>5
    <3>2. Good(k - 1)
      BY <2>2, <3>1
    <3>3. r[k] = r[k - 1] \union Called(m, r[k - 1])
      BY <1>2, <3>1 DEF CarryWalk
    <3>4. roots \subseteq r[k] /\ r[k] \subseteq Named(m)
      BY <1>4, <3>2, <3>3
    <3>5. CASE Called(m, r[k - 1]) \subseteq r[k - 1]
      <4>1. r[k] = r[k - 1]
        BY <3>3, <3>5
      <4> QED
        BY <2>3, <3>4, <3>5, <4>1
    <3>6. CASE ~(Called(m, r[k - 1]) \subseteq r[k - 1])
      <4>1. r[k - 1] \subseteq r[k] /\ r[k - 1] # r[k] /\ Cardinality(r[k - 1]) >= k - 1
        BY <3>2, <3>3, <3>6
      <4>2. IsFiniteSet(r[k])
        BY <1>3, <3>4, FS_Subset
      <4>3. /\ Cardinality(r[k - 1]) <= Cardinality(r[k]) /\ Cardinality(r[k - 1]) # Cardinality(r[k])
            /\ IsFiniteSet(r[k - 1])
        BY <4>1, <4>2, FS_Subset
      <4>4. Cardinality(r[k]) \in Nat /\ Cardinality(r[k - 1]) \in Nat
        BY <4>2, <4>3, FS_CardinalityType
      <4>5. Cardinality(r[k]) >= k
        BY <3>1, <4>1, <4>3, <4>4
      <4> QED
        BY <2>3, <3>4, <4>5
    <3> QED
      BY <3>5, <3>6
  <2> QED
    BY <2>4, <2>5
<1>6. Good(Len(m))
  BY <1>1, <1>5
<1>7. CASE Cardinality(r[Len(m)]) >= Len(m)
  <2>1. IsFiniteSet(r[Len(m)]) /\ Cardinality(r[Len(m)]) <= Cardinality(Named(m))
    BY <1>3, <1>6, FS_Subset
  <2>2. Cardinality(r[Len(m)]) \in Nat /\ Cardinality(Named(m)) \in Nat
    BY <1>3, <2>1, FS_CardinalityType
  <2>3. Cardinality(r[Len(m)]) = Cardinality(Named(m))
    BY <1>1, <1>3, <1>7, <2>1, <2>2
  <2>4. r[Len(m)] = Named(m)
    BY <1>3, <1>6, <2>3, FS_Subset
  <2> QED
    BY <1>2, <1>4, <1>6, <2>4 DEF CarryWalk
<1> QED
  BY <1>2, <1>6, <1>7 DEF CarryWalk

\* Templates that can all be expanded where they are.
Closed(m) == IsTemplates(m) /\ Resolves(m)

LEMMA BoundCloses ==
  ASSUME NEW m, Closed(m), NEW values, NEW q, q = BoundMap(m, values)
  PROVE  Closed(q)
<1>1. /\ IsTemplates(q) /\ Named(q) = Named(m) /\ Len(q) = Len(m)
      /\ \A i \in 1 .. Len(m) : q[i].name = m[i].name /\ q[i].decl.calls = m[i].decl.calls
  BY BoundTemplates DEF Closed
<1>2. \A i \in 1 .. Len(m) : ToSet(m[i].decl.calls) \subseteq Named(m)
  BY DEF Closed, Resolves
<1>3. \A i \in 1 .. Len(q) : ToSet(q[i].decl.calls) \subseteq Named(q)
  BY <1>1, <1>2
<1> QED
  BY <1>1, <1>3 DEF Closed, Resolves

\* What is kept of the templates calls nothing that is not.
LEMMA KeptCloses ==
  ASSUME NEW m, Closed(m), NEW roots \in SUBSET Named(m)
  PROVE  Closed(Kept(m, Carried(m, roots)))
<1> DEFINE keep == Carried(m, roots)
           k == Kept(m, keep)
<1>0. IsMap(m) /\ IsTemplates(m) /\ Resolves(m) /\ m \in Seq(Range(m))
  BY TemplateFacts DEF Closed, IsMap
<1>1. keep \subseteq Named(m) /\ Called(m, keep) \subseteq keep
  BY <1>0, CarriedCloses
<1>2. /\ IsTemplates(k) /\ Named(k) = Named(m) \intersect keep
      /\ \A j \in 1 .. Len(k) : \E i \in 1 .. Len(m) : k[j] = m[i]
  BY <1>0, KeptTemplates
<1>3. Named(k) = {k[j].name : j \in 1 .. Len(k)}
  BY <1>2, TemplateFacts, NamesOf DEF IsMap
<1>4. Named(m) = {m[i].name : i \in 1 .. Len(m)}
  BY <1>0, NamesOf
<1> HIDE DEF k, keep
<1>5. ASSUME NEW j \in 1 .. Len(k) PROVE ToSet(k[j].decl.calls) \subseteq Named(k)
  <2>1. PICK i \in 1 .. Len(m) : k[j] = m[i]
    BY <1>2
  <2>2. m[i].name \in keep
    BY <1>2, <1>3, <2>1
  <2>3. Decl(m, m[i].name) = m[i].decl
    BY <1>0, DeclIs
  <2>4. ToSet(m[i].decl.calls) \subseteq UNION {ToSet(Decl(m, n).calls) : n \in keep}
    BY <2>2, <2>3
  <2>5. ToSet(m[i].decl.calls) \subseteq Named(m)
    BY <1>0 DEF Resolves
  <2>6. ToSet(m[i].decl.calls) \subseteq Called(m, keep)
    BY <2>4, <2>5 DEF Called
  <2> QED
    BY <1>1, <1>2, <2>1, <2>5, <2>6
<1>6. Closed(k)
  BY <1>2, <1>5 DEF Closed, Resolves
<1> QED
  BY <1>6 DEF k, keep

LEMMA FilteredCloses ==
  ASSUME NEW t, NEW u, NEW v, Closed(t), NEW s, s = [templates |-> t, sets |-> u, metas |-> v], NEW only
  PROVE  Closed(Filtered(s, only).templates)
<1>1. CASE only = None
  <2>1. Filtered(s, only) = s
    BY <1>1 DEF Filtered
  <2>2. s.templates = t
    OBVIOUS
  <2> QED
    BY <2>1, <2>2
<1>2. CASE only # None
  <2> DEFINE roots == only \intersect Named(t)
             kept == Kept(t, Carried(t, roots))
  <2>1. Closed(kept)
    BY KeptCloses
  <2>2. s.templates = t
    OBVIOUS
  <2>3. Filtered(s, only) = [s EXCEPT !.templates = kept]
    BY <1>2, <2>2 DEF Filtered
  <2> HIDE DEF kept
  <2>4. Filtered(s, only).templates = kept
    BY <2>3
  <2> QED
    BY <2>1, <2>4
<1> QED
  BY <1>1, <1>2

-----------------------------------------------------------------------------
(* Renaming *)

LEMMA RewriteCalls ==
  ASSUME NEW e, NEW m, NEW names, ToSet(names) \subseteq Named(m)
  PROVE  \A x \in ToSet(Rewrite(Changed(FinalNames(e, m)), names)) :
           \E n \in Named(m) : x = Final(e, n)
<1> DEFINE map == FinalNames(e, m)
           changed == Changed(map)
           q == Rewrite(changed, names)
<1>1. DOMAIN map = Named(m) /\ \A n \in Named(m) : map[n] = Final(e, n)
  BY DEF FinalNames
<1> HIDE DEF map
<1>2. /\ DOMAIN changed = {n \in DOMAIN map : map[n] # n}
      /\ \A n \in DOMAIN changed : changed[n] = map[n]
  BY DEF Changed, Restrict
<1> HIDE DEF changed
<1>3. /\ DOMAIN q = DOMAIN names
      /\ \A i \in DOMAIN names :
           q[i] = IF names[i] \in DOMAIN changed THEN changed[names[i]] ELSE names[i]
  BY DEF Rewrite
<1> HIDE DEF q
<1>4. \A i \in DOMAIN names : names[i] \in Named(m)
  BY DEF ToSet
<1>5. \A i \in DOMAIN names : q[i] = Final(e, names[i])
  BY <1>1, <1>2, <1>3, <1>4
<1>6. \A x \in ToSet(q) : \E n \in Named(m) : x = Final(e, n)
  BY <1>3, <1>4, <1>5 DEF ToSet
<1> QED
  BY <1>6 DEF q, changed, map

LEMMA RenamedTemplateFacts ==
  ASSUME NEW d, DOMAIN d = Fields, NEW var, NEW set, NEW tpl
  PROVE  /\ DOMAIN RenamedTemplate(d, var, set, tpl) = Fields
         /\ RenamedTemplate(d, var, set, tpl).calls = Rewrite(tpl, d.calls)
<1>1. "calls" \in Fields /\ "vars" \in Fields /\ "axes" \in Fields /\ "from" \in Fields
  BY DEF Fields
<1>2. ASSUME NEW w, NEW x, NEW y, NEW z
      PROVE  /\ DOMAIN [d EXCEPT !.vars = w, !.axes = x, !.from = y, !.calls = z] = Fields
             /\ [d EXCEPT !.vars = w, !.axes = x, !.from = y, !.calls = z].calls = z
  BY <1>1
<1>3. RenamedTemplate(d, var, set, tpl) =
        [d EXCEPT !.vars = Rewrite(Without(var, d.params), d.vars),
                  !.axes = Rewrite(Without(set, d.params), d.axes),
                  !.from = Rewrite(Without(set, d.params), d.from),
                  !.calls = Rewrite(tpl, d.calls)]
  BY <1>1 DEF RenamedTemplate
<1> QED
  BY <1>2, <1>3

\* A renamed template calls the renamed ones.
RenamedMap(e, m, var, set) ==
  Rekeyed(m, LAMBDA n : Final(e, n),
          LAMBDA d : RenamedTemplate(d, var, set, Changed(FinalNames(e, m))))

LEMMA RenamedCloses ==
  ASSUME NEW e, NEW m, Closed(m), IsInjective(FinalNames(e, m)), NEW var, NEW set,
         NEW q, q = RenamedMap(e, m, var, set)
  PROVE  Closed(q)
<1> DEFINE tpl == Changed(FinalNames(e, m))
<1>1. /\ m \in Seq(Range(m)) /\ DOMAIN m = 1 .. Len(m) /\ IsTemplates(m)
      /\ \A i \in 1 .. Len(m) : DOMAIN m[i].decl = Fields
      /\ Named(m) = {m[i].name : i \in 1 .. Len(m)}
      /\ \A i \in 1 .. Len(m) : ToSet(m[i].decl.calls) \subseteq Named(m)
  BY TemplateFacts, SequenceFacts, NamesOf DEF IsMap, Closed, Resolves
<1>2. q = [i \in DOMAIN m |-> [name |-> Final(e, m[i].name),
                               decl |-> RenamedTemplate(m[i].decl, var, set, tpl)]]
  BY DEF RenamedMap, Rekeyed
<1>3. q \in [DOMAIN m -> Range(q)]
  BY <1>2 DEF Range
<1>4. ASSUME NEW i \in 1 .. Len(m)
      PROVE  q[i].name = Final(e, m[i].name) /\ q[i].decl = RenamedTemplate(m[i].decl, var, set, tpl)
  <2>1. q[i] = [name |-> Final(e, m[i].name), decl |-> RenamedTemplate(m[i].decl, var, set, tpl)]
    BY <1>1, <1>2
  <2> QED
    BY <2>1
<1>5. ASSUME NEW i \in 1 .. Len(m)
      PROVE  /\ DOMAIN q[i].decl = Fields /\ q[i].decl.calls = Rewrite(tpl, m[i].decl.calls)
             /\ \A x \in ToSet(q[i].decl.calls) : \E n \in Named(m) : x = Final(e, n)
  <2> DEFINE d == m[i].decl
  <2>1. DOMAIN d = Fields /\ q[i].decl = RenamedTemplate(d, var, set, tpl) /\ ToSet(d.calls) \subseteq Named(m)
    BY <1>1, <1>4
  <2> HIDE DEF d, tpl
  <2>2. DOMAIN q[i].decl = Fields /\ q[i].decl.calls = Rewrite(tpl, d.calls)
    BY <2>1, RenamedTemplateFacts
  <2>3. \A x \in ToSet(Rewrite(tpl, d.calls)) : \E n \in Named(m) : x = Final(e, n)
    BY <2>1, RewriteCalls DEF tpl
  <2> QED
    BY <2>2, <2>3 DEF d
<1>6. \A i, j \in 1 .. Len(m) : q[i].name = q[j].name => m[i].name = m[j].name
  <2>1. \A a, b \in Named(m) : Final(e, a) = Final(e, b) => a = b
    <3> DEFINE map == FinalNames(e, m)
    <3>1. DOMAIN map = Named(m) /\ \A n \in Named(m) : map[n] = Final(e, n)
      BY DEF FinalNames
    <3>2. \A a, b \in DOMAIN map : map[a] = map[b] => a = b
      BY DEF IsInjective
    <3> HIDE DEF map
    <3> QED
      BY <3>1, <3>2
  <2>2. \A i \in 1 .. Len(m) : m[i].name \in Named(m)
    BY <1>1
  <2> QED
    BY <1>4, <2>1, <2>2
<1>7. IsTemplates(q) /\ Len(q) = Len(m) /\ Named(q) = {q[i].name : i \in 1 .. Len(m)}
  <2>1. \A i \in 1 .. Len(m) : DOMAIN q[i].decl = Fields
    BY <1>5
  <2> QED
    BY ONLY <1>1, <1>3, <1>6, <2>1, NewEntries
<1>8. \A n \in Named(m) : Final(e, n) \in Named(q)
  <2> SUFFICES ASSUME NEW i \in 1 .. Len(m) PROVE Final(e, m[i].name) \in Named(q)
    BY <1>1
  <2> QED
    BY <1>4, <1>7
<1>9. ASSUME NEW i \in 1 .. Len(q) PROVE ToSet(q[i].decl.calls) \subseteq Named(q)
  <2>1. \A x \in ToSet(q[i].decl.calls) : \E n \in Named(m) : x = Final(e, n)
    BY <1>5, <1>7
  <2> QED
    BY <1>8, <2>1
<1> QED
  BY <1>7, <1>9 DEF Closed, Resolves

-----------------------------------------------------------------------------
(* What a check that passed says *)

LEMMA NoFault ==
  ASSUME NEW n \in Nat, NEW checks, DOMAIN checks = 1 .. n,
         \A i \in 1 .. n : checks[i][2] # None, FirstFault(checks) = None
  PROVE  \A i \in 1 .. n : ~checks[i][1]
<1> DEFINE failed == {i \in DOMAIN checks : checks[i][1]}
<1>1. failed \in SUBSET (1 .. n)
  OBVIOUS
<1>2. FirstFault(checks) = IF failed = {} THEN None ELSE checks[Min(failed)][2]
  BY DEF FirstFault
<1>3. failed = {} => \A i \in 1 .. n : ~checks[i][1]
  OBVIOUS
<1> HIDE DEF failed
<1>4. failed # {} => Min(failed) \in 1 .. n
  BY <1>1, LeastIsMember
<1> QED
  BY <1>2, <1>3, <1>4

LEMMA OrIsNone == \A x, y : Or(x, y) = None => x = None /\ y = None
BY DEF Or

\* A load goes on only where no two templates of a scope get one name.
LEMMA RenamesApart ==
  ASSUME NEW e, NEW s, RenameFault(e, s) = None
  PROVE  IsInjective(FinalNames(e, s.templates))
<1> DEFINE a == ~(DOMAIN e.rename \subseteq Exported(s))
           b == \E m \in {s.templates, s.sets, s.metas} : ~IsInjective(FinalNames(e, m))
           c == DOMAIN e.rebind \intersect Exported(s) # {}
           d == DOMAIN e.rebind \intersect LoopSymbols(s.templates) # {}
           f == ~(DOMAIN e.rebind \subseteq Free(s))
           g == Captures(e, s)
           checks == << <<a, "rename_unknown_name">>, <<b, "rename_collision">>,
                        <<c, "rebind_unknown_name">>, <<d, "rename_invalid">>,
                        <<f, "rebind_unknown_name">>, <<g, "rename_collision">> >>
<1>1. FirstFault(checks) = None
  BY DEF RenameFault
<1>2. ~b => IsInjective(FinalNames(e, s.templates))
  OBVIOUS
<1> HIDE DEF a, b, c, d, f, g
<1>3. /\ "rename_unknown_name" # None /\ "rename_collision" # None /\ "rebind_unknown_name" # None
      /\ "rename_invalid" # None
  BY ImportAssumption DEF ImportAssumption, Faults
<1>5. DOMAIN checks = 1 .. 6 /\ \A i \in 1 .. 6 : checks[i][2] # None
  BY <1>3
<1>4. 2 \in 1 .. 6 /\ checks[2][1] = b
  OBVIOUS
<1> HIDE DEF checks
<1>6. ~checks[2][1]
  BY <1>1, <1>4, <1>5, NoFault
<1> QED
  BY <1>2, <1>4, <1>6

\* A library is handed on only where its templates call templates it has.
LEMMA BodiesResolve ==
  ASSUME NEW m, IsTemplates(m), BodyFault(m) = None
  PROVE  Resolves(m)
<1> DEFINE Heads == CHOOSE H : H = [k \in 1 .. Len(m) + MaxDepth + 1 |->
                      IF k = 1 THEN Named(m)
                      ELSE {n \in Named(m) : ToSet(Decl(m, n).calls) \intersect H[k - 1] # {}}]
           calls == UNION {ToSet(t.decl.calls) : t \in ToSet(m)}
           a == \E n \in calls : n \in Named(m) => Decl(m, n).rule
           b == Heads[Len(m) + 1] # {}
           c == Heads[MaxDepth + 1] # {}
           checks == << <<a, "unknown_template">>, <<b, "recursive_body">>, <<c, "expansion_too_deep">> >>
<1>1. FirstFault(checks) = None
  BY DEF BodyFault
<1>2. ~a => calls \subseteq Named(m)
  OBVIOUS
<1> HIDE DEF a, b, c
<1>3. "unknown_template" # None /\ "recursive_body" # None /\ "expansion_too_deep" # None
  BY ImportAssumption DEF ImportAssumption, Faults
<1>4. DOMAIN checks = 1 .. 3 /\ \A i \in 1 .. 3 : checks[i][2] # None
  BY <1>3
<1>5. 1 \in 1 .. 3 /\ checks[1][1] = a
  OBVIOUS
<1> HIDE DEF checks
<1>6. ~checks[1][1]
  BY <1>1, <1>4, <1>5, NoFault
<1>7. calls \subseteq Named(m)
  BY <1>2, <1>5, <1>6
<1>8. ASSUME NEW i \in 1 .. Len(m) PROVE ToSet(m[i].decl.calls) \subseteq Named(m)
  <2>1. m[i] \in ToSet(m)
    BY TemplateFacts, SequenceFacts DEF IsMap, ToSet
  <2> QED
    BY <1>7, <2>1
<1> QED
  BY <1>8 DEF Resolves

-----------------------------------------------------------------------------
(* The invariant of the templates *)

\* A component's own templates may call what the component does not have; what
\* it imports may not.
BlockCloses(p, u, m) ==
  /\ IsTemplates(m)
  /\ \A i \in 1 .. Len(m) :
       m[i].name \notin Named(p.units[u].templates) => ToSet(m[i].decl.calls) \subseteq Named(m)

TemplateInv ==
  /\ frames \in Seq(Range(frames))
  /\ \A i \in 1 .. Len(frames) : Closed(frames[i].scope.templates)
  /\ phase = "imports" /\ returned # None => Closed(returned.templates)
  /\ \A u \in 1 .. Len(blocks) : BlockCloses(project, u, blocks[u])

LEMMA NothingCloses == Closed(<< >>)
<1> DEFINE m == << >>
<1>1. m \in Seq(Range(m)) /\ Len(m) = 0
  OBVIOUS
<1> HIDE DEF m
<1>2. IsMap(m)
  <2>1. \A i, j \in 1 .. Len(m) : m[i].name = m[j].name => i = j
    BY <1>1
  <2> QED
    BY <1>1, <2>1, MapFacts
<1>3. IsTemplates(m) /\ Resolves(m)
  BY <1>1, <1>2, TemplateFacts DEF Resolves
<1> QED
  BY <1>3 DEF Closed, m

LEMMA MergedCloses ==
  ASSUME NEW dst, Closed(dst), NEW src, Closed(src)
  PROVE  Closed(Merged(dst, src))
<1>1. IsTemplates(dst) /\ Resolves(dst) /\ IsTemplates(src) /\ Resolves(src)
  BY DEF Closed
<1>2. IsTemplates(Merged(dst, src))
  BY <1>1, MergedIs
<1>3. Resolves(Merged(dst, src))
  BY <1>1, MergedResolves
<1> QED
  BY <1>2, <1>3 DEF Closed

\* What an edge hands to its importer.
LEMMA EdgeCloses ==
  ASSUME NEW e, NEW s, Closed(s.templates),
         RenameFault(e, Filtered(Instantiated(s, e.bind), e.only)) = None
  PROVE  Closed(Renamed(e, Filtered(Instantiated(s, e.bind), e.only)).templates)
<1> DEFINE bound == Instantiated(s, e.bind)
           kept == Filtered(bound, e.only)
           m == kept.templates
           var == VarMap(e, kept)
           set == Changed(FinalNames(e, kept.sets))
<1>1. PICK t, u, v : t = BoundMap(s.templates, e.bind) /\ bound = [templates |-> t, sets |-> u, metas |-> v]
  BY DEF Instantiated, BoundMap
<1>2. Closed(t)
  BY <1>1, BoundCloses
<1> HIDE DEF bound
<1>3. Closed(m)
  BY <1>1, <1>2, FilteredCloses
<1>4. IsInjective(FinalNames(e, m))
  BY RenamesApart DEF bound
<1>5. Renamed(e, kept).templates = RenamedMap(e, m, var, set)
  BY DEF Renamed, RenamedMap
<1> HIDE DEF var, set, kept
<1>6. Closed(RenamedMap(e, m, var, set))
  BY <1>3, <1>4, RenamedCloses
<1> QED
  BY <1>5, <1>6 DEF kept, bound

LEMMA TemplatesOf ==
  ASSUME NEW p \in Projects
  PROVE  /\ \A u \in DOMAIN p.units : IsTemplates(p.units[u].templates)
         /\ \A f \in DOMAIN p.files : IsTemplates(p.files[f].templates)
BY ImportAssumption DEF ImportAssumption

LEMMA FrameStarts ==
  ASSUME NEW f, NEW todo
  PROVE  Closed(Frame(f, todo).scope.templates)
<1>1. Frame(f, todo).scope.templates = << >>
  BY DEF Frame, EmptyScope
<1> QED
  BY <1>1, NothingCloses

LEMMA TemplatesStart == Init => TemplateInv
<1> SUFFICES ASSUME Init PROVE TemplateInv
  OBVIOUS
<1>1. /\ frames = <<Frame(Root, project.units[1].imports)>> /\ returned = None /\ blocks = << >>
  BY DEF Init, UnitFrame
<1>2. Len(frames) = 1 /\ frames[1] = Frame(Root, project.units[1].imports) /\ Len(blocks) = 0
  BY <1>1
<1>3. \A i \in 1 .. Len(frames) : Closed(frames[i].scope.templates)
  BY <1>2, FrameStarts
<1>4. frames \in Seq(Range(frames))
  <2>1. frames \in Seq({Frame(Root, project.units[1].imports)})
    BY <1>1
  <2> QED
    BY <2>1, SequenceOfItsOwn
<1> QED
  BY <1>1, <1>2, <1>3, <1>4 DEF TemplateInv

LEMMA TemplateRefuse ==
  ASSUME TemplateInv, NEW code, Refuse(code)
  PROVE  TemplateInv'
BY DEF TemplateInv, Refuse

LEMMA EnterLibraryCloses == ASSUME ImportInv, TemplateInv, EnterLibrary PROVE TemplateInv'
<1>1. phase = "imports"
  BY DEF EnterLibrary, Importing
<1>2. CASE /\ frames' = Append(frames, Frame(Edge.ref, project.files[Edge.ref].imports))
           /\ UNCHANGED <<project, returned, blocks, phase>>
  <2> DEFINE f == Frame(Edge.ref, project.files[Edge.ref].imports)
  <2>1. frames \in Seq(Range(frames)) /\ Len(frames) \in Nat
    BY <1>1, UnitSetting
  <2>2. /\ frames' \in Seq(Range(frames) \union {f})
        /\ Len(frames') = Len(frames) + 1 /\ frames'[Len(frames) + 1] = f
        /\ \A i \in 1 .. Len(frames) : frames'[i] = frames[i]
    BY <1>2, <2>1, OneMore
  <2>3. Closed(f.scope.templates)
    BY FrameStarts
  <2> HIDE DEF f
  <2>4. \A i \in 1 .. Len(frames') : i \in 1 .. Len(frames) \/ i = Len(frames) + 1
    BY <2>1, <2>2
  <2>5. \A i \in 1 .. Len(frames') : Closed(frames'[i].scope.templates)
    BY <2>2, <2>3, <2>4 DEF TemplateInv
  <2>6. frames' \in Seq(Range(frames'))
    BY <2>2, SequenceOfItsOwn
  <2> QED
    BY <1>2, <2>5, <2>6 DEF TemplateInv
<1> QED
  BY <1>2, TemplateRefuse DEF EnterLibrary

LEMMA FinishLibraryCloses == ASSUME ImportInv, TemplateInv, FinishLibrary PROVE TemplateInv'
<1> DEFINE own == project.files[Top.file]
           scope == MergedScope(Top.scope, own)
           merging == MergeFault(Top.scope, own)
           body == BodyFault(scope.templates)
           loops == LoopFault(Named(scope.metas), scope.templates)
<1>1. phase = "imports" /\ Len(frames) > 1
  BY DEF FinishLibrary, Importing
<1>2. \/ /\ Or(merging, Or(body, loops)) = None
         /\ returned' = scope /\ frames' = Front(frames)
         /\ UNCHANGED <<project, blocks, phase>>
      \/ Refuse(Or(merging, Or(body, loops)))
  BY DEF FinishLibrary
<1>3. /\ frames \in Seq(Range(frames)) /\ Len(frames) \in Nat /\ Len(frames) \in 1 .. Len(frames)
      /\ Top.file \in DOMAIN project.files /\ project \in Projects
  <2>1. /\ Setting(project.files, RootTargets(project), Unit.imports)
        /\ Stack(project.files, RootTargets(project), Unit.imports, frames)
        /\ frames \in Seq(Range(frames)) /\ Len(frames) \in Nat /\ Len(frames) > 0
    BY <1>1, UnitSetting
  <2>2. Len(frames) \in 1 .. Len(frames)
    BY <2>1
  <2>3. frames[Len(frames)].file \in DOMAIN project.files
    BY <1>1, <2>1, <2>2, StackTypes
  <2> QED
    BY <2>1, <2>2, <2>3 DEF Top, Last, ImportInv
<1>4. scope.templates = Merged(Top.scope.templates, own.templates)
  BY DEF MergedScope
<1>5. Closed(Top.scope.templates) /\ IsTemplates(own.templates)
  BY <1>3, TemplatesOf DEF TemplateInv, Top, Last
<1>6. IsTemplates(scope.templates)
  BY <1>4, <1>5, MergedIs DEF Closed
<1> HIDE DEF scope, merging, loops
<1>7. CASE /\ Or(merging, Or(body, loops)) = None
           /\ returned' = scope /\ frames' = Front(frames)
           /\ UNCHANGED <<project, blocks, phase>>
  <2>1. body = None
    BY <1>7, OrIsNone
  <2>2. Closed(scope.templates)
    BY <1>6, <2>1, BodiesResolve DEF Closed
  <2>3. /\ frames' \in Seq(Range(frames))
        /\ Len(frames') = Len(frames) - 1 /\ \A i \in 1 .. Len(frames) - 1 : frames'[i] = frames[i]
    BY <1>1, <1>3, <1>7, OneLess
  <2>4. \A i \in 1 .. Len(frames') : Closed(frames'[i].scope.templates)
    BY <1>3, <2>3 DEF TemplateInv
  <2>5. frames' \in Seq(Range(frames'))
    BY <2>3, SequenceOfItsOwn
  <2> QED
    BY <1>7, <2>2, <2>4, <2>5 DEF TemplateInv
<1> HIDE DEF body
<1> QED
  BY <1>2, <1>7, TemplateRefuse

LEMMA ImportCloses == ASSUME ImportInv, TemplateInv, Import PROVE TemplateInv'
<1> DEFINE bound == Instantiated(returned, Edge.bind)
           kept == Filtered(bound, Edge.only)
           scope == Renamed(Edge, kept)
           unknown == \/ ~(DOMAIN Edge.bind \subseteq Named(returned.metas))
                      \/ Edge.only # None /\ ~(Edge.only \subseteq Named(returned.templates))
           first == FirstFault(<< <<unknown, "unknown_name">> >>)
           renaming == RenameFault(Edge, kept)
           merging == MergeFault(Top.scope, scope)
           wrong == Or(first, Or(renaming, merging))
<1>1. phase = "imports" /\ returned # None
  BY DEF Import
<1>2. \/ /\ wrong = None
         /\ frames' = [frames EXCEPT ![Len(frames)].todo = Tail(@),
                                     ![Len(frames)].scope = MergedScope(@, scope)]
         /\ returned' = None
         /\ UNCHANGED <<project, blocks, phase>>
      \/ Refuse(wrong)
  BY DEF Import
<1> HIDE DEF first, merging
<1>3. wrong = None => renaming = None
  BY OrIsNone
<1> HIDE DEF wrong
<1>4. CASE /\ wrong = None
           /\ frames' = [frames EXCEPT ![Len(frames)].todo = Tail(@),
                                       ![Len(frames)].scope = MergedScope(@, scope)]
           /\ returned' = None
           /\ UNCHANGED <<project, blocks, phase>>
  <2> DEFINE n == Len(frames)
  <2>1. Closed(returned.templates)
    BY <1>1 DEF TemplateInv
  <2>2. Closed(scope.templates)
    BY <1>3, <1>4, <2>1, EdgeCloses
  <2> HIDE DEF scope
  <2>3. /\ n \in Nat /\ n \in 1 .. n /\ DOMAIN frames = 1 .. n
        /\ frames[n] = [file |-> frames[n].file, todo |-> frames[n].todo, scope |-> frames[n].scope]
    <3>1. /\ Setting(project.files, RootTargets(project), Unit.imports)
          /\ Stack(project.files, RootTargets(project), Unit.imports, frames)
          /\ n \in Nat /\ n > 0
      BY <1>1, UnitSetting
    <3>2. n \in 1 .. n /\ DOMAIN frames = 1 .. n
      BY <3>1, StackTypes
    <3> QED
      BY <3>1, <3>2 DEF Stack, FrameAt
  <2>4. Closed(frames[n].scope.templates)
    BY <2>3 DEF TemplateInv
  <2> DEFINE merged == MergedScope(frames[n].scope, scope)
  <2>5. merged.templates = Merged(frames[n].scope.templates, scope.templates)
    BY DEF MergedScope
  <2>6. Closed(merged.templates)
    BY <2>2, <2>4, <2>5, MergedCloses
  <2>7. frames' = [frames EXCEPT ![n] = [[frames[n] EXCEPT !.todo = Tail(frames[n].todo)]
                                           EXCEPT !.scope = merged]]
    BY <1>4, <2>3
  <2> HIDE DEF merged
  <2>8. /\ DOMAIN frames' = 1 .. n /\ \A i \in 1 .. n : i # n => frames'[i] = frames[i]
        /\ frames'[n] = [[frames[n] EXCEPT !.todo = Tail(frames[n].todo)] EXCEPT !.scope = merged]
    BY <2>3, <2>7
  <2>9. frames'[n].scope = merged
    BY <2>3, <2>8
  <2>10. Len(frames') = n /\ frames' \in Seq(Range(frames'))
    <3>1. frames' = [i \in 1 .. n |-> frames'[i]]
      BY <2>3, <2>7
    <3>2. \A i \in 1 .. n : frames'[i] \in Range(frames')
      BY <2>8 DEF Range
    <3>3. frames' \in [1 .. n -> Range(frames')]
      BY <3>1, <3>2
    <3> HIDE DEF n
    <3> QED
      BY <2>3, <3>1, <3>3
  <2>11. \A i \in 1 .. Len(frames') : Closed(frames'[i].scope.templates)
    BY <2>6, <2>8, <2>9, <2>10 DEF TemplateInv
  <2> QED
    BY <1>4, <2>10, <2>11 DEF TemplateInv
<1> QED
  BY <1>2, <1>4, TemplateRefuse

LEMMA FinishUnitCloses == ASSUME ImportInv, TemplateInv, FinishUnit PROVE TemplateInv'
<1> DEFINE arrived == Top.scope
           own == [templates |-> Unit.templates, sets |-> << >>, metas |-> << >>]
           document == [templates |-> << >>, sets |-> registry.sets, metas |-> registry.metas]
           wrong == Or(MergeFault(arrived, own),
                       MergeFault(document, [arrived EXCEPT !.templates = << >>]))
           last == Len(blocks) + 1 = Len(project.units)
           block == Merged(arrived.templates, Unit.templates)
           n == Len(blocks)
<1>1. phase = "imports" /\ returned = None /\ Len(frames) = 1
  BY DEF FinishUnit, Importing
<1>2. \/ /\ blocks' = Append(blocks, block)
         /\ frames' = IF last THEN << >> ELSE UnitFrame(project, Len(blocks) + 2)
         /\ UNCHANGED <<project, returned>>
      \/ Refuse(wrong)
  BY DEF FinishUnit
<1> HIDE DEF wrong
<1>3. CASE /\ blocks' = Append(blocks, block)
           /\ frames' = IF last THEN << >> ELSE UnitFrame(project, Len(blocks) + 2)
           /\ UNCHANGED <<project, returned>>
  <2>1. /\ n \in Nat /\ n + 1 \in 1 .. Len(project.units) /\ blocks \in Seq(Range(blocks))
        /\ project \in Projects
    BY <1>1, UnitSetting DEF ImportInv
  <2>2. IsTemplates(Unit.templates) /\ Unit = project.units[n + 1]
    BY <2>1, ProjectFacts, TemplatesOf DEF Unit
  <2>3. Closed(arrived.templates)
    BY <1>1 DEF TemplateInv, Top, Last
  <2>4. /\ IsTemplates(block) /\ Named(block) = Named(arrived.templates) \union Named(Unit.templates)
        /\ \A i \in 1 .. Len(arrived.templates) : block[i] = arrived.templates[i]
        /\ \A i \in 1 .. Len(block) :
             i \in 1 .. Len(arrived.templates) \/ \E j \in 1 .. Len(Unit.templates) : block[i] = Unit.templates[j]
    BY <2>2, <2>3, MergedIs DEF Closed
  <2> HIDE DEF block
  <2>5. Named(Unit.templates) = {Unit.templates[j].name : j \in 1 .. Len(Unit.templates)}
    BY <2>2, TemplateFacts, NamesOf DEF IsMap
  <2>6. BlockCloses(project, n + 1, block)
    <3> SUFFICES ASSUME NEW i \in 1 .. Len(block), block[i].name \notin Named(Unit.templates)
                 PROVE  ToSet(block[i].decl.calls) \subseteq Named(block)
      BY <2>2, <2>4 DEF BlockCloses
    <3>1. i \in 1 .. Len(arrived.templates)
      BY <2>4, <2>5
    <3> QED
      BY <2>3, <2>4, <3>1 DEF Closed, Resolves
  <2>7. /\ Len(blocks') = n + 1 /\ blocks'[n + 1] = block
        /\ \A u \in 1 .. n : blocks'[u] = blocks[u]
    BY <1>3, <2>1, OneMore
  <2>8. \A u \in 1 .. Len(blocks') : BlockCloses(project, u, blocks'[u])
    <3> TAKE u \in 1 .. Len(blocks')
    <3>1. u \in 1 .. n \/ u = n + 1
      BY <2>1, <2>7
    <3> QED
      BY <2>6, <2>7, <3>1 DEF TemplateInv
  <2>9. frames' \in Seq(Range(frames')) /\ \A i \in 1 .. Len(frames') : Closed(frames'[i].scope.templates)
    <3>1. CASE last
      <4>1. Len(frames') = 0 /\ frames' \in Seq({})
        BY <1>3, <3>1
      <4> QED
        BY <4>1, SequenceOfItsOwn
    <3>2. CASE ~last
      <4> DEFINE f == Frame(Root, project.units[Len(blocks) + 2].imports)
      <4>1. frames' = <<f>>
        BY <1>3, <3>2 DEF UnitFrame
      <4>2. Closed(f.scope.templates)
        BY FrameStarts
      <4> HIDE DEF f
      <4>3. Len(frames') = 1 /\ frames'[1] = f /\ frames' \in Seq({f})
        BY <4>1
      <4> QED
        BY <4>2, <4>3, SequenceOfItsOwn
    <3> QED
      BY <3>1, <3>2
  <2> QED
    BY <1>1, <1>3, <2>8, <2>9 DEF TemplateInv
<1> QED
  BY <1>2, <1>3, TemplateRefuse

\* Values that go into a block change no name and no call of it.
LEMMA BoundBlock ==
  ASSUME NEW p, NEW u, NEW m, BlockCloses(p, u, m), NEW values, NEW q, q = BoundMap(m, values)
  PROVE  BlockCloses(p, u, q)
<1>1. /\ IsTemplates(q) /\ Named(q) = Named(m) /\ Len(q) = Len(m)
      /\ \A i \in 1 .. Len(m) : q[i].name = m[i].name /\ q[i].decl.calls = m[i].decl.calls
  BY BoundTemplates DEF BlockCloses
<1> QED
  BY <1>1 DEF BlockCloses

\* A component's own templates owe nothing to an edge.
LEMMA OwnBlock ==
  ASSUME NEW p, NEW u, IsTemplates(p.units[u].templates)
  PROVE  BlockCloses(p, u, p.units[u].templates)
<1> DEFINE own == p.units[u].templates
<1>1. own \in Seq(Range(own))
  BY DEF IsTemplates, IsMap
<1>2. \A i \in 1 .. Len(own) : own[i].name \in Named(own)
  BY <1>1, NamesOf
<1> QED
  BY <1>2 DEF BlockCloses

LEMMA CloseCloses == ASSUME ImportInv, TemplateInv, Close PROVE TemplateInv'
<1> DEFINE values == Closing(project, registry.metas)
           put(u) == IF project.library THEN project.units[u].templates
                     ELSE BoundMap(blocks[u], values)
<1>1. \/ /\ blocks' = [u \in DOMAIN blocks |-> put(u)]
         /\ phase' = "done" /\ UNCHANGED <<project, frames>>
      \/ \E code : Refuse(code)
  BY DEF Close, BoundMap
<1> HIDE DEF values
<1>2. CASE /\ blocks' = [u \in DOMAIN blocks |-> put(u)]
           /\ phase' = "done" /\ UNCHANGED <<project, frames>>
  <2>1. Len(blocks) \in Nat /\ DOMAIN blocks = 1 .. Len(blocks)
    BY LenProperties DEF ImportInv
  <2> HIDE DEF put
  <2>2. blocks' = [u \in 1 .. Len(blocks) |-> put(u)]
    BY <1>2, <2>1
  <2>3. Len(blocks') = Len(blocks)
    BY <2>1, <2>2
  <2>4. ASSUME NEW u \in 1 .. Len(blocks) PROVE BlockCloses(project, u, blocks'[u])
    <3>1. BlockCloses(project, u, blocks[u]) /\ blocks'[u] = put(u)
      BY <2>2 DEF TemplateInv
    <3>2. CASE project.library
      <4>1. project \in Projects /\ u \in DOMAIN project.units
        BY <2>1, ProjectFacts DEF ImportInv
      <4>2. BlockCloses(project, u, project.units[u].templates)
        BY <4>1, TemplatesOf, OwnBlock
      <4> QED
        BY <3>1, <3>2, <4>2 DEF put
    <3>3. CASE ~project.library
      <4>1. blocks'[u] = BoundMap(blocks[u], values)
        BY <3>1, <3>3 DEF put
      <4> QED
        BY <3>1, <4>1, BoundBlock
    <3> QED
      BY <3>2, <3>3
  <2> QED
    BY <1>2, <2>3, <2>4 DEF TemplateInv
<1> QED
  BY <1>1, <1>2, TemplateRefuse

LEMMA TemplatesStep == ImportInv /\ TemplateInv /\ [Next]_vars => TemplateInv'
<1> SUFFICES ASSUME ImportInv, TemplateInv, [Next]_vars PROVE TemplateInv'
  OBVIOUS
<1>1. CASE UNCHANGED vars
  BY <1>1 DEF TemplateInv, vars
<1> QED
  BY <1>1, EnterLibraryCloses, FinishLibraryCloses, ImportCloses, FinishUnitCloses, CloseCloses
     DEF Next, Ended

THEOREM TemplateInvariant == Spec => []TemplateInv
<1> QED
  BY TemplatesStart, TemplatesStep, ImportInvariant, PTL DEF Spec

\* For any documents and libraries, of any length and depth: a template that
\* an edge lets through finds the templates it calls, under the names it calls
\* them by (the `only` closure, the template map of apply_scope_substitution).
THEOREM CallsAlwaysResolve == Spec => []CallsResolve
<1>1. ImportInv /\ TemplateInv => CallsResolve
  <2> SUFFICES ASSUME ImportInv, TemplateInv PROVE CallsResolve
    OBVIOUS
  <2>1. ASSUME NEW m, IsTemplates(m), NEW n \in Named(m)
        PROVE  \E i \in 1 .. Len(m) : n = m[i].name /\ Decl(m, n) = m[i].decl
    <3>1. IsMap(m) /\ Named(m) = {m[i].name : i \in 1 .. Len(m)}
      BY <2>1, TemplateFacts, NamesOf DEF IsMap
    <3> QED
      BY <3>1, DeclIs
  <2>2. DOMAIN frames = 1 .. Len(frames) /\ DOMAIN blocks = 1 .. Len(blocks)
    BY LenProperties DEF ImportInv, TemplateInv
  <2>3. ASSUME NEW i \in DOMAIN frames, NEW n \in Named(frames[i].scope.templates)
        PROVE  ToSet(Decl(frames[i].scope.templates, n).calls) \subseteq Named(frames[i].scope.templates)
    <3> DEFINE m == frames[i].scope.templates
    <3>1. IsTemplates(m) /\ Resolves(m) /\ n \in Named(m)
      BY <2>2, <2>3 DEF TemplateInv, Closed
    <3> HIDE DEF m
    <3>2. ToSet(Decl(m, n).calls) \subseteq Named(m)
      BY <2>1, <3>1 DEF Resolves
    <3> QED
      BY <3>2 DEF m
  <2>4. ASSUME NEW u \in DOMAIN blocks, NEW n \in Named(blocks[u]) \ Named(project.units[u].templates)
        PROVE  ToSet(Decl(blocks[u], n).calls) \subseteq Named(blocks[u])
    <3> DEFINE m == blocks[u]
    <3>1. BlockCloses(project, u, m) /\ n \in Named(m)
      BY <2>2, <2>4 DEF TemplateInv
    <3> HIDE DEF m
    <3>2. ToSet(Decl(m, n).calls) \subseteq Named(m)
      BY <2>1, <2>4, <3>1 DEF BlockCloses
    <3> QED
      BY <3>2 DEF m
  <2> QED
    BY <2>3, <2>4 DEF CallsResolve
<1> QED
  BY <1>1, ImportInvariant, TemplateInvariant, PTL
=============================================================================

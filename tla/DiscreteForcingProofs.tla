----------------------- MODULE DiscreteForcingProofs -----------------------
(***************************************************************************)
(* Proofs about DiscreteForcing, for any parameters, providers, spans,     *)
(* grids and number of clients.  With Dependable providers ForcingInv is   *)
(* inductive: the forcing properties follow from it, and the shared buffer *)
(* implements ForcedSolves.                                                *)
(***************************************************************************)
EXTENDS DiscreteForcing, WellFoundedInduction, TLAPS

-----------------------------------------------------------------------------
(* Latest anchors and next boundaries exist *)

Less == {ss \in Nat \X Nat : ss[1] < ss[2]}

LEMMA LessWF == IsWellFoundedOn(Less, Nat)
BY NatLessThanWellFounded DEF OpToRel, Less

LEMMA NatHasLeast ==
  ASSUME NEW T, T \subseteq Nat, T # {}
  PROVE  \E x \in T : \A y \in T : x <= y
<1>1. PICK x \in T : \A y \in T : ~ (<<y, x>> \in Less)
  BY LessWF, WFMin
<1>2. ASSUME NEW y \in T, y < x PROVE FALSE
  <2>1. <<y, x>> \in Less
    BY <1>2 DEF Less
  <2> QED
    BY <2>1, <1>1
<1> QED
  BY <1>2

\* What Min returns.
LEMMA MinIsLeast ==
  ASSUME NEW T, T \subseteq Nat, T # {}
  PROVE  Min(T) \in T /\ \A y \in T : Min(T) <= y
BY NatHasLeast DEF Min

\* What Max returns, on a bounded set.
LEMMA MaxIsGreatest ==
  ASSUME NEW H \in Nat, NEW T, T \subseteq 0 .. H, T # {}
  PROVE  Max(T) \in T /\ \A y \in T : Max(T) >= y
<1> DEFINE D == {H - x : x \in T}
<1>1. D \subseteq Nat
  OBVIOUS
<1>2. D # {}
  <2>1. PICK x \in T : TRUE
    OBVIOUS
  <2>2. H - x \in D
    BY <2>1
  <2> QED
    BY <2>2
<1>3. PICK d \in D : \A e \in D : d <= e
  BY <1>1, <1>2, NatHasLeast
<1>4. PICK x \in T : d = H - x
  BY <1>3
<1>5. \A y \in T : H - y \in D
  OBVIOUS
<1>6. \A y \in T : x >= y
  BY <1>3, <1>4, <1>5
<1> QED
  BY <1>4, <1>6 DEF Max
-----------------------------------------------------------------------------
(* The record in effect *)

\* A set of ticks that has an anchor up to k has a latest one, and it is what
\* InEffect chooses.
LEMMA InEffectIsLatest ==
  ASSUME NEW v \in Vars, NEW k \in Int, NEW a \in Anchors[v], a <= k,
         \A b \in Anchors[v] : b <= k => b <= a
  PROVE  Promise!InEffect(v, k) = a
<1> DEFINE P(x) == x \in Anchors[v] /\ x <= k /\ \A b \in Anchors[v] : b <= k => b <= x
<1>1. Anchors[v] \subseteq Int
  BY ForcingConstants DEF Ticks
<1>2. \A x : P(x) => x = a
  BY <1>1
<1> QED
  BY <1>2 DEF Promise!InEffect

\* Before the first anchor it is the default.
LEMMA NoneInEffect ==
  ASSUME NEW v \in Vars, NEW k \in Int, ~ \E a \in Anchors[v] : a <= k
  PROVE  Promise!InEffect(v, k) = Default
BY DEF Promise!InEffect, Promise!Default, Default

LEMMA InEffectAtAnchor ==
  ASSUME NEW v \in Vars, NEW t \in Int, IsAnchor(v, t)
  PROVE  Promise!InEffect(v, t) = t
BY InEffectIsLatest DEF IsAnchor

LEMMA InEffectBetween ==
  ASSUME NEW v \in Vars, NEW t \in Int, ~IsAnchor(v, t), Before(v, t) # {}
  PROVE  /\ Max(Before(v, t)) \in Anchors[v]
         /\ Max(Before(v, t)) < t
         /\ Promise!InEffect(v, t) = Max(Before(v, t))
<1>1. /\ Horizon \in Nat
      /\ Anchors[v] \subseteq 0 .. Horizon
  BY ForcingConstants
<1>2. /\ Max(Before(v, t)) \in Before(v, t)
      /\ \A y \in Before(v, t) : Max(Before(v, t)) >= y
  <2>1. Before(v, t) \subseteq 0 .. Horizon
    BY <1>1 DEF Before
  <2> QED
    BY <1>1, <2>1, MaxIsGreatest
<1> DEFINE a == Max(Before(v, t))
<1>3. a \in Anchors[v] /\ a < t
  BY <1>2 DEF Before
<1>4. ASSUME NEW b \in Anchors[v], b <= t PROVE b <= a
  <2>1. b # t
    BY DEF IsAnchor
  <2>2. b \in Before(v, t)
    BY <1>1, <1>4, <2>1 DEF Before
  <2> QED
    BY <1>1, <1>2, <1>3, <2>2
<1>5. a <= t
  BY <1>1, <1>3
<1>6. Promise!InEffect(v, t) = a
  BY <1>3, <1>4, <1>5, InEffectIsLatest
<1> QED
  BY <1>3, <1>6

LEMMA InEffectVacant ==
  ASSUME NEW v \in Vars, NEW t \in Int, ~IsAnchor(v, t), Before(v, t) = {}
  PROVE  Promise!InEffect(v, t) = Default
<1>1. Anchors[v] \subseteq Int
  BY ForcingConstants
<1>2. ASSUME NEW a \in Anchors[v], a <= t PROVE FALSE
  <2>1. a # t
    BY DEF IsAnchor
  <2>2. a \in Before(v, t)
    BY <1>1, <1>2, <2>1 DEF Before
  <2> QED
    BY <2>2
<1> QED
  BY <1>2, NoneInEffect

\* The record in effect does not change where there is no anchor.
LEMMA InEffectLasts ==
  ASSUME NEW v \in Vars, NEW s \in Int, NEW t \in Int, s <= t,
         \A a \in Anchors[v] : ~(s < a /\ a <= t)
  PROVE  Promise!InEffect(v, t) = Promise!InEffect(v, s)
<1>1. Horizon \in Nat /\ Anchors[v] \subseteq 0 .. Horizon
  BY ForcingConstants
<1>2. \A a \in Anchors[v] : a <= t <=> a <= s
  BY <1>1
<1> DEFINE S == {a \in Anchors[v] : a <= s}
<1>3. CASE S = {}
  BY <1>2, <1>3, NoneInEffect
<1>4. CASE S # {}
  <2>1. S \subseteq 0 .. Horizon
    BY <1>1
  <2>2. Max(S) \in S /\ \A y \in S : Max(S) >= y
    BY <1>1, <1>4, <2>1, MaxIsGreatest
  <2>3. Max(S) \in Anchors[v] /\ Max(S) <= s /\ Max(S) <= t
    BY <1>2, <2>2
  <2>4. \A b \in Anchors[v] : b <= s => b <= Max(S)
    BY <1>1, <2>2
  <2> HIDE DEF S
  <2>5. Promise!InEffect(v, s) = Max(S)
    BY <2>3, <2>4, InEffectIsLatest
  <2>6. Promise!InEffect(v, t) = Max(S)
    BY <1>2, <2>3, <2>4, InEffectIsLatest
  <2> QED
    BY <2>5, <2>6
<1> QED
  BY <1>3, <1>4

\* It is a record that exists, or the default.
LEMMA InEffectTyped ==
  ASSUME NEW v \in Vars, NEW t \in Int
  PROVE  Promise!InEffect(v, t) \in Records
<1>1. /\ Horizon \in Nat
      /\ Anchors[v] \subseteq Ticks
  BY ForcingConstants DEF Ticks
<1>2. CASE IsAnchor(v, t)
  BY <1>1, <1>2, InEffectAtAnchor DEF Records, IsAnchor
<1>3. CASE ~IsAnchor(v, t) /\ Before(v, t) # {}
  BY <1>1, <1>3, InEffectBetween DEF Records
<1>4. CASE ~IsAnchor(v, t) /\ Before(v, t) = {}
  BY <1>4, InEffectVacant DEF Records
<1> QED
  BY <1>2, <1>3, <1>4
-----------------------------------------------------------------------------
(* What a sample and a refresh leave in the buffer *)

\* What a provider answers at one of its anchors, if it is not vacant: the
\* buffer ends up with that anchor, delivered now or held since.
LEMMA AnchorIsHeld ==
  ASSUME NoneSkipIsSafe, NEW v \in Vars, NEW a \in Anchors[v]
  PROVE  \/ Answers(v, a)
         \/ ~Answers(v, a) /\ buffer[v] = a
<1>1. a # Nothing
  BY ForcingConstants DEF Ticks, Nothing
<1>2. CASE v \in Memory /\ last[v] = a
  BY <1>1, <1>2 DEF NoneSkipIsSafe
<1>3. CASE ~(v \in Memory /\ last[v] = a)
  BY <1>3 DEF Answers, IsAnchor
<1> QED
  BY <1>2, <1>3

LEMMA AnswersAtAnchors ==
  ASSUME Dependable, NEW v \in Vars, NEW t \in Int, ~IsAnchor(v, t)
  PROVE  ~Answers(v, t)
BY DEF Dependable, Answers

\* A sample at t, with the vacant parameters seeded, leaves in the buffer the
\* record in effect at t, whatever was there.
LEMMA SampleInEffect ==
  ASSUME Dependable, TypeOK, NoneSkipIsSafe, NEW t \in Ticks, NEW v \in Vars
  PROVE  Seeded(Written(buffer, Sampled(t), Vars), Vacant(t))[v] = Promise!InEffect(v, t)
<1>0. t \in Int /\ t # Nothing
  BY ForcingConstants DEF Ticks, Nothing
<1> DEFINE rec == Sampled(t)[v]
<1>1. Written(buffer, Sampled(t), Vars)[v] = IF rec # Nothing THEN rec ELSE buffer[v]
  BY DEF Written
<1>2. CASE IsAnchor(v, t)
  <2>1. v \notin Vacant(t)
    BY <1>2 DEF Vacant
  <2>2. rec = IF Answers(v, t) THEN t ELSE Nothing
    BY <1>2 DEF Sampled
  <2>3. t \in Anchors[v]
    BY <1>2 DEF IsAnchor
  <2>4. Answers(v, t) \/ buffer[v] = t
    BY <2>3, AnchorIsHeld
  <2> QED
    BY <1>0, <1>1, <1>2, <2>1, <2>2, <2>4, InEffectAtAnchor DEF Seeded
<1>3. CASE ~IsAnchor(v, t) /\ Before(v, t) # {}
  <2> DEFINE a == Max(Before(v, t))
  <2>1. a \in Anchors[v] /\ Promise!InEffect(v, t) = a
    BY <1>0, <1>3, InEffectBetween
  <2>2. v \notin Vacant(t) /\ ~Answers(v, t)
    BY <1>0, <1>3, AnswersAtAnchors DEF Vacant
  <2>3. rec = IF Answers(v, a) THEN a ELSE Nothing
    BY <1>3, <2>2 DEF Sampled
  <2>4. Answers(v, a) \/ buffer[v] = a
    BY <2>1, AnchorIsHeld
  <2>5. a # Nothing
    BY <2>1, ForcingConstants DEF Nothing
  <2> QED
    BY <1>1, <2>1, <2>2, <2>3, <2>4, <2>5 DEF Seeded
<1>4. CASE ~IsAnchor(v, t) /\ Before(v, t) = {}
  <2>1. v \in Vacant(t)
    BY <1>0, <1>4, AnswersAtAnchors DEF Vacant
  <2> QED
    BY <1>0, <1>4, <2>1, InEffectVacant DEF Seeded
<1> QED
  BY <1>2, <1>3, <1>4

\* A refresh at t turns the record in effect just before into the one in
\* effect at t.
LEMMA RefreshInEffect ==
  ASSUME Dependable, TypeOK, NoneSkipIsSafe, NEW t \in Ticks, NEW v \in Vars,
         buffer[v] = Promise!InEffect(v, t - 1)
  PROVE  Written(buffer, Refreshed(t), Vars)[v] = Promise!InEffect(v, t)
<1>0. t \in Int /\ t # Nothing
  BY ForcingConstants DEF Ticks, Nothing
<1>1. Written(buffer, Refreshed(t), Vars)[v] = IF Answers(v, t) THEN t ELSE buffer[v]
  BY <1>0 DEF Written, Refreshed
<1>2. CASE IsAnchor(v, t)
  <2>1. Answers(v, t) \/ buffer[v] = t
    BY <1>2, AnchorIsHeld DEF IsAnchor
  <2> QED
    BY <1>0, <1>1, <1>2, <2>1, InEffectAtAnchor
<1>3. CASE ~IsAnchor(v, t)
  <2>1. \A a \in Anchors[v] : ~(t - 1 < a /\ a <= t)
    BY <1>0, <1>3, ForcingConstants DEF IsAnchor
  <2>2. Promise!InEffect(v, t) = Promise!InEffect(v, t - 1)
    BY <1>0, <2>1, InEffectLasts
  <2> QED
    BY <1>0, <1>1, <1>3, <2>2, AnswersAtAnchors
<1> QED
  BY <1>2, <1>3

\* What a provider delivers is a tick, if anything.
LEMMA DeliveredTyped ==
  ASSUME NEW t \in Ticks
  PROVE  /\ Sampled(t) \in [Vars -> Ticks \union {Nothing}]
         /\ Refreshed(t) \in [Vars -> Ticks \union {Nothing}]
<1>1. Refreshed(t) \in [Vars -> Ticks \union {Nothing}]
  BY DEF Refreshed
<1>2. ASSUME NEW v \in Vars PROVE Sampled(t)[v] \in Ticks \union {Nothing}
  <2>1. CASE ~IsAnchor(v, t) /\ Before(v, t) # {}
    <3>1. t \in Int
      BY ForcingConstants DEF Ticks
    <3>2. Max(Before(v, t)) \in Ticks
      BY <2>1, <3>1, InEffectBetween, ForcingConstants DEF Ticks
    <3> QED
      BY <3>2 DEF Sampled
  <2>2. CASE ~(~IsAnchor(v, t) /\ Before(v, t) # {})
    BY <2>2 DEF Sampled
  <2> QED
    BY <2>1, <2>2
<1>3. Sampled(t) = [v \in Vars |-> Sampled(t)[v]]
  BY DEF Sampled
<1> QED
  BY <1>1, <1>2, <1>3

LEMMA WrittenTyped ==
  ASSUME NEW R, NEW held \in [Vars -> R], NEW rec \in [Vars -> Ticks \union {Nothing}],
         Ticks \subseteq R, NEW D
  PROVE  Written(held, rec, D) \in [Vars -> R]
BY DEF Written

\* None-skip stays safe when the same providers are written to the buffer and
\* remembered.
LEMMA WritingKeepsNoneSkip ==
  ASSUME NoneSkipIsSafe, NEW rec, NEW D,
         buffer' = Written(buffer, rec, D), last' = Remembered(rec, D),
         Memory \subseteq Vars
  PROVE  NoneSkipIsSafe'
BY DEF NoneSkipIsSafe, Written, Remembered
-----------------------------------------------------------------------------
(* Every step keeps the invariant *)

BufferTypes == buffer \in [Vars -> Records \union {Nothing}] /\ last \in [Vars -> Ticks \union {Nothing}]

LEMMA ForcedTyped ==
  ASSUME NEW a \in Int, NEW b \in Int
  PROVE  Promise!Forced(a, b) \in [a .. b - 1 -> [Vars -> Records]]
<1>1. \A k \in a .. b - 1, v \in Vars : Promise!InEffect(v, k) \in Records
  BY InEffectTyped
<1> QED
  BY <1>1 DEF Promise!Forced

LEMMA NothingForced ==
  ASSUME NEW a \in Int
  PROVE  Promise!Forced(a, a) = NoCells
BY DEF Promise!Forced, NoCells

\* A failed refresh writes and remembers the same providers, except for one
\* whose record is refused, and Dependable providers that remember are never
\* refused.
LEMMA FailingKeepsBuffer ==
  ASSUME Dependable, BufferTypes, NoneSkipIsSafe,
         NEW rec \in [Vars -> Ticks \union {Nothing}], Fails(rec)
  PROVE  BufferTypes' /\ NoneSkipIsSafe'
<1>1. PICK f \in Vars, D \in SUBSET Vars :
        /\ buffer' = Written(buffer, rec, D)
        /\ \/ last' = Remembered(rec, D)
           \/ f \in Refusable /\ last' = Remembered(rec, D \union {f})
  BY DEF Fails
<1>2. BufferTypes'
  BY <1>1 DEF BufferTypes, Records, Written, Remembered
<1>3. CASE last' = Remembered(rec, D)
  BY <1>1, <1>2, <1>3, WritingKeepsNoneSkip, ForcingConstants
<1>4. CASE f \in Refusable /\ last' = Remembered(rec, D \union {f})
  <2> SUFFICES ASSUME NEW v \in Memory, last'[v] # Nothing
               PROVE  buffer'[v] = last'[v]
    BY <1>2 DEF NoneSkipIsSafe
  <2>1. v \in Vars /\ v # f
    BY <1>4, ForcingConstants DEF Dependable
  <2>2. last'[v] = IF v \in D /\ rec[v] # Nothing THEN rec[v] ELSE last[v]
    BY <1>4, <2>1 DEF Remembered, Written
  <2>3. buffer'[v] = IF v \in D /\ rec[v] # Nothing THEN rec[v] ELSE buffer[v]
    BY <1>1, <2>1 DEF Written
  <2> QED
    BY <2>2, <2>3 DEF NoneSkipIsSafe
<1> QED
  BY <1>1, <1>3, <1>4

\* A provider that remembers is never without a record at a client's time.
LEMMA MemoryHasRecord ==
  ASSUME Dependable, NEW c \in Clients, From[c] <= at[c], at[c] \in Ticks, NEW v \in Memory
  PROVE  v \notin Vacant(at[c])
<1>1. PICK a \in Anchors[v] : a <= From[c]
  BY DEF Dependable
<1>2. a \in Int /\ From[c] \in Int /\ at[c] \in Int
  BY ForcingConstants DEF Ticks
<1>3. a <= at[c]
  BY <1>1, <1>2
<1> QED
  BY <1>2, <1>3 DEF Vacant, IsAnchor, Before

LEMMA BuildKeeps ==
  ASSUME Dependable, ForcingInv, NEW t \in Ticks, Build(t)
  PROVE  ForcingInv'
<1> USE DEF ForcingInv
<1> DEFINE rec   == Sampled(t)
           held  == Written(buffer, rec, Vars)
           empty == Vacant(t) \union {v \in Vars : held[v] = Nothing}
<1>1. /\ ~built /\ built' = TRUE
      /\ buffer' = Seeded(held, empty) /\ last' = Remembered(rec, Vars)
      /\ UNCHANGED <<running, clients>>
  BY DEF Build
<1>2. rec \in [Vars -> Ticks \union {Nothing}]
  BY DeliveredTyped
<1>3. held \in [Vars -> Records \union {Nothing}]
  BY <1>2, WrittenTyped DEF TypeOK, Records
<1>4. BufferTypes'
  <2>1. buffer' \in [Vars -> Records \union {Nothing}]
    BY <1>1, <1>3 DEF Seeded, Records
  <2>2. last' \in [Vars -> Ticks \union {Nothing}]
    BY <1>1, <1>2, WrittenTyped DEF Remembered, TypeOK
  <2> QED
    BY <2>1, <2>2 DEF BufferTypes
<1>5. TypeOK'
  BY <1>1, <1>4 DEF TypeOK, BufferTypes, running, clients
<1>6. who = Nobody /\ \A v \in Vars : last[v] = Nothing
  BY <1>1 DEF RunShape
<1>7. RunShape'
  BY <1>1, <1>6 DEF RunShape, running, clients
<1>8. NoneSkipIsSafe'
  <2> SUFFICES ASSUME NEW v \in Memory, last'[v] # Nothing
               PROVE  buffer'[v] = last'[v]
    BY DEF NoneSkipIsSafe
  <2>0. v \in Vars
    BY ForcingConstants
  <2>1. rec[v] # Nothing /\ last'[v] = rec[v]
    BY <1>1, <1>6, <2>0 DEF Remembered, Written
  <2>2. held[v] = rec[v]
    BY <2>0, <2>1 DEF Written
  <2>3. v \notin Vacant(t)
    BY <2>0, <2>1 DEF Vacant, Sampled
  <2> QED
    BY <1>1, <2>0, <2>1, <2>2, <2>3 DEF Seeded
<1>9. PrimedBufferInEffect' /\ UnprimedBufferInEffect'
  BY <1>1, <1>6 DEF PrimedBufferInEffect, UnprimedBufferInEffect, running
<1>10. IntegratedAsPromised'
  BY <1>1 DEF IntegratedAsPromised, running, clients
<1> QED
  BY <1>5, <1>7, <1>8, <1>9, <1>10

LEMMA StartKeeps ==
  ASSUME Dependable, ForcingInv, NEW c \in Clients, Start(c)
  PROVE  ForcingInv'
<1> USE DEF ForcingInv
<1> DEFINE rec == Sampled(at[c])
<1>1. /\ built /\ who = Nobody
      /\ Ahead(c) # {}
      /\ buffer' = Seeded(Written(buffer, rec, Vars), Vacant(at[c]))
      /\ last' = Remembered(rec, Vars)
      /\ who' = c /\ now' = at[c] /\ stop' = Min(Ahead(c))
      /\ primed' = TRUE /\ cells' = NoCells
      /\ UNCHANGED <<built, clients>>
  BY DEF Start, MayStart
<1>2. at[c] \in Ticks /\ From[c] <= at[c] /\ at[c] \in Int /\ c # Nobody
  BY ForcingConstants DEF TypeOK, RunShape, Ticks
<1>3. stop' \in Ticks /\ at[c] < stop'
  <2>1. Ahead(c) \subseteq Ticks /\ Ticks \subseteq Nat
    BY ForcingConstants DEF Ahead, Ticks
  <2>2. stop' \in Ahead(c)
    BY <1>1, <2>1, MinIsLeast
  <2> QED
    BY <2>1, <2>2 DEF Ahead
<1>4. rec \in [Vars -> Ticks \union {Nothing}]
  BY <1>2, DeliveredTyped
<1>5. BufferTypes'
  <2>1. Written(buffer, rec, Vars) \in [Vars -> Records \union {Nothing}]
    BY <1>4, WrittenTyped DEF TypeOK, Records
  <2>2. buffer' \in [Vars -> Records \union {Nothing}]
    BY <1>1, <2>1 DEF Seeded, Records
  <2>3. last' \in [Vars -> Ticks \union {Nothing}]
    BY <1>1, <1>4, WrittenTyped DEF Remembered, TypeOK
  <2> QED
    BY <2>2, <2>3 DEF BufferTypes
<1>6. cells' = Promise!Forced(at'[who'], now')
  BY <1>1, <1>2, NothingForced DEF clients
<1>7. cells' \in [at'[who'] .. now' - 1 -> [Vars -> Records]]
  BY <1>1, <1>2, <1>6, ForcedTyped DEF clients
<1>8. TypeOK'
  BY <1>1, <1>2, <1>3, <1>5, <1>7 DEF TypeOK, BufferTypes, clients
<1>9. RunShape'
  BY <1>1, <1>2, <1>3 DEF RunShape, clients
<1>10. NoneSkipIsSafe'
  <2> SUFFICES ASSUME NEW v \in Memory, last'[v] # Nothing
               PROVE  buffer'[v] = last'[v]
    BY DEF NoneSkipIsSafe
  <2>1. v \in Vars
    BY ForcingConstants
  <2>2. buffer'[v] = Written(buffer, rec, Vars)[v]
    BY <1>1, <1>2, <2>1, MemoryHasRecord DEF Seeded
  <2> QED
    BY <1>1, <2>1, <2>2 DEF Written, Remembered, NoneSkipIsSafe
<1>11. PrimedBufferInEffect' /\ UnprimedBufferInEffect'
  <2>1. \A v \in Vars : buffer'[v] = Promise!InEffect(v, at[c])
    BY <1>1, <1>2, SampleInEffect
  <2> QED
    BY <1>1, <2>1 DEF PrimedBufferInEffect, UnprimedBufferInEffect
<1>12. IntegratedAsPromised'
  BY <1>1, <1>2, <1>6 DEF IntegratedAsPromised, clients
<1> QED
  BY <1>8, <1>9, <1>10, <1>11, <1>12

\* A step that changes nothing but the buffer and the providers, between
\* solves, keeps the invariant if it keeps None-skip safe.
LEMMA BetweenSolves ==
  ASSUME ForcingInv, built, who = Nobody, UNCHANGED <<built, running, clients>>,
         BufferTypes', NoneSkipIsSafe'
  PROVE  ForcingInv'
<1> USE DEF ForcingInv, running, clients
<1>1. TypeOK'
  BY DEF TypeOK, BufferTypes
<1>2. RunShape'
  BY DEF RunShape
<1>3. PrimedBufferInEffect' /\ UnprimedBufferInEffect'
  BY DEF PrimedBufferInEffect, UnprimedBufferInEffect
<1>4. IntegratedAsPromised'
  BY DEF IntegratedAsPromised
<1> QED
  BY <1>1, <1>2, <1>3, <1>4

LEMMA StartFailsKeeps ==
  ASSUME Dependable, ForcingInv, NEW c \in Clients, StartFails(c)
  PROVE  ForcingInv'
<1> USE DEF ForcingInv
<1> DEFINE rec == Sampled(at[c])
<1>1. built /\ who = Nobody /\ UNCHANGED <<built, running, clients>>
  BY DEF StartFails, MayStart
<1>2. at[c] \in Ticks /\ From[c] <= at[c]
  BY DEF TypeOK, RunShape
<1>3. rec \in [Vars -> Ticks \union {Nothing}]
  BY <1>2, DeliveredTyped
<1>4. BufferTypes
  BY DEF TypeOK, BufferTypes
<1>5. CASE Fails(rec)
  BY <1>1, <1>3, <1>4, <1>5, FailingKeepsBuffer, BetweenSolves
<1>6. CASE /\ \E D \in SUBSET (Vacant(at[c]) \cap WithDefault) :
                buffer' = Seeded(Written(buffer, rec, Vars), D)
           /\ last' = Remembered(rec, Vars)
  <2>1. PICK D \in SUBSET (Vacant(at[c]) \cap WithDefault) :
          buffer' = Seeded(Written(buffer, rec, Vars), D)
    BY <1>6
  <2>2. Written(buffer, rec, Vars) \in [Vars -> Records \union {Nothing}]
    BY <1>3, <1>4, WrittenTyped DEF BufferTypes, Records
  <2>3. last' \in [Vars -> Ticks \union {Nothing}]
    BY <1>3, <1>4, <1>6, WrittenTyped DEF Remembered, BufferTypes
  <2>4. BufferTypes'
    BY <2>1, <2>2, <2>3 DEF BufferTypes, Seeded, Records
  <2>5. NoneSkipIsSafe'
    <3> SUFFICES ASSUME NEW v \in Memory, last'[v] # Nothing
                 PROVE  buffer'[v] = last'[v]
      BY DEF NoneSkipIsSafe
    <3>1. v \in Vars
      BY ForcingConstants
    <3>2. v \notin D
      BY <1>2, <2>1, MemoryHasRecord
    <3>3. buffer'[v] = Written(buffer, rec, Vars)[v]
      BY <2>1, <3>1, <3>2 DEF Seeded
    <3> QED
      BY <1>6, <3>1, <3>3 DEF Written, Remembered, NoneSkipIsSafe
  <2> QED
    BY <1>1, <2>4, <2>5, BetweenSolves
<1> QED
  BY <1>5, <1>6 DEF StartFails

\* A segment ends after it started and not after the solve, and no record
\* comes into effect inside it.
LEMMA EndpointBounds ==
  ASSUME now \in Ticks, stop \in Ticks, now < stop
  PROVE  /\ Endpoint \in Ticks /\ now < Endpoint /\ Endpoint <= stop
         /\ \A k \in now .. Endpoint - 1, v \in Vars :
              Promise!InEffect(v, k) = Promise!InEffect(v, now)
<1> DEFINE E == {b \in Boundaries : now < b /\ b < stop} \union {stop}
<1>1. Ticks \subseteq Nat /\ Boundaries \subseteq Ticks
  BY ForcingConstants DEF Ticks, Boundaries
<1>2. E \subseteq Nat /\ E # {}
  BY <1>1
<1>3. Endpoint \in E /\ \A y \in E : Endpoint <= y
  BY <1>2, MinIsLeast DEF Endpoint
<1>4. Endpoint \in Ticks /\ now < Endpoint /\ Endpoint <= stop
  BY <1>1, <1>3
<1>5. ASSUME NEW k \in now .. Endpoint - 1, NEW v \in Vars
      PROVE  Promise!InEffect(v, k) = Promise!InEffect(v, now)
  <2>1. now \in Int /\ k \in Int /\ now <= k /\ k < Endpoint
    BY <1>1, <1>4
  <2>2. ASSUME NEW a \in Anchors[v], now < a, a <= k PROVE FALSE
    <3>1. a \in Boundaries /\ a \in Int
      BY <1>1 DEF Boundaries
    <3>2. a < stop
      BY <1>1, <1>4, <2>1, <2>2, <3>1
    <3>3. Endpoint <= a
      BY <1>3, <2>2, <3>1, <3>2
    <3> QED
      BY <1>1, <1>4, <2>1, <2>2, <3>1, <3>3
  <2> QED
    BY <2>1, <2>2, InEffectLasts
<1> QED
  BY <1>4, <1>5

\* Integrating a segment with the buffer as it stands is what is promised.
LEMMA SegmentAsPromised ==
  ASSUME ForcingInv, who # Nobody, primed, NEW b \in Ticks, now < b,
         \A k \in now .. b - 1, v \in Vars : Promise!InEffect(v, k) = Promise!InEffect(v, now)
  PROVE  Integrated(b) = Promise!Forced(at[who], b)
<1> DEFINE from == at[who]
<1>1. /\ from \in Int /\ now \in Int /\ b \in Int /\ from <= now
      /\ who \in Clients
  BY ForcingConstants DEF ForcingInv, TypeOK, RunShape, Ticks
<1>2. cells = Promise!Forced(from, now)
  BY DEF ForcingInv, IntegratedAsPromised
<1>3. DOMAIN cells = from .. now - 1
  BY <1>2 DEF Promise!Forced
<1>4. DOMAIN cells \union (now .. b - 1) = from .. b - 1
  BY <1>1, <1>3
<1>5. buffer = [v \in Vars |-> Promise!InEffect(v, now)]
  BY DEF ForcingInv, TypeOK, PrimedBufferInEffect
<1>6. ASSUME NEW k \in from .. b - 1
      PROVE  (IF k < now THEN cells[k] ELSE buffer) = [v \in Vars |-> Promise!InEffect(v, k)]
  <2>1. CASE k < now
    BY <1>1, <1>2, <2>1 DEF Promise!Forced
  <2>2. CASE ~(k < now)
    <3>1. k \in now .. b - 1
      BY <1>1, <2>2
    <3> QED
      BY <1>5, <2>2, <3>1
  <2> QED
    BY <2>1, <2>2
<1>7. Integrated(b) = [k \in from .. b - 1 |-> IF k < now THEN cells[k] ELSE buffer]
  BY <1>4 DEF Integrated
<1> QED
  BY <1>6, <1>7 DEF Promise!Forced

LEMMA SegmentKeeps ==
  ASSUME ForcingInv, Segment
  PROVE  ForcingInv'
<1> USE DEF ForcingInv
<1>1. /\ who # Nobody /\ primed /\ primed' = FALSE
      /\ UNCHANGED <<built, buffer, last>>
  BY DEF Segment
<1>2. /\ now \in Ticks /\ stop \in Ticks /\ now < stop /\ who \in Clients
      /\ now \in Int /\ stop \in Int /\ at[who] \in Int /\ From[who] \in Int
      /\ From[who] <= at[who] /\ at[who] <= now
  BY <1>1, ForcingConstants DEF TypeOK, RunShape, Ticks
<1>3. /\ Endpoint \in Ticks /\ now < Endpoint /\ Endpoint <= stop
      /\ \A k \in now .. Endpoint - 1, v \in Vars :
           Promise!InEffect(v, k) = Promise!InEffect(v, now)
  BY <1>2, EndpointBounds
<1>4. Integrated(Endpoint) = Promise!Forced(at[who], Endpoint)
  BY <1>1, <1>3, SegmentAsPromised
<1>5. NoneSkipIsSafe'
  BY <1>1 DEF NoneSkipIsSafe
<1>6. CASE /\ Endpoint < stop
           /\ now' = Endpoint /\ cells' = Integrated(Endpoint)
           /\ UNCHANGED <<who, stop, clients>>
  <2>0. Endpoint \in Int
    BY <1>3, ForcingConstants DEF Ticks
  <2>1. cells' \in [at'[who'] .. now' - 1 -> [Vars -> Records]]
    BY <1>2, <1>4, <1>6, <2>0, ForcedTyped DEF clients
  <2>2. TypeOK'
    BY <1>1, <1>3, <1>6, <2>1 DEF TypeOK, clients
  <2>3. RunShape'
    BY <1>1, <1>2, <1>3, <1>6, <2>0 DEF RunShape, clients
  <2>4. PrimedBufferInEffect'
    BY <1>1 DEF PrimedBufferInEffect
  <2>5. UnprimedBufferInEffect'
    <3>1. Endpoint - 1 \in now .. Endpoint - 1
      BY <1>2, <1>3, <2>0
    <3>2. \A v \in Vars : buffer[v] = Promise!InEffect(v, Endpoint - 1)
      BY <1>1, <1>3, <3>1 DEF PrimedBufferInEffect
    <3> QED
      BY <1>1, <1>6, <3>2 DEF UnprimedBufferInEffect
  <2>6. IntegratedAsPromised'
    BY <1>1, <1>4, <1>6 DEF IntegratedAsPromised, clients
  <2> QED
    BY <1>5, <2>2, <2>3, <2>4, <2>5, <2>6
<1>7. CASE Endpoint = stop /\ Ends /\ UNCHANGED stopped
           /\ at' = [at EXCEPT ![who] = stop]
           /\ traj' = [traj EXCEPT ![who] =
                [k \in DOMAIN @ \union (at[who] .. stop - 1) |->
                   IF k < at[who] THEN @[k] ELSE Integrated(stop)[k]]]
  <2>1. traj'[who] = Promise!Forced(From[who], stop)
    <3>1. traj[who] = Promise!Forced(From[who], at[who])
      BY <1>2 DEF IntegratedAsPromised
    <3>2. DOMAIN traj[who] = From[who] .. at[who] - 1
      BY <3>1 DEF Promise!Forced
    <3>3. DOMAIN traj[who] \union (at[who] .. stop - 1) = From[who] .. stop - 1
      BY <1>2, <3>2
    <3>4. traj'[who] = [k \in From[who] .. stop - 1 |->
                          IF k < at[who] THEN traj[who][k] ELSE Integrated(stop)[k]]
      BY <1>2, <1>7, <3>3 DEF TypeOK
    <3>5. ASSUME NEW k \in From[who] .. stop - 1
          PROVE  (IF k < at[who] THEN traj[who][k] ELSE Integrated(stop)[k])
                   = [v \in Vars |-> Promise!InEffect(v, k)]
      <4>1. CASE k < at[who]
        BY <1>2, <3>1, <4>1 DEF Promise!Forced
      <4>2. CASE ~(k < at[who])
        <5>1. k \in at[who] .. stop - 1
          BY <1>2, <4>2
        <5> QED
          BY <1>4, <1>7, <4>2, <5>1 DEF Promise!Forced
      <4> QED
        BY <4>1, <4>2
    <3> QED
      BY <3>4, <3>5 DEF Promise!Forced
  <2>2. traj' = [c \in Clients |-> Promise!Forced(From[c], at'[c])]
    BY <1>2, <1>7, <2>1 DEF IntegratedAsPromised, TypeOK
  <2>3. \A c \in Clients : /\ at'[c] \in Ticks /\ From[c] <= at'[c]
                           /\ at'[c] \in Int /\ From[c] \in Int
    <3>1. Ticks \subseteq Int /\ From \in [Clients -> Ticks]
      BY ForcingConstants DEF Ticks
    <3>2. From[who] <= stop
      BY <1>2
    <3>3. at' \in [Clients -> Ticks] /\ \A c \in Clients : From[c] <= at'[c]
      BY <1>2, <1>7, <3>2 DEF TypeOK, RunShape
    <3> QED
      BY <3>1, <3>3
  <2>4. \A c \in Clients : traj'[c] \in [From[c] .. at'[c] - 1 -> [Vars -> Records]]
    BY <2>2, <2>3, ForcedTyped
  <2>5. TypeOK'
    <3>1. 0 \in Ticks /\ Nobody \notin Clients
      BY ForcingConstants DEF Ticks
    <3>2. cells' \in [IF who' = Nobody THEN {} ELSE at'[who'] .. now' - 1 -> [Vars -> Records]]
      BY <1>7 DEF Ends, NoCells
    <3> QED
      BY <1>1, <1>7, <2>3, <2>4, <3>1, <3>2 DEF TypeOK, Ends
  <2>6. RunShape'
    BY <1>1, <1>7, <2>3 DEF RunShape, Ends
  <2>7. PrimedBufferInEffect' /\ UnprimedBufferInEffect'
    BY <1>7 DEF PrimedBufferInEffect, UnprimedBufferInEffect, Ends
  <2>8. IntegratedAsPromised'
    BY <1>7, <2>2 DEF IntegratedAsPromised, Ends
  <2> QED
    BY <1>5, <2>5, <2>6, <2>7, <2>8
<1> QED
  BY <1>1, <1>6, <1>7 DEF Segment, Ends

\* A solve that ends early leaves everybody's state as it was.
LEMMA EndingKeeps ==
  ASSUME ForcingInv, who # Nobody, Ends, UNCHANGED <<built, at, traj>>,
         stopped' \in [Clients -> BOOLEAN], BufferTypes', NoneSkipIsSafe'
  PROVE  ForcingInv'
<1> USE DEF ForcingInv
<1>1. TypeOK'
  <2>1. 0 \in Ticks
    BY ForcingConstants DEF Ticks
  <2>2. cells' \in [IF who' = Nobody THEN {} ELSE at'[who'] .. now' - 1 -> [Vars -> Records]]
    BY DEF Ends, NoCells
  <2> QED
    BY <2>1, <2>2 DEF TypeOK, Ends, BufferTypes
<1>2. RunShape'
  BY DEF RunShape, Ends
<1>3. PrimedBufferInEffect' /\ UnprimedBufferInEffect'
  BY DEF PrimedBufferInEffect, UnprimedBufferInEffect, Ends
<1>4. IntegratedAsPromised'
  BY DEF IntegratedAsPromised, Ends
<1> QED
  BY <1>1, <1>2, <1>3, <1>4

LEMMA StopsEarlyKeeps ==
  ASSUME ForcingInv, StopsEarly
  PROVE  ForcingInv'
<1>1. BufferTypes' /\ NoneSkipIsSafe'
  BY DEF StopsEarly, ForcingInv, TypeOK, BufferTypes, NoneSkipIsSafe
<1>2. stopped' \in [Clients -> BOOLEAN]
  BY DEF StopsEarly, ForcingInv, TypeOK
<1> QED
  BY <1>1, <1>2, EndingKeeps DEF StopsEarly

LEMMA RefreshKeeps ==
  ASSUME Dependable, ForcingInv, Refresh
  PROVE  ForcingInv'
<1> USE DEF ForcingInv
<1>1. /\ who # Nobody /\ ~primed /\ primed' = TRUE
      /\ buffer' = Written(buffer, Refreshed(now), Vars)
      /\ last' = Remembered(Refreshed(now), Vars)
      /\ UNCHANGED <<built, who, now, stop, cells, clients>>
  BY DEF Refresh
<1>2. now \in Ticks
  BY DEF TypeOK
<1>3. BufferTypes'
  <2>1. Refreshed(now) \in [Vars -> Ticks \union {Nothing}]
    BY <1>2, DeliveredTyped
  <2> QED
    BY <1>1, <2>1, WrittenTyped DEF BufferTypes, TypeOK, Records, Remembered
<1>4. TypeOK'
  BY <1>1, <1>3 DEF TypeOK, BufferTypes, clients
<1>5. RunShape'
  BY <1>1 DEF RunShape, clients
<1>6. NoneSkipIsSafe'
  BY <1>1, WritingKeepsNoneSkip, ForcingConstants
<1>7. PrimedBufferInEffect'
  BY <1>1, <1>2, RefreshInEffect DEF PrimedBufferInEffect, UnprimedBufferInEffect
<1>8. UnprimedBufferInEffect' /\ IntegratedAsPromised'
  BY <1>1 DEF UnprimedBufferInEffect, IntegratedAsPromised, clients
<1> QED
  BY <1>4, <1>5, <1>6, <1>7, <1>8

LEMMA RefreshFailsKeeps ==
  ASSUME Dependable, ForcingInv, RefreshFails
  PROVE  ForcingInv'
<1>1. Refreshed(now) \in [Vars -> Ticks \union {Nothing}]
  BY DeliveredTyped DEF ForcingInv, TypeOK
<1>2. BufferTypes' /\ NoneSkipIsSafe'
  BY <1>1, FailingKeepsBuffer DEF RefreshFails, ForcingInv, TypeOK, BufferTypes
<1>3. stopped' \in [Clients -> BOOLEAN]
  BY DEF RefreshFails, clients, ForcingInv, TypeOK
<1> QED
  BY <1>2, <1>3, EndingKeeps DEF RefreshFails, clients

LEMMA RestartKeeps ==
  ASSUME ForcingInv, NEW c \in Clients, Restart(c)
  PROVE  ForcingInv'
<1> USE DEF ForcingInv, Restart, running
<1>1. From[c] \in Ticks /\ From[c] \in Int
  BY ForcingConstants DEF Ticks
<1>2. traj' = [d \in Clients |-> Promise!Forced(From[d], at'[d])]
  BY <1>1, NothingForced DEF IntegratedAsPromised, TypeOK
<1>3. at' \in [Clients -> Ticks] /\ \A d \in Clients : From[d] <= at'[d]
  BY <1>1 DEF TypeOK, RunShape
<1>4. \A d \in Clients : traj'[d] \in [From[d] .. at'[d] - 1 -> [Vars -> Records]]
  <2>1. \A d \in Clients : From[d] \in Int /\ at'[d] \in Int
    BY <1>3, ForcingConstants DEF Ticks
  <2>2. \A d \in Clients :
          Promise!Forced(From[d], at'[d]) \in [From[d] .. at'[d] - 1 -> [Vars -> Records]]
    BY <2>1, ForcedTyped
  <2>3. \A d \in Clients : traj'[d] = Promise!Forced(From[d], at'[d])
    BY <1>2, Zenon
  <2> QED
    BY <2>2, <2>3
<1>5. TypeOK'
  BY <1>3, <1>4 DEF TypeOK
<1>6. RunShape'
  BY <1>3 DEF RunShape
<1>7. NoneSkipIsSafe' /\ PrimedBufferInEffect' /\ UnprimedBufferInEffect'
  BY DEF NoneSkipIsSafe, PrimedBufferInEffect, UnprimedBufferInEffect
<1>8. IntegratedAsPromised'
  BY <1>2 DEF IntegratedAsPromised
<1> QED
  BY <1>5, <1>6, <1>7, <1>8

LEMMA InitForcing == Init => ForcingInv
<1> SUFFICES ASSUME Init PROVE ForcingInv
  OBVIOUS
<1> USE DEF Init
<1>1. /\ From \in [Clients -> Ticks] /\ 0 \in Ticks
      /\ \A c \in Clients : From[c] \in Int
  BY ForcingConstants DEF Ticks
<1>2. IntegratedAsPromised
  BY <1>1, NothingForced DEF IntegratedAsPromised
<1>3. \A c \in Clients : traj[c] \in [From[c] .. at[c] - 1 -> [Vars -> Records]]
  BY <1>1 DEF NoCells
<1>4. TypeOK
  BY <1>1, <1>3 DEF TypeOK, NoCells
<1>5. RunShape
  BY <1>1 DEF RunShape
<1>6. NoneSkipIsSafe /\ PrimedBufferInEffect /\ UnprimedBufferInEffect
  BY ForcingConstants DEF NoneSkipIsSafe, PrimedBufferInEffect, UnprimedBufferInEffect
<1> QED
  BY <1>2, <1>4, <1>5, <1>6 DEF ForcingInv

LEMMA StepForcing ==
  ASSUME Dependable, ForcingInv, [Next]_vars
  PROVE  ForcingInv'
<1>1. ASSUME NEW t \in Ticks, Build(t) PROVE ForcingInv'
  BY <1>1, BuildKeeps
<1>2. ASSUME NEW c \in Clients, Start(c) PROVE ForcingInv'
  BY <1>2, StartKeeps
<1>3. ASSUME NEW c \in Clients, StartFails(c) PROVE ForcingInv'
  BY <1>3, StartFailsKeeps
<1>4. ASSUME NEW c \in Clients, Restart(c) PROVE ForcingInv'
  BY <1>4, RestartKeeps
<1>5. CASE Segment
  BY <1>5, SegmentKeeps
<1>6. CASE StopsEarly
  BY <1>6, StopsEarlyKeeps
<1>7. CASE Refresh
  BY <1>7, RefreshKeeps
<1>8. CASE RefreshFails
  BY <1>8, RefreshFailsKeeps
<1>9. CASE UNCHANGED vars
  BY <1>9 DEF vars, running, clients, ForcingInv, TypeOK, RunShape, NoneSkipIsSafe,
              PrimedBufferInEffect, UnprimedBufferInEffect, IntegratedAsPromised
<1> QED
  BY <1>1, <1>2, <1>3, <1>4, <1>5, <1>6, <1>7, <1>8, <1>9 DEF Next
-----------------------------------------------------------------------------
(* The theorems *)

\* With Dependable providers the invariant of the shared buffer always holds,
\* for any number of parameters, clients, anchors and grid points.
THEOREM ForcingInvariant ==
  ASSUME Dependable
  PROVE  Spec => []ForcingInv
<1>1. ForcingInv /\ [Next]_vars => ForcingInv'
  BY StepForcing
<1> QED
  BY <1>1, InitForcing, PTL DEF Spec

\* Every solve integrates every cell with the record in effect there (solve
\* and remake, problem.rs).
THEOREM RecordInEffect ==
  ASSUME Dependable
  PROVE  Spec => []SolveReadsRecordInEffect
<1>1. ForcingInv => SolveReadsRecordInEffect
  <2> SUFFICES ASSUME ForcingInv, NEW v \in Vars
               PROVE  /\ \A k \in DOMAIN cells : cells[k][v] = Promise!InEffect(v, k)
                      /\ \A c \in Clients : \A k \in DOMAIN traj[c] :
                           traj[c][k][v] = Promise!InEffect(v, k)
    BY DEF SolveReadsRecordInEffect
  <2>1. \A k \in DOMAIN cells : cells[k][v] = Promise!InEffect(v, k)
    <3>1. CASE who = Nobody
      BY <3>1 DEF ForcingInv, IntegratedAsPromised, NoCells
    <3>2. CASE who # Nobody
      BY <3>2 DEF ForcingInv, IntegratedAsPromised, Promise!Forced
    <3> QED
      BY <3>1, <3>2
  <2>2. ASSUME NEW c \in Clients, NEW k \in DOMAIN traj[c]
        PROVE  traj[c][k][v] = Promise!InEffect(v, k)
    BY <2>2 DEF ForcingInv, IntegratedAsPromised, Promise!Forced
  <2> QED
    BY <2>1, <2>2
<1> QED
  BY <1>1, ForcingInvariant, PTL

\* While a segment integrates, the buffer holds the records in effect at its
\* start (run_segmented, simulate_array/driver.rs).
THEOREM PrimedBuffer ==
  ASSUME Dependable
  PROVE  Spec => []PrimedBufferInEffect
<1>1. ForcingInv => PrimedBufferInEffect
  BY DEF ForcingInv
<1> QED
  BY <1>1, ForcingInvariant, PTL

\* None-skip leaves the right field in place (CadenceProvider::refresh).
THEOREM NoneSkip ==
  ASSUME Dependable
  PROVE  Spec => []NoneSkipIsSafe
<1>1. ForcingInv => NoneSkipIsSafe
  BY DEF ForcingInv
<1> QED
  BY <1>1, ForcingInvariant, PTL

\* A run stepped in pieces is forced as the run solved in one call is
\* (Integrator, problem.rs).
THEOREM SteppingIsSolving ==
  ASSUME Dependable
  PROVE  Spec => []SteppingChangesNothing
<1>1. ForcingInv => SteppingChangesNothing
  <2> SUFFICES ASSUME ForcingInv, NEW c \in Clients, NEW d \in Clients, From[c] = From[d],
                      NEW k \in DOMAIN traj[c] \cap DOMAIN traj[d]
               PROVE  traj[c][k] = traj[d][k]
    BY DEF SteppingChangesNothing
  <2>1. /\ traj[c] = Promise!Forced(From[c], at[c])
        /\ traj[d] = Promise!Forced(From[d], at[d])
    BY DEF ForcingInv, IntegratedAsPromised
  <2> QED
    BY <2>1 DEF Promise!Forced
<1> QED
  BY <1>1, ForcingInvariant, PTL

\* The shared buffer, providers and segments implement ForcedSolves.
THEOREM PromiseIsKept ==
  ASSUME Dependable
  PROVE  Spec => KeepsPromise
<1>1. Init => Promise!Init
  BY DEF Init, Promise!Init, NoCells, Promise!NoCells, Default, Promise!Default
<1>2. ASSUME ForcingInv, ForcingInv', [Next]_vars
      PROVE  [Promise!Next]_(Promise!vars)
  <2>1. CASE Segment /\ at' # at
    <3>1. /\ who \in Clients /\ stop \in Promise!Ticks /\ at[who] < stop
          /\ at' = [at EXCEPT ![who] = stop]
          /\ \E x : traj' = [traj EXCEPT ![who] = x]
      <4>1. /\ who # Nobody /\ at' = [at EXCEPT ![who] = stop]
            /\ \E x : traj' = [traj EXCEPT ![who] = x]
        BY <2>1 DEF Segment, clients
      <4>2. /\ at[who] \in Int /\ now \in Int /\ stop \in Int
            /\ stop \in 0 .. Horizon /\ who \in Clients
            /\ at[who] <= now /\ now < stop
        BY <1>2, <4>1, ForcingConstants DEF ForcingInv, TypeOK, RunShape, Ticks
      <4>3. stop \in Promise!Ticks /\ at[who] < stop
        BY <4>2 DEF Promise!Ticks
      <4> QED
        BY <4>1, <4>2, <4>3, Zenon
    <3>2. traj'[who] = Promise!Forced(From[who], stop)
      BY <1>2, <3>1 DEF ForcingInv, IntegratedAsPromised, TypeOK
    <3>3. traj' = [traj EXCEPT ![who] = Promise!Forced(From[who], stop)]
      BY <1>2, <3>1, <3>2 DEF ForcingInv, TypeOK
    <3>4. Promise!Advance(who, stop)
      BY <3>1, <3>3 DEF Promise!Advance
    <3> QED
      BY <3>1, <3>4 DEF Promise!Next
  <2>2. CASE at' = at
    <3>1. traj' = traj
      BY <1>2, <2>2 DEF ForcingInv, IntegratedAsPromised
    <3> QED
      BY <2>2, <3>1 DEF Promise!vars
  <2>3. ASSUME NEW c \in Clients, Restart(c)
        PROVE  [Promise!Next]_(Promise!vars)
    BY <2>3 DEF Restart, Promise!Restart, Promise!Next, NoCells, Promise!NoCells,
                Default, Promise!Default
  <2>4. ASSUME ~Segment, ~ \E c \in Clients : Restart(c)
        PROVE  at' = at
    BY <1>2, <2>4 DEF Next, Build, Start, StartFails, StopsEarly, Refresh, RefreshFails,
                      vars, clients
  <2> QED
    BY <2>1, <2>2, <2>3, <2>4
<1> QED
  BY <1>1, <1>2, ForcingInvariant, PTL DEF Spec, KeepsPromise, Promise!Spec
=============================================================================

------------------------ MODULE SequentialFaerProofs ------------------------
(***************************************************************************)
(* Proofs about SequentialFaer, for any finite set of threads, any nesting *)
(* and any settings.  GuardInv is inductive; the properties follow from it.*)
(***************************************************************************)
EXTENDS SequentialFaer, FiniteSetTheorems, TLAPS

\* Only finitely many guards can be alive.
LEMMA GuardsFinite ==
  IsFiniteSet(Guards) /\ Cardinality(Guards) \in Nat
<1>1. IsFiniteSet(1 .. MaxDepth)
  BY GuardConstants, FS_Interval
<1>2. IsFiniteSet(Threads \X (1 .. MaxDepth))
  BY <1>1, GuardConstants, FS_Product
<1>3. Guards \subseteq Threads \X (1 .. MaxDepth)
  BY DEF Guards
<1>4. IsFiniteSet(Guards)
  BY <1>2, <1>3, FS_Subset
<1> QED
  BY <1>4, FS_CardinalityType

\* A thread that enters adds one guard ...
LEMMA EnteringAddsOne ==
  ASSUME TypeOK, NEW t \in Threads, depth[t] < MaxDepth,
         depth' = [depth EXCEPT ![t] = @ + 1]
  PROVE  Cardinality(Guards') = Cardinality(Guards) + 1
<1> DEFINE g == <<t, depth[t] + 1>>
<1>1. depth[t] \in Nat /\ MaxDepth \in Nat
  BY GuardConstants DEF TypeOK
<1>2. g \in Threads \X (1 .. MaxDepth) /\ g \notin Guards
  BY <1>1 DEF Guards
<1>3. ASSUME NEW x \in Threads \X (1 .. MaxDepth)
      PROVE  x \in Guards' <=> x \in Guards \union {g}
  <2>1. PICK s \in Threads, l \in 1 .. MaxDepth : x = <<s, l>>
    OBVIOUS
  <2>2. CASE s = t
    BY <1>1, <2>1, <2>2 DEF Guards, TypeOK
  <2>3. CASE s # t
    BY <2>1, <2>3 DEF Guards, TypeOK
  <2> QED
    BY <2>2, <2>3
<1>4. Guards' = Guards \union {g}
  BY <1>2, <1>3 DEF Guards
<1> QED
  BY <1>2, <1>4, GuardsFinite, FS_AddElement

\* ... and one that drops removes one.
LEMMA DroppingRemovesOne ==
  ASSUME TypeOK, NEW t \in Threads, depth[t] > 0,
         depth' = [depth EXCEPT ![t] = @ - 1]
  PROVE  /\ Cardinality(Guards') = Cardinality(Guards) - 1
         /\ Cardinality(Guards) > 0
<1> DEFINE g == <<t, depth[t]>>
<1>1. depth[t] \in 1 .. MaxDepth /\ MaxDepth \in Nat
  BY GuardConstants DEF TypeOK
<1>2. g \in Guards
  BY <1>1 DEF Guards
<1>3. ASSUME NEW x \in Threads \X (1 .. MaxDepth)
      PROVE  x \in Guards' <=> x \in Guards \ {g}
  <2>1. PICK s \in Threads, l \in 1 .. MaxDepth : x = <<s, l>>
    OBVIOUS
  <2>2. CASE s = t
    BY <1>1, <2>1, <2>2 DEF Guards, TypeOK
  <2>3. CASE s # t
    BY <2>1, <2>3 DEF Guards, TypeOK
  <2> QED
    BY <2>2, <2>3
<1>4. Guards' = Guards \ {g}
  BY <1>3 DEF Guards
<1>5. Cardinality(Guards) # 0
  BY <1>2, GuardsFinite, FS_EmptySet
<1>6. Cardinality(Guards \ {g}) = Cardinality(Guards) - 1
  BY <1>2, GuardsFinite, FS_RemoveElement
<1> QED
  BY <1>4, <1>5, <1>6, GuardsFinite

\* A guard held is a guard counted.
LEMMA HeldIsCounted ==
  ASSUME TypeOK, CountIsGuards, NEW t \in Threads, depth[t] > 0
  PROVE  count > 0
<1>1. depth[t] \in 1 .. MaxDepth
  BY GuardConstants DEF TypeOK
<1>2. <<t, 1>> \in Guards
  BY <1>1, GuardConstants DEF Guards
<1>3. Cardinality(Guards) # 0
  BY <1>2, GuardsFinite, FS_EmptySet
<1> QED
  BY <1>3, GuardsFinite DEF CountIsGuards

LEMMA InitEstablishes == Init => GuardInv
<1> SUFFICES ASSUME Init PROVE GuardInv
  OBVIOUS
<1>1. TypeOK
  BY GuardConstants DEF Init, TypeOK
<1>2. HolderMoves
  BY GuardConstants DEF Init, HolderMoves
<1>3. Guards = {}
  BY DEF Init, Guards
<1>4. CountIsGuards
  BY <1>3, FS_EmptySet DEF Init, CountIsGuards
<1>5. SettingFollows
  BY DEF Init, SettingFollows
<1> QED
  BY <1>1, <1>2, <1>4, <1>5 DEF GuardInv

\* A step that moves no guard keeps the count exact.
LEMMA SameGuards ==
  ASSUME UNCHANGED depth
  PROVE  Guards' = Guards
BY DEF Guards

LEMMA EnterPreserves ==
  ASSUME GuardInv, NEW t \in Threads, Enter(t)
  PROVE  GuardInv'
<1> USE DEF GuardInv, Enter, MayEnter, Goto
<1>1. TypeOK'
  BY DEF TypeOK
<1>2. HolderMoves'
  BY GuardConstants DEF TypeOK, HolderMoves
<1>3. CountIsGuards'
  BY SameGuards, GuardsFinite DEF TypeOK, CountIsGuards
<1>4. SettingFollows'
  BY GuardsFinite DEF TypeOK, CountIsGuards, SettingFollows, HolderMoves
<1> QED
  BY <1>1, <1>2, <1>3, <1>4

LEMMA SavePreserves ==
  ASSUME GuardInv, NEW t \in Threads, Save(t)
  PROVE  GuardInv'
<1> USE DEF GuardInv, Save, Goto
<1>1. TypeOK'
  BY DEF TypeOK
<1>2. HolderMoves'
  BY DEF TypeOK, HolderMoves
<1>3. CountIsGuards'
  BY SameGuards DEF TypeOK, CountIsGuards
<1>4. SettingFollows'
  <2>1. /\ lock = t /\ count = 0 /\ setting = host
        /\ \A s \in Threads : s # t => pc[s] = "run"
    BY DEF CountIsGuards, SettingFollows, HolderMoves
  <2>2. lock' # NoThread /\ count' = 0 /\ saved' = host' /\ setting' = host'
    BY <2>1, GuardConstants
  <2>3. \A s \in Threads : pc'[s] = IF s = t THEN "set" ELSE "run"
    BY <2>1 DEF TypeOK
  <2> QED
    BY <2>2, <2>3 DEF SettingFollows
<1> QED
  BY <1>1, <1>2, <1>3, <1>4

LEMMA SetPreserves ==
  ASSUME GuardInv, NEW t \in Threads, SetSequential(t)
  PROVE  GuardInv'
<1> USE DEF GuardInv, SetSequential, Goto
<1>1. TypeOK'
  BY GuardConstants DEF TypeOK
<1>2. HolderMoves'
  BY DEF TypeOK, HolderMoves
<1>3. CountIsGuards'
  BY SameGuards DEF TypeOK, CountIsGuards
<1>4. SettingFollows'
  <2>1. /\ lock = t /\ count = 0 /\ saved = host
        /\ \A s \in Threads : s # t => pc[s] = "run"
    BY DEF CountIsGuards, SettingFollows, HolderMoves
  <2>2. lock' # NoThread /\ count' = 0 /\ saved' = host' /\ setting' = Sequential
    BY <2>1, GuardConstants
  <2>3. \A s \in Threads : pc'[s] = IF s = t THEN "count" ELSE "run"
    BY <2>1 DEF TypeOK
  <2> QED
    BY <2>2, <2>3 DEF SettingFollows
<1> QED
  BY <1>1, <1>2, <1>3, <1>4

LEMMA EnteredPreserves ==
  ASSUME GuardInv, NEW t \in Threads, Entered(t)
  PROVE  GuardInv'
<1> USE DEF GuardInv, Entered, Goto
<1>1. TypeOK'
  <2>1. depth[t] + 1 \in 0 .. MaxDepth
    BY GuardConstants DEF TypeOK, HolderMoves
  <2>2. depth' \in [Threads -> 0 .. MaxDepth]
    BY <2>1 DEF TypeOK
  <2> QED
    BY <2>2 DEF TypeOK
<1>2. HolderMoves'
  BY GuardConstants DEF TypeOK, HolderMoves
<1>3. CountIsGuards'
  BY EnteringAddsOne DEF TypeOK, CountIsGuards, HolderMoves
<1>4. SettingFollows'
  BY GuardConstants DEF TypeOK, SettingFollows, HolderMoves
<1> QED
  BY <1>1, <1>2, <1>3, <1>4

LEMMA DropPreserves ==
  ASSUME GuardInv, NEW t \in Threads, Drop(t)
  PROVE  GuardInv'
<1> USE DEF GuardInv, Drop, MayDrop, Goto
<1>1. count > 0 /\ count' = count - 1 /\ count \in Nat
  BY HeldIsCounted DEF TypeOK
<1>2. TypeOK'
  BY <1>1, GuardConstants DEF TypeOK
<1>3. HolderMoves'
  BY GuardConstants DEF TypeOK, HolderMoves
<1>4. CountIsGuards'
  <2>1. count' = Cardinality(Guards')
    BY DroppingRemovesOne DEF CountIsGuards
  <2>2. \A s \in Threads : pc[s] = "run"
    BY GuardConstants DEF HolderMoves
  <2>3. ASSUME NEW s \in Threads, pc'[s] \in {"save", "set", "restore"}
        PROVE  count' = 0
    BY <1>1, <2>2, <2>3 DEF TypeOK
  <2> QED
    BY <2>1, <2>3 DEF CountIsGuards
<1>5. SettingFollows'
  BY <1>1, GuardConstants DEF TypeOK, SettingFollows, HolderMoves
<1> QED
  BY <1>2, <1>3, <1>4, <1>5

LEMMA RestorePreserves ==
  ASSUME GuardInv, NEW t \in Threads, Restore(t)
  PROVE  GuardInv'
<1> USE DEF GuardInv, Restore, Goto
<1>1. TypeOK'
  BY DEF TypeOK
<1>2. HolderMoves'
  BY GuardConstants DEF TypeOK, HolderMoves
<1>3. CountIsGuards'
  BY SameGuards DEF TypeOK, CountIsGuards
<1>4. SettingFollows'
  BY GuardConstants DEF TypeOK, CountIsGuards, SettingFollows, HolderMoves
<1> QED
  BY <1>1, <1>2, <1>3, <1>4

LEMMA HostPreserves ==
  ASSUME GuardInv, NEW p \in Settings, HostSets(p)
  PROVE  GuardInv'
<1> USE DEF GuardInv, HostSets
<1>1. TypeOK'
  BY DEF TypeOK
<1>2. HolderMoves'
  BY DEF HolderMoves
<1>3. CountIsGuards'
  BY SameGuards DEF CountIsGuards
<1>4. SettingFollows'
  BY GuardConstants DEF TypeOK, SettingFollows, HolderMoves
<1> QED
  BY <1>1, <1>2, <1>3, <1>4

\* GuardInv holds throughout.
THEOREM GuardInvariant == Spec => []GuardInv
<1>1. ASSUME GuardInv, [Next]_vars PROVE GuardInv'
  <2>1. CASE UNCHANGED vars
    BY <1>1, <2>1, SameGuards
       DEF vars, GuardInv, TypeOK, HolderMoves, CountIsGuards, SettingFollows
  <2>2. CASE Next
    BY <1>1, <2>2, EnterPreserves, SavePreserves, SetPreserves, EnteredPreserves,
       DropPreserves, RestorePreserves, HostPreserves DEF Next
  <2> QED
    BY <1>1, <2>1, <2>2
<1> QED
  BY InitEstablishes, <1>1, PTL DEF Spec

\* An explicit solve's linear algebra is sequential as long as it runs,
\* whatever other solves start, end, fail or nest meanwhile.
THEOREM ExplicitSequential == Spec => []ExplicitIsSequential
<1>1. GuardInv => ExplicitIsSequential
  BY HeldIsCounted DEF GuardInv, SettingFollows, ExplicitIsSequential
<1> QED
  BY <1>1, GuardInvariant, PTL

\* The last guard to go puts the host's setting back.
THEOREM HostSettingRestored == Spec => []QuietIsRestored
<1>1. GuardInv => QuietIsRestored
  BY DEF GuardInv, SettingFollows, QuietIsRestored
<1> QED
  BY <1>1, GuardInvariant, PTL
=============================================================================

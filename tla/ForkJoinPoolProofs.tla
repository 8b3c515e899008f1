------------------------- MODULE ForkJoinPoolProofs -------------------------
(***************************************************************************)
(* Proofs about ForkJoinPool, for every number of callers, shares and      *)
(* worker threads and any number of dispatches.  The argument is two       *)
(* inductive invariants: PoolInv, about the shared cells, gives the safety *)
(* properties; CallInv, about what each call has begun and where its       *)
(* panics are remembered, gives the refinement of ForkJoin.                *)
(***************************************************************************)
EXTENDS ForkJoinPool, FiniteSetTheorems, TLAPS

USE DEF Workers, Shares

\* The steps that touch neither the word nor what a worker saw, and move no
\* worker into or out of its share, leave the outstanding shares alone.
LEMMA OutstandingUnchanged ==
  ASSUME UNCHANGED <<word, seen>>,
         \A w \in Workers : InShare(w)' <=> InShare(w)
  PROVE  Outstanding' = Outstanding
BY DEF Outstanding

\* Only finitely many shares can be outstanding.
LEMMA OutstandingFinite ==
  IsFiniteSet(Outstanding) /\ Cardinality(Outstanding) \in Nat
<1>1. IsFiniteSet(Workers)
  BY PoolConstants, FS_Interval
<1>2. Outstanding \in SUBSET Workers
  BY DEF Outstanding
<1>3. IsFiniteSet(Outstanding)
  BY <1>1, <1>2, FS_Subset
<1> QED
  BY <1>3, FS_CardinalityType

\* A worker in its share is outstanding, so a dispatch is going on, the job
\* cell holds its caller and the count is positive.
LEMMA ShareNeedsDispatch ==
  ASSUME PoolInv, NEW w \in Workers, InShare(w)
  PROVE  /\ w \in Outstanding
         /\ job \in Callers /\ Dispatched(job)
         /\ w < want[job] /\ w \in Shares
         /\ pending \in Nat /\ pending >= 1
         /\ pending = Cardinality(Outstanding)
<1>1. w \in Outstanding
  BY DEF PoolInv, WorkersAreCounted, Outstanding
<1>2. PICK c \in Callers : Dispatched(c)
  BY <1>1 DEF PoolInv, DispatchIsPrepared
<1>3. job = c /\ word.ways = ways[c] /\ ways[c] <= want[c]
  BY <1>2 DEF PoolInv, DispatchIsPrepared, Dispatched
<1>4. w < word.ways
  BY <1>1 DEF Outstanding
<1>5. /\ ways[c] \in Nat /\ want[c] \in 0 .. MaxWant
  BY PoolConstants DEF PoolInv, TypeOK
<1>6. w < want[c] /\ w \in Shares
  BY <1>3, <1>4, <1>5, PoolConstants
<1>7. pending = Cardinality(Outstanding)
  BY <1>2 DEF PoolInv, PendingCountsOutstanding
<1>8. Cardinality(Outstanding) # 0
  BY <1>1, OutstandingFinite, FS_EmptySet
<1> QED
  BY <1>1, <1>2, <1>3, <1>6, <1>7, <1>8, OutstandingFinite

\* Counting one more start of a share keeps the counts numbers.
LEMMA BegunTyped ==
  ASSUME begun \in [Callers -> [Shares -> Nat]],
         NEW c \in Callers, NEW s \in Shares, Began(c, s)
  PROVE  begun' \in [Callers -> [Shares -> Nat]]
<1>1. begun[c] \in [Shares -> Nat]
  OBVIOUS
<1>2. begun[c][s] + 1 \in Nat
  BY <1>1
<1>3. [begun[c] EXCEPT ![s] = begun[c][s] + 1] \in [Shares -> Nat]
  BY <1>1, <1>2
<1> QED
  BY <1>3 DEF Began

-----------------------------------------------------------------------------
(* Type correctness of one step *)

LEMMA TypeStepCaller ==
  ASSUME PoolInv, NEW c \in Callers,
         CallerStep(c) \/ \E n \in 1 .. MaxWant : Call(c, n)
  PROVE  TypeOK'
<1> USE PoolConstants DEF PoolInv, cells, threads, locals, history, CallerLabels,
        WorkerLabels, Goto, Lesser
<1>1. CASE \E n \in 1 .. MaxWant : Call(c, n)
  <2>1. PICK n \in 1 .. MaxWant : Call(c, n)
    BY <1>1
  <2>2. want' \in [Callers -> 0 .. MaxWant]
    BY <2>1 DEF Call, TypeOK
  <2>3. ways' \in [Callers -> 0 .. WaysCap]
    BY <2>1 DEF Call, TypeOK
  <2>4. /\ next' \in [Callers -> Nat]
        /\ failed' \in [Callers -> BOOLEAN]
        /\ pc' \in [Callers -> CallerLabels]
    BY <2>1 DEF Call, TypeOK
  <2> QED
    BY <2>1, <2>2, <2>3, <2>4 DEF Call, TypeOK
<1>2. CASE Claim(c)
  BY <1>2 DEF Claim, TypeOK
<1>3. CASE Spawn(c)
  <2>1. nworkers' \in Nat /\ nworkers' < WaysCap /\ nworkers' \in Workers
    BY <1>3 DEF Spawn, TypeOK
  <2>2. wpc' \in [Workers -> WorkerLabels]
    BY <1>3, <2>1 DEF Spawn, TypeOK
  <2>3. seen' \in [Workers -> Nat]
    BY <1>3, <2>1 DEF Spawn, TypeOK
  <2> QED
    BY <1>3, <2>1, <2>2, <2>3 DEF Spawn, TypeOK
<1>4. CASE Grown(c)
  <2>1. ways' \in [Callers -> 0 .. WaysCap]
    BY <1>4 DEF Grown, TypeOK
  <2>2. pc' \in [Callers -> CallerLabels]
    BY <1>4 DEF Grown, TypeOK
  <2> QED
    BY <1>4, <2>1, <2>2 DEF Grown, TypeOK
<1>5. CASE Unclaim(c)
  BY <1>5 DEF Unclaim, TypeOK
<1>6. CASE SetJob(c)
  BY <1>6 DEF SetJob, TypeOK
<1>7. CASE SetPending(c)
  <2>1. ways[c] \in Nat /\ ways[c] >= 2
    BY <1>7 DEF SetPending, TypeOK, DispatchIsPrepared
  <2>2. pending' \in Nat
    BY <1>7, <2>1 DEF SetPending
  <2>3. pc' \in [Callers -> CallerLabels]
    BY <1>7 DEF SetPending, TypeOK
  <2> QED
    BY <1>7, <2>2, <2>3 DEF SetPending, TypeOK
<1>8. CASE SetWord(c)
  <2>1. word' \in [epoch : Nat, ways : 0 .. WaysCap]
    BY <1>8 DEF SetWord, TypeOK
  <2>2. /\ pc' \in [Callers -> CallerLabels]
        /\ next' \in [Callers -> Nat]
    BY <1>8 DEF SetWord, TypeOK
  <2> QED
    BY <1>8, <2>1, <2>2 DEF SetWord, TypeOK
<1>9. CASE Unpark(c)
  <2>1. token' \in [Workers -> BOOLEAN]
    BY <1>9 DEF Unpark, TypeOK
  <2>2. next' \in [Callers -> Nat]
    <3>1. next \in [Callers -> Nat] /\ next[c] + 1 \in Nat
      BY DEF TypeOK
    <3> QED
      BY <1>9, <3>1 DEF Unpark
  <2>3. pc' \in [Callers -> CallerLabels]
    <3>1. pc \in [Callers -> CallerLabels]
      BY DEF TypeOK
    <3> QED
      BY <1>9, <3>1 DEF Unpark
  <2> QED
    BY <1>9, <2>1, <2>2, <2>3 DEF Unpark, TypeOK
<1>10. CASE \E p \in BOOLEAN : OwnShare(c, p)
  <2>1. PICK p \in BOOLEAN : OwnShare(c, p)
    BY <1>10
  <2>2. next[c] \in Shares
    BY <2>1 DEF OwnShare, TypeOK
  <2>3. begun' \in [Callers -> [Shares -> Nat]]
    BY <2>1, <2>2, BegunTyped DEF OwnShare, TypeOK, Began
  <2>4. blown' \in [Callers -> SUBSET Shares]
    BY <2>1, <2>2 DEF OwnShare, TypeOK, Blew
  <2>5. next' \in [Callers -> Nat]
    <3>1. /\ next \in [Callers -> Nat] /\ next[c] + 1 \in Nat
          /\ ways[c] \in Nat
      BY DEF TypeOK
    <3> QED
      BY <2>1, <3>1 DEF OwnShare
  <2>6. /\ failed' \in [Callers -> BOOLEAN]
        /\ pc' \in [Callers -> CallerLabels]
    BY <2>1 DEF OwnShare, TypeOK
  <2> QED
    BY <2>1, <2>3, <2>4, <2>5, <2>6 DEF OwnShare, TypeOK
<1>11. CASE \E p \in BOOLEAN : SerialShare(c, p)
  <2>1. PICK p \in BOOLEAN : SerialShare(c, p)
    BY <1>11
  <2>2. next[c] \in Shares
    BY <2>1 DEF SerialShare, TypeOK
  <2>3. begun' \in [Callers -> [Shares -> Nat]]
    BY <2>1, <2>2, BegunTyped DEF SerialShare, TypeOK, Began
  <2>4. blown' \in [Callers -> SUBSET Shares]
    BY <2>1, <2>2 DEF SerialShare, TypeOK, Blew
  <2>5. next' \in [Callers -> Nat]
    <3>1. /\ next \in [Callers -> Nat] /\ next[c] + 1 \in Nat
          /\ ways[c] \in Nat
      BY DEF TypeOK
    <3> QED
      BY <2>1, <3>1 DEF SerialShare
  <2>6. /\ failed' \in [Callers -> BOOLEAN]
        /\ pc' \in [Callers -> CallerLabels]
    BY <2>1 DEF SerialShare, TypeOK
  <2> QED
    BY <2>1, <2>3, <2>4, <2>5, <2>6 DEF SerialShare, TypeOK
<1>12. CASE OwnDone(c)
  BY <1>12 DEF OwnDone, TypeOK
<1>13. CASE Wait(c)
  BY <1>13 DEF Wait, TypeOK
<1>14. CASE Collect(c)
  BY <1>14 DEF Collect, TypeOK
<1>15. CASE Release(c)
  BY <1>15 DEF Release, TypeOK
<1>16. CASE SerialDone(c)
  BY <1>16 DEF SerialDone, TypeOK
<1>17. CASE Leave(c)
  <2>1. begun' \in [Callers -> [Shares -> Nat]]
    BY <1>17 DEF Leave, TypeOK, None
  <2>2. /\ want' \in [Callers -> 0 .. MaxWant]
        /\ ways' \in [Callers -> 0 .. WaysCap]
        /\ next' \in [Callers -> Nat]
    BY <1>17 DEF Leave, TypeOK
  <2>3. /\ failed' \in [Callers -> BOOLEAN]
        /\ blown' \in [Callers -> SUBSET Shares]
        /\ pc' \in [Callers -> CallerLabels]
    BY <1>17 DEF Leave, TypeOK
  <2> QED
    BY <1>17, <2>1, <2>2, <2>3 DEF Leave, TypeOK
<1> QED
  BY <1>1, <1>2, <1>3, <1>4, <1>5, <1>6, <1>7, <1>8, <1>9, <1>10, <1>11, <1>12,
     <1>13, <1>14, <1>15, <1>16, <1>17 DEF CallerStep

LEMMA TypeStepWorker ==
  ASSUME PoolInv, NEW w \in Workers, WorkerStep(w) \/ SpuriousWakeup(w)
  PROVE  TypeOK'
<1> USE PoolConstants DEF PoolInv, cells, threads, locals, history, CallerLabels,
        WorkerLabels, WGoto
<1>1. CASE PollNew(w)
  BY <1>1 DEF PollNew, TypeOK
<1>2. CASE PollOld(w)
  BY <1>2 DEF PollOld, TypeOK
<1>3. CASE Unparked(w)
  BY <1>3 DEF Unparked, TypeOK
<1>4. CASE SpuriousWakeup(w)
  BY <1>4 DEF SpuriousWakeup, TypeOK
<1>5. CASE Fetch(w)
  <2>1. InShare(w)
    BY <1>5 DEF Fetch, InShare
  <2>2. w \in Shares
    BY <2>1, ShareNeedsDispatch
  <2>3. begun' \in [Callers -> [Shares -> Nat]]
    BY <1>5, <2>2, BegunTyped DEF Fetch, TypeOK, Began
  <2>4. /\ wjob' \in [Workers -> Callers \union {NoCaller}]
        /\ wpc' \in [Workers -> WorkerLabels]
    BY <1>5 DEF Fetch, TypeOK
  <2> QED
    BY <1>5, <2>3, <2>4 DEF Fetch, TypeOK
<1>6. CASE \E p \in BOOLEAN : Exec(w, p)
  <2>1. InShare(w)
    BY <1>6 DEF Exec, InShare
  <2>2. w \in Shares
    BY <2>1, ShareNeedsDispatch
  <2>3. PICK p \in BOOLEAN : Exec(w, p)
    BY <1>6
  <2>4. blown' \in [Callers -> SUBSET Shares]
    BY <2>2, <2>3 DEF Exec, TypeOK, Blew
  <2>5. /\ wjob' \in [Workers -> Callers \union {NoCaller}]
        /\ wpc' \in [Workers -> WorkerLabels]
    BY <2>3 DEF Exec, TypeOK
  <2> QED
    BY <2>3, <2>4, <2>5 DEF Exec, TypeOK
<1>7. CASE Flag(w)
  BY <1>7 DEF Flag, TypeOK
<1>8. CASE Finish(w)
  <2>1. InShare(w)
    BY <1>8 DEF Finish, InShare
  <2>2. pending \in Nat /\ pending >= 1
    BY <2>1, ShareNeedsDispatch
  <2>3. pending' \in Nat
    BY <1>8, <2>2 DEF Finish
  <2>4. wpc' \in [Workers -> WorkerLabels]
    BY <1>8 DEF Finish, TypeOK
  <2> QED
    BY <1>8, <2>3, <2>4 DEF Finish, TypeOK
<1> QED
  BY <1>1, <1>2, <1>3, <1>4, <1>5, <1>6, <1>7, <1>8 DEF WorkerStep

-----------------------------------------------------------------------------
(* One dispatch at a time *)

\* Winning the swap is the only way to start holding `busy`, and it is won
\* only when nobody holds it.
LEMMA ExclusiveStep ==
  ASSUME PoolInv, [Next]_vars
  PROVE  OneDispatchAtATime'
<1> USE DEF OneDispatchAtATime, Holds, Goto, cells
<1>0. pc \in [Callers -> CallerLabels]
  BY DEF PoolInv, TypeOK
<1>1. ASSUME NEW c \in Callers, \E n \in 1 .. MaxWant : Call(c, n)
      PROVE  OneDispatchAtATime'
  BY <1>0, <1>1 DEF PoolInv, Call
<1>2. ASSUME NEW c \in Callers, Claim(c)
      PROVE  OneDispatchAtATime'
  BY <1>0, <1>2 DEF PoolInv, Claim
<1>3. ASSUME NEW c \in Callers,
             \/ Grown(c) \/ SetJob(c) \/ SetPending(c) \/ SetWord(c)
             \/ OwnDone(c) \/ Wait(c) \/ Collect(c) \/ SerialDone(c)
      PROVE  OneDispatchAtATime'
  BY <1>0, <1>3 DEF PoolInv, Grown, SetJob, SetPending, SetWord, OwnDone, Wait,
     Collect, SerialDone
<1>4. ASSUME NEW c \in Callers, Spawn(c) \/ Unpark(c)
      PROVE  OneDispatchAtATime'
  BY <1>0, <1>4 DEF PoolInv, Spawn, Unpark, locals
<1>5. ASSUME NEW c \in Callers, NEW p \in BOOLEAN, OwnShare(c, p) \/ SerialShare(c, p)
      PROVE  OneDispatchAtATime'
  BY <1>0, <1>5 DEF PoolInv, OwnShare, SerialShare
<1>6. ASSUME NEW c \in Callers, Unclaim(c) \/ Release(c)
      PROVE  OneDispatchAtATime'
  BY <1>0, <1>6 DEF PoolInv, Unclaim, Release
<1>7. ASSUME NEW c \in Callers, Leave(c)
      PROVE  OneDispatchAtATime'
  BY <1>0, <1>7 DEF PoolInv, Leave
<1>8. ASSUME NEW w \in Workers, WorkerStep(w) \/ SpuriousWakeup(w)
      PROVE  OneDispatchAtATime'
  BY <1>8 DEF PoolInv, WorkerStep, SpuriousWakeup, PollNew, PollOld, Unparked, Fetch,
     Exec, Flag, Finish, locals
<1>9. CASE UNCHANGED vars
  BY <1>9 DEF PoolInv, vars, locals
<1> QED
  BY <1>1, <1>2, <1>3, <1>4, <1>5, <1>6, <1>7, <1>8, <1>9 DEF Next, CallerStep

-----------------------------------------------------------------------------
(* Workers are counted *)

\* A caller moves the word only with nothing outstanding, so no worker is in
\* a share of an epoch that is not the published one.
LEMMA NothingOutstanding ==
  ASSUME PoolInv, NEW c \in Callers, Holds(c), ~Dispatched(c)
  PROVE  /\ Outstanding = {}
         /\ \A w \in Workers : ~InShare(w)
         /\ \A d \in Callers : ~Dispatched(d)
<1>1. \A d \in Callers : ~Dispatched(d)
  BY DEF PoolInv, OneDispatchAtATime, Holds, Dispatched
<1>2. Outstanding = {}
  BY <1>1 DEF PoolInv, DispatchIsPrepared
<1> QED
  BY <1>1, <1>2, ShareNeedsDispatch

LEMMA CountedStep ==
  ASSUME PoolInv, [Next]_vars
  PROVE  WorkersAreCounted'
<1> USE DEF WorkersAreCounted, InShare
<1>0. /\ word.epoch \in Nat
      /\ seen \in [Workers -> Nat] /\ wpc \in [Workers -> WorkerLabels]
      /\ wjob \in [Workers -> Callers \union {NoCaller}]
  BY DEF PoolInv, TypeOK
<1>1. ASSUME NEW c \in Callers, Spawn(c)
      PROVE  WorkersAreCounted'
  BY <1>0, <1>1, NothingOutstanding DEF PoolInv, Spawn, Holds, Dispatched
<1>2. ASSUME NEW c \in Callers, SetJob(c)
      PROVE  WorkersAreCounted'
  BY <1>0, <1>2, NothingOutstanding DEF PoolInv, SetJob, Holds, Dispatched, threads
<1>3. ASSUME NEW c \in Callers, SetWord(c)
      PROVE  WorkersAreCounted'
  BY <1>0, <1>3, NothingOutstanding DEF PoolInv, SetWord, Holds, Dispatched, threads
<1>4. ASSUME NEW c \in Callers,
             \/ \E n \in 1 .. MaxWant : Call(c, n)
             \/ Claim(c) \/ Grown(c) \/ Unclaim(c) \/ SetPending(c) \/ Unpark(c)
             \/ \E p \in BOOLEAN : OwnShare(c, p) \/ SerialShare(c, p)
             \/ OwnDone(c) \/ Wait(c) \/ Collect(c) \/ Release(c) \/ SerialDone(c)
             \/ Leave(c)
      PROVE  WorkersAreCounted'
  <2>1. UNCHANGED <<word, job, wpc, seen, wjob>>
    BY <1>4 DEF Call, Claim, Grown, Unclaim, SetPending, Unpark, OwnShare, SerialShare,
       OwnDone, Wait, Collect, Release, SerialDone, Leave, cells, threads
  <2> QED
    BY <2>1 DEF PoolInv
<1>5. ASSUME NEW w \in Workers, PollNew(w)
      PROVE  WorkersAreCounted'
  BY <1>0, <1>5 DEF PoolInv, PollNew, WGoto, cells
<1>6. ASSUME NEW w \in Workers, PollOld(w) \/ Unparked(w) \/ SpuriousWakeup(w)
      PROVE  WorkersAreCounted'
  BY <1>0, <1>6 DEF PoolInv, PollOld, Unparked, SpuriousWakeup, WGoto, cells
<1>7. ASSUME NEW w \in Workers,
             Fetch(w) \/ (\E p \in BOOLEAN : Exec(w, p)) \/ Flag(w) \/ Finish(w)
      PROVE  WorkersAreCounted'
  BY <1>0, <1>7 DEF PoolInv, Fetch, Exec, Flag, Finish, WGoto, cells
<1>8. CASE UNCHANGED vars
  BY <1>8 DEF PoolInv, vars, cells, threads
<1> QED
  BY <1>1, <1>2, <1>3, <1>4, <1>5, <1>6, <1>7, <1>8 DEF Next, CallerStep, WorkerStep

-----------------------------------------------------------------------------
(* How the set of outstanding shares moves *)

\* The steps of a caller, other than growing the pool and publishing a word.
QuietCallerStep(c) ==
  \/ \E n \in 1 .. MaxWant : Call(c, n)
  \/ Claim(c) \/ Grown(c) \/ Unclaim(c) \/ SetJob(c) \/ SetPending(c) \/ Unpark(c)
  \/ \E p \in BOOLEAN : OwnShare(c, p) \/ SerialShare(c, p)
  \/ OwnDone(c) \/ Wait(c) \/ Collect(c) \/ Release(c) \/ SerialDone(c) \/ Leave(c)

\* The steps of a worker, other than finishing its share.
QuietWorkerStep(w) ==
  \/ PollNew(w) \/ PollOld(w) \/ Unparked(w) \/ SpuriousWakeup(w)
  \/ Fetch(w) \/ (\E p \in BOOLEAN : Exec(w, p)) \/ Flag(w)

\* A worker that takes its share goes from "has not seen the epoch" to "in
\* its share": outstanding before and after.
LEMMA QuietStep ==
  ASSUME PoolInv,
         \/ \E c \in Callers : QuietCallerStep(c) \/ Spawn(c)
         \/ \E w \in Workers : QuietWorkerStep(w)
  PROVE  Outstanding' = Outstanding
<1>0. seen \in [Workers -> Nat] /\ wpc \in [Workers -> WorkerLabels]
  BY DEF PoolInv, TypeOK
<1>1. ASSUME NEW c \in Callers, QuietCallerStep(c)
      PROVE  Outstanding' = Outstanding
  <2>1. UNCHANGED <<word, wpc, seen>>
    BY <1>1 DEF QuietCallerStep, Call, Claim, Grown, Unclaim, SetJob, SetPending, Unpark,
       OwnShare, SerialShare, OwnDone, Wait, Collect, Release, SerialDone, Leave,
       cells, threads
  <2> QED
    BY <2>1 DEF Outstanding, InShare
<1>2. ASSUME NEW c \in Callers, Spawn(c)
      PROVE  Outstanding' = Outstanding
  <2>1. /\ Outstanding = {}
        /\ \A w \in Workers : ~InShare(w)
    BY <1>2, NothingOutstanding DEF Spawn, Holds, Dispatched
  <2>2. \A w \in Workers : ~(w < word'.ways /\ (seen'[w] # word'.epoch \/ InShare(w)'))
    BY <1>0, <1>2, <2>1 DEF Spawn, Outstanding, InShare
  <2> QED
    BY <2>1, <2>2 DEF Outstanding
<1>3. ASSUME NEW w \in Workers, PollNew(w)
      PROVE  Outstanding' = Outstanding
  BY <1>0, <1>3 DEF PollNew, WGoto, cells, Outstanding, InShare
<1>4. ASSUME NEW w \in Workers,
             \/ PollOld(w) \/ Unparked(w) \/ SpuriousWakeup(w)
             \/ Fetch(w) \/ (\E p \in BOOLEAN : Exec(w, p)) \/ Flag(w)
      PROVE  Outstanding' = Outstanding
  <2>1. UNCHANGED <<word, seen>>
    BY <1>4 DEF PollOld, Unparked, SpuriousWakeup, Fetch, Exec, Flag, cells
  <2>2. \A x \in Workers : InShare(x)' <=> InShare(x)
    BY <1>0, <1>4 DEF PollOld, Unparked, SpuriousWakeup, Fetch, Exec, Flag, WGoto, InShare
  <2> QED
    BY <2>1, <2>2 DEF Outstanding
<1> QED
  BY <1>1, <1>2, <1>3, <1>4 DEF QuietWorkerStep

\* Publishing makes every worker share of the dispatch outstanding, whatever
\* epoch each worker saw last.
LEMMA PublishStep ==
  ASSUME PoolInv, NEW c \in Callers, SetWord(c)
  PROVE  Cardinality(Outstanding') = ways[c] - 1
<1>1. /\ word.epoch \in Nat /\ seen \in [Workers -> Nat]
      /\ ways[c] \in 0 .. WaysCap /\ ways[c] >= 2
  BY DEF PoolInv, TypeOK, DispatchIsPrepared, SetWord
<1>2. \A w \in Workers : seen[w] # word.epoch + 1
  BY <1>1 DEF PoolInv, WorkersAreCounted
<1>3. /\ word'.epoch = word.epoch + 1 /\ word'.ways = ways[c]
      /\ seen' = seen
  BY DEF SetWord, threads
<1>4. Outstanding' = 1 .. ways[c] - 1
  BY <1>1, <1>2, <1>3, PoolConstants DEF Outstanding
<1>5. Cardinality(1 .. ways[c] - 1) = ways[c] - 1
  BY <1>1, FS_Interval
<1> QED
  BY <1>4, <1>5

\* Finishing takes exactly this worker out.
LEMMA FinishStep ==
  ASSUME PoolInv, NEW w \in Workers, Finish(w)
  PROVE  /\ Outstanding' = Outstanding \ {w}
         /\ w \in Outstanding
         /\ pending = Cardinality(Outstanding)
         /\ Cardinality(Outstanding') = pending - 1
<1>1. wpc \in [Workers -> WorkerLabels]
  BY DEF PoolInv, TypeOK
<1>2. InShare(w)
  BY DEF Finish, InShare
<1>3. w \in Outstanding /\ pending = Cardinality(Outstanding)
  BY <1>2, ShareNeedsDispatch
<1>4. seen[w] = word.epoch
  BY <1>2 DEF PoolInv, WorkersAreCounted
<1>5. Outstanding' = Outstanding \ {w}
  BY <1>1, <1>4 DEF Finish, WGoto, Outstanding, InShare
<1> QED
  BY <1>3, <1>5, OutstandingFinite, FS_RemoveElement

-----------------------------------------------------------------------------
(* The dispatch is prepared, counted, and keeps its panics *)

DispatchInv == DispatchIsPrepared /\ PendingCountsOutstanding /\ PanicStaysInItsDispatch

\* A worker that neither finishes nor raises the flag changes nothing the
\* three parts mention.
LEMMA DispatchStepWorker ==
  ASSUME PoolInv, NEW w \in Workers, WorkerStep(w) \/ SpuriousWakeup(w)
  PROVE  DispatchInv'
<1> USE DEF DispatchInv
<1>1. CASE PollNew(w) \/ PollOld(w) \/ Unparked(w) \/ SpuriousWakeup(w)
           \/ Fetch(w) \/ (\E p \in BOOLEAN : Exec(w, p))
  <2>1. Outstanding' = Outstanding
    BY <1>1, QuietStep DEF QuietWorkerStep
  <2>2. UNCHANGED <<cells, locals>>
    BY <1>1 DEF PollNew, PollOld, Unparked, SpuriousWakeup, Fetch, Exec
  <2> QED
    BY <2>1, <2>2 DEF PoolInv, DispatchIsPrepared, PendingCountsOutstanding,
       PanicStaysInItsDispatch, Dispatched, cells, locals
<1>2. CASE Flag(w)
  <2>1. Outstanding' = Outstanding
    BY <1>2, QuietStep DEF QuietWorkerStep
  <2>2. UNCHANGED <<word, job, pending, locals>>
    BY <1>2 DEF Flag
  <2>3. InShare(w)
    BY <1>2 DEF Flag, InShare
  <2>4. job \in Callers /\ Dispatched(job)
    BY <2>3, ShareNeedsDispatch
  <2>5. PanicStaysInItsDispatch'
    BY <2>2, <2>4 DEF PanicStaysInItsDispatch, Dispatched, locals
  <2>6. DispatchIsPrepared' /\ PendingCountsOutstanding'
    BY <2>1, <2>2 DEF PoolInv, DispatchIsPrepared, PendingCountsOutstanding,
       Dispatched, locals
  <2> QED
    BY <2>5, <2>6
<1>3. CASE Finish(w)
  <2>1. /\ Outstanding' = Outstanding \ {w}
        /\ Cardinality(Outstanding') = pending - 1
    BY <1>3, FinishStep
  <2>2. UNCHANGED <<word, job, panicked, locals>> /\ pending' = pending - 1
    BY <1>3 DEF Finish
  <2>3. InShare(w)
    BY <1>3 DEF Finish, InShare
  <2>4. job \in Callers /\ Dispatched(job)
    BY <2>3, ShareNeedsDispatch
  <2>5. \A c \in Callers : pc[c] # "setWord"
    BY <2>4 DEF PoolInv, OneDispatchAtATime, Holds, Dispatched
  <2>6. DispatchIsPrepared'
    BY <2>1, <2>2, <2>5 DEF PoolInv, DispatchIsPrepared, Dispatched, locals
  <2>7. PendingCountsOutstanding'
    BY <2>1, <2>2 DEF PendingCountsOutstanding
  <2>8. PanicStaysInItsDispatch'
    BY <2>2 DEF PoolInv, PanicStaysInItsDispatch, Dispatched, locals
  <2> QED
    BY <2>6, <2>7, <2>8
<1> QED
  BY <1>1, <1>2, <1>3 DEF WorkerStep

\* A caller's step.  The three that matter: SetWord starts a dispatch over an
\* empty set of outstanding shares, Wait ends it when the count says the set
\* is empty again, and Collect clears the flag before anybody else can claim.
LEMMA DispatchStepCaller ==
  ASSUME PoolInv, NEW c \in Callers,
         CallerStep(c) \/ \E n \in 1 .. MaxWant : Call(c, n)
  PROVE  DispatchInv'
<1> USE DEF DispatchInv, Dispatched, Goto
<1>0. /\ pc \in [Callers -> CallerLabels]
      /\ ways \in [Callers -> 0 .. WaysCap]
      /\ want \in [Callers -> 0 .. MaxWant]
      /\ nworkers \in Nat
      /\ MaxWant \in Nat /\ WaysCap \in Nat
  BY PoolConstants DEF PoolInv, TypeOK
<1>q. ASSUME QuietCallerStep(c) \/ Spawn(c)
      PROVE  Outstanding' = Outstanding
  BY <1>q, QuietStep
<1>1. ASSUME NEW n \in 1 .. MaxWant, Call(c, n)
      PROVE  DispatchInv'
  <2>1. Outstanding' = Outstanding
    BY <1>1, <1>q DEF QuietCallerStep
  <2>2. ways'[c] <= want'[c]
    BY <1>0, <1>1 DEF Call, Lesser
  <2> QED
    BY <1>0, <1>1, <2>1, <2>2 DEF PoolInv, Call, cells, DispatchIsPrepared,
       PendingCountsOutstanding, PanicStaysInItsDispatch
<1>2. CASE Claim(c) \/ Unclaim(c) \/ SetJob(c) \/ SetPending(c) \/ SerialDone(c)
  <2>1. Outstanding' = Outstanding
    BY <1>2, <1>q DEF QuietCallerStep
  <2>2. ~Dispatched(c) /\ (pc[c] \in {"claim", "serial", "serialDone"} \/ Holds(c))
    BY <1>2 DEF Claim, Unclaim, SetJob, SetPending, SerialDone, Holds
  <2>3. CASE Claim(c) \/ Unclaim(c) \/ SerialDone(c)
    BY <1>0, <2>1, <2>3 DEF PoolInv, Claim, Unclaim, SerialDone, cells,
       DispatchIsPrepared, PendingCountsOutstanding, PanicStaysInItsDispatch
  <2>4. CASE SetJob(c) \/ SetPending(c)
    <3>1. \A d \in Callers : d # c => ~Holds(d)
      BY <2>4 DEF PoolInv, OneDispatchAtATime, SetJob, SetPending, Holds
    <3> QED
      BY <1>0, <2>1, <2>4, <3>1 DEF PoolInv, SetJob, SetPending, cells, Holds,
         DispatchIsPrepared, PendingCountsOutstanding, PanicStaysInItsDispatch
  <2> QED
    BY <1>2, <2>3, <2>4
<1>3. CASE Spawn(c)
  <2>1. Outstanding' = Outstanding
    BY <1>3, <1>q
  <2> QED
    BY <1>3, <2>1 DEF PoolInv, Spawn, locals, DispatchIsPrepared,
       PendingCountsOutstanding, PanicStaysInItsDispatch
<1>4. CASE Grown(c)
  <2>1. Outstanding' = Outstanding
    BY <1>4, <1>q DEF QuietCallerStep
  <2>2. ways'[c] <= want'[c]
    BY <1>0, <1>4 DEF PoolInv, DispatchIsPrepared, Grown, Lesser
  <2>3. pc'[c] = "setJob" => ways'[c] >= 2
    BY <1>0, <1>4 DEF Grown, Lesser
  <2>4. /\ pc' = [pc EXCEPT ![c] = pc'[c]] /\ pc'[c] \in {"unclaim", "setJob"}
        /\ pc[c] = "grow"
        /\ \A d \in Callers : d # c => ways'[d] = ways[d]
        /\ UNCHANGED <<cells, want>>
    BY <1>0, <1>4 DEF Grown
  <2> QED
    BY <1>0, <2>1, <2>2, <2>3, <2>4 DEF PoolInv, cells, DispatchIsPrepared,
       PendingCountsOutstanding, PanicStaysInItsDispatch
<1>5. CASE SetWord(c)
  <2>1. Cardinality(Outstanding') = ways[c] - 1
    BY <1>5, PublishStep
  <2>2. /\ job = c /\ pending = ways[c] - 1
        /\ \A d \in Callers : d # c => ~Holds(d)
    BY <1>5 DEF PoolInv, DispatchIsPrepared, OneDispatchAtATime, SetWord, Holds
  <2> QED
    BY <1>0, <1>5, <2>1, <2>2 DEF PoolInv, SetWord, Holds,
       DispatchIsPrepared, PendingCountsOutstanding, PanicStaysInItsDispatch
<1>6. CASE Unpark(c)
  <2>1. Outstanding' = Outstanding
    BY <1>6, <1>q DEF QuietCallerStep
  <2> QED
    BY <1>0, <1>6, <2>1 DEF PoolInv, Unpark, cells, DispatchIsPrepared,
       PendingCountsOutstanding, PanicStaysInItsDispatch
<1>7. ASSUME NEW p \in BOOLEAN, OwnShare(c, p) \/ SerialShare(c, p)
      PROVE  DispatchInv'
  <2>1. Outstanding' = Outstanding
    BY <1>7, <1>q DEF QuietCallerStep
  <2> QED
    BY <1>0, <1>7, <2>1 DEF PoolInv, OwnShare, SerialShare, cells, DispatchIsPrepared,
       PendingCountsOutstanding, PanicStaysInItsDispatch
<1>8. CASE OwnDone(c)
  <2>1. Outstanding' = Outstanding
    BY <1>8, <1>q DEF QuietCallerStep
  <2> QED
    BY <1>0, <1>8, <2>1 DEF PoolInv, OwnDone, cells, DispatchIsPrepared,
       PendingCountsOutstanding, PanicStaysInItsDispatch
<1>9. CASE Wait(c)
  <2>1. Outstanding' = Outstanding
    BY <1>9, <1>q DEF QuietCallerStep
  <2>2. Cardinality(Outstanding) = 0
    BY <1>9 DEF PoolInv, PendingCountsOutstanding, Wait
  <2>3. Outstanding = {}
    BY <2>2, OutstandingFinite, FS_EmptySet
  <2>4. \A d \in Callers : d # c => ~Holds(d)
    BY <1>9 DEF PoolInv, OneDispatchAtATime, Wait, Holds
  <2> QED
    BY <1>0, <1>9, <2>1, <2>3, <2>4 DEF PoolInv, Wait, cells, Holds, DispatchIsPrepared,
       PendingCountsOutstanding, PanicStaysInItsDispatch
<1>10. CASE Collect(c)
  <2>1. Outstanding' = Outstanding
    BY <1>10, <1>q DEF QuietCallerStep
  <2> QED
    BY <1>0, <1>10, <2>1 DEF PoolInv, Collect, DispatchIsPrepared,
       PendingCountsOutstanding, PanicStaysInItsDispatch
<1>11. CASE Release(c)
  <2>1. Outstanding' = Outstanding
    BY <1>11, <1>q DEF QuietCallerStep
  <2> QED
    BY <1>0, <1>11, <2>1 DEF PoolInv, Release, DispatchIsPrepared,
       PendingCountsOutstanding, PanicStaysInItsDispatch
<1>12. CASE Leave(c)
  <2>1. Outstanding' = Outstanding
    BY <1>12, <1>q DEF QuietCallerStep
  <2> QED
    BY <1>0, <1>12, <2>1 DEF PoolInv, Leave, cells, DispatchIsPrepared,
       PendingCountsOutstanding, PanicStaysInItsDispatch
<1> QED
  BY <1>1, <1>2, <1>3, <1>4, <1>5, <1>6, <1>7, <1>8, <1>9, <1>10, <1>11, <1>12
     DEF CallerStep

-----------------------------------------------------------------------------
(* The theorems *)

LEMMA InitPoolInv == Init => PoolInv
<1> SUFFICES ASSUME Init PROVE PoolInv
  OBVIOUS
<1>1. TypeOK
  <2>1. 0 \in 0 .. WaysCap /\ 0 \in 0 .. MaxWant /\ 0 < WaysCap
    BY PoolConstants
  <2>2. begun \in [Callers -> [Shares -> Nat]]
    BY DEF Init, None
  <2>3. want \in [Callers -> 0 .. MaxWant] /\ ways \in [Callers -> 0 .. WaysCap]
    BY <2>1 DEF Init
  <2>4. word \in [epoch : Nat, ways : 0 .. WaysCap]
    BY <2>1 DEF Init
  <2> QED
    BY <2>1, <2>2, <2>3, <2>4 DEF Init, TypeOK, CallerLabels, WorkerLabels
<1>2. OneDispatchAtATime /\ PanicStaysInItsDispatch
  BY DEF Init, OneDispatchAtATime, Holds, PanicStaysInItsDispatch, Dispatched
<1>3. WorkersAreCounted
  BY DEF Init, WorkersAreCounted, InShare
<1>4. DispatchIsPrepared /\ PendingCountsOutstanding
  BY DEF Init, DispatchIsPrepared, PendingCountsOutstanding, Dispatched, Outstanding, InShare
<1> QED
  BY <1>1, <1>2, <1>3, <1>4 DEF PoolInv

LEMMA StepPoolInv == PoolInv /\ [Next]_vars => PoolInv'
<1> SUFFICES ASSUME PoolInv, [Next]_vars PROVE PoolInv'
  OBVIOUS
<1>1. CASE UNCHANGED vars
  BY <1>1 DEF vars, cells, threads, locals, history, PoolInv, TypeOK, OneDispatchAtATime,
     Holds, WorkersAreCounted, InShare, DispatchIsPrepared, Dispatched, Outstanding,
     PendingCountsOutstanding, PanicStaysInItsDispatch
<1>2. CASE Next
  <2>1. TypeOK'
    BY <1>2, TypeStepCaller, TypeStepWorker DEF Next
  <2>2. DispatchInv'
    BY <1>2, DispatchStepCaller, DispatchStepWorker DEF Next
  <2> QED
    BY <2>1, <2>2, ExclusiveStep, CountedStep DEF PoolInv, DispatchInv
<1> QED
  BY <1>1, <1>2

\* The inductive invariant holds in every reachable state.
THEOREM PoolInvariant == Spec => []PoolInv
<1> QED
  BY InitPoolInv, StepPoolInv, PTL DEF Spec

\* pool.rs keeps its cells in range; `pending` never wraps below zero.
THEOREM TypeCorrect == Spec => []TypeOK
<1>1. PoolInv => TypeOK
  BY DEF PoolInv
<1> QED
  BY <1>1, PoolInvariant, PTL

\* `busy` is a lock on the job and workers cells.
THEOREM DispatchesExclude == Spec => []OneDispatchAtATime
<1>1. PoolInv => OneDispatchAtATime
  BY DEF PoolInv
<1> QED
  BY <1>1, PoolInvariant, PTL

\* The SAFETY comment on the dereference in `worker`: the erased borrow is
\* alive whenever a worker may use it.
THEOREM BorrowIsAlive == Spec => []JobOutlivesShares
<1>1. PoolInv => JobOutlivesShares
  <2> SUFFICES ASSUME PoolInv, NEW w \in Workers, wpc[w] \in {"fetch", "exec"}
               PROVE  /\ job \in Callers /\ Dispatched(job)
                      /\ wpc[w] = "exec" => wjob[w] = job
    BY DEF JobOutlivesShares
  <2>1. InShare(w)
    BY DEF InShare
  <2> QED
    BY <2>1, ShareNeedsDispatch DEF PoolInv, WorkersAreCounted
<1> QED
  BY <1>1, PoolInvariant, PTL

\* The wait loop's exit test is exact.
THEOREM CountIsExact == Spec => []PendingCountsOutstanding
<1>1. PoolInv => PendingCountsOutstanding
  BY DEF PoolInv
<1> QED
  BY <1>1, PoolInvariant, PTL

\* A worker's panic is collected by the call it belongs to.
THEOREM PanicIsLocal == Spec => []PanicStaysInItsDispatch
<1>1. PoolInv => PanicStaysInItsDispatch
  BY DEF PoolInv
<1> QED
  BY <1>1, PoolInvariant, PTL

\* Consecutive dispatches never overlap in a worker.
THEOREM RepublishIsDrained == Spec => DrainedBeforeRepublish
<1>1. PoolInv /\ [Next]_vars => [word' # word => Outstanding = {}]_vars
  <2> SUFFICES ASSUME PoolInv, Next, word' # word
               PROVE  Outstanding = {}
    BY DEF vars, cells
  <2>1. PICK c \in Callers : SetWord(c)
    BY DEF Next, CallerStep, WorkerStep, SpuriousWakeup, Call, Claim, Spawn, Grown, Unclaim,
       SetJob, SetPending, Unpark, OwnShare, SerialShare, OwnDone, Wait, Collect, Release,
       SerialDone, Leave, PollNew, PollOld, Unparked, Fetch, Exec, Flag, Finish, cells
  <2> QED
    BY <2>1, NothingOutstanding DEF SetWord, Holds, Dispatched
<1> QED
  BY <1>1, PoolInvariant, PTL DEF Spec, DrainedBeforeRepublish

-----------------------------------------------------------------------------
(* The pool keeps the promise of ForkJoin *)

Unstarted(c)  == pc[c] \in {"claim", "grow", "unclaim", "setJob", "setPending", "setWord"}
InDispatch(c) == pc[c] \in {"unpark", "own", "wait", "collect", "release"}

\* Worker w has begun its share of the published epoch.
Took(w) == seen[w] = word.epoch /\ wpc[w] # "fetch"

\* The shares the dispatching caller runs itself.
OwnShares(c) == {s \in Shares : s = 0 \/ s >= ways[c]}

\* A call that has not started a share, and one that runs them all itself.
CallIsFresh(c) ==
  /\ pc[c] = "idle" => begun[c] = None /\ blown[c] = {}
  /\ Unstarted(c) => begun[c] = None /\ blown[c] = {} /\ ~failed[c] /\ next[c] = 0

CallIsInOrder(c) ==
  /\ pc[c] = "serial" =>
       /\ next[c] <= want[c] /\ ~failed[c] /\ blown[c] = {}
       /\ \A s \in Shares : begun[c][s] = IF s < next[c] THEN 1 ELSE 0
  /\ pc[c] = "serialDone" => failed[c] /\ blown[c] # {}

\* Which shares of a dispatch began: those of the workers that took theirs, and
\* of the caller's own the ones it came to.
SharesBegan(c) ==
  /\ InDispatch(c) =>
       /\ 1 <= ways[c] /\ ways[c] <= want[c] /\ word.ways = ways[c]
       /\ \A w \in Workers : w < ways[c] => begun[c][w] = IF Took(w) THEN 1 ELSE 0
  /\ pc[c] = "unpark" => \A s \in OwnShares(c) : begun[c][s] = 0
  /\ pc[c] = "own" =>
       /\ next[c] = 0 \/ next[c] >= ways[c]
       /\ \A s \in OwnShares(c) : begun[c][s] = IF s < next[c] THEN 1 ELSE 0
  /\ pc[c] \in {"wait", "collect", "release"} /\ ~failed[c] =>
       \A s \in OwnShares(c) : s < want[c] => begun[c][s] = 1

\* Where the panics of a dispatch are remembered.
PanicsAreKept(c) ==
  /\ pc[c] \in {"unpark", "own"} => ~failed[c]
  /\ pc[c] \in {"unpark", "own", "wait", "collect"} =>
       (blown[c] # {} <=> failed[c] \/ panicked \/ \E w \in Workers : wpc[w] = "flag")
  /\ pc[c] = "release" => (blown[c] # {} <=> failed[c])

CallIsSound(c) == CallIsFresh(c) /\ CallIsInOrder(c) /\ SharesBegan(c) /\ PanicsAreKept(c)
CallInv == \A c \in Callers : CallIsSound(c)

\* A call whose own state a step leaves alone.
LEMMA CallAside ==
  ASSUME NEW d \in Callers, CallIsSound(d),
         pc'[d] = pc[d], want'[d] = want[d], ways'[d] = ways[d], next'[d] = next[d],
         failed'[d] = failed[d], begun'[d] = begun[d], blown'[d] = blown[d],
         InDispatch(d) => /\ UNCHANGED <<word, panicked>>
                          /\ \A w \in Workers : /\ Took(w)' <=> Took(w)
                                                /\ wpc'[w] = "flag" <=> wpc[w] = "flag"
  PROVE  CallIsSound(d)'
<1>1. CallIsFresh(d)'
  BY DEF CallIsSound, CallIsFresh, Unstarted, None
<1>2. CallIsInOrder(d)'
  BY DEF CallIsSound, CallIsInOrder
<1>3. InDispatch(d)' <=> InDispatch(d)
  BY DEF InDispatch
<1>4. OwnShares(d)' = OwnShares(d)
  BY DEF OwnShares
<1>5. SharesBegan(d)'
  <2>1. CASE InDispatch(d)
    BY <1>3, <1>4, <2>1 DEF CallIsSound, SharesBegan
  <2>2. CASE ~InDispatch(d)
    BY <1>3, <2>2 DEF SharesBegan, InDispatch
  <2> QED
    BY <2>1, <2>2
<1>6. PanicsAreKept(d)'
  <2>1. CASE InDispatch(d)
    BY <1>3, <2>1 DEF CallIsSound, PanicsAreKept
  <2>2. CASE ~InDispatch(d)
    BY <1>3, <2>2 DEF PanicsAreKept, InDispatch
  <2> QED
    BY <2>1, <2>2
<1> QED
  BY <1>1, <1>2, <1>5, <1>6 DEF CallIsSound

\* While one caller holds `busy`, no other is in a dispatch.
LEMMA OtherCallsWait ==
  ASSUME PoolInv, NEW c \in Callers, Holds(c), NEW d \in Callers, d # c
  PROVE  ~InDispatch(d)
BY DEF PoolInv, OneDispatchAtATime, Holds, InDispatch

\* A caller's step leaves the other calls alone.
LEMMA CallersApart ==
  ASSUME PoolInv, CallInv, NEW c \in Callers,
         CallerStep(c) \/ \E n \in 1 .. MaxWant : Call(c, n),
         NEW d \in Callers, d # c
  PROVE  CallIsSound(d)'
<1> USE DEF PoolInv, TypeOK, Goto, Began, Blew
<1>1. /\ pc'[d] = pc[d] /\ want'[d] = want[d] /\ ways'[d] = ways[d] /\ next'[d] = next[d]
      /\ failed'[d] = failed[d] /\ begun'[d] = begun[d] /\ blown'[d] = blown[d]
  <2>1. CASE \E n \in 1 .. MaxWant : Call(c, n)
    BY <2>1 DEF Call, history
  <2>2. CASE Claim(c) \/ Spawn(c) \/ Grown(c) \/ Unclaim(c) \/ SetJob(c) \/ SetPending(c)
             \/ SetWord(c) \/ Unpark(c)
    BY <2>2 DEF Claim, Spawn, Grown, Unclaim, SetJob, SetPending, SetWord, Unpark, history, locals
  <2>3. CASE \E p \in BOOLEAN : OwnShare(c, p) \/ SerialShare(c, p)
    BY <2>3 DEF OwnShare, SerialShare
  <2>4. CASE OwnDone(c) \/ Wait(c) \/ Collect(c) \/ Release(c) \/ SerialDone(c) \/ Leave(c)
    BY <2>4 DEF OwnDone, Wait, Collect, Release, SerialDone, Leave, history
  <2> QED
    BY <2>1, <2>2, <2>3, <2>4 DEF CallerStep
<1>2. \/ Holds(c)
      \/ UNCHANGED <<word, panicked, wpc, seen>>
  BY DEF CallerStep, Claim, Spawn, Grown, Unclaim, SetJob, SetPending, SetWord, Unpark, OwnShare,
     SerialShare, OwnDone, Wait, Collect, Release, SerialDone, Leave, Call, Holds, cells, threads
<1>3. InDispatch(d) => UNCHANGED <<word, panicked, wpc, seen>>
  BY <1>2, OtherCallsWait
<1>4. InDispatch(d) => /\ UNCHANGED <<word, panicked>>
                       /\ \A w \in Workers : /\ Took(w)' <=> Took(w)
                                             /\ wpc'[w] = "flag" <=> wpc[w] = "flag"
  BY <1>3 DEF Took
<1> QED
  BY <1>1, <1>4, CallAside DEF CallInv

LEMMA CallTypes ==
  ASSUME PoolInv, NEW c \in Callers
  PROVE  /\ pc \in [Callers -> CallerLabels] /\ want \in [Callers -> 0 .. MaxWant]
         /\ ways \in [Callers -> 0 .. WaysCap] /\ next \in [Callers -> Nat]
         /\ failed \in [Callers -> BOOLEAN] /\ begun \in [Callers -> [Shares -> Nat]]
         /\ blown \in [Callers -> SUBSET Shares]
         /\ want[c] \in Nat /\ ways[c] \in Nat /\ next[c] \in Nat /\ failed[c] \in BOOLEAN
         /\ begun[c] \in [Shares -> Nat] /\ want[c] <= MaxWant
         /\ MaxWant \in Nat /\ WaysCap \in Nat
<1>1. /\ pc \in [Callers -> CallerLabels] /\ want \in [Callers -> 0 .. MaxWant]
      /\ ways \in [Callers -> 0 .. WaysCap] /\ next \in [Callers -> Nat]
      /\ failed \in [Callers -> BOOLEAN] /\ begun \in [Callers -> [Shares -> Nat]]
      /\ blown \in [Callers -> SUBSET Shares]
  BY DEF PoolInv, TypeOK
<1>2. MaxWant \in Nat /\ WaysCap \in Nat
  BY PoolConstants
<1>3. want[c] \in Nat /\ ways[c] \in Nat /\ want[c] <= MaxWant
  BY <1>1, <1>2
<1> QED
  BY <1>1, <1>2, <1>3

\* The steps of a call that leave what it began as it is.
LEMMA OwnCallMovesOn ==
  ASSUME PoolInv, CallInv, NEW c \in Callers,
         \/ \E n \in 1 .. MaxWant : Call(c, n)
         \/ Claim(c) \/ Spawn(c) \/ Grown(c) \/ Unclaim(c) \/ SetJob(c) \/ SetPending(c)
         \/ SerialDone(c) \/ Leave(c)
  PROVE  CallIsSound(c)'
<1>0. /\ pc \in [Callers -> CallerLabels] /\ next \in [Callers -> Nat]
      /\ want \in [Callers -> 0 .. MaxWant] /\ failed \in [Callers -> BOOLEAN]
      /\ begun \in [Callers -> [Shares -> Nat]] /\ blown \in [Callers -> SUBSET Shares]
      /\ want[c] \in Nat /\ next[c] \in Nat
  BY CallTypes
<1>1. CallIsFresh(c) /\ CallIsInOrder(c)
  BY DEF CallInv, CallIsSound
<1>2. CASE \E n \in 1 .. MaxWant : Call(c, n)
  <2>1. PICK n \in 1 .. MaxWant : Call(c, n)
    BY <1>2
  <2>2. /\ pc[c] = "idle" /\ pc'[c] \in {"serial", "claim"} /\ next'[c] = 0 /\ ~failed'[c]
        /\ begun' = begun /\ blown' = blown /\ want'[c] = n
    BY <1>0, <2>1 DEF Call, Goto, history
  <2>3. \A s \in Shares : begun'[c][s] = 0
    BY <1>1, <2>2 DEF CallIsFresh, None
  <2> QED
    BY <1>1, <2>2, <2>3, PoolConstants DEF CallIsSound, CallIsFresh, CallIsInOrder, SharesBegan,
       PanicsAreKept, InDispatch, Unstarted
<1>3. CASE Claim(c) \/ Spawn(c) \/ Grown(c) \/ Unclaim(c) \/ SetJob(c) \/ SetPending(c)
  <2>1. /\ Unstarted(c)
        /\ pc'[c] \in {"serial", "claim", "grow", "unclaim", "setJob", "setPending", "setWord"}
        /\ next'[c] = next[c] /\ failed'[c] = failed[c] /\ begun' = begun /\ blown' = blown
        /\ want' = want
    BY <1>0, <1>3 DEF Claim, Spawn, Grown, Unclaim, SetJob, SetPending, Goto, history, locals, Unstarted
  <2>2. \A s \in Shares : begun'[c][s] = 0
    BY <1>1, <2>1 DEF CallIsFresh, None
  <2>3. ~failed'[c] /\ blown'[c] = {} /\ next'[c] = 0 /\ begun'[c] = None /\ 0 <= want'[c]
    BY <1>0, <1>1, <2>1 DEF CallIsFresh
  <2>4. CallIsFresh(c)'
    BY <2>1, <2>3 DEF CallIsFresh, Unstarted, None
  <2>5. CallIsInOrder(c)'
    BY <2>1, <2>2, <2>3 DEF CallIsInOrder
  <2> QED
    BY <2>1, <2>4, <2>5 DEF CallIsSound, SharesBegan, PanicsAreKept, InDispatch
<1>4. CASE SerialDone(c)
  <2>1. pc'[c] \in {"unwind", "return"}
    BY <1>0, <1>4 DEF SerialDone, Goto
  <2> QED
    BY <2>1 DEF CallIsSound, CallIsFresh, CallIsInOrder, SharesBegan, PanicsAreKept, InDispatch, Unstarted
<1>5. CASE Leave(c)
  <2>1. pc'[c] = "idle" /\ begun'[c] = None /\ blown'[c] = {}
    BY <1>0, <1>5 DEF Leave, Goto
  <2> QED
    BY <2>1 DEF CallIsSound, CallIsFresh, CallIsInOrder, SharesBegan, PanicsAreKept, InDispatch, Unstarted, None
<1> QED
  BY <1>2, <1>3, <1>4, <1>5

LEMMA SerialShareSound ==
  ASSUME PoolInv, CallInv, NEW c \in Callers, NEW p \in BOOLEAN, SerialShare(c, p)
  PROVE  CallIsSound(c)'
<1>0. /\ pc \in [Callers -> CallerLabels] /\ next \in [Callers -> Nat]
      /\ failed \in [Callers -> BOOLEAN]
      /\ begun \in [Callers -> [Shares -> Nat]] /\ blown \in [Callers -> SUBSET Shares]
      /\ want[c] \in Nat /\ next[c] \in Nat /\ begun[c] \in [Shares -> Nat] /\ MaxWant \in Nat
      /\ want[c] <= MaxWant
  BY CallTypes
<1>1. /\ pc[c] = "serial" /\ next[c] < want[c] /\ next'[c] = next[c] + 1 /\ want' = want
      /\ failed'[c] = p /\ pc'[c] = IF p THEN "serialDone" ELSE "serial"
      /\ begun'[c] = [begun[c] EXCEPT ![next[c]] = @ + 1]
      /\ blown'[c] = IF p THEN blown[c] \union {next[c]} ELSE blown[c]
  BY <1>0 DEF SerialShare, Goto, Began, Blew
<1>2. /\ blown[c] = {}
      /\ \A s \in Shares : begun[c][s] = IF s < next[c] THEN 1 ELSE 0
  BY <1>1 DEF CallInv, CallIsSound, CallIsInOrder
<1>3. next[c] \in Shares
  BY <1>0, <1>1
<1>4. \A s \in Shares : begun'[c][s] = IF s < next'[c] THEN 1 ELSE 0
  BY <1>0, <1>1, <1>2, <1>3
<1>5. CallIsInOrder(c)'
  BY <1>0, <1>1, <1>2, <1>4 DEF CallIsInOrder
<1> QED
  BY <1>1, <1>5 DEF CallIsSound, CallIsFresh, SharesBegan, PanicsAreKept, InDispatch, Unstarted

\* The dispatch begins: no share of it has begun, and no panic is remembered.
LEMMA SetWordSound ==
  ASSUME PoolInv, CallInv, NEW c \in Callers, SetWord(c)
  PROVE  CallIsSound(c)'
<1>0. /\ pc \in [Callers -> CallerLabels] /\ next \in [Callers -> Nat]
      /\ ways[c] \in Nat /\ MaxWant \in Nat /\ WaysCap \in Nat
      /\ ways \in [Callers -> 0 .. WaysCap] /\ want \in [Callers -> 0 .. MaxWant]
  BY CallTypes
<1>1. /\ pc[c] = "setWord" /\ pc'[c] = "unpark" /\ word' = [epoch |-> word.epoch + 1, ways |-> ways[c]]
      /\ UNCHANGED <<panicked, wpc, seen, want, ways, failed, begun, blown>>
  BY <1>0 DEF SetWord, Goto, threads, history
<1>2. begun[c] = None /\ blown[c] = {} /\ ~failed[c]
  BY <1>1 DEF CallInv, CallIsSound, CallIsFresh, Unstarted
<1>3. Holds(c) /\ ~Dispatched(c)
  BY <1>1 DEF Holds, Dispatched
<1>4. (\A w \in Workers : ~InShare(w)) /\ (\A d \in Callers : ~Dispatched(d))
  BY <1>3, NothingOutstanding
<1>5. ~panicked
  BY <1>1, <1>3, <1>4 DEF PoolInv, PanicStaysInItsDispatch, OneDispatchAtATime, Holds
<1>6. \A w \in Workers : wpc'[w] # "flag"
  BY <1>1, <1>4 DEF InShare
<1>7. ways[c] >= 2 /\ ways[c] <= want[c]
  BY <1>1 DEF PoolInv, DispatchIsPrepared
<1>8. \A w \in Workers : ~Took(w)'
  <2>1. word.epoch \in Nat /\ \A w \in Workers : seen[w] \in Nat /\ seen[w] <= word.epoch
    BY DEF PoolInv, TypeOK, WorkersAreCounted
  <2>2. \A w \in Workers : seen'[w] # word'.epoch
    BY <1>1, <2>1
  <2> QED
    BY <2>2 DEF Took
<1>9. \A s \in Shares : begun'[c][s] = 0
  BY <1>1, <1>2 DEF None
<1>10. \A w \in Workers : w < ways'[c] => w \in Shares
  BY <1>0, <1>1, <1>7
<1>11. SharesBegan(c)'
  BY <1>0, <1>1, <1>7, <1>8, <1>9, <1>10 DEF SharesBegan, InDispatch, OwnShares
<1>12. PanicsAreKept(c)'
  BY <1>1, <1>2, <1>5, <1>6 DEF PanicsAreKept
<1> QED
  BY <1>1, <1>11, <1>12 DEF CallIsSound, CallIsFresh, CallIsInOrder, Unstarted

LEMMA UnparkSound ==
  ASSUME PoolInv, CallInv, NEW c \in Callers, Unpark(c)
  PROVE  CallIsSound(c)'
<1>0. pc \in [Callers -> CallerLabels] /\ next \in [Callers -> Nat] /\ ways[c] \in Nat
  BY CallTypes
<1>1. /\ pc[c] = "unpark" /\ pc'[c] \in {"unpark", "own"} /\ (pc'[c] = "own" => next'[c] = 0)
      /\ UNCHANGED <<word, panicked, wpc, seen, want, ways, failed, begun, blown>>
  BY <1>0 DEF Unpark, Goto, cells, history
<1>2. SharesBegan(c) /\ PanicsAreKept(c)
  BY DEF CallInv, CallIsSound
<1>3. OwnShares(c)' = OwnShares(c) /\ \A w \in Workers : Took(w)' <=> Took(w)
  BY <1>1 DEF OwnShares, Took
<1>4. \A s \in OwnShares(c) : ~(s < 0)
  BY DEF OwnShares
<1>5. SharesBegan(c)'
  BY <1>1, <1>2, <1>3, <1>4 DEF SharesBegan, InDispatch
<1>6. PanicsAreKept(c)'
  BY <1>1, <1>2 DEF PanicsAreKept
<1> QED
  BY <1>1, <1>5, <1>6 DEF CallIsSound, CallIsFresh, CallIsInOrder, Unstarted

LEMMA OwnShareSound ==
  ASSUME PoolInv, CallInv, NEW c \in Callers, NEW p \in BOOLEAN, OwnShare(c, p)
  PROVE  /\ CallIsSound(c)'
         /\ next[c] \in OwnShares(c) /\ begun[c][next[c]] = 0
<1>0. /\ pc \in [Callers -> CallerLabels] /\ next \in [Callers -> Nat]
      /\ failed \in [Callers -> BOOLEAN]
      /\ begun \in [Callers -> [Shares -> Nat]] /\ blown \in [Callers -> SUBSET Shares]
      /\ want[c] \in Nat /\ next[c] \in Nat /\ begun[c] \in [Shares -> Nat] /\ MaxWant \in Nat
      /\ want[c] <= MaxWant /\ ways[c] \in Nat
  BY CallTypes
<1>1. /\ pc[c] = "own" /\ next[c] < want[c]
      /\ next'[c] = IF next[c] = 0 THEN ways[c] ELSE next[c] + 1
      /\ failed'[c] = p /\ pc'[c] = IF p THEN "wait" ELSE "own"
      /\ begun'[c] = [begun[c] EXCEPT ![next[c]] = @ + 1]
      /\ blown'[c] = IF p THEN blown[c] \union {next[c]} ELSE blown[c]
      /\ UNCHANGED <<word, panicked, wpc, seen, want, ways>>
  BY <1>0 DEF OwnShare, Goto, Began, Blew, cells, threads
<1>2. /\ 1 <= ways[c] /\ ways[c] <= want[c] /\ word.ways = ways[c] /\ ~failed[c]
      /\ \A w \in Workers : w < ways[c] => begun[c][w] = IF Took(w) THEN 1 ELSE 0
      /\ next[c] = 0 \/ next[c] >= ways[c]
      /\ \A s \in OwnShares(c) : begun[c][s] = IF s < next[c] THEN 1 ELSE 0
      /\ (blown[c] # {} <=> panicked \/ \E w \in Workers : wpc[w] = "flag")
  BY <1>1 DEF CallInv, CallIsSound, SharesBegan, PanicsAreKept, InDispatch
<1>3. next[c] \in Shares /\ next[c] \in OwnShares(c)
  BY <1>0, <1>1, <1>2 DEF OwnShares
<1>4. \A s \in Shares : begun'[c][s] = IF s = next[c] THEN begun[c][s] + 1 ELSE begun[c][s]
  BY <1>0, <1>1, <1>3
<1>5. OwnShares(c)' = OwnShares(c) /\ \A w \in Workers : Took(w)' <=> Took(w)
  BY <1>1 DEF OwnShares, Took
<1>6. ASSUME NEW w \in Workers, w < ways[c] PROVE begun'[c][w] = begun[c][w]
  <2>1. w \in Shares /\ w # next[c]
    BY <1>0, <1>2, <1>6, PoolConstants
  <2> QED
    BY <1>4, <2>1
<1>7. ASSUME NEW s \in OwnShares(c) PROVE begun'[c][s] = IF s < next'[c] THEN 1 ELSE 0
  <2>1. s \in Shares /\ s \in Nat /\ (s = 0 \/ s >= ways[c])
    BY <1>0 DEF OwnShares
  <2>2. begun[c][s] = IF s < next[c] THEN 1 ELSE 0
    BY <1>2
  <2>3. CASE next[c] = 0
    BY <1>0, <1>1, <1>2, <1>4, <2>1, <2>2, <2>3
  <2>4. CASE next[c] # 0
    BY <1>0, <1>1, <1>2, <1>4, <2>1, <2>2, <2>4
  <2> QED
    BY <2>3, <2>4
<1>8. next'[c] >= ways[c]
  BY <1>0, <1>1, <1>2
<1>9. SharesBegan(c)'
  BY <1>1, <1>2, <1>5, <1>6, <1>7, <1>8 DEF SharesBegan, InDispatch
<1>10. PanicsAreKept(c)'
  <2>1. CASE p
    BY <1>1, <2>1 DEF PanicsAreKept
  <2>2. CASE ~p
    BY <1>1, <1>2, <2>2 DEF PanicsAreKept
  <2> QED
    BY <2>1, <2>2
<1>11. begun[c][next[c]] = 0
  BY <1>0, <1>2, <1>3
<1> QED
  BY <1>1, <1>3, <1>9, <1>10, <1>11 DEF CallIsSound, CallIsFresh, CallIsInOrder, Unstarted

LEMMA DrainSound ==
  ASSUME PoolInv, CallInv, NEW c \in Callers, OwnDone(c) \/ Wait(c)
  PROVE  CallIsSound(c)'
<1>0. pc \in [Callers -> CallerLabels] /\ next[c] \in Nat /\ want[c] \in Nat
  BY CallTypes
<1>1. /\ \/ pc[c] = "own" /\ next[c] >= want[c] /\ pc'[c] = "wait"
         \/ pc[c] = "wait" /\ pc'[c] = "collect"
      /\ UNCHANGED <<word, panicked, wpc, seen, want, ways, next, failed, begun, blown>>
  BY <1>0 DEF OwnDone, Wait, Goto, cells, threads, history
<1>2. SharesBegan(c) /\ PanicsAreKept(c)
  BY DEF CallInv, CallIsSound
<1>3. OwnShares(c)' = OwnShares(c) /\ \A w \in Workers : Took(w)' <=> Took(w)
  BY <1>1 DEF OwnShares, Took
<1>4. ASSUME pc[c] = "own", NEW s \in OwnShares(c), s < want[c] PROVE begun[c][s] = 1
  <2>1. s < next[c]
    BY <1>0, <1>1, <1>4 DEF OwnShares
  <2> QED
    BY <1>2, <1>4, <2>1 DEF SharesBegan
<1>5. SharesBegan(c)'
  BY <1>1, <1>2, <1>3, <1>4 DEF SharesBegan, InDispatch
<1>6. PanicsAreKept(c)'
  BY <1>1, <1>2 DEF PanicsAreKept
<1> QED
  BY <1>1, <1>5, <1>6 DEF CallIsSound, CallIsFresh, CallIsInOrder, Unstarted

\* Once drained, what a dispatch has to report is in the caller's own flag.
LEMMA CollectSound ==
  ASSUME PoolInv, CallInv, NEW c \in Callers, Collect(c)
  PROVE  CallIsSound(c)'
<1>0. pc \in [Callers -> CallerLabels] /\ failed \in [Callers -> BOOLEAN]
  BY CallTypes
<1>1. /\ pc[c] = "collect" /\ pc'[c] = "release" /\ failed'[c] = (failed[c] \/ panicked)
      /\ UNCHANGED <<word, wpc, seen, want, ways, next, begun, blown>>
  BY <1>0 DEF Collect, Goto, threads, history
<1>2. SharesBegan(c) /\ PanicsAreKept(c)
  BY DEF CallInv, CallIsSound
<1>3. \A w \in Workers : wpc[w] # "flag"
  BY <1>1, NothingOutstanding DEF Holds, Dispatched, InShare
<1>4. OwnShares(c)' = OwnShares(c) /\ \A w \in Workers : Took(w)' <=> Took(w)
  BY <1>1 DEF OwnShares, Took
<1>5. SharesBegan(c)'
  BY <1>1, <1>2, <1>4 DEF SharesBegan, InDispatch
<1>6. PanicsAreKept(c)'
  BY <1>1, <1>2, <1>3 DEF PanicsAreKept
<1> QED
  BY <1>1, <1>5, <1>6 DEF CallIsSound, CallIsFresh, CallIsInOrder, Unstarted

\* What a call that gives `busy` back has done.
LEMMA ReleaseIsRight ==
  ASSUME PoolInv, CallInv, NEW c \in Callers, Release(c)
  PROVE  /\ CallIsSound(c)'
         /\ blown[c] # {} <=> failed[c]
         /\ ~failed[c] => \A s \in 0 .. want[c] - 1 : begun[c][s] = 1
<1>0. /\ pc \in [Callers -> CallerLabels] /\ failed \in [Callers -> BOOLEAN]
      /\ want[c] \in Nat /\ want[c] <= MaxWant /\ ways[c] \in Nat /\ MaxWant \in Nat /\ WaysCap \in Nat
      /\ ways \in [Callers -> 0 .. WaysCap]
  BY CallTypes
<1>1. pc[c] = "release" /\ pc'[c] \in {"unwind", "return"}
  BY <1>0 DEF Release, Goto
<1>2. SharesBegan(c) /\ PanicsAreKept(c)
  BY DEF CallInv, CallIsSound
<1>3. Outstanding = {} /\ \A w \in Workers : ~InShare(w)
  BY <1>1, NothingOutstanding DEF Holds, Dispatched
<1>4. ASSUME ~failed[c], NEW s \in 0 .. want[c] - 1 PROVE begun[c][s] = 1
  <2>1. s \in Shares
    BY <1>0
  <2>2. CASE s \in OwnShares(c)
    BY <1>0, <1>1, <1>2, <1>4, <2>2 DEF SharesBegan
  <2>3. CASE s \notin OwnShares(c)
    <3>1. s \in Workers /\ s < ways[c] /\ word.ways = ways[c]
      BY <1>0, <1>1, <1>2, <2>1, <2>3 DEF OwnShares, SharesBegan, InDispatch
    <3>2. seen[s] = word.epoch /\ wpc[s] # "fetch"
      BY <1>3, <3>1 DEF Outstanding, InShare
    <3> QED
      BY <1>1, <1>2, <3>1, <3>2 DEF SharesBegan, InDispatch, Took
  <2> QED
    BY <2>2, <2>3
<1>5. CallIsSound(c)'
  BY <1>1 DEF CallIsSound, CallIsFresh, CallIsInOrder, SharesBegan, PanicsAreKept, InDispatch, Unstarted
<1> QED
  BY <1>1, <1>2, <1>4, <1>5 DEF PanicsAreKept

-----------------------------------------------------------------------------
(* A worker's step, as the calls see it *)

\* A call that is not in a dispatch does not notice the workers.
LEMMA WorkersApart ==
  ASSUME PoolInv, CallInv, NEW d \in Callers, ~InDispatch(d),
         UNCHANGED locals, begun'[d] = begun[d], blown'[d] = blown[d]
  PROVE  CallIsSound(d)'
BY CallAside DEF CallInv, locals

\* The only dispatch in which a worker may be is that of the job cell.
LEMMA JobIsDispatch ==
  ASSUME PoolInv, NEW w \in Workers, InShare(w)
  PROVE  /\ job \in Callers /\ InDispatch(job) /\ w < ways[job] /\ word.ways = ways[job]
         /\ seen[w] = word.epoch /\ w \in Shares
         /\ pc[job] \in {"unpark", "own", "wait"}
         /\ \A d \in Callers : d # job => ~InDispatch(d)
<1>1. /\ job \in Callers /\ Dispatched(job) /\ w \in Shares
  BY ShareNeedsDispatch
<1>2. word.ways = ways[job] /\ w < word.ways /\ seen[w] = word.epoch
  BY <1>1 DEF PoolInv, DispatchIsPrepared, WorkersAreCounted
<1>3. Holds(job) /\ InDispatch(job)
  BY <1>1 DEF Holds, InDispatch, Dispatched
<1>4. \A d \in Callers : d # job => ~InDispatch(d)
  BY <1>1, <1>3, OtherCallsWait
<1> QED
  BY <1>1, <1>2, <1>3, <1>4 DEF Dispatched

LEMMA PollSound ==
  ASSUME PoolInv, CallInv, NEW w \in Workers,
         PollNew(w) \/ PollOld(w) \/ Unparked(w) \/ SpuriousWakeup(w) \/ Finish(w)
  PROVE  CallInv'
<1>0. wpc \in [Workers -> WorkerLabels] /\ seen \in [Workers -> Nat]
  BY DEF PoolInv, TypeOK
<1>1. /\ wpc[w] \in {"poll", "park", "finish"} /\ UNCHANGED <<word, panicked, locals, history>>
      /\ \A v \in Workers : v # w => wpc'[v] = wpc[v] /\ seen'[v] = seen[v]
      /\ \/ seen'[w] = seen[w] /\ wpc'[w] \in {"poll", "park"}
         \/ /\ seen[w] # word.epoch /\ seen'[w] = word.epoch
            /\ wpc'[w] = IF w < word.ways THEN "fetch" ELSE "poll"
  BY <1>0 DEF PollNew, PollOld, Unparked, SpuriousWakeup, Finish, WGoto, cells
<1>2. \A v \in Workers : wpc'[v] = "flag" <=> wpc[v] = "flag"
  BY <1>1
<1>3. \A v \in Workers : v < word.ways => (Took(v)' <=> Took(v))
  BY <1>1 DEF Took
<1> SUFFICES ASSUME NEW d \in Callers PROVE CallIsSound(d)'
  BY DEF CallInv
<1>4. CASE ~InDispatch(d)
  BY <1>1, <1>4, WorkersApart DEF history
<1>5. CASE InDispatch(d)
  <2>1. SharesBegan(d) /\ PanicsAreKept(d) /\ InDispatch(d)' /\ OwnShares(d)' = OwnShares(d)
    BY <1>1, <1>5 DEF CallInv, CallIsSound, InDispatch, OwnShares, locals
  <2>2. SharesBegan(d)'
    BY <1>1, <1>3, <1>5, <2>1 DEF SharesBegan, locals, history
  <2>3. PanicsAreKept(d)'
    BY <1>1, <1>2, <2>1 DEF PanicsAreKept, locals, history
  <2>4. CallIsFresh(d)' /\ CallIsInOrder(d)'
    BY <2>1 DEF InDispatch, CallIsFresh, CallIsInOrder, Unstarted
  <2> QED
    BY <2>2, <2>3, <2>4 DEF CallIsSound
<1> QED
  BY <1>4, <1>5

LEMMA FetchSound ==
  ASSUME PoolInv, CallInv, NEW w \in Workers, Fetch(w)
  PROVE  /\ CallInv'
         /\ job \in Callers /\ InDispatch(job) /\ w \in Shares /\ w < want[job] /\ begun[job][w] = 0
<1>0. /\ wpc \in [Workers -> WorkerLabels] /\ begun \in [Callers -> [Shares -> Nat]]
      /\ ways \in [Callers -> 0 .. WaysCap] /\ want \in [Callers -> 0 .. MaxWant]
      /\ MaxWant \in Nat /\ WaysCap \in Nat
  BY PoolConstants DEF PoolInv, TypeOK
<1>1. /\ wpc[w] = "fetch" /\ wpc' = [wpc EXCEPT ![w] = "exec"]
      /\ begun' = [begun EXCEPT ![job][w] = @ + 1]
      /\ UNCHANGED <<word, panicked, seen, locals, blown>>
  BY DEF Fetch, WGoto, Began, cells
<1>2. /\ job \in Callers /\ InDispatch(job) /\ w < ways[job] /\ word.ways = ways[job]
      /\ seen[w] = word.epoch /\ w \in Shares
      /\ \A d \in Callers : d # job => ~InDispatch(d)
  BY <1>1, JobIsDispatch DEF InShare
<1>3. SharesBegan(job) /\ PanicsAreKept(job)
  BY <1>2 DEF CallInv, CallIsSound
<1>4. /\ ways[job] <= want[job]
      /\ \A v \in Workers : v < ways[job] => begun[job][v] = IF Took(v) THEN 1 ELSE 0
  BY <1>2, <1>3 DEF SharesBegan
<1>5. begun[job][w] = 0
  BY <1>1, <1>2, <1>4 DEF Took
<1>6. w < want[job]
  <2>1. ways[job] \in Nat /\ want[job] \in Nat /\ w \in Nat
    BY <1>0, <1>2
  <2> QED
    BY <1>2, <1>4, <2>1
<1>7. ASSUME NEW d \in Callers PROVE CallIsSound(d)'
  <2>1. CASE d # job
    BY <1>0, <1>1, <1>2, <2>1, WorkersApart
  <2>2. CASE d = job
    <3>1. begun'[job] = [begun[job] EXCEPT ![w] = begun[job][w] + 1] /\ begun[job] \in [Shares -> Nat]
      BY <1>0, <1>1, <1>2
    <3>2. ASSUME NEW s \in Shares PROVE begun'[job][s] = IF s = w THEN 1 ELSE begun[job][s]
      <4>1. CASE s = w
        <5>1. begun'[job][w] = begun[job][w] + 1
          BY <1>2, <3>1
        <5> QED
          BY <1>5, <4>1, <5>1
      <4>2. CASE s # w
        BY <3>1, <4>2
      <4> QED
        BY <4>1, <4>2
    <3>3. \A v \in Workers : Took(v)' <=> Took(v) \/ v = w
      BY <1>0, <1>1, <1>2 DEF Took
    <3>4. \A v \in Workers : v < ways[job] => v \in Shares
      <4>1. ways[job] <= want[job]
        BY <1>4
      <4>2. ways[job] \in Nat /\ want[job] \in 0 .. MaxWant /\ MaxWant \in Nat
        BY <1>0, <1>2
      <4> QED
        BY <4>1, <4>2
    <3>5. \A v \in Workers : v < ways[job] => begun'[job][v] = IF Took(v)' THEN 1 ELSE 0
      BY <1>4, <3>2, <3>3, <3>4
    <3>6. OwnShares(job)' = OwnShares(job)
      BY <1>1 DEF OwnShares, locals, Fetch, cells
    <3>7. \A s \in OwnShares(job) : begun'[job][s] = begun[job][s]
      BY <1>0, <1>2, <3>2 DEF OwnShares
    <3>8. job' = job
      BY DEF Fetch, cells
    <3>9. SharesBegan(job)'
      BY <1>1, <1>2, <1>3, <3>5, <3>6, <3>7, <3>8 DEF SharesBegan, InDispatch, locals
    <3>10. PanicsAreKept(job)'
      BY <1>0, <1>1, <1>3, <3>8 DEF PanicsAreKept, locals
    <3>11. CallIsFresh(job)' /\ CallIsInOrder(job)'
      BY <1>1, <1>2, <3>8 DEF InDispatch, CallIsFresh, CallIsInOrder, Unstarted, locals
    <3> QED
      BY <2>2, <3>8, <3>9, <3>10, <3>11 DEF CallIsSound
  <2> QED
    BY <2>1, <2>2
<1> QED
  BY <1>2, <1>5, <1>6, <1>7 DEF CallInv

LEMMA ExecSound ==
  ASSUME PoolInv, CallInv, NEW w \in Workers, NEW p \in BOOLEAN, Exec(w, p)
  PROVE  CallInv'
<1>0. wpc \in [Workers -> WorkerLabels] /\ blown \in [Callers -> SUBSET Shares]
  BY DEF PoolInv, TypeOK
<1>1. /\ wpc[w] = "exec" /\ wpc' = [wpc EXCEPT ![w] = IF p THEN "flag" ELSE "finish"]
      /\ blown' = [blown EXCEPT ![wjob[w]] = IF p THEN @ \union {w} ELSE @]
      /\ UNCHANGED <<word, job, panicked, seen, locals, begun>>
  BY DEF Exec, WGoto, Blew, cells
<1>2. /\ job \in Callers /\ InDispatch(job) /\ wjob[w] = job
      /\ pc[job] \in {"unpark", "own", "wait"}
      /\ \A d \in Callers : d # job => ~InDispatch(d)
  BY <1>1, JobIsDispatch DEF InShare, PoolInv, WorkersAreCounted
<1>3. \A v \in Workers : Took(v)' <=> Took(v)
  BY <1>0, <1>1 DEF Took
<1>4. blown'[job] = IF p THEN blown[job] \union {w} ELSE blown[job]
  BY <1>0, <1>1, <1>2
<1>5. ASSUME NEW d \in Callers PROVE CallIsSound(d)'
  <2>1. CASE d # job
    BY <1>0, <1>1, <1>2, <2>1, WorkersApart
  <2>2. CASE d = job
    <3>1. SharesBegan(d) /\ PanicsAreKept(d)
      BY DEF CallInv, CallIsSound
    <3>2. OwnShares(d)' = OwnShares(d)
      BY <1>1 DEF OwnShares, locals
    <3>3. SharesBegan(d)'
      BY <1>1, <1>3, <3>1, <3>2 DEF SharesBegan, InDispatch, locals
    <3>4. PanicsAreKept(d)'
      <4>1. CASE p
        <5>1. wpc'[w] = "flag" /\ blown'[d] # {}
          BY <1>0, <1>1, <1>4, <2>2, <4>1
        <5> QED
          BY <1>1, <1>2, <2>2, <3>1, <5>1 DEF PanicsAreKept, locals
      <4>2. CASE ~p
        <5>1. blown'[d] = blown[d] /\ \A v \in Workers : wpc'[v] = "flag" <=> wpc[v] = "flag"
          BY <1>0, <1>1, <1>4, <2>2, <4>2
        <5> QED
          BY <1>1, <1>2, <2>2, <3>1, <5>1 DEF PanicsAreKept, locals
      <4> QED
        BY <4>1, <4>2
    <3>5. CallIsFresh(d)' /\ CallIsInOrder(d)'
      BY <1>1, <1>2, <2>2 DEF CallIsFresh, CallIsInOrder, Unstarted, locals
    <3> QED
      BY <3>3, <3>4, <3>5 DEF CallIsSound
  <2> QED
    BY <2>1, <2>2
<1> QED
  BY <1>5 DEF CallInv

LEMMA FlagSound ==
  ASSUME PoolInv, CallInv, NEW w \in Workers, Flag(w)
  PROVE  CallInv'
<1>0. wpc \in [Workers -> WorkerLabels]
  BY DEF PoolInv, TypeOK
<1>1. /\ wpc[w] = "flag" /\ wpc' = [wpc EXCEPT ![w] = "finish"] /\ panicked' = TRUE
      /\ UNCHANGED <<word, job, seen, locals, history>>
  BY DEF Flag, WGoto
<1>2. /\ job \in Callers /\ pc[job] \in {"unpark", "own", "wait"}
      /\ \A d \in Callers : d # job => ~InDispatch(d)
  BY <1>1, JobIsDispatch DEF InShare
<1>3. \A v \in Workers : Took(v)' <=> Took(v)
  BY <1>0, <1>1 DEF Took
<1>4. ASSUME NEW d \in Callers PROVE CallIsSound(d)'
  <2>1. CASE d # job
    BY <1>0, <1>1, <1>2, <2>1, WorkersApart DEF history
  <2>2. CASE d = job
    <3>1. SharesBegan(d) /\ PanicsAreKept(d)
      BY DEF CallInv, CallIsSound
    <3>2. OwnShares(d)' = OwnShares(d)
      BY <1>1 DEF OwnShares, locals
    <3>3. SharesBegan(d)'
      BY <1>1, <1>3, <3>1, <3>2 DEF SharesBegan, InDispatch, locals, history
    <3>4. blown[d] # {}
      BY <1>1, <1>2, <2>2, <3>1 DEF PanicsAreKept
    <3>5. PanicsAreKept(d)'
      BY <1>1, <1>2, <2>2, <3>1, <3>4 DEF PanicsAreKept, locals, history
    <3>6. CallIsFresh(d)' /\ CallIsInOrder(d)'
      BY <1>1, <1>2, <2>2 DEF CallIsFresh, CallIsInOrder, Unstarted, locals
    <3> QED
      BY <3>3, <3>5, <3>6 DEF CallIsSound
  <2> QED
    BY <2>1, <2>2
<1> QED
  BY <1>4 DEF CallInv

-----------------------------------------------------------------------------
(* The call invariant *)

LEMMA CallInit == Init => CallInv
BY DEF Init, CallInv, CallIsSound, CallIsFresh, CallIsInOrder, SharesBegan, PanicsAreKept,
       Unstarted, InDispatch

LEMMA OwnStepSound ==
  ASSUME PoolInv, CallInv, NEW c \in Callers,
         CallerStep(c) \/ \E n \in 1 .. MaxWant : Call(c, n)
  PROVE  CallIsSound(c)'
<1>1. CASE \/ \E n \in 1 .. MaxWant : Call(c, n)
           \/ Claim(c) \/ Spawn(c) \/ Grown(c) \/ Unclaim(c) \/ SetJob(c) \/ SetPending(c)
           \/ SerialDone(c) \/ Leave(c)
  BY <1>1, OwnCallMovesOn
<1>2. CASE SetWord(c)
  BY <1>2, SetWordSound
<1>3. CASE Unpark(c)
  BY <1>3, UnparkSound
<1>4. ASSUME NEW p \in BOOLEAN, OwnShare(c, p) PROVE CallIsSound(c)'
  BY <1>4, OwnShareSound
<1>5. ASSUME NEW p \in BOOLEAN, SerialShare(c, p) PROVE CallIsSound(c)'
  BY <1>5, SerialShareSound
<1>6. CASE OwnDone(c) \/ Wait(c)
  BY <1>6, DrainSound
<1>7. CASE Collect(c)
  BY <1>7, CollectSound
<1>8. CASE Release(c)
  BY <1>8, ReleaseIsRight
<1> QED
  BY <1>1, <1>2, <1>3, <1>4, <1>5, <1>6, <1>7, <1>8 DEF CallerStep

LEMMA CallStep ==
  ASSUME PoolInv, CallInv, [Next]_vars
  PROVE  CallInv'
<1>1. CASE UNCHANGED vars
  <2>1. /\ UNCHANGED <<word, panicked, wpc, seen, locals, history>>
    BY <1>1 DEF vars, cells, threads
  <2>2. \A w \in Workers : Took(w)' <=> Took(w)
    BY <2>1 DEF Took
  <2>3. ASSUME NEW d \in Callers PROVE CallIsSound(d)'
    BY <2>1, <2>2, CallAside DEF CallInv, locals, history
  <2> QED
    BY <2>3 DEF CallInv
<1>2. ASSUME NEW c \in Callers, CallerStep(c) \/ \E n \in 1 .. MaxWant : Call(c, n)
      PROVE  CallInv'
  <2>1. ASSUME NEW d \in Callers PROVE CallIsSound(d)'
    <3>1. CASE d = c
      BY <1>2, <3>1, OwnStepSound
    <3>2. CASE d # c
      BY <1>2, <3>2, CallersApart
    <3> QED
      BY <3>1, <3>2
  <2> QED
    BY <2>1 DEF CallInv
<1>3. ASSUME NEW w \in Workers, WorkerStep(w) \/ SpuriousWakeup(w)
      PROVE  CallInv'
  <2>1. CASE PollNew(w) \/ PollOld(w) \/ Unparked(w) \/ SpuriousWakeup(w) \/ Finish(w)
    BY <2>1, PollSound
  <2>2. CASE Fetch(w)
    BY <2>2, FetchSound
  <2>3. ASSUME NEW p \in BOOLEAN, Exec(w, p) PROVE CallInv'
    BY <2>3, ExecSound
  <2>4. CASE Flag(w)
    BY <2>4, FlagSound
  <2> QED
    BY <1>3, <2>1, <2>2, <2>3, <2>4 DEF WorkerStep
<1> QED
  BY <1>1, <1>2, <1>3 DEF Next

\* What every call in progress has begun, and where its panics are remembered.
THEOREM CallInvariant == Spec => [](PoolInv /\ CallInv)
<1>1. CallInv /\ PoolInv /\ [Next]_vars => CallInv'
  BY CallStep
<1> QED
  BY <1>1, CallInit, InitPoolInv, StepPoolInv, PTL DEF Spec

-----------------------------------------------------------------------------
(* The refinement *)

PhaseAt(l) ==
  CASE l = "idle"   -> "idle"
    [] l = "return" -> "ok"
    [] l = "unwind" -> "panic"
    [] OTHER        -> "running"

Executing(c) == {w \in Workers : wpc[w] = "exec" /\ wjob[w] = c}
Phases == [c \in Callers |-> Phase(c)]
Open   == [c \in Callers |-> Executing(c)]

\* What a caller's move does to the phases.
LEMMA PhaseMoves ==
  ASSUME PoolInv, NEW c \in Callers, NEW l \in CallerLabels, Goto(c, l)
  PROVE  /\ Phases' = [Phases EXCEPT ![c] = PhaseAt(l)]
         /\ PhaseAt(l) = PhaseAt(pc[c]) => Phases' = Phases
<1>1. pc \in [Callers -> CallerLabels]
  BY DEF PoolInv, TypeOK
<1>2. pc'[c] = l /\ \A d \in Callers : d # c => pc'[d] = pc[d]
  BY <1>1 DEF Goto
<1>3. \A d \in Callers : Phase(d) = PhaseAt(pc[d]) /\ Phase(d)' = PhaseAt(pc'[d])
  BY DEF Phase, PhaseAt
<1> QED
  BY <1>2, <1>3 DEF Phases

\* Outside a dispatch, no share of a call is executing in a worker.
LEMMA NothingExecutes ==
  ASSUME PoolInv, NEW c \in Callers, ~Dispatched(c)
  PROVE  Executing(c) = {}
<1> SUFFICES ASSUME NEW w \in Workers, wpc[w] = "exec", wjob[w] = c PROVE FALSE
  BY DEF Executing
<1>1. InShare(w)
  BY DEF InShare
<1> QED
  BY <1>1, ShareNeedsDispatch DEF PoolInv, WorkersAreCounted

\* The caller steps in which the call only moves on are stuttering steps.
LEMMA QuietCallers ==
  ASSUME PoolInv, CallInv, NEW c \in Callers,
         \/ Claim(c) \/ Spawn(c) \/ Grown(c) \/ Unclaim(c) \/ SetJob(c) \/ SetPending(c)
         \/ SetWord(c) \/ Unpark(c) \/ OwnDone(c) \/ Wait(c) \/ Collect(c)
  PROVE  UNCHANGED Promise!vars
<1>0. pc \in [Callers -> CallerLabels] /\ wpc \in [Workers -> WorkerLabels]
  BY DEF PoolInv, TypeOK
<1>1. UNCHANGED <<want, begun, blown>>
  BY DEF Claim, Spawn, Grown, Unclaim, SetJob, SetPending, SetWord, Unpark, OwnDone, Wait,
         Collect, locals, history
<1>2. Phases' = Phases
  <2>1. \/ UNCHANGED pc
        \/ /\ Phase(c) = "running"
           /\ \E l \in CallerLabels \ {"idle", "return", "unwind"} : Goto(c, l)
    BY DEF Claim, Spawn, Grown, Unclaim, SetJob, SetPending, SetWord, Unpark, OwnDone, Wait,
           Collect, locals, Phase, CallerLabels, Goto
  <2>2. CASE UNCHANGED pc
    BY <2>2 DEF Phases, Phase
  <2>3. ASSUME Phase(c) = "running",
               NEW l \in CallerLabels \ {"idle", "return", "unwind"}, Goto(c, l)
        PROVE  Phases' = Phases
    <3>1. PhaseAt(l) = "running" /\ PhaseAt(pc[c]) = "running"
      BY <2>3 DEF PhaseAt, Phase
    <3> QED
      BY <2>3, <3>1, PhaseMoves
  <2> QED
    BY <2>1, <2>2, <2>3
<1>3. Open' = Open
  <2>1. CASE Spawn(c)
    <3>1. pc[c] = "grow" /\ wpc' = [wpc EXCEPT ![nworkers + 1] = "poll"] /\ wjob' = wjob
      BY <2>1 DEF Spawn
    <3>2. \A w \in Workers : ~InShare(w)
      BY <3>1, NothingOutstanding DEF Holds, Dispatched
    <3>3. \A w \in Workers : wpc[w] # "exec" /\ wpc'[w] # "exec"
      BY <1>0, <3>1, <3>2 DEF InShare
    <3> QED
      BY <3>3 DEF Open, Executing
  <2>2. CASE ~Spawn(c)
    <3>1. UNCHANGED <<wpc, wjob>>
      BY <2>2 DEF Claim, Grown, Unclaim, SetJob, SetPending, SetWord, Unpark, OwnDone, Wait,
                  Collect, cells, threads
    <3> QED
      BY <3>1 DEF Open, Executing
  <2> QED
    BY <2>1, <2>2
<1> QED
  BY <1>1, <1>2, <1>3 DEF Promise!vars, Phases, Open, Executing

\* run begins, and leaves.
LEMMA CallsBegin ==
  ASSUME PoolInv, NEW c \in Callers, NEW n \in 1 .. MaxWant, Call(c, n)
  PROVE  Promise!Begin(c, n)
<1>1. pc[c] = "idle" /\ want' = [want EXCEPT ![c] = n] /\ UNCHANGED <<wpc, wjob, begun, blown>>
  BY DEF Call, threads, history
<1>2. PICK l \in {"serial", "claim"} : Goto(c, l)
  BY DEF Call
<1>3. l \in CallerLabels /\ PhaseAt(l) = "running"
  BY DEF CallerLabels, PhaseAt
<1>4. Phases' = [Phases EXCEPT ![c] = "running"]
  BY <1>2, <1>3, PhaseMoves
<1>5. Open' = Open
  BY <1>1 DEF Open, Executing
<1>6. Phases[c] = "idle"
  BY <1>1 DEF Phases, Phase
<1> QED
  BY <1>1, <1>4, <1>5, <1>6 DEF Promise!Begin, Phases, Open, Executing

LEMMA CallsLeave ==
  ASSUME PoolInv, NEW c \in Callers, Leave(c)
  PROVE  Promise!Leave(c)
<1>1. /\ pc[c] \in {"return", "unwind"} /\ Goto(c, "idle") /\ UNCHANGED <<wpc, wjob>>
      /\ want' = [want EXCEPT ![c] = 0] /\ begun' = [begun EXCEPT ![c] = None]
      /\ blown' = [blown EXCEPT ![c] = {}]
  BY DEF Leave, threads
<1>2. "idle" \in CallerLabels /\ PhaseAt("idle") = "idle"
  BY DEF CallerLabels, PhaseAt
<1>3. Phases' = [Phases EXCEPT ![c] = "idle"]
  BY <1>1, <1>2, PhaseMoves
<1>4. Open' = Open
  BY <1>1 DEF Open, Executing
<1>5. Phases[c] \in {"ok", "panic"}
  BY <1>1 DEF Phases, Phase
<1> QED
  BY <1>1, <1>3, <1>4, <1>5 DEF Promise!Leave, Promise!None, Promise!Shares, None, Phases, Open,
     Executing

\* A share the caller runs itself had not begun.
LEMMA CallersRunShares ==
  ASSUME PoolInv, CallInv, NEW c \in Callers, NEW p \in BOOLEAN,
         OwnShare(c, p) \/ SerialShare(c, p)
  PROVE  next[c] \in Shares /\ Promise!RunOwn(c, next[c], p)
<1>0. /\ next[c] \in Nat /\ want[c] \in Nat /\ want[c] <= MaxWant /\ MaxWant \in Nat
  BY CallTypes
<1>1. /\ pc[c] \in {"own", "serial"} /\ next[c] < want[c]
      /\ Began(c, next[c]) /\ Blew(c, next[c], p) /\ UNCHANGED <<wpc, wjob, want>>
      /\ \E l \in {"own", "wait", "serial", "serialDone"} : Goto(c, l)
  BY DEF OwnShare, SerialShare, threads
<1>2. next[c] \in Shares
  BY <1>0, <1>1
<1>3. begun[c][next[c]] = 0
  <2>1. CASE OwnShare(c, p)
    BY <2>1, OwnShareSound
  <2>2. CASE SerialShare(c, p)
    <3>1. pc[c] = "serial"
      BY <2>2 DEF SerialShare
    <3>2. \A s \in Shares : begun[c][s] = IF s < next[c] THEN 1 ELSE 0
      BY <3>1 DEF CallInv, CallIsSound, CallIsInOrder
    <3> QED
      BY <1>0, <1>2, <3>2
  <2> QED
    BY <2>1, <2>2
<1>4. PICK l \in {"own", "wait", "serial", "serialDone"} : Goto(c, l)
  BY <1>1
<1>5. l \in CallerLabels /\ PhaseAt(l) = "running" /\ PhaseAt(pc[c]) = "running"
  BY <1>1 DEF CallerLabels, PhaseAt
<1>6. Phases' = Phases
  BY <1>4, <1>5, PhaseMoves
<1>7. Open' = Open
  BY <1>1 DEF Open, Executing
<1>8. Phases[c] = "running"
  BY <1>1 DEF Phases, Phase
<1> QED
  BY <1>1, <1>2, <1>3, <1>6, <1>7, <1>8 DEF Promise!RunOwn, Promise!MayStart, Began, Blew,
     Phases, Open, Executing

\* A call concludes as its shares ended.
LEMMA CallsConclude ==
  ASSUME PoolInv, CallInv, NEW c \in Callers, Release(c) \/ SerialDone(c)
  PROVE  Promise!Conclude(c)
<1>0. /\ next[c] \in Nat /\ want[c] \in Nat /\ want[c] <= MaxWant /\ MaxWant \in Nat
      /\ failed[c] \in BOOLEAN
  BY CallTypes
<1>1. /\ pc[c] \in {"release", "serial", "serialDone"}
      /\ Goto(c, IF failed[c] THEN "unwind" ELSE "return")
      /\ UNCHANGED <<wpc, wjob, want, begun, blown>>
  BY DEF Release, SerialDone, threads, history
<1>2. ~failed[c] => blown[c] = {} /\ \A s \in 0 .. want[c] - 1 : begun[c][s] = 1
  <2>1. CASE Release(c)
    BY <2>1, ReleaseIsRight
  <2>2. CASE SerialDone(c)
    <3>1. CallIsInOrder(c)
      BY DEF CallInv, CallIsSound
    <3>2. \/ pc[c] = "serialDone"
          \/ pc[c] = "serial" /\ next[c] = want[c]
      BY <2>2 DEF SerialDone
    <3>3. ASSUME ~failed[c], NEW s \in 0 .. want[c] - 1 PROVE blown[c] = {} /\ begun[c][s] = 1
      <4>1. s \in Shares
        BY <1>0
      <4> QED
        BY <1>0, <3>1, <3>2, <3>3, <4>1 DEF CallIsInOrder
    <3>4. ~failed[c] => blown[c] = {}
      BY <3>1, <3>2 DEF CallIsInOrder
    <3> QED
      BY <3>3, <3>4
  <2> QED
    BY <2>1, <2>2
<1>3. failed[c] => blown[c] # {}
  <2>1. CASE Release(c)
    BY <2>1, ReleaseIsRight
  <2>2. CASE SerialDone(c)
    BY <2>2 DEF SerialDone, CallInv, CallIsSound, CallIsInOrder
  <2> QED
    BY <2>1, <2>2
<1>4. Open[c] = {} /\ Open' = Open
  <2>1. ~Dispatched(c)
    BY <1>1 DEF Dispatched
  <2> QED
    BY <1>1, <2>1, NothingExecutes DEF Open, Executing
<1>5. Phases[c] = "running"
  BY <1>1 DEF Phases, Phase
<1>6. CASE failed[c]
  <2>1. Goto(c, "unwind") /\ "unwind" \in CallerLabels /\ PhaseAt("unwind") = "panic"
    BY <1>1, <1>6 DEF CallerLabels, PhaseAt
  <2>2. Phases' = [Phases EXCEPT ![c] = "panic"]
    BY <2>1, PhaseMoves
  <2> QED
    BY <1>1, <1>3, <1>4, <1>5, <1>6, <2>2 DEF Promise!Conclude, Phases, Open, Executing
<1>7. CASE ~failed[c]
  <2>1. Goto(c, "return") /\ "return" \in CallerLabels /\ PhaseAt("return") = "ok"
    BY <1>1, <1>7 DEF CallerLabels, PhaseAt
  <2>2. Phases' = [Phases EXCEPT ![c] = "ok"]
    BY <2>1, PhaseMoves
  <2> QED
    BY <1>1, <1>2, <1>4, <1>5, <1>7, <2>2 DEF Promise!Conclude, Phases, Open, Executing
<1> QED
  BY <1>6, <1>7

\* A worker's share starts when it enters the job and ends when it leaves it.
LEMMA WorkersStart ==
  ASSUME PoolInv, CallInv, NEW w \in Workers, Fetch(w)
  PROVE  job \in Callers /\ w \in Shares /\ Promise!Start(job, w)
<1>0. wpc \in [Workers -> WorkerLabels] /\ wjob \in [Workers -> Callers \union {NoCaller}]
  BY DEF PoolInv, TypeOK
<1>1. /\ wpc[w] = "fetch" /\ wpc' = [wpc EXCEPT ![w] = "exec"]
      /\ wjob' = [wjob EXCEPT ![w] = job] /\ Began(job, w)
      /\ UNCHANGED <<pc, want, blown>>
  BY DEF Fetch, WGoto, locals
<1>2. job \in Callers /\ InDispatch(job) /\ w \in Shares /\ w < want[job] /\ begun[job][w] = 0
  BY FetchSound
<1>3. Phases' = Phases /\ Phases[job] = "running"
  BY <1>1, <1>2 DEF Phases, Phase, InDispatch
<1>4. ASSUME NEW d \in Callers
      PROVE  Executing(d)' = IF d = job THEN Executing(d) \union {w} ELSE Executing(d)
  BY <1>0, <1>1 DEF Executing
<1>5. Open' = [Open EXCEPT ![job] = @ \union {w}]
  BY <1>2, <1>4 DEF Open
<1> QED
  BY <1>1, <1>2, <1>3, <1>5 DEF Promise!Start, Promise!MayStart, Began, Phases, Open, Executing

LEMMA WorkersEnd ==
  ASSUME PoolInv, CallInv, NEW w \in Workers, NEW p \in BOOLEAN, Exec(w, p)
  PROVE  wjob[w] \in Callers /\ w \in Shares /\ Promise!End(wjob[w], w, p)
<1>0. wpc \in [Workers -> WorkerLabels] /\ wjob \in [Workers -> Callers \union {NoCaller}]
  BY DEF PoolInv, TypeOK
<1>1. /\ wpc[w] = "exec" /\ wpc' = [wpc EXCEPT ![w] = IF p THEN "flag" ELSE "finish"]
      /\ wjob' = [wjob EXCEPT ![w] = NoCaller] /\ Blew(wjob[w], w, p)
      /\ UNCHANGED <<pc, want, begun>>
  BY DEF Exec, WGoto, locals
<1>2. wjob[w] = job /\ job \in Callers /\ w \in Shares
  BY <1>1, JobIsDispatch DEF InShare, PoolInv, WorkersAreCounted
<1>3. Phases' = Phases
  BY <1>1 DEF Phases, Phase
<1>4. ASSUME NEW d \in Callers
      PROVE  Executing(d)' = IF d = wjob[w] THEN Executing(d) \ {w} ELSE Executing(d)
  BY <1>0, <1>1 DEF Executing
<1>5. Open' = [Open EXCEPT ![wjob[w]] = @ \ {w}]
  BY <1>2, <1>4 DEF Open
<1>6. w \in Open[wjob[w]]
  BY <1>1, <1>2 DEF Open, Executing
<1> QED
  BY <1>1, <1>2, <1>3, <1>5, <1>6 DEF Promise!End, Blew, Phases, Open, Executing

\* Polling, parking and counting down are stuttering steps.
LEMMA QuietWorkers ==
  ASSUME PoolInv, NEW w \in Workers,
         \/ PollNew(w) \/ PollOld(w) \/ Unparked(w) \/ SpuriousWakeup(w)
         \/ Flag(w) \/ Finish(w)
  PROVE  UNCHANGED Promise!vars
<1>0. wpc \in [Workers -> WorkerLabels]
  BY DEF PoolInv, TypeOK
<1>1. UNCHANGED <<pc, want, begun, blown, wjob>>
  BY DEF PollNew, PollOld, Unparked, SpuriousWakeup, Flag, Finish, locals, history
<1>2. \E l : l # "exec" /\ wpc[w] # "exec" /\ wpc' = [wpc EXCEPT ![w] = l]
  BY DEF PollNew, PollOld, Unparked, SpuriousWakeup, Flag, Finish, WGoto
<1>3. \A v \in Workers : wpc'[v] = "exec" <=> wpc[v] = "exec"
  BY <1>0, <1>2
<1>4. Phases' = Phases /\ Open' = Open
  BY <1>1, <1>3 DEF Phases, Phase, Open, Executing
<1> QED
  BY <1>1, <1>4 DEF Promise!vars, Phases, Open, Executing

\* The pool implements ForkJoin: with any number of callers and workers, a
\* share starts once, a call returns after all of its shares, and a panic
\* reaches the caller it belongs to (run, pool.rs).
THEOREM PoolKeepsPromise == Spec => KeepsPromise
<1>1. Init => Promise!Init
  <2> SUFFICES ASSUME Init PROVE Promise!Init
    OBVIOUS
  <2>1. Phases = [c \in Callers |-> "idle"]
    BY DEF Init, Phases, Phase
  <2>2. Open = [c \in Callers |-> {}]
    BY DEF Init, Open, Executing
  <2> QED
    BY <2>1, <2>2 DEF Init, Promise!Init, None, Promise!None, Promise!Shares, Phases, Open, Executing
<1>2. ASSUME PoolInv, CallInv, [Next]_vars
      PROVE  [Promise!Next]_(Promise!vars)
  <2>1. CASE UNCHANGED vars
    BY <2>1 DEF vars, cells, threads, locals, history, Promise!vars, Phase
  <2>2. ASSUME NEW c \in Callers, NEW n \in 1 .. MaxWant, Call(c, n)
        PROVE  Promise!Next
    BY <1>2, <2>2, CallsBegin DEF Promise!Next
  <2>3. ASSUME NEW c \in Callers, CallerStep(c)
        PROVE  [Promise!Next]_(Promise!vars)
    <3>1. CASE \/ Claim(c) \/ Spawn(c) \/ Grown(c) \/ Unclaim(c) \/ SetJob(c) \/ SetPending(c)
               \/ SetWord(c) \/ Unpark(c) \/ OwnDone(c) \/ Wait(c) \/ Collect(c)
      BY <1>2, <3>1, QuietCallers
    <3>2. ASSUME NEW p \in BOOLEAN, OwnShare(c, p) \/ SerialShare(c, p)
          PROVE  Promise!Next
      <4>1. next[c] \in Promise!Shares /\ Promise!RunOwn(c, next[c], p)
        BY <1>2, <3>2, CallersRunShares DEF Promise!Shares
      <4> QED
        BY <4>1 DEF Promise!Next
    <3>3. CASE Release(c) \/ SerialDone(c)
      BY <1>2, <3>3, CallsConclude DEF Promise!Next
    <3>4. CASE Leave(c)
      BY <1>2, <3>4, CallsLeave DEF Promise!Next
    <3> QED
      BY <2>3, <3>1, <3>2, <3>3, <3>4 DEF CallerStep
  <2>4. ASSUME NEW w \in Workers, WorkerStep(w) \/ SpuriousWakeup(w)
        PROVE  [Promise!Next]_(Promise!vars)
    <3>1. CASE \/ PollNew(w) \/ PollOld(w) \/ Unparked(w) \/ SpuriousWakeup(w)
               \/ Flag(w) \/ Finish(w)
      BY <1>2, <3>1, QuietWorkers
    <3>2. CASE Fetch(w)
      <4>1. job \in Callers /\ w \in Promise!Shares /\ Promise!Start(job, w)
        BY <1>2, <3>2, WorkersStart DEF Promise!Shares
      <4>2. PICK c \in Callers : c = job
        BY <4>1
      <4>3. Promise!Start(c, w)
        BY <4>1, <4>2 DEF Promise!Start, Promise!MayStart
      <4> QED
        BY <4>1, <4>3 DEF Promise!Next
    <3>3. ASSUME NEW p \in BOOLEAN, Exec(w, p) PROVE Promise!Next
      <4>1. wjob[w] \in Callers /\ w \in Promise!Shares /\ Promise!End(wjob[w], w, p)
        BY <1>2, <3>3, WorkersEnd DEF Promise!Shares
      <4> QED
        BY <4>1 DEF Promise!Next
    <3> QED
      BY <2>4, <3>1, <3>2, <3>3 DEF WorkerStep
  <2> QED
    BY <1>2, <2>1, <2>2, <2>3, <2>4 DEF Next
<1> QED
  BY <1>1, <1>2, CallInvariant, PTL DEF Spec, KeepsPromise, Promise!Spec
=============================================================================

---------------------------- MODULE ForkJoinPool ----------------------------
(***************************************************************************)
(* The process-wide fork-join pool a split right-hand-side call runs on    *)
(* (simulate_array/tape/exec/pool.rs).                                     *)
(*                                                                         *)
(* Any number of threads call `run`.  The one that finds `busy` clear      *)
(* publishes its job by writing three shared cells (job, pending, word),   *)
(* unparks the workers it counted, runs its own shares and waits for       *)
(* `pending` to drain; every other caller runs all its shares itself.  A   *)
(* worker polls the control word, parks when it is stale, and takes at     *)
(* most one share of each epoch it sees.                                   *)
(*                                                                         *)
(* One step is one access to a shared cell.  That is sound for the         *)
(* orderings the code uses: job, pending and workers are reached only      *)
(* through the Release/Acquire pairs on word, pending and busy, and the    *)
(* fetch_sub's of one dispatch form one release sequence.  The SPIN        *)
(* iterations before a park only repeat a failed poll, so they are         *)
(* stuttering steps here.                                                  *)
(***************************************************************************)
EXTENDS Naturals, FiniteSets

CONSTANTS
  Callers,    \* threads that may call run
  NoCaller,   \* the null job pointer
  MaxWant,    \* largest number of shares a call asks for
  WaysCap,    \* largest share count the word can hold: (1 << WAYS_BITS) - 1
  MaxEpoch    \* no call starts after this many dispatches (bound)

ASSUME PoolConstants ==
  /\ NoCaller \notin Callers
  /\ MaxWant \in Nat \ {0}
  /\ WaysCap \in Nat \ {0}
  /\ MaxEpoch \in Nat

Shares  == 0 .. MaxWant - 1
Workers == 1 .. WaysCap - 1   \* a worker is named by the share it runs
Lesser(a, b) == IF a <= b THEN a ELSE b

VARIABLES
  \* the cells of struct Pool
  word,       \* [epoch, ways]: read and written as one word
  job,        \* whose borrowed job the cell points to
  pending,    \* worker shares of the dispatch not yet finished
  panicked,   \* a worker's share panicked
  busy,       \* a dispatch (or the growing of the pool) is going on
  nworkers,   \* workers.len()
  \* the worker threads
  wpc, seen, token, wjob,
  \* the calling threads
  pc, want, ways, next, failed,
  \* history of the calls in progress: how often each share began, and
  \* which shares panicked
  begun, blown

cells   == <<word, job, pending, panicked, busy, nworkers>>
threads == <<wpc, seen, token, wjob>>
locals  == <<pc, want, ways, next, failed>>
history == <<begun, blown>>
vars    == <<cells, threads, locals, history>>

None == [s \in Shares |-> 0]

Init ==
  /\ word     = [epoch |-> 0, ways |-> 0]
  /\ job      = NoCaller
  /\ pending  = 0
  /\ panicked = FALSE
  /\ busy     = FALSE
  /\ nworkers = 0
  /\ wpc      = [w \in Workers |-> "unborn"]
  /\ seen     = [w \in Workers |-> 0]
  /\ token    = [w \in Workers |-> FALSE]
  /\ wjob     = [w \in Workers |-> NoCaller]
  /\ pc       = [c \in Callers |-> "idle"]
  /\ want     = [c \in Callers |-> 0]
  /\ ways     = [c \in Callers |-> 0]
  /\ next     = [c \in Callers |-> 0]
  /\ failed   = [c \in Callers |-> FALSE]
  /\ begun    = [c \in Callers |-> None]
  /\ blown    = [c \in Callers |-> {}]

Goto(c, label) == pc' = [pc EXCEPT ![c] = label]

\* Thread-independent bookkeeping of share s of c's call being run, and of
\* the panic it may end in.
Began(c, s)       == begun' = [begun EXCEPT ![c][s] = @ + 1]
Blew(c, s, panics) == blown' = [blown EXCEPT ![c] = IF panics THEN @ \union {s} ELSE @]
-----------------------------------------------------------------------------
(* The calling thread *)

\* run(n, job): one share, or none, needs no pool.
Call(c, n) ==
  /\ pc[c] = "idle"
  /\ word.epoch < MaxEpoch
  /\ want' = [want EXCEPT ![c] = n]
  /\ ways' = [ways EXCEPT ![c] = Lesser(n, WaysCap)]
  /\ next' = [next EXCEPT ![c] = 0]
  /\ failed' = [failed EXCEPT ![c] = FALSE]
  /\ Goto(c, IF n <= 1 THEN "serial" ELSE "claim")
  /\ UNCHANGED <<cells, threads, history>>

\* busy.swap(true)
Claim(c) ==
  /\ pc[c] = "claim"
  /\ busy' = TRUE
  /\ Goto(c, IF busy THEN "serial" ELSE "grow")
  /\ UNCHANGED <<word, job, pending, panicked, nworkers, threads, history,
                 want, ways, next, failed>>

\* Mutant: the worker is handed the epoch its first dispatch will publish.
SpawnWithNewEpoch(c) ==
  /\ pc[c] = "grow"
  /\ nworkers < ways[c] - 1
  /\ nworkers' = nworkers + 1
  /\ wpc'  = [wpc EXCEPT ![nworkers + 1] = "poll"]
  /\ seen' = [seen EXCEPT ![nworkers + 1] = word.epoch + 1]
  /\ UNCHANGED <<word, job, pending, panicked, busy, token, wjob, locals, history>>

\* One turn of the loop that grows the pool: the next worker starts polling
\* with the current epoch as the last one it saw.
Spawn(c) ==
  /\ pc[c] = "grow"
  /\ nworkers < ways[c] - 1
  /\ nworkers' = nworkers + 1
  /\ wpc'  = [wpc EXCEPT ![nworkers + 1] = "poll"]
  /\ seen' = [seen EXCEPT ![nworkers + 1] = word.epoch]
  /\ UNCHANGED <<word, job, pending, panicked, busy, token, wjob, locals, history>>

\* The pool is large enough, or a spawn failed: use what there is.
Grown(c) ==
  /\ pc[c] = "grow"
  /\ ways' = [ways EXCEPT ![c] = Lesser(@, nworkers + 1)]
  /\ Goto(c, IF ways'[c] <= 1 THEN "unclaim" ELSE "setJob")
  /\ UNCHANGED <<cells, threads, history, want, next, failed>>

\* No worker at all: give the pool back, then run everything serially.
Unclaim(c) ==
  /\ pc[c] = "unclaim"
  /\ busy' = FALSE
  /\ Goto(c, "serial")
  /\ UNCHANGED <<word, job, pending, panicked, nworkers, threads, history,
                 want, ways, next, failed>>

SetJob(c) ==
  /\ pc[c] = "setJob"
  /\ job' = c
  /\ Goto(c, "setPending")
  /\ UNCHANGED <<word, pending, panicked, busy, nworkers, threads, history,
                 want, ways, next, failed>>

\* Mutant: the count leaves out one of the worker shares.
SetPendingShort(c) ==
  /\ pc[c] = "setPending"
  /\ pending' = ways[c] - 2
  /\ Goto(c, "setWord")
  /\ UNCHANGED <<word, job, panicked, busy, nworkers, threads, history,
                 want, ways, next, failed>>

SetPending(c) ==
  /\ pc[c] = "setPending"
  /\ pending' = ways[c] - 1
  /\ Goto(c, "setWord")
  /\ UNCHANGED <<word, job, panicked, busy, nworkers, threads, history,
                 want, ways, next, failed>>

\* The Release store that publishes the dispatch.  `next` is reused as the
\* cursor of the unpark loop, which starts at worker 1.
SetWord(c) ==
  /\ pc[c] = "setWord"
  /\ word' = [epoch |-> word.epoch + 1, ways |-> ways[c]]
  /\ next' = [next EXCEPT ![c] = 1]
  /\ Goto(c, "unpark")
  /\ UNCHANGED <<job, pending, panicked, busy, nworkers, threads, history,
                 want, ways, failed>>

\* Mutant: the loop leaves out the last worker of the dispatch.
UnparkShort(c) ==
  /\ pc[c] = "unpark"
  /\ IF next[c] < ways[c] - 1
     THEN /\ token' = [token EXCEPT ![next[c]] = TRUE]
          /\ next'  = [next EXCEPT ![c] = @ + 1]
          /\ UNCHANGED pc
     ELSE /\ next' = [next EXCEPT ![c] = 0]
          /\ Goto(c, "own")
          /\ UNCHANGED token
  /\ UNCHANGED <<cells, wpc, seen, wjob, history, want, ways, failed>>

\* for t in &workers[..ways - 1] { t.unpark() }
Unpark(c) ==
  /\ pc[c] = "unpark"
  /\ IF next[c] < ways[c]
     THEN /\ token' = [token EXCEPT ![next[c]] = TRUE]
          /\ next'  = [next EXCEPT ![c] = @ + 1]
          /\ UNCHANGED pc
     ELSE /\ next' = [next EXCEPT ![c] = 0]
          /\ Goto(c, "own")
          /\ UNCHANGED token
  /\ UNCHANGED <<cells, wpc, seen, wjob, history, want, ways, failed>>

\* Mutant: without catch_unwind a panic of the caller's own share skips the wait.
OwnShareUnwinds(c, panics) ==
  /\ pc[c] = "own"
  /\ next[c] < want[c]
  /\ Began(c, next[c])
  /\ Blew(c, next[c], panics)
  /\ next' = [next EXCEPT ![c] = IF @ = 0 THEN ways[c] ELSE @ + 1]
  /\ failed' = [failed EXCEPT ![c] = panics]
  /\ Goto(c, IF panics THEN "collect" ELSE "own")
  /\ UNCHANGED <<cells, threads, want, ways>>

\* The caller runs share 0, then the shares beyond the threads it got; a
\* panic skips what is left of them (catch_unwind around the whole).
OwnShare(c, panics) ==
  /\ pc[c] = "own"
  /\ next[c] < want[c]
  /\ Began(c, next[c])
  /\ Blew(c, next[c], panics)
  /\ next' = [next EXCEPT ![c] = IF @ = 0 THEN ways[c] ELSE @ + 1]
  /\ failed' = [failed EXCEPT ![c] = panics]
  /\ Goto(c, IF panics THEN "wait" ELSE "own")
  /\ UNCHANGED <<cells, threads, want, ways>>

\* Mutant: busy is given back before the workers have drained.
OwnDoneReleases(c) ==
  /\ pc[c] = "own"
  /\ next[c] >= want[c]
  /\ busy' = FALSE
  /\ Goto(c, "wait")
  /\ UNCHANGED <<word, job, pending, panicked, nworkers, threads, history,
                 want, ways, next, failed>>

OwnDone(c) ==
  /\ pc[c] = "own"
  /\ next[c] >= want[c]
  /\ Goto(c, "wait")
  /\ UNCHANGED <<cells, threads, history, want, ways, next, failed>>

\* while pending.load() != 0 { spin or yield }
Wait(c) ==
  /\ pc[c] = "wait"
  /\ pending = 0
  /\ Goto(c, "collect")
  /\ UNCHANGED <<cells, threads, history, want, ways, next, failed>>

\* Mutant: the flag is read and not cleared.
CollectKeepsFlag(c) ==
  /\ pc[c] = "collect"
  /\ failed' = [failed EXCEPT ![c] = @ \/ panicked]
  /\ Goto(c, "release")
  /\ UNCHANGED <<cells, threads, history, want, ways, next>>

\* panicked.swap(false)
Collect(c) ==
  /\ pc[c] = "collect"
  /\ panicked' = FALSE
  /\ failed' = [failed EXCEPT ![c] = @ \/ panicked]
  /\ Goto(c, "release")
  /\ UNCHANGED <<word, job, pending, busy, nworkers, threads, history,
                 want, ways, next>>

Release(c) ==
  /\ pc[c] = "release"
  /\ busy' = FALSE
  /\ Goto(c, IF failed[c] THEN "unwind" ELSE "return")
  /\ UNCHANGED <<word, job, pending, panicked, nworkers, threads, history,
                 want, ways, next, failed>>

\* (0..want).for_each(job): a panic unwinds out of the loop.
SerialShare(c, panics) ==
  /\ pc[c] = "serial"
  /\ next[c] < want[c]
  /\ Began(c, next[c])
  /\ Blew(c, next[c], panics)
  /\ next' = [next EXCEPT ![c] = @ + 1]
  /\ failed' = [failed EXCEPT ![c] = panics]
  /\ Goto(c, IF panics THEN "serialDone" ELSE "serial")
  /\ UNCHANGED <<cells, threads, want, ways>>

SerialDone(c) ==
  /\ \/ pc[c] = "serialDone"
     \/ pc[c] = "serial" /\ next[c] = want[c]
  /\ Goto(c, IF failed[c] THEN "unwind" ELSE "return")
  /\ UNCHANGED <<cells, threads, history, want, ways, next, failed>>

\* The call is over: normally, or by resume_unwind or the failing assert.
Leave(c) ==
  /\ pc[c] \in {"return", "unwind"}
  /\ Goto(c, "idle")
  /\ want'   = [want EXCEPT ![c] = 0]
  /\ ways'   = [ways EXCEPT ![c] = 0]
  /\ next'   = [next EXCEPT ![c] = 0]
  /\ failed' = [failed EXCEPT ![c] = FALSE]
  /\ begun'  = [begun EXCEPT ![c] = None]
  /\ blown'  = [blown EXCEPT ![c] = {}]
  /\ UNCHANGED <<cells, threads>>
-----------------------------------------------------------------------------
(* A worker thread *)

WGoto(w, label) == wpc' = [wpc EXCEPT ![w] = label]

\* Mutant: the worker compares its share with <= instead of <.
PollNewInclusive(w) ==
  /\ wpc[w] = "poll"
  /\ word.epoch # seen[w]
  /\ seen' = [seen EXCEPT ![w] = word.epoch]
  /\ WGoto(w, IF w <= word.ways THEN "fetch" ELSE "poll")
  /\ UNCHANGED <<cells, token, wjob, locals, history>>

\* word.load() shows an epoch it has not seen: take the share, if it has one.
PollNew(w) ==
  /\ wpc[w] = "poll"
  /\ word.epoch # seen[w]
  /\ seen' = [seen EXCEPT ![w] = word.epoch]
  /\ WGoto(w, IF w < word.ways THEN "fetch" ELSE "poll")
  /\ UNCHANGED <<cells, token, wjob, locals, history>>

\* SPIN failed polls later, the thread is about to park.
PollOld(w) ==
  /\ wpc[w] = "poll"
  /\ word.epoch = seen[w]
  /\ WGoto(w, "park")
  /\ UNCHANGED <<cells, seen, token, wjob, locals, history>>

\* park() returns when it finds (and consumes) a token ...
Unparked(w) ==
  /\ wpc[w] = "park"
  /\ token[w]
  /\ token' = [token EXCEPT ![w] = FALSE]
  /\ WGoto(w, "poll")
  /\ UNCHANGED <<cells, seen, wjob, locals, history>>

\* ... or for no reason at all.
SpuriousWakeup(w) ==
  /\ wpc[w] = "park"
  /\ WGoto(w, "poll")
  /\ UNCHANGED <<cells, seen, token, wjob, locals, history>>

\* Dereference the job cell and enter the job.
Fetch(w) ==
  /\ wpc[w] = "fetch"
  /\ job \in Callers
  /\ wjob' = [wjob EXCEPT ![w] = job]
  /\ Began(job, w)
  /\ WGoto(w, "exec")
  /\ UNCHANGED <<cells, seen, token, locals, blown>>

\* The share ends; catch_unwind turns its panic into a flag.
Exec(w, panics) ==
  /\ wpc[w] = "exec"
  /\ Blew(wjob[w], w, panics)
  /\ wjob' = [wjob EXCEPT ![w] = NoCaller]
  /\ WGoto(w, IF panics THEN "flag" ELSE "finish")
  /\ UNCHANGED <<cells, seen, token, locals, begun>>

Flag(w) ==
  /\ wpc[w] = "flag"
  /\ panicked' = TRUE
  /\ WGoto(w, "finish")
  /\ UNCHANGED <<word, job, pending, busy, nworkers, seen, token, wjob, locals, history>>

\* pending.fetch_sub(1)
Finish(w) ==
  /\ wpc[w] = "finish"
  /\ pending' = pending - 1
  /\ WGoto(w, "poll")
  /\ UNCHANGED <<word, job, panicked, busy, nworkers, seen, token, wjob, locals, history>>
-----------------------------------------------------------------------------
CallerStep(c) ==
  \/ Claim(c) \/ Spawn(c) \/ Grown(c) \/ Unclaim(c)
  \/ SetJob(c) \/ SetPending(c) \/ SetWord(c) \/ Unpark(c)
  \/ \E p \in BOOLEAN : OwnShare(c, p) \/ SerialShare(c, p)
  \/ OwnDone(c) \/ Wait(c) \/ Collect(c) \/ Release(c) \/ SerialDone(c) \/ Leave(c)

WorkerStep(w) ==
  \/ PollNew(w) \/ PollOld(w) \/ Unparked(w)
  \/ Fetch(w) \/ (\E p \in BOOLEAN : Exec(w, p)) \/ Flag(w) \/ Finish(w)

Next ==
  \/ \E c \in Callers : (\E n \in 1 .. MaxWant : Call(c, n)) \/ CallerStep(c)
  \/ \E w \in Workers : WorkerStep(w) \/ SpuriousWakeup(w)

Spec == Init /\ [][Next]_vars

\* The scheduler runs every thread that can run, and a share ends.  Nobody is
\* obliged to call, and a parked thread may count on its token only: a
\* spurious wakeup is never owed to it.
Fairness ==
  /\ \A c \in Callers : WF_vars(CallerStep(c))
  /\ \A w \in Workers : WF_vars(WorkerStep(w))

FairSpec == Spec /\ Fairness
-----------------------------------------------------------------------------
(* Properties *)

CallerLabels ==
  {"idle", "claim", "grow", "unclaim", "setJob", "setPending", "setWord",
   "unpark", "own", "wait", "collect", "release", "serial", "serialDone",
   "return", "unwind"}

WorkerLabels == {"unborn", "poll", "park", "fetch", "exec", "flag", "finish"}

\* Every cell and local stays in its type; in particular the unsigned
\* counter `pending` never goes below zero (it would wrap to usize::MAX and
\* the dispatching caller would wait forever).
TypeOK ==
  /\ word \in [epoch : Nat, ways : 0 .. WaysCap]
  /\ job \in Callers \union {NoCaller}
  /\ pending \in Nat
  /\ panicked \in BOOLEAN
  /\ busy \in BOOLEAN
  /\ nworkers \in Nat /\ nworkers < WaysCap
  /\ wpc \in [Workers -> WorkerLabels]
  /\ seen \in [Workers -> Nat]
  /\ token \in [Workers -> BOOLEAN]
  /\ wjob \in [Workers -> Callers \union {NoCaller}]
  /\ pc \in [Callers -> CallerLabels]
  /\ want \in [Callers -> 0 .. MaxWant]
  /\ ways \in [Callers -> 0 .. WaysCap]
  /\ next \in [Callers -> Nat]
  /\ failed \in [Callers -> BOOLEAN]
  /\ begun \in [Callers -> [Shares -> Nat]]
  /\ blown \in [Callers -> SUBSET Shares]

\* The callers between winning `busy` and giving it back, and those whose
\* dispatch is published and not yet known to have drained.
Holds(c)      == pc[c] \in {"grow", "unclaim", "setJob", "setPending", "setWord",
                            "unpark", "own", "wait", "collect", "release"}
Dispatched(c) == pc[c] \in {"unpark", "own", "wait"}

\* Workers the published word counts whose share is not finished.
InShare(w)  == wpc[w] \in {"fetch", "exec", "flag", "finish"}
Outstanding == {w \in Workers : w < word.ways /\ (seen[w] # word.epoch \/ InShare(w))}

\* A worker that dereferences the job cell, or is inside the job, holds a
\* borrow whose lifetime `run` erased: the call that owns it has not
\* returned, and the cell still points to it ("the job outlives the call
\* below", pool.rs worker).
JobOutlivesShares ==
  \A w \in Workers :
    /\ wpc[w] \in {"fetch", "exec"} => job \in Callers /\ Dispatched(job)
    /\ wpc[w] = "exec" => wjob[w] = job

\* `busy` admits one dispatch at a time, which is what makes the job and
\* workers cells safe to write without a lock.
OneDispatchAtATime ==
  /\ \A c, d \in Callers : Holds(c) /\ Holds(d) => c = d
  /\ (\E c \in Callers : Holds(c)) => busy

\* While a dispatch runs, `pending` counts exactly the workers whose share
\* is not finished: neither a worker that joins late nor one that sleeps
\* through whole dispatches changes the count.
PendingCountsOutstanding ==
  (\E c \in Callers : Dispatched(c)) => pending = Cardinality(Outstanding)

\* A panic flag raised by a worker never outlives its dispatch, so it is
\* never reported by the next caller's `assert!(!panicked)`.
PanicStaysInItsDispatch ==
  panicked => \E c \in Callers : Dispatched(c) \/ pc[c] = "collect"

\* A new word is published only over a drained one: no worker of the
\* previous dispatch still has its share to take or to finish, so none can
\* pair the old epoch's share with the new job.
DrainedBeforeRepublish == [][word' # word => Outstanding = {}]_vars

\* Why these hold, as one inductive invariant.  A worker's view of the word is
\* never ahead of it, and one that is in a share belongs to the published epoch.
WorkersAreCounted ==
  \A w \in Workers :
    /\ seen[w] <= word.epoch
    /\ InShare(w) => seen[w] = word.epoch /\ w < word.ways
    /\ wpc[w] = "exec" => wjob[w] = job

\* What the holder of `busy` has set so far, and that nothing is outstanding
\* outside a dispatch.
DispatchIsPrepared ==
  /\ \A c \in Callers :
       /\ pc[c] # "idle" => ways[c] <= want[c]
       /\ pc[c] \in {"setJob", "setPending", "setWord"} => ways[c] >= 2
       /\ pc[c] \in {"setPending", "setWord"} => job = c
       /\ pc[c] = "setWord" => pending = ways[c] - 1
       /\ Dispatched(c) => job = c /\ word.ways = ways[c]
  /\ (\A c \in Callers : ~Dispatched(c)) => Outstanding = {}

PoolInv ==
  /\ TypeOK
  /\ OneDispatchAtATime
  /\ WorkersAreCounted
  /\ DispatchIsPrepared
  /\ PendingCountsOutstanding
  /\ PanicStaysInItsDispatch

Phase(c) ==
  CASE pc[c] = "idle"   -> "idle"
    [] pc[c] = "return" -> "ok"
    [] pc[c] = "unwind" -> "panic"
    [] OTHER            -> "running"

\* The pool keeps the promise of ForkJoin: shares start once, calls return
\* after all of them, and a panic reaches the caller it belongs to.
Promise == INSTANCE ForkJoin WITH
  phase <- [c \in Callers |-> Phase(c)],
  open <- [c \in Callers |-> {w \in Workers : wpc[w] = "exec" /\ wjob[w] = c}]

KeepsPromise == Promise!Spec

\* Every call returns: no wakeup is lost between a worker's last poll and
\* its park, and no worker counted in `pending` sleeps through its share.
EveryCallReturns == \A c \in Callers : pc[c] # "idle" ~> pc[c] = "idle"
=============================================================================

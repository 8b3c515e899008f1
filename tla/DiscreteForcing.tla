-------------------------- MODULE DiscreteForcing --------------------------
(***************************************************************************)
(* The forcing buffer of a Problem and the discrete-cadence providers that *)
(* fill it (provider.rs; bind_providers, sample_discrete_providers, solve, *)
(* remake and Integrator in problem.rs; run_segmented in                   *)
(* simulate_array/driver.rs).                                              *)
(*                                                                         *)
(* A Problem, the Problems remade from it and the integrators stepping     *)
(* them share one buffer and one RefreshExecutor (`Rc`), so they are on    *)
(* one thread: solves never overlap, but whole solves and integrator steps *)
(* of different clients alternate freely and each leaves the buffer and    *)
(* the providers as it found them useful.  A direct solve is a client with *)
(* one grid point, the end of its span.                                    *)
(*                                                                         *)
(* Time is the ticks 0 .. Horizon; cell k is [k, k + 1).  A record is      *)
(* named by the time it was asked for.                                     *)
(***************************************************************************)
EXTENDS Integers, FiniteSets, FiniteSetsExt

CONSTANTS
  Vars,          \* the parameters fed by a discrete provider, one provider each
  Clients,       \* the solves and integrators sharing the Problem's forcing
  Nobody,        \* no client is solving
  Horizon,
  Anchors,       \* Anchors[v]: refresh_times() of v's provider
  Memory,        \* providers answering None while their record is unchanged
  AnyTime,       \* providers answering at any time, not only at their anchors
  WithDefault,   \* the parameters that declare a default
  From,          \* From[c]: tspan.0 of c's Problem
  Grid,          \* Grid[c]: the times c's successive solves end at
  Unreadable,    \* providers that may fail to read a record
  Refusable      \* providers that may deliver a record of the wrong shape

ASSUME ForcingConstants ==
  /\ Horizon \in Nat
  /\ Nobody \notin Clients
  /\ Memory \subseteq Vars /\ AnyTime \subseteq Vars /\ WithDefault \subseteq Vars
  /\ Memory \cap AnyTime = {}
  /\ Anchors \in [Vars -> SUBSET (0 .. Horizon)]
  /\ From \in [Clients -> 0 .. Horizon]
  /\ Grid \in [Clients -> SUBSET (0 .. Horizon)]
  /\ Unreadable \subseteq Vars /\ Refusable \subseteq Vars

Ticks   == 0 .. Horizon
Default == -1          \* the declared default, in the buffer
Nothing == -2          \* no record: None, or an empty buffer slot
NoCells == [k \in {} |-> Default]

VARIABLES
  built,      \* construction has sampled the providers
  buffer,     \* the forcing buffer
  last,       \* last[v]: the record v's provider delivered last
  who,        \* the client whose solve is running
  now, stop,  \* that solve integrated up to now and is to end at stop
  primed,     \* the buffer was refreshed for the segment starting at now
  cells,      \* cells[k]: the forcing the running solve used on cell k
  at, traj,   \* what each client has been given, as in ForcedSolves
  stopped     \* clients whose last solve stopped early (retcode # Success)

running == <<who, now, stop, primed, cells>>
clients == <<at, traj, stopped>>
vars    == <<built, buffer, last, running, clients>>

Init ==
  /\ built   = FALSE
  /\ buffer  = [v \in Vars |-> Nothing]
  /\ last    = [v \in Vars |-> Nothing]
  /\ who     = Nobody
  /\ now     = 0
  /\ stop    = 0
  /\ primed  = FALSE
  /\ cells   = NoCells
  /\ at      = [c \in Clients |-> From[c]]
  /\ traj    = [c \in Clients |-> NoCells]
  /\ stopped = [c \in Clients |-> FALSE]
-----------------------------------------------------------------------------
(* What the providers deliver *)

IsAnchor(v, t) == t \in Anchors[v]
Before(v, t)   == {a \in Anchors[v] : a < t}

\* refresh(t) is Some.
Answers(v, t) ==
  \/ v \in AnyTime
  \/ IsAnchor(v, t) /\ ~(v \in Memory /\ last[v] = t)

\* refresh_named(t): every provider is asked at t and decides for itself.
Refreshed(t) == [v \in Vars |-> IF Answers(v, t) THEN t ELSE Nothing]

\* Mutant: a provider that has no anchor at t is not asked for an older one.
SampledOnlyAtAnchors(t) == Refreshed(t)

\* sample_in_effect(t): a provider that does not answer at t, which is not
\* its anchor, is asked for its latest anchor before t.
Sampled(t) ==
  [v \in Vars |->
     IF Answers(v, t) THEN t
     ELSE IF ~IsAnchor(v, t) /\ Before(v, t) # {} /\ Answers(v, Max(Before(v, t)))
     THEN Max(Before(v, t))
     ELSE Nothing]

\* Mutant: nobody is vacant.
NoneVacant(t) == {}

\* The parameters sample_in_effect(t) finds no record in effect for.
Vacant(t) == {v \in Vars : ~Answers(v, t) /\ ~IsAnchor(v, t) /\ Before(v, t) = {}}

\* write_fields: the delivered records replace what is held for D.
Written(held, rec, D) ==
  [v \in Vars |-> IF v \in D /\ rec[v] # Nothing THEN rec[v] ELSE held[v]]

\* seed_vacant_discrete.
Seeded(held, D) == [v \in Vars |-> IF v \in D THEN Default ELSE held[v]]

\* Mutant: a provider remembers a record it failed to read.
RemembersUnread(rec, D) == Written(last, rec, Vars)

\* What the providers remember having delivered.
Remembered(rec, D) == Written(last, rec, D)

\* A refresh fails at one provider, some of the others having been asked
\* before it (the executor's order is a hash map's): it could not read the
\* record, or delivered one of the wrong shape, which RemapProvider refuses
\* after the provider has moved on.
Fails(rec) ==
  \E f \in Vars, D \in SUBSET Vars :
    /\ f \notin D
    /\ buffer' = Written(buffer, rec, D)
    /\ \/ /\ f \in Unreadable
          /\ last' = Remembered(rec, D)
       \/ /\ f \in Refusable
          /\ rec[f] # Nothing
          /\ last' = Remembered(rec, D \union {f})
-----------------------------------------------------------------------------
(* Construction, solves and integrator steps *)

\* sample_discrete_providers: a Problem is built only if every parameter
\* ends up with a value.
Build(t) ==
  /\ ~built
  /\ built' = TRUE
  /\ LET rec   == Sampled(t)
         held  == Written(buffer, rec, Vars)
         empty == Vacant(t) \union {v \in Vars : held[v] = Nothing}
     IN  /\ empty \subseteq WithDefault
         /\ buffer' = Seeded(held, empty)
         /\ last'   = Remembered(rec, Vars)
  /\ UNCHANGED <<running, clients>>

Ahead(c)    == {g \in Grid[c] : g > at[c]}
MayStart(c) == built /\ who = Nobody /\ ~stopped[c] /\ Ahead(c) # {}

\* A solve of c's next stretch: the first call of refresh_fn samples the
\* record in effect at its start and seeds the vacant defaults.
Start(c) ==
  /\ MayStart(c)
  /\ Vacant(at[c]) \subseteq WithDefault
  /\ LET rec == Sampled(at[c])
     IN  /\ buffer' = Seeded(Written(buffer, rec, Vars), Vacant(at[c]))
         /\ last'   = Remembered(rec, Vars)
  /\ who' = c /\ now' = at[c] /\ stop' = Min(Ahead(c))
  /\ primed' = TRUE /\ cells' = NoCells
  /\ UNCHANGED <<built, clients>>

\* The solve fails at its start: a provider fails, or a vacant parameter
\* has no default (the others, in name order, may have been seeded).
StartFails(c) ==
  /\ MayStart(c)
  /\ LET rec == Sampled(at[c])
     IN  \/ Fails(rec)
         \/ /\ ~(Vacant(at[c]) \subseteq WithDefault)
            /\ \E D \in SUBSET (Vacant(at[c]) \cap WithDefault) :
                 buffer' = Seeded(Written(buffer, rec, Vars), D)
            /\ last' = Remembered(rec, Vars)
  /\ UNCHANGED <<built, running, clients>>

\* Mutant: only the boundaries inside the span the Problem was built with
\* (here the first half of the horizon) segment a remade Problem's run.
BuiltBoundaries == {b \in UNION {Anchors[v] : v \in Vars} : 2 * b < Horizon}

\* refresh_times(): the union of the providers' anchors.
Boundaries == UNION {Anchors[v] : v \in Vars}

\* The next segment endpoint: the first boundary strictly inside, or the end.
Endpoint == Min({b \in Boundaries : now < b /\ b < stop} \union {stop})

\* The cells of a segment are integrated with the buffer as it stands.
Integrated(b) ==
  [k \in DOMAIN cells \union (now .. b - 1) |-> IF k < now THEN cells[k] ELSE buffer]

\* One segment; at the last one the solve returns and the client takes the
\* new state (Integrator::step commits only now).
Segment ==
  /\ who # Nobody /\ primed
  /\ primed' = FALSE
  /\ \/ /\ Endpoint < stop
        /\ now'   = Endpoint
        /\ cells' = Integrated(Endpoint)
        /\ UNCHANGED <<who, stop, clients>>
     \/ /\ Endpoint = stop
        /\ at'   = [at EXCEPT ![who] = stop]
        /\ traj' = [traj EXCEPT ![who] =
                     [k \in DOMAIN @ \union (at[who] .. stop - 1) |->
                        IF k < at[who] THEN @[k] ELSE Integrated(stop)[k]]]
        /\ who' = Nobody /\ now' = 0 /\ stop' = 0 /\ cells' = NoCells
        /\ UNCHANGED stopped
  /\ UNCHANGED <<built, buffer, last>>

Ends == who' = Nobody /\ now' = 0 /\ stop' = 0 /\ primed' = FALSE /\ cells' = NoCells

\* A segment stops early (cancelled, out of iterations, unstable): the run
\* ends there with its retcode, and an integrator takes no new state.
StopsEarly ==
  /\ who # Nobody /\ primed
  /\ stopped' = [stopped EXCEPT ![who] = TRUE]
  /\ Ends
  /\ UNCHANGED <<built, buffer, last, at, traj>>

\* refresh_named at the boundary the next segment starts at.
Refresh ==
  /\ who # Nobody /\ ~primed
  /\ buffer' = Written(buffer, Refreshed(now), Vars)
  /\ last'   = Remembered(Refreshed(now), Vars)
  /\ primed' = TRUE
  /\ UNCHANGED <<built, who, now, stop, cells, clients>>

\* ... which may fail: solve returns the error and the client keeps what it
\* had, so that it may try the step again.
RefreshFails ==
  /\ who # Nobody /\ ~primed
  /\ Fails(Refreshed(now))
  /\ Ends
  /\ UNCHANGED <<built, clients>>

\* Mutant: a new integrator starts at the time the old one reached.
RestartKeepsTime(c) ==
  /\ who = Nobody
  /\ traj'    = [traj EXCEPT ![c] = NoCells]
  /\ stopped' = [stopped EXCEPT ![c] = FALSE]
  /\ UNCHANGED <<built, buffer, last, running, at>>

\* A client is solved from its start again, or its integrator made anew.
Restart(c) ==
  /\ who = Nobody
  /\ at'      = [at EXCEPT ![c] = From[c]]
  /\ traj'    = [traj EXCEPT ![c] = NoCells]
  /\ stopped' = [stopped EXCEPT ![c] = FALSE]
  /\ UNCHANGED <<built, buffer, last, running>>

Next ==
  \/ \E t \in Ticks : Build(t)
  \/ \E c \in Clients : Start(c) \/ StartFails(c) \/ Restart(c)
  \/ Segment \/ StopsEarly \/ Refresh \/ RefreshFails

Spec == Init /\ [][Next]_vars
-----------------------------------------------------------------------------
(* Properties *)

Records == Ticks \union {Default}

TypeOK ==
  /\ built \in BOOLEAN
  /\ buffer \in [Vars -> Records \union {Nothing}]
  /\ last \in [Vars -> Ticks \union {Nothing}]
  /\ who \in Clients \union {Nobody}
  /\ now \in Ticks /\ stop \in Ticks /\ primed \in BOOLEAN
  /\ cells \in [IF who = Nobody THEN {} ELSE at[who] .. now - 1 -> [Vars -> Records]]
  /\ at \in [Clients -> Ticks]
  /\ DOMAIN traj = Clients
  /\ \A c \in Clients : traj[c] \in [From[c] .. at[c] - 1 -> [Vars -> Records]]
  /\ stopped \in [Clients -> BOOLEAN]

Promise == INSTANCE ForcedSolves

\* Every cell the running solve has integrated, and every one a client took
\* from its solves, was forced by the record in effect there, whatever other clients, failed solves and retries left in
\* the shared buffer and the providers ("the record in effect there, whatever
\* an earlier solve ... left in the buffer": problem.rs, solve; and remake:
\* "the two never integrate each other's records").
SolveReadsRecordInEffect ==
  \A v \in Vars :
    /\ \A k \in DOMAIN cells : cells[k][v] = Promise!InEffect(v, k)
    /\ \A c \in Clients : \A k \in DOMAIN traj[c] : traj[c][k][v] = Promise!InEffect(v, k)

\* While a segment integrates, the buffer it reads holds the records in
\* effect at its start, all of them.
PrimedBufferInEffect ==
  who # Nobody /\ primed => \A v \in Vars : buffer[v] = Promise!InEffect(v, now)

\* A provider that would answer None because its record is unchanged is one
\* whose record the buffer still holds: None-skip leaves the right field in
\* place (CadenceProvider::refresh, provider.rs).
NoneSkipIsSafe ==
  \A v \in Memory : last[v] # Nothing => buffer[v] = last[v]

\* A run stepped in pieces is the run solved in one call: two clients that
\* start together are forced alike wherever both have integrated (Integrator,
\* problem.rs: stepping "is the same trajectory to tolerance").
SteppingChangesNothing ==
  \A c, d \in Clients : From[c] = From[d] =>
    \A k \in DOMAIN traj[c] \cap DOMAIN traj[d] : traj[c][k] = traj[d][k]

\* The shared buffer keeps the promise of ForcedSolves to every client.
KeepsPromise == Promise!Spec
-----------------------------------------------------------------------------
(* Why these hold, as one inductive invariant *)

\* The providers the promise can be kept with: none answers between its
\* anchors, and one that remembers what it delivered has a record from the
\* start of every span and never one that is refused.
Dependable ==
  /\ AnyTime = {}
  /\ \A v \in Memory :
       /\ v \notin Refusable
       /\ \A c \in Clients : \E a \in Anchors[v] : a <= From[c]

\* What a run in progress looks like; the providers delivered nothing before
\* construction sampled them.
RunShape ==
  /\ ~built => who = Nobody /\ \A v \in Vars : last[v] = Nothing
  /\ \A c \in Clients : From[c] <= at[c]
  /\ who # Nobody => at[who] <= now /\ now < stop
  /\ who # Nobody /\ ~primed => at[who] < now

\* Between two segments the buffer still holds what the last one used.
UnprimedBufferInEffect ==
  who # Nobody /\ ~primed => \A v \in Vars : buffer[v] = Promise!InEffect(v, now - 1)

\* What was integrated is what ForcedSolves promises.
IntegratedAsPromised ==
  /\ cells = IF who = Nobody THEN NoCells ELSE Promise!Forced(at[who], now)
  /\ traj = [c \in Clients |-> Promise!Forced(From[c], at[c])]

ForcingInv ==
  /\ TypeOK
  /\ RunShape
  /\ NoneSkipIsSafe
  /\ PrimedBufferInEffect
  /\ UnprimedBufferInEffect
  /\ IntegratedAsPromised
=============================================================================

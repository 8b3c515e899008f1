---------------------------- MODULE ForcedSolves ----------------------------
(***************************************************************************)
(* What the discrete-cadence forcing of a Problem promises the solves that *)
(* share it, with no buffer, provider or segment in sight: whoever         *)
(* integrates over a cell of time reads, for every forced parameter, the   *)
(* record in effect there, and what the others do changes nothing.         *)
(* The promise is the comment in `solve` and the one in `remake` on the    *)
(* shared providers (problem.rs); DiscreteForcing is shown to keep it.     *)
(***************************************************************************)
EXTENDS Integers

CONSTANTS
  Vars,      \* the parameters fed by a discrete provider
  Clients,   \* the solves and integrators that share one Problem's forcing
  Horizon,   \* times are the ticks 0 .. Horizon; cell k is [k, k + 1)
  Anchors,   \* Anchors[v]: the refresh times of v's provider
  From       \* From[c]: the tick client c integrates from

Ticks   == 0 .. Horizon
Default == -1            \* the parameter's declared default
NoCells == [k \in {} |-> Default]

VARIABLES
  at,        \* at[c]: how far client c got
  traj       \* traj[c][k]: the forcing c integrated cell k with

vars == <<at, traj>>

\* The record in effect at tick k: the one of the latest refresh time not
\* after k, the declared default before the first.
InEffect(v, k) ==
  IF \E a \in Anchors[v] : a <= k
  THEN CHOOSE a \in Anchors[v] : a <= k /\ \A b \in Anchors[v] : b <= k => b <= a
  ELSE Default

Forced(a, b) == [k \in a .. b - 1 |-> [v \in Vars |-> InEffect(v, k)]]

Init ==
  /\ at   = [c \in Clients |-> From[c]]
  /\ traj = [c \in Clients |-> NoCells]

\* One solve of c's ends at tick b, with every cell up to b forced.
Advance(c, b) ==
  /\ at[c] < b
  /\ at'   = [at EXCEPT ![c] = b]
  /\ traj' = [traj EXCEPT ![c] = Forced(From[c], b)]

\* c is solved, or its integrator initialised, anew.
Restart(c) ==
  /\ at'   = [at EXCEPT ![c] = From[c]]
  /\ traj' = [traj EXCEPT ![c] = NoCells]

Next == \E c \in Clients : Restart(c) \/ \E b \in Ticks : Advance(c, b)

Spec == Init /\ [][Next]_vars
=============================================================================

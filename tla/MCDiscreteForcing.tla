------------------------- MODULE MCDiscreteForcing -------------------------
(* Finite instances of DiscreteForcing for TLC. *)
EXTENDS DiscreteForcing, TLC

CONSTANTS
  u, w, x, y,         \* forced parameters
  solve, step,        \* a direct solve, and a stepping integrator over its span
  early, late         \* direct solves of Problems remade for other spans

\* u's and y's providers have a record from the start, w's from 2, x's from 1: refresh
\* times are shared (2), one provider's own (5), on the step grid (4) and
\* between two grid points.  Nothing is in effect for x at early's start.
MixedAnchors == u :> {0, 2} @@ w :> {2, 5} @@ x :> {1, 4} @@ y :> {0, 1, 4}
\* No provider has a record at 0, and only w's has one at 1.
LateAnchors  == u :> {2, 4} @@ w :> {1, 4, 5}
\* Both providers have a record from the start.
EarlyAnchors == u :> {0, 2} @@ w :> {0, 1, 4}

SpanStarts == solve :> 1 @@ step :> 1 @@ early :> 0 @@ late :> 3
StepGrid   == solve :> {6} @@ step :> {3, 4, 6} @@ early :> {3} @@ late :> {5}
=============================================================================

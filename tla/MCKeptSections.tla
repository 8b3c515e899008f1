--------------------------- MODULE MCKeptSections ---------------------------
(***************************************************************************)
(* KeptSections on a small instance.  Two interchangeable parameter        *)
(* vectors beside the one the CONST section faults on: with a single sound *)
(* one, a SEGMENT section kept from other parameters would look right.     *)
(* One sound content is enough, since a stale one then differs in whether  *)
(* it faults.                                                              *)
(***************************************************************************)
EXTENDS KeptSections, TLC

CONSTANTS p1, p2, pBad

MCParams    == {p1, p2, pBad}
MCBadParams == {pBad}

Interchangeable == Permutations({p1, p2})
=============================================================================

----------------------------- MODULE ShareCuts ------------------------------
(***************************************************************************)
(* How a call's elements are cut into the shares of its threads            *)
(* (simulate_array/tape/exec/par.rs share_at, share_aligned).              *)
(***************************************************************************)
EXTENDS Integers

CONSTANT Align   \* elements of a cache line

ASSUME AlignAssumption == Align \in Nat \ {0}

Down(a, step) == (a \div step) * step

\* Where share k of `ways` equal shares of n begins.
EvenCut(n, k, ways) == (n * k) \div ways

\* Mutant: the last cut is rounded down to a line like the others.
CutAllToLines(n, k, ways, phase) ==
  LET line == Down(EvenCut(n, k, ways) + phase, Align)
  IN IF line < phase THEN 0 ELSE line - phase

\* share_at: the same, at a line's start, of elements that begin `phase` past
\* one.  The first test is saturating_sub.
Cut(n, k, ways, phase) ==
  LET line == Down(EvenCut(n, k, ways) + phase, Align) IN
  IF k = ways THEN n
  ELSE IF line < phase THEN 0
  ELSE IF line - phase < n THEN line - phase ELSE n

\* The elements 0 .. n-1 at address `to` that thread w takes.
Share(n, w, ways, to) ==
  Cut(n, w, ways, to % Align) .. Cut(n, w + 1, ways, to % Align) - 1

\* share_aligned: cut where a row starts.
RowCut(n, k, ways, row) ==
  LET c == Down(EvenCut(n, k, ways), row)
  IN IF k = ways THEN n ELSE IF c < n THEN c ELSE n

RowShare(n, w, ways, row) == RowCut(n, w, ways, row) .. RowCut(n, w + 1, ways, row) - 1
=============================================================================

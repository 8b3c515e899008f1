------------------------------ MODULE ForkJoin ------------------------------
(***************************************************************************)
(* What pool::run promises its callers, with no threads, epochs or parking *)
(* in sight: a call of n shares starts each share at most once, never      *)
(* returns while one of them is still executing, returns normally only     *)
(* when every share ran and none panicked, and panics exactly when one did.*)
(* The promise is the doc comment above `run` (pool.rs) and the comment on *)
(* Pool::job; ForkJoinPool is shown to keep it.                            *)
(***************************************************************************)
EXTENDS Naturals

CONSTANTS
  Callers,    \* the threads that may call run
  MaxWant     \* the largest number of shares a call asks for

Shares == 0 .. MaxWant - 1

VARIABLES
  phase,      \* phase[c]: "idle" outside a call, "running" inside one, then
              \* "ok" or "panic", the way the call is about to end
  want,       \* want[c]: the shares that call asked for (0 outside a call)
  begun,      \* begun[c][s]: how often the call started share s
  open,       \* open[c]: the shares executing now
  blown       \* blown[c]: the shares of the call that panicked

vars == <<phase, want, begun, open, blown>>

None == [s \in Shares |-> 0]

Init ==
  /\ phase = [c \in Callers |-> "idle"]
  /\ want  = [c \in Callers |-> 0]
  /\ begun = [c \in Callers |-> None]
  /\ open  = [c \in Callers |-> {}]
  /\ blown = [c \in Callers |-> {}]

Begin(c, n) ==
  /\ phase[c] = "idle"
  /\ phase' = [phase EXCEPT ![c] = "running"]
  /\ want'  = [want EXCEPT ![c] = n]
  /\ UNCHANGED <<begun, open, blown>>

\* A share of a running call may start if it never did.
MayStart(c, s) == phase[c] = "running" /\ s < want[c] /\ begun[c][s] = 0

\* Another thread takes share s of c's call ...
Start(c, s) ==
  /\ MayStart(c, s)
  /\ begun' = [begun EXCEPT ![c][s] = @ + 1]
  /\ open'  = [open EXCEPT ![c] = @ \union {s}]
  /\ UNCHANGED <<phase, want, blown>>

\* ... and finishes it, by returning from the job or by panicking in it.
End(c, s, panics) ==
  /\ s \in open[c]
  /\ open'  = [open EXCEPT ![c] = @ \ {s}]
  /\ blown' = [blown EXCEPT ![c] = IF panics THEN @ \union {s} ELSE @]
  /\ UNCHANGED <<phase, want, begun>>

\* The calling thread runs a share of its own call from start to end.
RunOwn(c, s, panics) ==
  /\ MayStart(c, s)
  /\ begun' = [begun EXCEPT ![c][s] = @ + 1]
  /\ blown' = [blown EXCEPT ![c] = IF panics THEN @ \union {s} ELSE @]
  /\ UNCHANGED <<phase, want, open>>

\* The call may conclude once nothing of it executes: normally when all its
\* shares ran and none panicked, by a panic when one of them did.
Conclude(c) ==
  /\ phase[c] = "running"
  /\ open[c] = {}
  /\ \/ /\ blown[c] = {}
        /\ \A s \in 0 .. want[c] - 1 : begun[c][s] = 1
        /\ phase' = [phase EXCEPT ![c] = "ok"]
     \/ /\ blown[c] # {}
        /\ phase' = [phase EXCEPT ![c] = "panic"]
  /\ UNCHANGED <<want, begun, open, blown>>

Leave(c) ==
  /\ phase[c] \in {"ok", "panic"}
  /\ phase' = [phase EXCEPT ![c] = "idle"]
  /\ want'  = [want EXCEPT ![c] = 0]
  /\ begun' = [begun EXCEPT ![c] = None]
  /\ blown' = [blown EXCEPT ![c] = {}]
  /\ UNCHANGED open

Next ==
  \E c \in Callers :
    \/ \E n \in 1 .. MaxWant : Begin(c, n)
    \/ \E s \in Shares : Start(c, s)
    \/ \E s \in Shares, p \in BOOLEAN : End(c, s, p) \/ RunOwn(c, s, p)
    \/ Conclude(c) \/ Leave(c)

Spec == Init /\ [][Next]_vars
=============================================================================

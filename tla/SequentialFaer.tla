--------------------------- MODULE SequentialFaer ---------------------------
(***************************************************************************)
(* The guard that holds faer's process-wide parallelism at sequential      *)
(* while explicit solves run (SequentialFaer, simulate/driver.rs): a       *)
(* counter and a saved setting behind one mutex, with the setting itself   *)
(* outside it, where every solve of the process reads it.                  *)
(*                                                                         *)
(* Threads solve concurrently, and a solve may start another one from a    *)
(* progress callback, so a thread holds up to MaxDepth guards.  A guard is *)
(* dropped the same way when the solve returns, fails or unwinds, and the  *)
(* lock ignores poisoning.                                                 *)
(***************************************************************************)
EXTENDS Naturals, FiniteSets

CONSTANTS
  Threads,
  NoThread,   \* the mutex is free
  Settings,   \* the values of faer's global parallelism
  Sequential, \* Par::Seq
  MaxDepth    \* solves nested in one thread at once (bound)

ASSUME GuardConstants ==
  /\ IsFiniteSet(Threads) /\ NoThread \notin Threads
  /\ Sequential \in Settings
  /\ MaxDepth \in Nat

VARIABLES
  lock,       \* the thread holding SEQUENTIAL_FAER
  count,      \* SEQUENTIAL_FAER.0
  saved,      \* SEQUENTIAL_FAER.1, which only count # 0 reads
  setting,    \* faer's global parallelism
  pc,         \* where in enter or drop a thread is, "run" outside them
  depth,      \* the guards a thread holds
  host        \* the setting the host program chose last

vars == <<lock, count, saved, setting, pc, depth, host>>

Init ==
  /\ lock = NoThread
  /\ count = 0
  /\ host \in Settings
  /\ saved = host
  /\ setting = host
  /\ pc = [t \in Threads |-> "run"]
  /\ depth = [t \in Threads |-> 0]

Goto(t, label) == pc' = [pc EXCEPT ![t] = label]

MayEnter(t) == pc[t] = "run" /\ lock = NoThread /\ depth[t] < MaxDepth
MayDrop(t)  == pc[t] = "run" /\ lock = NoThread /\ depth[t] > 0

\* Mutant: every guard saves the setting it finds.
EnterAlwaysSaves(t) ==
  /\ MayEnter(t)
  /\ lock' = t
  /\ Goto(t, "save")
  /\ UNCHANGED <<count, saved, setting, depth, host>>

\* enter, lock taken: only the first guard touches the setting.
Enter(t) ==
  /\ MayEnter(t)
  /\ lock' = t
  /\ Goto(t, IF count = 0 THEN "save" ELSE "count")
  /\ UNCHANGED <<count, saved, setting, depth, host>>

Save(t) ==
  /\ pc[t] = "save"
  /\ saved' = setting
  /\ Goto(t, "set")
  /\ UNCHANGED <<lock, count, setting, depth, host>>

SetSequential(t) ==
  /\ pc[t] = "set"
  /\ setting' = Sequential
  /\ Goto(t, "count")
  /\ UNCHANGED <<lock, count, saved, depth, host>>

\* The count goes up and the lock is released; the solve begins.
Entered(t) ==
  /\ pc[t] = "count"
  /\ count' = count + 1
  /\ depth' = [depth EXCEPT ![t] = @ + 1]
  /\ lock' = NoThread
  /\ Goto(t, "run")
  /\ UNCHANGED <<saved, setting, host>>

\* Mutant: every guard puts the setting back as it goes.
DropAlwaysRestores(t) ==
  /\ MayDrop(t)
  /\ count' = count - 1
  /\ depth' = [depth EXCEPT ![t] = @ - 1]
  /\ lock' = t
  /\ Goto(t, "restore")
  /\ UNCHANGED <<saved, setting, host>>

\* drop: the innermost solve of t is over, and the last guard restores.
Drop(t) ==
  /\ MayDrop(t)
  /\ count' = count - 1
  /\ depth' = [depth EXCEPT ![t] = @ - 1]
  /\ IF count = 1
     THEN lock' = t /\ Goto(t, "restore")
     ELSE UNCHANGED <<lock, pc>>
  /\ UNCHANGED <<saved, setting, host>>

Restore(t) ==
  /\ pc[t] = "restore"
  /\ setting' = saved
  /\ lock' = NoThread
  /\ Goto(t, "run")
  /\ UNCHANGED <<count, saved, depth, host>>

\* The host sets the parallelism itself, while no guard is held or being
\* taken (a host that does so during an explicit solve loses its choice).
HostSets(p) ==
  /\ count = 0 /\ lock = NoThread
  /\ setting' = p /\ host' = p
  /\ UNCHANGED <<lock, count, saved, pc, depth>>

Next ==
  \/ \E t \in Threads : Enter(t) \/ Save(t) \/ SetSequential(t) \/ Entered(t)
                        \/ Drop(t) \/ Restore(t)
  \/ \E p \in Settings : HostSets(p)

Spec == Init /\ [][Next]_vars
-----------------------------------------------------------------------------
(* Properties *)

TypeOK ==
  /\ lock \in Threads \union {NoThread}
  /\ count \in Nat
  /\ saved \in Settings /\ setting \in Settings /\ host \in Settings
  /\ pc \in [Threads -> {"run", "save", "set", "count", "restore"}]
  /\ depth \in [Threads -> 0 .. MaxDepth]

\* While an explicit solve runs, on whatever thread and however many start
\* and end beside it, its linear algebra is sequential.
ExplicitIsSequential ==
  \A t \in Threads : depth[t] > 0 => setting = Sequential

\* Once no guard is held or being moved, the setting is the host's again.
QuietIsRestored ==
  count = 0 /\ lock = NoThread => setting = host
-----------------------------------------------------------------------------
(* The inductive invariant behind them *)

\* The guards alive, one per nested solve.
Guards == {g \in Threads \X (1 .. MaxDepth) : g[2] <= depth[g[1]]}

\* Exactly the mutex's holder is inside enter or drop, and one that enters
\* has room for the guard.
HolderMoves ==
  \A t \in Threads :
    /\ lock = t <=> pc[t] # "run"
    /\ pc[t] \in {"save", "set", "count"} => depth[t] < MaxDepth

\* The count is the number of guards alive, and only its first and its last
\* guard touch the setting.
CountIsGuards ==
  /\ count = Cardinality(Guards)
  /\ \A t \in Threads : pc[t] \in {"save", "set", "restore"} => count = 0

\* What the setting and the saved copy are at each point.
SettingFollows ==
  /\ count > 0 => setting = Sequential /\ saved = host
  /\ count = 0 /\ lock = NoThread => setting = host
  /\ \A t \in Threads :
       /\ pc[t] = "save" => setting = host
       /\ pc[t] = "set" => setting = host /\ saved = host
       /\ pc[t] = "count" => setting = Sequential /\ saved = host
       /\ pc[t] = "restore" => setting = Sequential /\ saved = host

GuardInv == TypeOK /\ HolderMoves /\ CountIsGuards /\ SettingFollows
=============================================================================

-------------------------- MODULE AnalysisSnapshot --------------------------
(***************************************************************************)
(* What a workspace shows of the analyses of its binaries: for each binary *)
(* nothing, or the whole result of one analysis run, which a later run of  *)
(* the same binary replaces in one step.  AnalysisIngest implements this.  *)
(***************************************************************************)
EXTENDS Naturals

CONSTANTS
  Binary,   \* binary ids, hashes of the bytes of the binaries
  MaxRun,   \* bound on the number of completed runs
  MaxFn     \* bound on the number of functions a run recovers

VARIABLES
  shown,    \* shown[b][i]: the run that wrote function i of b
  completed \* the runs that have completed

Init ==
  /\ shown = [b \in Binary |-> [i \in {} |-> 0]]
  /\ completed = {}

\* run r recovered n functions of b
Publish(b, r, n) ==
  /\ r \in (1..MaxRun) \ completed
  /\ shown' = [shown EXCEPT ![b] = [i \in 1..n |-> r]]
  /\ completed' = completed \cup {r}

Next == \E b \in Binary, r \in 1..MaxRun, n \in 0..MaxFn : Publish(b, r, n)

vars == <<shown, completed>>

Spec == Init /\ [][Next]_vars

=============================================================================

---------------------------- MODULE ParallelCopy ----------------------------
(***************************************************************************)
(* insert_parallel_copies in crates/revx-dex/src/philower.rs: the          *)
(* assignments that the phis of a block make at once, turned into a        *)
(* sequence of copies.                                                     *)
(*                                                                         *)
(* Each copy emitted is run as it is emitted, in env.  pending, sorted in  *)
(* the code so that its output is reproducible, is a set here: whichever   *)
(* pair the code takes first, the steps below take any.                    *)
(***************************************************************************)
EXTENDS Integers, FiniteSets

CONSTANT First   \* next_value: the first id that no value has yet

ASSUME FirstAssumption == First \in Nat

VARIABLES
  pending,   \* the assignments left: pairs of a destination and a source
  env,       \* what each value holds; ids from First on are temporaries
  next,      \* the id of the next temporary
  want       \* history: what each destination held in these copies must hold

copyVars == <<pending, env, next, want>>

Value == 0..First - 1

\* The assignments: one source for each destination, none to itself.
Assigns(P) ==
  /\ P \subseteq Value \X Value
  /\ \A p \in P : p[1] # p[2]
  /\ \A p, q \in P : p[1] = q[1] => p = q

\* What the destinations of P hold when all are assigned at once.
Assigned(P, e) ==
  [d \in {p[1] : p \in P} |-> e[(CHOOSE p \in P : p[1] = d)[2]]]

CopyInit ==
  /\ pending \in SUBSET (Value \X Value) /\ Assigns(pending)
  /\ env = [v \in Value |-> v]
  /\ next = First
  /\ want = Assigned(pending, env)

\* No assignment left reads the destination.
Ready(p) == \A q \in pending : q[2] # p[1]

Store(p) ==
  /\ p \in pending /\ Ready(p)
  /\ pending' = pending \ {p}
  /\ env' = [env EXCEPT ![p[1]] = env[p[2]]]
  /\ UNCHANGED <<next, want>>

\* the temporary takes over the source instead of the destination
BreakCycle_Slip(p) ==
  /\ p \in pending /\ \A q \in pending : ~Ready(q)
  /\ env' = [v \in 0..next |-> IF v = next THEN env[p[2]] ELSE env[v]]
  /\ pending' = {p} \cup {<<q[1], IF q[2] = p[1] THEN next ELSE q[2]>> :
                            q \in pending \ {p}}
  /\ next' = next + 1
  /\ UNCHANGED want

\* the assignments go on reading the destination
BreakCycle_Stale(p) ==
  /\ p \in pending /\ \A q \in pending : ~Ready(q)
  /\ env' = [v \in 0..next |-> IF v = next THEN env[p[1]] ELSE env[v]]
  /\ next' = next + 1
  /\ UNCHANGED <<pending, want>>

\* Only cycles are left: a temporary takes over what a destination holds, and
\* the assignments that read the destination read the temporary instead.
BreakCycle(p) ==
  /\ p \in pending /\ \A q \in pending : ~Ready(q)
  /\ env' = [v \in 0..next |-> IF v = next THEN env[p[1]] ELSE env[v]]
  /\ pending' = {p} \cup {<<q[1], IF q[2] = p[1] THEN next ELSE q[2]>> :
                            q \in pending \ {p}}
  /\ next' = next + 1
  /\ UNCHANGED want

CopyNext == \E p \in pending : Store(p) \/ BreakCycle(p)

CopySpec == CopyInit /\ [][CopyNext]_copyVars

-----------------------------------------------------------------------------
(* Properties *)

\* When the copies of insert_parallel_copies have run, every destination
\* holds what its source held before the first of them, cycles included.
Simultaneous ==
  pending = {} => \A d \in DOMAIN want : env[d] = want[d]

\* A cycle costs one temporary, and so the loop ends: there are never more
\* of them than half the destinations.
FewTemporaries == 2 * (next - First) <= Cardinality(DOMAIN want)
=============================================================================

----------------------------- MODULE MC_PhiLower -----------------------------
(***************************************************************************)
(* All graphs of an entry, an exit and two blocks between them that branch *)
(* or jump anywhere but to the entry: loops of one and of two blocks,      *)
(* entered and left at several places, joins, and critical edges.          *)
(***************************************************************************)
EXTENDS PhiLower

MCGraphs == {<<g[1], f[2], f[3], {}>> :
  g \in {<<{2}>>, <<{2, 3}>>},
  f \in [2..3 -> {S \in SUBSET (2..4) : Cardinality(S) \in 1..2}]}

MCShapes == {g \in MCGraphs :
  \A S \in SUBSET Block :
    EntryBlock \in S /\ (\A b \in S : g[b] \subseteq S) => S = Block}
=============================================================================

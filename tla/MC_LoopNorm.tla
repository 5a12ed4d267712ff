----------------------------- MODULE MC_LoopNorm -----------------------------
(***************************************************************************)
(* All graphs of an entry that goes one, two or three ways, a block that   *)
(* branches or jumps anywhere, one that does so but to the entry, and one  *)
(* that returns or goes back to either: loops entered at one, two or three *)
(* blocks, at the entry of the method, and left at several, joins, and     *)
(* blocks that nothing reaches.                                            *)
(***************************************************************************)
EXTENDS LoopNorm

MCBranches(S) == {<<a>> : a \in S} \cup {<<e[1], e[2]>> : e \in {f \in S \X S : f[1] < f[2]}}

MCShapes == {<<e, a, b, g>> :
  e \in {<<2>>, <<2, 3>>, <<2, 3, 4>>},
  a \in MCBranches(Original),
  b \in MCBranches(Original \ {Entry}),
  g \in {<<>>, <<2, 3>>}}
=============================================================================

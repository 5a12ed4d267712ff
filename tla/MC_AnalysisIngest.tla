------------------------- MODULE MC_AnalysisIngest -------------------------
(***************************************************************************)
(* AnalysisIngest for TLC.  Sessions, binaries and paths are               *)
(* interchangeable, and every property checked here is a safety property   *)
(* that treats them alike.                                                 *)
(***************************************************************************)
EXTENDS AnalysisIngest, TLC

Symmetry ==
  Permutations(Session) \cup Permutations(Binary) \cup Permutations(Path)

=============================================================================

------------------------ MODULE MC_FunctionRecovery ------------------------
(***************************************************************************)
(* FunctionRecovery for TLC: two small sections, a stub and a seed outside *)
(* of them, sweeps of two bytes and functions of at most three.            *)
(***************************************************************************)
EXTENDS FunctionRecovery

TextSections == {<<0, 4>>, <<5, 8>>}

=============================================================================

-------------------------- MODULE MC_ObjectPipeline --------------------------
(***************************************************************************)
(* In a file r lie a package p and, for those who look closer, a native    *)
(* binary n; p holds a member m, m a fat binary f of the slices n and t,   *)
(* of which t is the one analysed for f.  One request works on r and,      *)
(* deeper than one analysis of r looks, on what is below; the other        *)
(* analyses m.                                                             *)
(***************************************************************************)
EXTENDS ObjectPipeline

MCRoot == [a \in Actor |-> IF a \in Pipeline THEN "r" ELSE "m"]
MCNothing == [o \in Obj |-> <<>>]
MCEntry == [MCNothing EXCEPT !["p"] = <<"m">>]
MCDig == [MCNothing EXCEPT !["r"] = <<"p">>, !["m"] = <<"f">>]
MCMember == [MCNothing EXCEPT !["p"] = <<"m">>, !["f"] = <<"n", "t">>]
MCCarve == [MCNothing EXCEPT !["r"] = <<"p", "n">>]
MCBinaryId == [o \in Native |-> IF o = "f" THEN "t" ELSE o]
=============================================================================

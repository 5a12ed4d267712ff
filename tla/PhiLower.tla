------------------------------ MODULE PhiLower ------------------------------
(***************************************************************************)
(* lower in crates/revx-dex/src/philower.rs: the phis of a lifted method   *)
(* become copies at the end of the blocks they come from, or on a block of *)
(* their own when the edge is critical.                                    *)
(*                                                                         *)
(* The control flow graph, the phis and the protected blocks are any of a  *)
(* bounded set.  The method in SSA form and the lowered one then take the  *)
(* same path, in ssa and in env; other instructions define no values here, *)
(* so a value is an input of the method or a phi.                          *)
(***************************************************************************)
EXTENDS ParallelCopy

CONSTANTS
  Block,        \* basic blocks
  EntryBlock,
  Shapes,       \* the successor functions of the graphs looked at
  Input,        \* ids of the inputs, below First; the other ids are phis
  Protected,    \* sets of blocks that exception_blocks may name
  MaxNewBlocks, \* split edges allowed: the budget, or 256 less the blocks
  Undef         \* u32::MAX: no value comes along an edge

Phi == Value \ Input

ASSUME PhiAssumption ==
  /\ IsFiniteSet(Block)
  /\ EntryBlock \in Block /\ Shapes \subseteq [Block -> SUBSET Block]
  /\ Input \subseteq Value /\ MaxNewBlocks \in Nat /\ Undef \notin Value

VARIABLES
  succs,      \* cfg.succs
  home,       \* the block of each phi
  incoming,   \* the value each phi takes from each predecessor, or Undef
  protected,  \* blocks of the exception flow
  split,      \* the edges that got a block of their own
  here,       \* the block being run
  stage,      \* what is being run of it
  goal,       \* where the branch taken leads
  ssa         \* what each value holds in the method before lowering

cfg == <<succs, home, incoming, protected>>
phiVars == <<copyVars, cfg, split, here, stage, goal, ssa>>

Preds(b) == {a \in Block : b \in succs[a]}

\* What is reached from the entry without passing d.
Around(d) ==
  LET Closed == {S \in SUBSET (Block \ {d}) :
                   /\ EntryBlock \in S \cup {d}
                   /\ \A x \in S : succs[x] \subseteq S \cup {d}}
  IN  {b \in Block : \A S \in Closed : b \in S}

Dominates(d, b) == b \notin Around(d)

\* A value may be used where every path has passed its definition.
Available(v, b) == v \in Input \/ Dominates(home[v], b)

\* A phi has a place for a value from each predecessor of its block.
Slot == {s \in Phi \X Block : home[s[1]] \in succs[s[2]]}

WellFormed ==
  {f \in [Slot -> Value \cup {Undef}] :
     \A s \in Slot : f[s] # Undef => Available(f[s], s[2])}

NoCopies == pending = {} /\ next = First /\ want = [d \in {} |-> Undef]

Init ==
  /\ succs \in Shapes
  /\ home \in [Phi -> Block \ {EntryBlock}]
  /\ incoming \in WellFormed
  /\ protected \in Protected
  /\ split = {} /\ here = EntryBlock /\ stage = "lower" /\ goal = EntryBlock
  /\ ssa = [v \in Value |-> IF v \in Input THEN v ELSE Undef]
  /\ env = ssa /\ NoCopies

-----------------------------------------------------------------------------
(* The lowering *)

Defined(v, a) == incoming[<<v, a>>] # Undef

\* The edges along which some phi takes a value.
CopyEdges ==
  {e \in Block \X Block : e[2] \in succs[e[1]] /\
     \E v \in Phi : home[v] = e[2] /\ Defined(v, e[1])}

\* a branch two ways does not count
IsCritical_Slip(a, b) == Cardinality(succs[a]) > 2 /\ Cardinality(Preds(b)) > 1

IsCritical(a, b) == Cardinality(succs[a]) > 1 /\ Cardinality(Preds(b)) > 1

Critical == {e \in CopyEdges : IsCritical(e[1], e[2])}

Refused ==
  \/ \E e \in Critical : e[1] \in protected \/ e[2] \in protected
  \/ Cardinality(Critical) > MaxNewBlocks

\* A refused method stays as it is; otherwise critical edges are split.
Lower ==
  /\ stage = "lower"
  /\ IF Refused THEN stage' = "refused" /\ UNCHANGED split
                ELSE stage' = "arrive" /\ split' = Critical
  /\ UNCHANGED <<copyVars, cfg, here, goal, ssa>>

-----------------------------------------------------------------------------
(* Running both methods *)

\* The copies that belong to a set of edges, without those that copy a value
\* to itself.
Copies(E) ==
  {c \in Phi \X Value : c[1] # c[2] /\
     \E e \in E : home[c[1]] = e[2] /\ incoming[<<c[1], e[1]>>] = c[2]}

InsertCopies(E) ==
  /\ pending' = Copies(E)
  /\ want' = Assigned(Copies(E), env)

\* At the end of a block: the copies of its edges that were not split, before
\* its terminator.
EndBlock ==
  /\ stage = "arrive"
  /\ InsertCopies({e \in CopyEdges \ split : e[1] = here})
  /\ stage' = "copies"
  /\ UNCHANGED <<env, next, cfg, split, here, goal, ssa>>

Copy == CopyNext /\ UNCHANGED <<cfg, split, here, stage, goal, ssa>>

\* Temporaries are not read again.
Forget == env' = [v \in Value |-> env[v]] /\ next' = First

Terminator ==
  /\ stage = "copies" /\ pending = {}
  /\ stage' = "branch"
  /\ Forget /\ UNCHANGED <<pending, want, cfg, split, here, goal, ssa>>

\* The branch is taken: all phis of its target take their values at once in
\* SSA form, and the block that splits the edge runs its copies.
Branch ==
  /\ stage = "branch"
  /\ \E b \in succs[here] :
       /\ goal' = b
       /\ ssa' = [v \in Value |->
                    IF v \in Phi /\ home[v] = b
                    THEN IF Defined(v, here) THEN ssa[incoming[<<v, here>>]] ELSE Undef
                    ELSE ssa[v]]
       /\ InsertCopies({<<here, b>>} \cap split)
  /\ stage' = "edge"
  /\ UNCHANGED <<env, next, cfg, split, here>>

Arrive ==
  /\ stage = "edge" /\ pending = {}
  /\ stage' = "arrive" /\ here' = goal
  /\ Forget /\ UNCHANGED <<pending, want, cfg, split, goal, ssa>>

Next == Lower \/ EndBlock \/ Copy \/ Terminator \/ Branch \/ Arrive

Spec == Init /\ [][Next]_phiVars

-----------------------------------------------------------------------------
(* Properties *)

\* At the start of a block, and when its terminator is about to read a
\* condition or a result, every value that may be used there holds in the
\* lowered method what it holds in SSA form, unless no value came along the
\* path: copies placed for one successor never change what another one reads,
\* and none is lost on a loop.
Preserved ==
  stage = "arrive" \/ (stage = "branch" /\ Cardinality(succs[here]) # 1) =>
    \A v \in Value :
      Available(v, here) /\ ssa[v] # Undef => env[v] = ssa[v]
=============================================================================

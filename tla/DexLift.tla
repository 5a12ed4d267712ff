------------------------------- MODULE DexLift -------------------------------
(***************************************************************************)
(* DexMethodLifter::lift in crates/revx-dex/src/lift.rs: the basic blocks  *)
(* of a Dalvik method are put in order by a depth-first search and lifted  *)
(* to values and phis, in two rounds: the second knows from the first      *)
(* which blocks behind it define a register.                               *)
(*                                                                         *)
(* The lifter treats each register by itself, so the model has one.  A     *)
(* block reads it, then may write it; the value written is <<"def", b>>.   *)
(***************************************************************************)
EXTENDS Naturals, FiniteSets, Sequences

CONSTANTS
  Original,   \* blocks, numbered in the order of their addresses
  Entry,      \* the block at address 0
  Shapes,     \* the graphs looked at: to each block its successors, in order
  Hole,       \* u32::MAX: an operand of a phi, still to be found
  None        \* nothing is known of the register

\* A value is named by what made it, a write, a phi or a parameter, and where.
Kinds == {"def", "phi", "arg"}

ASSUME LiftAssumption ==
  /\ IsFiniteSet(Original) /\ Original = 1..Cardinality(Original) /\ Entry \in Original
  /\ Shapes \subseteq [Original -> Seq(Original)]
  /\ Hole # None /\ {Hole, None} \cap (Kinds \X Nat) = {}

VARIABLES
  flow,       \* the graph: cfg.succs
  writes,     \* the blocks that write the register
  isParam,    \* does the register hold a parameter?
  round,      \* 0 when the order is searched, 1, 2, or 3 when the method is lifted
  stack,      \* blocks the search is in, each with the successor to look at next
  visited,    \* blocks the search has been to
  order,      \* the blocks in the order they are lifted in
  position,   \* where in the order this round is
  regValue,   \* reg_values: what the register holds
  blockDefs,  \* block_defs: the value a block leaves, if it defines one
  snapshot,   \* block_defs of the first round
  phi,        \* the operands of the phi of a block, by predecessor
  reads       \* the value a block reads

method == <<flow, writes, isParam>>
search == <<stack, visited, order>>
lifted == <<regValue, blockDefs, snapshot, phi, reads>>
liftVars == <<method, round, search, position, lifted>>

Empty == [b \in {} |-> None]

Succs(b) == {flow[b][i] : i \in DOMAIN flow[b]}

Preds(b) == {a \in Original : b \in Succs(a)}

\* setup_params: the entry defines the parameters.
Argument == <<"arg", Entry>>

SetUp ==
  /\ regValue' = IF isParam THEN Argument ELSE None
  /\ blockDefs' = IF isParam THEN [b \in {Entry} |-> Argument] ELSE Empty

LiftInit ==
  /\ flow \in Shapes
  /\ writes \in SUBSET Original
  /\ isParam \in BOOLEAN
  /\ round = 0 /\ position = 1
  /\ stack = <<<<Entry, 1>>>> /\ visited = {Entry} /\ order = <<>>
  /\ regValue = IF isParam THEN Argument ELSE None
  /\ blockDefs = IF isParam THEN [b \in {Entry} |-> Argument] ELSE Empty
  /\ snapshot = Empty /\ phi = Empty /\ reads = Empty

-----------------------------------------------------------------------------
(* reverse_post_order.  Every round computes it anew; it is always the same *)

Top == stack[Len(stack)]

\* The next successor of the block on top of the stack.
Descend ==
  /\ round = 0 /\ stack # <<>> /\ Top[2] <= Len(flow[Top[1]])
  /\ LET s == flow[Top[1]][Top[2]]
         on == [stack EXCEPT ![Len(stack)] = <<Top[1], Top[2] + 1>>]
     IN  /\ stack' = IF s \in visited THEN on ELSE Append(on, <<s, 1>>)
         /\ visited' = visited \cup {s}
  /\ UNCHANGED <<method, round, order, position, lifted>>

\* It has no more: of two blocks the one left last comes first.
Leave ==
  /\ round = 0 /\ stack # <<>> /\ Top[2] > Len(flow[Top[1]])
  /\ order' = <<Top[1]>> \o order
  /\ stack' = SubSeq(stack, 1, Len(stack) - 1)
  /\ UNCHANGED <<method, round, visited, position, lifted>>

Unordered == {b \in Original : \A i \in DOMAIN order : order[i] # b}

\* Blocks that nothing reaches, as handlers, come last, by address.
AddOrphan ==
  /\ round = 0 /\ stack = <<>>
  /\ \E b \in Unordered : (\A c \in Unordered : b <= c) /\ order' = Append(order, b)
  /\ UNCHANGED <<method, round, stack, visited, position, lifted>>

FirstRound ==
  /\ round = 0 /\ stack = <<>> /\ Unordered = {}
  /\ round' = 1
  /\ UNCHANGED <<method, search, position, lifted>>

-----------------------------------------------------------------------------
(* One round *)

\* What a predecessor contributes to the merge: its value, a hole where it
\* comes later and defined the register the first time, or nothing.
Incoming(p) ==
  IF p \in DOMAIN blockDefs THEN {blockDefs[p]}
  ELSE IF p \in DOMAIN snapshot THEN {Hole} ELSE {}

\* a predecessor that contributes nothing is left out of the phi
Joins_Slip(b) == b # Entry /\ \E p \in Preds(b) : Incoming(p) # {}

\* merge_predecessor_regs only takes a register all predecessors contribute.
Joins(b) == b # Entry /\ Preds(b) # {} /\ \A p \in Preds(b) : Incoming(p) # {}

Offered(b) == UNION {Incoming(p) : p \in Preds(b)}

\* different values need a phi, whose operands are known up to holes
NeedsPhi(b) == Joins(b) /\ Cardinality(Offered(b)) > 1

Phi(b) == [p \in {q \in Preds(b) : Incoming(q) # {}} |-> CHOOSE v \in Incoming(p) : TRUE]

\* Otherwise the register takes the one value there is, or keeps what the block
\* lifted before left in it.
Merged(b) ==
  IF NeedsPhi(b) THEN <<"phi", b>>
  ELSE IF Joins(b) THEN CHOOSE v \in Offered(b) : TRUE
  ELSE regValue

Put(f, b, v) == [x \in DOMAIN f \cup {b} |-> IF x = b THEN v ELSE f[x]]

\* run_round, for one block.
LiftBlock ==
  /\ round \in {1, 2} /\ position <= Len(order)
  /\ LET b == order[position]
     IN  /\ phi' = IF NeedsPhi(b) THEN Put(phi, b, Phi(b)) ELSE phi
         /\ reads' = Put(reads, b, Merged(b))
         /\ regValue' = IF b \in writes THEN <<"def", b>> ELSE Merged(b)
         /\ blockDefs' = IF b \in writes THEN Put(blockDefs, b, <<"def", b>>)
                         ELSE IF NeedsPhi(b) THEN Put(blockDefs, b, <<"phi", b>>)
                         ELSE blockDefs
  /\ position' = position + 1
  /\ UNCHANGED <<method, round, search, snapshot>>

\* reset_state: everything is lifted again, and block_defs are remembered.
SecondRound ==
  /\ round = 1 /\ position > Len(order)
  /\ round' = 2 /\ position' = 1
  /\ snapshot' = blockDefs
  /\ SetUp /\ phi' = Empty /\ reads' = Empty
  /\ UNCHANGED <<method, search>>

Patched(p) == IF p \in DOMAIN blockDefs THEN blockDefs[p] ELSE Hole

\* patch_phi_placeholders.
PatchHoles ==
  /\ round = 2 /\ position > Len(order)
  /\ round' = 3
  /\ phi' = [b \in DOMAIN phi |->
               [p \in DOMAIN phi[b] |-> IF phi[b][p] = Hole THEN Patched(p) ELSE phi[b][p]]]
  /\ UNCHANGED <<method, search, position, regValue, blockDefs, snapshot, reads>>

LiftNext ==
  Descend \/ Leave \/ AddOrphan \/ FirstRound \/ LiftBlock \/ SecondRound \/ PatchHoles
=============================================================================

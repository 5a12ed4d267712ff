------------------------------- MODULE LoopNorm -------------------------------
(***************************************************************************)
(* normalize_loops_with_budget in crates/revx-dex/src/loopnorm.rs, on the  *)
(* method DexLift lifts: a loop entered at several blocks is copied whole, *)
(* and the ways in to one of its entries lead to the copy.  The lifted     *)
(* method and the normalised one then take the same path.                  *)
(*                                                                         *)
(* Which of two equally near entries comes first, and which of two loops,  *)
(* depends on the order of lists and is left open here.                    *)
(***************************************************************************)
EXTENDS DexLift, Functions

CONSTANTS
  Protected,    \* sets of blocks that exception_blocks may name
  MaxNewBlocks, \* max_new_blocks of the budget
  MaxBlocks     \* 256: no larger method is looked at, and none is made

ASSUME BudgetAssumption ==
  /\ Protected \subseteq SUBSET Original
  /\ MaxNewBlocks \in Nat /\ MaxBlocks \in Nat

VARIABLES
  protected,  \* blocks of the exception flow
  remaining,  \* new blocks that may still be made
  norm,       \* the method being normalised: succs, phis, uses, origin
  refusal,    \* why loops with several entries are left, or "none"
  stage,      \* "lift", "peel" or "run"
  here,       \* the block of the lifted method that is run
  there,      \* the block of the normalised method that is run
  register,   \* the block that wrote the register last
  held,       \* what the values of the lifted method hold
  heldThere   \* and those of the normalised method

running == <<here, there, register, held, heldThere>>
vars == <<liftVars, protected, remaining, norm, refusal, stage, running>>

Init ==
  /\ LiftInit
  /\ protected \in Protected
  /\ remaining = MaxNewBlocks
  /\ norm = [succs |-> Empty, phis |-> Empty, uses |-> Empty, origin |-> Empty]
  /\ refusal = "none" /\ stage = "lift"
  /\ here = Entry /\ there = Entry
  /\ register = None /\ held = Empty /\ heldThere = Empty

-----------------------------------------------------------------------------
(* Loops *)

Blocks == DOMAIN norm.succs

PredsOf(b) == {a \in Blocks : b \in norm.succs[a]}

\* What can be reached in some steps, and in at most n.
Reached(succs, S) ==
  LET From[T \in SUBSET DOMAIN succs] ==
        LET U == T \cup UNION {succs[b] : b \in T} IN IF U = T THEN T ELSE From[U]
  IN  From[S]

Within[n \in Nat] ==
  IF n = 0 THEN {Entry}
  ELSE Within[n - 1] \cup UNION {norm.succs[b] : b \in Within[n - 1]}

Cycle(succs, b) == {c \in Reached(succs, {b}) : b \in Reached(succs, {c})}

OnCycle == {b \in Blocks : b \in Reached(norm.succs, norm.succs[b])}

\* cyclic_sccs
Loops == {Cycle(norm.succs, b) : b \in OnCycle}

\* where the method begins is forgotten
Entries_Slip(scc) == {b \in scc : PredsOf(b) \ scc # {}}

\* entries: where a loop is entered from outside, or the method begins
Entries(scc) == {b \in scc : PredsOf(b) \ scc # {} \/ b = Entry}

\* the blocks that come first in bfs, as far as their distance tells
Nearest(S) ==
  {b \in S : \A n \in 0 .. Cardinality(Blocks) : b \in Within[n] \/ Within[n] \cap S = {}}

\* peel_target: the nearest entry is kept, the next one is peeled off
Targets(scc) ==
  UNION {Nearest({b \in Entries(scc) \ {keeper} : PredsOf(b) \ scc # {}}) :
           keeper \in Nearest(Entries(scc))}

\* the loops that have to be peeled
Candidates == {scc \in Loops : Cardinality(Entries(scc)) > 1}

OverBudget(scc) ==
  \/ Cardinality(scc) > remaining
  \/ Cardinality(Blocks) + Cardinality(scc) > MaxBlocks

Eligible(scc) == scc \cap protected = {} /\ ~OverBudget(scc)

-----------------------------------------------------------------------------
(* peel *)

\* clone_block: the copies are numbered on, in the order of their originals
CopyOf(scc) ==
  [b \in scc |-> Cardinality(Blocks) + Cardinality({c \in scc : c <= b})]

Moved(copy, b) == IF b \in DOMAIN copy THEN copy[b] ELSE b

\* remap_operand: a value that was copied is taken from the copy
Remapped(copy, v) == IF v \in {None, Hole} THEN v ELSE <<v[1], Moved(copy, v[2])>>

\* the copy of a loop is left nowhere
CopiedSuccs_Slip(scc, copy, b) == {copy[s] : s \in norm.succs[b] \cap scc}

CopiedSuccs(scc, copy, b) == {Moved(copy, s) : s \in norm.succs[b]}

\* rewrite_copy: the phi of a copy has the operands that come along the loop,
\* and at the entry that is peeled off those that come from outside
CopiedPhi(scc, copy, b, target) ==
  LET f == norm.phis[b]
      kept == {p \in DOMAIN f : p \in scc \/ b = target}
  IN  [q \in {Moved(copy, p) : p \in kept} |->
         Remapped(copy, f[CHOOSE p \in kept : Moved(copy, p) = q])]

\* the new predecessor brings the value of the old one, not of the copy
MirroredPhi_Slip(scc, copy, b) ==
  LET f == norm.phis[b]
      exits == DOMAIN f \cap scc
  IN  [p \in DOMAIN f \cup {copy[q] : q \in exits} |->
         IF p \in DOMAIN f THEN f[p] ELSE f[CHOOSE q \in exits : copy[q] = p]]

\* mirror_phi: a phi behind the loop has an operand from each new exit
MirroredPhi(scc, copy, b) ==
  LET f == norm.phis[b]
      exits == DOMAIN f \cap scc
  IN  [p \in DOMAIN f \cup {copy[q] : q \in exits} |->
         IF p \in DOMAIN f THEN f[p]
         ELSE Remapped(copy, f[CHOOSE q \in exits : copy[q] = p])]

\* The method with the loop copied, retarget_edge and strip_phi_pred applied
\* to every way in to the target.
Peeled(scc, target) ==
  LET copy == CopyOf(scc)
      old(c) == CHOOSE b \in scc : copy[b] = c
      new == {copy[b] : b \in scc}
      outside == PredsOf(target) \ scc
      Retargeted(S) == IF target \in S THEN (S \ {target}) \cup {copy[target]} ELSE S
      NewPhi(b) ==
        IF b \in new THEN CopiedPhi(scc, copy, old(b), target)
        ELSE IF b = target THEN Restrict(norm.phis[b], DOMAIN norm.phis[b] \cap scc)
        ELSE IF b \in scc THEN norm.phis[b]
        ELSE MirroredPhi(scc, copy, b)
  IN  [succs |-> [b \in Blocks \cup new |->
                    IF b \in new THEN CopiedSuccs(scc, copy, old(b))
                    ELSE IF b \in outside THEN Retargeted(norm.succs[b])
                    ELSE norm.succs[b]],
       phis |-> [b \in DOMAIN norm.phis \cup {copy[x] : x \in scc \cap DOMAIN norm.phis} |->
                   NewPhi(b)],
       uses |-> [b \in Blocks \cup new |->
                   IF b \in new THEN Remapped(copy, norm.uses[old(b)]) ELSE norm.uses[b]],
       origin |-> [b \in Blocks \cup new |->
                     IF b \in new THEN norm.origin[old(b)] ELSE norm.origin[b]]]

-----------------------------------------------------------------------------
(* The steps *)

Lift ==
  /\ stage = "lift"
  /\ LiftNext
  /\ UNCHANGED <<protected, remaining, norm, refusal, stage, running>>

StartPeeling ==
  /\ stage = "lift" /\ round = 3
  /\ stage' = IF Cardinality(Original) > MaxBlocks THEN "ready" ELSE "peel"
  /\ norm' = [succs |-> [b \in Original |-> Succs(b)], phis |-> phi,
              uses |-> reads, origin |-> [b \in Original |-> b]]
  /\ UNCHANGED <<liftVars, protected, remaining, refusal, running>>

\* One loop is copied.  peel cannot refuse (PhiShape): the target has a way in,
\* and every edge the copy makes it makes in both directions.
Peel ==
  /\ stage = "peel"
  /\ \E scc \in Candidates :
       /\ Eligible(scc)
       /\ \E target \in Targets(scc) : norm' = Peeled(scc, target)
       /\ remaining' = remaining - Cardinality(scc)
  /\ UNCHANGED <<liftVars, protected, refusal, stage, running>>

\* No loop can be peeled: loops that were passed over before still are.
EndPeeling ==
  /\ stage = "peel"
  /\ \A scc \in Candidates : ~Eligible(scc)
  /\ refusal' = IF Candidates = {} THEN "none"
                ELSE IF \E scc \in Candidates : scc \cap protected # {} THEN "exception"
                ELSE IF \E scc \in Candidates : OverBudget(scc) THEN "budget"
                ELSE "none"
  /\ stage' = "ready"
  /\ UNCHANGED <<liftVars, protected, remaining, norm, running>>

\* Both methods begin.
Start ==
  /\ stage = "ready"
  /\ stage' = "run"
  /\ register' = IF isParam THEN Entry ELSE None
  /\ held' = IF isParam THEN [v \in {Argument} |-> Entry] ELSE Empty
  /\ heldThere' = held'
  /\ UNCHANGED <<liftVars, protected, remaining, norm, refusal, here, there>>

Content(f, v) == IF v \in DOMAIN f THEN f[v] ELSE None

\* What values hold once block b, a copy of o, is left for block t: its write
\* and then the phi of t are done.
After(f, b, o, t, phis) ==
  LET written == IF o \in writes THEN Put(f, <<"def", b>>, o) ELSE f
  IN  IF t \in DOMAIN phis /\ b \in DOMAIN phis[t]
      THEN Put(written, <<"phi", t>>, Content(written, phis[t][b]))
      ELSE written

Step ==
  /\ stage = "run"
  /\ \E s \in Succs(here) :
       \E t \in norm.succs[there] :
         /\ norm.origin[t] = s
         /\ here' = s /\ there' = t
         /\ held' = After(held, here, here, s, phi)
         /\ heldThere' = After(heldThere, there, here, t, norm.phis)
         /\ register' = IF here \in writes THEN here ELSE register
  /\ UNCHANGED <<liftVars, protected, remaining, norm, refusal, stage>>

Next == Lift \/ StartPeeling \/ Peel \/ EndPeeling \/ Start \/ Step

Spec == Init /\ [][Next]_vars

-----------------------------------------------------------------------------
(* Properties *)

\* A phi holds what was written last, whichever way its block is reached, the
\* second time around a loop as the first, and so does what a block takes from
\* its only predecessor: the two rounds find every operand.  A method whose
\* first block is in a loop is left out, as are the joins that get no phi: see
\* the README.
MergedReads ==
  stage = "run" /\ Preds(Entry) = {} =>
    /\ here \in DOMAIN phi => Content(held, <<"phi", here>>) = register
    /\ \A p \in DOMAIN blockDefs :
         Preds(here) = {p} => Content(held, reads[here]) = register

\* When no reason is given for leaving a loop alone there is none to leave:
\* each is entered at one block, and where the method begins counts as one.
SingleEntries ==
  LET Entered(b) == b = Entry \/ PredsOf(b) \ Cycle(norm.succs, b) # {}
  IN  stage = "run" /\ Cardinality(Original) <= MaxBlocks =>
        (refusal = "none" <=>
           \A b \in OnCycle : \A c \in Cycle(norm.succs, b) :
             Entered(b) /\ Entered(c) => b = c)

\* The normalised method does what the lifted one does: each block branches to
\* one copy of every block its original branches to, and to nothing else.
SameTraces ==
  stage = "run" =>
    \A b \in Blocks :
      /\ {norm.origin[s] : s \in norm.succs[b]} = Succs(norm.origin[b])
      /\ \A s, t \in norm.succs[b] : norm.origin[s] = norm.origin[t] => s = t

\* A block reads in the normalised method what it reads in the lifted one,
\* in whichever copy, and so does a block behind the loop that reads a phi.  A
\* block behind a copied loop that reads a value of the loop itself is left
\* out: see the README.
ValuesCarried ==
  stage = "run" =>
    LET v == reads[here]
        copied == {norm.origin[b] : b \in Blocks \ Original}
    IN  \/ v \notin {None, Hole} /\ v[2] \in copied
             /\ here \notin Cycle([b \in Original |-> Succs(b)], v[2])
        \/ Content(held, v) = Content(heldThere, norm.uses[there])
=============================================================================

----------------------- MODULE FunctionRecoveryProofs -----------------------
(***************************************************************************)
(* Theorems about FunctionRecovery, for every program, every choice of the *)
(* decoders and every size of batches and budgets.                         *)
(***************************************************************************)
EXTENDS FunctionRecovery, FiniteSetTheorems, WellFoundedInduction, TLAPS

\* Each candidate lies in a section, and so does what it may extend to.
BatchInText ==
  /\ Len(batch) <= Batch
  /\ \A i \in 1..Len(batch) : \E r \in Text :
       In(r, batch[i].start) /\ batch[i].limit <= r[2]

\* Boundaries inside of what a candidate may extend to were found after the
\* batch was filled.
BatchCut ==
  \A i \in 1..Len(batch), h \in hard :
    batch[i].start < h /\ h < batch[i].limit =>
      phase # "fill" /\ Batch > 1 /\ h \in priority \ visited

IInv ==
  /\ TypeOK
  /\ IsFiniteSet(claims)
  /\ ClaimsDisjoint
  /\ WithinBudget
  /\ BoundariesTried
  /\ BatchInText
  /\ BatchCut

LEMMA NatMinimum ==
  ASSUME NEW T, T \subseteq Nat, T # {}
  PROVE  \E m \in T : \A n \in T : m <= n
<1>1. PICK m \in T : \A n \in T : <<n, m>> \notin OpToRel(<, Nat)
  BY NatLessThanWellFounded, WFMin
<1>2. \A n \in T : ~ (n < m)
  BY <1>1 DEF OpToRel
<1> QED BY <1>2

\* The limit of a candidate is one of the bounds it is the least of.
LEMMA LimitFact ==
  ASSUME TypeOK, NEW a \in Nat, NEW r \in Text, In(r, a)
  PROVE  /\ Limit(a, r) \in Nat
         /\ Limit(a, r) <= r[2]
         /\ \A h \in hard : a < h /\ h < r[2] => Limit(a, r) <= h
<1> USE RecoveryAssumption DEF TypeOK
<1> DEFINE cut == {h \in hard : a < h /\ h <= r[2]}
           largest == Lesser(a + MaxBytes, r[2])
           bounds == {largest} \cup cut
<1>1. r[1] \in Nat /\ r[2] \in Nat /\ largest \in Nat /\ largest <= r[2]
  BY DEF Lesser
<1>2. bounds \subseteq Nat /\ bounds # {}
  BY <1>1
<1>3. \E l \in bounds : \A m \in bounds : l <= m
  <2> HIDE DEF bounds
  <2> QED BY <1>2, NatMinimum
<1>4. Limit(a, r) \in bounds /\ \A m \in bounds : Limit(a, r) <= m
  BY <1>3 DEF Limit
<1> QED BY <1>1, <1>2, <1>4

\* The overlap test looks at the neighbours of a range only; since claims are
\* disjoint, that is enough.
LEMMA NoOverlap ==
  ASSUME TypeOK, ClaimsDisjoint, NEW a \in Nat, NEW end \in Nat, a < end,
         ~ Overlaps(a, end), NEW c \in claims
  PROVE  c.end <= a \/ end <= c.start
<1> USE DEF TypeOK, Span
<1>1. CASE a <= c.start
  BY <1>1 DEF Overlaps
<1>2. CASE c.start < a
  <2> DEFINE T == {m \in Nat : \E d \in claims : d.start <= a /\ m = a - d.start}
  <2>1. a - c.start \in T /\ T \subseteq Nat /\ T # {}
    BY <1>2
  <2>2. PICK m \in T : \A n \in T : m <= n
    <3> HIDE DEF T
    <3> QED BY <2>1, NatMinimum
  <2>3. PICK p \in claims : p.start <= a /\ m = a - p.start
    BY <2>2
  <2>4. ASSUME NEW d \in claims, d.start <= a PROVE d.start <= p.start
    <3>1. a - d.start \in T
      BY <2>4
    <3>2. m <= a - d.start
      <4> HIDE DEF T
      <4> QED BY <2>2, <3>1
    <3> QED BY <2>3, <3>2
  <2>5. p.end <= a
    <3>1. Last(p, a)
      BY <2>3, <2>4 DEF Last
    <3>2. ~ (a < p.end)
      BY <3>1 DEF Overlaps, Claimed
    <3> QED BY <3>2
  <2>6. c.start <= p.start /\ p.start < p.end
    BY <1>2, <2>4 DEF ClaimsDisjoint
  <2>7. c = p \/ c.end <= p.start \/ p.end <= c.start
    BY DEF ClaimsDisjoint
  <2> QED BY <2>3, <2>5, <2>6, <2>7
<1> QED BY <1>1, <1>2

LEMMA InitInv == Init => IInv
<1> USE RecoveryAssumption DEF Init
<1>1. Init => TypeOK
  BY DEF TypeOK, Final
<1>2. Init => BatchInText /\ BatchCut
  BY DEF BatchInText, BatchCut
<1>3. Init => IsFiniteSet(claims) /\ ClaimsDisjoint /\ WithinBudget
  BY FS_EmptySet DEF ClaimsDisjoint, WithinBudget
<1>4. Init => BoundariesTried
  BY DEF BoundariesTried
<1> QED BY <1>1, <1>2, <1>3, <1>4 DEF IInv

LEMMA EnlistInv ==
  ASSUME IInv, NEW a \in priority \cup deferred, Enlist(a)
  PROVE  IInv'
<1> USE RecoveryAssumption DEF IInv, Enlist, Popped
<1>1. PICK r \in Text : /\ In(r, a)
                        /\ batch' = Append(batch, [start |-> a, limit |-> Limit(a, r)])
  OBVIOUS
<1>2. a \in Nat
  BY DEF TypeOK
<1>3. /\ Limit(a, r) \in Nat /\ Limit(a, r) <= r[2]
      /\ \A h \in hard : a < h /\ h < r[2] => Limit(a, r) <= h
  BY <1>1, <1>2, LimitFact
<1>4. batch \in Seq([start : Nat, limit : Nat])
  BY DEF TypeOK
<1> DEFINE new == [start |-> a, limit |-> Limit(a, r)]
<1>5. new \in [start : Nat, limit : Nat] /\ new.start = a /\ new.limit = Limit(a, r)
  BY <1>2, <1>3
<1> HIDE DEF new
<1>6. /\ batch' \in Seq([start : Nat, limit : Nat])
      /\ Len(batch') = Len(batch) + 1
      /\ \A i \in 1..Len(batch) : batch'[i] = batch[i]
      /\ batch'[Len(batch) + 1] = new
  BY <1>1, <1>4, <1>5 DEF new
<1>7. TypeOK'
  BY <1>6 DEF TypeOK
<1>8. IsFiniteSet(claims)' /\ ClaimsDisjoint'
  BY DEF ClaimsDisjoint
<1>9. WithinBudget'
  BY <1>4, <1>6 DEF WithinBudget, MayPop, TypeOK
<1>10. BoundariesTried'
  BY DEF BoundariesTried, MayPop
<1>11. BatchInText'
  <2>1. Len(batch') <= Batch
    BY <1>4, <1>6 DEF MayPop
  <2>2. ASSUME NEW i \in 1..Len(batch')
        PROVE  \E q \in Text : In(q, batch'[i].start) /\ batch'[i].limit <= q[2]
    <3>1. CASE i = Len(batch) + 1
      BY <1>1, <1>3, <1>5, <1>6, <3>1
    <3>2. CASE i # Len(batch) + 1
      <4>1. i \in 1..Len(batch)
        <5>1. Len(batch) \in Nat /\ Len(batch') = Len(batch) + 1
          BY <1>4, <1>6
        <5> QED BY <2>2, <3>2, <5>1
      <4>2. PICK q \in Text : In(q, batch[i].start) /\ batch[i].limit <= q[2]
        BY <4>1 DEF BatchInText
      <4> QED BY <1>6, <4>1, <4>2
    <3> QED BY <3>1, <3>2
  <2> QED BY <2>1, <2>2 DEF BatchInText
<1>12. BatchCut'
  <2>1. ASSUME NEW i \in 1..Len(batch'), NEW h \in hard
        PROVE  ~ (batch'[i].start < h /\ h < batch'[i].limit)
    <3>1. CASE i = Len(batch) + 1
      <4>1. r[2] \in Nat /\ h \in Nat
        BY DEF TypeOK
      <4>2. batch'[i].start = a /\ batch'[i].limit = Limit(a, r)
        BY <1>5, <1>6, <3>1
      <4>3. ~ (a < h /\ h < Limit(a, r))
        BY <1>2, <1>3, <4>1
      <4> QED BY <4>2, <4>3
    <3>2. CASE i # Len(batch) + 1
      BY <1>4, <1>6, <2>1, <3>2 DEF BatchCut, MayPop
    <3> QED BY <3>1, <3>2
  <2> QED BY <2>1 DEF BatchCut
<1> QED BY <1>7, <1>8, <1>9, <1>10, <1>11, <1>12

\* The steps that enlist, claim and reject no candidate.
LEMMA QueueInv ==
  ASSUME IInv,
         \/ \E a \in priority \cup deferred : Skip(a)
         \/ Full \/ Decode \/ Sweep \/ Stop \/ Fail \/ EndBatch
  PROVE  IInv'
<1> USE RecoveryAssumption DEF IInv, Skip, Popped, MayPop, Full, Decode, Sweep, Stop,
    Fail, EndBatch
<1>1. Swept \subseteq Nat
  BY DEF Swept, Cursors
<1>2. TypeOK'
  BY <1>1 DEF TypeOK, Final
<1>3. IsFiniteSet(claims)' /\ ClaimsDisjoint'
  BY DEF ClaimsDisjoint
<1>4. WithinBudget'
  BY DEF WithinBudget
<1>5. BoundariesTried'
  BY DEF BoundariesTried, QueuesEmpty
<1>6. BatchInText'
  BY DEF BatchInText
<1>7. BatchCut'
  BY DEF BatchCut
<1> QED BY <1>2, <1>3, <1>4, <1>5, <1>6, <1>7

LEMMA TailFact ==
  ASSUME NEW S, NEW s \in Seq(S), s # << >>
  PROVE  /\ Head(s) = s[1] /\ 1 \in 1..Len(s)
         /\ Tail(s) \in Seq(S) /\ Len(Tail(s)) = Len(s) - 1
         /\ \A i \in 1..Len(Tail(s)) : i + 1 \in 1..Len(s) /\ Tail(s)[i] = s[i + 1]
  OBVIOUS

LEMMA HeadFact ==
  ASSUME NEW S, NEW s \in Seq(S), s # << >>
  PROVE  Head(s) = s[1] /\ s[1] \in S
<1>1. 1 \in 1..Len(s)
  OBVIOUS
<1>2. s \in [1..Len(s) -> S]
  OBVIOUS
<1> QED BY <1>1, <1>2

LEMMA RejectInv ==
  ASSUME IInv, Reject
  PROVE  IInv'
<1> USE RecoveryAssumption DEF IInv, Reject
<1>1. /\ Tail(batch) \in Seq([start : Nat, limit : Nat])
      /\ Len(Tail(batch)) = Len(batch) - 1
      /\ \A i \in 1..Len(Tail(batch)) : i + 1 \in 1..Len(batch) /\ Tail(batch)[i] = batch[i + 1]
  BY TailFact DEF TypeOK
<1>2. Len(batch) \in Nat /\ Len(Tail(batch)) \in Nat
  BY <1>1 DEF TypeOK
<1>3. TypeOK'
  BY <1>1 DEF TypeOK
<1>4. IsFiniteSet(claims)' /\ ClaimsDisjoint' /\ BoundariesTried'
  BY DEF ClaimsDisjoint, BoundariesTried
<1>5. WithinBudget'
  BY <1>1, <1>2 DEF WithinBudget, TypeOK
<1>6. BatchInText'
  <2>1. Len(batch') <= Batch
    BY <1>1, <1>2 DEF BatchInText
  <2>2. ASSUME NEW i \in 1..Len(batch')
        PROVE  \E q \in Text : In(q, batch'[i].start) /\ batch'[i].limit <= q[2]
    BY <1>1, <2>2 DEF BatchInText
  <2> QED BY <2>1, <2>2 DEF BatchInText
<1>7. BatchCut'
  BY <1>1, <1>2 DEF BatchCut
<1> QED BY <1>3, <1>4, <1>5, <1>6, <1>7

LEMMA ClaimInv ==
  ASSUME IInv, batch # << >>, NEW end \in Int, NEW calls \in SUBSET Targets,
         NEW r \in Text, Claim(end, calls, r)
  PROVE  IInv'
<1> USE RecoveryAssumption DEF IInv, Claim, Ends
<1> DEFINE c == Head(batch)
           new == [start |-> c.start, end |-> end]
           found == Called(calls) \cup Replayed(end, r)
<1>1. /\ c = batch[1] /\ 1 \in 1..Len(batch)
      /\ Tail(batch) \in Seq([start : Nat, limit : Nat])
      /\ Len(Tail(batch)) = Len(batch) - 1
      /\ \A i \in 1..Len(Tail(batch)) : i + 1 \in 1..Len(batch) /\ Tail(batch)[i] = batch[i + 1]
  BY TailFact DEF TypeOK
<1>2. /\ c.start \in Nat /\ c.limit \in Nat /\ end \in Nat
      /\ Len(batch) \in Nat /\ Len(Tail(batch)) \in Nat
  <2>1. batch[1] \in [start : Nat, limit : Nat]
    BY HeadFact DEF TypeOK
  <2>2. Len(batch) \in Nat /\ Len(Tail(batch)) \in Nat
    BY <1>1 DEF TypeOK
  <2> QED BY <1>1, <2>1, <2>2
<1>3. /\ new \in Span /\ new.start = c.start /\ new.end = end
      /\ claims' = claims \cup {new} /\ batch' = Tail(batch)
  BY <1>2 DEF Span
<1>4. \A d \in claims : d.end <= new.start \/ new.end <= d.start
  BY <1>2, <1>3, NoOverlap
<1>5. new \notin claims
  BY <1>2, <1>3, <1>4 DEF Span
<1>6. found \subseteq Nat /\ found \cap visited = {}
  BY DEF Called, Replayed
<1>7. /\ hard' = hard \cup found
      /\ priority \subseteq priority' /\ priority' \subseteq priority \cup found
      /\ found \subseteq priority' \cup hard
  OBVIOUS
<1>8. IsFiniteSet(claims') /\ Cardinality(claims') = Cardinality(claims) + 1
  <2>1. IsFiniteSet(claims)
    OBVIOUS
  <2>2. IsFiniteSet(claims \cup {new}) /\ Cardinality(claims \cup {new}) = Cardinality(claims) + 1
    <3> HIDE DEF new, IInv, Claim
    <3> QED BY <1>5, <2>1, FS_AddElement
  <2> QED BY <1>3, <2>2
<1>9. count + 1 \in 0..Budget
  BY <1>1, <1>2 DEF WithinBudget, TypeOK
<1> HIDE DEF new, found, c
<1>10. TypeOK'
  BY <1>1, <1>3, <1>6, <1>7, <1>9 DEF TypeOK
<1>11. ClaimsDisjoint'
  <2>1. \E q \in Text : In(q, new.start) /\ new.end <= q[2]
    <3>1. PICK q \in Text : In(q, c.start) /\ c.limit <= q[2]
      BY <1>1 DEF BatchInText
    <3>2. q[2] \in Nat /\ new.end <= c.limit
      BY <1>2, <1>3 DEF c
    <3> QED BY <1>2, <1>3, <3>1, <3>2
  <2>2. new.start < new.end
    BY <1>2, <1>3 DEF c
  <2> QED BY <1>3, <1>4, <2>1, <2>2 DEF ClaimsDisjoint
<1>12. WithinBudget'
  BY <1>1, <1>2, <1>3, <1>8 DEF WithinBudget, TypeOK
<1>13. BoundariesTried'
  <2>1. hard \subseteq visited \cup priority
    BY DEF BoundariesTried
  <2>2. found \subseteq visited \cup priority'
    BY <1>7, <2>1
  <2> QED BY <1>7, <2>1, <2>2 DEF BoundariesTried
<1>14. BatchInText'
  <2>1. Len(batch') <= Batch
    BY <1>1, <1>2, <1>3 DEF BatchInText
  <2>2. ASSUME NEW i \in 1..Len(batch')
        PROVE  \E q \in Text : In(q, batch'[i].start) /\ batch'[i].limit <= q[2]
    <3>1. i + 1 \in 1..Len(batch) /\ batch'[i] = batch[i + 1]
      BY <1>1, <1>3
    <3>2. PICK q \in Text : In(q, batch[i + 1].start) /\ batch[i + 1].limit <= q[2]
      BY <3>1 DEF BatchInText
    <3> QED BY <3>1, <3>2
  <2> QED BY <2>1, <2>2 DEF BatchInText
<1>15. BatchCut'
  <2> SUFFICES ASSUME NEW i \in 1..Len(batch'), NEW h \in hard',
                      batch'[i].start < h, h < batch'[i].limit
               PROVE  phase' # "fill" /\ Batch > 1 /\ h \in priority' \ visited'
    BY DEF BatchCut
  <2>1. i + 1 \in 1..Len(batch) /\ batch'[i] = batch[i + 1]
    BY <1>1, <1>3
  <2>2. Batch > 1
    BY <1>2, <2>1 DEF BatchInText
  <2>3. CASE h \in hard
    BY <1>7, <2>1, <2>2, <2>3 DEF BatchCut
  <2>4. CASE h \notin hard
    BY <1>6, <1>7, <2>2, <2>4
  <2> QED BY <2>3, <2>4
<1> QED BY <1>8, <1>10, <1>11, <1>12, <1>13, <1>14, <1>15

THEOREM Invariance == Spec => []IInv
<1>1. ASSUME IInv, [Next]_vars PROVE IInv'
  <2>1. CASE UNCHANGED vars
    BY <1>1, <2>1 DEF vars, IInv, TypeOK, ClaimsDisjoint, WithinBudget, BoundariesTried,
       BatchInText, BatchCut
  <2>2. CASE Fill
    BY <1>1, <2>2, EnlistInv, QueueInv DEF Fill
  <2>3. CASE Settle
    <3>1. CASE batch # << >> /\ \E end \in Ends(Head(batch)),
                                   calls \in SUBSET Targets, r \in Text : Claim(end, calls, r)
      <4>1. Head(batch) \in [start : Nat, limit : Nat]
        BY <1>1, <3>1, HeadFact DEF IInv, TypeOK
      <4> QED BY <1>1, <3>1, <4>1, ClaimInv DEF Ends
    <3> QED BY <1>1, <2>3, <3>1, RejectInv, QueueInv DEF Settle
  <2>4. CASE Stop \/ Fail
    BY <1>1, <2>4, QueueInv
  <2> QED BY <1>1, <2>1, <2>2, <2>3, <2>4 DEF Next, Terminated
<1> QED BY <1>1, InitInv, PTL DEF Spec

-----------------------------------------------------------------------------
(* The theorems.                                                           *)

\* Every state of every walk has the types of TypeOK.
THEOREM TypeCorrect == Spec => []TypeOK
  BY Invariance, PTL DEF IInv

\* Recovered functions are disjoint and lie in their sections (the overlap
\* tests of walk_functions_inner on claimed_ranges).
THEOREM Disjoint == Spec => []ClaimsDisjoint
  BY Invariance, PTL DEF IInv

\* function_count counts the claims and stays within function_budget.
THEOREM BudgetKept == Spec => []WithinBudget
  BY Invariance, PTL DEF IInv

\* No hard boundary is dropped between its discovery and its turn.
THEOREM NoBoundaryForgotten == Spec => []BoundariesTried
  BY Invariance, PTL DEF IInv

\* A claim covers a hard boundary only if a member of its batch found it.
THEOREM ClaimsCut == Spec => BoundariesCut
<1> DEFINE Cut == \A c \in claims' \ claims, h \in hard :
                    c.start < h /\ h < c.end => Batch > 1 /\ h \in priority \ visited
<1>1. ASSUME IInv, Next PROVE Cut
  <2> SUFFICES ASSUME NEW c \in claims', c \notin claims, NEW h \in hard,
                      c.start < h, h < c.end
               PROVE  Batch > 1 /\ h \in priority \ visited
    OBVIOUS
  <2>1. /\ batch # << >>
        /\ \E end \in Ends(Head(batch)), calls \in SUBSET Targets, r \in Text :
             Claim(end, calls, r)
    BY <1>1 DEF Next, Fill, Settle, Enlist, Skip, Full, Decode, Sweep, Stop, Fail, Reject,
       EndBatch, Terminated, vars
  <2>2. PICK end \in Ends(Head(batch)) : c = [start |-> Head(batch).start, end |-> end]
    BY <2>1 DEF Claim
  <2>3. /\ Head(batch) = batch[1] /\ 1 \in 1..Len(batch)
        /\ batch[1] \in [start : Nat, limit : Nat] /\ h \in Nat
    BY <1>1, <2>1, TailFact, HeadFact DEF IInv, TypeOK
  <2>4. batch[1].start < h /\ h < batch[1].limit
    BY <2>2, <2>3 DEF Ends
  <2> QED BY <1>1, <2>3, <2>4 DEF IInv, BatchCut
<1>2. ASSUME IInv, [Next]_vars PROVE [Cut]_vars
  BY <1>1, <1>2
<1> QED BY <1>2, Invariance, PTL DEF Spec, BoundariesCut

=============================================================================

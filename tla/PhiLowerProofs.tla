--------------------------- MODULE PhiLowerProofs ---------------------------
(***************************************************************************)
(* Proofs about ParallelCopy and PhiLower, for any number of values, any   *)
(* assignments, and every control flow graph of finitely many blocks: the  *)
(* copies have the effect of assigning all at once, they cost at most one  *)
(* temporary for two of them, and the lowered method does what the method  *)
(* in SSA form does.                                                       *)
(***************************************************************************)
EXTENDS PhiLower, FiniteSetTheorems, TLAPS

-----------------------------------------------------------------------------
(* The copies.  Simultaneous says nothing before the last one.  The        *)
(* invariant does: the source of each assignment left holds what its       *)
(* destination must get, whether it is the source it began with or a       *)
(* temporary in its place, and the destinations no longer pending have it. *)

Id == 0..next - 1

WellTyped ==
  /\ next \in Nat /\ First <= next
  /\ DOMAIN env = Id /\ env = [v \in Id |-> env[v]]
  /\ pending \subseteq Value \X Id
  /\ DOMAIN want \subseteq Value

OneEach ==
  /\ \A p \in pending : p[1] # p[2]
  /\ \A p, q \in pending : p[1] = q[1] => p = q

SourcesHold == \A p \in pending : p[1] \in DOMAIN want /\ env[p[2]] = want[p[1]]

DoneHold ==
  \A d \in DOMAIN want : (\A p \in pending : p[1] # d) => env[d] = want[d]

CopyInv == WellTyped /\ OneEach /\ SourcesHold /\ DoneHold

\* The copies have not begun.
Fresh ==
  /\ pending \subseteq Value \X Value /\ Assigns(pending)
  /\ DOMAIN env = Value /\ env = [v \in Value |-> env[v]]
  /\ next = First
  /\ want = Assigned(pending, env)

LEMMA FreshInv == Fresh => CopyInv
<1> SUFFICES ASSUME Fresh PROVE CopyInv
  OBVIOUS
<1>1. First \in Nat /\ Id = Value
  BY FirstAssumption DEF Fresh, Id, Value
<1>2. DOMAIN want = {p[1] : p \in pending}
  BY DEF Fresh, Assigned
<1>3. WellTyped
  BY <1>1, <1>2 DEF Fresh, WellTyped, Assigns, Value
<1>4. OneEach
  BY DEF Fresh, OneEach, Assigns
<1>5. SourcesHold
  <2> SUFFICES ASSUME NEW p \in pending
               PROVE  p[1] \in DOMAIN want /\ env[p[2]] = want[p[1]]
    BY DEF SourcesHold
  <2>1. p[1] \in DOMAIN want
    BY <1>2
  <2>2. (CHOOSE q \in pending : q[1] = p[1]) = p
    <3>1. \E q \in pending : q[1] = p[1]
      OBVIOUS
    <3>2. \A q \in pending : q[1] = p[1] => q = p
      BY <1>4 DEF OneEach
    <3> QED BY <3>1, <3>2
  <2>3. want[p[1]] = env[(CHOOSE q \in pending : q[1] = p[1])[2]]
    BY <2>1, <1>2 DEF Fresh, Assigned
  <2> QED BY <2>1, <2>2, <2>3
<1>6. DoneHold
  BY <1>2 DEF DoneHold
<1> QED BY <1>3, <1>4, <1>5, <1>6 DEF CopyInv

LEMMA StoreInv ==
  ASSUME CopyInv, NEW p \in pending, Store(p)
  PROVE  CopyInv'
<1>1. First \in Nat /\ next \in Nat /\ First <= next
  BY FirstAssumption DEF CopyInv, WellTyped
<1>2. p[1] \in Value /\ p[1] \in Id /\ p[2] \in Id
  BY <1>1 DEF CopyInv, WellTyped, Value, Id
<1>3. env' = [env EXCEPT ![p[1]] = env[p[2]]] /\ DOMAIN env = Id
  BY DEF Store, CopyInv, WellTyped
<1>4. WellTyped'
  BY <1>1, <1>2, <1>3 DEF Store, CopyInv, WellTyped, Id
<1>5. OneEach'
  BY DEF Store, CopyInv, OneEach
<1>6. SourcesHold'
  <2> SUFFICES ASSUME NEW q \in pending, q # p
               PROVE  q[1] \in DOMAIN want /\ env'[q[2]] = want[q[1]]
    BY DEF Store, SourcesHold
  <2>1. q[2] # p[1] /\ q[2] \in Id
    BY DEF Store, Ready, CopyInv, WellTyped
  <2>2. env'[q[2]] = env[q[2]]
    BY <2>1, <1>3
  <2> QED BY <2>2 DEF CopyInv, SourcesHold
<1>7. DoneHold'
  <2> SUFFICES ASSUME NEW d \in DOMAIN want, \A q \in pending' : q[1] # d
               PROVE  env'[d] = want[d]
    BY DEF Store, DoneHold
  <2>1. d \in Id
    BY <1>1 DEF CopyInv, WellTyped, Value, Id
  <2>2. CASE d = p[1]
    <3>1. env'[d] = env[p[2]]
      BY <2>1, <2>2, <1>3
    <3> QED BY <3>1, <2>2 DEF CopyInv, SourcesHold
  <2>3. CASE d # p[1]
    <3>1. env'[d] = env[d]
      BY <2>1, <2>3, <1>3
    <3>2. \A q \in pending : q[1] # d
      BY <2>3 DEF Store
    <3> QED BY <3>1, <3>2 DEF CopyInv, DoneHold
  <2> QED BY <2>2, <2>3
<1> QED BY <1>4, <1>5, <1>6, <1>7 DEF CopyInv

LEMMA BreakCycleInv ==
  ASSUME CopyInv, NEW p \in pending, BreakCycle(p)
  PROVE  CopyInv'
<1> DEFINE New(q) == <<q[1], IF q[2] = p[1] THEN next ELSE q[2]>>
<1>1. First \in Nat /\ next \in Nat /\ First <= next /\ next' = next + 1
  BY FirstAssumption DEF CopyInv, WellTyped, BreakCycle
<1>2. \A q \in pending : q \in Value \X Id
  BY DEF CopyInv, WellTyped
<1>3. \A q \in pending' : q = p \/ \E r \in pending : r # p /\ q = New(r)
  BY DEF BreakCycle
<1>4. p \in pending' /\ \A r \in pending : r # p => New(r) \in pending'
  BY DEF BreakCycle
<1>5. want' = want
  BY DEF BreakCycle
<1>6. /\ DOMAIN env' = 0..next
      /\ env'[next] = env[p[1]]
      /\ \A v \in Id : env'[v] = env[v]
      /\ env' = [v \in 0..next |-> env'[v]]
  BY <1>1 DEF BreakCycle, Id
<1>7. WellTyped'
  <2>1. Id' = 0..next /\ Id \subseteq Id' /\ next \in Id'
    BY <1>1 DEF Id
  <2>2. \A q \in pending : New(q) \in Value \X Id'
    BY <2>1, <1>2
  <2>3. pending' \subseteq Value \X Id'
    BY <2>1, <2>2, <1>2, <1>3
  <2> QED BY <1>1, <1>5, <1>6, <2>1, <2>3 DEF CopyInv, WellTyped
<1>8. OneEach'
  <2>1. \A r \in pending : New(r)[1] = r[1] /\ New(r)[1] # New(r)[2]
    <3> SUFFICES ASSUME NEW r \in pending
                 PROVE  New(r)[1] = r[1] /\ New(r)[1] # New(r)[2]
      OBVIOUS
    <3>1. r[1] # next
      BY <1>1, <1>2 DEF Value
    <3> QED BY <3>1 DEF CopyInv, OneEach
  <2>2. \A q \in pending' : q[1] # q[2]
    BY <2>1, <1>3 DEF CopyInv, OneEach
  <2>3. ASSUME NEW q1 \in pending', NEW q2 \in pending', q1[1] = q2[1]
        PROVE  q1 = q2
    <3>1. PICK r1 \in pending : q1[1] = r1[1] /\ (r1 = p => q1 = p)
                                /\ (r1 # p => q1 = New(r1))
      BY <1>3, <2>1
    <3>2. PICK r2 \in pending : q2[1] = r2[1] /\ (r2 = p => q2 = p)
                                /\ (r2 # p => q2 = New(r2))
      BY <1>3, <2>1
    <3>3. r1 = r2
      BY <2>3, <3>1, <3>2 DEF CopyInv, OneEach
    <3> QED BY <3>1, <3>2, <3>3
  <2> QED BY <2>2, <2>3 DEF OneEach
<1>9. SourcesHold'
  <2> SUFFICES ASSUME NEW q \in pending'
               PROVE  q[1] \in DOMAIN want /\ env'[q[2]] = want[q[1]]
    BY <1>5 DEF SourcesHold
  <2>1. CASE q = p
    <3>1. env'[p[2]] = env[p[2]]
      BY <1>2, <1>6
    <3> QED BY <3>1, <2>1 DEF CopyInv, SourcesHold
  <2>2. ASSUME NEW r \in pending, r # p, q = New(r)
        PROVE  q[1] \in DOMAIN want /\ env'[q[2]] = want[q[1]]
    <3>1. q[1] = r[1] /\ r[1] \in DOMAIN want /\ env[r[2]] = want[r[1]]
      BY <2>2 DEF CopyInv, SourcesHold
    <3>2. env'[q[2]] = env[r[2]]
      <4>1. CASE r[2] = p[1]
        BY <4>1, <2>2, <1>6
      <4>2. CASE r[2] # p[1]
        BY <4>2, <2>2, <1>2, <1>6
      <4> QED BY <4>1, <4>2
    <3> QED BY <3>1, <3>2
  <2> QED BY <1>3, <2>1, <2>2
<1>10. DoneHold'
  <2> SUFFICES ASSUME NEW d \in DOMAIN want, \A q \in pending' : q[1] # d
               PROVE  env'[d] = want[d]
    BY <1>5 DEF DoneHold
  <2>1. d \in Id
    BY <1>1 DEF CopyInv, WellTyped, Value, Id
  <2>2. ASSUME NEW r \in pending PROVE r[1] # d
    <3>1. CASE r = p
      BY <3>1, <1>4
    <3>2. CASE r # p
      <4>1. New(r) \in pending' /\ New(r)[1] = r[1]
        BY <3>2, <1>4
      <4> QED BY <4>1
    <3> QED BY <3>1, <3>2
  <2> QED BY <2>1, <2>2, <1>6 DEF CopyInv, DoneHold
<1> QED BY <1>7, <1>8, <1>9, <1>10 DEF CopyInv

LEMMA StepInv == CopyInv /\ [CopyNext]_copyVars => CopyInv'
<1> SUFFICES ASSUME CopyInv, [CopyNext]_copyVars PROVE CopyInv'
  OBVIOUS
<1>1. CASE CopyNext
  BY <1>1, StoreInv, BreakCycleInv DEF CopyNext
<1>2. CASE UNCHANGED copyVars
  BY <1>2 DEF copyVars, CopyInv, WellTyped, OneEach, SourcesHold, DoneHold, Id
<1> QED BY <1>1, <1>2

\* Assignments that read a temporary.
OfTemporary == {p \in pending : p[2] >= First}

\* Breaking a cycle of n assignments leaves n of them and one more temporary,
\* and a chain that ends in the one that reads it; that is paid for when the
\* chain has run, n assignments later.
Slack ==
  IF OfTemporary = {} THEN 0
  ELSE IF \A p \in OfTemporary : ~ Ready(p) THEN 2 ELSE 1

Paid ==
  /\ IsFiniteSet(pending)
  /\ IsFiniteSet(DOMAIN want)
  /\ 2 * (next - First) + Cardinality(pending) <= Cardinality(DOMAIN want) + Slack

LEMMA Destinations ==
  ASSUME OneEach, IsFiniteSet(pending)
  PROVE  /\ IsFiniteSet({p[1] : p \in pending})
         /\ Cardinality({p[1] : p \in pending}) = Cardinality(pending)
<1> DEFINE D == {p[1] : p \in pending}
           f == [p \in pending |-> p[1]]
<1>1. f \in Surjection(pending, D) /\ f \in Injection(pending, D)
  BY DEF OneEach, Surjection, Injection, IsInjective
<1> HIDE DEF f, D
<1>2. IsFiniteSet(D) /\ Cardinality(D) = Cardinality(pending)
  BY <1>1, FS_Surjection
<1> QED BY <1>2 DEF D

\* When no assignment is ready the destinations are the sources, so none reads
\* a temporary.
LEMMA OnlyCycles ==
  ASSUME CopyInv, IsFiniteSet(pending), \A p \in pending : ~ Ready(p)
  PROVE  OfTemporary = {}
<1> DEFINE D == {p[1] : p \in pending}
           S == {p[2] : p \in pending}
           g == [p \in pending |-> p[2]]
<1>1. g \in Surjection(pending, S)
  BY DEF Surjection
<1>2. D \subseteq S
  BY DEF Ready
<1>3. IsFiniteSet(D) /\ Cardinality(D) = Cardinality(pending)
  BY Destinations DEF CopyInv
<1> HIDE DEF g, S, D
<1>4. IsFiniteSet(S) /\ Cardinality(S) <= Cardinality(pending)
  BY <1>1, FS_Surjection
<1>5. Cardinality(D) <= Cardinality(S) /\ (Cardinality(S) = Cardinality(D) => S = D)
  BY <1>2, <1>4, FS_Subset
<1>6. Cardinality(S) \in Nat /\ Cardinality(D) \in Nat
  BY <1>3, <1>4, FS_CardinalityType
<1>7. S = D
  BY <1>3, <1>4, <1>5, <1>6
<1>8. ASSUME NEW p \in pending PROVE ~ (p[2] >= First)
  <2>1. p[2] \in D
    BY <1>7 DEF S
  <2>2. p[2] \in Value
    BY <2>1 DEF D, CopyInv, WellTyped
  <2> QED BY <2>2, FirstAssumption DEF Value
<1> QED BY <1>8 DEF OfTemporary

LEMMA FreshPaid == Fresh => Paid
<1> SUFFICES ASSUME Fresh PROVE Paid
  OBVIOUS
<1>1. IsFiniteSet(Value)
  BY FS_Interval, FirstAssumption DEF Value
<1>2. IsFiniteSet(Value \X Value)
  BY <1>1, FS_Product
<1>3. IsFiniteSet(pending)
  BY <1>2, FS_Subset DEF Fresh
<1>4. DOMAIN want = {p[1] : p \in pending}
  BY DEF Fresh, Assigned
<1>5. OneEach
  BY DEF Fresh, OneEach, Assigns
<1>6. /\ IsFiniteSet(DOMAIN want)
      /\ Cardinality(DOMAIN want) = Cardinality(pending)
  BY <1>3, <1>4, <1>5, Destinations
<1>7. OfTemporary = {}
  BY FirstAssumption DEF Fresh, OfTemporary, Value
<1>8. Cardinality(pending) \in Nat /\ next = First /\ First \in Nat
  BY <1>3, FS_CardinalityType, FirstAssumption DEF Fresh
<1> QED BY <1>3, <1>6, <1>7, <1>8 DEF Paid, Slack

LEMMA StorePaid ==
  ASSUME CopyInv, Paid, NEW p \in pending, Store(p)
  PROVE  Paid'
<1>1. /\ pending' = pending \ {p} /\ next' = next /\ want' = want
      /\ Ready(p)
  BY DEF Store
<1>2. /\ IsFiniteSet(pending') /\ IsFiniteSet(DOMAIN want)
      /\ Cardinality(pending') = Cardinality(pending) - 1
  BY <1>1, FS_RemoveElement DEF Paid
<1>3. /\ Cardinality(pending) \in Nat /\ Cardinality(DOMAIN want) \in Nat
      /\ next \in Nat /\ First \in Nat
  BY FS_CardinalityType, FirstAssumption DEF Paid, CopyInv, WellTyped
<1>4. OfTemporary' = OfTemporary \ {p}
  BY <1>1 DEF OfTemporary
<1>5. Slack - 1 <= Slack' /\ Slack' \in {0, 1, 2} /\ Slack \in {0, 1, 2}
  <2>1. Slack' \in {0, 1, 2} /\ Slack \in {0, 1, 2}
    BY DEF Slack
  <2>2. ASSUME Slack = 2 PROVE Slack' # 0
    <3>1. OfTemporary # {} /\ p \notin OfTemporary
      BY <1>1, <2>2 DEF Slack
    <3>2. OfTemporary' # {}
      BY <1>4, <3>1
    <3> QED BY <3>2 DEF Slack
  <2> QED BY <2>1, <2>2
<1> QED BY <1>1, <1>2, <1>3, <1>5 DEF Paid

\* Each other assignment is redirected or left alone.
LEMMA BreakCyclePaid ==
  ASSUME CopyInv, Paid, NEW p \in pending, BreakCycle(p)
  PROVE  Paid'
<1> DEFINE New(q) == <<q[1], IF q[2] = p[1] THEN next ELSE q[2]>>
           h == [q \in pending |-> IF q = p THEN p ELSE New(q)]
<1>1. /\ pending' = {p} \cup {New(q) : q \in pending \ {p}}
      /\ next' = next + 1 /\ want' = want
      /\ \A q \in pending : ~ Ready(q)
  BY DEF BreakCycle
<1>2. First \in Nat /\ next \in Nat /\ First <= next
  BY FirstAssumption DEF CopyInv, WellTyped
<1>3. IsFiniteSet(pending) /\ IsFiniteSet(DOMAIN want)
  BY DEF Paid
<1>4. OfTemporary = {}
  BY <1>1, <1>3, OnlyCycles
<1>5. IsFiniteSet(pending') /\ Cardinality(pending') <= Cardinality(pending)
  <2>1. \A r \in pending' : \E q \in pending : h[q] = r
    BY <1>1
  <2>2. \A q \in pending : h[q] \in pending'
    BY <1>1
  <2>3. h \in Surjection(pending, pending')
    BY <2>1, <2>2 DEF Surjection
  <2> QED BY <1>3, <2>3, FS_Surjection
<1>6. /\ Cardinality(pending) \in Nat /\ Cardinality(pending') \in Nat
      /\ Cardinality(DOMAIN want) \in Nat
  BY <1>3, <1>5, FS_CardinalityType
<1>7. ASSUME NEW r \in pending', r[2] >= First PROVE ~ Ready(r)'
  <2>1. PICK q \in pending : q # p /\ r = New(q) /\ q[2] = p[1]
    <3>1. \A q \in pending : ~ (q[2] >= First)
      BY <1>4 DEF OfTemporary
    <3> QED BY <1>1, <1>7, <3>1
  <2>2. PICK u \in pending : u[2] = q[1]
    BY <1>1 DEF Ready
  <2>3. q[1] # p[1]
    BY <2>1 DEF CopyInv, OneEach
  <2>4. \E w \in pending' : w[2] = q[1]
    <3>1. CASE u = p
      BY <1>1, <2>2, <3>1
    <3>2. CASE u # p
      <4>1. New(u)[2] = q[1]
        BY <2>2, <2>3
      <4> QED BY <1>1, <3>2, <4>1
    <3> QED BY <3>1, <3>2
  <2>5. r[1] = q[1]
    BY <2>1
  <2> QED BY <2>4, <2>5 DEF Ready
<1>8. Slack = 0
  BY <1>4 DEF Slack
<1>9. Slack' = 2
  <2>1. \E r \in OfTemporary' : TRUE
    <3>1. PICK q \in pending : q[2] = p[1]
      BY <1>1 DEF Ready
    <3>2. q # p
      BY <3>1 DEF CopyInv, OneEach
    <3>3. New(q) \in pending' /\ New(q)[2] = next
      BY <1>1, <3>1, <3>2
    <3> QED BY <1>2, <3>3 DEF OfTemporary
  <2> QED BY <1>7, <2>1 DEF Slack, OfTemporary
<1> QED BY <1>1, <1>2, <1>3, <1>5, <1>6, <1>8, <1>9 DEF Paid

LEMMA PaidStep == CopyInv /\ Paid /\ [CopyNext]_copyVars => Paid'
<1> SUFFICES ASSUME CopyInv, Paid, [CopyNext]_copyVars PROVE Paid'
  OBVIOUS
<1>1. CASE CopyNext
  BY <1>1, StorePaid, BreakCyclePaid DEF CopyNext
<1>2. CASE UNCHANGED copyVars
  BY <1>2 DEF copyVars, Paid, Slack, OfTemporary, Ready
<1> QED BY <1>1, <1>2

\* An assignment that reads a temporary and is not ready waits for another.
LEMMA PaidFew == CopyInv /\ Paid => FewTemporaries
<1> SUFFICES ASSUME CopyInv, Paid PROVE FewTemporaries
  OBVIOUS
<1>1. /\ Cardinality(pending) \in Nat /\ Cardinality(DOMAIN want) \in Nat
      /\ next \in Nat /\ First \in Nat
  BY FS_CardinalityType, FirstAssumption DEF Paid, CopyInv, WellTyped
<1>2. Slack <= Cardinality(pending) /\ Slack \in {0, 1, 2}
  <2>1. CASE OfTemporary = {}
    BY <1>1, <2>1 DEF Slack
  <2>2. CASE OfTemporary # {}
    <3>1. PICK p \in pending : p \in OfTemporary
      BY <2>2 DEF OfTemporary
    <3>2. IsFiniteSet(pending \ {p}) /\ Cardinality(pending \ {p}) = Cardinality(pending) - 1
      BY FS_RemoveElement DEF Paid
    <3>3. Cardinality(pending \ {p}) \in Nat
      BY <3>2, FS_CardinalityType
    <3>4. CASE Slack = 2
      <4>1. ~ Ready(p)
        BY <2>2, <3>1, <3>4 DEF Slack
      <4>2. PICK q \in pending : q[2] = p[1]
        BY <4>1 DEF Ready
      <4>3. q \in pending \ {p}
        BY <4>2 DEF CopyInv, OneEach
      <4>4. Cardinality(pending \ {p}) # 0
        BY <3>2, <4>3, FS_EmptySet
      <4> QED BY <1>1, <3>2, <3>3, <3>4, <4>4
    <3>5. CASE Slack # 2
      BY <1>1, <2>2, <3>2, <3>3, <3>5 DEF Slack
    <3> QED BY <3>4, <3>5
  <2> QED BY <2>1, <2>2
<1> QED BY <1>1, <1>2 DEF Paid, FewTemporaries

LEMMA CopyInitFresh == CopyInit => Fresh
  BY DEF CopyInit, Fresh

\* The copies emitted for the phis of a block have the effect of assigning
\* all of them at once, whatever cycles the assignments form.
THEOREM CopiesAreSimultaneous == CopySpec => []Simultaneous
<1>1. CopyInv => Simultaneous
  BY DEF CopyInv, DoneHold, Simultaneous
<1> QED BY CopyInitFresh, FreshInv, StepInv, <1>1, PTL DEF CopySpec

\* However the assignments form cycles and chains, and in whatever order
\* insert_parallel_copies takes them, it makes no more than one temporary for
\* two of them.
THEOREM TemporariesAreFew == CopySpec => []FewTemporaries
  BY CopyInitFresh, FreshInv, FreshPaid, StepInv, PaidStep, PaidFew, PTL DEF CopySpec

-----------------------------------------------------------------------------
(* The lowered method.  The blocks a run is in are reached from the entry;  *)
(* what the copies write, no other successor reads.                        *)

CfgType ==
  /\ succs \in [Block -> SUBSET Block]
  /\ home \in [Phi -> Block \ {EntryBlock}]
  /\ incoming \in WellFormed
  /\ here \in Block
  /\ ssa = [v \in Value |-> ssa[v]]
  /\ stage \in {"lower", "refused", "arrive", "copies", "branch", "edge"}

Reached ==
  \A S \in SUBSET Block :
    EntryBlock \in S /\ (\A x \in S : succs[x] \subseteq S) => here \in S

\* The value that phi v takes when the branch leads from here to its block.
From(v) == incoming[<<v, here>>]

\* The copy of phi v is at the end of this block.
Moved(v) ==
  /\ v \in Phi /\ home[v] \in succs[here]
  /\ Defined(v, here) /\ <<here, home[v]>> \notin split

\* What v holds, or will when the copies being run are done.
Held(v) == IF v \in DOMAIN want THEN want[v] ELSE env[v]

Agrees(b) == \A v \in Value : Available(v, b) /\ ssa[v] # Undef => Held(v) = ssa[v]

Copied ==
  \A v \in Value :
    /\ Moved(v) /\ ssa[From(v)] # Undef => Held(v) = ssa[From(v)]
    /\ ~ Moved(v) /\ Available(v, here) /\ ssa[v] # Undef => Held(v) = ssa[v]

LowInv ==
  /\ CfgType
  /\ CopyInv
  /\ Paid
  /\ Reached
  /\ stage \notin {"copies", "edge"} => pending = {} /\ next = First
  /\ stage \notin {"lower", "refused"} => split = Critical
  /\ stage \in {"lower", "arrive"} => Agrees(here)
  /\ stage \in {"copies", "branch"} => Copied
  /\ stage = "edge" => goal \in succs[here] /\ Agrees(goal)

\* A block whose only predecessor is being run does not dominate it.
LEMMA OnlyWay ==
  ASSUME CfgType, Reached, NEW b \in Block \ {EntryBlock}, Preds(b) = {here}
  PROVE  ~ Dominates(b, here)
<1>1. \A x \in Block : b \in succs[x] => x = here
  BY DEF Preds
<1>2. here # b
  <2>1. \A x \in Block \ {b} : here = b => succs[x] \subseteq Block \ {b}
    BY <1>1 DEF CfgType
  <2>2. Block \ {b} \in SUBSET Block /\ EntryBlock \in Block \ {b}
    BY PhiAssumption
  <2> QED BY <2>1, <2>2 DEF Reached
<1>3. ASSUME NEW S \in SUBSET (Block \ {b}), EntryBlock \in S \cup {b},
             \A x \in S : succs[x] \subseteq S \cup {b}, here \notin S
      PROVE  FALSE
  <2>1. EntryBlock \in S /\ S \in SUBSET Block
    BY <1>3
  <2>2. \A x \in S : succs[x] \subseteq S
    BY <1>1, <1>3, <2>1
  <2> QED BY <1>3, <2>1, <2>2 DEF Reached
<1>4. here \in Around(b)
  BY <1>3 DEF Around, CfgType
<1> QED BY <1>4 DEF Dominates

\* What may be used in a block is defined there or may be used before it.
LEMMA AvailableBefore ==
  ASSUME CfgType, NEW v \in Value, NEW a \in Block, NEW b \in succs[a],
         Available(v, b), v \in Phi => home[v] # b
  PROVE  Available(v, a)
<1> SUFFICES ASSUME v \notin Input, ~ Available(v, a) PROVE FALSE
  BY DEF Available
<1>1. /\ v \in Phi /\ home[v] # b /\ home[v] \in Block /\ b \in Block
      /\ b \notin Around(home[v]) /\ a \in Around(home[v])
  BY DEF CfgType, Available, Dominates, Phi
<1> DEFINE d == home[v]
<1> HIDE DEF d
<1>2. PICK S \in SUBSET (Block \ {d}) :
        /\ EntryBlock \in S \cup {d}
        /\ \A x \in S : succs[x] \subseteq S \cup {d}
        /\ b \notin S
  BY <1>1 DEF Around, d
<1>3. a \in S
  BY <1>1, <1>2 DEF Around, d
<1> QED BY <1>1, <1>2, <1>3 DEF d

\* Where there is a choice, the copies at the end of the block write nothing
\* that may be used there.
LEMMA MovedApart ==
  ASSUME CfgType, Reached, split = Critical, Cardinality(succs[here]) # 1,
         NEW v \in Value, Available(v, here)
  PROVE  ~ Moved(v)
<1> SUFFICES ASSUME Moved(v) PROVE FALSE
  OBVIOUS
<1> DEFINE b == home[v]
<1>1. /\ v \in Phi /\ here \in Block /\ b \in Block \ {EntryBlock}
      /\ b \in succs[here] /\ succs[here] \subseteq Block
  BY DEF Moved, CfgType
<1>2. <<here, b>> \in CopyEdges
  BY <1>1 DEF CopyEdges, Moved
<1>3. ~ IsCritical(here, b)
  BY <1>2 DEF Moved, Critical
<1>4. IsFiniteSet(succs[here]) /\ IsFiniteSet(Preds(b))
  BY <1>1, PhiAssumption, FS_Subset DEF Preds
<1>5. Cardinality(succs[here]) \in Nat /\ Cardinality(Preds(b)) \in Nat
  BY <1>4, FS_CardinalityType
<1>6. here \in Preds(b)
  BY <1>1 DEF Preds
<1>7. Cardinality(succs[here]) # 0 /\ Cardinality(Preds(b)) # 0
  BY <1>1, <1>4, <1>6, FS_EmptySet
<1>8. Cardinality(Preds(b)) = 1
  BY <1>3, <1>5, <1>7 DEF IsCritical
<1>9. Preds(b) = {here}
  BY <1>4, <1>6, <1>8, FS_Singleton
<1>10. ~ Dominates(b, here)
  BY <1>1, <1>9, OnlyWay
<1> QED BY <1>1, <1>10 DEF Available, Phi

\* Copies of edges that leave this block can be run at once.
LEMMA Inserted ==
  ASSUME CfgType, WellTyped, pending = {}, next = First,
         NEW E, \A e \in E : e[1] = here,
         InsertCopies(E), env' = env, next' = next
  PROVE  /\ Fresh'
         /\ \A v \in Value :
              Held(v)' = IF v \in Phi /\ (\E e \in E : home[v] = e[2]) /\ From(v) \in Value
                         THEN env[From(v)] ELSE env[v]
<1> DEFINE C == Copies(E)
           Takes(v) == v \in Phi /\ (\E e \in E : home[v] = e[2]) /\ From(v) \in Value
<1>1. \A c \in C : c \in Phi \X Value /\ c[1] # c[2] /\ Takes(c[1]) /\ c[2] = From(c[1])
  BY DEF Copies, From
<1>2. \A v : Takes(v) /\ From(v) # v => <<v, From(v)>> \in C
  BY DEF Copies, From
<1>3. pending' = C /\ want' = Assigned(C, env)
  BY DEF InsertCopies
<1> HIDE DEF C
<1>4. C \subseteq Value \X Value
  BY <1>1 DEF Phi
<1>5. \A c1, c2 \in C : c1[1] = c2[1] => c1 = c2
  <2> SUFFICES ASSUME NEW c1 \in C, NEW c2 \in C, c1[1] = c2[1] PROVE c1 = c2
    OBVIOUS
  <2> HIDE DEF Takes
  <2> QED BY <1>1
<1>6. Fresh'
  <2>1. DOMAIN env = Value /\ env = [v \in Value |-> env[v]]
    BY FirstAssumption DEF WellTyped, Id, Value
  <2> QED BY <1>1, <1>3, <1>4, <1>5, <2>1 DEF Fresh, Assigns
<1>7. ASSUME NEW v \in Value
      PROVE  Held(v)' = IF Takes(v) THEN env[From(v)] ELSE env[v]
  <2>1. Held(v)' = IF v \in {c[1] : c \in C}
                   THEN env[(CHOOSE c \in C : c[1] = v)[2]] ELSE env[v]
    BY <1>3 DEF Held, Assigned
  <2>2. CASE \E c \in C : c[1] = v
    <3>1. PICK c \in C : c = CHOOSE x \in C : x[1] = v
      BY <2>2
    <3>2. c[1] = v
      BY <2>2, <3>1
    <3> QED BY <1>1, <2>1, <3>1, <3>2
  <2>3. CASE ~ \E c \in C : c[1] = v
    <3>1. Held(v)' = env[v]
      BY <2>1, <2>3
    <3>2. ASSUME Takes(v) PROVE From(v) = v
      <4>1. <<v, From(v)>> \notin C
        BY <2>3
      <4> QED BY <1>2, <3>2, <4>1
    <3> HIDE DEF Takes
    <3> QED BY <3>1, <3>2
  <2> QED BY <2>2, <2>3
<1> QED BY <1>6, <1>7

LEMMA FreshNext == (Fresh => CopyInv /\ Paid)'
  BY FreshInv, FreshPaid, PTL

LEMMA ForgetInv ==
  ASSUME CopyInv, Paid, pending = {}, Forget, pending' = pending, want' = want
  PROVE  /\ CopyInv' /\ Paid'
         /\ \A v \in Value : Held(v)' = Held(v)
<1>1. First \in Nat /\ next \in Nat /\ First <= next /\ next' = First
  BY FirstAssumption DEF CopyInv, WellTyped, Forget
<1>2. Value \subseteq Id /\ Id' = Value
  BY <1>1 DEF Value, Id
<1>3. env' = [v \in Value |-> env[v]]
  BY DEF Forget
<1>4. CopyInv'
  BY <1>1, <1>2, <1>3 DEF CopyInv, WellTyped, OneEach, SourcesHold, DoneHold
<1>5. Paid'
  <2>1. Cardinality(pending) = 0
    BY FS_EmptySet
  <2>2. Cardinality(DOMAIN want) \in Nat
    BY FS_CardinalityType DEF Paid
  <2>3. Slack' = 0
    BY DEF Slack, OfTemporary
  <2> QED BY <1>1, <2>1, <2>2, <2>3 DEF Paid
<1>6. \A v \in Value : Held(v)' = Held(v)
  BY <1>3 DEF Held
<1> QED BY <1>4, <1>5, <1>6

\* When the copies have run, the values hold what they were to hold.
LEMMA AllHeld ==
  ASSUME CopyInv, pending = {}
  PROVE  \A v : Held(v) = env[v]
  BY DEF Held, CopyInv, DoneHold

LEMMA InitLow == Init => LowInv
<1> SUFFICES ASSUME Init PROVE LowInv
  OBVIOUS
<1>1. Fresh
  BY DEF Init, NoCopies, Fresh, Assigns, Assigned
<1>2. CopyInv /\ Paid
  BY <1>1, FreshInv, FreshPaid
<1>3. CfgType
  BY PhiAssumption DEF Init, CfgType
<1>4. Reached
  BY DEF Init, Reached
<1>5. Agrees(here)
  BY DEF Init, NoCopies, Agrees, Held
<1> QED BY <1>2, <1>3, <1>4, <1>5 DEF Init, NoCopies, LowInv

LEMMA LowerLow == LowInv /\ Lower => LowInv'
<1> SUFFICES ASSUME LowInv, Lower PROVE LowInv'
  OBVIOUS
<1> USE DEF Lower, cfg, copyVars, LowInv
<1>1. CfgType' /\ Reached'
  BY DEF CfgType, WellFormed, Slot, Available, Dominates, Around, Reached
<1>2. CopyInv' /\ Paid'
  BY DEF CopyInv, WellTyped, OneEach, SourcesHold, DoneHold, Id, Paid, Slack,
     OfTemporary, Ready
<1>3. Agrees(here)'
  BY DEF Agrees, Held, Available, Dominates, Around
<1>4. Critical' = Critical
  BY DEF Critical, CopyEdges, Defined, IsCritical, Preds
<1> QED BY <1>1, <1>2, <1>3, <1>4

LEMMA EndBlockLow == LowInv /\ EndBlock => LowInv'
<1> SUFFICES ASSUME LowInv, EndBlock PROVE LowInv'
  OBVIOUS
<1> USE DEF EndBlock, cfg, LowInv
<1> DEFINE E == {e \in CopyEdges \ split : e[1] = here}
<1>1. CfgType' /\ Reached'
  BY DEF CfgType, WellFormed, Slot, Available, Dominates, Around, Reached
<1>2. /\ Fresh'
      /\ \A v \in Value :
           Held(v)' = IF v \in Phi /\ (\E e \in E : home[v] = e[2]) /\ From(v) \in Value
                      THEN env[From(v)] ELSE env[v]
  <2>1. \A e \in E : e[1] = here
    OBVIOUS
  <2>2. InsertCopies(E)
    OBVIOUS
  <2> HIDE DEF E
  <2> QED BY <2>1, <2>2, Inserted DEF CopyInv
<1>3. CopyInv' /\ Paid'
  BY <1>2, FreshNext
<1>4. ASSUME NEW v \in Phi
      PROVE  (\E e \in E : home[v] = e[2]) /\ From(v) \in Value <=> Moved(v)
  <2>1. (\E e \in E : home[v] = e[2]) <=> <<here, home[v]>> \in CopyEdges \ split
    BY DEF CopyEdges
  <2>2. home[v] \in succs[here] => <<v, here>> \in Slot
    BY DEF Slot, CfgType
  <2>3. home[v] \in succs[here] => (From(v) \in Value <=> Defined(v, here))
    BY <2>2, PhiAssumption DEF From, Defined, CfgType, WellFormed
  <2>4. Defined(v, here) /\ home[v] \in succs[here] => <<here, home[v]>> \in CopyEdges
    BY DEF CopyEdges, CfgType
  <2> QED BY <2>1, <2>3, <2>4 DEF Moved, CopyEdges
<1>5. ASSUME NEW v \in Value, Moved(v)
      PROVE  From(v) \in Value /\ Available(From(v), here)
  <2>1. <<v, here>> \in Slot
    BY <1>5 DEF Moved, Slot, CfgType
  <2> QED BY <1>5, <2>1 DEF Moved, From, Defined, CfgType, WellFormed
<1>6. \A v \in Value : Available(v, here) /\ ssa[v] # Undef => env[v] = ssa[v]
  BY AllHeld DEF Agrees
<1>7. ASSUME NEW v \in Value
      PROVE  Held(v)' = IF Moved(v) THEN env[From(v)] ELSE env[v]
  BY <1>2, <1>4 DEF Moved
<1>8. Copied'
  <2>1. \A v : /\ Moved(v)' <=> Moved(v)
               /\ From(v)' = From(v)
               /\ Available(v, here)' <=> Available(v, here)
    BY DEF Moved, Defined, From, Available, Dominates, Around
  <2> QED BY <1>5, <1>6, <1>7, <2>1 DEF Copied
<1>9. Critical' = Critical
  BY DEF Critical, CopyEdges, Defined, IsCritical, Preds
<1> QED BY <1>1, <1>3, <1>8, <1>9

LEMMA CopyLow == LowInv /\ Copy => LowInv'
<1> SUFFICES ASSUME LowInv, Copy PROVE LowInv'
  OBVIOUS
<1> USE DEF Copy, cfg, LowInv
<1>1. CfgType' /\ Reached'
  BY DEF CfgType, WellFormed, Slot, Available, Dominates, Around, Reached
<1>2. CopyInv' /\ Paid'
  BY StepInv, PaidStep
<1>3. ASSUME NEW v \in Value PROVE Held(v)' = Held(v)
  <2>1. PICK p \in pending : Store(p) \/ BreakCycle(p)
    BY DEF CopyNext
  <2>2. want' = want /\ p[1] \in DOMAIN want
    BY <2>1 DEF Store, BreakCycle, CopyInv, SourcesHold
  <2>3. CASE v \in DOMAIN want
    BY <2>2, <2>3 DEF Held
  <2>4. CASE v \notin DOMAIN want
    <3>1. First \in Nat /\ next \in Nat /\ First <= next /\ v \in 0..First - 1
      BY FirstAssumption DEF CopyInv, WellTyped, Value
    <3>2. v \in Id /\ v # next /\ v \in 0..next /\ DOMAIN env = Id
      BY <3>1 DEF Id, CopyInv, WellTyped
    <3>3. env'[v] = env[v]
      BY <2>1, <2>2, <2>4, <3>2 DEF Store, BreakCycle
    <3> QED BY <2>2, <2>4, <3>3 DEF Held
  <2> QED BY <2>3, <2>4
<1>4. stage \in {"copies", "edge"}
  BY DEF CopyNext
<1>5. /\ \A v : /\ Moved(v)' <=> Moved(v)
                /\ From(v)' = From(v)
      /\ \A v, b : Available(v, b)' <=> Available(v, b)
  BY DEF Moved, Defined, From, Available, Dominates, Around
<1>6. stage = "copies" => Copied'
  BY <1>3, <1>5 DEF Copied
<1>7. stage = "edge" => Agrees(goal)'
  BY <1>3, <1>5 DEF Agrees
<1>8. Critical' = Critical
  BY DEF Critical, CopyEdges, Defined, IsCritical, Preds
<1> QED BY <1>1, <1>2, <1>4, <1>6, <1>7, <1>8

LEMMA TerminatorLow == LowInv /\ Terminator => LowInv'
<1> SUFFICES ASSUME LowInv, Terminator PROVE LowInv'
  OBVIOUS
<1> USE DEF Terminator, cfg, LowInv
<1>1. CfgType' /\ Reached'
  BY DEF CfgType, WellFormed, Slot, Available, Dominates, Around, Reached
<1>2. CopyInv' /\ Paid' /\ \A v \in Value : Held(v)' = Held(v)
  BY ForgetInv
<1>3. \A v : /\ Moved(v)' <=> Moved(v)
             /\ From(v)' = From(v)
             /\ Available(v, here)' <=> Available(v, here)
  BY DEF Moved, Defined, From, Available, Dominates, Around
<1>4. Copied'
  BY <1>2, <1>3 DEF Copied
<1>5. Critical' = Critical
  BY DEF Critical, CopyEdges, Defined, IsCritical, Preds
<1> QED BY <1>1, <1>2, <1>4, <1>5 DEF Forget

LEMMA BranchLow == LowInv /\ Branch => LowInv'
<1> SUFFICES ASSUME LowInv, Branch PROVE LowInv'
  OBVIOUS
<1> USE DEF Branch, cfg, LowInv
<1>1. PICK b \in succs[here] :
        /\ goal' = b
        /\ ssa' = [v \in Value |->
                     IF v \in Phi /\ home[v] = b
                     THEN IF Defined(v, here) THEN ssa[incoming[<<v, here>>]] ELSE Undef
                     ELSE ssa[v]]
        /\ InsertCopies({<<here, b>>} \cap split)
  OBVIOUS
<1>2. CfgType' /\ Reached'
  BY <1>1 DEF CfgType, WellFormed, Slot, Available, Dominates, Around, Reached
<1> DEFINE E == {<<here, b>>} \cap split
<1>3. /\ Fresh'
      /\ \A v \in Value :
           Held(v)' = IF v \in Phi /\ (\E e \in E : home[v] = e[2]) /\ From(v) \in Value
                      THEN env[From(v)] ELSE env[v]
  <2>1. \A e \in E : e[1] = here
    OBVIOUS
  <2>2. InsertCopies(E)
    BY <1>1
  <2> HIDE DEF E
  <2> QED BY <2>1, <2>2, Inserted DEF CopyInv
<1>4. CopyInv' /\ Paid'
  BY <1>3, FreshNext
<1>5. /\ here \in Block /\ b \in Block /\ IsFiniteSet(succs[here])
  BY PhiAssumption, FS_Subset DEF CfgType
<1>6. /\ \A v \in Value : Moved(v) /\ ssa[From(v)] # Undef => env[v] = ssa[From(v)]
      /\ \A v \in Value : ~ Moved(v) /\ Available(v, here) /\ ssa[v] # Undef =>
                           env[v] = ssa[v]
  BY AllHeld DEF Copied
<1>7. ASSUME Cardinality(succs[here]) # 1, NEW v \in Value, Available(v, here),
             ssa[v] # Undef
      PROVE  env[v] = ssa[v]
  BY <1>6, <1>7, MovedApart
<1>8. ASSUME NEW v \in Value, Available(v, b), ssa'[v] # Undef
      PROVE  Held(v)' = ssa'[v]
  <2>1. CASE v \in Phi /\ home[v] = b
    <3>1. Defined(v, here) /\ ssa'[v] = ssa[From(v)] /\ ssa[From(v)] # Undef
      BY <1>1, <1>8, <2>1 DEF From
    <3>2. <<v, here>> \in Slot
      BY <1>5, <2>1 DEF Slot
    <3>3. From(v) \in Value /\ Available(From(v), here)
      BY <3>1, <3>2 DEF From, Defined, CfgType, WellFormed
    <3>4. CASE <<here, b>> \in split
      <4>1. Cardinality(succs[here]) # 1
        <5>1. IsCritical(here, b)
          BY <3>4 DEF Critical
        <5> QED BY <5>1 DEF IsCritical
      <4>2. env[From(v)] = ssa[From(v)]
        BY <1>7, <3>1, <3>3, <4>1
      <4>3. \E e \in E : home[v] = e[2]
        BY <2>1, <3>4
      <4> QED BY <1>3, <2>1, <3>1, <3>3, <4>2, <4>3
    <3>5. CASE <<here, b>> \notin split
      <4>1. Moved(v)
        BY <2>1, <3>1, <3>5 DEF Moved
      <4>2. Held(v)' = env[v]
        BY <1>3, <3>5
      <4> QED BY <1>6, <3>1, <4>1, <4>2
    <3> QED BY <3>4, <3>5
  <2>2. CASE ~ (v \in Phi /\ home[v] = b)
    <3>1. ssa'[v] = ssa[v]
      BY <1>1, <2>2
    <3>2. Available(v, here)
      BY <1>5, <1>8, <2>2, AvailableBefore
    <3>3. Held(v)' = env[v]
      BY <1>3, <2>2
    <3>4. env[v] = ssa[v]
      <4>1. CASE Cardinality(succs[here]) # 1
        BY <1>7, <1>8, <3>1, <3>2, <4>1
      <4>2. CASE Cardinality(succs[here]) = 1
        <5>1. succs[here] = {b}
          BY <1>5, <4>2, FS_Singleton
        <5>2. ~ Moved(v)
          BY <2>2, <5>1 DEF Moved
        <5> QED BY <1>6, <1>8, <3>1, <3>2, <5>2
      <4> QED BY <4>1, <4>2
    <3> QED BY <3>1, <3>3, <3>4
  <2> QED BY <2>1, <2>2
<1>9. Agrees(goal)'
  <2>1. \A v, c : Available(v, c)' <=> Available(v, c)
    BY DEF Available, Dominates, Around
  <2> QED BY <1>1, <1>8, <2>1 DEF Agrees
<1>10. Critical' = Critical
  BY DEF Critical, CopyEdges, Defined, IsCritical, Preds
<1> QED BY <1>1, <1>2, <1>4, <1>9, <1>10

LEMMA ArriveLow == LowInv /\ Arrive => LowInv'
<1> SUFFICES ASSUME LowInv, Arrive PROVE LowInv'
  OBVIOUS
<1> USE DEF Arrive, cfg, LowInv
<1>1. CfgType'
  BY DEF CfgType, WellFormed, Slot, Available, Dominates, Around
<1>2. Reached'
  <2> SUFFICES ASSUME NEW S \in SUBSET Block, EntryBlock \in S,
                      \A x \in S : succs[x] \subseteq S
               PROVE  goal \in S
    BY DEF Reached
  <2> QED BY DEF Reached
<1>3. CopyInv' /\ Paid' /\ \A v \in Value : Held(v)' = Held(v)
  BY ForgetInv
<1>4. Agrees(here)'
  <2>1. \A v : Available(v, here)' <=> Available(v, goal)
    BY DEF Available, Dominates, Around
  <2> QED BY <1>3, <2>1 DEF Agrees
<1>5. Critical' = Critical
  BY DEF Critical, CopyEdges, Defined, IsCritical, Preds
<1> QED BY <1>1, <1>2, <1>3, <1>4, <1>5 DEF Forget

LEMMA StutterLow == LowInv /\ UNCHANGED phiVars => LowInv'
<1> SUFFICES ASSUME LowInv, UNCHANGED phiVars PROVE LowInv'
  OBVIOUS
<1> USE DEF phiVars, cfg, copyVars, LowInv
<1>1. CfgType' /\ Reached'
  BY DEF CfgType, WellFormed, Slot, Available, Dominates, Around, Reached
<1>2. CopyInv' /\ Paid'
  BY DEF CopyInv, WellTyped, OneEach, SourcesHold, DoneHold, Id, Paid, Slack,
     OfTemporary, Ready
<1>3. /\ \A v : /\ Moved(v)' <=> Moved(v)
                /\ From(v)' = From(v)
                /\ Held(v)' = Held(v)
      /\ \A v, b : Available(v, b)' <=> Available(v, b)
  BY DEF Moved, Defined, From, Available, Dominates, Around, Held
<1>4. Critical' = Critical
  BY DEF Critical, CopyEdges, Defined, IsCritical, Preds
<1>5. (stage \in {"lower", "arrive"} => Agrees(here)') /\ (stage = "edge" => Agrees(goal)')
  BY <1>3 DEF Agrees
<1>6. stage \in {"copies", "branch"} => Copied'
  BY <1>3 DEF Copied
<1> QED BY <1>1, <1>2, <1>4, <1>5, <1>6

THEOREM LowInvariance == Spec => []LowInv
<1>1. LowInv /\ [Next]_phiVars => LowInv'
  BY LowerLow, EndBlockLow, CopyLow, TerminatorLow, BranchLow, ArriveLow, StutterLow
     DEF Next
<1> QED BY <1>1, InitLow, PTL DEF Spec

\* On every path of every method, with any phis, a lowered value holds what the
\* value held in SSA form wherever it may be used: splitting exactly the
\* critical edges is enough (lower, is_critical, insert_parallel_copies).
THEOREM LoweringPreserves == Spec => []Preserved
<1>1. LowInv => Preserved
  <2> SUFFICES ASSUME LowInv,
                      stage = "arrive" \/ (stage = "branch" /\ Cardinality(succs[here]) # 1),
                      NEW v \in Value, Available(v, here), ssa[v] # Undef
               PROVE  env[v] = ssa[v]
    BY DEF Preserved
  <2>1. Held(v) = env[v]
    BY AllHeld DEF LowInv
  <2>2. CASE stage = "arrive"
    BY <2>1, <2>2 DEF LowInv, Agrees
  <2>3. CASE stage = "branch" /\ Cardinality(succs[here]) # 1
    <3>1. ~ Moved(v)
      BY <2>3, MovedApart DEF LowInv
    <3> QED BY <2>1, <2>3, <3>1 DEF LowInv, Copied
  <2> QED BY <2>2, <2>3
<1> QED BY <1>1, LowInvariance, PTL

\* The copies that lower places, at the end of a block or on a split edge, are
\* done as if at once and with few temporaries.
THEOREM LoweringCopies == Spec => [](Simultaneous /\ FewTemporaries)
<1>1. LowInv => Simultaneous /\ FewTemporaries
  BY PaidFew DEF LowInv, CopyInv, DoneHold, Simultaneous
<1> QED BY <1>1, LowInvariance, PTL

=============================================================================

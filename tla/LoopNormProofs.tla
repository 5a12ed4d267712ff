--------------------------- MODULE LoopNormProofs ---------------------------
(***************************************************************************)
(* What is proved of the lifting of a method and of the copying of loops,  *)
(* for methods of any size and any budget:                                 *)
(*                                                                         *)
(*   ReadsAreMerged      Spec => []MergedReads                             *)
(*   TracesAreTheSame    Spec => []SameTraces                              *)
(*   LoopsHaveOneEntry   Spec => []SingleEntries                           *)
(*   ValuesAreCarried    Spec => []ValuesCarried                           *)
(*                                                                         *)
(* NormInv says of the method being normalised that it is a graph of       *)
(* blocks numbered from 1 on, so that the copies a step makes are new      *)
(* (Copies), and that every block branches to one copy of each block its   *)
(* original branches to; and of the refusal that one is given if a loop    *)
(* with several entries is left (Candidates).  That those loops are what   *)
(* SingleEntries speaks of, the cycles of single blocks, needs that        *)
(* reachability is transitive: Reaching shows what the search in Reached   *)
(* computes, by induction on the blocks it has not found yet, and Cycles   *)
(* follows from that.                                                      *)
(*                                                                         *)
(* SearchInv says of the depth-first search that it puts every block in    *)
(* the order once, and each block that it reaches behind one of those that *)
(* branch to it.  LiftInv adds what the two rounds know: a block leaves    *)
(* the value it made last, the operands of a phi are what the predecessors *)
(* leave or holes, and whoever defined the register in the first round     *)
(* does so in the second (Grounded), so that no hole stays.  MergeInv is   *)
(* what follows for a method that is run.                                  *)
(*                                                                         *)
(* PeelInv says that copies are like their originals: CyclesKept and       *)
(* CyclesApart show what copying does to the cycles of a graph.  CarryInv  *)
(* compares the values of the two methods as they run: those of blocks     *)
(* that have no copy, and those of the cycle the run is in.  A value is    *)
(* held only behind the block that made it (Behind), so that none of a     *)
(* cycle's is held yet when it is entered.                                 *)
(***************************************************************************)
EXTENDS LoopNorm, FiniteSetTheorems, TLAPS

-----------------------------------------------------------------------------
(* What Reached computes: the least set that no edge leaves.               *)

Closed(succs, T) == \A b \in T : succs[b] \subseteq T

Hull(succs, S) ==
  {d \in DOMAIN succs :
     \A T \in SUBSET DOMAIN succs : S \subseteq T /\ Closed(succs, T) => d \in T}

Grown(succs, T) == T \cup UNION {succs[b] : b \in T}

\* One more step of the search stays within the least set that no edge leaves.
LEMMA Growing ==
  ASSUME NEW D, NEW succs \in [D -> SUBSET D], NEW T \in SUBSET D
  PROVE  /\ Grown(succs, T) \in SUBSET D /\ T \subseteq Grown(succs, T)
         /\ Grown(succs, T) = T => Hull(succs, T) = T
         /\ Hull(succs, Grown(succs, T)) = Hull(succs, T)
         /\ Hull(succs, T) \in SUBSET D
<1>1. DOMAIN succs = D /\ \A b \in D : succs[b] \subseteq D
  OBVIOUS
<1>2. Grown(succs, T) \in SUBSET D /\ T \subseteq Grown(succs, T)
  BY <1>1 DEF Grown
<1>3. ASSUME Grown(succs, T) = T PROVE Hull(succs, T) = T
  <2>1. Closed(succs, T)
    BY <1>3 DEF Grown, Closed
  <2> QED BY <1>1, <2>1 DEF Hull
<1>4. ASSUME NEW C \in SUBSET D, Closed(succs, C)
      PROVE  T \subseteq C <=> Grown(succs, T) \subseteq C
  BY <1>4 DEF Grown, Closed
<1>5. Hull(succs, Grown(succs, T)) = Hull(succs, T)
  BY <1>1, <1>4 DEF Hull
<1> QED BY <1>1, <1>2, <1>3, <1>5 DEF Hull

\* The search in Reached ends with that set.
LEMMA Reaching ==
  ASSUME NEW D, IsFiniteSet(D), NEW succs \in [D -> SUBSET D], NEW S \in SUBSET D
  PROVE  Reached(succs, S) = Hull(succs, S)
<1> DEFINE H == [T \in SUBSET D |-> Hull(succs, T)]
           F == CHOOSE f : f = [T \in SUBSET D |->
                                  IF Grown(succs, T) = T THEN T ELSE f[Grown(succs, T)]]
<1>1. Reached(succs, S) = F[S]
  BY DEF Reached, Grown
<1>2. H = [T \in SUBSET D |-> IF Grown(succs, T) = T THEN T ELSE H[Grown(succs, T)]]
  BY Growing
<1>3. F = [T \in SUBSET D |-> IF Grown(succs, T) = T THEN T ELSE F[Grown(succs, T)]]
  BY <1>2
<1> HIDE DEF F, H
<1> DEFINE Wrong == {D \ T : T \in {U \in SUBSET D : F[U] # Hull(succs, U)}}
<1>4. Wrong = {}
  <2> SUFFICES ASSUME Wrong # {} PROVE FALSE
    OBVIOUS
  <2>1. Wrong \subseteq FiniteSubsetsOf(D)
    BY FS_Subset DEF FiniteSubsetsOf
  <2>2. PICK A \in Wrong : \A B \in Wrong : <<B, A>> \notin StrictSubsetOrdering(D)
    BY <2>1, FS_StrictSubsetOrderingWellFounded, WFMin
  <2>3. PICK T \in SUBSET D : A = D \ T /\ F[T] # Hull(succs, T)
    OBVIOUS
  <2>4. PICK U : U = Grown(succs, T)
    OBVIOUS
  <2>5. U \in SUBSET D /\ T \subseteq U /\ Hull(succs, U) = Hull(succs, T)
    BY <2>4, Growing
  <2>6. F[T] = IF U = T THEN T ELSE F[U]
    BY <1>3, <2>4
  <2>7. U # T
    BY <2>3, <2>4, <2>6, Growing
  <2>8. D \ U \in Wrong
    BY <2>3, <2>5, <2>6, <2>7
  <2>9. <<D \ U, D \ T>> \in StrictSubsetOrdering(D)
    BY <2>5, <2>7 DEF StrictSubsetOrdering
  <2> QED BY <2>2, <2>3, <2>8, <2>9
<1> QED BY <1>1, <1>4

\* Reached is reflexive and transitive, and a step is the first of a path.
LEMMA Paths ==
  ASSUME NEW D, IsFiniteSet(D), NEW succs \in [D -> SUBSET D]
  PROVE  /\ \A S \in SUBSET D : S \subseteq Reached(succs, S) /\ Reached(succs, S) \in SUBSET D
         /\ \A S \in SUBSET D : \A c \in Reached(succs, S) :
              Reached(succs, {c}) \subseteq Reached(succs, S)
         /\ \A b \in D : Reached(succs, {b}) \subseteq {b} \cup Reached(succs, succs[b])
<1>1. \A S \in SUBSET D : Reached(succs, S) = Hull(succs, S)
  BY Reaching
<1>2. DOMAIN succs = D
  OBVIOUS
<1>3. ASSUME NEW S \in SUBSET D
      PROVE  S \subseteq Hull(succs, S) /\ Hull(succs, S) \in SUBSET D
  BY <1>2 DEF Hull
<1>4. ASSUME NEW S \in SUBSET D, NEW c \in Hull(succs, S)
      PROVE  c \in D /\ Hull(succs, {c}) \subseteq Hull(succs, S)
  BY <1>2 DEF Hull
<1>5. ASSUME NEW b \in D
      PROVE  Hull(succs, {b}) \subseteq {b} \cup Hull(succs, succs[b])
  <2> DEFINE T == {b} \cup Hull(succs, succs[b])
  <2>1. succs[b] \in SUBSET D
    OBVIOUS
  <2>2. T \in SUBSET D /\ {b} \subseteq T
    BY <1>3, <2>1
  <2>3. ASSUME NEW d \in Hull(succs, succs[b]) PROVE succs[d] \subseteq Hull(succs, succs[b])
    BY <1>2, <2>1, <2>3 DEF Hull, Closed
  <2>4. Closed(succs, T)
    BY <1>3, <2>1, <2>3 DEF Closed
  <2> HIDE DEF T
  <2>5. Hull(succs, {b}) \subseteq T
    BY <1>2, <2>2, <2>4 DEF Hull
  <2> QED BY <2>5 DEF T
<1> QED BY <1>1, <1>3, <1>4, <1>5

\* A cycle is the same from each of its blocks, and one of two lies on it.
LEMMA Cycles ==
  ASSUME NEW D, IsFiniteSet(D), NEW succs \in [D -> SUBSET D], NEW b \in D
  PROVE  /\ b \in Cycle(succs, b) /\ Cycle(succs, b) \in SUBSET D
         /\ \A c \in Cycle(succs, b) : Cycle(succs, c) = Cycle(succs, b)
         /\ \A c, d \in Cycle(succs, b) : c # d => c \in Reached(succs, succs[c])
<1> DEFINE R(c) == Reached(succs, {c})
<1>1. \A c \in D : c \in R(c) /\ R(c) \in SUBSET D /\ succs[c] \in SUBSET D
  BY Paths
<1>2. ASSUME NEW c \in D, NEW d \in R(c) PROVE R(d) \subseteq R(c)
  <2>1. {c} \in SUBSET D
    OBVIOUS
  <2> QED BY <2>1, Paths
<1>3. Cycle(succs, b) = {c \in R(b) : b \in R(c)}
  BY DEF Cycle
<1>4. \A c \in D : Cycle(succs, c) = {d \in R(c) : c \in R(d)}
  BY DEF Cycle
<1>5. \A c \in D : R(c) \subseteq {c} \cup Reached(succs, succs[c])
  BY Paths
<1>6. \A c, d \in D : d \in Reached(succs, succs[c]) => R(d) \subseteq Reached(succs, succs[c])
  BY <1>1, Paths
<1> HIDE DEF R
<1>7. ASSUME NEW c \in Cycle(succs, b) PROVE Cycle(succs, c) = Cycle(succs, b)
  BY <1>1, <1>2, <1>3, <1>4
<1>8. ASSUME NEW c \in Cycle(succs, b), NEW d \in Cycle(succs, b), c # d
      PROVE  c \in Reached(succs, succs[c])
  <2>1. c \in D /\ d \in D /\ d \in R(c) /\ c \in R(d)
    BY <1>1, <1>2, <1>3
  <2> QED BY <1>5, <1>6, <1>8, <2>1
<1> QED BY <1>1, <1>3, <1>7, <1>8

-----------------------------------------------------------------------------
(* Copies of blocks are new, each its own.                                 *)

LEMMA TwoOfThem ==
  ASSUME NEW S, IsFiniteSet(S)
  PROVE  Cardinality(S) > 1 <=> \E x, y \in S : x # y
<1>1. Cardinality(S) \in Nat /\ (Cardinality(S) = 0 <=> S = {})
      /\ (Cardinality(S) = 1 <=> \E x : S = {x})
  BY FS_CardinalityType, FS_EmptySet, FS_Singleton
<1>2. Cardinality(S) > 1 <=> ~ (S = {} \/ \E x : S = {x})
  BY <1>1
<1> QED BY <1>2

New(scc) == {CopyOf(scc)[b] : b \in scc}

\* The numbers of copies are new, and no two copies have the same.
LEMMA Copies ==
  ASSUME IsFiniteSet(Blocks), Blocks \subseteq 1..Cardinality(Blocks),
         NEW scc \in SUBSET Blocks
  PROVE  /\ IsFiniteSet(Blocks \cup New(scc)) /\ New(scc) \cap Blocks = {}
         /\ Blocks \cup New(scc) \subseteq 1..Cardinality(Blocks \cup New(scc))
         /\ \A b, c \in scc : CopyOf(scc)[b] = CopyOf(scc)[c] => b = c
         /\ DOMAIN CopyOf(scc) = scc
<1>1. PICK copy, new, D : copy = CopyOf(scc) /\ new = New(scc) /\ D = Blocks
  OBVIOUS
<1>2. /\ copy = [b \in scc |-> Cardinality(D) + Cardinality({c \in scc : c <= b})]
      /\ new = {copy[b] : b \in scc}
  BY <1>1 DEF New, CopyOf
<1>3. IsFiniteSet(D) /\ D \subseteq 1..Cardinality(D) /\ scc \in SUBSET D
  BY <1>1
<1> DEFINE Below(b) == {c \in scc : c <= b}
<1>4. PICK n \in Nat : n = Cardinality(D)
  BY <1>3, FS_CardinalityType
<1>5. IsFiniteSet(scc)
  BY <1>3, FS_Subset
<1>6. PICK k \in Nat : k = Cardinality(scc)
  BY <1>5, FS_CardinalityType
<1>7. \A b \in scc : b \in Nat
  BY <1>4, <1>3
<1>8. ASSUME NEW b \in scc
      PROVE  IsFiniteSet(Below(b)) /\ Cardinality(Below(b)) \in 1..k
  <2>1. Below(b) \in SUBSET scc /\ b \in Below(b)
    BY <1>7
  <2>2. IsFiniteSet(Below(b)) /\ Cardinality(Below(b)) <= k
    BY <1>5, <1>6, <2>1, FS_Subset
  <2>3. Cardinality(Below(b)) \in Nat /\ Cardinality(Below(b)) # 0
    BY <2>1, <2>2, FS_CardinalityType, FS_EmptySet
  <2> QED BY <2>2, <2>3
<1>9. ASSUME NEW b \in scc, NEW c \in scc, b # c
      PROVE  Cardinality(Below(b)) # Cardinality(Below(c))
  <2>1. ASSUME NEW x \in scc, NEW y \in scc, x < y
        PROVE  Cardinality(Below(x)) # Cardinality(Below(y))
    <3>1. Below(x) \in SUBSET Below(y) /\ y \in Below(y) /\ y \notin Below(x)
      BY <1>7, <2>1
    <3> HIDE DEF Below
    <3> QED BY <1>8, <2>1, <3>1, FS_Subset
  <2>2. b < c \/ c < b
    BY <1>7, <1>9
  <2> HIDE DEF Below
  <2> QED BY <2>1, <2>2
<1>10. DOMAIN copy = scc /\ \A b \in scc : copy[b] = n + Cardinality(Below(b))
  BY <1>4, <1>2
<1> HIDE DEF Below
<1>11. \A b \in scc : copy[b] \in n + 1 .. n + k
  BY <1>8, <1>10
<1>12. \A b, c \in scc : copy[b] = copy[c] => b = c
  BY <1>8, <1>9, <1>10
<1>13. copy \in Bijection(scc, new)
  <2>1. copy = [b \in scc |-> copy[b]]
    BY <1>2
  <2>2. copy \in [scc -> new] /\ \A y \in new : \E b \in scc : copy[b] = y
    BY <1>2, <2>1
  <2> QED BY <1>12, <2>2 DEF Bijection, Injection, Surjection, IsInjective
<1>14. IsFiniteSet(new) /\ Cardinality(new) = k
  <2>1. ExistsBijection(scc, new)
    BY <1>13 DEF ExistsBijection
  <2>2. IsFiniteSet(new) /\ Cardinality(new) = Cardinality(scc)
    BY <1>5, <2>1, FS_Bijection, Zenon
  <2> QED BY <1>6, <2>2
<1>15. new \cap D = {} /\ D \cup new \subseteq 1 .. n + k
  <2>1. \A x \in D : x \in 1..n
    BY <1>4, <1>3
  <2>2. \A x \in new : x \in n + 1 .. n + k
    BY <1>11, <1>2
  <2>3. \A x \in 1..n : x \in 1 .. n + k /\ x \notin n + 1 .. n + k
    OBVIOUS
  <2>4. \A x \in n + 1 .. n + k : x \in 1 .. n + k
    OBVIOUS
  <2> QED BY <2>1, <2>2, <2>3, <2>4
<1>16. IsFiniteSet(D \cup new) /\ Cardinality(D \cup new) = n + k
  <2>1. D \cap new = {} /\ Cardinality(D \cap new) = 0
    BY <1>15, FS_EmptySet
  <2>2. IsFiniteSet(D \cup new)
        /\ Cardinality(D \cup new) = Cardinality(D) + Cardinality(new) - Cardinality(D \cap new)
    BY <1>14, <1>3, FS_Union, Zenon
  <2>3. Cardinality(D \cup new) = n + k - 0
    BY <1>4, <1>14, <2>1, <2>2, Zenon
  <2> QED BY <2>2, <2>3
<1> QED BY <1>1, <1>10, <1>12, <1>15, <1>16

-----------------------------------------------------------------------------
(* The method being normalised is a graph of numbered blocks, each a copy  *)
(* of an original, and branches as the lifted one does.                    *)

Graph(m) ==
  /\ IsFiniteSet(DOMAIN m.succs) /\ DOMAIN m.succs \subseteq 1..Cardinality(DOMAIN m.succs)
  /\ m.succs \in [DOMAIN m.succs -> SUBSET DOMAIN m.succs]
  /\ m.origin \in [DOMAIN m.succs -> Original]

Traces(m) ==
  \A b \in DOMAIN m.succs :
    /\ {m.origin[s] : s \in m.succs[b]} = Succs(m.origin[b])
    /\ \A s, t \in m.succs[b] : m.origin[s] = m.origin[t] => s = t

\* Loops are made of blocks, and what is peeled off is a block of the loop.
LEMMA LoopsOf ==
  ASSUME Graph(norm)
  PROVE  /\ \A scc \in Loops : scc \in SUBSET Blocks
         /\ \A scc : Entries(scc) \subseteq scc
         /\ \A scc \in Loops : \A target \in Targets(scc) : target \in scc
<1>1. IsFiniteSet(Blocks) /\ norm.succs \in [Blocks -> SUBSET Blocks]
  BY DEF Graph, Blocks
<1>2. OnCycle \subseteq Blocks
  BY DEF OnCycle
<1>3. \A scc \in Loops : scc \in SUBSET Blocks
  BY <1>1, <1>2, Cycles DEF Loops
<1>4. \A scc : Entries(scc) \subseteq scc
  BY DEF Entries
<1>5. \A scc : Targets(scc) \subseteq Entries(scc)
  BY DEF Targets, Nearest
<1> QED BY <1>3, <1>4, <1>5

\* A copied loop branches as the loop does, and so does what entered it.
LEMMA PeeledTraces ==
  ASSUME Graph(norm), Traces(norm), flow \in Shapes, NEW scc \in SUBSET Blocks,
         NEW target \in scc, NEW m, m = Peeled(scc, target)
  PROVE  Graph(m) /\ Traces(m)
<1>1. PICK copy : copy = CopyOf(scc)
  OBVIOUS
<1> DEFINE new == New(scc)
           old(c) == CHOOSE b \in scc : copy[b] = c
           D == Blocks \cup new
           Retargeted(S) == IF target \in S THEN (S \ {target}) \cup {copy[target]} ELSE S
<1>2. /\ IsFiniteSet(D) /\ new \cap Blocks = {} /\ D \subseteq 1..Cardinality(D)
      /\ \A b, c \in scc : copy[b] = copy[c] => b = c
      /\ DOMAIN copy = scc
  <2>1. IsFiniteSet(Blocks) /\ Blocks \subseteq 1..Cardinality(Blocks)
    BY DEF Graph, Blocks
  <2> QED BY <1>1, <2>1, Copies
<1>3. \A b \in scc : copy[b] \in new /\ old(copy[b]) = b
  BY <1>1, <1>2 DEF New
<1>4. \A c \in new : old(c) \in scc /\ copy[old(c)] = c
  BY <1>1, <1>3 DEF New
<1>5. /\ m.succs = [b \in D |->
                      IF b \in new THEN CopiedSuccs(scc, copy, old(b))
                      ELSE IF b \in PredsOf(target) \ scc THEN Retargeted(norm.succs[b])
                      ELSE norm.succs[b]]
      /\ m.origin = [b \in D |-> IF b \in new THEN norm.origin[old(b)] ELSE norm.origin[b]]
  BY <1>1 DEF Peeled, New
<1>6. /\ \A b \in Blocks : norm.succs[b] \subseteq Blocks /\ norm.origin[b] \in Original
      /\ Blocks = DOMAIN norm.succs
  BY DEF Graph, Blocks
<1>7. \A b \in Blocks : m.origin[b] = norm.origin[b] /\ b \in D
  BY <1>2, <1>5
<1>8. ASSUME NEW b \in scc
      PROVE  m.origin[copy[b]] = norm.origin[b] /\ copy[b] \in D
  <2>1. copy[b] \in new /\ old(copy[b]) = b /\ copy[b] \in D
    BY <1>3
  <2> HIDE DEF new, old, D
  <2> QED BY <1>5, <2>1
<1>9. \A b \in Blocks : /\ Moved(copy, b) \in D
                        /\ m.origin[Moved(copy, b)] = norm.origin[b]
  BY <1>2, <1>7, <1>8 DEF Moved
<1>10. \A b \in D : m.origin[b] \in Original
  BY <1>4, <1>6, <1>7, <1>8
<1> DEFINE Same(S, b) == /\ S \subseteq D
                         /\ {m.origin[s] : s \in S} = Succs(m.origin[b])
                         /\ \A s, t \in S : m.origin[s] = m.origin[t] => s = t
<1>11. ASSUME NEW c \in new PROVE Same(m.succs[c], c)
  <2>1. PICK b \in scc : c = copy[b] /\ old(c) = b
    BY <1>4
  <2>2. m.succs[c] = {Moved(copy, s) : s \in norm.succs[b]}
    <3>1. c \in D /\ c \in new
      BY <1>11
    <3> HIDE DEF new, old, D
    <3>2. m.succs[c] = CopiedSuccs(scc, copy, b)
      BY <1>5, <2>1, <3>1
    <3> QED BY <3>2 DEF CopiedSuccs
  <2>3. /\ {norm.origin[s] : s \in norm.succs[b]} = Succs(norm.origin[b])
        /\ \A s, t \in norm.succs[b] : norm.origin[s] = norm.origin[t] => s = t
        /\ norm.succs[b] \subseteq Blocks
    BY <1>6 DEF Traces
  <2>4. m.origin[c] = norm.origin[b]
    BY <1>8, <2>1
  <2> HIDE DEF D, new, old
  <2> QED BY <1>9, <2>2, <2>3, <2>4
<1>12. ASSUME NEW b \in Blocks PROVE Same(m.succs[b], b)
  <2>1. /\ {norm.origin[s] : s \in norm.succs[b]} = Succs(norm.origin[b])
        /\ \A s, t \in norm.succs[b] : norm.origin[s] = norm.origin[t] => s = t
        /\ norm.succs[b] \subseteq Blocks
    BY <1>6 DEF Traces
  <2>2. b \notin new /\ b \in D
    BY <1>2
  <2>3. CASE m.succs[b] = norm.succs[b]
    BY <1>7, <2>1, <2>3
  <2>4. CASE m.succs[b] = (norm.succs[b] \ {target}) \cup {copy[target]} /\ target \in norm.succs[b]
    <3> HIDE DEF D, new, old
    <3>1. m.origin[copy[target]] = norm.origin[target] /\ copy[target] \in D
      BY <1>8
    <3> QED BY <1>7, <2>1, <2>4, <3>1
  <2> QED BY <1>5, <2>2, <2>3, <2>4
<1> HIDE DEF Same, new, old
<1>13. \A b \in D : Same(m.succs[b], b)
  BY <1>11, <1>12
<1>14. DOMAIN m.succs = D /\ m.succs = [b \in D |-> m.succs[b]]
       /\ m.origin = [b \in D |-> m.origin[b]]
  BY <1>5
<1> HIDE DEF D
<1>15. m.succs \in [D -> SUBSET D] /\ m.origin \in [D -> Original]
  BY <1>10, <1>13, <1>14 DEF Same
<1> QED BY <1>2, <1>13, <1>14, <1>15 DEF Same, Graph, Traces, D

-----------------------------------------------------------------------------
(* Every step keeps that, and says why loops with several entries are left *)

Ended == stage \in {"ready", "run"} /\ Cardinality(Original) <= MaxBlocks

NormInv ==
  /\ flow \in Shapes /\ stage \in {"lift", "peel", "ready", "run"}
  /\ stage # "lift" => Graph(norm) /\ Traces(norm)
  /\ stage \in {"lift", "peel"} => refusal = "none"
  /\ Ended => (refusal = "none" <=> Candidates = {})

\* Blocks branch to blocks.
LEMMA Successors ==
  ASSUME flow \in Shapes
  PROVE  \A b \in Original : Succs(b) \subseteq Original
<1>1. flow \in [Original -> Seq(Original)]
  BY LiftAssumption DEF LiftAssumption
<1>2. ASSUME NEW b \in Original, NEW i \in DOMAIN flow[b] PROVE flow[b][i] \in Original
  <2>1. flow[b] \in Seq(Original)
    BY <1>1
  <2> QED BY <2>1
<1> QED BY <1>2 DEF Succs

\* The loops to peel depend on nothing but the method.
LEMMA SameCandidates ==
  ASSUME norm' = norm
  PROVE  Candidates' = Candidates
  BY DEF Candidates, Loops, OnCycle, Cycle, Entries, PredsOf, Blocks

\* Each step of the normaliser keeps NormInv, and so does the run.
LEMMA NextNorm == NormInv /\ [Next]_vars => NormInv'
<1> SUFFICES ASSUME NormInv, [Next]_vars PROVE NormInv'
  OBVIOUS
<1>1. CASE Lift
  <2>1. flow' = flow
    BY <1>1 DEF Lift, LiftNext, Descend, Leave, AddOrphan, FirstRound, LiftBlock, SecondRound,
                PatchHoles, method
  <2>2. stage = "lift" /\ stage' = "lift" /\ refusal' = refusal
    BY <1>1 DEF Lift
  <2> QED BY <2>1, <2>2 DEF NormInv, Ended
<1>2. CASE StartPeeling
  <2>1. flow' = flow /\ refusal' = refusal
    BY <1>2 DEF StartPeeling, liftVars, method
  <2>2. stage' \in {"peel", "ready"} /\ (stage' = "ready" => Cardinality(Original) > MaxBlocks)
    BY <1>2 DEF StartPeeling
  <2>3. /\ norm'.succs = [b \in Original |-> Succs(b)]
        /\ norm'.origin = [b \in Original |-> b]
    BY <1>2 DEF StartPeeling
  <2>4. \A b \in Original : Succs(b)' = Succs(b) /\ Succs(b) \subseteq Original
    BY <2>1, Successors DEF NormInv, Succs
  <2>5. IsFiniteSet(Original) /\ Original \subseteq 1..Cardinality(Original)
    BY LiftAssumption DEF LiftAssumption
  <2>6. Graph(norm)'
    BY <2>3, <2>4, <2>5 DEF Graph
  <2>7. Traces(norm)'
    <3> SUFFICES ASSUME NEW b \in Original
                 PROVE  /\ {norm'.origin[s] : s \in norm'.succs[b]} = Succs(norm.origin[b])'
                        /\ \A s, t \in norm'.succs[b] :
                             norm'.origin[s] = norm'.origin[t] => s = t
      BY <2>3 DEF Traces, Succs
    <3>1. norm'.succs[b] = Succs(b) /\ norm'.origin[b] = b
      BY <2>3
    <3>2. \A s \in norm'.succs[b] : norm'.origin[s] = s
      BY <2>3, <2>4, <3>1
    <3>3. Succs(norm.origin[b])' = Succs(b)
      BY <2>1, <3>1 DEF Succs
    <3> QED BY <3>1, <3>2, <3>3
  <2>8. ~Ended'
    <3>1. Cardinality(Original) \in Nat /\ MaxBlocks \in Nat
      BY <2>5, FS_CardinalityType, BudgetAssumption DEF BudgetAssumption
    <3> QED BY <2>2, <3>1 DEF Ended
  <2> QED BY <1>2, <2>1, <2>2, <2>6, <2>7, <2>8 DEF NormInv, StartPeeling
<1>3. CASE Peel
  <2>1. PICK scc \in Candidates : \E target \in Targets(scc) : norm' = Peeled(scc, target)
    BY <1>3 DEF Peel
  <2>2. PICK target \in Targets(scc) : norm' = Peeled(scc, target)
    BY <2>1
  <2>3. stage = "peel" /\ stage' = "peel" /\ flow' = flow /\ refusal' = refusal
    BY <1>3 DEF Peel, liftVars, method
  <2>4. scc \in SUBSET Blocks /\ target \in scc
    BY <2>2, <2>3, LoopsOf DEF NormInv, Candidates
  <2>5. Graph(norm') /\ Traces(norm')
    BY <2>2, <2>3, <2>4, PeeledTraces DEF NormInv
  <2>6. Graph(norm)' /\ Traces(norm)'
    <3>1. Graph(norm)'
      BY <2>5 DEF Graph
    <3>2. Traces(norm)'
      BY <2>3, <2>5 DEF Traces, Succs
    <3> QED BY <3>1, <3>2
  <2> QED BY <2>3, <2>6 DEF NormInv, Ended
<1>4. CASE EndPeeling
  <2>1. norm' = norm /\ flow' = flow /\ stage = "peel" /\ stage' = "ready"
    BY <1>4 DEF EndPeeling, liftVars, method
  <2>2. Graph(norm)' /\ Traces(norm)'
    <3>1. Graph(norm)' = Graph(norm) /\ Traces(norm)' = Traces(norm)
      BY <2>1 DEF Graph, Traces, Succs
    <3> QED BY <2>1, <3>1 DEF NormInv
  <2>3. Candidates = {} => refusal' = "none"
    BY <1>4 DEF EndPeeling
  <2>4. Candidates # {} => refusal' # "none"
    BY <1>4 DEF EndPeeling, Eligible
  <2> QED BY <2>1, <2>2, <2>3, <2>4, SameCandidates DEF NormInv
<1>5. CASE Start \/ Step \/ UNCHANGED vars
  <2>1. norm' = norm /\ flow' = flow /\ refusal' = refusal
    BY <1>5 DEF Start, Step, vars, liftVars, method
  <2>2. \/ stage' = stage
        \/ stage = "ready" /\ stage' = "run"
    BY <1>5 DEF Start, Step, vars
  <2>3. Graph(norm)' = Graph(norm) /\ Traces(norm)' = Traces(norm)
    BY <2>1 DEF Graph, Traces, Succs
  <2> QED BY <2>1, <2>2, <2>3, SameCandidates DEF NormInv, Ended
<1> QED BY <1>1, <1>2, <1>3, <1>4, <1>5 DEF Next

\* The method being normalised is always such a graph.
LEMMA NormInvariance == Spec => []NormInv
<1>1. Init => NormInv
  BY DEF Init, LiftInit, NormInv, Ended
<1> QED BY <1>1, NextNorm, PTL DEF Spec

\* The normalised method branches as the lifted one does: copies of loops, and
\* what enters them, lead to one copy of every block the original leads to.
THEOREM TracesAreTheSame == Spec => []SameTraces
<1>1. NormInv => SameTraces
  BY DEF NormInv, SameTraces, Traces, Blocks
<1> QED BY <1>1, NormInvariance, PTL

\* When no reason is given for leaving a loop alone, no loop is entered at two
\* blocks; and a reason is given only when one is.
THEOREM LoopsHaveOneEntry == Spec => []SingleEntries
<1>1. ASSUME NormInv, stage = "run", Cardinality(Original) <= MaxBlocks
      PROVE  refusal = "none" <=>
               \A b \in OnCycle : \A c \in Cycle(norm.succs, b) :
                 /\ b = Entry \/ PredsOf(b) \ Cycle(norm.succs, b) # {}
                 /\ c = Entry \/ PredsOf(c) \ Cycle(norm.succs, c) # {}
                 => b = c
  <2> DEFINE C(b) == Cycle(norm.succs, b)
             E(b) == b = Entry \/ PredsOf(b) \ C(b) # {}
  <2>1. IsFiniteSet(Blocks) /\ norm.succs \in [Blocks -> SUBSET Blocks]
    BY <1>1 DEF NormInv, Graph, Blocks
  <2>2. refusal = "none" <=> Candidates = {}
    BY <1>1 DEF NormInv, Ended
  <2>3. \A b \in Blocks : /\ b \in C(b) /\ C(b) \in SUBSET Blocks
                          /\ \A c \in C(b) : C(c) = C(b)
                          /\ \A c, d \in C(b) : c # d => c \in Reached(norm.succs, norm.succs[c])
    BY <2>1, Cycles
  <2>4. ASSUME NEW b \in Blocks
        PROVE  /\ \A c \in C(b) : c \in Entries(C(b)) <=> E(c)
               /\ IsFiniteSet(Entries(C(b))) /\ Entries(C(b)) \subseteq C(b)
    <3>1. Entries(C(b)) \subseteq C(b)
      BY DEF Entries
    <3>2. IsFiniteSet(Entries(C(b)))
      BY <2>1, <2>3, <3>1, FS_Subset
    <3>3. ASSUME NEW c \in C(b) PROVE c \in Entries(C(b)) <=> E(c)
      <4>1. C(c) = C(b)
        BY <2>3
      <4> HIDE DEF C
      <4> QED BY <4>1 DEF Entries
    <3> QED BY <3>1, <3>2, <3>3
  <2>5. OnCycle = {b \in Blocks : b \in Reached(norm.succs, norm.succs[b])}
        /\ Loops = {C(b) : b \in OnCycle}
    BY DEF OnCycle, Loops
  <2> HIDE DEF C, E
  <2>6. ASSUME Candidates = {}, NEW b \in OnCycle, NEW c \in C(b), E(b), E(c), b # c
        PROVE  FALSE
    <3>1. b \in Entries(C(b)) /\ c \in Entries(C(b))
      BY <2>3, <2>4, <2>5, <2>6
    <3>2. Cardinality(Entries(C(b))) > 1
      BY <2>4, <2>5, <2>6, <3>1, TwoOfThem
    <3> QED BY <2>5, <2>6, <3>2 DEF Candidates
  <2>7. ASSUME Candidates # {}
        PROVE  \E b \in OnCycle : \E c \in C(b) : E(b) /\ E(c) /\ b # c
    <3>1. PICK x \in OnCycle : Cardinality(Entries(C(x))) > 1
      BY <2>5, <2>7 DEF Candidates
    <3>2. x \in Blocks
      BY <2>5
    <3>3. PICK b, c \in Entries(C(x)) : b # c
      BY <2>4, <3>1, <3>2, TwoOfThem
    <3>4. b \in C(x) /\ c \in C(x) /\ E(b) /\ E(c)
      BY <2>4, <3>2, <3>3
    <3>5. b \in Blocks /\ b \in OnCycle /\ C(b) = C(x)
      BY <2>3, <2>5, <3>2, <3>3, <3>4
    <3> QED BY <3>3, <3>4, <3>5
  <2> QED BY <2>2, <2>6, <2>7 DEF C, E
<1>2. NormInv => SingleEntries
  BY <1>1 DEF SingleEntries
<1> QED BY <1>2, NormInvariance, PTL

-----------------------------------------------------------------------------
(* The order of the lifter: every block once, the first one first, and     *)
(* each block reached behind one of the blocks that branch to it.          *)

Ordered == {order[i] : i \in DOMAIN order}

OnStack == {stack[i][1] : i \in DOMAIN stack}

\* Block a comes before block b in the order o.
Before(o, a, b) ==
  \E i, j \in DOMAIN o : i < j /\ o[i] = a /\ o[j] = b

\* What the search keeps is made of blocks.
SearchType ==
  /\ flow \in [Original -> Seq(Original)]
  /\ stack \in Seq(Original \X (Nat \ {0})) /\ visited \in SUBSET Original
  /\ order \in Seq(Original)

\* No block is in order twice, or twice on the stack, or in both.
Distinct ==
  /\ \A i, j \in DOMAIN order : order[i] = order[j] => i = j
  /\ \A i, j \in DOMAIN stack : stack[i][1] = stack[j][1] => i = j
  /\ OnStack \cap Ordered = {}

\* Visited blocks have been left or are on the stack, above the first one.
Visits ==
  /\ Entry \in visited /\ OnStack \subseteq visited /\ visited \subseteq OnStack \cup Ordered
  /\ stack # <<>> => stack[1][1] = Entry /\ Ordered \subseteq visited
  /\ stack = <<>> => order # <<>> /\ order[1] = Entry

\* The successors looked at have been visited.
Looked ==
  /\ \A i \in DOMAIN stack : \A k \in DOMAIN flow[stack[i][1]] :
       k < stack[i][2] => flow[stack[i][1]][k] \in visited
  /\ \A b \in Ordered \cap visited : Succs(b) \subseteq visited

\* What a block was visited from is below it, and is left after it.
From ==
  /\ \A i \in DOMAIN stack : i > 1 => stack[i][1] \in Succs(stack[i - 1][1])
  /\ \A b \in (Ordered \cap visited) \ {Entry} :
       \E p \in Preds(b) : p \in OnStack \/ Before(order, p, b)

\* Once the rounds begin, every block is in the order.
SearchInv ==
  /\ SearchType /\ Distinct /\ Visits /\ Looked /\ From
  /\ round \in 0..3
  /\ round # 0 => stack = <<>> /\ Ordered = Original

\* Where the elements of a sequence are behind a new first one.
LEMMA Prepended ==
  ASSUME NEW S, NEW s \in Seq(S), NEW b \in S, NEW o, o = <<b>> \o s
  PROVE  /\ o \in Seq(S) /\ o[1] = b /\ Len(o) = Len(s) + 1
         /\ DOMAIN s = 1 .. Len(s) /\ DOMAIN o = 1 .. Len(s) + 1
         /\ \A i \in DOMAIN s : o[i + 1] = s[i]
  OBVIOUS

\* Where they are before a new last one.
LEMMA Appended ==
  ASSUME NEW S, NEW s \in Seq(S), NEW b \in S, NEW o, o = Append(s, b)
  PROVE  /\ o \in Seq(S) /\ o[Len(s) + 1] = b /\ Len(o) = Len(s) + 1
         /\ DOMAIN s = 1 .. Len(s) /\ DOMAIN o = 1 .. Len(s) + 1
         /\ \A i \in DOMAIN s : o[i] = s[i]
  OBVIOUS

\* A block that is put first is before all others, which keep their order.
LEMMA PutFirst ==
  ASSUME order \in Seq(Original), NEW b \in Original, order' = <<b>> \o order
  PROVE  /\ Ordered' = Ordered \cup {b} /\ order' \in Seq(Original)
         /\ order' # <<>> /\ order'[1] = b
         /\ \A x, y : Before(order, x, y) => Before(order', x, y)
         /\ \A y \in Ordered : Before(order', b, y)
         /\ b \notin Ordered /\ (\A i, j \in DOMAIN order : order[i] = order[j] => i = j)
              => \A i, j \in DOMAIN order' : order'[i] = order'[j] => i = j
<1> DEFINE n == Len(order)
<1>1. /\ order' \in Seq(Original) /\ order'[1] = b /\ n \in Nat
      /\ DOMAIN order = 1..n /\ DOMAIN order' = 1 .. n + 1
      /\ \A i \in 1..n : order'[i + 1] = order[i]
  BY Prepended
<1> HIDE DEF n
<1>2. \A j \in 1 .. n + 1 : j = 1 \/ (j - 1 \in 1..n /\ order'[j] = order[j - 1])
  BY <1>1
<1>3. \A i \in 1..n : i + 1 \in 1 .. n + 1
  BY <1>1
<1>4. Ordered' = Ordered \cup {b}
  <2>1. Ordered' \subseteq Ordered \cup {b}
    BY <1>1, <1>2 DEF Ordered
  <2>2. 1 \in 1 .. n + 1
    BY <1>1
  <2>3. b \in Ordered' /\ Ordered \subseteq Ordered'
    BY <1>1, <1>3, <2>2 DEF Ordered
  <2> QED BY <2>1, <2>3
<1>5. ASSUME NEW x, NEW y, Before(order, x, y) PROVE Before(order', x, y)
  <2>1. PICK i, j \in 1..n : i < j /\ order[i] = x /\ order[j] = y
    BY <1>1, <1>5 DEF Before
  <2>2. i + 1 \in DOMAIN order' /\ j + 1 \in DOMAIN order' /\ i + 1 < j + 1
    BY <1>1, <2>1
  <2> QED BY <1>1, <2>1, <2>2 DEF Before
<1>6. ASSUME NEW y \in Ordered PROVE Before(order', b, y)
  <2>1. PICK j \in 1..n : order[j] = y
    BY <1>1 DEF Ordered
  <2>2. 1 \in DOMAIN order' /\ j + 1 \in DOMAIN order' /\ 1 < j + 1
    BY <1>1
  <2> QED BY <1>1, <2>1, <2>2 DEF Before
<1>7. ASSUME b \notin Ordered, \A i, j \in DOMAIN order : order[i] = order[j] => i = j,
             NEW i \in DOMAIN order', NEW j \in DOMAIN order', order'[i] = order'[j]
      PROVE  i = j
  <2>1. \A k \in 1..n : order[k] # b
    BY <1>1, <1>7 DEF Ordered
  <2>2. i = 1 <=> j = 1
    BY <1>1, <1>2, <1>7, <2>1
  <2> QED BY <1>1, <1>2, <1>7, <2>2
<1>8. order' # <<>>
  BY <1>1
<1> QED BY <1>1, <1>4, <1>5, <1>6, <1>7, <1>8

\* A block that is put last is behind all others.
LEMMA PutLast ==
  ASSUME order \in Seq(Original), NEW b \in Original, order' = Append(order, b)
  PROVE  /\ Ordered' = Ordered \cup {b} /\ order' \in Seq(Original)
         /\ order # <<>> => order' # <<>> /\ order'[1] = order[1]
         /\ \A x, y : Before(order, x, y) => Before(order', x, y)
         /\ b \notin Ordered /\ (\A i, j \in DOMAIN order : order[i] = order[j] => i = j)
              => \A i, j \in DOMAIN order' : order'[i] = order'[j] => i = j
<1> DEFINE n == Len(order)
<1>1. /\ order' \in Seq(Original) /\ order'[n + 1] = b /\ n \in Nat
      /\ DOMAIN order = 1..n /\ DOMAIN order' = 1 .. n + 1
      /\ \A i \in 1..n : order'[i] = order[i]
  BY Appended
<1> HIDE DEF n
<1>2. \A j \in 1 .. n + 1 : j \in 1..n \/ j = n + 1
  BY <1>1
<1>3. \A i \in 1..n : i \in 1 .. n + 1
  BY <1>1
<1>4. Ordered' = Ordered \cup {b}
  <2>1. n + 1 \in 1 .. n + 1
    BY <1>1
  <2> QED BY <1>1, <1>2, <1>3, <2>1 DEF Ordered
<1>5. ASSUME NEW x, NEW y, Before(order, x, y) PROVE Before(order', x, y)
  <2>1. PICK i, j \in 1..n : i < j /\ order[i] = x /\ order[j] = y
    BY <1>1, <1>5 DEF Before
  <2> QED BY <1>1, <1>3, <2>1 DEF Before
<1>6. ASSUME order # <<>> PROVE order' # <<>> /\ order'[1] = order[1]
  <2>1. 1 \in 1..n
    BY <1>6 DEF n
  <2> QED BY <1>1, <2>1
<1>7. ASSUME b \notin Ordered, \A i, j \in DOMAIN order : order[i] = order[j] => i = j,
             NEW i \in DOMAIN order', NEW j \in DOMAIN order', order'[i] = order'[j]
      PROVE  i = j
  <2>1. \A k \in 1..n : order[k] # b
    BY <1>1, <1>7 DEF Ordered
  <2> QED BY <1>1, <1>2, <1>7, <2>1
<1> QED BY <1>1, <1>4, <1>5, <1>6, <1>7

\* The search looks at one more successor, and visits it if it is new.
LEMMA DescendSearch == SearchInv /\ Descend => SearchInv'
<1> SUFFICES ASSUME SearchInv, Descend PROVE SearchInv'
  OBVIOUS
<1> DEFINE n == Len(stack)
           b == Top[1]
           k == Top[2]
           s == flow[b][k]
           on == [stack EXCEPT ![n] = <<b, k + 1>>]
<1>1. /\ flow' = flow /\ round' = round /\ order' = order /\ position' = position
      /\ round = 0 /\ stack # <<>> /\ k <= Len(flow[b])
      /\ stack' = IF s \in visited THEN on ELSE Append(on, <<s, 1>>)
      /\ visited' = visited \cup {s}
  BY DEF Descend, method
<1>2. /\ flow \in [Original -> Seq(Original)]
      /\ stack \in Seq(Original \X (Nat \ {0})) /\ visited \in SUBSET Original
      /\ order \in Seq(Original)
  BY DEF SearchInv, SearchType
<1>3. n \in Nat \ {0} /\ DOMAIN stack = 1..n /\ n \in 1..n /\ Top = stack[n]
  BY <1>1, <1>2 DEF Top
<1>4. b \in Original /\ k \in Nat \ {0} /\ stack[n] = <<b, k>>
  BY <1>2, <1>3
<1>5. k \in DOMAIN flow[b] /\ s \in Original /\ s \in Succs(b)
  <2>1. flow[b] \in Seq(Original)
    BY <1>2, <1>4
  <2>2. k \in 1 .. Len(flow[b]) /\ DOMAIN flow[b] = 1 .. Len(flow[b])
    BY <1>1, <1>4, <2>1
  <2> QED BY <2>1, <2>2 DEF Succs
<1>6. /\ on \in Seq(Original \X (Nat \ {0})) /\ Len(on) = n /\ DOMAIN on = 1..n
      /\ on[n] = <<b, k + 1>> /\ \A i \in 1..n : i # n => on[i] = stack[i]
  <2>1. <<b, k + 1>> \in Original \X (Nat \ {0})
    BY <1>4
  <2> QED BY <1>2, <1>3, <2>1
<1> HIDE DEF n, s, on
<1>7. \A i \in 1..n : on[i][1] = stack[i][1]
  BY <1>4, <1>6
<1>8. CASE s \in visited
  <2>1. stack' = on /\ visited' = visited
    BY <1>1, <1>8
  <2>2. DOMAIN stack' = 1..n /\ \A i \in 1..n : stack'[i][1] = stack[i][1]
    BY <1>6, <1>7, <2>1
  <2>3. OnStack' = OnStack /\ Ordered' = Ordered /\ order' = order
    BY <1>1, <1>3, <2>2 DEF OnStack, Ordered, Before
  <2>4. SearchType'
    BY <1>1, <1>2, <1>6, <2>1 DEF SearchType
  <2>5. Distinct'
    BY <1>1, <1>3, <2>2, <2>3 DEF SearchInv, Distinct
  <2>6. Visits'
    <3>1. 1 \in 1..n /\ stack' # <<>>
      BY <1>3, <1>6, <2>1
    <3> QED BY <1>1, <2>1, <2>2, <2>3, <3>1 DEF SearchInv, Visits
  <2>7. Looked'
    <3>1. ASSUME NEW i \in 1..n, NEW l \in DOMAIN flow[stack[i][1]], l < on[i][2]
          PROVE  flow[stack[i][1]][l] \in visited
      <4>1. CASE i # n
        BY <1>3, <1>6, <3>1, <4>1 DEF SearchInv, Looked
      <4>2. CASE i = n
        <5>1. l \in Nat
          <6>1. flow[b] \in Seq(Original) /\ stack[i][1] = b
            BY <1>2, <1>4, <4>2
          <6> QED BY <3>1, <6>1
        <5>2. stack[i][1] = b /\ stack[i][2] = k /\ on[i][2] = k + 1
          BY <1>4, <1>6, <4>2
        <5>3. l < k \/ l = k
          BY <1>4, <3>1, <5>1, <5>2
        <5> QED BY <1>3, <1>8, <3>1, <5>2, <5>3 DEF SearchInv, Looked, s
      <4> QED BY <4>1, <4>2
    <3>2. \A x \in Ordered \cap visited : Succs(x) \subseteq visited
      BY DEF SearchInv, Looked
    <3>3. \A x \in (Ordered \cap visited)' : Succs(x) \subseteq visited'
      BY <1>1, <2>1, <2>3, <3>2
    <3>4. \A i \in DOMAIN stack' : \A l \in DOMAIN flow'[stack'[i][1]] :
            l < stack'[i][2] => flow'[stack'[i][1]][l] \in visited'
      BY <1>1, <2>1, <2>2, <3>1
    <3> QED BY <1>1, <3>3, <3>4 DEF Looked, Succs
  <2>8. From'
    <3>1. \A x : Succs(x)' = Succs(x) /\ Preds(x)' = Preds(x)
      BY <1>1 DEF Succs, Preds
    <3>2. \A i \in 1..n : i > 1 => i - 1 \in 1..n
      BY <1>3
    <3> QED BY <1>3, <2>1, <2>2, <2>3, <3>1, <3>2 DEF SearchInv, From
  <2> QED BY <1>1, <2>4, <2>5, <2>6, <2>7, <2>8 DEF SearchInv
<1>9. CASE s \notin visited
  <2>1. stack' = Append(on, <<s, 1>>)
    BY <1>1, <1>9
  <2>2. <<s, 1>> \in Original \X (Nat \ {0})
    BY <1>5
  <2>3. /\ stack' \in Seq(Original \X (Nat \ {0})) /\ DOMAIN stack' = 1 .. n + 1
        /\ stack'[n + 1] = <<s, 1>> /\ \A i \in 1..n : stack'[i] = on[i]
    BY <1>6, <2>1, <2>2, Appended
  <2>4. \A i \in 1 .. n + 1 : i \in 1..n \/ i = n + 1
    BY <1>3
  <2>5. 1..n \subseteq 1 .. n + 1 /\ n + 1 \in 1 .. n + 1 /\ n + 1 \notin 1..n
    BY <1>3
  <2>6. \A i \in 1..n : stack'[i][1] = stack[i][1]
    BY <1>7, <2>3
  <2>7. OnStack' = OnStack \cup {s} /\ Ordered' = Ordered
        /\ order' = order
    <3>1. OnStack = {stack[i][1] : i \in 1..n}
          /\ OnStack' = {stack'[i][1] : i \in 1 .. n + 1} /\ stack'[n + 1][1] = s
      BY <1>3, <2>3 DEF OnStack
    <3>2. OnStack' \subseteq OnStack \cup {s}
      BY <2>4, <2>6, <3>1
    <3>3. OnStack \subseteq OnStack' /\ s \in OnStack'
      BY <2>5, <2>6, <3>1
    <3> QED BY <1>1, <3>2, <3>3 DEF Ordered, Before
  <2>8. SearchType'
    BY <1>1, <1>2, <1>5, <2>3 DEF SearchType
  <2>9. s \notin Ordered /\ s \notin OnStack
    <3>1. OnStack \subseteq visited
      BY DEF SearchInv, Visits
    <3>2. Ordered \subseteq visited
      BY <1>1 DEF SearchInv, Visits
    <3> QED BY <1>9, <3>1, <3>2
  <2>10. Distinct'
    <3>1. \A i \in 1..n : stack[i][1] # s
      BY <1>3, <2>9 DEF OnStack
    <3>2. \A i, j \in 1..n : stack[i][1] = stack[j][1] => i = j
      BY <1>3 DEF SearchInv, Distinct
    <3>3. \A i, j \in 1 .. n + 1 : stack'[i][1] = stack'[j][1] => i = j
      BY <2>3, <2>4, <2>6, <3>1, <3>2
    <3>4. OnStack \cap Ordered = {} /\ \A i, j \in DOMAIN order : order[i] = order[j] => i = j
      BY DEF SearchInv, Distinct
    <3> QED BY <1>1, <2>3, <2>7, <2>9, <3>3, <3>4 DEF Distinct
  <2>11. Visits'
    <3>1. 1 \in 1..n /\ stack' # <<>>
      BY <1>3, <2>3, <2>5
    <3> QED BY <1>1, <2>6, <2>7, <3>1 DEF SearchInv, Visits
  <2>12. Looked'
    <3>1. ASSUME NEW i \in 1..n, NEW l \in DOMAIN flow[stack[i][1]], l < on[i][2]
          PROVE  flow[stack[i][1]][l] \in visited'
      <4>1. CASE i # n
        BY <1>1, <1>3, <1>6, <3>1, <4>1 DEF SearchInv, Looked
      <4>2. CASE i = n
        <5>1. l \in Nat
          <6>1. flow[b] \in Seq(Original) /\ stack[i][1] = b
            BY <1>2, <1>4, <4>2
          <6> QED BY <3>1, <6>1
        <5>2. stack[i][1] = b /\ stack[i][2] = k /\ on[i][2] = k + 1
          BY <1>4, <1>6, <4>2
        <5>3. l < k \/ l = k
          BY <1>4, <3>1, <5>1, <5>2
        <5> QED BY <1>1, <1>3, <3>1, <5>2, <5>3 DEF SearchInv, Looked, s
      <4> QED BY <4>1, <4>2
    <3>2. \A x \in Ordered \cap visited : Succs(x) \subseteq visited'
      BY <1>1 DEF SearchInv, Looked
    <3>3. ASSUME NEW l \in DOMAIN flow[s] PROVE ~ l < 1
      <4>1. flow[s] \in Seq(Original)
        BY <1>2, <1>5
      <4> QED BY <3>3, <4>1
    <3>4. \A x \in Ordered : x # s
      BY <2>9
    <3>5. \A x \in (Ordered \cap visited)' : Succs(x) \subseteq visited'
      <4>1. (Ordered \cap visited)' \subseteq Ordered \cap visited
        BY <1>1, <2>7, <3>4
      <4> QED BY <1>1, <3>2, <4>1
    <3>6. ASSUME NEW i \in 1 .. n + 1, NEW l \in DOMAIN flow[stack'[i][1]], l < stack'[i][2]
          PROVE  flow[stack'[i][1]][l] \in visited'
      <4>1. CASE i \in 1..n
        BY <2>3, <2>6, <3>1, <3>6, <4>1
      <4>2. CASE i = n + 1
        BY <2>3, <3>3, <3>6, <4>2
      <4> QED BY <2>4, <4>1, <4>2
    <3>7. \A i \in DOMAIN stack' : \A l \in DOMAIN flow[stack'[i][1]] :
            l < stack'[i][2] => flow[stack'[i][1]][l] \in visited'
      BY <2>3, <3>6
    <3> QED BY <1>1, <3>5, <3>7 DEF Looked, Succs
  <2>13. From'
    <3>1. \A x : Succs(x)' = Succs(x) /\ Preds(x)' = Preds(x)
      BY <1>1 DEF Succs, Preds
    <3>2. \A i \in 1 .. n : i > 1 => i - 1 \in 1..n
      BY <1>3
    <3>3. s \in Succs(stack[n][1]) /\ n + 1 - 1 = n
      BY <1>3, <1>4, <1>5
    <3>4. \A i \in 1..n : i > 1 => stack[i][1] \in Succs(stack[i - 1][1])
      BY <1>3 DEF SearchInv, From
    <3>5. \A i \in 1 .. n + 1 : i > 1 => stack'[i][1] \in Succs(stack'[i - 1][1])
      BY <1>3, <2>3, <2>4, <2>6, <3>2, <3>3, <3>4
    <3>6. \A x \in (Ordered \cap visited) \ {Entry} :
            \E p \in Preds(x) : p \in OnStack \/ Before(order, p, x)
      BY DEF SearchInv, From
    <3>7. (Ordered \cap visited)' = Ordered \cap visited
      BY <1>1, <2>7, <2>9
    <3> QED BY <2>3, <2>7, <3>1, <3>5, <3>6, <3>7 DEF From
  <2> QED BY <1>1, <2>8, <2>10, <2>11, <2>12, <2>13 DEF SearchInv
<1> QED BY <1>8, <1>9

\* It leaves a block, whose successors have all been visited.
LEMMA LeaveSearch == SearchInv /\ Leave => SearchInv'
<1> SUFFICES ASSUME SearchInv, Leave PROVE SearchInv'
  OBVIOUS
<1> DEFINE n == Len(stack)
           b == stack[n][1]
<1>1. /\ flow' = flow /\ round' = round /\ visited' = visited /\ position' = position
      /\ round = 0 /\ stack # <<>> /\ stack[n][2] > Len(flow[b])
      /\ order' = <<b>> \o order
      /\ stack' = SubSeq(stack, 1, n - 1)
  BY DEF Leave, method, Top
<1>2. /\ flow \in [Original -> Seq(Original)]
      /\ stack \in Seq(Original \X (Nat \ {0})) /\ visited \in SUBSET Original
      /\ order \in Seq(Original)
  BY DEF SearchInv, SearchType
<1>3. /\ n \in Nat \ {0} /\ DOMAIN stack = 1..n /\ n \in 1..n
      /\ stack' \in Seq(Original \X (Nat \ {0})) /\ DOMAIN stack' = 1 .. n - 1
      /\ Len(stack') = n - 1 /\ \A i \in 1 .. n - 1 : stack'[i] = stack[i]
  <2>1. n \in Nat \ {0} /\ DOMAIN stack = 1..n /\ n \in 1..n
    BY <1>1, <1>2
  <2>2. stack' \in Seq(Original \X (Nat \ {0})) /\ Len(stack') = n - 1
    BY <1>1, <1>2, <2>1
  <2>3. \A i \in 1 .. n - 1 : stack'[i] = stack[i]
    BY <1>1, <1>2, <2>1
  <2>4. DOMAIN stack' = 1 .. n - 1
    BY <2>1, <2>2
  <2> QED BY <2>1, <2>2, <2>3, <2>4
<1>4. b \in Original /\ stack[n][2] \in Nat
  BY <1>2, <1>3
<1> HIDE DEF n
<1>5. \A i \in 1 .. n - 1 : i \in 1..n /\ i # n
  BY <1>3
<1>6. \A i \in 1..n : i \in 1 .. n - 1 \/ i = n
  BY <1>3
<1>a. stack[n][1] = b
  OBVIOUS
<1> HIDE DEF b
<1>7. b \in OnStack /\ b \notin Ordered
  BY <1>3, <1>a DEF SearchInv, Distinct, OnStack
<1>8. /\ Ordered' = Ordered \cup {b} /\ order' \in Seq(Original)
      /\ order' # <<>> /\ order'[1] = b
      /\ \A x, y : Before(order, x, y) => Before(order', x, y)
      /\ \A y \in Ordered : Before(order', b, y)
      /\ \A i, j \in DOMAIN order' : order'[i] = order'[j] => i = j
  <2>1. \A i, j \in DOMAIN order : order[i] = order[j] => i = j
    BY DEF SearchInv, Distinct
  <2> QED BY <1>1, <1>2, <1>4, <1>7, <2>1, PutFirst
<1>9. \A i, j \in 1..n : stack[i][1] = stack[j][1] => i = j
  BY <1>3 DEF SearchInv, Distinct
<1>10. OnStack' = OnStack \ {b}
  <2>1. OnStack = {stack[i][1] : i \in 1..n} /\ OnStack' = {stack'[i][1] : i \in 1 .. n - 1}
    BY <1>3 DEF OnStack
  <2>2. OnStack' \subseteq OnStack \ {b}
    BY <1>3, <1>a, <1>5, <1>9, <2>1
  <2>3. OnStack \subseteq OnStack' \cup {b}
    BY <1>3, <1>a, <1>6, <2>1
  <2> QED BY <2>2, <2>3
<1>11. SearchType'
  BY <1>1, <1>2, <1>3, <1>8 DEF SearchType
<1>12. Distinct'
  <2>1. \A i, j \in DOMAIN stack' : stack'[i][1] = stack'[j][1] => i = j
    BY <1>3, <1>5, <1>9
  <2>2. OnStack' \cap Ordered' = {}
    BY <1>8, <1>10 DEF SearchInv, Distinct
  <2> QED BY <1>8, <2>1, <2>2 DEF Distinct
<1>13. Visits'
  <2>1. /\ Entry \in visited /\ OnStack \subseteq visited /\ visited \subseteq OnStack \cup Ordered
        /\ stack[1][1] = Entry /\ Ordered \subseteq visited
    BY <1>1 DEF SearchInv, Visits
  <2>2. ASSUME n # 1 PROVE stack'[1][1] = Entry
    <3>1. 1 \in 1 .. n - 1
      BY <1>3, <2>2
    <3> QED BY <1>3, <2>1, <3>1
  <2>3. n = 1 => b = Entry
    BY <1>a, <2>1
  <2>4. (stack' = <<>>) <=> n = 1
    BY <1>3
  <2> QED BY <1>1, <1>7, <1>8, <1>10, <2>1, <2>2, <2>3, <2>4 DEF Visits
<1>14. Looked'
  <2>1. Succs(b) \subseteq visited
    <3>1. flow[b] \in Seq(Original)
      BY <1>2, <1>4
    <3>2. \A k \in DOMAIN flow[b] : k < stack[n][2]
      BY <1>1, <1>4, <1>a, <3>1
    <3> QED BY <1>3, <1>a, <3>2 DEF Succs, SearchInv, Looked
  <2>2. \A x \in (Ordered \cap visited)' : Succs(x) \subseteq visited'
    BY <1>1, <1>8, <2>1 DEF SearchInv, Looked
  <2>3. \A i \in 1..n : \A k \in DOMAIN flow[stack[i][1]] :
          k < stack[i][2] => flow[stack[i][1]][k] \in visited
    BY <1>3 DEF SearchInv, Looked
  <2> QED BY <1>1, <1>3, <1>5, <2>2, <2>3 DEF Looked, Succs
<1>15. From'
  <2>1. \A x : Succs(x)' = Succs(x) /\ Preds(x)' = Preds(x)
    BY <1>1 DEF Succs, Preds
  <2>a. \A i \in 1..n : i > 1 => i - 1 \in 1..n
    BY <1>3
  <2>b. \A i \in 1..n : i > 1 => stack[i][1] \in Succs(stack[i - 1][1])
    BY <1>3 DEF SearchInv, From
  <2>2. \A i \in 1..n : i > 1 => stack[i][1] \in Succs(stack[i - 1][1]) /\ i - 1 \in 1..n
    BY <2>a, <2>b
  <2>3. \A i \in 1 .. n - 1 : i > 1 => i - 1 \in 1 .. n - 1
    BY <1>3
  <2>4. ASSUME NEW i \in 1 .. n - 1, i > 1 PROVE stack'[i][1] \in Succs(stack'[i - 1][1])
    <3>1. stack'[i] = stack[i] /\ stack'[i - 1] = stack[i - 1]
      BY <1>3, <2>3, <2>4
    <3> QED BY <1>5, <2>2, <2>4, <3>1
  <2>5. ASSUME NEW x \in (Ordered \cap visited) \ {Entry}
        PROVE  \E p \in Preds(x) : p \in OnStack' \/ Before(order', p, x)
    <3>1. PICK p \in Preds(x) : p \in OnStack \/ Before(order, p, x)
      BY DEF SearchInv, From
    <3>2. CASE p # b
      BY <1>8, <1>10, <3>1, <3>2
    <3>3. CASE p = b
      BY <1>8, <2>5, <3>1, <3>3
    <3> QED BY <3>2, <3>3
  <2>6. ASSUME b # Entry PROVE \E p \in Preds(b) : p \in OnStack'
    <3>1. n # 1 /\ n - 1 \in 1 .. n - 1 /\ n > 1
      BY <1>1, <1>3, <1>a, <2>6 DEF SearchInv, Visits
    <3>2. b \in Succs(stack[n - 1][1]) /\ n - 1 \in 1..n
      BY <1>3, <1>a, <2>2, <3>1
    <3>3. stack[n - 1][1] \in Original
      BY <1>2, <1>3, <3>2
    <3>4. stack[n - 1][1] \in OnStack'
      BY <1>3, <3>1 DEF OnStack
    <3> QED BY <3>2, <3>3, <3>4 DEF Preds
  <2>7. (Ordered \cap visited)' \subseteq (Ordered \cap visited) \cup {b}
    BY <1>1, <1>8
  <2>8. ASSUME NEW x \in Original, x \in (Ordered \cap visited)', x # Entry
        PROVE  \E p \in Preds(x) : p \in OnStack' \/ Before(order', p, x)
    BY <2>5, <2>6, <2>7, <2>8
  <2>9. (Ordered \cap visited)' \subseteq Original
    BY <1>1, <1>2
  <2>10. \A i \in DOMAIN stack' : i > 1 => stack'[i][1] \in Succs(stack'[i - 1][1])
    BY <1>3, <2>4
  <2>11. \A x \in (Ordered \cap visited)' \ {Entry} :
           \E p \in Preds(x) : p \in OnStack' \/ Before(order', p, x)
    BY <2>8, <2>9
  <2> QED BY <1>1, <2>10, <2>11 DEF From, Succs, Preds
<1> QED BY <1>1, <1>11, <1>12, <1>13, <1>14, <1>15 DEF SearchInv

\* It adds a block that it has not reached.
LEMMA AddOrphanSearch == SearchInv /\ AddOrphan => SearchInv'
<1> SUFFICES ASSUME SearchInv, AddOrphan PROVE SearchInv'
  OBVIOUS
<1>1. /\ flow' = flow /\ round' = round /\ visited' = visited /\ stack' = stack
      /\ round = 0 /\ stack = <<>>
  BY DEF AddOrphan, method
<1>2. PICK b \in Unordered : order' = Append(order, b)
  BY DEF AddOrphan
<1>3. b \in Original /\ b \notin Ordered /\ order \in Seq(Original) /\ order # <<>>
      /\ order[1] = Entry
  BY <1>1, <1>2 DEF Unordered, Ordered, SearchInv, SearchType, Visits
<1>4. /\ Ordered' = Ordered \cup {b} /\ order' \in Seq(Original)
      /\ order' # <<>> /\ order'[1] = Entry
      /\ \A x, y : Before(order, x, y) => Before(order', x, y)
      /\ \A i, j \in DOMAIN order' : order'[i] = order'[j] => i = j
  BY <1>2, <1>3, PutLast DEF SearchInv, Distinct
<1>5. OnStack = {} /\ OnStack' = {} /\ DOMAIN stack = {}
  BY <1>1 DEF OnStack
<1>6. b \notin visited
  BY <1>3, <1>5 DEF SearchInv, Visits
<1>7. (Ordered \cap visited)' = Ordered \cap visited
  BY <1>1, <1>4, <1>6
<1>8. \A x : Succs(x)' = Succs(x) /\ Preds(x)' = Preds(x)
  BY <1>1 DEF Succs, Preds
<1>9. SearchType'
  BY <1>1, <1>4 DEF SearchInv, SearchType
<1>10. Distinct'
  BY <1>1, <1>4, <1>5 DEF SearchInv, Distinct
<1>11. Visits'
  BY <1>1, <1>4, <1>5 DEF SearchInv, Visits
<1>12. Looked'
  BY <1>1, <1>5, <1>7, <1>8 DEF SearchInv, Looked
<1>13. From'
  <2>1. \A x \in (Ordered \cap visited) \ {Entry} : \E p \in Preds(x) : Before(order, p, x)
    BY <1>5 DEF SearchInv, From
  <2> QED BY <1>1, <1>4, <1>5, <1>7, <1>8, <2>1 DEF From
<1> QED BY <1>1, <1>9, <1>10, <1>11, <1>12, <1>13 DEF SearchInv

\* Every step of the lifter keeps what is known of the order.
LEMMA SearchStep == SearchInv /\ LiftNext => SearchInv'
<1> SUFFICES ASSUME SearchInv, LiftNext PROVE SearchInv'
  OBVIOUS
<1>1. CASE Descend
  BY <1>1, DescendSearch
<1>2. CASE Leave
  BY <1>2, LeaveSearch
<1>3. CASE AddOrphan
  BY <1>3, AddOrphanSearch
<1>4. CASE FirstRound \/ LiftBlock \/ SecondRound \/ PatchHoles
  <2>1. /\ flow' = flow /\ stack' = stack /\ visited' = visited /\ order' = order
        /\ round' \in 0..3
    BY <1>4 DEF FirstRound, LiftBlock, SecondRound, PatchHoles, method, search, SearchInv
  <2>2. round # 0 => round' # 0
    BY <1>4 DEF FirstRound, LiftBlock, SecondRound, PatchHoles
  <2>3. round = 0 /\ round' # 0 => stack = <<>> /\ Unordered = {}
    BY <1>4 DEF FirstRound, LiftBlock, SecondRound, PatchHoles
  <2>4. Unordered = {} => Ordered = Original
    BY DEF Unordered, Ordered, SearchInv, SearchType
  <2>5. Ordered' = Ordered /\ OnStack' = OnStack
    BY <2>1 DEF Ordered, OnStack
  <2>6. /\ SearchType' = SearchType /\ Distinct' = Distinct /\ Visits' = Visits
        /\ Looked' = Looked /\ From' = From
    BY <2>1 DEF SearchType, Distinct, Visits, Looked, From, Ordered, OnStack, Before, Succs, Preds
  <2> QED BY <2>1, <2>2, <2>3, <2>4, <2>5, <2>6 DEF SearchInv
<1> QED BY <1>1, <1>2, <1>3, <1>4 DEF LiftNext

\* The search begins with the first block alone.
LEMMA SearchInit == LiftInit => SearchInv
<1> SUFFICES ASSUME LiftInit PROVE SearchInv
  OBVIOUS
<1>1. /\ flow \in [Original -> Seq(Original)] /\ Entry \in Original /\ round = 0
      /\ stack = <<<<Entry, 1>>>> /\ visited = {Entry} /\ order = <<>>
  BY LiftAssumption DEF LiftInit, LiftAssumption
<1>2. DOMAIN stack = {1} /\ DOMAIN order = {} /\ stack[1] = <<Entry, 1>>
      /\ stack \in Seq(Original \X (Nat \ {0})) /\ order \in Seq(Original)
  BY <1>1
<1>3. OnStack = {Entry} /\ Ordered = {}
  BY <1>2 DEF OnStack, Ordered
<1>4. SearchType
  BY <1>1, <1>2 DEF SearchType
<1>5. Distinct
  BY <1>2, <1>3 DEF Distinct
<1>6. Visits
  BY <1>1, <1>2, <1>3 DEF Visits
<1>7. Looked
  <2>1. flow[Entry] \in Seq(Original)
    BY <1>1
  <2>2. \A k \in DOMAIN flow[Entry] : ~ k < 1
    BY <2>1
  <2> QED BY <1>2, <1>3, <2>2 DEF Looked
<1>8. From
  BY <1>2, <1>3 DEF From
<1> QED BY <1>1, <1>4, <1>5, <1>6, <1>7, <1>8 DEF SearchInv

-----------------------------------------------------------------------------
(* The rounds                                                              *)

Operands == (Kinds \X Original) \cup {None, Hole}

\* The blocks this round has lifted.
Done == {order[i] : i \in 1 .. position - 1}

\* A block defines the register where it writes, has a phi or is given it.
Defines ==
  /\ DOMAIN blockDefs \subseteq Done \cup (IF isParam THEN {Entry} ELSE {})
  /\ \A b \in DOMAIN blockDefs : blockDefs[b] \in Kinds \X {b}
  /\ isParam => Entry \in DOMAIN blockDefs
  /\ \A b \in Done \cap writes : b \in DOMAIN blockDefs /\ blockDefs[b] = <<"def", b>>
  /\ \A b \in DOMAIN blockDefs :
       \/ b \in writes
       \/ b \in DOMAIN phi /\ blockDefs[b] = <<"phi", b>>
       \/ b = Entry /\ isParam /\ blockDefs[b] = Argument

\* Why a block defines the register once all of f do.
Grounded(f) ==
  \A b \in DOMAIN f :
    \/ b \in writes
    \/ b = Entry /\ isParam
    \/ /\ b # Entry /\ \E p, q \in Preds(b) : p # q
       /\ \A p \in Preds(b) : p \in DOMAIN f /\ Before(order, p, b)

\* Operands are what the predecessors leave; in the second round, a hole only
\* where the first round found that the predecessor defines the register.
Phis ==
  /\ DOMAIN phi \subseteq (Done \ {Entry}) \cap DOMAIN blockDefs
  /\ \A b \in DOMAIN phi :
       /\ \E p, q \in Preds(b) : p # q
       /\ DOMAIN phi[b] = Preds(b)
       /\ \A p \in Preds(b) :
            \/ p \in DOMAIN blockDefs /\ phi[b][p] = blockDefs[p]
            \/ round = 2 /\ p \in DOMAIN snapshot /\ phi[b][p] = Hole

\* Whoever defined the register in the first round does again.
Snapshots ==
  /\ round = 1 => snapshot = Empty /\ Grounded(blockDefs)
  /\ round # 1 => Grounded(snapshot) /\ DOMAIN snapshot \cap Done \subseteq DOMAIN blockDefs

\* A block behind a single predecessor reads what that one leaves.
Reads ==
  /\ regValue \in Operands
  /\ DOMAIN reads = Done /\ \A b \in Done : reads[b] \in Operands
  /\ \A b \in Done \ {Entry} : \A p \in DOMAIN blockDefs :
       Preds(b) = {p} /\ Before(order, p, b) => reads[b] = blockDefs[p]

\* In a round, or after the last one.
RoundInv ==
  /\ position \in 1 .. Len(order) + 1
  /\ round = 3 => position = Len(order) + 1
  /\ Defines /\ Phis /\ Snapshots /\ Reads

\* Nothing is lifted yet.
Fresh ==
  /\ position = 1 /\ phi = Empty /\ reads = Empty
  /\ regValue = IF isParam THEN Argument ELSE None
  /\ blockDefs = IF isParam THEN [b \in {Entry} |-> Argument] ELSE Empty

\* The lifter, searching, in a round or done.
LiftInv ==
  /\ SearchInv
  /\ writes \in SUBSET Original /\ isParam \in BOOLEAN
  /\ round = 0 => Fresh /\ snapshot = Empty
  /\ round # 0 => RoundInv

Numbered == Original \subseteq Nat /\ Entry \in Original /\ IsFiniteSet(Original)

\* Blocks are numbers.
LEMMA Numbers == Numbered
<1>1. Cardinality(Original) \in Nat
  BY LiftAssumption, FS_CardinalityType DEF LiftAssumption
<1>2. \A b \in 1 .. Cardinality(Original) : b \in Nat
  BY <1>1
<1> QED BY <1>2, LiftAssumption DEF LiftAssumption, Numbered

\* Where a round is: the next block has not been lifted, those before it have.
LEMMA Positions ==
  ASSUME SearchInv, round # 0, position \in 1 .. Len(order)
  PROVE  /\ order[position] \in Original /\ order[position] \notin Done
         /\ Done \subseteq Original
         /\ order[position] # Entry => Entry \in Done
         /\ order[position] = Entry => Done = {}
         /\ \A b \in Done : Before(order, b, order[position])
         /\ \A a, b : Before(order, a, b) /\ b \in Done \cup {order[position]} => a \in Done
         /\ position + 1 \in 1 .. Len(order) + 1
         /\ \A q : q = position + 1 => {order[i] : i \in 1 .. q - 1} = Done \cup {order[position]}
<1>1. /\ order \in Seq(Original) /\ DOMAIN order = 1 .. Len(order) /\ Len(order) \in Nat
      /\ \A i, j \in DOMAIN order : order[i] = order[j] => i = j
      /\ order[1] = Entry
  BY DEF SearchInv, SearchType, Distinct, Visits
<1>2. \A i \in 1 .. Len(order) : order[i] \in Original
  BY <1>1
<1>3. position \in Nat \ {0} /\ position - 1 \in Nat
  BY <1>1
<1>4. \A i \in 1 .. position - 1 : i \in 1 .. Len(order) /\ i < position
  BY <1>1
<1>5. \A i \in 1 .. Len(order) : i < position => i \in 1 .. position - 1
  BY <1>1
<1>6. order[position] \notin Done /\ Done \subseteq Original
  BY <1>1, <1>2, <1>4 DEF Done
<1>7. order[position] # Entry => Entry \in Done
  <2>1. order[position] # Entry => 1 \in 1 .. position - 1
    BY <1>1, <1>3
  <2> QED BY <1>1, <2>1 DEF Done
<1>8. ASSUME order[position] = Entry PROVE Done = {}
  <2>1. 1 \in 1 .. Len(order)
    BY <1>1
  <2>2. position = 1
    BY <1>1, <1>8, <2>1
  <2> QED BY <2>2 DEF Done
<1>9. \A b \in Done : Before(order, b, order[position])
  BY <1>1, <1>4 DEF Done, Before
<1>10. ASSUME NEW a, NEW b, Before(order, a, b), b \in Done \cup {order[position]}
       PROVE  a \in Done
  <2>1. PICK i, j \in 1 .. Len(order) : i < j /\ order[i] = a /\ order[j] = b
    BY <1>1, <1>10 DEF Before
  <2>2. PICK k \in 1 .. position : order[k] = b /\ k \in 1 .. Len(order)
    BY <1>3, <1>4, <1>10 DEF Done
  <2>3. j = k
    BY <1>1, <2>1, <2>2
  <2>4. i < position
    BY <1>3, <2>1, <2>2, <2>3
  <2> QED BY <1>5, <2>1, <2>4 DEF Done
<1>11. position + 1 \in 1 .. Len(order) + 1
  BY <1>1
<1>12. {order[i] : i \in 1 .. (position + 1) - 1} = Done \cup {order[position]}
  <2>1. \A i : i \in 1 .. (position + 1) - 1 <=> i \in 1 .. position - 1 \/ i = position
    BY <1>3
  <2> QED BY <2>1 DEF Done
<1> QED BY <1>2, <1>6, <1>7, <1>8, <1>9, <1>10, <1>11, <1>12

\* What the merge at the next block makes of what its predecessors leave.
LEMMA Merging ==
  ASSUME LiftInv, round \in {1, 2}, position \in 1 .. Len(order), NEW c, c = order[position]
  PROVE  /\ Merged(c) \in Operands
         /\ NeedsPhi(c) =>
              /\ c # Entry /\ (\E p, q \in Preds(c) : p # q)
              /\ DOMAIN Phi(c) = Preds(c)
              /\ \A p \in Preds(c) :
                   \/ p \in DOMAIN blockDefs /\ Phi(c)[p] = blockDefs[p]
                   \/ round = 2 /\ p \in DOMAIN snapshot /\ Phi(c)[p] = Hole
         /\ \A p \in DOMAIN blockDefs :
              c # Entry /\ Preds(c) = {p} => Merged(c) = blockDefs[p]
         /\ c # Entry /\ (\E p, q \in Preds(c) : p # q)
              /\ Preds(c) \subseteq DOMAIN blockDefs => NeedsPhi(c)
<1> DEFINE I(p) == Incoming(p)
           O == Offered(c)
<1>1. \A p : I(p) = IF p \in DOMAIN blockDefs THEN {blockDefs[p]}
                    ELSE IF p \in DOMAIN snapshot THEN {Hole} ELSE {}
  BY DEF Incoming
<1>2. Preds(c) \subseteq Original /\ IsFiniteSet(Preds(c))
  BY Numbers, FS_Subset DEF Preds, Numbered
<1>3. /\ \A b \in DOMAIN blockDefs : b \in Original /\ blockDefs[b] \in Kinds \X {b}
      /\ regValue \in Operands /\ c \in Original
      /\ round = 1 => DOMAIN snapshot = {}
  <2>1. Defines /\ Snapshots /\ Reads
    BY DEF LiftInv, RoundInv
  <2>2. Done \subseteq Original /\ c \in Original
    BY Positions DEF LiftInv
  <2>3. DOMAIN Empty = {}
    BY DEF Empty
  <2> QED BY <2>1, <2>2, <2>3, Numbers DEF Defines, Reads, Snapshots, Numbered
<1>4. O = UNION {I(p) : p \in Preds(c)}
  BY DEF Offered
<1> HIDE DEF I
<1>5. IsFiniteSet(O)
  <2>1. IsFiniteSet({I(p) : p \in Preds(c)})
    <3> DEFINE G == {I(p) : p \in Preds(c)}
               f == [p \in Preds(c) |-> I(p)]
    <3>1. f \in Surjection(Preds(c), G)
      BY DEF Surjection
    <3> HIDE DEF f, G
    <3>2. IsFiniteSet(G)
      BY <1>2, <3>1, FS_Surjection
    <3> QED BY <3>2 DEF G
  <2>2. \A x \in {I(p) : p \in Preds(c)} : IsFiniteSet(x)
    <3>1. ASSUME NEW p \in Preds(c) PROVE IsFiniteSet(I(p))
      <4>1. I(p) = {} \/ \E v : I(p) = {v}
        BY <1>1
      <4>2. CASE I(p) = {}
        BY <4>2, FS_EmptySet
      <4>3. ASSUME NEW v, I(p) = {v} PROVE IsFiniteSet(I(p))
        <5>1. IsFiniteSet({v})
          BY FS_Singleton
        <5> QED BY <4>3, <5>1
      <4> QED BY <4>1, <4>2, <4>3
    <3> QED BY <3>1
  <2> QED BY <1>4, <2>1, <2>2, FS_UNION
<1> HIDE DEF O
<1>6. \A v \in O : v \in Operands
  <2>1. \A p : \A v \in I(p) : v \in Operands
    BY <1>1, <1>3 DEF Operands
  <2> QED BY <1>4, <2>1
<1>7. NeedsPhi(c) <=> Joins(c) /\ \E v, w \in O : v # w
  BY <1>5, TwoOfThem DEF NeedsPhi, O
<1>8. Joins(c) <=> c # Entry /\ Preds(c) # {} /\ \A p \in Preds(c) : I(p) # {}
  BY DEF Joins, I
<1>9. Merged(c) \in Operands
  <2>1. Joins(c) => O # {}
    BY <1>4, <1>8
  <2>2. Joins(c) => (CHOOSE v \in O : TRUE) \in O
    BY <2>1
  <2>3. <<"phi", c>> \in Operands
    BY <1>3 DEF Operands, Kinds
  <2> QED BY <1>3, <1>6, <2>2, <2>3 DEF Merged, O
<1>10. ASSUME NeedsPhi(c)
       PROVE  /\ c # Entry /\ (\E p, q \in Preds(c) : p # q)
              /\ DOMAIN Phi(c) = Preds(c)
              /\ \A p \in Preds(c) :
                   \/ p \in DOMAIN blockDefs /\ Phi(c)[p] = blockDefs[p]
                   \/ round = 2 /\ p \in DOMAIN snapshot /\ Phi(c)[p] = Hole
  <2>1. PICK v, w \in O : v # w
    BY <1>7, <1>10
  <2>2. PICK p, q \in Preds(c) : v \in I(p) /\ w \in I(q)
    BY <1>4, <2>1
  <2>3. p # q
    BY <1>1, <2>1, <2>2
  <2>4. {p_1 \in Preds(c) : I(p_1) # {}} = Preds(c)
    BY <1>7, <1>8, <1>10
  <2>5. Phi(c) = [p_1 \in {q_1 \in Preds(c) : I(q_1) # {}} |-> CHOOSE v_1 \in I(p_1) : TRUE]
    BY DEF Phi, I
  <2>6. DOMAIN Phi(c) = Preds(c) /\ \A p_1 \in Preds(c) : Phi(c)[p_1] \in I(p_1)
    BY <1>7, <1>8, <1>10, <2>4, <2>5
  <2> QED BY <1>1, <1>3, <1>7, <1>8, <1>10, <2>3, <2>6
<1>11. ASSUME NEW p \in DOMAIN blockDefs, c # Entry, Preds(c) = {p}
       PROVE  Merged(c) = blockDefs[p]
  <2>1. O = {blockDefs[p]}
    BY <1>1, <1>4, <1>11
  <2>2. Joins(c) /\ ~ NeedsPhi(c)
    BY <1>1, <1>7, <1>8, <1>11, <2>1
  <2>3. (CHOOSE v \in O : TRUE) = blockDefs[p]
    BY <2>1
  <2> QED BY <2>2, <2>3 DEF Merged, O
<1>12. ASSUME c # Entry, \E p, q \in Preds(c) : p # q, Preds(c) \subseteq DOMAIN blockDefs
       PROVE  NeedsPhi(c)
  <2>1. PICK p, q \in Preds(c) : p # q
    BY <1>12
  <2>2. blockDefs[p] \in O /\ blockDefs[q] \in O
    BY <1>1, <1>4, <1>12
  <2>3. blockDefs[p] # blockDefs[q]
    BY <1>3, <1>12, <2>1
  <2> QED BY <1>1, <1>7, <1>8, <1>12, <2>2, <2>3
<1> QED BY <1>9, <1>10, <1>11, <1>12

\* Lifting a block keeps what is known of the round.
LEMMA LiftBlockRound ==
  ASSUME LiftInv, LiftBlock
  PROVE  RoundInv' /\ writes' = writes /\ isParam' = isParam /\ round' = round /\ round # 0
<1> DEFINE c == order[position]
<1>1. /\ flow' = flow /\ writes' = writes /\ isParam' = isParam /\ round' = round
      /\ order' = order /\ snapshot' = snapshot /\ position' = position + 1
      /\ round \in {1, 2} /\ position <= Len(order)
      /\ phi' = IF NeedsPhi(c) THEN Put(phi, c, Phi(c)) ELSE phi
      /\ reads' = Put(reads, c, Merged(c))
      /\ regValue' = IF c \in writes THEN <<"def", c>> ELSE Merged(c)
      /\ blockDefs' = IF c \in writes THEN Put(blockDefs, c, <<"def", c>>)
                      ELSE IF NeedsPhi(c) THEN Put(blockDefs, c, <<"phi", c>>)
                      ELSE blockDefs
  BY DEF LiftBlock, method, search
<1>2. /\ SearchInv /\ Defines /\ Phis /\ Snapshots /\ Reads
      /\ position \in 1 .. Len(order) /\ Len(order) \in Nat
      /\ writes \in SUBSET Original /\ isParam \in BOOLEAN
  BY <1>1 DEF LiftInv, RoundInv, SearchInv, SearchType
<1>3. /\ c \in Original /\ c \notin Done /\ Done \subseteq Original
      /\ c # Entry => Entry \in Done
      /\ c = Entry => Done = {}
      /\ \A b \in Done : Before(order, b, c)
      /\ \A a, b : Before(order, a, b) /\ b \in Done \cup {c} => a \in Done
      /\ position' \in 1 .. Len(order) + 1
      /\ Done' = Done \cup {c}
  <2>1. \A q : q = position + 1 => {order[i] : i \in 1 .. q - 1} = Done \cup {c}
    BY <1>1, <1>2, Positions
  <2>2. Done' = {order[i] : i \in 1 .. position' - 1}
    BY <1>1 DEF Done
  <2>3. Done' = Done \cup {c}
    BY <1>1, <2>1, <2>2
  <2> QED BY <1>1, <1>2, <2>3, Positions
<1>4. /\ Merged(c) \in Operands
      /\ NeedsPhi(c) =>
           /\ c # Entry /\ (\E p, q \in Preds(c) : p # q)
           /\ DOMAIN Phi(c) = Preds(c)
           /\ \A p \in Preds(c) :
                \/ p \in DOMAIN blockDefs /\ Phi(c)[p] = blockDefs[p]
                \/ round = 2 /\ p \in DOMAIN snapshot /\ Phi(c)[p] = Hole
      /\ \A p \in DOMAIN blockDefs :
           c # Entry /\ Preds(c) = {p} => Merged(c) = blockDefs[p]
      /\ c # Entry /\ (\E p, q \in Preds(c) : p # q)
           /\ Preds(c) \subseteq DOMAIN blockDefs => NeedsPhi(c)
  <2>1. PICK d : d = order[position]
    OBVIOUS
  <2> QED BY <1>1, <1>2, <2>1, Merging
<1> HIDE DEF c
<1>5. /\ \A b \in DOMAIN phi : b \in DOMAIN phi' /\ phi'[b] = phi[b]
      /\ DOMAIN phi' = IF NeedsPhi(c) THEN DOMAIN phi \cup {c} ELSE DOMAIN phi
      /\ NeedsPhi(c) => phi'[c] = Phi(c)
  <2>1. c \notin DOMAIN phi
    BY <1>2, <1>3 DEF Phis
  <2> QED BY <1>1, <2>1 DEF Put
<1>6. /\ DOMAIN blockDefs' = IF c \in writes \/ NeedsPhi(c) THEN DOMAIN blockDefs \cup {c}
                             ELSE DOMAIN blockDefs
      /\ \A b \in DOMAIN blockDefs : b # c => blockDefs'[b] = blockDefs[b]
      /\ c \in writes => blockDefs'[c] = <<"def", c>>
      /\ c \notin writes /\ NeedsPhi(c) => blockDefs'[c] = <<"phi", c>>
      /\ c \notin writes /\ ~ NeedsPhi(c) => blockDefs' = blockDefs
  BY <1>1 DEF Put
<1>7. /\ DOMAIN reads' = DOMAIN reads \cup {c} /\ reads'[c] = Merged(c)
      /\ \A b \in DOMAIN reads : b # c => reads'[b] = reads[b]
  BY <1>1 DEF Put
<1>8. /\ DOMAIN blockDefs \subseteq Done \cup (IF isParam THEN {Entry} ELSE {})
      /\ c # Entry => DOMAIN blockDefs \subseteq Done
      /\ c = Entry => DOMAIN phi = {}
      /\ ~ NeedsPhi(c) \/ c \notin DOMAIN blockDefs
  BY <1>2, <1>3, <1>4 DEF Defines, Phis
<1>9. Defines'
  <2>1. DOMAIN blockDefs' \subseteq Done' \cup (IF isParam THEN {Entry} ELSE {})
    BY <1>2, <1>3, <1>6 DEF Defines
  <2>2. \A b \in DOMAIN blockDefs' : blockDefs'[b] \in Kinds \X {b}
    <3>1. <<"def", c>> \in Kinds \X {c} /\ <<"phi", c>> \in Kinds \X {c}
      BY DEF Kinds
    <3>2. \A b \in DOMAIN blockDefs : blockDefs[b] \in Kinds \X {b}
      BY <1>2 DEF Defines
    <3> QED BY <1>6, <3>1, <3>2
  <2>3. isParam => Entry \in DOMAIN blockDefs'
    BY <1>2, <1>6 DEF Defines
  <2>4. \A b \in Done' \cap writes : b \in DOMAIN blockDefs' /\ blockDefs'[b] = <<"def", b>>
    BY <1>2, <1>3, <1>6 DEF Defines
  <2>5. \A b \in DOMAIN blockDefs' :
          \/ b \in writes
          \/ b \in DOMAIN phi' /\ blockDefs'[b] = <<"phi", b>>
          \/ b = Entry /\ isParam /\ blockDefs'[b] = Argument
    <3>1. CASE NeedsPhi(c) \/ c \in writes
      BY <1>2, <1>5, <1>6, <3>1 DEF Defines
    <3>2. CASE ~ NeedsPhi(c) /\ c \notin writes
      BY <1>2, <1>5, <1>6, <3>2 DEF Defines
    <3> QED BY <3>1, <3>2
  <2> QED BY <1>1, <2>1, <2>2, <2>3, <2>4, <2>5 DEF Defines, Argument
<1>10. Phis'
  <2>1. DOMAIN phi' \subseteq (Done' \ {Entry}) \cap DOMAIN blockDefs'
    BY <1>2, <1>3, <1>4, <1>5, <1>6 DEF Phis
  <2>2. ASSUME NEW b \in DOMAIN phi
        PROVE  /\ \E p, q \in Preds(b) : p # q
               /\ DOMAIN phi'[b] = Preds(b)
               /\ \A p \in Preds(b) :
                    \/ p \in DOMAIN blockDefs' /\ phi'[b][p] = blockDefs'[p]
                    \/ round = 2 /\ p \in DOMAIN snapshot /\ phi'[b][p] = Hole
    <3>1. c # Entry /\ DOMAIN blockDefs \subseteq Done
      BY <1>8
    <3>2. \A p \in DOMAIN blockDefs : p \in DOMAIN blockDefs' /\ blockDefs'[p] = blockDefs[p]
      BY <1>3, <1>6, <3>1
    <3> QED BY <1>2, <1>5, <3>2 DEF Phis
  <2>3. ASSUME NeedsPhi(c)
        PROVE  /\ \E p, q \in Preds(c) : p # q
               /\ DOMAIN phi'[c] = Preds(c)
               /\ \A p \in Preds(c) :
                    \/ p \in DOMAIN blockDefs' /\ phi'[c][p] = blockDefs'[p]
                    \/ round = 2 /\ p \in DOMAIN snapshot /\ phi'[c][p] = Hole
    <3>1. \A p \in DOMAIN blockDefs : p \in DOMAIN blockDefs' /\ blockDefs'[p] = blockDefs[p]
      BY <1>6, <1>8, <2>3
    <3> QED BY <1>4, <1>5, <2>3, <3>1
  <2>4. \A b \in DOMAIN phi' :
          /\ \E p, q \in Preds(b) : p # q
          /\ DOMAIN phi'[b] = Preds(b)
          /\ \A p \in Preds(b) :
               \/ p \in DOMAIN blockDefs' /\ phi'[b][p] = blockDefs'[p]
               \/ round = 2 /\ p \in DOMAIN snapshot /\ phi'[b][p] = Hole
    BY <1>5, <2>2, <2>3
  <2> QED BY <1>1, <2>1, <2>4 DEF Phis, Preds, Succs
<1>11. Snapshots'
  <2>1. ASSUME round = 1
        PROVE  snapshot = Empty /\ Grounded(blockDefs')
    <3>1. snapshot = Empty /\ Grounded(blockDefs) /\ DOMAIN snapshot = {}
      BY <1>2, <2>1 DEF Snapshots, Empty
    <3>2. ASSUME NEW b \in DOMAIN blockDefs
          PROVE  \/ b \in writes
                 \/ b = Entry /\ isParam
                 \/ /\ b # Entry /\ \E p, q \in Preds(b) : p # q
                    /\ \A p \in Preds(b) : p \in DOMAIN blockDefs' /\ Before(order, p, b)
      BY <1>6, <3>1 DEF Grounded
    <3>3. ASSUME NeedsPhi(c)
          PROVE  /\ c # Entry /\ \E p, q \in Preds(c) : p # q
                 /\ \A p \in Preds(c) : p \in DOMAIN blockDefs' /\ Before(order, p, c)
      BY <1>3, <1>4, <1>6, <1>8, <3>1, <3>3
    <3>4. \A b \in DOMAIN blockDefs' : b \in DOMAIN blockDefs \/ b \in writes \/ (b = c /\ NeedsPhi(c))
      BY <1>6
    <3> QED BY <3>1, <3>2, <3>3, <3>4 DEF Grounded
  <2>2. ASSUME round # 1
        PROVE  Grounded(snapshot) /\ DOMAIN snapshot \cap Done' \subseteq DOMAIN blockDefs'
    <3>1. Grounded(snapshot) /\ DOMAIN snapshot \cap Done \subseteq DOMAIN blockDefs
      BY <1>2, <2>2 DEF Snapshots
    <3>2. ASSUME c \in DOMAIN snapshot PROVE c \in DOMAIN blockDefs'
      <4>1. CASE c \in writes
        BY <1>6, <4>1
      <4>2. CASE c = Entry /\ isParam
        BY <1>2, <1>6, <4>2 DEF Defines
      <4>3. CASE /\ c # Entry /\ \E p, q \in Preds(c) : p # q
                 /\ \A p \in Preds(c) : p \in DOMAIN snapshot /\ Before(order, p, c)
        <5>1. Preds(c) \subseteq DOMAIN blockDefs
          BY <1>3, <3>1, <4>3
        <5> QED BY <1>4, <1>6, <4>3, <5>1
      <4> QED BY <3>1, <3>2, <4>1, <4>2, <4>3 DEF Grounded
    <3> QED BY <1>3, <1>6, <3>1, <3>2
  <2> QED BY <1>1, <2>1, <2>2 DEF Snapshots, Grounded, Preds, Succs
<1>12. Reads'
  <2>1. regValue' \in Operands
    BY <1>1, <1>3, <1>4 DEF Operands, Kinds
  <2>2. DOMAIN reads' = Done' /\ \A b \in Done' : reads'[b] \in Operands
    BY <1>2, <1>3, <1>4, <1>7 DEF Reads
  <2>3. ASSUME NEW b \in Done' \ {Entry}, NEW p \in DOMAIN blockDefs', Preds(b) = {p},
               Before(order, p, b)
        PROVE  reads'[b] = blockDefs'[p]
    <3>1. p \in Done /\ p # c
      BY <1>3, <2>3
    <3>2. p \in DOMAIN blockDefs /\ blockDefs'[p] = blockDefs[p]
      BY <1>6, <3>1
    <3>3. CASE b = c
      BY <1>4, <1>7, <2>3, <3>2, <3>3
    <3>4. CASE b # c
      <4>1. b \in Done \ {Entry} /\ b \in DOMAIN reads
        BY <1>2, <1>3, <2>3, <3>4 DEF Reads
      <4> QED BY <1>2, <1>7, <2>3, <3>2, <3>4, <4>1 DEF Reads
    <3> QED BY <3>3, <3>4
  <2>4. \A b \in Done' \ {Entry} : \A p \in DOMAIN blockDefs' :
          Preds(b) = {p} /\ Before(order, p, b) => reads'[b] = blockDefs'[p]
    BY <2>3
  <2> QED BY <1>1, <2>1, <2>2, <2>4 DEF Reads, Operands, Preds, Succs
<1>13. round' = 3 => position' = Len(order) + 1
  BY <1>1
<1> QED BY <1>1, <1>3, <1>9, <1>10, <1>11, <1>12, <1>13 DEF RoundInv

FreshDone ==
  /\ Done = {} /\ Defines /\ Phis /\ Reads /\ position \in 1 .. Len(order) + 1
  /\ Grounded(blockDefs)

\* A round begins with nothing but the parameter.
LEMMA FreshRound == SearchInv /\ Fresh => FreshDone
<1> SUFFICES ASSUME SearchInv, Fresh PROVE FreshDone
  OBVIOUS
<1>1. /\ Done = {} /\ DOMAIN Empty = {} /\ Entry \in Original /\ Argument = <<"arg", Entry>>
      /\ order \in Seq(Original)
  BY Numbers DEF Fresh, Done, Empty, Numbered, Argument, SearchInv, SearchType
<1>2. /\ DOMAIN blockDefs = (IF isParam THEN {Entry} ELSE {})
      /\ \A b \in DOMAIN blockDefs : blockDefs[b] = Argument /\ isParam /\ b = Entry
  BY <1>1 DEF Fresh
<1>3. Defines
  BY <1>1, <1>2 DEF Defines, Kinds
<1>4. Phis /\ Reads
  BY <1>1, <1>2 DEF Fresh, Phis, Reads, Operands, Kinds
<1>5. position \in 1 .. Len(order) + 1
  BY <1>1 DEF Fresh
<1> QED BY <1>1, <1>2, <1>3, <1>4, <1>5 DEF Grounded, FreshDone

\* Every step of the lifter keeps what is known of it.
LEMMA LiftStep == LiftInv /\ LiftNext => LiftInv'
<1> SUFFICES ASSUME LiftInv, LiftNext PROVE LiftInv'
  OBVIOUS
<1>1. SearchInv'
  BY SearchStep DEF LiftInv
<1>2. /\ flow' = flow /\ writes' = writes /\ isParam' = isParam
      /\ writes \in SUBSET Original /\ isParam \in BOOLEAN
  BY DEF LiftNext, Descend, Leave, AddOrphan, FirstRound, LiftBlock, SecondRound, PatchHoles,
         method, LiftInv
<1>3. CASE Descend \/ Leave \/ AddOrphan
  <2>1. /\ round = 0 /\ round' = 0 /\ position' = position /\ phi' = phi /\ reads' = reads
        /\ regValue' = regValue /\ blockDefs' = blockDefs /\ snapshot' = snapshot
    BY <1>3 DEF Descend, Leave, AddOrphan, lifted
  <2>2. Fresh' = Fresh
    BY <1>2, <2>1 DEF Fresh, Argument, Empty
  <2> QED BY <1>1, <1>2, <2>1, <2>2 DEF LiftInv, Empty
<1>4. CASE FirstRound
  <2>1. /\ round = 0 /\ round' = 1 /\ UNCHANGED <<search, position, lifted>>
    BY <1>4 DEF FirstRound
  <2>2. Fresh' /\ snapshot' = Empty
    BY <1>2, <2>1 DEF LiftInv, Fresh, Argument, Empty, lifted
  <2>3. (SearchInv /\ Fresh => FreshDone)'
    BY FreshRound, PTL
  <2>4. FreshDone'
    BY <1>1, <2>2, <2>3
  <2>5. Snapshots'
    BY <2>1, <2>2, <2>4 DEF FreshDone, Snapshots, Empty
  <2> QED BY <1>1, <1>2, <2>1, <2>4, <2>5 DEF LiftInv, RoundInv, FreshDone
<1>5. CASE LiftBlock
  <2>1. round' # 0
    BY <1>5, LiftBlockRound
  <2> QED BY <1>1, <1>2, <1>5, <2>1, LiftBlockRound DEF LiftInv
<1>6. CASE SecondRound
  <2>1. /\ round = 1 /\ round' = 2 /\ order' = order /\ snapshot' = blockDefs
    BY <1>6 DEF SecondRound, search
  <2>2. Fresh'
    BY <1>2, <1>6 DEF SecondRound, Fresh, SetUp, Argument, Empty
  <2>3. (SearchInv /\ Fresh => FreshDone)'
    BY FreshRound, PTL
  <2>4. FreshDone'
    BY <1>1, <2>2, <2>3
  <2>5. Grounded(blockDefs)
    BY <2>1 DEF LiftInv, RoundInv, Snapshots
  <2>6. Snapshots'
    BY <1>2, <2>1, <2>4, <2>5 DEF FreshDone, Snapshots, Grounded, Preds, Succs
  <2> QED BY <1>1, <1>2, <2>1, <2>4, <2>6 DEF LiftInv, RoundInv, FreshDone
<1>7. CASE PatchHoles
  <2>1. /\ round = 2 /\ round' = 3 /\ order' = order /\ snapshot' = snapshot
        /\ position' = position /\ position > Len(order) /\ regValue' = regValue
        /\ blockDefs' = blockDefs /\ reads' = reads
        /\ phi' = [b \in DOMAIN phi |->
                    [p \in DOMAIN phi[b] |-> IF phi[b][p] = Hole THEN Patched(p) ELSE phi[b][p]]]
    BY <1>7 DEF PatchHoles, search
  <2>2. /\ SearchInv /\ Defines /\ Phis /\ Snapshots /\ Reads
        /\ position \in 1 .. Len(order) + 1 /\ Len(order) \in Nat
        /\ order \in Seq(Original) /\ Ordered = Original
    BY <2>1 DEF LiftInv, RoundInv, SearchInv, SearchType
  <2>3. position = Len(order) + 1
    BY <2>1, <2>2
  <2>4. Done = Original
    <3>1. position - 1 = Len(order) /\ DOMAIN order = 1 .. Len(order)
      BY <2>2, <2>3
    <3> QED BY <2>2, <3>1 DEF Done, Ordered
  <2>5. Done' = Done
    BY <2>1 DEF Done
  <2>6. \A p \in DOMAIN blockDefs : blockDefs[p] # Hole
    <3>1. \A p \in DOMAIN blockDefs : p \in Nat
      BY <2>2, <2>4, Numbers DEF Defines, Numbered
    <3> QED BY <2>2, <3>1, LiftAssumption DEF Defines, LiftAssumption
  <2>7. ASSUME NEW b \in DOMAIN phi
        PROVE  /\ b \in DOMAIN phi' /\ DOMAIN phi'[b] = Preds(b)
               /\ \A p \in Preds(b) : p \in DOMAIN blockDefs /\ phi'[b][p] = blockDefs[p]
    <3>1. b \in DOMAIN phi' /\ DOMAIN phi'[b] = Preds(b)
      BY <2>1, <2>2 DEF Phis
    <3>2. ASSUME NEW p \in Preds(b)
          PROVE  p \in DOMAIN blockDefs /\ phi'[b][p] = blockDefs[p]
      <4>1. p \in Done
        BY <2>4 DEF Preds
      <4>2. DOMAIN snapshot \cap Done \subseteq DOMAIN blockDefs
        BY <2>1, <2>2 DEF Snapshots
      <4>3. phi'[b][p] = IF phi[b][p] = Hole THEN Patched(p) ELSE phi[b][p]
        BY <2>1, <2>2 DEF Phis
      <4>4. \/ p \in DOMAIN blockDefs /\ phi[b][p] = blockDefs[p]
            \/ p \in DOMAIN snapshot /\ phi[b][p] = Hole
        BY <2>2 DEF Phis
      <4> QED BY <2>6, <4>1, <4>2, <4>3, <4>4 DEF Patched
    <3> QED BY <3>1, <3>2
  <2>8. Phis'
    <3>1. DOMAIN phi' = DOMAIN phi
      BY <2>1
    <3>2. \A b \in DOMAIN phi : \E p, q \in Preds(b) : p # q
      BY <2>2 DEF Phis
    <3>3. \A b \in DOMAIN phi' :
            /\ \E p, q \in Preds(b) : p # q
            /\ DOMAIN phi'[b] = Preds(b)
            /\ \A p \in Preds(b) : p \in DOMAIN blockDefs' /\ phi'[b][p] = blockDefs'[p]
      BY <2>1, <2>7, <3>1, <3>2
    <3>4. DOMAIN phi' \subseteq (Done' \ {Entry}) \cap DOMAIN blockDefs'
      BY <2>1, <2>2, <2>5, <3>1 DEF Phis
    <3>5. \A b : Preds(b)' = Preds(b)
      BY <1>2 DEF Preds, Succs
    <3>6. \A b \in DOMAIN phi' : (\E p, q \in Preds(b) : p # q)'
      BY <3>3, <3>5
    <3>7. \A b \in DOMAIN phi' : DOMAIN phi'[b] = Preds(b)'
      BY <3>3, <3>5
    <3>8. \A b \in DOMAIN phi' : \A p \in Preds(b)' :
            p \in DOMAIN blockDefs' /\ phi'[b][p] = blockDefs'[p]
      BY <3>3, <3>5
    <3> QED BY <3>4, <3>6, <3>7, <3>8 DEF Phis
  <2>9. Defines'
    BY <1>2, <2>1, <2>2, <2>5 DEF Defines, Argument
  <2>10. Snapshots'
    BY <1>2, <2>1, <2>2, <2>5 DEF Snapshots, Grounded, Preds, Succs
  <2>11. Reads'
    <3>1. \A b \in Done' \ {Entry} : \A p \in DOMAIN blockDefs' :
            Preds(b) = {p} /\ Before(order', p, b) => reads'[b] = blockDefs'[p]
      BY <2>1, <2>2, <2>5 DEF Reads
    <3>2. DOMAIN reads' = Done' /\ regValue' \in Operands
          /\ \A b \in Done' : reads'[b] \in Operands
      BY <2>1, <2>2, <2>5 DEF Reads
    <3> QED BY <1>2, <3>1, <3>2 DEF Reads, Operands, Preds, Succs
  <2> QED BY <1>1, <1>2, <2>1, <2>2, <2>3, <2>8, <2>9, <2>10, <2>11 DEF LiftInv, RoundInv
<1> QED BY <1>3, <1>4, <1>5, <1>6, <1>7 DEF LiftNext

\* The lifter begins that way.
LEMMA LiftBegins == LiftInit => LiftInv
<1> SUFFICES ASSUME LiftInit PROVE LiftInv
  OBVIOUS
<1> QED BY SearchInit DEF LiftInit, LiftInv, Fresh, Argument, Empty

-----------------------------------------------------------------------------
(* The run                                                                 *)

\* Both executions begin at the entry, the lifted one stays in what the search has
\* been to, and a parameter is held until something else has been written.
MergeInv ==
  /\ stage # "lift" => round = 3
  /\ stage \in {"lift", "peel", "ready"} => here = Entry /\ there = Entry
  /\ stage = "run" => here \in visited
  /\ stage = "run" /\ Preds(Entry) = {} =>
       /\ here = Entry /\ isParam => Content(held, Argument) = register
       /\ MergedReads

\* A value that is put is held, and the others as before.
LEMMA ContentPut ==
  \A f, v, x, w : Content(Put(f, v, x), w) = IF w = v THEN x ELSE Content(f, w)
BY DEF Content, Put

\* What the lifter has made of the method.
Merges ==
  /\ Entry \in visited /\ visited \subseteq Original
  /\ \A b \in visited : Succs(b) \subseteq visited
  /\ \A b \in DOMAIN phi :
       /\ b # Entry /\ DOMAIN phi[b] = Preds(b) /\ \A p : Preds(b) # {p}
       /\ \A p \in Preds(b) : p \in DOMAIN blockDefs /\ phi[b][p] = blockDefs[p]
  /\ \A p \in DOMAIN blockDefs :
       \/ p \in writes /\ blockDefs[p] = <<"def", p>>
       \/ p \notin writes /\ p \in DOMAIN phi /\ blockDefs[p] = <<"phi", p>>
       \/ p \notin writes /\ p = Entry /\ isParam /\ blockDefs[p] = Argument
  /\ \A b \in visited \ {Entry} : \A p \in DOMAIN blockDefs :
       Preds(b) = {p} => reads[b] = blockDefs[p]

AllDone == DOMAIN reads = Original /\ Done = Original

\* When both rounds are over no phi has a hole, and every value named is made.
LEMMA LiftedMerges ==
  ASSUME LiftInv, round = 3
  PROVE  Merges /\ AllDone
<1>1. /\ SearchInv /\ RoundInv /\ writes \in SUBSET Original
  BY DEF LiftInv
<1>2. Done = Original
  <2>1. DOMAIN order = 1 .. Len(order) /\ Len(order) \in Nat /\ position - 1 = Len(order)
    BY <1>1 DEF SearchInv, SearchType, RoundInv
  <2>2. Ordered = Original
    BY <1>1 DEF SearchInv
  <2> QED BY <2>1, <2>2 DEF Done, Ordered
<1>3. /\ Entry \in visited /\ visited \subseteq Original
      /\ \A b \in visited : Succs(b) \subseteq visited
      /\ \A b \in visited \ {Entry} : \E p \in Preds(b) : Before(order, p, b)
  <2>1. stack = <<>> /\ Ordered = Original
    BY <1>1 DEF SearchInv
  <2>2. OnStack = {}
    BY <2>1 DEF OnStack
  <2> QED BY <1>1, <2>1, <2>2 DEF SearchInv, SearchType, Visits, Looked, From
<1>4. \A b \in DOMAIN phi :
        /\ b # Entry /\ DOMAIN phi[b] = Preds(b) /\ \A p : Preds(b) # {p}
        /\ \A p \in Preds(b) : p \in DOMAIN blockDefs /\ phi[b][p] = blockDefs[p]
  BY <1>1 DEF RoundInv, Phis
<1>5. \A p \in DOMAIN blockDefs :
        \/ p \in writes /\ blockDefs[p] = <<"def", p>>
        \/ p \notin writes /\ p \in DOMAIN phi /\ blockDefs[p] = <<"phi", p>>
        \/ p \notin writes /\ p = Entry /\ isParam /\ blockDefs[p] = Argument
  BY <1>1, <1>2 DEF RoundInv, Defines
<1>6. \A b \in visited \ {Entry} : \A p \in DOMAIN blockDefs :
        Preds(b) = {p} => reads[b] = blockDefs[p]
  BY <1>1, <1>2, <1>3 DEF RoundInv, Reads
<1>7. DOMAIN reads = Original
  BY <1>1, <1>2 DEF RoundInv, Reads
<1> QED BY <1>2, <1>3, <1>4, <1>5, <1>6, <1>7 DEF Merges, AllDone

\* The blocks on the way put in the register what they say they leave there.
LEMMA StepMerges ==
  ASSUME Merges, MergeInv, stage = "run", Step
  PROVE  MergeInv'
<1>1. PICK s \in Succs(here) :
        /\ here' = s /\ held' = After(held, here, here, s, phi)
        /\ register' = IF here \in writes THEN here ELSE register
  BY DEF Step
<1>2. /\ UNCHANGED <<liftVars, protected, remaining, norm, refusal, stage>>
      /\ flow' = flow /\ isParam' = isParam /\ round' = round /\ visited' = visited
      /\ phi' = phi /\ blockDefs' = blockDefs /\ reads' = reads /\ stage' = "run"
  BY DEF Step, liftVars, method, search, lifted
<1>3. round = 3 /\ here \in visited /\ here' \in visited
  BY <1>1 DEF MergeInv, Merges
<1>4. ASSUME Preds(Entry) = {}
      PROVE  /\ here' # Entry
             /\ here' \in DOMAIN phi => Content(held', <<"phi", here'>>) = register'
             /\ \A p \in DOMAIN blockDefs :
                  Preds(here') = {p} => Content(held', reads[here']) = register'
  <2> DEFINE written == IF here \in writes THEN Put(held, <<"def", here>>, here) ELSE held
  <2>1. here \in Preds(s) /\ s # Entry
    BY <1>1, <1>3, <1>4 DEF Merges, Preds
  <2>2. /\ here = Entry /\ isParam => Content(held, Argument) = register
        /\ here \in DOMAIN phi => Content(held, <<"phi", here>>) = register
    BY <1>4 DEF MergeInv, MergedReads
  <2>3. ASSUME here \in DOMAIN blockDefs
        PROVE  Content(written, blockDefs[here]) = register'
    <3>1. CASE here \in writes
      BY <1>1, <2>3, <3>1, ContentPut DEF Merges
    <3>2. CASE here \notin writes
      BY <1>1, <2>2, <2>3, <3>2 DEF Merges
    <3> QED BY <3>1, <3>2
  <2>4. held' = IF s \in DOMAIN phi /\ here \in DOMAIN phi[s]
                THEN Put(written, <<"phi", s>>, Content(written, phi[s][here]))
                ELSE written
    BY <1>1 DEF After
  <2> HIDE DEF written
  <2>5. ASSUME s \in DOMAIN phi PROVE Content(held', <<"phi", s>>) = register'
    <3>1. here \in DOMAIN phi[s] /\ here \in DOMAIN blockDefs /\ phi[s][here] = blockDefs[here]
      BY <2>1, <2>5 DEF Merges
    <3> QED BY <2>3, <2>4, <2>5, <3>1, ContentPut
  <2>6. ASSUME NEW p \in DOMAIN blockDefs, Preds(s) = {p}
        PROVE  Content(held', reads[s]) = register'
    <3>1. p = here /\ s \notin DOMAIN phi
      BY <2>1, <2>6 DEF Merges
    <3>2. reads[s] = blockDefs[here]
      BY <1>1, <1>3, <2>1, <2>6, <3>1 DEF Merges
    <3> QED BY <2>3, <2>4, <2>6, <3>1, <3>2
  <2> QED BY <1>1, <2>1, <2>5, <2>6
<1>5. Preds(Entry)' = Preds(Entry)
  BY <1>2 DEF Preds, Succs
<1>6. Preds(Entry) = {} => MergedReads'
  BY <1>2, <1>4 DEF MergedReads, Preds, Succs
<1> QED BY <1>2, <1>3, <1>4, <1>5, <1>6 DEF MergeInv

\* Only Lift changes what has been lifted.
LEMMA OnceLifted ==
  ASSUME Next, ~ Lift
  PROVE  UNCHANGED liftVars
BY DEF Next, StartPeeling, Peel, EndPeeling, Start, Step

\* What is known of the lifter is always true.
THEOREM LiftInvariance == Spec => []LiftInv
<1>1. Init => LiftInv
  BY LiftBegins DEF Init
<1>2. LiftInv /\ [Next]_vars => LiftInv'
  <2> SUFFICES ASSUME LiftInv, [Next]_vars PROVE LiftInv'
    OBVIOUS
  <2>1. CASE Lift
    BY <2>1, LiftStep DEF Lift
  <2>2. CASE UNCHANGED liftVars
    <3>1. UNCHANGED <<flow, writes, isParam, round, stack, visited, order, position,
                      regValue, blockDefs, snapshot, phi, reads>>
      BY <2>2 DEF liftVars, method, search, lifted
    <3>2. SearchInv' = SearchInv
      BY <3>1 DEF SearchInv, SearchType, Distinct, Visits, Looked, From, Ordered, OnStack,
                  Before, Succs, Preds
    <3>3. /\ Fresh' = Fresh /\ Defines' = Defines /\ Phis' = Phis
          /\ Snapshots' = Snapshots /\ Reads' = Reads
      BY <3>1 DEF Fresh, Defines, Phis, Snapshots, Reads, Grounded, Done, Operands,
                  Argument, Empty, Preds, Succs
    <3> QED BY <3>1, <3>2, <3>3 DEF LiftInv, RoundInv, Empty
  <2> QED BY <2>1, <2>2, OnceLifted DEF vars
<1> QED BY <1>1, <1>2, PTL DEF Spec

\* Every step keeps what the values hold of the register.
LEMMA MergeStep == LiftInv /\ MergeInv /\ [Next]_vars => MergeInv'
<1> SUFFICES ASSUME LiftInv, MergeInv, [Next]_vars PROVE MergeInv'
  OBVIOUS
<1>1. CASE Step
  <2>1. stage = "run" /\ round = 3
    BY <1>1 DEF Step, MergeInv
  <2> QED BY <1>1, <2>1, LiftedMerges, StepMerges
<1>2. CASE Start
  <2>1. /\ stage = "ready" /\ stage' = "run" /\ here' = here
        /\ register' = IF isParam THEN Entry ELSE None
        /\ held' = IF isParam THEN [v \in {Argument} |-> Entry] ELSE Empty
        /\ flow' = flow /\ isParam' = isParam /\ round' = round /\ visited' = visited
        /\ phi' = phi /\ blockDefs' = blockDefs /\ reads' = reads
    BY <1>2 DEF Start, liftVars, method, search, lifted
  <2>2. here = Entry /\ round = 3
    BY <2>1 DEF MergeInv
  <2>3. Merges
    BY <2>2, LiftedMerges
  <2>4. isParam => Content(held', Argument) = register'
    BY <2>1 DEF Content
  <2>5. Entry \notin DOMAIN phi /\ Entry \in visited
    BY <2>3 DEF Merges
  <2>6. Preds(Entry)' = Preds(Entry)
    BY <2>1 DEF Preds, Succs
  <2>7. Preds(Entry) = {} => MergedReads'
    BY <2>1, <2>2, <2>5, <2>6 DEF MergedReads
  <2>8. Argument' = Argument
    BY DEF Argument
  <2> QED BY <2>1, <2>2, <2>4, <2>5, <2>6, <2>7, <2>8 DEF MergeInv
<1>3. CASE Lift \/ StartPeeling \/ Peel \/ EndPeeling
  <2>1. /\ stage \in {"lift", "peel"} /\ stage' \in {"lift", "peel", "ready"}
        /\ here' = here /\ there' = there
    BY <1>3 DEF Lift, StartPeeling, Peel, EndPeeling, running, MergeInv
  <2>2. stage' # "lift" => round' = 3
    BY <1>3 DEF Lift, StartPeeling, Peel, EndPeeling, liftVars, MergeInv
  <2> QED BY <2>1, <2>2 DEF MergeInv
<1>4. CASE UNCHANGED vars
  <2>1. UNCHANGED <<flow, isParam, round, visited, phi, blockDefs, reads, stage, here, there,
                    register, held>>
    BY <1>4 DEF vars, running, liftVars, method, search, lifted
  <2>2. MergedReads' = MergedReads
    BY <2>1 DEF MergedReads, Preds, Succs, Content
  <2> QED BY <2>1, <2>2 DEF MergeInv, Preds, Succs, Argument, Content
<1> QED BY <1>1, <1>2, <1>3, <1>4 DEF Next

\* On every path, a phi holds what was written to the register last, and so does
\* what a block reads that takes it from its only predecessor.
THEOREM ReadsAreMerged == Spec => []MergedReads
<1>1. Init => MergeInv
  BY DEF Init, LiftInit, MergeInv
<1>2. LiftInv /\ MergeInv => MergedReads
  BY DEF MergeInv, MergedReads
<1> QED BY <1>1, <1>2, LiftInvariance, MergeStep, PTL DEF Spec

-----------------------------------------------------------------------------
(* Copies are like their originals: they are reached in the same cycles    *)
(* (Together), a cycle has one of each (Apart), and phis and reads name    *)
(* the copies.                                                             *)

\* The lifted method as a graph.
Source == [b \in Original |-> Succs(b)]

\* The blocks of the lifted method are their own originals.
Origins(m) ==
  /\ Original \subseteq DOMAIN m.succs
  /\ \A b \in Original : m.origin[b] = b

\* An edge that lies on a cycle of the lifted method lies on one of this.
Together(m) ==
  \A b \in DOMAIN m.succs : \A t \in m.succs[b] :
    m.origin[t] \in Cycle(Source, m.origin[b]) => t \in Cycle(m.succs, b)

\* No cycle has two copies of a block.
Apart(m) ==
  \A b \in DOMAIN m.succs : \A c, d \in Cycle(m.succs, b) :
    m.origin[c] = m.origin[d] => c = d

\* Each copy has the phis of its original, with an operand for each block that
\* branches to it, made where the original's is made, by a copy of who made that.
PhisCopied(m) ==
  /\ DOMAIN m.phis = {t \in DOMAIN m.succs : m.origin[t] \in DOMAIN phi}
  /\ \A t \in DOMAIN m.phis :
       /\ DOMAIN m.phis[t] = {a \in DOMAIN m.succs : t \in m.succs[a]}
       /\ \A b \in DOMAIN m.phis[t] :
            m.phis[t][b] = <<phi[m.origin[t]][m.origin[b]][1], b>>

\* Each copy reads what its original reads, made by a copy of who made that, and
\* by the one in its own cycle if that was in the cycle of the original.
UsesCopied(m) ==
  \A b \in DOMAIN m.succs :
    LET v == reads[m.origin[b]]
    IN  \/ v \in {None, Hole} /\ m.uses[b] = v
        \/ \E y \in DOMAIN m.succs :
             /\ v \notin {None, Hole}
             /\ m.uses[b] = <<v[1], y>> /\ m.origin[y] = v[2]
             /\ m.origin[b] \in Cycle(Source, v[2]) => y \in Cycle(m.succs, b)

Alike(m) == Origins(m) /\ Together(m) /\ Apart(m) /\ PhisCopied(m) /\ UsesCopied(m)

PeelInv == stage # "lift" => Alike(norm)

\* Blocks that have copies.
Copied == {norm.origin[b] : b \in Blocks \ Original}

\* A value is held only behind the block that made it.
Behind ==
  /\ \A v \in DOMAIN held : v \in Kinds \X Original /\ here \in Reached(Source, {v[2]})
  /\ \A v \in DOMAIN heldThere : v \in Kinds \X Blocks /\ there \in Reached(norm.succs, {v[2]})

\* The two methods are at blocks that are alike, and hold the same values of the
\* blocks that have no copy and of the cycle they are in.
CarryInv ==
  stage = "run" =>
    /\ there \in Blocks /\ norm.origin[there] = here
    /\ Behind
    /\ \A x \in Original \ Copied : \A k \in Kinds :
         Content(held, <<k, x>>) = Content(heldThere, <<k, x>>)
    /\ \A y \in Cycle(norm.succs, there) : \A k \in Kinds :
         Content(held, <<k, norm.origin[y]>>) = Content(heldThere, <<k, y>>)

\* What a block reaches, step by step.
LEMMA Onward ==
  ASSUME NEW D, IsFiniteSet(D), NEW succs \in [D -> SUBSET D], NEW b \in D
  PROVE  /\ b \in Reached(succs, {b}) /\ Reached(succs, {b}) \subseteq D
         /\ \A x \in Reached(succs, {b}) : succs[x] \subseteq Reached(succs, {b})
         /\ \A x \in Reached(succs, {b}) : Reached(succs, {x}) \subseteq Reached(succs, {b})
         /\ \A T \in SUBSET D : b \in T /\ Closed(succs, T) => Reached(succs, {b}) \subseteq T
<1>1. {b} \in SUBSET D /\ DOMAIN succs = D
  OBVIOUS
<1>2. Reached(succs, {b}) = Hull(succs, {b})
  BY <1>1, Reaching
<1>3. \A x \in Hull(succs, {b}) : succs[x] \subseteq Hull(succs, {b})
  BY <1>1 DEF Hull, Closed
<1>4. \A T \in SUBSET D : b \in T /\ Closed(succs, T) => Hull(succs, {b}) \subseteq T
  BY <1>1 DEF Hull
<1>5. /\ {b} \subseteq Reached(succs, {b}) /\ Reached(succs, {b}) \in SUBSET D
      /\ \A x \in Reached(succs, {b}) : Reached(succs, {x}) \subseteq Reached(succs, {b})
  BY <1>1, Paths
<1> QED BY <1>2, <1>3, <1>4, <1>5

\* A cycle is found again in every graph that its edges are taken to.
LEMMA Embedding ==
  ASSUME NEW D, IsFiniteSet(D), NEW succs \in [D -> SUBSET D],
         NEW E, IsFiniteSet(E), NEW others \in [E -> SUBSET E],
         NEW b \in D, NEW map,
         \A x \in Cycle(succs, b) :
           /\ map[x] \in E
           /\ \A y \in succs[x] \cap Cycle(succs, b) : map[y] \in others[map[x]]
  PROVE  \A x \in Cycle(succs, b) : map[x] \in Cycle(others, map[b])
<1> DEFINE C == Cycle(succs, b)
<1>1. /\ b \in C /\ C \in SUBSET D
      /\ \A x \in C : Cycle(succs, x) = C
  BY Cycles
<1>2. \A x \in C : C = {y \in Reached(succs, {x}) : x \in Reached(succs, {y})}
  BY <1>1 DEF Cycle
<1> HIDE DEF C
<1>3. ASSUME NEW x \in C, NEW y \in C
      PROVE  map[y] \in Reached(others, {map[x]})
  <2> DEFINE R == Reached(succs, {x})
             T == Reached(others, {map[x]})
             U == {z \in R : z \in C => map[z] \in T}
  <2>1. map[x] \in E /\ x \in D
    BY <1>1 DEF C
  <2>2. map[x] \in T /\ \A e \in T : others[e] \subseteq T
    <3>1. PICK e \in E : e = map[x]
      BY <2>1
    <3>2. e \in Reached(others, {e})
          /\ \A z \in Reached(others, {e}) : others[z] \subseteq Reached(others, {e})
      BY Onward
    <3> QED BY <3>1, <3>2
  <2>3. /\ x \in R /\ R \subseteq D /\ \A z \in R : succs[z] \subseteq R
        /\ \A S \in SUBSET D : x \in S /\ Closed(succs, S) => R \subseteq S
    BY <2>1, Onward
  <2>4. ASSUME NEW z \in U, NEW w \in succs[z], w \in C PROVE map[w] \in T
    <3>1. z \in R /\ z \in D /\ w \in D
      BY <2>3, <2>4
    <3>2. w \in R
      BY <2>3, <3>1
    <3>3. w \in Reached(succs, {z}) /\ Reached(succs, {w}) \subseteq Reached(succs, {z})
      BY <3>1, Onward
    <3>4. x \in Reached(succs, {w})
      BY <1>2, <2>4
    <3>5. z \in C
      BY <1>2, <3>1, <3>3, <3>4
    <3> QED BY <2>2, <2>4, <3>5 DEF C
  <2>5. Closed(succs, U)
    BY <2>3, <2>4 DEF Closed
  <2>6. U \in SUBSET D /\ x \in U
    BY <2>2, <2>3
  <2>7. y \in R
    BY <1>2
  <2> HIDE DEF U, R, T
  <2>8. R \subseteq U
    BY <2>3, <2>5, <2>6
  <2> QED BY <2>7, <2>8 DEF U, T
<1> QED BY <1>1, <1>3 DEF Cycle, C

\* Reaching, and with it cycles, carries over where every edge does.
LEMMA Homomorphism ==
  ASSUME NEW D, IsFiniteSet(D), NEW succs \in [D -> SUBSET D],
         NEW E, IsFiniteSet(E), NEW others \in [E -> SUBSET E],
         NEW map \in [E -> D], \A x \in E : \A y \in others[x] : map[y] \in succs[map[x]]
  PROVE  \A e \in E : \A d \in Cycle(others, e) : map[d] \in Cycle(succs, map[e])
<1>1. ASSUME NEW e \in E, NEW d \in Reached(others, {e})
      PROVE  map[d] \in Reached(succs, {map[e]})
  <2> DEFINE R == Reached(succs, {map[e]})
             U == {x \in E : map[x] \in R}
  <2>1. map[e] \in R /\ \A x \in R : succs[x] \subseteq R
    BY Onward
  <2>2. U \in SUBSET E /\ e \in U /\ Closed(others, U)
    BY <2>1 DEF Closed
  <2> HIDE DEF U
  <2>3. Reached(others, {e}) \subseteq U
    BY <2>2, Onward
  <2> QED BY <1>1, <2>3 DEF U
<1>2. \A e \in E : Reached(others, {e}) \subseteq E
  BY Onward
<1> QED BY <1>1, <1>2 DEF Cycle

-----------------------------------------------------------------------------
(* Copying a loop, and the way in to its target led to the copy.           *)

\* What the copies of a loop are, as far as the lemmas below need to know.
Copying(scc, target, copy, m) ==
  /\ DOMAIN m.succs = Blocks \cup {copy[b] : b \in scc}
  /\ DOMAIN copy = scc /\ \A b \in scc : copy[b] \notin Blocks
  /\ \A b, c \in scc : copy[b] = copy[c] => b = c
  /\ \A b \in scc :
       /\ m.succs[copy[b]] = {Moved(copy, s) : s \in norm.succs[b]}
       /\ m.origin[copy[b]] = norm.origin[b]
       /\ m.uses[copy[b]] = Remapped(copy, norm.uses[b])
  /\ \A b \in Blocks :
       /\ m.succs[b] = IF b \notin scc /\ target \in norm.succs[b]
                       THEN (norm.succs[b] \ {target}) \cup {copy[target]}
                       ELSE norm.succs[b]
       /\ m.origin[b] = norm.origin[b] /\ m.uses[b] = norm.uses[b]
  /\ DOMAIN m.phis = DOMAIN norm.phis \cup {copy[b] : b \in scc \cap DOMAIN norm.phis}
  /\ \A b \in scc \cap DOMAIN norm.phis : m.phis[copy[b]] = CopiedPhi(scc, copy, b, target)
  /\ \A b \in Blocks \cap DOMAIN norm.phis :
       m.phis[b] = IF b = target THEN Restrict(norm.phis[b], DOMAIN norm.phis[b] \cap scc)
                   ELSE IF b \in scc THEN norm.phis[b]
                   ELSE MirroredPhi(scc, copy, b)

\* Peeled makes such copies.
LEMMA PeeledCopies ==
  ASSUME Graph(norm), NEW scc \in SUBSET Blocks, NEW target \in scc,
         NEW m, m = Peeled(scc, target)
  PROVE  Copying(scc, target, CopyOf(scc), m)
<1>1. PICK copy : copy = CopyOf(scc)
  OBVIOUS
<1> DEFINE new == {copy[b] : b \in scc}
           old(c) == CHOOSE b \in scc : copy[b] = c
           D == Blocks \cup new
           Retargeted(S) == IF target \in S THEN (S \ {target}) \cup {copy[target]} ELSE S
           P == DOMAIN norm.phis \cup {copy[x] : x \in scc \cap DOMAIN norm.phis}
           NewPhi(b) ==
             IF b \in new THEN CopiedPhi(scc, copy, old(b), target)
             ELSE IF b = target THEN Restrict(norm.phis[b], DOMAIN norm.phis[b] \cap scc)
             ELSE IF b \in scc THEN norm.phis[b]
             ELSE MirroredPhi(scc, copy, b)
<1>2. /\ new \cap Blocks = {} /\ DOMAIN copy = scc
      /\ \A b, c \in scc : copy[b] = copy[c] => b = c
  <2>1. IsFiniteSet(Blocks) /\ Blocks \subseteq 1..Cardinality(Blocks)
    BY DEF Graph, Blocks
  <2>2. /\ New(scc) \cap Blocks = {} /\ DOMAIN CopyOf(scc) = scc
        /\ \A b, c \in scc : CopyOf(scc)[b] = CopyOf(scc)[c] => b = c
    BY <2>1, Copies
  <2>3. new = New(scc)
    BY <1>1 DEF New
  <2> HIDE DEF new
  <2> QED BY <1>1, <2>2, <2>3
<1>3. \A b \in scc : copy[b] \in new /\ old(copy[b]) = b
  BY <1>2
<1>4. /\ m.succs = [b \in D |->
                      IF b \in new THEN CopiedSuccs(scc, copy, old(b))
                      ELSE IF b \in PredsOf(target) \ scc THEN Retargeted(norm.succs[b])
                      ELSE norm.succs[b]]
      /\ m.origin = [b \in D |-> IF b \in new THEN norm.origin[old(b)] ELSE norm.origin[b]]
      /\ m.uses = [b \in D |-> IF b \in new THEN Remapped(copy, norm.uses[old(b)])
                               ELSE norm.uses[b]]
      /\ m.phis = [b \in P |-> NewPhi(b)]
  BY <1>1 DEF Peeled
<1> HIDE DEF old
<1>5. ASSUME NEW b \in scc
      PROVE  /\ m.succs[copy[b]] = {Moved(copy, s) : s \in norm.succs[b]}
             /\ m.origin[copy[b]] = norm.origin[b]
             /\ m.uses[copy[b]] = Remapped(copy, norm.uses[b])
             /\ b \in DOMAIN norm.phis => m.phis[copy[b]] = CopiedPhi(scc, copy, b, target)
  <2>1. copy[b] \in new /\ copy[b] \in D /\ old(copy[b]) = b
    BY <1>3
  <2>2. b \in DOMAIN norm.phis => copy[b] \in P
    OBVIOUS
  <2> HIDE DEF new, D, P
  <2>3. m.succs[copy[b]] = CopiedSuccs(scc, copy, b)
    BY <1>4, <2>1
  <2> QED BY <1>4, <2>1, <2>2, <2>3 DEF CopiedSuccs
<1>6. ASSUME NEW b \in Blocks
      PROVE  /\ m.succs[b] = IF b \notin scc /\ target \in norm.succs[b]
                             THEN (norm.succs[b] \ {target}) \cup {copy[target]}
                             ELSE norm.succs[b]
             /\ m.origin[b] = norm.origin[b] /\ m.uses[b] = norm.uses[b]
             /\ b \in DOMAIN norm.phis =>
                  m.phis[b] = IF b = target THEN Restrict(norm.phis[b], DOMAIN norm.phis[b] \cap scc)
                              ELSE IF b \in scc THEN norm.phis[b]
                              ELSE MirroredPhi(scc, copy, b)
  <2>1. b \notin new /\ b \in D
    BY <1>2
  <2>2. b \in PredsOf(target) \ scc <=> b \notin scc /\ target \in norm.succs[b]
    BY DEF PredsOf
  <2>3. b \in DOMAIN norm.phis => b \in P
    OBVIOUS
  <2> HIDE DEF new, D, P
  <2> QED BY <1>4, <2>1, <2>2, <2>3
<1>7. DOMAIN m.succs = D /\ DOMAIN m.phis = P
  BY <1>4
<1> HIDE DEF NewPhi, old
<1>8. \A b \in scc : copy[b] \notin Blocks
  BY <1>2
<1>9. /\ DOMAIN m.succs = Blocks \cup {copy[b] : b \in scc}
      /\ DOMAIN m.phis = DOMAIN norm.phis \cup {copy[b] : b \in scc \cap DOMAIN norm.phis}
  BY <1>7
<1> HIDE DEF new, D, P
<1>10. Copying(scc, target, copy, m)
  BY <1>2, <1>5, <1>6, <1>8, <1>9 DEF Copying
<1> QED BY <1>1, <1>10

\* The loop that is copied, with what is known of the method before and after.
Looping(scc, target, copy, m) ==
  /\ Graph(norm) /\ Graph(m) /\ Copying(scc, target, copy, m)
  /\ target \in Blocks /\ scc = Cycle(norm.succs, target)

\* The two graphs, and the blocks of the loop in them.
LEMMA LoopCopied ==
  ASSUME NEW scc, NEW target, NEW copy, NEW m, Looping(scc, target, copy, m)
  PROVE  /\ IsFiniteSet(Blocks) /\ norm.succs \in [Blocks -> SUBSET Blocks]
         /\ IsFiniteSet(DOMAIN m.succs) /\ m.succs \in [DOMAIN m.succs -> SUBSET DOMAIN m.succs]
         /\ scc \in SUBSET Blocks /\ target \in scc /\ Blocks \subseteq DOMAIN m.succs
         /\ \A b \in scc : Cycle(norm.succs, b) = scc
         /\ \A b \in Blocks : b \in Cycle(norm.succs, b)
         /\ \A b \in Blocks : \A c \in Cycle(norm.succs, b) :
              c \in Blocks /\ Cycle(norm.succs, c) = Cycle(norm.succs, b)
         /\ \A b \in DOMAIN m.succs \ Blocks : \E x \in scc : b = copy[x]
         /\ \A x \in scc : copy[x] \in DOMAIN m.succs
         /\ \A x \in Blocks : Moved(copy, x) \in DOMAIN m.succs
                              /\ Moved(copy, x) = IF x \in scc THEN copy[x] ELSE x
<1>1. /\ IsFiniteSet(Blocks) /\ norm.succs \in [Blocks -> SUBSET Blocks]
      /\ IsFiniteSet(DOMAIN m.succs) /\ m.succs \in [DOMAIN m.succs -> SUBSET DOMAIN m.succs]
  BY DEF Looping, Graph, Blocks
<1>2. /\ DOMAIN m.succs = Blocks \cup {copy[b] : b \in scc} /\ DOMAIN copy = scc
      /\ target \in Blocks /\ scc = Cycle(norm.succs, target)
  BY DEF Looping, Copying
<1>3. \A b \in Blocks : /\ b \in Cycle(norm.succs, b) /\ Cycle(norm.succs, b) \in SUBSET Blocks
                        /\ \A c \in Cycle(norm.succs, b) : Cycle(norm.succs, c) = Cycle(norm.succs, b)
  BY <1>1, Cycles
<1>4. scc \in SUBSET Blocks /\ target \in scc /\ \A b \in scc : Cycle(norm.succs, b) = scc
  BY <1>2, <1>3
<1> QED BY <1>1, <1>2, <1>3, <1>4 DEF Moved

\* Cycles are still there, and the loop is there once more.
LEMMA CyclesKept ==
  ASSUME NEW scc, NEW target, NEW copy, NEW m, Looping(scc, target, copy, m)
  PROVE  /\ \A b \in Blocks : Cycle(norm.succs, b) \subseteq Cycle(m.succs, b)
         /\ \A b, c \in scc : copy[c] \in Cycle(m.succs, copy[b])
<1> DEFINE E == DOMAIN m.succs
<1>1. /\ IsFiniteSet(Blocks) /\ norm.succs \in [Blocks -> SUBSET Blocks]
      /\ IsFiniteSet(E) /\ m.succs \in [E -> SUBSET E]
      /\ scc \in SUBSET Blocks /\ target \in scc /\ Blocks \subseteq E
      /\ \A b \in scc : Cycle(norm.succs, b) = scc
      /\ \A b \in Blocks : \A c \in Cycle(norm.succs, b) :
           c \in Blocks /\ Cycle(norm.succs, c) = Cycle(norm.succs, b)
      /\ \A x \in scc : copy[x] \in E
      /\ \A x \in Blocks : Moved(copy, x) = IF x \in scc THEN copy[x] ELSE x
      /\ \A b \in Blocks : b \in Cycle(norm.succs, b)
  BY LoopCopied
<1>2. /\ \A b \in scc : m.succs[copy[b]] = {Moved(copy, s) : s \in norm.succs[b]}
      /\ \A b \in Blocks :
           m.succs[b] = IF b \notin scc /\ target \in norm.succs[b]
                        THEN (norm.succs[b] \ {target}) \cup {copy[target]}
                        ELSE norm.succs[b]
  BY DEF Looping, Copying
<1> HIDE DEF E
<1>3. ASSUME NEW b \in Blocks
      PROVE  Cycle(norm.succs, b) \subseteq Cycle(m.succs, b)
  <2> DEFINE C == Cycle(norm.succs, b)
  <2>1. ASSUME NEW x \in C, NEW y \in norm.succs[x] \cap C
        PROVE  y \in m.succs[x]
    <3>1. x \in Blocks /\ Cycle(norm.succs, x) = C /\ Cycle(norm.succs, y) = C
          /\ x \in Cycle(norm.succs, x)
      BY <1>1, <2>1
    <3>2. x \notin scc => y # target
      BY <1>1, <3>1
    <3> QED BY <1>2, <2>1, <3>1, <3>2
  <2> DEFINE map == [x \in Blocks |-> x]
  <2>2. \A x \in C : map[x] = x /\ map[x] \in E
    BY <1>1
  <2>3. map[b] = b
    OBVIOUS
  <2> HIDE DEF map
  <2>4. \A x \in Cycle(norm.succs, b) :
           /\ map[x] \in E
           /\ \A y \in norm.succs[x] \cap Cycle(norm.succs, b) : map[y] \in m.succs[map[x]]
    BY <2>1, <2>2
  <2>5. \A x \in Cycle(norm.succs, b) : map[x] \in Cycle(m.succs, map[b])
    BY <1>1, <2>4, Embedding
  <2> QED BY <2>2, <2>3, <2>5
<1>4. ASSUME NEW b \in scc
      PROVE  \A c \in scc : copy[c] \in Cycle(m.succs, copy[b])
  <2>1. b \in Blocks /\ Cycle(norm.succs, b) = scc
    BY <1>1
  <2>2. ASSUME NEW x \in scc
        PROVE  /\ copy[x] \in E
               /\ \A y \in norm.succs[x] \cap scc : copy[y] \in m.succs[copy[x]]
    BY <1>1, <1>2
  <2> QED BY <1>1, <2>1, <2>2, Embedding
<1> QED BY <1>3, <1>4

\* The block that a block is a copy of, or itself.
Olds(scc, copy, m) ==
  {old \in [DOMAIN m.succs -> Blocks] :
     /\ \A x \in DOMAIN m.succs \ Blocks : old[x] \in scc /\ copy[old[x]] = x
     /\ \A x \in Blocks : old[x] = x
     /\ \A x \in scc : old[copy[x]] = x}

\* Every block of the method with copies has such an original.
LEMMA Originals ==
  ASSUME NEW scc, NEW target, NEW copy, NEW m, Looping(scc, target, copy, m)
  PROVE  Olds(scc, copy, m) # {}
<1> DEFINE E == DOMAIN m.succs
           old == [x \in E |-> IF x \in Blocks THEN x ELSE CHOOSE b \in scc : copy[b] = x]
<1>1. /\ scc \in SUBSET Blocks /\ Blocks \subseteq E
      /\ \A x \in scc : copy[x] \in E
      /\ \A b \in E \ Blocks : \E x \in scc : b = copy[x]
  BY LoopCopied
<1>2. /\ \A b \in scc : copy[b] \notin Blocks
      /\ \A b, c \in scc : copy[b] = copy[c] => b = c
  BY DEF Looping, Copying
<1>3. ASSUME NEW x \in E \ Blocks PROVE old[x] \in scc /\ copy[old[x]] = x
  <2>1. \E b \in scc : copy[b] = x
    BY <1>1
  <2>2. old[x] = CHOOSE b \in scc : copy[b] = x
    OBVIOUS
  <2> QED BY <2>1, <2>2
<1>4. \A x \in Blocks : old[x] = x
  BY <1>1
<1>5. old = [x \in E |-> old[x]]
  OBVIOUS
<1> HIDE DEF old
<1>6. ASSUME NEW x \in scc PROVE old[copy[x]] = x
  <2>1. copy[x] \in E \ Blocks
    BY <1>1, <1>2
  <2>2. old[copy[x]] \in scc /\ copy[old[copy[x]]] = copy[x]
    BY <1>3, <2>1
  <2> QED BY <1>2, <2>2
<1>7. \A x \in E : old[x] \in Blocks
  BY <1>1, <1>3, <1>4
<1> HIDE DEF E
<1>8. old \in [E -> Blocks]
  BY <1>5, <1>7
<1> QED BY <1>3, <1>4, <1>6, <1>8 DEF Olds, E

\* A cycle runs through blocks of one cycle before, and is the loop or its
\* copy but never both.
LEMMA CyclesApart ==
  ASSUME NEW scc, NEW target, NEW copy, NEW m, Looping(scc, target, copy, m),
         NEW old \in Olds(scc, copy, m)
  PROVE  /\ \A e \in DOMAIN m.succs : \A d \in Cycle(m.succs, e) :
              /\ d \in DOMAIN m.succs
              /\ old[d] \in Cycle(norm.succs, old[e])
              /\ old[e] \in scc => (d \in Blocks <=> e \in Blocks)
<1> DEFINE E == DOMAIN m.succs
<1>1. /\ IsFiniteSet(Blocks) /\ norm.succs \in [Blocks -> SUBSET Blocks]
      /\ IsFiniteSet(E) /\ m.succs \in [E -> SUBSET E]
      /\ scc \in SUBSET Blocks /\ target \in scc /\ Blocks \subseteq E
      /\ \A b \in scc : Cycle(norm.succs, b) = scc
      /\ \A b \in Blocks : \A c \in Cycle(norm.succs, b) :
           c \in Blocks /\ Cycle(norm.succs, c) = Cycle(norm.succs, b)
      /\ \A x \in scc : copy[x] \in E
      /\ \A x \in Blocks : Moved(copy, x) = IF x \in scc THEN copy[x] ELSE x
      /\ \A b \in Blocks : b \in Cycle(norm.succs, b)
      /\ \A b \in E \ Blocks : \E x \in scc : b = copy[x]
  BY LoopCopied
<1>2. /\ \A b \in scc : m.succs[copy[b]] = {Moved(copy, s) : s \in norm.succs[b]}
      /\ \A b \in Blocks :
           m.succs[b] = IF b \notin scc /\ target \in norm.succs[b]
                        THEN (norm.succs[b] \ {target}) \cup {copy[target]}
                        ELSE norm.succs[b]
      /\ \A b \in scc : copy[b] \notin Blocks
      /\ \A b, c \in scc : copy[b] = copy[c] => b = c
  BY DEF Looping, Copying
<1>3. /\ \A x \in E \ Blocks : old[x] \in scc /\ copy[old[x]] = x
      /\ \A x \in Blocks : old[x] = x
      /\ \A x \in scc : old[copy[x]] = x
      /\ old \in [E -> Blocks]
  BY DEF Olds
<1> HIDE DEF E
<1>4. ASSUME NEW x \in E, NEW y \in m.succs[x]
      PROVE  old[y] \in norm.succs[old[x]]
  <2>1. CASE x \in Blocks
    <3>1. old[x] = x /\ norm.succs[x] \subseteq Blocks /\ target \in scc
          /\ old[copy[target]] = target
      BY <1>1, <1>3, <2>1
    <3>2. y \in norm.succs[x] \/ (y = copy[target] /\ target \in norm.succs[x])
      BY <1>2, <2>1, <1>4
    <3> QED BY <1>3, <3>1, <3>2
  <2>2. CASE x \notin Blocks
    <3>1. PICK b \in scc : x = copy[b] /\ old[x] = b
      BY <1>3, <2>2
    <3>2. PICK s \in norm.succs[b] : y = Moved(copy, s)
      BY <1>2, <1>4, <3>1
    <3>3. s \in Blocks
      BY <1>1, <3>1
    <3>4. old[y] = s
      BY <1>1, <1>3, <3>2, <3>3
    <3> QED BY <3>1, <3>2, <3>4
  <2> QED BY <2>1, <2>2
<1>5. \A e \in E : \A d \in Cycle(m.succs, e) : old[d] \in Cycle(norm.succs, old[e])
  BY <1>1, <1>3, <1>4, Homomorphism
<1>6. \A e \in E : \A d \in Cycle(m.succs, e) : d \in E /\ e \in Cycle(m.succs, d)
  BY <1>1, Cycles
<1>7. ASSUME NEW e \in scc, NEW d \in Cycle(m.succs, e)
      PROVE  d \in Blocks
  <2> DEFINE T == Reached(norm.succs, {e})
  <2>1. e \in Blocks /\ e \in E /\ Cycle(norm.succs, e) = scc
    BY <1>1
  <2>2. /\ e \in T /\ T \subseteq Blocks /\ \A x \in T : norm.succs[x] \subseteq T
        /\ \A x \in T : Reached(norm.succs, {x}) \subseteq T
    BY <1>1, <2>1, Onward
  <2>3. ASSUME NEW x \in T, target \in norm.succs[x] PROVE x \in scc
    <3>1. x \in Blocks /\ target \in Blocks
      BY <1>1, <2>2
    <3>2. target \in Reached(norm.succs, {x}) /\ Reached(norm.succs, {target}) \subseteq Reached(norm.succs, {x})
      <4>1. /\ x \in Reached(norm.succs, {x})
            /\ \A z \in Reached(norm.succs, {x}) :
                 /\ norm.succs[z] \subseteq Reached(norm.succs, {x})
                 /\ Reached(norm.succs, {z}) \subseteq Reached(norm.succs, {x})
        BY <1>1, <3>1, Onward
      <4> QED BY <2>3, <4>1
    <3>3. e \in Reached(norm.succs, {target})
      BY <1>1 DEF Cycle
    <3> QED BY <2>1, <3>2, <3>3 DEF Cycle
  <2>4. ASSUME NEW x \in T PROVE m.succs[x] \subseteq T
    BY <1>2, <2>2, <2>3, <2>4
  <2>5. T \in SUBSET E /\ Closed(m.succs, T)
    BY <1>1, <2>2, <2>4 DEF Closed
  <2> HIDE DEF T
  <2>6. \A U \in SUBSET E : e \in U /\ Closed(m.succs, U) => Reached(m.succs, {e}) \subseteq U
    <3>1. IsFiniteSet(E) /\ m.succs \in [E -> SUBSET E] /\ e \in E
      BY <1>1, <2>1
    <3> QED BY <3>1, Onward
  <2>7. Reached(m.succs, {e}) \subseteq T
    BY <2>2, <2>5, <2>6
  <2> QED BY <2>2, <2>7 DEF Cycle
<1>8. ASSUME NEW e \in E, NEW d \in Cycle(m.succs, e), old[e] \in scc
      PROVE  d \in Blocks <=> e \in Blocks
  <2>1. old[d] \in scc /\ d \in E /\ e \in Cycle(m.succs, d)
    BY <1>1, <1>5, <1>6, <1>8
  <2>2. ASSUME e \in Blocks PROVE d \in Blocks
    BY <1>3, <1>7, <1>8, <2>2
  <2>3. ASSUME d \in Blocks PROVE e \in Blocks
    BY <1>3, <1>7, <2>1, <2>3
  <2> QED BY <2>2, <2>3
<1> QED BY <1>5, <1>6, <1>8 DEF E

\* Copies are in the cycles their originals are in, one of each.
LEMMA PeeledCycles ==
  ASSUME NEW scc, NEW target, NEW copy, NEW m, Looping(scc, target, copy, m),
         Origins(norm), Together(norm), Apart(norm)
  PROVE  Origins(m) /\ Together(m) /\ Apart(m)
<1> DEFINE E == DOMAIN m.succs
<1>1. /\ norm.succs \in [Blocks -> SUBSET Blocks]
      /\ scc \in SUBSET Blocks /\ target \in scc /\ Blocks \subseteq E
      /\ \A b \in scc : Cycle(norm.succs, b) = scc
      /\ \A b \in Blocks : \A c \in Cycle(norm.succs, b) :
           c \in Blocks /\ Cycle(norm.succs, c) = Cycle(norm.succs, b)
      /\ \A x \in Blocks : Moved(copy, x) = IF x \in scc THEN copy[x] ELSE x
      /\ \A b \in Blocks : b \in Cycle(norm.succs, b)
      /\ \A b \in E \ Blocks : \E x \in scc : b = copy[x]
  BY LoopCopied
<1>2. /\ \A b \in scc : m.succs[copy[b]] = {Moved(copy, s) : s \in norm.succs[b]}
                        /\ m.origin[copy[b]] = norm.origin[b]
      /\ \A b \in Blocks :
           /\ m.succs[b] = IF b \notin scc /\ target \in norm.succs[b]
                           THEN (norm.succs[b] \ {target}) \cup {copy[target]}
                           ELSE norm.succs[b]
           /\ m.origin[b] = norm.origin[b]
      /\ \A b \in scc : copy[b] \notin Blocks
  BY DEF Looping, Copying
<1>3. /\ \A b \in Blocks : Cycle(norm.succs, b) \subseteq Cycle(m.succs, b)
      /\ \A b, c \in scc : copy[c] \in Cycle(m.succs, copy[b])
  BY CyclesKept
<1>4. PICK old \in Olds(scc, copy, m) : TRUE
  BY Originals
<1>5. /\ \A x \in E \ Blocks : old[x] \in scc /\ copy[old[x]] = x
      /\ \A x \in Blocks : old[x] = x
      /\ \A e \in E : \A d \in Cycle(m.succs, e) :
           /\ d \in E /\ old[d] \in Cycle(norm.succs, old[e])
           /\ old[e] \in scc => (d \in Blocks <=> e \in Blocks)
  <2>1. old \in Olds(scc, copy, m)
    BY <1>4
  <2> QED BY <2>1, CyclesApart DEF Olds
<1> HIDE DEF E
<1>6. /\ \A b \in Blocks : \A t \in norm.succs[b] :
           norm.origin[t] \in Cycle(Source, norm.origin[b]) => t \in Cycle(norm.succs, b)
      /\ \A b \in Blocks : \A c, d \in Cycle(norm.succs, b) :
           norm.origin[c] = norm.origin[d] => c = d
      /\ Original \subseteq Blocks /\ \A b \in Original : norm.origin[b] = b
  BY DEF Together, Apart, Origins, Blocks
<1>7. Origins(m)
  BY <1>1, <1>2, <1>6 DEF Origins, E
<1>8. ASSUME NEW b \in E, NEW t \in m.succs[b], m.origin[t] \in Cycle(Source, m.origin[b])
      PROVE  t \in Cycle(m.succs, b)
  <2>1. CASE b \in Blocks /\ t \in norm.succs[b]
    <3>1. t \in Blocks
      BY <1>1, <2>1
    <3>2. t \in Cycle(norm.succs, b)
      BY <1>2, <1>6, <1>8, <2>1, <3>1
    <3> QED BY <1>3, <2>1, <3>2
  <2>2. CASE b \in Blocks /\ t \notin norm.succs[b]
    <3>1. b \notin scc /\ target \in norm.succs[b] /\ t = copy[target]
      BY <1>2, <1>8, <2>2
    <3>2. m.origin[t] = norm.origin[target] /\ m.origin[b] = norm.origin[b]
      BY <1>1, <1>2, <2>2, <3>1
    <3>3. target \in Cycle(norm.succs, b)
      BY <1>6, <1>8, <2>2, <3>1, <3>2
    <3>4. b \in scc
      BY <1>1, <2>2, <3>3
    <3> QED BY <3>1, <3>4
  <2>3. CASE b \notin Blocks
    <3>1. PICK x \in scc : b = copy[x]
      BY <1>1, <2>3
    <3>2. PICK s \in norm.succs[x] : t = Moved(copy, s)
      BY <1>2, <1>8, <3>1
    <3>3. s \in Blocks /\ x \in Blocks
      BY <1>1, <3>1
    <3>4. m.origin[t] = norm.origin[s] /\ m.origin[b] = norm.origin[x]
      BY <1>1, <1>2, <3>1, <3>2, <3>3
    <3>5. s \in scc
      BY <1>1, <1>6, <1>8, <3>1, <3>3, <3>4
    <3> QED BY <1>1, <1>3, <3>1, <3>2, <3>3, <3>5
  <2> QED BY <2>1, <2>2, <2>3
<1>9. ASSUME NEW x \in E PROVE m.origin[x] = norm.origin[old[x]] /\ old[x] \in Blocks
  <2>1. CASE x \in Blocks
    BY <1>2, <1>5, <2>1
  <2>2. CASE x \notin Blocks
    <3>1. old[x] \in scc /\ copy[old[x]] = x
      BY <1>5, <2>2
    <3>2. m.origin[copy[old[x]]] = norm.origin[old[x]]
      BY <1>2, <3>1
    <3> QED BY <1>1, <3>1, <3>2
  <2> QED BY <2>1, <2>2
<1>10. ASSUME NEW b \in E, NEW c \in Cycle(m.succs, b), NEW d \in Cycle(m.succs, b),
              m.origin[c] = m.origin[d]
       PROVE  c = d
  <2>1. /\ c \in E /\ d \in E /\ old[c] \in Cycle(norm.succs, old[b])
        /\ old[d] \in Cycle(norm.succs, old[b])
        /\ old[b] \in scc => (c \in Blocks <=> b \in Blocks) /\ (d \in Blocks <=> b \in Blocks)
    BY <1>5
  <2>2. old[c] = old[d]
    BY <1>6, <1>9, <1>10, <2>1
  <2>3. c \in Blocks <=> d \in Blocks
    <3>1. old[b] \in scc <=> old[c] \in scc
      BY <1>1, <1>9, <2>1
    <3>2. old[c] \notin scc => c \in Blocks
      BY <1>5, <2>1
    <3>3. old[d] \notin scc => d \in Blocks
      BY <1>5, <2>1
    <3> QED BY <2>1, <2>2, <3>1, <3>2, <3>3
  <2> QED BY <1>5, <2>1, <2>2, <2>3
<1> QED BY <1>7, <1>8, <1>10 DEF Together, Apart, E

-----------------------------------------------------------------------------
(* What phis have operands from, and what they and the blocks take.        *)

LEMMA Ways ==
  ASSUME NEW scc, NEW target, NEW copy, NEW m, Looping(scc, target, copy, m)
  PROVE  /\ \A x \in scc : \A a \in DOMAIN m.succs :
              copy[x] \in m.succs[a] <=>
                \E p \in Blocks : /\ x \in norm.succs[p] /\ a = Moved(copy, p)
                                  /\ p \in scc \/ x = target
         /\ \A a \in DOMAIN m.succs :
              target \in m.succs[a] <=> a \in scc /\ target \in norm.succs[a]
         /\ \A x \in Blocks \ {target} : \A a \in DOMAIN m.succs :
              x \in m.succs[a] <=>
                \/ a \in Blocks /\ x \in norm.succs[a]
                \/ x \notin scc /\ \E p \in scc : a = copy[p] /\ x \in norm.succs[p]
<1> DEFINE E == DOMAIN m.succs
<1>1. /\ norm.succs \in [Blocks -> SUBSET Blocks]
      /\ scc \in SUBSET Blocks /\ target \in scc /\ Blocks \subseteq E
      /\ \A x \in Blocks : Moved(copy, x) = IF x \in scc THEN copy[x] ELSE x
      /\ \A b \in E \ Blocks : \E x \in scc : b = copy[x]
  BY LoopCopied
<1>2. /\ \A b \in scc : m.succs[copy[b]] = {Moved(copy, s) : s \in norm.succs[b]}
      /\ \A b \in Blocks :
           m.succs[b] = IF b \notin scc /\ target \in norm.succs[b]
                        THEN (norm.succs[b] \ {target}) \cup {copy[target]}
                        ELSE norm.succs[b]
      /\ \A b \in scc : copy[b] \notin Blocks
      /\ \A b, c \in scc : copy[b] = copy[c] => b = c
  BY DEF Looping, Copying
<1> HIDE DEF E
<1>3. \A a \in Blocks : norm.succs[a] \subseteq Blocks
  BY <1>1
<1>4. ASSUME NEW p \in scc
      PROVE  /\ \A x \in scc : copy[x] \in m.succs[copy[p]] <=> x \in norm.succs[p]
             /\ \A x \in Blocks : x \in m.succs[copy[p]] <=> x \notin scc /\ x \in norm.succs[p]
  <2>1. m.succs[copy[p]] = {Moved(copy, s) : s \in norm.succs[p]} /\ norm.succs[p] \subseteq Blocks
    BY <1>1, <1>2, <1>3
  <2> QED BY <1>1, <1>2, <2>1
<1>5. ASSUME NEW a \in Blocks
      PROVE  /\ \A x \in scc : copy[x] \in m.succs[a] <=>
                                 x = target /\ a \notin scc /\ target \in norm.succs[a]
             /\ \A x \in Blocks \ {target} : x \in m.succs[a] <=> x \in norm.succs[a]
             /\ target \in m.succs[a] <=> a \in scc /\ target \in norm.succs[a]
  <2>1. norm.succs[a] \subseteq Blocks /\ target \in Blocks
    BY <1>1, <1>3
  <2>2. CASE a \notin scc /\ target \in norm.succs[a]
    <3>1. m.succs[a] = (norm.succs[a] \ {target}) \cup {copy[target]}
      BY <1>2, <2>2
    <3> QED BY <1>1, <1>2, <2>1, <2>2, <3>1
  <2>3. CASE ~ (a \notin scc /\ target \in norm.succs[a])
    <3>1. m.succs[a] = norm.succs[a]
      BY <1>2, <2>3
    <3> QED BY <1>1, <1>2, <2>1, <2>3, <3>1
  <2> QED BY <2>2, <2>3
<1>6. ASSUME NEW x \in scc, NEW a \in E
      PROVE  copy[x] \in m.succs[a] <=>
               \E p \in Blocks : /\ x \in norm.succs[p] /\ a = Moved(copy, p)
                                 /\ p \in scc \/ x = target
  <2>1. CASE a \in Blocks
    <3>1. \A p \in Blocks : a = Moved(copy, p) <=> p = a /\ a \notin scc
      BY <1>1, <1>2, <2>1
    <3> QED BY <1>5, <2>1, <3>1
  <2>2. CASE a \notin Blocks
    <3>1. PICK q \in scc : a = copy[q]
      BY <1>1, <2>2
    <3>2. \A p \in Blocks : a = Moved(copy, p) <=> p = q
      BY <1>1, <1>2, <2>2, <3>1
    <3> QED BY <1>1, <1>4, <3>1, <3>2
  <2> QED BY <2>1, <2>2
<1>7. ASSUME NEW a \in E
      PROVE  target \in m.succs[a] <=> a \in scc /\ target \in norm.succs[a]
  <2>1. CASE a \in Blocks
    BY <1>5, <2>1
  <2>2. CASE a \notin Blocks
    <3>1. PICK q \in scc : a = copy[q]
      BY <1>1, <2>2
    <3> QED BY <1>1, <1>4, <2>2, <3>1
  <2> QED BY <2>1, <2>2
<1>8. ASSUME NEW x \in Blocks \ {target}, NEW a \in E
      PROVE  x \in m.succs[a] <=>
               \/ a \in Blocks /\ x \in norm.succs[a]
               \/ x \notin scc /\ \E p \in scc : a = copy[p] /\ x \in norm.succs[p]
  <2>1. CASE a \in Blocks
    BY <1>2, <1>5, <2>1
  <2>2. CASE a \notin Blocks
    <3>1. PICK q \in scc : a = copy[q]
      BY <1>1, <2>2
    <3> QED BY <1>2, <1>4, <2>2, <3>1
  <2> QED BY <2>1, <2>2
<1> QED BY <1>6, <1>7, <1>8 DEF E

\* What the lifter names by where it was made: operands and what blocks read.
Named ==
  /\ DOMAIN phi \subseteq Original
  /\ \A t \in DOMAIN phi : \A p \in Preds(t) : phi[t][p] = <<phi[t][p][1], p>>
                                               /\ phi[t][p][1] \in Kinds
  /\ \A t \in DOMAIN phi : DOMAIN phi[t] = Preds(t)
  /\ DOMAIN reads = Original /\ \A b \in Original : reads[b] \in Operands

\* An operand of a copied block is taken from the copy.
LEMMA Remaps ==
  ASSUME Graph(norm), NEW k \in Kinds, NEW b \in Blocks, NEW copy
  PROVE  Remapped(copy, <<k, b>>) = <<k, Moved(copy, b)>>
<1>1. b \in Nat
  BY FS_CardinalityType DEF Graph, Blocks
<1>2. <<k, b>> \in Kinds \X Nat
  BY <1>1
<1> QED BY <1>2, LiftAssumption DEF Remapped, LiftAssumption

\* Phis of the copies and behind them have an operand for every way in.
LEMMA PeeledPhis ==
  ASSUME NEW scc, NEW target, NEW copy, NEW m, Looping(scc, target, copy, m),
         Traces(norm), Named, PhisCopied(norm)
  PROVE  PhisCopied(m)
<1> DEFINE E == DOMAIN m.succs
           Operand(t, b) == <<phi[m.origin[t]][m.origin[b]][1], b>>
<1>1. /\ norm.succs \in [Blocks -> SUBSET Blocks]
      /\ scc \in SUBSET Blocks /\ target \in scc /\ Blocks \subseteq E
      /\ \A x \in scc : copy[x] \in E
      /\ \A x \in Blocks : Moved(copy, x) \in E
                           /\ Moved(copy, x) = IF x \in scc THEN copy[x] ELSE x
      /\ \A b \in E \ Blocks : \E x \in scc : b = copy[x]
  BY LoopCopied
<1>2. /\ \A b \in scc : m.origin[copy[b]] = norm.origin[b]
      /\ \A b \in Blocks : m.origin[b] = norm.origin[b]
      /\ \A b \in scc : copy[b] \notin Blocks
      /\ \A b, c \in scc : copy[b] = copy[c] => b = c
      /\ DOMAIN m.phis = DOMAIN norm.phis \cup {copy[b] : b \in scc \cap DOMAIN norm.phis}
  BY DEF Looping, Copying
<1>3. /\ \A b \in scc \cap DOMAIN norm.phis : m.phis[copy[b]] = CopiedPhi(scc, copy, b, target)
      /\ \A b \in Blocks \cap DOMAIN norm.phis :
           m.phis[b] = IF b = target THEN Restrict(norm.phis[b], DOMAIN norm.phis[b] \cap scc)
                       ELSE IF b \in scc THEN norm.phis[b]
                       ELSE MirroredPhi(scc, copy, b)
  BY DEF Looping, Copying
<1>4. /\ DOMAIN norm.phis = {t \in Blocks : norm.origin[t] \in DOMAIN phi}
      /\ \A t \in DOMAIN norm.phis :
           /\ DOMAIN norm.phis[t] = {a \in Blocks : t \in norm.succs[a]}
           /\ \A b \in DOMAIN norm.phis[t] :
                norm.phis[t][b] = <<phi[norm.origin[t]][norm.origin[b]][1], b>>
  BY DEF PhisCopied, Blocks
<1>5. ASSUME NEW t \in DOMAIN norm.phis, NEW b \in DOMAIN norm.phis[t]
      PROVE  /\ b \in Blocks /\ t \in norm.succs[b]
             /\ norm.phis[t][b] = Operand(t, b)
             /\ Remapped(copy, norm.phis[t][b]) = <<Operand(t, b)[1], Moved(copy, b)>>
             /\ b \notin scc => Remapped(copy, norm.phis[t][b]) = norm.phis[t][b]
  <2>1. b \in Blocks /\ t \in Blocks /\ t \in norm.succs[b]
    BY <1>4
  <2>2. /\ {norm.origin[s] : s \in norm.succs[b]} = Succs(norm.origin[b])
        /\ norm.origin[b] \in Original
    BY <2>1 DEF Looping, Graph, Traces, Blocks
  <2>3. norm.origin[b] \in Preds(norm.origin[t]) /\ norm.origin[t] \in DOMAIN phi
    BY <1>4, <2>1, <2>2 DEF Preds
  <2>4. phi[norm.origin[t]][norm.origin[b]][1] \in Kinds
    BY <2>3 DEF Named
  <2>5. norm.phis[t][b] = Operand(t, b)
    BY <1>2, <1>4, <2>1
  <2>6. Graph(norm)
    BY DEF Looping
  <2>7. PICK k \in Kinds : k = phi[norm.origin[t]][norm.origin[b]][1]
    BY <2>4
  <2>8. Operand(t, b) = <<k, b>>
    BY <1>2, <2>1, <2>7
  <2> HIDE DEF Operand
  <2>9. Remapped(copy, <<k, b>>) = <<k, Moved(copy, b)>>
    BY <2>1, <2>6, Remaps
  <2> QED BY <1>1, <2>1, <2>5, <2>8, <2>9
<1>6. DOMAIN m.phis = {t \in E : m.origin[t] \in DOMAIN phi}
  <2>1. ASSUME NEW t \in E PROVE t \in DOMAIN m.phis <=> m.origin[t] \in DOMAIN phi
    <3>1. CASE t \in Blocks
      BY <1>1, <1>2, <1>4, <3>1
    <3>2. CASE t \notin Blocks
      BY <1>1, <1>2, <1>4, <3>2
    <3> QED BY <3>1, <3>2
  <2>2. DOMAIN m.phis \subseteq E
    BY <1>1, <1>2, <1>4
  <2> QED BY <2>1, <2>2
<1> DEFINE Right(t) == /\ DOMAIN m.phis[t] = {a \in E : t \in m.succs[a]}
                       /\ \A b \in DOMAIN m.phis[t] : m.phis[t][b] = Operand(t, b)
<1>7. ASSUME NEW x \in scc \cap DOMAIN norm.phis PROVE Right(copy[x])
  <2> DEFINE f == norm.phis[x]
             kept == {p \in DOMAIN f : p \in scc \/ x = target}
  <2>1. m.phis[copy[x]] = [q \in {Moved(copy, p) : p \in kept} |->
                             Remapped(copy, f[CHOOSE p \in kept : Moved(copy, p) = q])]
    BY <1>3 DEF CopiedPhi
  <2>2. DOMAIN f = {a \in Blocks : x \in norm.succs[a]}
    BY <1>4
  <2>3. \A a \in E : copy[x] \in m.succs[a] <=> \E p \in kept : a = Moved(copy, p)
    BY <2>2, Ways
  <2>4. \A p \in kept : p \in DOMAIN f /\ p \in Blocks /\ Moved(copy, p) \in E
    BY <1>1, <2>2
  <2>5. \A p, q \in Blocks : Moved(copy, p) = Moved(copy, q) => p = q
    BY <1>1, <1>2
  <2>6. \A p \in Blocks : m.origin[Moved(copy, p)] = norm.origin[p]
    BY <1>1, <1>2
  <2>7. \A p \in kept : Remapped(copy, f[p]) = <<Operand(x, p)[1], Moved(copy, p)>>
    BY <1>5, <2>4
  <2>8. x \in Blocks
    BY <1>1
  <2> HIDE DEF f, kept
  <2>9. DOMAIN m.phis[copy[x]] = {a \in E : copy[x] \in m.succs[a]}
    BY <2>1, <2>3, <2>4
  <2>10. ASSUME NEW b \in DOMAIN m.phis[copy[x]]
         PROVE  m.phis[copy[x]][b] = Operand(copy[x], b)
    <3>1. PICK p \in kept : b = Moved(copy, p)
      BY <2>1
    <3>2. (CHOOSE q \in kept : Moved(copy, q) = b) = p
      BY <2>4, <2>5, <3>1
    <3>3. m.phis[copy[x]][b] = Remapped(copy, f[p])
      BY <2>1, <3>1, <3>2
    <3>4. m.phis[copy[x]][b] = <<Operand(x, p)[1], b>>
      BY <2>7, <3>1, <3>3
    <3>5. m.origin[copy[x]] = norm.origin[x] /\ m.origin[x] = norm.origin[x]
          /\ m.origin[b] = norm.origin[p] /\ m.origin[p] = norm.origin[p]
      BY <1>2, <2>4, <2>6, <2>8, <3>1
    <3> QED BY <3>4, <3>5
  <2> HIDE DEF Operand
  <2> QED BY <2>9, <2>10
<1>8. ASSUME NEW t \in Blocks, t \in DOMAIN norm.phis PROVE Right(t)
  <2>1. DOMAIN norm.phis[t] = {a \in Blocks : t \in norm.succs[a]}
    BY <1>4, <1>8
  <2>2. \A b \in DOMAIN norm.phis[t] :
          norm.phis[t][b] = Operand(t, b)
          /\ Remapped(copy, norm.phis[t][b]) = <<Operand(t, b)[1], Moved(copy, b)>>
    BY <1>5, <1>8
  <2>3. CASE t = target
    <3>1. m.phis[t] = Restrict(norm.phis[t], DOMAIN norm.phis[t] \cap scc)
      BY <1>3, <1>8, <2>3
    <3>2. DOMAIN m.phis[t] = DOMAIN norm.phis[t] \cap scc
          /\ \A b \in DOMAIN m.phis[t] : m.phis[t][b] = norm.phis[t][b]
      BY <3>1 DEF Restrict
    <3>3. {a \in E : t \in m.succs[a]} = DOMAIN norm.phis[t] \cap scc
      BY <1>1, <2>1, <2>3, Ways
    <3> HIDE DEF Operand
    <3> QED BY <2>2, <3>2, <3>3
  <2>4. CASE t # target /\ t \in scc
    <3>1. m.phis[t] = norm.phis[t]
      BY <1>3, <1>8, <2>4
    <3>2. {a \in E : t \in m.succs[a]} = DOMAIN norm.phis[t]
      BY <1>1, <2>1, <2>4, Ways
    <3> HIDE DEF Operand
    <3> QED BY <2>2, <3>1, <3>2
  <2>5. CASE t \notin scc
    <3> DEFINE f == norm.phis[t]
               exits == DOMAIN f \cap scc
    <3>1. m.phis[t] = [p \in DOMAIN f \cup {copy[q] : q \in exits} |->
                         IF p \in DOMAIN f THEN f[p]
                         ELSE Remapped(copy, f[CHOOSE q \in exits : copy[q] = p])]
      BY <1>1, <1>3, <1>8, <2>5 DEF MirroredPhi
    <3>2. DOMAIN m.phis[t] = DOMAIN f \cup {copy[q] : q \in exits}
      BY <3>1
    <3>3. \A a \in E : t \in m.succs[a] <=> \/ a \in DOMAIN f
                                           \/ \E q \in exits : a = copy[q]
      BY <1>1, <2>1, <2>5, Ways
    <3>4. DOMAIN m.phis[t] = {a \in E : t \in m.succs[a]}
      BY <1>1, <2>1, <3>2, <3>3
    <3>5. ASSUME NEW b \in DOMAIN m.phis[t] PROVE m.phis[t][b] = Operand(t, b)
      <4>1. CASE b \in DOMAIN f
        <5>1. m.phis[t][b] = f[b]
          BY <3>1, <4>1
        <5> QED BY <2>2, <4>1, <5>1
      <4>2. CASE b \notin DOMAIN f
        <5>1. PICK q \in exits : b = copy[q]
          BY <3>2, <4>2
        <5>2. (CHOOSE r \in exits : copy[r] = b) = q
          BY <1>2, <5>1
        <5> HIDE DEF Operand
        <5>3. m.phis[t][b] = Remapped(copy, f[q])
          <6> HIDE DEF f, exits
          <6>1. m.phis[t][b] = Remapped(copy, f[CHOOSE r \in exits : copy[r] = b])
            BY <3>1, <3>2, <4>2
          <6> QED BY <5>2, <6>1
        <5>4. Remapped(copy, f[q]) = <<Operand(t, q)[1], b>>
          <6>1. q \in DOMAIN norm.phis[t] /\ q \in scc
            BY <5>1
          <6>2. Moved(copy, q) = b
            BY <1>1, <5>1, <6>1
          <6> QED BY <2>2, <6>1, <6>2
        <5>5. m.origin[b] = m.origin[q]
          BY <1>1, <1>2, <5>1
        <5>6. Operand(t, b) = <<Operand(t, q)[1], b>>
          BY <5>5 DEF Operand
        <5> QED BY <5>3, <5>4, <5>6
      <4> QED BY <4>1, <4>2
    <3> QED BY <3>4, <3>5
  <2> QED BY <2>3, <2>4, <2>5
<1>9. ASSUME NEW t \in DOMAIN m.phis PROVE Right(t)
  <2>1. CASE t \in DOMAIN norm.phis
    BY <1>4, <1>8, <2>1
  <2>2. CASE t \notin DOMAIN norm.phis
    <3>1. PICK x \in scc \cap DOMAIN norm.phis : t = copy[x]
      BY <1>2, <2>2
    <3> HIDE DEF Right
    <3> QED BY <1>7, <3>1
  <2> QED BY <2>1, <2>2
<1> QED BY <1>6, <1>9 DEF PhisCopied

\* Copies read what their originals read, or the copy of it.
LEMMA PeeledUses ==
  ASSUME NEW scc, NEW target, NEW copy, NEW m, Looping(scc, target, copy, m),
         Named, UsesCopied(norm)
  PROVE  UsesCopied(m)
<1> DEFINE E == DOMAIN m.succs
<1>1. /\ scc \in SUBSET Blocks /\ Blocks \subseteq E
      /\ \A b \in scc : Cycle(norm.succs, b) = scc
      /\ \A x \in Blocks : Moved(copy, x) \in E
                           /\ Moved(copy, x) = IF x \in scc THEN copy[x] ELSE x
      /\ \A b \in E \ Blocks : \E x \in scc : b = copy[x]
  BY LoopCopied
<1>2. /\ \A b \in scc : /\ m.origin[copy[b]] = norm.origin[b]
                        /\ m.uses[copy[b]] = Remapped(copy, norm.uses[b])
      /\ \A b \in Blocks : m.origin[b] = norm.origin[b] /\ m.uses[b] = norm.uses[b]
  BY DEF Looping, Copying
<1>3. /\ \A b \in Blocks : Cycle(norm.succs, b) \subseteq Cycle(m.succs, b)
      /\ \A b, c \in scc : copy[c] \in Cycle(m.succs, copy[b])
  BY CyclesKept
<1>4. \A b \in Blocks : norm.origin[b] \in Original
  BY DEF Looping, Graph, Blocks
<1> DEFINE Right(b, uses, B, C, origin) ==
             LET v == reads[origin]
             IN  \/ v \in {None, Hole} /\ uses = v
                 \/ \E y \in B :
                      /\ v \notin {None, Hole}
                      /\ uses = <<v[1], y>> /\ m.origin[y] = v[2]
                      /\ origin \in Cycle(Source, v[2]) => y \in C
<1>5. ASSUME NEW b \in Blocks
      PROVE  LET v == reads[norm.origin[b]]
             IN  \/ v \in {None, Hole} /\ norm.uses[b] = v
                 \/ \E y \in Blocks :
                      /\ v \notin {None, Hole} /\ v[1] \in Kinds
                      /\ norm.uses[b] = <<v[1], y>> /\ norm.origin[y] = v[2]
                      /\ norm.origin[b] \in Cycle(Source, v[2]) => y \in Cycle(norm.succs, b)
  <2>1. reads[norm.origin[b]] \notin {None, Hole} => reads[norm.origin[b]][1] \in Kinds
    BY <1>4 DEF Named, Operands
  <2> QED BY <2>1 DEF UsesCopied, Blocks
<1>6. ASSUME NEW b \in E
      PROVE  LET v == reads[m.origin[b]]
             IN  \/ v \in {None, Hole} /\ m.uses[b] = v
                 \/ \E y \in E :
                      /\ v \notin {None, Hole}
                      /\ m.uses[b] = <<v[1], y>> /\ m.origin[y] = v[2]
                      /\ m.origin[b] \in Cycle(Source, v[2]) => y \in Cycle(m.succs, b)
  <2>1. CASE b \in Blocks
    <3>1. m.origin[b] = norm.origin[b] /\ m.uses[b] = norm.uses[b]
      BY <1>2, <2>1
    <3>2. PICK v : v = reads[norm.origin[b]]
      OBVIOUS
    <3>3. CASE v \in {None, Hole} /\ norm.uses[b] = v
      BY <3>1, <3>2, <3>3
    <3>4. CASE ~ (v \in {None, Hole} /\ norm.uses[b] = v)
      <4>1. PICK y \in Blocks :
              /\ v \notin {None, Hole}
              /\ norm.uses[b] = <<v[1], y>> /\ norm.origin[y] = v[2]
              /\ norm.origin[b] \in Cycle(Source, v[2]) => y \in Cycle(norm.succs, b)
        BY <1>5, <2>1, <3>2, <3>4
      <4>2. y \in E /\ m.origin[y] = v[2]
            /\ (m.origin[b] \in Cycle(Source, v[2]) => y \in Cycle(m.succs, b))
        BY <1>1, <1>2, <1>3, <2>1, <3>1, <4>1
      <4> QED BY <3>1, <3>2, <4>1, <4>2
    <3> QED BY <3>3, <3>4
  <2>2. CASE b \notin Blocks
    <3>1. PICK x \in scc : b = copy[x]
      BY <1>1, <2>2
    <3>2. m.origin[b] = norm.origin[x] /\ m.uses[b] = Remapped(copy, norm.uses[x]) /\ x \in Blocks
      BY <1>1, <1>2, <3>1
    <3>3. PICK v : v = reads[norm.origin[x]]
      OBVIOUS
    <3>4. CASE v \in {None, Hole} /\ norm.uses[x] = v
      BY <3>2, <3>3, <3>4 DEF Remapped
    <3>5. CASE ~ (v \in {None, Hole} /\ norm.uses[x] = v)
      <4>1. PICK y \in Blocks :
              /\ v \notin {None, Hole} /\ v[1] \in Kinds
              /\ norm.uses[x] = <<v[1], y>> /\ norm.origin[y] = v[2]
              /\ norm.origin[x] \in Cycle(Source, v[2]) => y \in Cycle(norm.succs, x)
        BY <1>5, <3>2, <3>3, <3>5
      <4>2. PICK z : z = Moved(copy, y)
        OBVIOUS
      <4>3. m.uses[b] = <<v[1], z>>
        <5>1. Graph(norm)
          BY DEF Looping
        <5>2. Remapped(copy, <<v[1], y>>) = <<v[1], Moved(copy, y)>>
          BY <4>1, <5>1, Remaps
        <5> QED BY <3>2, <4>1, <4>2, <5>2
      <4>4. z \in E /\ m.origin[z] = v[2]
        BY <1>1, <1>2, <4>1, <4>2
      <4>5. ASSUME m.origin[b] \in Cycle(Source, v[2]) PROVE z \in Cycle(m.succs, b)
        <5>1. y \in scc
          BY <1>1, <3>1, <3>2, <4>1, <4>5
        <5> QED BY <1>1, <1>3, <3>1, <4>2, <5>1
      <4> QED BY <3>2, <3>3, <4>1, <4>3, <4>4, <4>5
    <3> QED BY <3>4, <3>5
  <2> QED BY <2>1, <2>2
<1> QED BY <1>6 DEF UsesCopied

\* What the lifter made has these names.
LEMMA LiftedNames == LiftInv /\ round = 3 => Named
<1> SUFFICES ASSUME LiftInv, round = 3 PROVE Named
  OBVIOUS
<1>1. Merges /\ AllDone
  BY LiftedMerges
<1>2. RoundInv
  BY DEF LiftInv
<1>3. DOMAIN phi \subseteq Original /\ \A b \in Original : reads[b] \in Operands
  <2>1. DOMAIN phi \subseteq Done /\ \A b \in Done : reads[b] \in Operands
    BY <1>2 DEF RoundInv, Phis, Reads
  <2> QED BY <1>1, <2>1 DEF AllDone
<1>4. \A p \in DOMAIN blockDefs : blockDefs[p] \in Kinds \X {p}
  BY <1>2 DEF RoundInv, Defines
<1>5. ASSUME NEW t \in DOMAIN phi, NEW p \in Preds(t)
      PROVE  phi[t][p] = <<phi[t][p][1], p>> /\ phi[t][p][1] \in Kinds
  <2>1. phi[t][p] \in Kinds \X {p}
    BY <1>1, <1>4 DEF Merges
  <2> QED BY <2>1
<1> QED BY <1>1, <1>3, <1>5 DEF Named, Merges, AllDone

\* Before anything is copied every block is its own original.
LEMMA LiftedMethod ==
  ASSUME Named, flow \in Shapes, NEW m,
         m.succs = Source, m.phis = phi, m.uses = reads,
         m.origin = [b \in Original |-> b]
  PROVE  Origins(m) /\ Together(m) /\ Apart(m) /\ PhisCopied(m) /\ UsesCopied(m)
<1>1. /\ m.succs = Source /\ m.phis = phi /\ m.uses = reads
      /\ m.origin = [b \in Original |-> b]
  OBVIOUS
<1>2. /\ IsFiniteSet(Original) /\ Source \in [Original -> SUBSET Original]
      /\ \A b \in Original : Source[b] = Succs(b) /\ Succs(b) \subseteq Original
  BY Successors, LiftAssumption DEF Source, LiftAssumption
<1>3. DOMAIN m.succs = Original /\ \A b \in Original : m.origin[b] = b /\ m.succs[b] = Succs(b)
  BY <1>1, <1>2
<1>4. \A b \in Original : /\ b \in Cycle(Source, b) /\ Cycle(Source, b) \in SUBSET Original
                          /\ \A c \in Cycle(Source, b) : Cycle(Source, c) = Cycle(Source, b)
  BY <1>2, Cycles
<1>5. Origins(m) /\ Together(m) /\ Apart(m)
  <2>1. Origins(m)
    BY <1>3 DEF Origins
  <2>2. Together(m)
    BY <1>1, <1>2, <1>3 DEF Together
  <2>3. Apart(m)
    BY <1>1, <1>3, <1>4 DEF Apart
  <2> QED BY <2>1, <2>2, <2>3
<1>6. PhisCopied(m)
  <2>1. DOMAIN phi = {t \in Original : m.origin[t] \in DOMAIN phi}
    BY <1>3 DEF Named
  <2>2. ASSUME NEW t \in DOMAIN phi
        PROVE  /\ DOMAIN phi[t] = {a \in Original : t \in m.succs[a]}
               /\ \A b \in DOMAIN phi[t] : phi[t][b] = <<phi[m.origin[t]][m.origin[b]][1], b>>
    <3>1. t \in Original /\ DOMAIN phi[t] = Preds(t)
      BY DEF Named
    <3>2. Preds(t) = {a \in Original : t \in m.succs[a]}
      BY <1>3 DEF Preds
    <3>3. m.origin[t] = t /\ \A b \in Preds(t) : m.origin[b] = b
      BY <1>3, <3>1, <3>2
    <3>4. \A b \in Preds(t) : phi[t][b] = <<phi[t][b][1], b>>
      BY DEF Named
    <3>5. ASSUME NEW b \in DOMAIN phi[t]
          PROVE  phi[t][b] = <<phi[m.origin[t]][m.origin[b]][1], b>>
      <4>1. b \in Preds(t) /\ m.origin[b] = b
        BY <3>1, <3>3
      <4>2. phi[t][b] = <<phi[t][b][1], b>>
        BY <3>4, <4>1
      <4>3. phi[m.origin[t]][m.origin[b]] = phi[t][b]
        BY <3>3, <4>1
      <4> QED BY <4>2, <4>3, Zenon
    <3>6. DOMAIN phi[t] = {a \in Original : t \in m.succs[a]}
      BY <3>1, <3>2, Zenon
    <3> QED BY <3>5, <3>6, Zenon
  <2>3. m.phis = phi /\ DOMAIN m.succs = Original
    BY <1>1, <1>3
  <2>4. DOMAIN m.phis = {t \in DOMAIN m.succs : m.origin[t] \in DOMAIN phi}
    BY <2>1, <2>3
  <2>5. ASSUME NEW t \in DOMAIN m.phis
        PROVE  /\ DOMAIN m.phis[t] = {a \in DOMAIN m.succs : t \in m.succs[a]}
               /\ \A b \in DOMAIN m.phis[t] :
                    m.phis[t][b] = <<phi[m.origin[t]][m.origin[b]][1], b>>
    BY <2>2, <2>3
  <2> QED BY <2>4, <2>5 DEF PhisCopied
<1>7. ASSUME NEW b \in Original
      PROVE  LET v == reads[m.origin[b]]
             IN  \/ v \in {None, Hole} /\ m.uses[b] = v
                 \/ \E y \in Original :
                      /\ v \notin {None, Hole}
                      /\ m.uses[b] = <<v[1], y>> /\ m.origin[y] = v[2]
                      /\ m.origin[b] \in Cycle(Source, v[2]) => y \in Cycle(m.succs, b)
  <2>1. PICK v : v = reads[b]
    OBVIOUS
  <2>2. m.origin[b] = b /\ m.uses[b] = v /\ v \in Operands
    BY <1>1, <1>3, <2>1 DEF Named
  <2>3. CASE v \in {None, Hole}
    BY <2>1, <2>2, <2>3
  <2>4. CASE v \notin {None, Hole}
    <3>1. v \in Kinds \X Original
      BY <2>2, <2>4 DEF Operands
    <3>2. PICK y \in Original : y = v[2]
      BY <3>1
    <3>3. m.uses[b] = <<v[1], y>> /\ m.origin[y] = v[2]
      BY <1>3, <2>2, <3>1, <3>2
    <3>4. b \in Cycle(Source, v[2]) => y \in Cycle(m.succs, b)
      BY <1>1, <1>4, <3>2
    <3> QED BY <2>1, <2>2, <2>4, <3>3, <3>4
  <2> QED BY <2>3, <2>4
<1> QED BY <1>3, <1>5, <1>6, <1>7 DEF UsesCopied

-----------------------------------------------------------------------------
(* Every step keeps the two methods alike.                                 *)

LEMMA AlikeStays ==
  ASSUME flow' = flow, phi' = phi, reads' = reads, Alike(norm')
  PROVE  Alike(norm)'
<1>1. Source' = Source
  BY DEF Source, Succs
<1>2. Origins(norm)' /\ Apart(norm)' /\ Together(norm)'
  BY <1>1 DEF Alike, Origins, Apart, Together
<1>3. PhisCopied(norm)'
  BY DEF Alike, PhisCopied
<1>4. UsesCopied(norm)'
  BY <1>1 DEF Alike, UsesCopied
<1> QED BY <1>2, <1>3, <1>4 DEF Alike

\* Every step keeps the method being normalised like the lifted one.
LEMMA PeelStep == LiftInv /\ NormInv /\ MergeInv /\ PeelInv /\ [Next]_vars => PeelInv'
<1> SUFFICES ASSUME LiftInv, NormInv, MergeInv, PeelInv, [Next]_vars PROVE PeelInv'
  OBVIOUS
<1>1. CASE Lift
  BY <1>1 DEF Lift, PeelInv
<1>2. CASE StartPeeling
  <2>1. /\ round = 3 /\ flow' = flow /\ phi' = phi /\ reads' = reads
        /\ norm' = [succs |-> [b \in Original |-> Succs(b)], phis |-> phi,
                    uses |-> reads, origin |-> [b \in Original |-> b]]
    BY <1>2 DEF StartPeeling, liftVars, method, lifted
  <2>2. /\ norm'.succs = Source /\ norm'.phis = phi /\ norm'.uses = reads
        /\ norm'.origin = [b \in Original |-> b]
    BY <2>1 DEF Source
  <2>3. Named /\ flow \in Shapes
    BY <2>1, LiftedNames DEF NormInv
  <2>4. Alike(norm')
    BY <2>2, <2>3, LiftedMethod DEF Alike
  <2> QED BY <2>1, <2>4, AlikeStays DEF PeelInv
<1>3. CASE Peel
  <2>1. PICK scc \in Candidates : \E target \in Targets(scc) : norm' = Peeled(scc, target)
    BY <1>3 DEF Peel
  <2>2. PICK target \in Targets(scc) : norm' = Peeled(scc, target)
    BY <2>1
  <2>3. /\ stage = "peel" /\ flow' = flow /\ phi' = phi /\ reads' = reads
    BY <1>3 DEF Peel, liftVars, method, lifted
  <2>4. Graph(norm) /\ Traces(norm) /\ Alike(norm) /\ Named
    BY <2>3, LiftedNames DEF NormInv, PeelInv, MergeInv
  <2>5. scc \in SUBSET Blocks /\ target \in scc
    BY <2>2, <2>4, LoopsOf DEF Candidates
  <2>6. scc = Cycle(norm.succs, target)
    <3>1. PICK b \in OnCycle : scc = Cycle(norm.succs, b)
      BY <2>1 DEF Candidates, Loops
    <3>2. b \in Blocks /\ IsFiniteSet(Blocks) /\ norm.succs \in [Blocks -> SUBSET Blocks]
      BY <2>4 DEF OnCycle, Graph, Blocks
    <3> QED BY <2>5, <3>1, <3>2, Cycles
  <2>7. Looping(scc, target, CopyOf(scc), norm')
    <3>1. Graph(norm')
      BY <2>2, <2>3, <2>4, <2>5, PeeledTraces DEF NormInv
    <3>2. Copying(scc, target, CopyOf(scc), norm')
      BY <2>2, <2>4, <2>5, PeeledCopies
    <3> QED BY <2>4, <2>5, <2>6, <3>1, <3>2 DEF Looping
  <2>8. Alike(norm')
    <3>1. Origins(norm') /\ Together(norm') /\ Apart(norm')
      BY <2>4, <2>7, PeeledCycles DEF Alike
    <3>2. PhisCopied(norm')
      BY <2>4, <2>7, PeeledPhis DEF Alike
    <3>3. UsesCopied(norm')
      BY <2>4, <2>7, PeeledUses DEF Alike
    <3> QED BY <3>1, <3>2, <3>3 DEF Alike
  <2> QED BY <2>3, <2>8, AlikeStays DEF PeelInv
<1>4. CASE EndPeeling \/ Start \/ Step \/ UNCHANGED vars
  <2>1. /\ norm' = norm /\ flow' = flow /\ phi' = phi /\ reads' = reads
        /\ stage' # "lift" => stage # "lift"
    BY <1>4 DEF EndPeeling, Start, Step, vars, liftVars, method, lifted
  <2>2. ASSUME Alike(norm) PROVE Alike(norm)'
    <3>1. Alike(norm')
      BY <2>1, <2>2
    <3> QED BY <2>1, <3>1, AlikeStays
  <2> QED BY <2>1, <2>2 DEF PeelInv
<1> QED BY <1>1, <1>2, <1>3, <1>4 DEF Next

-----------------------------------------------------------------------------
(* What the values hold as the two methods run.                            *)

\* What is put when here is left for s: its write, and the phi of s.
Left(v, k, x, o, s, t, b, at) ==
  IF s \in DOMAIN phi /\ k = "phi" /\ x = t THEN v
  ELSE IF o \in writes /\ k = "def" /\ x = b THEN o
  ELSE Content(at, <<k, x>>)

\* What values hold when a block is left for another.
LEMMA Leaving ==
  ASSUME NEW f, NEW b, NEW o, NEW s, NEW t, NEW phis, NEW k0 \in Kinds,
         t \in DOMAIN phis <=> s \in DOMAIN phi,
         t \in DOMAIN phis => b \in DOMAIN phis[t] /\ phis[t][b] = <<k0, b>>,
         NEW v, v = IF o \in writes /\ k0 = "def" THEN o ELSE Content(f, <<k0, b>>),
         NEW g, g = After(f, b, o, t, phis)
  PROVE  /\ \A k, x : Content(g, <<k, x>>) = Left(v, k, x, o, s, t, b, f)
         /\ \A w \in DOMAIN g : w \in DOMAIN f \/ w = <<"def", b>> \/ w = <<"phi", t>>
<1> DEFINE written == IF o \in writes THEN Put(f, <<"def", b>>, o) ELSE f
<1>1. \A k, x : Content(written, <<k, x>>) =
                  IF o \in writes /\ k = "def" /\ x = b THEN o ELSE Content(f, <<k, x>>)
  BY ContentPut
<1>2. \A w \in DOMAIN written : w \in DOMAIN f \/ w = <<"def", b>>
  BY DEF Put
<1>3. Content(written, <<k0, b>>) = v
  BY <1>1
<1>4. g = IF t \in DOMAIN phis /\ b \in DOMAIN phis[t]
          THEN Put(written, <<"phi", t>>, Content(written, phis[t][b]))
          ELSE written
  BY DEF After
<1> HIDE DEF written
<1>5. g = IF s \in DOMAIN phi THEN Put(written, <<"phi", t>>, v) ELSE written
  BY <1>3, <1>4
<1>6. ASSUME NEW k, NEW x PROVE Content(g, <<k, x>>) = Left(v, k, x, o, s, t, b, f)
  <2>1. <<k, x>> = <<"phi", t>> <=> k = "phi" /\ x = t
    OBVIOUS
  <2>2. Content(g, <<k, x>>) = IF s \in DOMAIN phi /\ <<k, x>> = <<"phi", t>> THEN v
                               ELSE Content(written, <<k, x>>)
    BY <1>5, ContentPut
  <2> QED BY <1>1, <2>1, <2>2 DEF Left
<1>7. \A w \in DOMAIN g : w \in DOMAIN f \/ w = <<"def", b>> \/ w = <<"phi", t>>
  BY <1>2, <1>5 DEF Put
<1> QED BY <1>6, <1>7

\* A block that a value was made in reaches wherever it is held.
LEMMA HeldBehind ==
  ASSUME NEW D, IsFiniteSet(D), NEW succs \in [D -> SUBSET D], NEW b \in D, NEW t \in succs[b],
         NEW v, \/ v \in Kinds \X D /\ b \in Reached(succs, {v[2]})
                \/ v = <<"def", b>>
                \/ v = <<"phi", t>>
  PROVE  v \in Kinds \X D /\ t \in Reached(succs, {v[2]})
<1>1. t \in D
  OBVIOUS
<1>2. \A x \in D : x \in Reached(succs, {x})
                   /\ \A y \in Reached(succs, {x}) : succs[y] \subseteq Reached(succs, {x})
  BY Onward
<1>3. CASE v \in Kinds \X D /\ b \in Reached(succs, {v[2]})
  <2>1. v \in Kinds \X D /\ b \in Reached(succs, {v[2]}) /\ v[2] \in D
    BY <1>3
  <2> QED BY <1>2, <2>1
<1>4. CASE v = <<"def", b>>
  BY <1>2, <1>4 DEF Kinds
<1>5. CASE v = <<"phi", t>>
  BY <1>1, <1>2, <1>5 DEF Kinds
<1> QED BY <1>3, <1>4, <1>5

\* Behind a cycle nothing is held yet that a block of it makes.
LEMMA NotYet ==
  ASSUME NEW D, IsFiniteSet(D), NEW succs \in [D -> SUBSET D], NEW b \in D, NEW t \in succs[b],
         t \notin Cycle(succs, b), NEW y \in Cycle(succs, t)
  PROVE  y # b /\ b \notin Reached(succs, {y})
<1>1. t \in D /\ y \in Reached(succs, {t})
  BY DEF Cycle
<1>2. \A x \in D : /\ x \in Reached(succs, {x})
                   /\ \A z \in Reached(succs, {x}) :
                        /\ succs[z] \subseteq Reached(succs, {x})
                        /\ Reached(succs, {z}) \subseteq Reached(succs, {x})
  BY Onward
<1>3. t \in Reached(succs, {b})
  BY <1>2
<1>4. b \notin Reached(succs, {t})
  BY <1>3 DEF Cycle
<1>5. Reached(succs, {y}) \subseteq Reached(succs, {t})
  BY <1>1, <1>2
<1> QED BY <1>1, <1>4, <1>5

\* Both methods go on to blocks that are alike, and what the values of the two
\* hold is the same as far as it was.
LEMMA StepCarries ==
  ASSUME LiftInv, NormInv, MergeInv, PeelInv, CarryInv, Step
  PROVE  CarryInv'
<1>1. stage = "run" /\ round = 3
  BY DEF Step, MergeInv
<1>2. PICK s \in Succs(here) : \E t \in norm.succs[there] :
        /\ norm.origin[t] = s
        /\ here' = s /\ there' = t
        /\ held' = After(held, here, here, s, phi)
        /\ heldThere' = After(heldThere, there, here, t, norm.phis)
  BY DEF Step
<1>3. PICK t \in norm.succs[there] :
        /\ norm.origin[t] = s
        /\ here' = s /\ there' = t
        /\ held' = After(held, here, here, s, phi)
        /\ heldThere' = After(heldThere, there, here, t, norm.phis)
  BY <1>2
<1>4. norm' = norm /\ flow' = flow
  BY DEF Step, liftVars, method
<1>5. Named /\ Alike(norm) /\ Graph(norm) /\ Traces(norm) /\ flow \in Shapes
  BY <1>1, LiftedNames DEF PeelInv, NormInv
<1>6. /\ IsFiniteSet(Blocks) /\ norm.succs \in [Blocks -> SUBSET Blocks]
      /\ \A b \in Blocks : norm.origin[b] \in Original
  BY <1>5 DEF Graph, Blocks
<1>7. /\ IsFiniteSet(Original) /\ Source \in [Original -> SUBSET Original]
      /\ \A b \in Original : Source[b] = Succs(b)
  BY <1>5, Successors, LiftAssumption DEF Source, LiftAssumption
<1>8. /\ there \in Blocks /\ norm.origin[there] = here
      /\ \A x \in Original \ Copied : \A k \in Kinds :
           Content(held, <<k, x>>) = Content(heldThere, <<k, x>>)
      /\ \A y \in Cycle(norm.succs, there) : \A k \in Kinds :
           Content(held, <<k, norm.origin[y]>>) = Content(heldThere, <<k, y>>)
      /\ \A v \in DOMAIN held : v \in Kinds \X Original /\ here \in Reached(Source, {v[2]})
      /\ \A v \in DOMAIN heldThere : v \in Kinds \X Blocks /\ there \in Reached(norm.succs, {v[2]})
  BY <1>1 DEF CarryInv, Behind
<1>9. here \in Original /\ s \in Source[here] /\ s \in Original /\ t \in Blocks
  BY <1>2, <1>3, <1>6, <1>7, <1>8
<1>10. /\ \A b \in Blocks : \A c \in Cycle(norm.succs, b) : \A d \in Cycle(norm.succs, b) :
            norm.origin[c] = norm.origin[d] => c = d
       /\ \A b \in Blocks : /\ b \in Cycle(norm.succs, b) /\ Cycle(norm.succs, b) \subseteq Blocks
                            /\ \A c \in Cycle(norm.succs, b) :
                                 Cycle(norm.succs, c) = Cycle(norm.succs, b)
  BY <1>5, <1>6, Cycles DEF Alike, Apart, Blocks
\* Operands of the two phis, and what they bring.
<1>11. PICK k0 \in Kinds :
         /\ s \in DOMAIN phi => here \in DOMAIN phi[s] /\ phi[s][here] = <<k0, here>>
         /\ t \in DOMAIN norm.phis <=> s \in DOMAIN phi
         /\ t \in DOMAIN norm.phis =>
              there \in DOMAIN norm.phis[t] /\ norm.phis[t][there] = <<k0, there>>
  <2>1. t \in DOMAIN norm.phis <=> s \in DOMAIN phi
    BY <1>3, <1>5, <1>9 DEF Alike, PhisCopied, Blocks
  <2>2. CASE s \in DOMAIN phi
    <3>1. here \in Preds(s)
      BY <1>2, <1>9 DEF Preds
    <3>2. /\ here \in DOMAIN phi[s] /\ phi[s][here] = <<phi[s][here][1], here>>
          /\ phi[s][here][1] \in Kinds
      BY <1>5, <2>2, <3>1 DEF Named
    <3>3. there \in DOMAIN norm.phis[t]
          /\ norm.phis[t][there] = <<phi[norm.origin[t]][norm.origin[there]][1], there>>
      BY <1>3, <1>5, <1>8, <2>1, <2>2 DEF Alike, PhisCopied, Blocks
    <3>4. norm.phis[t][there] = <<phi[s][here][1], there>>
      BY <1>3, <1>8, <3>3
    <3> QED BY <2>1, <3>2, <3>3, <3>4
  <2>3. CASE s \notin DOMAIN phi
    BY <2>1, <2>3 DEF Kinds
  <2> QED BY <2>2, <2>3
<1>12. PICK v : /\ v = IF here \in writes /\ k0 = "def" THEN here ELSE Content(held, <<k0, here>>)
                /\ v = IF here \in writes /\ k0 = "def" THEN here
                       ELSE Content(heldThere, <<k0, there>>)
  BY <1>8, <1>10
<1>13. /\ \A k, x : Content(held', <<k, x>>) = Left(v, k, x, here, s, s, here, held)
       /\ \A w \in DOMAIN held' : w \in DOMAIN held \/ w = <<"def", here>> \/ w = <<"phi", s>>
  <2>1. held' = After(held, here, here, s, phi)
    BY <1>3
  <2> QED BY <1>11, <1>12, <2>1, Leaving
<1>14. /\ \A k, x : Content(heldThere', <<k, x>>) = Left(v, k, x, here, s, t, there, heldThere)
       /\ \A w \in DOMAIN heldThere' :
            w \in DOMAIN heldThere \/ w = <<"def", there>> \/ w = <<"phi", t>>
  <2>1. heldThere' = After(heldThere, there, here, t, norm.phis)
    BY <1>3
  <2> QED BY <1>11, <1>12, <2>1, Leaving
<1>15. ASSUME NEW w \in DOMAIN held'
       PROVE  w \in Kinds \X Original /\ s \in Reached(Source, {w[2]})
  <2>1. \/ w \in Kinds \X Original /\ here \in Reached(Source, {w[2]})
        \/ w = <<"def", here>>
        \/ w = <<"phi", s>>
    BY <1>8, <1>13
  <2> QED BY <1>7, <1>9, <2>1, HeldBehind
<1>16. ASSUME NEW w \in DOMAIN heldThere'
       PROVE  w \in Kinds \X Blocks /\ t \in Reached(norm.succs, {w[2]})
  <2>1. \/ w \in Kinds \X Blocks /\ there \in Reached(norm.succs, {w[2]})
        \/ w = <<"def", there>>
        \/ w = <<"phi", t>>
    BY <1>8, <1>14
  <2> QED BY <1>6, <1>8, <2>1, HeldBehind
\* A block that has no copy is its own, and no other's.
<1>17. ASSUME NEW x \in Original \ Copied, NEW k \in Kinds
       PROVE  Content(held', <<k, x>>) = Content(heldThere', <<k, x>>)
  <2>1. \A b \in Blocks : norm.origin[b] = x <=> b = x
    BY <1>5 DEF Alike, Origins, Copied, Blocks
  <2>2. (x = here <=> x = there) /\ (x = s <=> x = t)
    BY <1>3, <1>8, <1>9, <2>1
  <2> QED BY <1>8, <1>13, <1>14, <2>2 DEF Left
<1>18. ASSUME NEW y \in Cycle(norm.succs, t), NEW k \in Kinds
       PROVE  Content(held', <<k, norm.origin[y]>>) = Content(heldThere', <<k, y>>)
  <2>1. PICK x : x = norm.origin[y]
    OBVIOUS
  <2>2. x = s <=> y = t
    BY <1>3, <1>9, <1>10, <2>1
  <2>3. CASE t \in Cycle(norm.succs, there)
    <3>1. y \in Cycle(norm.succs, there)
      BY <1>8, <1>10, <2>3
    <3>2. x = here <=> y = there
      BY <1>8, <1>10, <2>1, <3>1
    <3>3. Content(held, <<k, x>>) = Content(heldThere, <<k, y>>)
      BY <1>8, <2>1, <3>1
    <3> QED BY <1>13, <1>14, <2>1, <2>2, <3>2, <3>3 DEF Left
  <2>4. CASE t \notin Cycle(norm.succs, there)
    <3>1. y # there /\ there \notin Reached(norm.succs, {y})
      BY <1>6, <1>8, <2>4, NotYet
    <3>2. s \notin Cycle(Source, here)
      BY <1>3, <1>5, <1>8, <2>4 DEF Alike, Together, Blocks
    <3>3. x \in Cycle(Source, s)
      <4>1. /\ norm.origin \in [Blocks -> Original]
            /\ \A a \in Blocks : \A c \in norm.succs[a] :
                 norm.origin[c] \in Source[norm.origin[a]]
        <5>1. norm.origin \in [Blocks -> Original]
          BY <1>5 DEF Graph, Blocks
        <5>2. ASSUME NEW a \in Blocks, NEW c \in norm.succs[a]
              PROVE  norm.origin[c] \in Source[norm.origin[a]]
          <6>1. {norm.origin[d] : d \in norm.succs[a]} = Succs(norm.origin[a])
            BY <1>5 DEF Traces, Blocks
          <6> QED BY <1>6, <1>7, <6>1
        <5> QED BY <5>1, <5>2
      <4>2. \A e \in Blocks : \A d \in Cycle(norm.succs, e) :
              norm.origin[d] \in Cycle(Source, norm.origin[e])
        BY <1>6, <1>7, <4>1, Homomorphism
      <4> QED BY <1>3, <1>9, <2>1, <4>2
    <3>4. x # here /\ here \notin Reached(Source, {x})
      BY <1>7, <1>9, <3>2, <3>3, NotYet
    <3>5. <<k, x>> \notin DOMAIN held /\ <<k, y>> \notin DOMAIN heldThere
      BY <1>8, <3>1, <3>4
    <3>6. Content(held, <<k, x>>) = None /\ Content(heldThere, <<k, y>>) = None
      BY <3>5 DEF Content
    <3> QED BY <1>13, <1>14, <2>1, <2>2, <3>1, <3>4, <3>6 DEF Left
  <2> QED BY <2>3, <2>4
<1>19. Copied' = Copied /\ Blocks' = Blocks /\ Source' = Source
  BY <1>4 DEF Copied, Blocks, Source, Succs
<1>20. here' = s /\ there' = t /\ there' \in Blocks' /\ norm'.origin[there'] = here'
  BY <1>3, <1>4, <1>9, <1>19
<1>21. Behind'
  BY <1>4, <1>15, <1>16, <1>19, <1>20 DEF Behind
<1> QED BY <1>4, <1>17, <1>18, <1>19, <1>20, <1>21 DEF CarryInv

\* A parameter is the same in both methods when they begin.
LEMMA StartCarries ==
  ASSUME NormInv, MergeInv, PeelInv, Start
  PROVE  CarryInv'
<1>1. /\ stage = "ready" /\ here' = here /\ there' = there /\ norm' = norm /\ flow' = flow
      /\ held' = IF isParam THEN [v \in {Argument} |-> Entry] ELSE Empty
      /\ heldThere' = held'
  BY DEF Start, liftVars, method
<1>2. here = Entry /\ there = Entry /\ Graph(norm) /\ Alike(norm) /\ flow \in Shapes
  BY <1>1 DEF MergeInv, NormInv, PeelInv
<1>3. /\ IsFiniteSet(Blocks) /\ norm.succs \in [Blocks -> SUBSET Blocks]
      /\ IsFiniteSet(Original) /\ Source \in [Original -> SUBSET Original]
  BY <1>2, Successors, LiftAssumption DEF Graph, Blocks, Source, LiftAssumption
<1>4. Entry \in Original /\ Entry \in Blocks /\ norm.origin[Entry] = Entry
  BY <1>2, LiftAssumption DEF Alike, Origins, Blocks, LiftAssumption
<1>5. DOMAIN held' \subseteq {<<"arg", Entry>>}
  BY <1>1 DEF Argument, Empty
<1>6. Entry \in Reached(Source, {Entry}) /\ Entry \in Reached(norm.succs, {Entry})
  BY <1>3, <1>4, Onward
<1>7. \A v \in DOMAIN held' : /\ v \in Kinds \X Original /\ v \in Kinds \X Blocks
                              /\ v[2] = Entry
  BY <1>4, <1>5 DEF Kinds
<1>8. Source' = Source /\ Blocks' = Blocks /\ Copied' = Copied
  BY <1>1 DEF Source, Succs, Blocks, Copied
<1>9. Behind'
  BY <1>1, <1>2, <1>6, <1>7, <1>8 DEF Behind
<1>10. ASSUME NEW y \in Cycle(norm.succs, Entry), NEW k \in Kinds
       PROVE  Content(held', <<k, norm.origin[y]>>) = Content(held', <<k, y>>)
  <2>1. norm.origin[y] = Entry => y = Entry
    BY <1>2, <1>3, <1>4, Cycles DEF Alike, Apart, Blocks
  <2>2. CASE y = Entry
    BY <1>4, <2>2
  <2>3. CASE y # Entry
    <3>1. <<k, norm.origin[y]>> \notin DOMAIN held' /\ <<k, y>> \notin DOMAIN held'
      BY <1>5, <2>1, <2>3
    <3> QED BY <3>1 DEF Content
  <2> QED BY <2>2, <2>3
<1> QED BY <1>1, <1>2, <1>4, <1>8, <1>9, <1>10 DEF CarryInv

\* Every step keeps what the values of the two methods have in common.
LEMMA CarryStep ==
  LiftInv /\ NormInv /\ MergeInv /\ PeelInv /\ CarryInv /\ [Next]_vars => CarryInv'
<1> SUFFICES ASSUME LiftInv, NormInv, MergeInv, PeelInv, CarryInv, [Next]_vars PROVE CarryInv'
  OBVIOUS
<1>1. CASE Step
  BY <1>1, StepCarries
<1>2. CASE Start
  BY <1>2, StartCarries
<1>3. CASE Lift \/ StartPeeling \/ Peel \/ EndPeeling
  <2>1. stage' # "run"
    BY <1>3 DEF Lift, StartPeeling, Peel, EndPeeling
  <2> QED BY <2>1 DEF CarryInv
<1>4. CASE UNCHANGED vars
  <2>1. UNCHANGED <<flow, norm, stage, here, there, held, heldThere>>
    BY <1>4 DEF vars, running, liftVars, method
  <2> QED BY <2>1 DEF CarryInv, Behind, Source, Succs, Blocks, Copied, Content
<1> QED BY <1>1, <1>2, <1>3, <1>4 DEF Next

\* A block reads the same value where it, or the cycle it shares with what it
\* reads, is not copied, and also where it is.
LEMMA AlikeReads ==
  ASSUME LiftInv, NormInv, MergeInv, PeelInv, CarryInv
  PROVE  ValuesCarried
<1> SUFFICES ASSUME stage = "run"
             PROVE  \/ /\ reads[here] \notin {None, Hole} /\ reads[here][2] \in Copied
                       /\ here \notin Cycle(Source, reads[here][2])
                    \/ Content(held, reads[here]) = Content(heldThere, norm.uses[there])
  BY DEF ValuesCarried, Copied, Source
<1>1. Named /\ Alike(norm)
  BY LiftedNames DEF MergeInv, PeelInv
<1>2. /\ there \in Blocks /\ norm.origin[there] = here /\ here \in Original
      /\ \A x \in Original \ Copied : \A k \in Kinds :
           Content(held, <<k, x>>) = Content(heldThere, <<k, x>>)
      /\ \A y \in Cycle(norm.succs, there) : \A k \in Kinds :
           Content(held, <<k, norm.origin[y]>>) = Content(heldThere, <<k, y>>)
      /\ \A v \in DOMAIN held : v \in Kinds \X Original
      /\ \A v \in DOMAIN heldThere : v \in Kinds \X Blocks
  <2>1. visited \subseteq Original /\ here \in visited
    BY DEF LiftInv, SearchInv, SearchType, MergeInv
  <2> QED BY <2>1 DEF CarryInv, Behind
<1>3. PICK v : v = reads[here]
  OBVIOUS
<1>4. CASE v \in {None, Hole}
  <2>1. norm.uses[there] = v
    BY <1>1, <1>2, <1>3, <1>4 DEF Alike, UsesCopied, Blocks
  <2>2. v \notin Kinds \X Nat
    BY <1>4, LiftAssumption DEF LiftAssumption
  <2>3. Original \subseteq Nat /\ Blocks \subseteq Nat
    <3>1. stage # "lift"
      OBVIOUS
    <3>2. Blocks \subseteq 1..Cardinality(Blocks) /\ Cardinality(Blocks) \in Nat
      BY <3>1, FS_CardinalityType DEF NormInv, Graph, Blocks
    <3> QED BY <3>2, Numbers DEF Numbered
  <2> QED BY <1>2, <1>3, <2>1, <2>2, <2>3 DEF Content
<1>5. CASE v \notin {None, Hole}
  <2>1. v \in Kinds \X Original
    BY <1>1, <1>2, <1>3, <1>5 DEF Named, Operands
  <2>2. PICK y \in Blocks :
          /\ norm.uses[there] = <<v[1], y>> /\ norm.origin[y] = v[2]
          /\ here \in Cycle(Source, v[2]) => y \in Cycle(norm.succs, there)
    BY <1>1, <1>2, <1>3, <1>5 DEF Alike, UsesCopied, Blocks
  <2>3. v = <<v[1], v[2]>> /\ v[1] \in Kinds /\ v[2] \in Original
    BY <2>1
  <2>4. CASE v[2] \notin Copied
    <3>1. y = v[2]
      BY <1>1, <2>2, <2>3, <2>4 DEF Alike, Origins, Copied
    <3>2. Content(held, <<v[1], v[2]>>) = Content(heldThere, <<v[1], v[2]>>)
      BY <1>2, <2>3, <2>4
    <3> QED BY <1>3, <2>2, <2>3, <3>1, <3>2
  <2>5. CASE here \in Cycle(Source, v[2])
    <3>1. Content(held, <<v[1], norm.origin[y]>>) = Content(heldThere, <<v[1], y>>)
      BY <1>2, <2>2, <2>3, <2>5
    <3> QED BY <1>3, <2>2, <2>3, <3>1
  <2> QED BY <1>3, <1>5, <2>4, <2>5
<1> QED BY <1>4, <1>5

\* Wherever both methods have come, a block reads in the normalised one what it
\* reads in the lifted one, but for a block behind a copied loop that reads a
\* value of the loop itself.
THEOREM ValuesAreCarried == Spec => []ValuesCarried
<1>1. Init => MergeInv /\ PeelInv /\ CarryInv
  BY DEF Init, LiftInit, MergeInv, PeelInv, CarryInv
<1> QED BY <1>1, LiftInvariance, NormInvariance, MergeStep, PeelStep, CarryStep, AlikeReads, PTL
        DEF Spec
=============================================================================

------------------------ MODULE ObjectPipelineProofs ------------------------
(***************************************************************************)
(* What is proved of object analysis and the object pipeline, for any      *)
(* number of actors, any objects and nesting of them, any limits and any   *)
(* number of failures:                                                     *)
(*                                                                         *)
(*   TypeCorrect              Spec => []TypeOK                             *)
(*   BinariesAreAnalysedOnce  Spec => []AnalysedOnce                       *)
(*   EvidenceIsKept           Spec => []EvidenceKept                       *)
(*   PipelinesCover           Spec => []Covers                             *)
(*                                                                         *)
(* TypeInv is the typing of the variables together with Control(a), what   *)
(* the place of an actor in its program says of its own variables: which   *)
(* of them are empty, that the calls under way are nested properly, that   *)
(* what is pending is what is queued and not processed.  It needs no other *)
(* invariant, and every other one needs it.                                *)
(*                                                                         *)
(* AnalysedOnce follows from Once(a), which counts the runs of a binary    *)
(* by one actor against what it has seen and the failures so far.          *)
(*                                                                         *)
(* EvidenceKept is inductive only with Rows(a): what an actor works on has *)
(* a row, the statements left of its save come in pairs of a row and its   *)
(* evidence, and a frame that has recorded its analyses has them.  Another *)
(* actor cannot take that away because rows, evidence of analyses and runs *)
(* never go away again (Grow), whatever step it takes.                     *)
(*                                                                         *)
(* Covers follows from Covering(a), which says of every place in a round   *)
(* of the pipeline what of the object of that round is listed, queued or   *)
(* still to be done; it holds as long as nothing failed and nothing was    *)
(* warned about, which once lost never comes back.                         *)
(***************************************************************************)
EXTENDS ObjectPipeline, FiniteSetTheorems, SequenceTheorems, TLAPS

-----------------------------------------------------------------------------
(* Sequences and what is in them.                                          *)

LEMMA EmptyElements == Elements(<<>>) = {}
  BY DEF Elements

LEMMA HeadAndTail ==
  ASSUME NEW S, NEW s \in Seq(S), s # <<>>
  PROVE  /\ Head(s) \in S /\ Tail(s) \in Seq(S) /\ Len(s) \in Nat /\ Len(s) >= 1
         /\ Len(Tail(s)) = Len(s) - 1
         /\ Head(s) = s[1] /\ \A i \in 1..Len(s) - 1 : Tail(s)[i] = s[i + 1]
         /\ Elements(s) = {Head(s)} \cup Elements(Tail(s))
<1>1. /\ Head(s) \in S /\ Tail(s) \in Seq(S) /\ Len(s) \in Nat /\ Len(s) >= 1
      /\ Len(Tail(s)) = Len(s) - 1
      /\ Head(s) = s[1] /\ \A i \in 1..Len(s) - 1 : Tail(s)[i] = s[i + 1]
  OBVIOUS
<1>2. DOMAIN s = 1..Len(s) /\ DOMAIN Tail(s) = 1..Len(s) - 1
  BY <1>1
<1>3. \A i \in 1..Len(s) : i = 1 \/ i - 1 \in 1..Len(s) - 1
  BY <1>1
<1>4. Elements(s) \subseteq {Head(s)} \cup Elements(Tail(s))
  <2> SUFFICES ASSUME NEW i \in 1..Len(s), i # 1 PROVE s[i] \in Elements(Tail(s))
    BY <1>1, <1>2 DEF Elements
  <2>1. i - 1 \in DOMAIN Tail(s) /\ Tail(s)[i - 1] = s[i]
    BY <1>1, <1>2, <1>3
  <2> QED BY <2>1 DEF Elements
<1>5. {Head(s)} \cup Elements(Tail(s)) \subseteq Elements(s)
  <2>1. 1 \in DOMAIN s /\ \A i \in 1..Len(s) - 1 : i + 1 \in DOMAIN s
    BY <1>1, <1>2
  <2> QED BY <1>1, <1>2, <2>1 DEF Elements
<1> QED BY <1>1, <1>4, <1>5

LEMMA Joined ==
  ASSUME NEW S, NEW s \in Seq(S), NEW t \in Seq(S)
  PROVE  /\ s \o t \in Seq(S)
         /\ Elements(s \o t) = Elements(s) \cup Elements(t)
<1>1. /\ s \o t \in Seq(S) /\ Len(s \o t) = Len(s) + Len(t)
      /\ Len(s) \in Nat /\ Len(t) \in Nat
      /\ \A i \in 1..Len(s) : (s \o t)[i] = s[i]
      /\ \A i \in 1..Len(t) : (s \o t)[Len(s) + i] = t[i]
  OBVIOUS
<1>2. Elements(s \o t) \subseteq Elements(s) \cup Elements(t)
  <2> SUFFICES ASSUME NEW i \in 1..Len(s) + Len(t)
               PROVE  (s \o t)[i] \in Elements(s) \cup Elements(t)
    BY <1>1 DEF Elements
  <2>1. CASE i <= Len(s)
    BY <1>1, <2>1 DEF Elements
  <2>2. CASE i > Len(s)
    <3>1. i - Len(s) \in 1..Len(t) /\ i = Len(s) + (i - Len(s))
      BY <1>1, <2>2
    <3>2. (s \o t)[i] = t[i - Len(s)]
      BY <1>1, <3>1
    <3> QED BY <1>1, <3>1, <3>2 DEF Elements
  <2> QED BY <1>1, <2>1, <2>2
<1>3. Elements(s) \cup Elements(t) \subseteq Elements(s \o t)
  <2>1. /\ \A i \in 1..Len(s) : i \in 1..Len(s) + Len(t)
        /\ \A i \in 1..Len(t) : Len(s) + i \in 1..Len(s) + Len(t)
    BY <1>1
  <2> QED BY <1>1, <2>1 DEF Elements
<1> QED BY <1>1, <1>2, <1>3

LEMMA OneElement ==
  ASSUME NEW S, NEW x \in S
  PROVE  <<x>> \in Seq(S) /\ Elements(<<x>>) = {x}
  BY DEF Elements

LEMMA Listed ==
  ASSUME NEW S, NEW s \in Seq(S), NEW x \in S
  PROVE  With(s, x) \in Seq(S) /\ Elements(With(s, x)) = Elements(s) \cup {x}
<1>1. PICK t : t = <<x>>
  OBVIOUS
<1>2. t \in Seq(S) /\ Elements(t) = {x} /\ Append(s, x) = s \o t
  BY <1>1, OneElement
<1>3. Append(s, x) \in Seq(S) /\ Elements(Append(s, x)) = Elements(s) \cup {x}
  BY <1>2, Joined
<1> QED BY <1>3 DEF With

LEMMA ElementsIn ==
  ASSUME NEW S, NEW s \in Seq(S)
  PROVE  Elements(s) \subseteq S
  BY DEF Elements

\* A set of numbers has a least one.
LEMMA Least ==
  ASSUME NEW J, J \subseteq Nat, J # {}
  PROVE  \E m \in J : \A j \in J : m <= j
<1> DEFINE F == {1..j : j \in J}
<1>1. F \subseteq FiniteSubsetsOf(Nat) /\ F # {}
  <2>1. ASSUME NEW j \in J PROVE 1..j \in FiniteSubsetsOf(Nat)
    <3>1. j \in Int /\ 1 \in Int /\ 1..j \in SUBSET Nat
      OBVIOUS
    <3>2. IsFiniteSet(1..j)
      BY <3>1, FS_Interval
    <3> QED BY <3>1, <3>2 DEF FiniteSubsetsOf
  <2> QED BY <2>1
<1>2. PICK A \in F : \A B \in F : <<B, A>> \notin StrictSubsetOrdering(Nat)
  BY <1>1, FS_StrictSubsetOrderingWellFounded, WFMin
<1>3. PICK m \in J : A = 1..m
  OBVIOUS
<1>4. ASSUME NEW j \in J, ~ (m <= j) PROVE FALSE
  <2>1. 1..j \in SUBSET Nat /\ 1..m \in SUBSET Nat /\ 1..j \subseteq 1..m /\ m \notin 1..j /\ m \in 1..m
    BY <1>4
  <2>2. <<1..j, 1..m>> \in StrictSubsetOrdering(Nat)
    BY <2>1 DEF StrictSubsetOrdering
  <2> QED BY <1>2, <1>3, <2>2
<1> QED BY <1>4

\* Pick takes the items at the positions of I, each once.
LEMMA Picked ==
  ASSUME NEW S, NEW s \in Seq(S), NEW I \in SUBSET DOMAIN s
  PROVE  Pick(s, I) \in Seq(S) /\ Elements(Pick(s, I)) = {s[i] : i \in I}
<1> DEFINE Below(i) == {j \in I : j <= i}
           n == Cardinality(I)
           rank == [i \in I |-> Cardinality(Below(i))]
<1>1. IsFiniteSet(I) /\ n \in Nat /\ I \subseteq Nat
  <2>1. IsFiniteSet(DOMAIN s) /\ DOMAIN s \subseteq Nat
    BY FS_Interval
  <2> QED BY <2>1, FS_Subset, FS_CardinalityType
<1>2. \A i \in I : IsFiniteSet(Below(i)) /\ Cardinality(Below(i)) \in 1..n
  <2> SUFFICES ASSUME NEW i \in I
               PROVE  IsFiniteSet(Below(i)) /\ Cardinality(Below(i)) \in 1..n
    OBVIOUS
  <2>1. IsFiniteSet(Below(i)) /\ Cardinality(Below(i)) <= n
    BY <1>1, FS_Subset
  <2>2. i \in Below(i)
    BY <1>1
  <2>3. Cardinality(Below(i)) \in Nat /\ Cardinality(Below(i)) # 0
    BY <2>1, <2>2, FS_CardinalityType, FS_EmptySet
  <2> QED BY <1>1, <2>1, <2>3
<1>2a. \A i, j \in I : i < j => Cardinality(Below(i)) # Cardinality(Below(j))
  <2> SUFFICES ASSUME NEW i \in I, NEW j \in I, i < j,
                      Cardinality(Below(i)) = Cardinality(Below(j))
               PROVE  FALSE
    OBVIOUS
  <2>1. Below(i) \subseteq Below(j) /\ j \in Below(j) /\ j \notin Below(i)
    BY <1>1
  <2> HIDE DEF Below
  <2>2. Below(i) = Below(j)
    BY <1>2, <2>1, FS_Subset
  <2> QED BY <2>1, <2>2
<1>3. \A i, j \in I : Cardinality(Below(i)) = Cardinality(Below(j)) => i = j
  <2>1. \A i, j \in I : i < j \/ j < i \/ i = j
    BY <1>1
  <2> HIDE DEF Below
  <2> QED BY <1>2a, <2>1
<1>4. rank \in Injection(I, 1..n)
  <2>1. rank \in [I -> 1..n]
    BY <1>2
  <2>2. \A i, j \in I : rank[i] = rank[j] => i = j
    BY <1>3
  <2> QED BY <2>1, <2>2 DEF Injection, IsInjective
<1>5. rank \in Surjection(I, 1..n)
  <2>1. PICK T : T = 1..n
    OBVIOUS
  <2>2. IsFiniteSet(T) /\ Cardinality(T) = Cardinality(I)
    BY <1>1, <2>1, FS_Interval
  <2>3. rank \in Injection(I, T)
    BY <1>4, <2>1
  <2> HIDE DEF rank
  <2>4. rank \in Surjection(I, T)
    BY <2>2, <2>3, FS_Injection
  <2> QED BY <2>1, <2>4
<1>6. \A k \in 1..n : \E i \in I : Cardinality(Below(i)) = k
  BY <1>5 DEF Surjection
<1> DEFINE At(k) == CHOOSE i \in I : Cardinality(Below(i)) = k
<1>7. \A k \in 1..n : At(k) \in I
  BY <1>6
<1>8. \A i \in I : \E k \in 1..n : At(k) = i
  <2> SUFFICES ASSUME NEW i \in I PROVE At(rank[i]) = i /\ rank[i] \in 1..n
    OBVIOUS
  <2>1. rank[i] \in 1..n /\ rank[i] = Cardinality(Below(i))
    BY <1>2
  <2>2. PICK j \in I : j = At(rank[i])
    BY <1>7, <2>1
  <2>3. Cardinality(Below(j)) = rank[i]
    BY <1>6, <2>1, <2>2
  <2>4. i = j
    BY <1>3, <2>1, <2>3
  <2> QED BY <2>1, <2>2, <2>4
<1>9. Pick(s, I) = [k \in 1..n |-> s[At(k)]]
  <2>1. Pick(s, I) = [k \in 1..Cardinality(I) |->
                        s[CHOOSE i \in I : Cardinality({j \in I : j <= i}) = k]]
    BY DEF Pick
  <2> QED BY <2>1
<1> HIDE DEF At, n
<1>10. Pick(s, I) \in Seq(S)
  <2>1. \A k \in 1..n : s[At(k)] \in S
    BY <1>7
  <2> QED BY <1>1, <1>9, <2>1, SeqDef
<1>11. DOMAIN Pick(s, I) = 1..n
  BY <1>9
<1>12. Elements(Pick(s, I)) = {s[i] : i \in I}
  BY <1>7, <1>8, <1>9, <1>11 DEF Elements
<1> QED BY <1>10, <1>12

\* The first occurrences of what is not in Q are all that is not in Q.
LEMMA FirstOccurrences ==
  ASSUME NEW S, NEW s \in Seq(S), NEW Q
  PROVE  {s[i] : i \in {i \in DOMAIN s : /\ s[i] \notin Q
                                         /\ \A j \in 1..i - 1 : s[j] # s[i]}}
           = Elements(s) \ Q
<1> DEFINE I == {i \in DOMAIN s : s[i] \notin Q /\ \A j \in 1..i - 1 : s[j] # s[i]}
<1>1. ASSUME NEW i \in DOMAIN s, s[i] \notin Q
      PROVE  \E m \in I : s[m] = s[i]
  <2> DEFINE J == {j \in DOMAIN s : s[j] = s[i]}
  <2>1. J \subseteq Nat /\ J # {}
    OBVIOUS
  <2> HIDE DEF J
  <2>2. PICK m \in J : \A j \in J : m <= j
    BY <2>1, Least
  <2>3. m \in DOMAIN s /\ s[m] = s[i]
    BY DEF J
  <2>4. ASSUME NEW j \in 1..m - 1 PROVE s[j] # s[m]
    <3>1. j \in DOMAIN s /\ ~ (m <= j)
      BY <2>3
    <3> QED BY <2>2, <2>3, <3>1 DEF J
  <2> QED BY <1>1, <2>3, <2>4
<1> QED BY <1>1 DEF Elements

LEMMA Halved ==
  ASSUME NEW S, NEW s \in Seq(S), NEW n \in Nat
  PROVE  LET t == IF Len(s) <= n THEN s ELSE SubSeq(s, 1, n)
         IN  t \in Seq(S) /\ Elements(t) \subseteq Elements(s)
<1>1. CASE Len(s) <= n
  BY <1>1
<1>2. CASE Len(s) > n
  <2>1. /\ SubSeq(s, 1, n) \in Seq(S) /\ Len(SubSeq(s, 1, n)) = n
        /\ \A i \in 1..n : SubSeq(s, 1, n)[i] = s[i]
    BY <1>2
  <2>2. DOMAIN SubSeq(s, 1, n) = 1..n /\ 1..n \subseteq DOMAIN s
    BY <1>2, <2>1
  <2> QED BY <1>2, <2>1, <2>2 DEF Elements
<1> QED BY <1>1, <1>2

-----------------------------------------------------------------------------
(* Types, and where an actor is in its request.                            *)

RowType == [place : Place \cup {None}, expanded : BOOLEAN, lists : SUBSET Item]
StatementType == [table : {"objects", "evidence"}, obj : Obj, row : RowType]
FrameType ==
  [obj : Obj, depth : Nat, place : Place \cup {None}, dig : Seq(Obj),
   member : Seq(Obj), dug : Seq(Obj), expanded : Seq(Obj), recorded : BOOLEAN]

\* A call that still has children to look at may make one more.
Shallow(f) == ~Closing(f) => f.depth < MaxDepth

StackType ==
  {s \in Seq(FrameType) :
     /\ Len(s) <= MaxDepth + 1
     /\ \A i \in 1..Len(s) : s[i].depth = Len(s) - i /\ Shallow(s[i])}

Types ==
  /\ row \in [Obj -> RowType]
  /\ ev \in [Obj -> [Item -> Place \cup {None}]]
  /\ runs \in SUBSET Obj /\ torn \in SUBSET Obj
  /\ faults \in 0..MaxFaults
  /\ pc \in [Actor -> PC]
  /\ save \in [Actor -> Seq(StatementType)]
  /\ stack \in [Actor -> StackType]
  /\ listed \in [Actor -> Seq(Obj)]
  /\ pending \in [Actor -> Seq(Obj)]
  /\ processed \in [Actor -> SUBSET Obj]
  /\ queued \in [Actor -> SUBSET Obj]
  /\ current \in [Actor -> Obj \cup {None}]
  /\ todo \in [Actor -> Seq(Obj)]
  /\ seen \in [Actor -> SUBSET Obj]
  /\ ran \in [Actor -> [Obj -> Nat]]
  /\ failed \in [Actor -> BOOLEAN]
  /\ warned \in [Actor -> BOOLEAN]

Analyzing == {"analyze", "save_child", "descend"}
Carving == {"scan", "carve", "save_carved", "carved", "binary"}

Control(a) ==
  /\ save[a] # <<>> <=> pc[a] \in Saving
  /\ stack[a] # <<>> <=> pc[a] \in Analyzing
  /\ pc[a] \in {"save_child", "descend"} => ~Closing(Top(a))
  /\ pc[a] \in {"save_carved", "carved"} => todo[a] # <<>>
  /\ pc[a] = "promote" => Elements(todo[a]) \subseteq Native
  /\ pc[a] \in Carving \cup {"save_root", "queue", "loop"} => a \in Pipeline
  /\ \/ pc[a] \in Carving
     \/ a \in Pipeline /\ pc[a] \in Analyzing \cup {"promote"}
     => current[a] \in Obj
  /\ queued[a] = processed[a] \cup Elements(pending[a])

TypeInv == Types /\ \A a \in Actor : Control(a)

LEMMA Pushed ==
  ASSUME NEW S, NEW s \in Seq(S), NEW x \in S
  PROVE  LET t == <<x>> \o s
         IN  /\ t \in Seq(S) /\ t # <<>> /\ Len(t) = Len(s) + 1 /\ Head(t) = x /\ t[1] = x
             /\ \A i \in 1..Len(s) : t[i + 1] = s[i]
  OBVIOUS

LEMMA CalledOutermost ==
  ASSUME NEW f \in FrameType, f.depth = 0
  PROVE  <<f>> \o <<>> \in StackType /\ <<f>> \o <<>> # <<>>
<1>1. PICK t : t = <<f>> \o <<>>
  OBVIOUS
<1>2. t \in Seq(FrameType) /\ Len(t) = 1 /\ t[1] = f /\ t # <<>>
  BY <1>1
<1>3. MaxDepth \in Nat \ {0}
  BY PipelineAssumption DEF PipelineAssumption
<1>4. Shallow(f)
  BY <1>3 DEF Shallow
<1>5. Len(t) <= MaxDepth + 1
  BY <1>2, <1>3
<1>6. \A i \in 1..Len(t) : t[i].depth = Len(t) - i /\ Shallow(t[i])
  <2> TAKE i \in 1..Len(t)
  <2>1. i = 1 /\ Len(t) = 1
    BY <1>2
  <2> QED BY <1>2, <1>4, <2>1
<1>7. t \in StackType
  BY <1>2, <1>5, <1>6 DEF StackType
<1> QED BY <1>1, <1>2, <1>7

LEMMA StackHead ==
  ASSUME NEW s \in StackType, s # <<>>
  PROVE  /\ Head(s) \in FrameType /\ Head(s) = s[1] /\ Shallow(Head(s))
         /\ Len(s) \in Nat /\ Len(s) >= 1 /\ Head(s).depth = Len(s) - 1
  BY DEF StackType

\* A call returns, changes, or calls itself for a child.
LEMMA Returned ==
  ASSUME NEW s \in StackType, s # <<>>
  PROVE  /\ Tail(s) \in StackType /\ Len(Tail(s)) = Len(s) - 1
         /\ Tail(s) # <<>> <=> Len(s) > 1
<1>1. s \in Seq(FrameType) /\ MaxDepth \in Nat
  BY PipelineAssumption DEF StackType, PipelineAssumption
<1>2. /\ Tail(s) \in Seq(FrameType) /\ Len(s) \in Nat /\ Len(s) >= 1
      /\ Len(Tail(s)) = Len(s) - 1
      /\ \A i \in 1..Len(s) - 1 : Tail(s)[i] = s[i + 1]
  BY <1>1, HeadAndTail
<1>3. \A i \in 1..Len(s) - 1 : i + 1 \in 1..Len(s)
  BY <1>2
<1>4. /\ Len(s) <= MaxDepth + 1
      /\ \A i \in 1..Len(s) : s[i].depth = Len(s) - i /\ Shallow(s[i])
  BY DEF StackType
<1>5. \A i \in 1..Len(s) - 1 : /\ Tail(s)[i].depth = (Len(s) - 1) - i
                               /\ Shallow(Tail(s)[i])
  <2> TAKE i \in 1..Len(s) - 1
  <2>1. s[i + 1].depth = Len(s) - (i + 1) /\ Shallow(s[i + 1])
    BY <1>3, <1>4
  <2> QED BY <1>2, <2>1
<1>6. PICK t : t = Tail(s)
  OBVIOUS
<1>7. t \in StackType
  <2>1. t \in Seq(FrameType) /\ Len(t) = Len(s) - 1
    BY <1>2, <1>6
  <2>2. Len(t) <= MaxDepth + 1
    BY <1>1, <1>2, <1>4, <2>1
  <2>3. \A i \in 1..Len(t) : t[i].depth = Len(t) - i /\ Shallow(t[i])
    BY <1>5, <1>6, <2>1
  <2> QED BY <2>1, <2>2, <2>3 DEF StackType
<1>8. t # <<>> <=> Len(t) > 0
  <2>1. t \in Seq(FrameType)
    BY <1>2, <1>6
  <2> QED BY <2>1
<1> QED BY <1>2, <1>6, <1>7, <1>8

LEMMA Changed ==
  ASSUME NEW s \in StackType, s # <<>>, NEW f \in FrameType,
         f.depth = Head(s).depth, Shallow(f)
  PROVE  LET t == <<f>> \o Tail(s)
         IN  t \in StackType /\ t # <<>> /\ Len(t) = Len(s) /\ Head(t) = f
<1>1. s \in Seq(FrameType) /\ MaxDepth \in Nat
  BY PipelineAssumption DEF StackType, PipelineAssumption
<1>2. /\ Tail(s) \in Seq(FrameType) /\ Len(s) \in Nat /\ Len(s) >= 1
      /\ Len(Tail(s)) = Len(s) - 1 /\ Head(s) = s[1]
      /\ \A i \in 1..Len(s) - 1 : Tail(s)[i] = s[i + 1]
  BY <1>1, HeadAndTail
<1>3. PICK u : u = Tail(s)
  OBVIOUS
<1>4. PICK t : t = <<f>> \o u
  OBVIOUS
<1>5. /\ t \in Seq(FrameType) /\ t # <<>> /\ Len(t) = Len(s) /\ Head(t) = f /\ t[1] = f
      /\ \A i \in 1..Len(s) - 1 : t[i + 1] = s[i + 1]
  BY <1>2, <1>3, <1>4
<1>6. \A i \in 1..Len(s) : i = 1 \/ (i - 1 \in 1..Len(s) - 1 /\ i = (i - 1) + 1)
  BY <1>2
<1>7. \A i \in 1..Len(s) : i = 1 \/ t[i] = s[i]
  BY <1>5, <1>6
<1>8. t \in StackType
  BY <1>1, <1>2, <1>5, <1>7 DEF StackType
<1> QED BY <1>3, <1>4, <1>5, <1>8

LEMMA Descended ==
  ASSUME NEW s \in StackType, s # <<>>, NEW f \in FrameType, NEW g \in FrameType,
         f.depth = Head(s).depth, Shallow(f), ~Closing(Head(s)),
         g.depth = f.depth + 1, Shallow(g)
  PROVE  LET t == <<g, f>> \o Tail(s)
         IN  /\ t \in StackType /\ t # <<>> /\ Len(t) = Len(s) + 1 /\ Head(t) = g
             /\ t = <<g>> \o (<<f>> \o Tail(s))
<1> DEFINE u == <<f>> \o Tail(s)
<1>1. /\ s \in Seq(FrameType) /\ MaxDepth \in Nat /\ Len(s) \in Nat /\ Len(s) >= 1
      /\ Tail(s) \in Seq(FrameType) /\ Head(s) \in FrameType
  BY HeadAndTail, PipelineAssumption DEF StackType, PipelineAssumption
<1>2. u \in StackType /\ Len(u) = Len(s) /\ u # <<>> /\ Head(u) = f
  BY Changed
<1>3. Head(s).depth = Len(s) - 1 /\ Head(s).depth < MaxDepth
  BY <1>1, StackHead DEF Shallow
<1>4. <<g, f>> \o Tail(s) = <<g>> \o u
  BY <1>1
<1> HIDE DEF u
<1>5. PICK t : t = <<g>> \o u
  OBVIOUS
<1>6. u \in Seq(FrameType)
  BY <1>2 DEF StackType
<1>7. /\ t \in Seq(FrameType) /\ t # <<>> /\ Len(t) = Len(s) + 1 /\ Head(t) = g /\ t[1] = g
      /\ \A i \in 1..Len(s) : t[i + 1] = u[i]
  BY <1>2, <1>5, <1>6, Pushed
<1>8. \A i \in 1..Len(s) + 1 : i = 1 \/ (i - 1 \in 1..Len(s) /\ i = (i - 1) + 1)
  BY <1>1
<1>9. \A i \in 1..Len(s) + 1 : i = 1 \/ (i - 1 \in 1..Len(s) /\ t[i] = u[i - 1])
  BY <1>7, <1>8
<1>10. \A i \in 1..Len(s) : u[i].depth = Len(s) - i /\ Shallow(u[i])
  BY <1>2 DEF StackType
<1>11. \A i \in 1..Len(s) + 1 : t[i].depth = (Len(s) + 1) - i /\ Shallow(t[i])
  <2> TAKE i \in 1..Len(s) + 1
  <2>1. CASE i = 1
    BY <1>1, <1>3, <1>7, <2>1
  <2>2. CASE i # 1
    <3>1. i - 1 \in 1..Len(s) /\ t[i] = u[i - 1]
      BY <1>9, <2>2
    <3>2. t[i].depth = Len(s) - (i - 1) /\ Shallow(t[i])
      BY <1>10, <3>1
    <3> QED BY <1>1, <3>2
  <2> QED BY <2>1, <2>2
<1>12. Len(t) <= MaxDepth + 1 /\ Len(t) = Len(s) + 1
  BY <1>1, <1>3, <1>7
<1>13. t \in StackType
  BY <1>7, <1>11, <1>12 DEF StackType
<1> QED BY <1>4, <1>5, <1>7, <1>13 DEF u

LEMMA Constants ==
  /\ \A a \in Actor : Root[a] \in Obj
  /\ \A o \in Obj : /\ Entry[o] \in Seq(Obj) /\ Dig[o] \in Seq(Obj)
                    /\ Member[o] \in Seq(Obj) /\ Carve[o] \in Seq(Obj)
  /\ \A o \in Native : o \in Obj /\ BinaryId[o] \in Obj
  /\ MaxDepth \in Nat /\ MaxDepth >= 1 /\ PromoteLimit \in Nat /\ MaxFaults \in Nat
  BY PipelineAssumption DEF PipelineAssumption

LEMMA FrameTyped ==
  ASSUME Types, NEW o \in Obj, NEW d \in Nat
  PROVE  /\ Frame(o, d) \in FrameType /\ Shallow(Frame(o, d))
         /\ Frame(o, d).depth = d
<1>1. row[o].place \in Place \cup {None}
  BY DEF Types, RowType
<1>2. <<>> \in Seq(Obj)
  OBVIOUS
<1> QED BY <1>1, <1>2, Constants DEF Frame, FrameType, Shallow, Closing

LEMMA ListingTyped ==
  ASSUME NEW f \in FrameType, ~Closing(f), Shallow(f)
  PROVE  Listing(f) \in FrameType /\ Shallow(Listing(f)) /\ Listing(f).depth = f.depth
<1>1. CASE Digging(f)
  <2>1. f.dig \in Seq(Obj) /\ f.dig # <<>>
    BY <1>1 DEF Digging, FrameType
  <2>2. Tail(f.dig) \in Seq(Obj) /\ Head(f.dig) \in Obj
    BY <2>1, HeadAndTail
  <2>3. With(f.dug, Head(f.dig)) \in Seq(Obj)
    BY <2>2, Listed DEF FrameType
  <2> QED BY <1>1, <2>2, <2>3 DEF Listing, FrameType, Shallow
<1>2. CASE ~Digging(f)
  <2>1. f.member \in Seq(Obj) /\ f.member # <<>>
    BY <1>2 DEF Digging, Closing, FrameType
  <2>2. Tail(f.member) \in Seq(Obj) /\ Head(f.member) \in Obj
    BY <2>1, HeadAndTail
  <2>3. With(f.expanded, Head(f.member)) \in Seq(Obj)
    BY <2>2, Listed DEF FrameType
  <2> QED BY <1>2, <2>2, <2>3 DEF Listing, FrameType, Shallow
<1> QED BY <1>1, <1>2

LEMMA StatementTyped ==
  ASSUME NEW t \in {"objects", "evidence"}, NEW o \in Obj, NEW r \in RowType
  PROVE  Statement(t, o, r) \in StatementType
  BY DEF Statement, StatementType

LEMMA ChildTyped ==
  ASSUME NEW o \in Obj, NEW r \in RowType
  PROVE  ChildStatements(o, r) \in Seq(StatementType) /\ ChildStatements(o, r) # <<>>
  BY StatementTyped DEF ChildStatements

LEMMA GraphTyped ==
  ASSUME NEW o \in Obj, NEW p \in Place
  PROVE  GraphStatements(o, p) \in Seq(StatementType) /\ GraphStatements(o, p) # <<>>
<1> DEFINE g == <<o>> \o Entry[o]
           At(i) == (i + 1) \div 2
<1>1. g \in Seq(Obj) /\ Len(g) \in Nat /\ Len(g) >= 1
  BY Constants
<1>2. \A i \in 1..2 * Len(g) : At(i) \in 1..Len(g)
  BY <1>1
<1>3. \A q \in Place : IdentifiedRow(q) \in RowType
  BY DEF IdentifiedRow, RowType
<1> HIDE DEF g
<1>4. \A i \in 1..2 * Len(g) :
        Statement(IF i % 2 = 1 THEN "objects" ELSE "evidence", g[At(i)],
                  IdentifiedRow(IF At(i) = 1 THEN p ELSE "entry")) \in StatementType
  <2> TAKE i \in 1..2 * Len(g)
  <2>1. g[At(i)] \in Obj /\ (IF At(i) = 1 THEN p ELSE "entry") \in Place
    BY <1>1, <1>2 DEF Place
  <2> HIDE DEF At
  <2> QED BY <1>3, <2>1, StatementTyped
<1>5. 2 * Len(g) \in Nat /\ 2 * Len(g) >= 2
  BY <1>1
<1> DEFINE S == GraphStatements(o, p)
<1>6. S = [i \in 1..2 * Len(g) |->
             Statement(IF i % 2 = 1 THEN "objects" ELSE "evidence", g[At(i)],
                       IdentifiedRow(IF At(i) = 1 THEN p ELSE "entry"))]
  BY DEF GraphStatements, g
<1> HIDE DEF S, At
<1>7. PICK n \in Nat : n = 2 * Len(g) /\ n >= 2
  BY <1>5
<1>8. S \in [1..n -> StatementType]
  BY <1>4, <1>6, <1>7
<1>9. S \in Seq(StatementType) /\ Len(S) = n
  BY <1>7, <1>8, SeqDef
<1> QED BY <1>7, <1>9 DEF S

LEMMA CandidatesTyped ==
  ASSUME NEW s \in Seq(Obj)
  PROVE  /\ Candidates(s) \in Seq(Obj)
         /\ Elements(Candidates(s)) \subseteq Native \cap Elements(s)
<1> DEFINE I == {i \in DOMAIN s : s[i] \in Native}
<1>1. Pick(s, I) \in Seq(Obj) /\ Elements(Pick(s, I)) = {s[i] : i \in I}
  BY Picked
<1>2. {s[i] : i \in I} \subseteq Native \cap Elements(s)
  BY DEF Elements
<1>3. PICK n : n = Pick(s, I)
  OBVIOUS
<1>4. Candidates(s) = IF Len(n) <= PromoteLimit THEN n ELSE SubSeq(n, 1, PromoteLimit)
  BY <1>3 DEF Candidates
<1>5. n \in Seq(Obj) /\ PromoteLimit \in Nat
  BY <1>1, <1>3, Constants
<1>6. Candidates(s) \in Seq(Obj) /\ Elements(Candidates(s)) \subseteq Elements(n)
  BY <1>4, <1>5, Halved
<1> QED BY <1>1, <1>2, <1>3, <1>6

LEMMA Queued ==
  ASSUME Types, NEW a \in Actor, NEW s \in Seq(Obj), Queue(a, s)
  PROVE  /\ pending' \in [Actor -> Seq(Obj)]
         /\ queued' \in [Actor -> SUBSET Obj]
         /\ queued'[a] = queued[a] \cup Elements(s)
         /\ Elements(pending'[a]) = Elements(pending[a]) \cup (Elements(s) \ queued[a])
<1> DEFINE New == {i \in DOMAIN s : /\ s[i] \notin queued[a]
                                     /\ \A j \in 1..i - 1 : s[j] # s[i]}
<1>1. PICK n : n = Pick(s, New)
  OBVIOUS
<1>2. n \in Seq(Obj) /\ Elements(n) = {s[i] : i \in New}
  BY <1>1, Picked
<1>3. Elements(n) = Elements(s) \ queued[a]
  BY <1>2, FirstOccurrences
<1>4. pending' = [pending EXCEPT ![a] = @ \o n]
  BY <1>1 DEF Queue
<1>5. pending[a] \in Seq(Obj)
  BY DEF Types
<1>6. pending[a] \o n \in Seq(Obj) /\ Elements(pending[a] \o n) = Elements(pending[a]) \cup Elements(n)
  <2>1. PICK p \in Seq(Obj) : p = pending[a]
    BY <1>5
  <2> QED BY <1>2, <2>1, Joined
<1>7. pending' \in [Actor -> Seq(Obj)] /\ pending'[a] = pending[a] \o n
  BY <1>4, <1>6 DEF Types
<1>8. Elements(s) \subseteq Obj
  BY ElementsIn
<1>9. queued' = [queued EXCEPT ![a] = @ \cup Elements(s)]
  BY DEF Queue
<1> QED BY <1>3, <1>6, <1>7, <1>8, <1>9 DEF Types

-----------------------------------------------------------------------------
(* Every step keeps the types and the control of the actor that takes it.  *)

LEMMA TopTyped ==
  ASSUME Types, NEW a \in Actor, stack[a] # <<>>
  PROVE  /\ stack[a] \in StackType /\ Top(a) \in FrameType /\ Shallow(Top(a))
         /\ Top(a).obj \in Obj /\ Top(a).depth \in Nat
         /\ Top(a).place \in Place \cup {None}
         /\ Top(a).dig \in Seq(Obj) /\ Top(a).member \in Seq(Obj)
         /\ Top(a).dug \in Seq(Obj) /\ Top(a).expanded \in Seq(Obj)
         /\ Len(stack[a]) \in Nat /\ Len(stack[a]) >= 1
  BY StackHead DEF Types, Top, FrameType

LEMMA Updated ==
  ASSUME Types, NEW a \in Actor, stack[a] # <<>>, NEW f \in FrameType,
         f.depth = Top(a).depth, Shallow(f), Update(a, f)
  PROVE  /\ stack' \in [Actor -> StackType]
         /\ stack'[a] # <<>> /\ Head(stack'[a]) = f
<1>1. stack[a] \in StackType
  BY DEF Types
<1>2. PICK t : t = <<f>> \o Tail(stack[a])
  OBVIOUS
<1>3. t \in StackType /\ t # <<>> /\ Head(t) = f
  BY <1>1, <1>2, Changed DEF Top
<1>4. stack' = [stack EXCEPT ![a] = t]
  BY <1>2 DEF Update
<1> QED BY <1>3, <1>4 DEF Types

LEMMA Calls ==
  ASSUME Types, NEW a \in Actor, stack[a] = <<>>, NEW o \in Obj, Call(a, o, 0)
  PROVE  stack' \in [Actor -> StackType] /\ stack'[a] # <<>> /\ stack'[a] = <<Frame(o, 0)>>
<1>1. Frame(o, 0) \in FrameType /\ Frame(o, 0).depth = 0
  BY FrameTyped
<1>2. PICK f \in FrameType : f = Frame(o, 0) /\ f.depth = 0
  BY <1>1
<1>3. <<f>> \o <<>> \in StackType /\ <<f>> \o <<>> # <<>>
  BY <1>2, CalledOutermost
<1>4. PICK t : t = <<f>> \o <<>>
  OBVIOUS
<1>5. stack' = [stack EXCEPT ![a] = t] /\ t = <<f>>
  BY <1>2, <1>4 DEF Call
<1> QED BY <1>2, <1>3, <1>4, <1>5 DEF Types

LEMMA ReturnErrorTyped ==
  ASSUME Types, NEW a \in Actor, stack[a] # <<>>, ReturnError(a)
  PROVE  /\ stack' \in [Actor -> StackType] /\ pc' \in [Actor -> PC]
         /\ todo' \in [Actor -> Seq(Obj)]
         /\ failed' \in [Actor -> BOOLEAN] /\ warned' \in [Actor -> BOOLEAN]
         /\ \/ pc'[a] = "analyze" /\ stack'[a] # <<>>
            \/ pc'[a] = "scan" /\ stack'[a] = <<>> /\ a \in Pipeline
            \/ pc'[a] = "done" /\ stack'[a] = <<>>
<1>1. stack[a] \in StackType
  BY DEF Types
<1>2. PICK t : t = Tail(stack[a])
  OBVIOUS
<1>3. t # <<>> <=> Len(stack[a]) > 1
  BY <1>1, <1>2, Returned
<1>4. t \in StackType
  BY <1>1, <1>2, Returned
<1>5. CASE Len(stack[a]) > 1
  BY <1>2, <1>3, <1>4, <1>5 DEF ReturnError, Types, Goto, PC
<1>6. CASE ~ (Len(stack[a]) > 1)
  <2>1. <<>> \in StackType
    <3>1. <<>> \in Seq(FrameType) /\ Len(<<>>) = 0
      OBVIOUS
    <3> QED BY <3>1, Constants DEF StackType
  <2>2. <<>> \in Seq(Obj)
    OBVIOUS
  <2>3. PICK l : l = AfterAnalysis(a)
    OBVIOUS
  <2>4. l \in PC /\ ((l = "scan" /\ a \in Pipeline) \/ l = "done")
    BY <2>3 DEF AfterAnalysis, PC
  <2>5. PICK t0 \in StackType : t0 = <<>>
    BY <2>1
  <2>6. /\ stack' = [stack EXCEPT ![a] = t0] /\ pc' = [pc EXCEPT ![a] = l]
        /\ failed' = [failed EXCEPT ![a] = TRUE] /\ warned' = warned
        /\ todo' = [todo EXCEPT ![a] = <<>>]
    BY <1>6, <2>3, <2>5 DEF ReturnError, Goto
  <2> QED BY <2>2, <2>4, <2>5, <2>6 DEF Types
<1> QED BY <1>5, <1>6

LEMMA LeaveExpanderTyped ==
  ASSUME Types, NEW a \in Actor, stack[a] # <<>>, LeaveExpander(a)
  PROVE  /\ stack' \in [Actor -> StackType] /\ pc' \in [Actor -> PC]
         /\ todo' \in [Actor -> Seq(Obj)]
         /\ failed' \in [Actor -> BOOLEAN] /\ warned' \in [Actor -> BOOLEAN]
         /\ pc'[a] = "analyze" /\ stack'[a] # <<>>
<1> DEFINE f == [Top(a) EXCEPT !.member = <<>>, !.expanded = <<>>]
<1>0. Top(a) \in FrameType /\ Shallow(Top(a)) /\ <<>> \in Seq(Obj)
  BY TopTyped
<1>1. f \in FrameType /\ f.depth = Top(a).depth
  BY <1>0 DEF FrameType
<1>2. Shallow(f)
  BY <1>0 DEF FrameType, Shallow, Closing
<1>3. Update(a, f)
  BY DEF LeaveExpander
<1>4. stack' \in [Actor -> StackType] /\ stack'[a] # <<>>
  <2> HIDE DEF f
  <2> QED BY <1>1, <1>2, <1>3, Updated
<1> QED BY <1>4 DEF LeaveExpander, Types, Goto, PC

LEMMA Stores ==
  ASSUME Types, NEW a \in Actor, NEW o \in Native, BinaryRun(a, o)
  PROVE  /\ row' = row /\ torn' = torn
         /\ ev' \in [Obj -> [Item -> Place \cup {None}]]
         /\ runs' \in SUBSET Obj /\ ran' \in [Actor -> [Obj -> Nat]]
<1>1. o \in Obj /\ BinaryId[o] \in Obj
  BY Constants
<1>2. [i \in Item |-> IF ev[o][i] = "artifact" THEN None ELSE ev[o][i]]
        \in [Item -> Place \cup {None}]
  BY <1>1 DEF Types
<1>3. ev' \in [Obj -> [Item -> Place \cup {None}]]
  BY <1>1, <1>2 DEF BinaryRun, Types
<1>4. ran[a][o] + 1 \in Nat /\ [ran[a] EXCEPT ![o] = @ + 1] \in [Obj -> Nat]
  BY <1>1 DEF Types
<1>5. ran' \in [Actor -> [Obj -> Nat]]
  BY <1>4 DEF BinaryRun, Types
<1> QED BY <1>1, <1>3, <1>5 DEF BinaryRun, Types

LEMMA Here ==
  ASSUME Types, NEW a \in Actor, NEW l, Goto(a, l), l \in PC
  PROVE  pc' \in [Actor -> PC] /\ pc'[a] = l
  BY DEF Types, Goto

LEMMA Faulted ==
  ASSUME Types, NoFault \/ Fault
  PROVE  faults' \in 0..MaxFaults
  BY Constants DEF Types, NoFault, Fault

LEMMA Failing ==
  ASSUME Types, NEW a \in Actor, failed' = failed \/ FailStep(a)
  PROVE  failed' \in [Actor -> BOOLEAN]
  BY DEF Types, FailStep

LEMMA StartTyped ==
  ASSUME Types, NEW a \in Actor, Control(a), Start(a)
  PROVE  Types' /\ Control(a)'
<1> USE DEF Start, store, queues, NoFault, Fault
<1>1. pc[a] = "start" /\ stack[a] = <<>> /\ save[a] = <<>> /\ Root[a] \in Obj
  BY Constants DEF Control, Saving, Analyzing
<1>2. CASE a \in Pipeline /\ save' = [save EXCEPT ![a] = GraphStatements(Root[a], "own")]
           /\ Goto(a, "save_root") /\ stack' = stack /\ faults' = faults
  <2>1. PICK s : s = GraphStatements(Root[a], "own")
    OBVIOUS
  <2>2. s \in Seq(StatementType) /\ s # <<>>
    BY <1>1, <2>1, GraphTyped DEF Place
  <2>3. save' \in [Actor -> Seq(StatementType)] /\ save'[a] # <<>>
    BY <1>2, <2>1, <2>2 DEF Types
  <2>4. pc' \in [Actor -> PC] /\ pc'[a] = "save_root"
    BY <1>2, Here DEF PC, Saving
  <2>5. Types'
    BY <1>2, <2>3, <2>4 DEF Types
  <2>6. Control(a)'
    BY <1>1, <1>2, <2>3, <2>4 DEF Control, Saving, Analyzing, Carving
  <2> QED BY <2>5, <2>6
<1>3. CASE a \notin Pipeline /\ Call(a, Root[a], 0) /\ Goto(a, "analyze") /\ save' = save
           /\ faults' = faults
  <2>1. stack' \in [Actor -> StackType] /\ stack'[a] # <<>>
    BY <1>1, <1>3, Calls
  <2>2. pc' \in [Actor -> PC] /\ pc'[a] = "analyze"
    BY <1>3, Here DEF PC
  <2>5. Types'
    BY <1>3, <2>1, <2>2 DEF Types
  <2>6. Control(a)'
    BY <1>1, <1>3, <2>1, <2>2 DEF Control, Saving, Analyzing, Carving
  <2> QED BY <2>5, <2>6
<1>4. CASE Goto(a, "error") /\ save' = save /\ stack' = stack /\ (NoFault \/ Fault)
  <2>1. pc' \in [Actor -> PC] /\ pc'[a] = "error"
    BY <1>4, Here DEF PC
  <2>2. faults' \in 0..MaxFaults
    BY <1>4, Constants DEF Types
  <2>5. Types'
    BY <1>4, <2>1, <2>2 DEF Types
  <2>6. Control(a)'
    BY <1>1, <1>4, <2>1 DEF Control, Saving, Analyzing, Carving
  <2> QED BY <2>5, <2>6
<1> QED BY <1>2, <1>3, <1>4

LEMMA QueueGraphTyped ==
  ASSUME Types, NEW a \in Actor, Control(a), QueueGraph(a)
  PROVE  Types' /\ Control(a)'
<1>1. PICK s : s = <<Root[a]>> \o Entry[Root[a]]
  OBVIOUS
<1>2. s \in Seq(Obj)
  BY <1>1, Constants
<1>3. Queue(a, s)
  BY <1>1 DEF QueueGraph
<1>4. /\ pending' \in [Actor -> Seq(Obj)] /\ queued' \in [Actor -> SUBSET Obj]
      /\ queued'[a] = queued[a] \cup Elements(s)
      /\ Elements(pending'[a]) = Elements(pending[a]) \cup (Elements(s) \ queued[a])
  BY <1>2, <1>3, Queued
<1>5. processed' = processed /\ limit' = limit
  BY <1>3 DEF Queue
<1>6. pc' \in [Actor -> PC] /\ pc'[a] = "loop" /\ pc[a] = "queue"
  BY Here DEF PC, QueueGraph
<1>7. Types'
  BY <1>4, <1>5, <1>6 DEF Types, QueueGraph, store, NoFault
<1>8. Control(a)'
  BY <1>4, <1>5, <1>6 DEF Control, QueueGraph, Saving, Analyzing, Carving
<1> QED BY <1>7, <1>8

LEMMA PopTyped ==
  ASSUME Types, NEW a \in Actor, Control(a), Pop(a)
  PROVE  Types' /\ Control(a)'
<1> DEFINE o == Head(pending[a])
<1>1. /\ pc[a] = "loop" /\ pending[a] # <<>> /\ stack[a] = <<>> /\ save[a] = <<>>
      /\ a \in Pipeline
  BY DEF Pop, Control, Saving, Analyzing
<1>2. pending[a] \in Seq(Obj)
  BY DEF Types
<1>3. o \in Obj /\ Tail(pending[a]) \in Seq(Obj)
      /\ Elements(pending[a]) = {o} \cup Elements(Tail(pending[a]))
  BY <1>1, <1>2, HeadAndTail
<1>4. /\ pending' = [pending EXCEPT ![a] = Tail(@)]
      /\ processed' = [processed EXCEPT ![a] = @ \cup {o}]
      /\ queued' = queued /\ limit' = limit
      /\ \/ /\ NoFault /\ current' = [current EXCEPT ![a] = o]
            /\ Call(a, o, 0) /\ Goto(a, "analyze") /\ failed' = failed
         \/ /\ NoFault \/ Fault
            /\ current' = current /\ stack' = stack /\ pc' = pc
            /\ (failed' = failed \/ FailStep(a))
      /\ UNCHANGED <<store, save, listed, todo, seen, ran, warned>>
  BY DEF Pop
<1> HIDE DEF o
<1>5. /\ pending' \in [Actor -> Seq(Obj)] /\ processed' \in [Actor -> SUBSET Obj]
      /\ queued'[a] = processed'[a] \cup Elements(pending'[a])
  BY <1>3, <1>4 DEF Types, Control
<1>6. CASE NoFault /\ current' = [current EXCEPT ![a] = o]
            /\ Call(a, o, 0) /\ Goto(a, "analyze") /\ failed' = failed
  <2>1. stack' \in [Actor -> StackType] /\ stack'[a] # <<>>
    BY <1>1, <1>3, <1>6, Calls
  <2>2. pc' \in [Actor -> PC] /\ pc'[a] = "analyze"
    BY <1>6, Here DEF PC
  <2>3. current' \in [Actor -> Obj \cup {None}] /\ current'[a] = o
    BY <1>3, <1>6 DEF Types
  <2>4. Types'
    BY <1>4, <1>5, <1>6, <2>1, <2>2, <2>3 DEF Types, store, NoFault
  <2>5. Control(a)'
    BY <1>1, <1>3, <1>4, <1>5, <2>1, <2>2, <2>3 DEF Control, Saving, Analyzing, Carving
  <2> QED BY <2>4, <2>5
<1>7. CASE /\ NoFault \/ Fault
           /\ current' = current /\ stack' = stack /\ pc' = pc
           /\ (failed' = failed \/ FailStep(a))
  <2>1. faults' \in 0..MaxFaults /\ failed' \in [Actor -> BOOLEAN]
    BY <1>7, Faulted, Failing
  <2>4. Types'
    BY <1>4, <1>5, <1>7, <2>1 DEF Types, store
  <2>5. Control(a)'
    BY <1>1, <1>4, <1>5, <1>7 DEF Control, Saving, Analyzing, Carving
  <2> QED BY <2>4, <2>5
<1> QED BY <1>4, <1>6, <1>7

LEMMA FinishTyped ==
  ASSUME Types, NEW a \in Actor, Control(a), Finish(a)
  PROVE  Types' /\ Control(a)'
<1>1. faults' \in 0..MaxFaults
  BY Constants DEF Types, NoFault, Fault, Finish
<1>2. pc' \in [Actor -> PC] /\ pc[a] = "loop" /\ (pc'[a] = "done" \/ pc'[a] = "error")
  BY Here DEF PC, Finish
<1>3. Types'
  BY <1>1, <1>2 DEF Types, Finish, store, queues
<1>4. Control(a)'
  BY <1>2 DEF Control, Finish, queues, Saving, Analyzing, Carving
<1> QED BY <1>3, <1>4

LEMMA SaveStatementTyped ==
  ASSUME Types, NEW a \in Actor, Control(a), SaveStatement(a)
  PROVE  Types' /\ Control(a)'
<1> DEFINE s == Head(save[a])
<1>1. pc[a] \in Saving /\ save[a] # <<>> /\ save[a] \in Seq(StatementType)
  BY DEF SaveStatement, Control, Types
<1>2. /\ s \in StatementType /\ Tail(save[a]) \in Seq(StatementType)
      /\ Len(save[a]) \in Nat /\ Len(save[a]) >= 1
      /\ Len(Tail(save[a])) = Len(save[a]) - 1
  BY <1>1, HeadAndTail
<1>3. /\ IF s.table = "objects"
         THEN row' = [row EXCEPT ![s.obj] = s.row] /\ UNCHANGED ev
         ELSE /\ ev' = [ev EXCEPT ![s.obj] =
                   [i \in Item |-> IF i \in s.row.lists THEN s.row.place ELSE @[i]]]
              /\ UNCHANGED row
      /\ save' = [save EXCEPT ![a] = Tail(@)]
      /\ IF Len(save[a]) = 1 THEN Goto(a, AfterSave(pc[a])) ELSE UNCHANGED pc
      /\ NoFault
      /\ UNCHANGED <<runs, torn, stack, listed, queues, current, todo, seen, ran,
                     failed, warned>>
  BY DEF SaveStatement
<1>4. s.obj \in Obj /\ s.row \in RowType /\ s.row.place \in Place \cup {None}
  BY <1>2 DEF StatementType, RowType
<1> HIDE DEF s
<1>5. row' \in [Obj -> RowType]
  BY <1>3, <1>4 DEF Types
<1>6. ev' \in [Obj -> [Item -> Place \cup {None}]]
  <2>1. [i \in Item |-> IF i \in s.row.lists THEN s.row.place ELSE ev[s.obj][i]]
          \in [Item -> Place \cup {None}]
    BY <1>4 DEF Types
  <2> QED BY <1>3, <1>4, <2>1 DEF Types
<1>7. save' \in [Actor -> Seq(StatementType)] /\ save'[a] = Tail(save[a])
  BY <1>2, <1>3 DEF Types
<1>8. Len(save[a]) = 1 <=> save'[a] = <<>>
  <2>1. PICK t \in Seq(StatementType) : t = Tail(save[a]) /\ Len(t) = Len(save[a]) - 1
    BY <1>2
  <2>2. Len(t) = 0 <=> t = <<>>
    OBVIOUS
  <2> QED BY <1>2, <1>7, <2>1, <2>2
<1>9. PICK l : l = AfterSave(pc[a])
  OBVIOUS
<1>10. /\ pc[a] = "save_root" => l = "queue"
       /\ pc[a] = "save_child" => l = "descend"
       /\ pc[a] = "save_carved" => l = "carved"
       /\ l \in PC /\ l \notin Saving
  BY <1>1, <1>9 DEF AfterSave, Saving, PC
<1>11. /\ pc' \in [Actor -> PC]
       /\ IF Len(save[a]) = 1 THEN pc'[a] = l ELSE pc'[a] = pc[a]
  <2>1. CASE Len(save[a]) = 1
    <3>1. Goto(a, l)
      BY <1>3, <1>9, <2>1
    <3> QED BY <1>10, <2>1, <3>1, Here
  <2>2. CASE Len(save[a]) # 1
    <3>1. pc' = pc
      BY <1>3, <2>2
    <3> QED BY <2>2, <3>1 DEF Types
  <2> QED BY <2>1, <2>2
<1>12. Types'
  BY <1>3, <1>5, <1>6, <1>7, <1>11 DEF Types, queues, NoFault
<1>13. Control(a)'
  <2>1. CASE pc[a] = "save_root"
    BY <1>1, <1>3, <1>7, <1>8, <1>10, <1>11, <2>1
       DEF Control, queues, Saving, Analyzing, Carving
  <2>2. CASE pc[a] = "save_child"
    BY <1>1, <1>3, <1>7, <1>8, <1>10, <1>11, <2>2
       DEF Control, queues, Saving, Analyzing, Carving, Top
  <2>3. CASE pc[a] = "save_carved"
    BY <1>1, <1>3, <1>7, <1>8, <1>10, <1>11, <2>3
       DEF Control, queues, Saving, Analyzing, Carving
  <2> QED BY <1>1, <2>1, <2>2, <2>3 DEF Saving
<1> QED BY <1>12, <1>13

LEMMA SaveFailsTyped ==
  ASSUME Types, NEW a \in Actor, Control(a), SaveFails(a)
  PROVE  Types' /\ Control(a)'
<1>1. pc[a] \in Saving /\ save[a] # <<>> /\ save[a] \in Seq(StatementType)
  BY DEF SaveFails, Control, Types
<1>2. Head(save[a]).obj \in Obj
  <2>1. Head(save[a]) \in StatementType
    BY <1>1, HeadAndTail
  <2> QED BY <2>1 DEF StatementType
<1>3. faults' \in 0..MaxFaults /\ torn' \in SUBSET Obj
  BY <1>2, Faulted DEF Types, SaveFails
<1>4. save' \in [Actor -> Seq(StatementType)] /\ save'[a] = <<>>
  BY DEF Types, SaveFails
<1>5. UNCHANGED <<row, ev, runs, listed, queues, current, seen, ran>>
  BY DEF SaveFails
<1>6. CASE pc[a] = "save_root"
  <2>1. Goto(a, "error") /\ UNCHANGED <<stack, todo, failed, warned>>
    BY <1>6 DEF SaveFails
  <2>2. pc' \in [Actor -> PC] /\ pc'[a] = "error"
    BY <2>1, Here DEF PC
  <2>3. Types'
    BY <1>3, <1>4, <1>5, <2>1, <2>2 DEF Types, queues
  <2>4. Control(a)'
    BY <1>4, <1>5, <1>6, <2>1, <2>2 DEF Control, queues, Saving, Analyzing, Carving
  <2> QED BY <2>3, <2>4
<1>7. CASE pc[a] = "save_carved"
  <2>1. /\ todo' = [todo EXCEPT ![a] = Tail(@)]
        /\ Goto(a, "carve") /\ FailStep(a) /\ UNCHANGED <<stack, warned>>
    BY <1>7 DEF SaveFails
  <2>2. pc' \in [Actor -> PC] /\ pc'[a] = "carve"
    BY <2>1, Here DEF PC
  <2>3. Tail(todo[a]) \in Seq(Obj)
    BY <1>7, HeadAndTail DEF Control, Types
  <2>4. todo' \in [Actor -> Seq(Obj)] /\ failed' \in [Actor -> BOOLEAN]
    BY <2>1, <2>3 DEF Types, FailStep
  <2>5. Types'
    BY <1>3, <1>4, <1>5, <2>1, <2>2, <2>4 DEF Types, queues
  <2>6. Control(a)'
    BY <1>4, <1>5, <1>7, <2>1, <2>2 DEF Control, queues, Saving, Analyzing, Carving
  <2> QED BY <2>5, <2>6
<1>8. CASE pc[a] = "save_child"
  <2>1. ReturnError(a) \/ LeaveExpander(a)
    BY <1>8 DEF SaveFails
  <2>2. stack[a] # <<>>
    BY <1>8 DEF Control, Analyzing
  <2>3. /\ stack' \in [Actor -> StackType] /\ pc' \in [Actor -> PC]
        /\ todo' \in [Actor -> Seq(Obj)]
        /\ failed' \in [Actor -> BOOLEAN] /\ warned' \in [Actor -> BOOLEAN]
        /\ \/ pc'[a] = "analyze" /\ stack'[a] # <<>>
           \/ pc'[a] = "scan" /\ stack'[a] = <<>> /\ a \in Pipeline
           \/ pc'[a] = "done" /\ stack'[a] = <<>>
    BY <2>1, <2>2, ReturnErrorTyped, LeaveExpanderTyped
  <2>4. Types'
    BY <1>3, <1>4, <1>5, <2>3 DEF Types, queues
  <2>5. Control(a)'
    BY <1>4, <1>5, <1>8, <2>3 DEF Control, queues, Saving, Analyzing, Carving
  <2> QED BY <2>4, <2>5
<1> QED BY <1>1, <1>6, <1>7, <1>8 DEF Saving

LEMMA AnalysisFailsTyped ==
  ASSUME Types, NEW a \in Actor, Control(a), AnalysisFails(a)
  PROVE  Types' /\ Control(a)'
<1>1. pc[a] \in {"analyze", "descend"} /\ stack[a] # <<>> /\ save[a] = <<>>
  BY DEF AnalysisFails, Control, Analyzing, Saving
<1>2. ReturnError(a) \/ LeaveExpander(a)
  BY DEF AnalysisFails
<1>3. /\ stack' \in [Actor -> StackType] /\ pc' \in [Actor -> PC]
      /\ todo' \in [Actor -> Seq(Obj)]
      /\ failed' \in [Actor -> BOOLEAN] /\ warned' \in [Actor -> BOOLEAN]
      /\ \/ pc'[a] = "analyze" /\ stack'[a] # <<>>
         \/ pc'[a] = "scan" /\ stack'[a] = <<>> /\ a \in Pipeline
         \/ pc'[a] = "done" /\ stack'[a] = <<>>
  BY <1>1, <1>2, ReturnErrorTyped, LeaveExpanderTyped
<1>4. faults' \in 0..MaxFaults
  BY Faulted DEF AnalysisFails
<1>5. UNCHANGED <<store, save, listed, queues, current, seen, ran>>
  BY DEF AnalysisFails
<1>6. Types'
  BY <1>3, <1>4, <1>5 DEF Types, store, queues
<1>7. Control(a)'
  BY <1>1, <1>3, <1>5 DEF Control, queues, Saving, Analyzing, Carving
<1> QED BY <1>6, <1>7

LEMMA FoundChildTyped ==
  ASSUME Types, NEW a \in Actor, Control(a), FoundChild(a)
  PROVE  Types' /\ Control(a)'
<1>1. pc[a] = "analyze" /\ stack[a] # <<>> /\ save[a] = <<>>
  BY DEF FoundChild, Control, Analyzing, Saving
<1>2. \A o \in Obj : DugRow(o) \in RowType /\ ExpandedRow(o) \in RowType
  BY DEF DugRow, ExpandedRow, RowType, FoundPlace, Place, Types, Item
<1>3. PICK c \in Obj, r \in RowType : save' = [save EXCEPT ![a] = ChildStatements(c, r)]
  <2>1. CASE Digging(Top(a)) /\ save' = [save EXCEPT ![a] =
               ChildStatements(Head(Top(a).dig), DugRow(Head(Top(a).dig)))]
    <3>1. Head(Top(a).dig) \in Obj
      BY <1>1, <2>1, TopTyped, HeadAndTail DEF Digging
    <3> QED BY <1>2, <2>1, <3>1
  <2>2. CASE Expanding(Top(a)) /\ save' = [save EXCEPT ![a] =
               ChildStatements(Head(Top(a).member), ExpandedRow(Head(Top(a).member)))]
    <3>1. Head(Top(a).member) \in Obj
      BY <1>1, <2>2, TopTyped, HeadAndTail DEF Expanding
    <3> QED BY <1>2, <2>2, <3>1
  <2> QED BY <2>1, <2>2 DEF FoundChild
<1>4. save' \in [Actor -> Seq(StatementType)] /\ save'[a] # <<>>
  BY <1>3, ChildTyped DEF Types
<1>5. pc' \in [Actor -> PC] /\ pc'[a] = "save_child"
  BY Here DEF PC, Saving, FoundChild
<1>6. ~Closing(Top(a))
  BY DEF FoundChild, Digging, Expanding, Closing
<1>7. NoFault /\ UNCHANGED <<store, stack, listed, queues, current, todo, seen, ran,
                              failed, warned>>
  BY DEF FoundChild
<1>8. Types'
  BY <1>4, <1>5, <1>7 DEF Types, store, queues, NoFault
<1>9. Control(a)'
  BY <1>1, <1>4, <1>5, <1>6, <1>7 DEF Control, queues, Saving, Analyzing, Carving, Top
<1> QED BY <1>8, <1>9

LEMMA DescendTyped ==
  ASSUME Types, NEW a \in Actor, Control(a), Descend(a)
  PROVE  Types' /\ Control(a)'
<1> DEFINE f == Top(a)
           c == IF Digging(f) THEN Head(f.dig) ELSE Head(f.member)
<1>1. pc[a] = "descend" /\ stack[a] # <<>> /\ save[a] = <<>> /\ ~Closing(f)
  BY DEF Descend, Control, Analyzing, Saving
<1>2. /\ stack[a] \in StackType /\ f \in FrameType /\ Shallow(f) /\ f.depth \in Nat
      /\ f.dig \in Seq(Obj) /\ f.member \in Seq(Obj)
  BY <1>1, TopTyped
<1>3. c \in Obj
  BY <1>1, <1>2, HeadAndTail DEF Digging, Closing
<1>4. /\ stack' = [stack EXCEPT ![a] = <<Frame(c, f.depth + 1), Listing(f)>> \o Tail(@)]
      /\ Goto(a, "analyze") /\ NoFault
      /\ UNCHANGED <<store, save, listed, queues, current, todo, seen, ran, failed,
                     warned>>
  BY DEF Descend
<1>5. f = Head(stack[a])
  BY DEF Top
<1> HIDE DEF c, f
<1>6. PICK d \in Nat : d = f.depth + 1
  BY <1>2
<1>7. PICK g \in FrameType : g = Frame(c, d) /\ Shallow(g) /\ g.depth = d
  BY <1>3, <1>6, FrameTyped
<1>8. PICK h \in FrameType : h = Listing(f) /\ Shallow(h) /\ h.depth = f.depth
  BY <1>1, <1>2, ListingTyped
<1>9. PICK t : t = <<g, h>> \o Tail(stack[a])
  OBVIOUS
<1>10. t \in StackType /\ t # <<>>
  <2>1. PICK s \in StackType : s = stack[a]
    BY <1>2
  <2>2. s # <<>> /\ f = Head(s) /\ ~Closing(Head(s)) /\ h.depth = Head(s).depth
        /\ g.depth = h.depth + 1
    BY <1>1, <1>5, <1>6, <1>7, <1>8, <2>1
  <2>3. t = <<g, h>> \o Tail(s)
    BY <1>9, <2>1
  <2> QED BY <1>7, <1>8, <2>2, <2>3, Descended
<1>11. stack' = [stack EXCEPT ![a] = t]
  BY <1>4, <1>6, <1>7, <1>8, <1>9
<1>12. stack' \in [Actor -> StackType] /\ stack'[a] # <<>>
  BY <1>10, <1>11 DEF Types
<1>13. pc' \in [Actor -> PC] /\ pc'[a] = "analyze"
  BY <1>4, Here DEF PC
<1>14. Types'
  BY <1>4, <1>12, <1>13 DEF Types, store, queues, NoFault
<1>15. Control(a)'
  BY <1>1, <1>4, <1>12, <1>13 DEF Control, queues, Saving, Analyzing, Carving
<1> QED BY <1>14, <1>15

\* A step that only changes the frame of the call under way.
LEMMA UpdateTyped ==
  ASSUME Types, NEW a \in Actor, Control(a), pc[a] = "analyze",
         NEW f \in FrameType, f.depth = Top(a).depth, Shallow(f), Update(a, f),
         NoFault \/ Fault, warned' \in [Actor -> BOOLEAN],
         ev' \in [Obj -> [Item -> Place \cup {None}]],
         UNCHANGED <<row, runs, torn, pc, save, listed, queues, current, todo, seen,
                     ran, failed>>
  PROVE  Types' /\ Control(a)'
<1>1. stack[a] # <<>>
  BY DEF Control, Analyzing
<1>2. stack' \in [Actor -> StackType] /\ stack'[a] # <<>>
  BY <1>1, Updated
<1>3. faults' \in 0..MaxFaults
  BY Faulted
<1>4. Types'
  BY <1>2, <1>3 DEF Types, queues
<1>5. Control(a)'
  BY <1>1, <1>2 DEF Control, queues, Saving, Analyzing, Carving
<1> QED BY <1>4, <1>5

LEMMA ReuseMemberTyped ==
  ASSUME Types, NEW a \in Actor, Control(a), ReuseMember(a)
  PROVE  Types' /\ Control(a)'
<1>1. pc[a] = "analyze" /\ stack[a] # <<>> /\ ~Closing(Top(a))
  BY DEF ReuseMember, Control, Analyzing, Expanding, Closing
<1>2. PICK f \in FrameType : f = Listing(Top(a)) /\ Shallow(f) /\ f.depth = Top(a).depth
  BY <1>1, TopTyped, ListingTyped
<1>3. Update(a, f) /\ NoFault /\ warned' = warned /\ ev' = ev
  BY <1>2 DEF ReuseMember, store
<1>4. UNCHANGED <<row, runs, torn, pc, save, listed, queues, current, todo, seen,
                  ran, failed>>
  BY DEF ReuseMember, store
<1> QED BY <1>1, <1>2, <1>3, <1>4, UpdateTyped DEF Types

LEMMA SkipMemberTyped ==
  ASSUME Types, NEW a \in Actor, Control(a), SkipMember(a)
  PROVE  Types' /\ Control(a)'
<1>1. pc[a] = "analyze" /\ stack[a] # <<>> /\ Expanding(Top(a))
  BY DEF SkipMember, Control, Analyzing
<1>2. Top(a) \in FrameType /\ Shallow(Top(a)) /\ Tail(Top(a).member) \in Seq(Obj)
  BY <1>1, TopTyped, HeadAndTail DEF Expanding
<1>3. PICK f : f = [Top(a) EXCEPT !.member = Tail(@)]
  OBVIOUS
<1>4. f \in FrameType /\ f.depth = Top(a).depth
  BY <1>2, <1>3 DEF FrameType
<1>5. Shallow(f)
  BY <1>1, <1>2, <1>4 DEF Shallow, Expanding, Closing
<1>6. Update(a, f) /\ Fault /\ warned' \in [Actor -> BOOLEAN] /\ ev' = ev
  BY <1>3 DEF SkipMember, store, Types
<1>7. UNCHANGED <<row, runs, torn, pc, save, listed, queues, current, todo, seen,
                  ran, failed>>
  BY DEF SkipMember, store
<1> QED BY <1>1, <1>4, <1>5, <1>6, <1>7, UpdateTyped DEF Types

LEMMA RecordEvidenceTyped ==
  ASSUME Types, NEW a \in Actor, Control(a), RecordEvidence(a)
  PROVE  Types' /\ Control(a)'
<1>1. pc[a] = "analyze" /\ stack[a] # <<>> /\ Closing(Top(a))
  BY DEF RecordEvidence, Control, Analyzing
<1>2. Top(a) \in FrameType /\ Top(a).obj \in Obj /\ Top(a).place \in Place \cup {None}
  BY <1>1, TopTyped
<1>3. PICK f : f = [Top(a) EXCEPT !.recorded = TRUE]
  OBVIOUS
<1>4. f \in FrameType /\ f.depth = Top(a).depth /\ f.dig = Top(a).dig /\ f.member = Top(a).member
  BY <1>2, <1>3 DEF FrameType
<1>5. Shallow(f)
  BY <1>1, <1>4 DEF Shallow, Closing
<1>6. Update(a, f) /\ NoFault /\ warned' = warned
  BY <1>3 DEF RecordEvidence
<1>7. ev' \in [Obj -> [Item -> Place \cup {None}]]
  <2>1. [ev[Top(a).obj] EXCEPT !["analysis"] = Top(a).place] \in [Item -> Place \cup {None}]
    BY <1>2 DEF Types
  <2> QED BY <1>2, <2>1 DEF RecordEvidence, Types
<1>8. UNCHANGED <<row, runs, torn, pc, save, listed, queues, current, todo, seen,
                  ran, failed>>
  BY DEF RecordEvidence
<1> QED BY <1>1, <1>4, <1>5, <1>6, <1>7, <1>8, UpdateTyped DEF Types

LEMMA RecordRowTyped ==
  ASSUME Types, NEW a \in Actor, Control(a), RecordRow(a)
  PROVE  Types' /\ Control(a)'
<1> DEFINE dug == Top(a).dug
           expanded == Top(a).expanded
           I == {i \in DOMAIN expanded : expanded[i] \notin Elements(dug)}
           children == dug \o Pick(expanded, I)
<1>1. pc[a] = "analyze" /\ stack[a] # <<>> /\ save[a] = <<>>
  BY DEF RecordRow, Control, Analyzing, Saving
<1>2. dug \in Seq(Obj) /\ expanded \in Seq(Obj) /\ Top(a).obj \in Obj /\ stack[a] \in StackType
  BY <1>1, TopTyped
<1>3. /\ row' = [row EXCEPT ![Top(a).obj].lists = Item]
      /\ stack' = [stack EXCEPT ![a] = Tail(@)]
      /\ NoFault
      /\ UNCHANGED <<ev, runs, torn, save, queues, current, seen, ran, failed, warned>>
      /\ \/ Len(stack[a]) > 1 /\ UNCHANGED <<pc, listed, todo>>
         \/ /\ ~ (Len(stack[a]) > 1)
            /\ Goto(a, "promote")
            /\ listed' = [listed EXCEPT ![a] = children]
            /\ todo' = [todo EXCEPT ![a] = Candidates(children)]
  BY DEF RecordRow
<1>4. children \in Seq(Obj)
  <2>1. PICK n : n = Pick(expanded, I)
    OBVIOUS
  <2>2. n \in Seq(Obj)
    BY <1>2, <2>1, Picked
  <2> QED BY <1>2, <2>1, <2>2
<1> HIDE DEF dug, expanded, children
<1>5. row' \in [Obj -> RowType]
  <2>0. PICK r \in RowType : r = row[Top(a).obj]
    BY <1>2 DEF Types
  <2>1. [row[Top(a).obj] EXCEPT !.lists = Item] \in RowType
    BY <2>0 DEF RowType
  <2> QED BY <1>2, <1>3, <2>1 DEF Types
<1>6. /\ stack' \in [Actor -> StackType]
      /\ stack'[a] # <<>> <=> Len(stack[a]) > 1
  BY <1>1, <1>2, <1>3, Returned DEF Types
<1>7. CASE Len(stack[a]) > 1 /\ UNCHANGED <<pc, listed, todo>>
  <2>1. Types'
    BY <1>3, <1>5, <1>6, <1>7 DEF Types, queues, NoFault
  <2>2. Control(a)'
    BY <1>1, <1>3, <1>6, <1>7 DEF Control, queues, Saving, Analyzing, Carving
  <2> QED BY <2>1, <2>2
<1>8. CASE /\ ~ (Len(stack[a]) > 1)
           /\ Goto(a, "promote")
           /\ listed' = [listed EXCEPT ![a] = children]
           /\ todo' = [todo EXCEPT ![a] = Candidates(children)]
  <2>1. PICK n : n = Candidates(children)
    OBVIOUS
  <2>2. n \in Seq(Obj) /\ Elements(n) \subseteq Native
    BY <1>4, <2>1, CandidatesTyped
  <2>3. /\ listed' \in [Actor -> Seq(Obj)] /\ todo' \in [Actor -> Seq(Obj)]
        /\ Elements(todo'[a]) \subseteq Native
    BY <1>4, <1>8, <2>1, <2>2 DEF Types
  <2>4. pc' \in [Actor -> PC] /\ pc'[a] = "promote"
    BY <1>8, Here DEF PC
  <2>5. Types'
    BY <1>3, <1>5, <1>6, <2>3, <2>4 DEF Types, queues, NoFault
  <2>6. Control(a)'
    BY <1>1, <1>3, <1>6, <1>8, <2>3, <2>4 DEF Control, queues, Saving, Analyzing, Carving
  <2> QED BY <2>5, <2>6
<1> QED BY <1>3, <1>7, <1>8

\* What analysing an object as a binary changes, whether or not it succeeds.
LEMMA RunTyped ==
  ASSUME Types, NEW a \in Actor, NEW o \in Native,
         UNCHANGED store \/ BinaryRun(a, o),
         ran' = ran \/ BinaryRun(a, o)
  PROVE  /\ row' = row /\ torn' = torn
         /\ ev' \in [Obj -> [Item -> Place \cup {None}]]
         /\ runs' \in SUBSET Obj /\ ran' \in [Actor -> [Obj -> Nat]]
<1>1. CASE BinaryRun(a, o)
  BY <1>1, Stores
<1>2. CASE ~BinaryRun(a, o)
  BY <1>2 DEF Types, store
<1> QED BY <1>1, <1>2

LEMMA SeenTyped ==
  ASSUME Types, NEW a \in Actor, NEW o \in Native,
         \/ seen' = seen
         \/ seen' = [seen EXCEPT ![a] = @ \cup {o}]
         \/ seen' = [seen EXCEPT ![a] = @ \cup {BinaryId[o]}]
  PROVE  seen' \in [Actor -> SUBSET Obj]
<1>1. o \in Obj /\ BinaryId[o] \in Obj
  BY Constants
<1>2. seen \in [Actor -> SUBSET Obj] /\ seen[a] \in SUBSET Obj
  BY DEF Types
<1>3. seen[a] \cup {o} \in SUBSET Obj /\ seen[a] \cup {BinaryId[o]} \in SUBSET Obj
  BY <1>1, <1>2
<1>4. CASE seen' = seen
  BY <1>2, <1>4
<1>5. CASE seen' = [seen EXCEPT ![a] = @ \cup {o}]
  BY <1>2, <1>3, <1>5
<1>6. CASE seen' = [seen EXCEPT ![a] = @ \cup {BinaryId[o]}]
  BY <1>2, <1>3, <1>6
<1> QED BY <1>4, <1>5, <1>6

LEMMA PromoteTyped ==
  ASSUME Types, NEW a \in Actor, Control(a), Promote(a)
  PROVE  Types' /\ Control(a)'
<1>1. pc[a] = "promote" /\ todo[a] # <<>> /\ todo[a] \in Seq(Obj) /\ Elements(todo[a]) \subseteq Native
  BY DEF Promote, Control, Types
<1>2. PICK o : o = Head(todo[a])
  OBVIOUS
<1>3. /\ o \in Native /\ Tail(todo[a]) \in Seq(Obj) /\ Elements(Tail(todo[a])) \subseteq Native
  BY <1>1, <1>2, HeadAndTail
<1>4. /\ todo' = [todo EXCEPT ![a] = Tail(@)]
      /\ UNCHANGED <<pc, save, stack, listed, queues, current, failed>>
  BY DEF Promote
<1>5. /\ (UNCHANGED store \/ BinaryRun(a, o)) /\ (ran' = ran \/ BinaryRun(a, o))
      /\ \/ seen' = seen
         \/ seen' = [seen EXCEPT ![a] = @ \cup {o}]
         \/ seen' = [seen EXCEPT ![a] = @ \cup {BinaryId[o]}]
      /\ NoFault \/ Fault
      /\ (warned' = warned \/ warned' = [warned EXCEPT ![a] = TRUE])
  BY <1>2 DEF Promote, Analyzed, NotAnalyzed
<1>6. /\ row' = row /\ torn' = torn
      /\ ev' \in [Obj -> [Item -> Place \cup {None}]]
      /\ runs' \in SUBSET Obj /\ ran' \in [Actor -> [Obj -> Nat]]
  BY <1>3, <1>5, RunTyped
<1>7. seen' \in [Actor -> SUBSET Obj] /\ faults' \in 0..MaxFaults
  BY <1>3, <1>5, SeenTyped, Faulted
<1>8. /\ todo' \in [Actor -> Seq(Obj)] /\ todo'[a] = Tail(todo[a])
      /\ warned' \in [Actor -> BOOLEAN]
  BY <1>3, <1>4, <1>5 DEF Types
<1>9. Types'
  BY <1>4, <1>6, <1>7, <1>8 DEF Types, queues
<1>10. Control(a)'
  BY <1>1, <1>3, <1>4, <1>8 DEF Control, queues, Saving, Analyzing, Carving
<1> QED BY <1>9, <1>10

LEMMA EndPromotionTyped ==
  ASSUME Types, NEW a \in Actor, Control(a), EndPromotion(a)
  PROVE  Types' /\ Control(a)'
<1>1. pc[a] = "promote" /\ stack[a] = <<>> /\ save[a] = <<>>
  BY DEF EndPromotion, Control, Analyzing, Saving
<1>2. UNCHANGED <<store, save, stack, listed, current, todo, seen, ran, failed, warned>>
  BY DEF EndPromotion
<1>3. faults' \in 0..MaxFaults
  BY Faulted DEF EndPromotion
<1>4. pc' \in [Actor -> PC] /\ pc'[a] \in {"scan", "done", "error"}
        /\ (pc'[a] = "scan" => a \in Pipeline)
  BY Here DEF EndPromotion, AfterAnalysis, PC
<1>5. /\ pending' \in [Actor -> Seq(Obj)] /\ queued' \in [Actor -> SUBSET Obj]
      /\ processed' = processed
      /\ queued'[a] = processed'[a] \cup Elements(pending'[a])
  <2>1. CASE Queue(a, listed[a])
    <3>1. PICK s \in Seq(Obj) : s = listed[a]
      BY DEF Types
    <3>2. /\ pending' \in [Actor -> Seq(Obj)] /\ queued' \in [Actor -> SUBSET Obj]
          /\ queued'[a] = queued[a] \cup Elements(s)
          /\ Elements(pending'[a]) = Elements(pending[a]) \cup (Elements(s) \ queued[a])
      BY <2>1, <3>1, Queued
    <3> QED BY <2>1, <3>2 DEF Queue, Control
  <2>2. CASE UNCHANGED queues
    BY <2>2 DEF queues, Types, Control
  <2> QED BY <2>1, <2>2 DEF EndPromotion
<1>6. Types'
  BY <1>2, <1>3, <1>4, <1>5 DEF Types, store
<1>7. Control(a)'
  BY <1>1, <1>2, <1>4, <1>5 DEF Control, Saving, Analyzing, Carving
<1> QED BY <1>6, <1>7

LEMMA ScanTyped ==
  ASSUME Types, NEW a \in Actor, Control(a), Scan(a)
  PROVE  Types' /\ Control(a)'
<1>1. pc[a] = "scan" /\ stack[a] = <<>> /\ save[a] = <<>> /\ a \in Pipeline /\ current[a] \in Obj
  BY DEF Scan, Control, Analyzing, Saving, Carving
<1>2. PICK s \in Seq(Obj) : s = Carve[current[a]]
  BY <1>1, Constants
<1>3. /\ todo' \in [Actor -> Seq(Obj)] /\ listed' \in [Actor -> Seq(Obj)]
      /\ failed' \in [Actor -> BOOLEAN] /\ faults' \in 0..MaxFaults
  <2>1. todo' \in [Actor -> Seq(Obj)] /\ listed' \in [Actor -> Seq(Obj)]
    <3>1. /\ todo \in [Actor -> Seq(Obj)] /\ listed \in [Actor -> Seq(Obj)]
          /\ <<>> \in Seq(Obj)
      BY DEF Types
    <3>2. /\ todo' = todo \/ todo' = [todo EXCEPT ![a] = s]
          /\ listed' = [listed EXCEPT ![a] = <<>>]
      BY <1>2 DEF Scan
    <3> QED BY <3>1, <3>2
  <2>2. (failed' = failed \/ FailStep(a)) /\ (NoFault \/ Fault)
    BY DEF Scan
  <2> QED BY <2>1, <2>2, Failing, Faulted
<1>4. pc' \in [Actor -> PC] /\ pc'[a] \in {"carve", "binary"}
  BY Here DEF Scan, PC
<1>5. UNCHANGED <<store, save, stack, queues, current, seen, ran, warned>>
  BY DEF Scan
<1>6. Types'
  BY <1>3, <1>4, <1>5 DEF Types, store, queues
<1>7. Control(a)'
  BY <1>1, <1>4, <1>5 DEF Control, queues, Saving, Analyzing, Carving
<1> QED BY <1>6, <1>7

LEMMA IdentifyTyped ==
  ASSUME Types, NEW a \in Actor, Control(a), Identify(a)
  PROVE  Types' /\ Control(a)'
<1>1. pc[a] = "carve" /\ stack[a] = <<>> /\ save[a] = <<>> /\ a \in Pipeline /\ current[a] \in Obj
  BY DEF Identify, Control, Analyzing, Saving, Carving
<1>2. todo[a] \in Seq(Obj) /\ todo[a] # <<>>
  BY DEF Identify, Types
<1>3. Head(todo[a]) \in Obj /\ Tail(todo[a]) \in Seq(Obj)
  BY <1>2, HeadAndTail
<1>4. UNCHANGED <<store, stack, listed, queues, current, seen, ran, warned>>
  BY DEF Identify
<1>5. CASE /\ save' = [save EXCEPT ![a] = GraphStatements(Head(todo[a]), "artifact")]
           /\ Goto(a, "save_carved") /\ NoFault /\ UNCHANGED <<todo, failed>>
  <2>1. PICK s : s = GraphStatements(Head(todo[a]), "artifact")
    OBVIOUS
  <2>2. s \in Seq(StatementType) /\ s # <<>>
    BY <1>3, <2>1, GraphTyped DEF Place
  <2>3. save' \in [Actor -> Seq(StatementType)] /\ save'[a] # <<>>
    BY <1>5, <2>1, <2>2 DEF Types
  <2>4. pc' \in [Actor -> PC] /\ pc'[a] = "save_carved"
    BY <1>5, Here DEF PC, Saving
  <2>5. Types'
    BY <1>4, <1>5, <2>3, <2>4 DEF Types, store, queues, NoFault
  <2>6. Control(a)'
    BY <1>1, <1>2, <1>4, <1>5, <2>3, <2>4 DEF Control, queues, Saving, Analyzing, Carving
  <2> QED BY <2>5, <2>6
<1>6. CASE /\ todo' = [todo EXCEPT ![a] = Tail(@)]
           /\ Fault /\ FailStep(a) /\ UNCHANGED <<pc, save>>
  <2>1. /\ todo' \in [Actor -> Seq(Obj)] /\ failed' \in [Actor -> BOOLEAN]
        /\ faults' \in 0..MaxFaults
    BY <1>3, <1>6, Failing, Faulted DEF Types
  <2>2. Types'
    BY <1>4, <1>6, <2>1 DEF Types, store, queues
  <2>3. Control(a)'
    BY <1>1, <1>4, <1>6 DEF Control, queues, Saving, Analyzing, Carving
  <2> QED BY <2>2, <2>3
<1> QED BY <1>5, <1>6 DEF Identify

LEMMA DeriveTyped ==
  ASSUME Types, NEW a \in Actor, Control(a), Derive(a)
  PROVE  Types' /\ Control(a)'
<1>1. /\ pc[a] = "carved" /\ stack[a] = <<>> /\ save[a] = <<>> /\ a \in Pipeline
      /\ current[a] \in Obj /\ todo[a] # <<>>
  BY DEF Derive, Control, Analyzing, Saving, Carving
<1>2. Head(todo[a]) \in Obj /\ Tail(todo[a]) \in Seq(Obj)
  BY <1>1, HeadAndTail DEF Types
<1>3. UNCHANGED <<store, save, stack, queues, current, seen, ran, warned>>
  BY DEF Derive
<1>4. /\ todo' \in [Actor -> Seq(Obj)] /\ failed' \in [Actor -> BOOLEAN]
      /\ faults' \in 0..MaxFaults
  <2>1. todo' \in [Actor -> Seq(Obj)]
    <3>1. todo \in [Actor -> Seq(Obj)] /\ <<>> \in Seq(Obj)
      BY DEF Types
    <3>2. PICK t \in Seq(Obj) : todo' = [todo EXCEPT ![a] = t]
      BY <1>2, <3>1 DEF Derive
    <3> QED BY <3>1, <3>2
  <2>2. (failed' = failed \/ FailStep(a)) /\ (NoFault \/ Fault)
    BY DEF Derive
  <2> QED BY <2>1, <2>2, Failing, Faulted
<1>5. pc' \in [Actor -> PC] /\ pc'[a] \in {"carve", "binary"}
  BY Here DEF Derive, PC
<1>6. listed' \in [Actor -> Seq(Obj)]
  <2>1. PICK s : s = listed[a] \o <<Head(todo[a])>> \o Entry[Head(todo[a])]
    OBVIOUS
  <2>2. s \in Seq(Obj)
    BY <1>2, <2>1, Constants DEF Types
  <2>3. listed' = [listed EXCEPT ![a] = s] \/ listed' = listed
    BY <2>1 DEF Derive
  <2> QED BY <2>2, <2>3 DEF Types
<1>7. Types'
  BY <1>3, <1>4, <1>5, <1>6 DEF Types, store, queues
<1>8. Control(a)'
  BY <1>1, <1>3, <1>5 DEF Control, queues, Saving, Analyzing, Carving
<1> QED BY <1>7, <1>8

LEMMA EndCarveTyped ==
  ASSUME Types, NEW a \in Actor, Control(a), EndCarve(a)
  PROVE  Types' /\ Control(a)'
<1>1. /\ pc[a] = "carve" /\ stack[a] = <<>> /\ save[a] = <<>> /\ a \in Pipeline
      /\ current[a] \in Obj
  BY DEF EndCarve, Control, Analyzing, Saving, Carving
<1>2. UNCHANGED <<store, save, stack, listed, current, todo, seen, ran, warned>>
  BY DEF EndCarve
<1>3. failed' \in [Actor -> BOOLEAN] /\ faults' \in 0..MaxFaults
  BY Failing, Faulted DEF EndCarve
<1>4. pc' \in [Actor -> PC] /\ pc'[a] = "binary"
  BY Here DEF EndCarve, PC
<1>5. /\ pending' \in [Actor -> Seq(Obj)] /\ queued' \in [Actor -> SUBSET Obj]
      /\ processed' = processed
      /\ queued'[a] = processed'[a] \cup Elements(pending'[a])
  <2>1. CASE Queue(a, listed[a])
    <3>1. PICK s \in Seq(Obj) : s = listed[a]
      BY DEF Types
    <3>2. /\ pending' \in [Actor -> Seq(Obj)] /\ queued' \in [Actor -> SUBSET Obj]
          /\ queued'[a] = queued[a] \cup Elements(s)
          /\ Elements(pending'[a]) = Elements(pending[a]) \cup (Elements(s) \ queued[a])
      BY <2>1, <3>1, Queued
    <3> QED BY <2>1, <3>2 DEF Queue, Control
  <2>2. CASE UNCHANGED queues
    BY <2>2 DEF queues, Types, Control
  <2> QED BY <2>1, <2>2 DEF EndCarve
<1>6. Types'
  BY <1>2, <1>3, <1>4, <1>5 DEF Types, store
<1>7. Control(a)'
  BY <1>1, <1>2, <1>4, <1>5 DEF Control, Saving, Analyzing, Carving
<1> QED BY <1>6, <1>7

LEMMA AnalyzeBinaryTyped ==
  ASSUME Types, NEW a \in Actor, Control(a), AnalyzeBinary(a)
  PROVE  Types' /\ Control(a)'
<1>1. /\ pc[a] = "binary" /\ stack[a] = <<>> /\ save[a] = <<>> /\ a \in Pipeline
      /\ current[a] \in Obj
  BY DEF AnalyzeBinary, Control, Analyzing, Saving, Carving
<1>2. PICK o : o = current[a]
  OBVIOUS
<1>3. UNCHANGED <<save, stack, listed, queues, current, todo, warned>>
  BY DEF AnalyzeBinary
<1>4. pc' \in [Actor -> PC] /\ pc'[a] = "loop"
  BY Here DEF AnalyzeBinary, PC
<1>5. /\ \/ UNCHANGED <<store, ran, seen>>
         \/ /\ o \in Native
            /\ (UNCHANGED store \/ BinaryRun(a, o)) /\ (ran' = ran \/ BinaryRun(a, o))
            /\ (seen' = seen \/ seen' = [seen EXCEPT ![a] = @ \cup {BinaryId[o]}])
      /\ NoFault \/ Fault
      /\ failed' = failed \/ FailStep(a)
  BY <1>2 DEF AnalyzeBinary, Analyzed, NotAnalyzed
<1>6. faults' \in 0..MaxFaults /\ failed' \in [Actor -> BOOLEAN]
  BY <1>5, Failing, Faulted
<1>7. /\ row' = row /\ torn' = torn
      /\ ev' \in [Obj -> [Item -> Place \cup {None}]] /\ seen' \in [Actor -> SUBSET Obj]
      /\ runs' \in SUBSET Obj /\ ran' \in [Actor -> [Obj -> Nat]]
  <2>1. CASE UNCHANGED <<store, ran, seen>>
    BY <2>1 DEF store, Types
  <2>2. CASE /\ o \in Native
             /\ (UNCHANGED store \/ BinaryRun(a, o)) /\ (ran' = ran \/ BinaryRun(a, o))
             /\ (seen' = seen \/ seen' = [seen EXCEPT ![a] = @ \cup {BinaryId[o]}])
    BY <2>2, RunTyped, SeenTyped
  <2> QED BY <1>5, <2>1, <2>2
<1>8. Types'
  BY <1>3, <1>4, <1>6, <1>7 DEF Types, queues
<1>9. Control(a)'
  BY <1>1, <1>3, <1>4 DEF Control, queues, Saving, Analyzing, Carving
<1> QED BY <1>8, <1>9

-----------------------------------------------------------------------------
(* What an actor keeps to itself is not touched by another.                *)

Mine(b) == <<pc[b], save[b], stack[b], listed[b], pending[b], processed[b], queued[b],
             current[b], todo[b], seen[b], ran[b], failed[b], warned[b]>>

LEMMA RunByAnother ==
  ASSUME Types, NEW a \in Actor, NEW b \in Actor, b # a, NEW o \in Native,
         ran' = ran \/ BinaryRun(a, o)
  PROVE  ran'[b] = ran[b]
  BY DEF Types, BinaryRun

LEMMA OnlyMine ==
  ASSUME Types, NEW a \in Actor, Control(a), Step(a), NEW b \in Actor, b # a
  PROVE  Mine(b)' = Mine(b)
<1> SUFFICES /\ pc'[b] = pc[b] /\ save'[b] = save[b] /\ stack'[b] = stack[b]
             /\ listed'[b] = listed[b] /\ pending'[b] = pending[b]
             /\ processed'[b] = processed[b] /\ queued'[b] = queued[b]
             /\ current'[b] = current[b] /\ todo'[b] = todo[b] /\ seen'[b] = seen[b]
             /\ ran'[b] = ran[b] /\ failed'[b] = failed[b] /\ warned'[b] = warned[b]
  BY DEF Mine
<1>0. /\ pc \in [Actor -> PC] /\ save \in [Actor -> Seq(StatementType)]
      /\ stack \in [Actor -> StackType] /\ listed \in [Actor -> Seq(Obj)]
      /\ pending \in [Actor -> Seq(Obj)] /\ processed \in [Actor -> SUBSET Obj]
      /\ queued \in [Actor -> SUBSET Obj] /\ current \in [Actor -> Obj \cup {None}]
      /\ todo \in [Actor -> Seq(Obj)] /\ seen \in [Actor -> SUBSET Obj]
      /\ ran \in [Actor -> [Obj -> Nat]] /\ failed \in [Actor -> BOOLEAN]
      /\ warned \in [Actor -> BOOLEAN]
  BY DEF Types
<1>1. CASE Start(a)
  BY <1>0, <1>1 DEF Start, Goto, Call, queues
<1>2. CASE QueueGraph(a)
  BY <1>0, <1>2 DEF QueueGraph, Goto, Queue
<1>3. CASE Pop(a)
  BY <1>0, <1>3 DEF Pop, Goto, Call, FailStep
<1>4. CASE Finish(a)
  BY <1>0, <1>4 DEF Finish, Goto, queues
<1>5. CASE SaveStatement(a)
  BY <1>0, <1>5 DEF SaveStatement, Goto, queues
<1>6. CASE SaveFails(a)
  <2>1. /\ save' = [save EXCEPT ![a] = <<>>]
        /\ UNCHANGED <<row, ev, runs, listed, queues, current, seen, ran>>
        /\ \/ Goto(a, "error") /\ UNCHANGED <<stack, todo, failed, warned>>
           \/ /\ todo' = [todo EXCEPT ![a] = Tail(@)]
              /\ Goto(a, "carve") /\ FailStep(a) /\ UNCHANGED <<stack, warned>>
           \/ ReturnError(a) \/ LeaveExpander(a)
    <3>1. pc[a] \in Saving
      BY <1>6 DEF SaveFails
    <3>2. CASE pc[a] = "save_root"
      BY <1>6, <3>2 DEF SaveFails
    <3>3. CASE pc[a] = "save_carved"
      BY <1>6, <3>3 DEF SaveFails
    <3>4. CASE pc[a] = "save_child"
      BY <1>6, <3>4 DEF SaveFails
    <3> QED BY <3>1, <3>2, <3>3, <3>4 DEF Saving
  <2> QED BY <1>0, <2>1 DEF Goto, FailStep, ReturnError, LeaveExpander, Update, queues
<1>7. CASE FoundChild(a)
  BY <1>0, <1>7 DEF FoundChild, Goto, queues
<1>8. CASE Descend(a)
  BY <1>0, <1>8 DEF Descend, Goto, queues
<1>9. CASE ReuseMember(a)
  BY <1>0, <1>9 DEF ReuseMember, Update, queues
<1>10. CASE SkipMember(a)
  BY <1>0, <1>10 DEF SkipMember, Update, queues
<1>11. CASE RecordEvidence(a)
  BY <1>0, <1>11 DEF RecordEvidence, Update, queues
<1>12. CASE RecordRow(a)
  BY <1>0, <1>12 DEF RecordRow, Goto, queues
<1>13. CASE AnalysisFails(a)
  <2>1. /\ UNCHANGED <<store, save, listed, queues, current, seen, ran>>
        /\ ReturnError(a) \/ LeaveExpander(a)
    BY <1>13 DEF AnalysisFails
  <2> QED BY <1>0, <2>1 DEF Goto, ReturnError, LeaveExpander, Update, queues
<1>14. CASE Promote(a)
  <2>1. Head(todo[a]) \in Native
    BY <1>14, HeadAndTail DEF Promote, Control, Types
  <2>2. ran'[b] = ran[b]
    <3>1. ran' = ran \/ BinaryRun(a, Head(todo[a]))
      BY <1>14 DEF Promote, Analyzed, NotAnalyzed
    <3> QED BY <2>1, <3>1, RunByAnother
  <2>3. seen'[b] = seen[b] /\ warned'[b] = warned[b]
    BY <1>0, <1>14 DEF Promote, Analyzed, NotAnalyzed
  <2> QED BY <1>0, <1>14, <2>2, <2>3 DEF Promote, queues
<1>15. CASE EndPromotion(a)
  BY <1>0, <1>15 DEF EndPromotion, Goto, Queue, queues
<1>16. CASE Scan(a)
  BY <1>0, <1>16 DEF Scan, Goto, FailStep, queues
<1>17. CASE Identify(a)
  BY <1>0, <1>17 DEF Identify, Goto, FailStep, queues
<1>18. CASE Derive(a)
  BY <1>0, <1>18 DEF Derive, Goto, FailStep, queues
<1>19. CASE EndCarve(a)
  BY <1>0, <1>19 DEF EndCarve, Goto, Queue, FailStep, queues
<1>20. CASE AnalyzeBinary(a)
  <2>1. ran'[b] = ran[b]
    <3>1. \/ ran' = ran
          \/ current[a] \in Native /\ (ran' = ran \/ BinaryRun(a, current[a]))
      BY <1>20 DEF AnalyzeBinary, Analyzed, NotAnalyzed
    <3> QED BY <3>1, RunByAnother
  <2>2. seen'[b] = seen[b] /\ failed'[b] = failed[b]
    BY <1>0, <1>20 DEF AnalyzeBinary, Analyzed, NotAnalyzed, FailStep
  <2> QED BY <1>0, <1>20, <2>1, <2>2 DEF AnalyzeBinary, Goto, queues
<1> QED BY <1>1, <1>2, <1>3, <1>4, <1>5, <1>6, <1>7, <1>8, <1>9, <1>10, <1>11, <1>12,
           <1>13, <1>14, <1>15, <1>16, <1>17, <1>18, <1>19, <1>20 DEF Step

-----------------------------------------------------------------------------
(* Types and control, in every state.                                      *)

LEMMA StepTyped ==
  ASSUME Types, NEW a \in Actor, Control(a), Step(a)
  PROVE  Types' /\ Control(a)'
  BY StartTyped, QueueGraphTyped, PopTyped, FinishTyped, SaveStatementTyped,
     SaveFailsTyped, FoundChildTyped, DescendTyped, ReuseMemberTyped, SkipMemberTyped,
     RecordEvidenceTyped, RecordRowTyped, AnalysisFailsTyped, PromoteTyped,
     EndPromotionTyped, ScanTyped, IdentifyTyped, DeriveTyped, EndCarveTyped,
     AnalyzeBinaryTyped DEF Step

LEMMA InitTyped ==
  ASSUME Init
  PROVE  TypeInv
<1>1. <<>> \in StackType
  <2>1. <<>> \in Seq(FrameType) /\ Len(<<>>) = 0
    OBVIOUS
  <2> QED BY <2>1, Constants DEF StackType
<1>2. <<>> \in Seq(Obj) /\ <<>> \in Seq(StatementType) /\ Elements(<<>>) = {}
  BY EmptyElements
<1>3. NoRow \in RowType /\ "start" \in PC
  BY DEF NoRow, RowType, PC
<1>4. Types
  BY <1>1, <1>2, <1>3, Constants DEF Init, Types
<1>5. \A a \in Actor : Control(a)
  BY <1>2 DEF Init, Control, Saving, Analyzing, Carving
<1> QED BY <1>4, <1>5 DEF TypeInv

LEMMA UntouchedControl ==
  ASSUME NEW b \in Actor, Control(b), Mine(b)' = Mine(b)
  PROVE  Control(b)'
  BY DEF Control, Mine, Top

LEMMA NextTyped ==
  ASSUME TypeInv, [Next]_vars
  PROVE  TypeInv'
<1>1. CASE UNCHANGED vars
  <2>1. Types'
    BY <1>1 DEF TypeInv, Types, vars, store, queues
  <2>2. \A b \in Actor : Mine(b)' = Mine(b)
    BY <1>1 DEF Mine, vars, queues
  <2> QED BY <2>1, <2>2, UntouchedControl DEF TypeInv
<1>2. CASE Next
  <2>1. PICK a \in Actor : Step(a)
    BY <1>2 DEF Next
  <2>2. Types' /\ Control(a)'
    BY <2>1, StepTyped DEF TypeInv
  <2>3. \A b \in Actor \ {a} : Control(b)'
    BY <2>1, OnlyMine, UntouchedControl DEF TypeInv
  <2> QED BY <2>2, <2>3 DEF TypeInv
<1> QED BY <1>1, <1>2

LEMMA TypesOK ==
  ASSUME TypeInv
  PROVE  TypeOK
<1>1. /\ row \in [Obj -> RowType] /\ ev \in [Obj -> [Item -> Place \cup {None}]]
      /\ runs \subseteq Obj /\ torn \subseteq Obj /\ faults \in 0..MaxFaults
      /\ pc \in [Actor -> PC]
  BY DEF TypeInv, Types
<1>2. ASSUME NEW a \in Actor
      PROVE  /\ \A i \in DOMAIN stack[a] : stack[a][i].depth = Len(stack[a]) - i
             /\ Len(stack[a]) <= MaxDepth + 1
             /\ Elements(pending[a]) \cup processed[a] \subseteq queued[a]
             /\ queued[a] \subseteq Obj /\ seen[a] \subseteq Obj
             /\ ran[a] \in [Obj -> Nat]
  <2>1. PICK s \in StackType : s = stack[a]
    BY DEF TypeInv, Types
  <2>2. DOMAIN s = 1..Len(s)
    BY DEF StackType
  <2>3. /\ \A i \in DOMAIN s : s[i].depth = Len(s) - i
        /\ Len(s) <= MaxDepth + 1
    BY <2>2 DEF StackType
  <2>4. queued[a] = processed[a] \cup Elements(pending[a])
    BY DEF TypeInv, Control
  <2>5. queued[a] \subseteq Obj /\ seen[a] \subseteq Obj /\ ran[a] \in [Obj -> Nat]
    BY DEF TypeInv, Types
  <2> QED BY <2>1, <2>3, <2>4, <2>5
<1> QED BY <1>1, <1>2 DEF TypeOK, RowType

\* The types hold in every state; whatever lies in whatever, the recursion of
\* analyze_object_inner is never deeper than MAX_AUTO_DIG_DEPTH below the
\* outermost call, and what is pending or processed was queued.
THEOREM TypeCorrect == Spec => []TypeOK
<1>1. Spec => []TypeInv
  BY InitTyped, NextTyped, PTL DEF Spec
<1> QED BY <1>1, TypesOK, PTL

-----------------------------------------------------------------------------
(* How often a request analyses a binary.                                  *)

\* Once for having seen it, and once for each failure so far.
Once(a) ==
  \A o \in Native :
    BinaryId[o] = o =>
      ran[a][o] <= MaxFaults - faults + (IF o \in seen[a] THEN 1 ELSE 0)

LEMMA FaultOrNone ==
  ASSUME NEW a \in Actor, Step(a)
  PROVE  NoFault \/ Fault
  BY DEF Step, Start, QueueGraph, Pop, Finish, SaveStatement, SaveFails, FoundChild,
         Descend, ReuseMember, SkipMember, RecordEvidence, RecordRow, AnalysisFails,
         Promote, EndPromotion, Scan, Identify, Derive, EndCarve, AnalyzeBinary,
         NotAnalyzed

LEMMA OnceUntouched ==
  ASSUME Types, NEW b \in Actor, Once(b), NoFault \/ Fault, ran'[b] = ran[b],
         seen[b] \subseteq seen'[b]
  PROVE  Once(b)'
<1>1. faults \in Nat /\ faults' \in Nat /\ faults' <= faults /\ MaxFaults \in Nat
  BY Constants, Faulted DEF Types, NoFault, Fault
<1> SUFFICES ASSUME NEW o \in Native, BinaryId[o] = o
             PROVE  ran'[b][o] <= MaxFaults - faults' + (IF o \in seen'[b] THEN 1 ELSE 0)
  BY DEF Once
<1>2. ran[b][o] \in Nat /\ ran'[b][o] = ran[b][o]
  BY Constants DEF Types
<1>3. ran[b][o] <= MaxFaults - faults + (IF o \in seen[b] THEN 1 ELSE 0)
  BY DEF Once
<1> QED BY <1>1, <1>2, <1>3

\* The analysis of a binary: one that is new is seen afterwards, any other and
\* any that fails spends a failure.
LEMMA OnceAnalyzed ==
  ASSUME Types, NEW a \in Actor, NEW o \in Native, Once(a), BinaryRun(a, o),
         \/ o \notin seen[a] /\ NoFault /\ seen' = [seen EXCEPT ![a] = @ \cup {BinaryId[o]}]
         \/ Fault /\ seen[a] \subseteq seen'[a]
  PROVE  Once(a)'
<1>1. faults \in Nat /\ faults' \in Nat /\ MaxFaults \in Nat
  BY Constants, Faulted DEF Types
<1>2. o \in Obj /\ ran' = [ran EXCEPT ![a][o] = @ + 1]
  BY Constants DEF BinaryRun
<1> SUFFICES ASSUME NEW q \in Native, BinaryId[q] = q
             PROVE  ran'[a][q] <= MaxFaults - faults' + (IF q \in seen'[a] THEN 1 ELSE 0)
  BY DEF Once
<1>3. /\ ran[a][q] \in Nat
      /\ ran[a][q] <= MaxFaults - faults + (IF q \in seen[a] THEN 1 ELSE 0)
  BY Constants DEF Once, Types
<1>4. ran'[a][q] = IF q = o THEN ran[a][q] + 1 ELSE ran[a][q]
  BY <1>2, Constants DEF Types
<1>5. CASE o \notin seen[a] /\ NoFault /\ seen' = [seen EXCEPT ![a] = @ \cup {BinaryId[o]}]
  <2>1. seen'[a] = seen[a] \cup {BinaryId[o]} /\ faults' = faults
    BY <1>5 DEF Types, NoFault
  <2>2. CASE q = o
    BY <1>1, <1>3, <1>4, <1>5, <2>1, <2>2
  <2>3. CASE q # o
    BY <1>1, <1>3, <1>4, <1>5, <2>1, <2>3
  <2> QED BY <2>2, <2>3
<1>6. CASE Fault /\ seen[a] \subseteq seen'[a]
  BY <1>1, <1>3, <1>4, <1>6 DEF Fault
<1> QED BY <1>5, <1>6

LEMMA StepOnce ==
  ASSUME Types, NEW a \in Actor, Control(a), Step(a), NEW b \in Actor, Once(b)
  PROVE  Once(b)'
<1>1. NoFault \/ Fault
  BY FaultOrNone
<1>2. CASE b # a
  BY <1>1, <1>2, OnlyMine, OnceUntouched DEF Mine
<1>3. CASE b = a /\ ran' = ran /\ seen' = seen
  BY <1>1, <1>3, OnceUntouched
<1>4. CASE b = a /\ Promote(a)
  <2>1. PICK o : o = Head(todo[a])
    OBVIOUS
  <2>2. o \in Native
    BY <1>4, <2>1, HeadAndTail DEF Promote, Control, Types
  <2>3. seen[a] \subseteq seen'[a]
    BY <1>4 DEF Promote, Analyzed, NotAnalyzed, Types
  <2>4. CASE ran' = ran
    BY <1>1, <1>4, <2>3, <2>4, OnceUntouched
  <2>5. CASE ran' # ran
    <3>1. /\ BinaryRun(a, o)
          /\ \/ o \notin seen[a] /\ NoFault /\ seen' = [seen EXCEPT ![a] = @ \cup {BinaryId[o]}]
             \/ Fault
      BY <1>4, <2>1, <2>5 DEF Promote, Analyzed, NotAnalyzed, AlreadyAnalyzed
    <3> QED BY <1>4, <2>2, <2>3, <3>1, OnceAnalyzed
  <2> QED BY <2>4, <2>5
<1>5. CASE b = a /\ AnalyzeBinary(a)
  <2>1. PICK o : o = current[a]
    OBVIOUS
  <2>2. seen[a] \subseteq seen'[a]
    BY <1>5 DEF AnalyzeBinary, Analyzed, NotAnalyzed, Types
  <2>3. CASE ran' = ran
    BY <1>1, <1>5, <2>2, <2>3, OnceUntouched
  <2>4. CASE ran' # ran
    <3>1. /\ o \in Native /\ BinaryRun(a, o)
          /\ \/ o \notin seen[a] /\ NoFault /\ seen' = [seen EXCEPT ![a] = @ \cup {BinaryId[o]}]
             \/ Fault
      BY <1>5, <2>1, <2>4 DEF AnalyzeBinary, Analyzed, NotAnalyzed, AlreadyAnalyzed
    <3> QED BY <1>5, <2>2, <3>1, OnceAnalyzed
  <2> QED BY <2>3, <2>4
<1>6. Promote(a) \/ AnalyzeBinary(a) \/ (ran' = ran /\ seen' = seen)
  BY DEF Step, Start, QueueGraph, Pop, Finish, SaveStatement, SaveFails, FoundChild,
         Descend, ReuseMember, SkipMember, RecordEvidence, RecordRow, AnalysisFails,
         EndPromotion, Scan, Identify, Derive, EndCarve
<1> QED BY <1>2, <1>3, <1>4, <1>5, <1>6

LEMMA NextOnce ==
  ASSUME TypeInv, \A b \in Actor : Once(b), [Next]_vars
  PROVE  \A b \in Actor : Once(b)'
<1>1. CASE UNCHANGED vars
  BY <1>1 DEF Once, vars
<1>2. CASE Next
  BY <1>2, StepOnce DEF Next, TypeInv
<1> QED BY <1>1, <1>2

\* By whatever way a native binary is found, a request analyses it at most
\* once, and once more for each failure.
THEOREM BinariesAreAnalysedOnce == Spec => []AnalysedOnce
<1> DEFINE Inv == TypeInv /\ \A b \in Actor : Once(b)
<1>1. Init => Inv
  <2> SUFFICES ASSUME Init PROVE Inv
    OBVIOUS
  <2>1. \A b \in Actor : \A o \in Native : ran[b][o] = 0 /\ o \notin seen[b]
    BY Constants DEF Init
  <2>2. faults = MaxFaults
    BY DEF Init
  <2> QED BY <2>1, <2>2, InitTyped, Constants DEF Once
<1>2. Inv /\ [Next]_vars => Inv'
  BY NextTyped, NextOnce
<1>3. Inv => AnalysedOnce
  <2> SUFFICES ASSUME TypeInv, NEW a \in Actor, Once(a), NEW o \in Native, BinaryId[o] = o
               PROVE  ran[a][o] <= 1 + MaxFaults - faults
    BY DEF AnalysedOnce
  <2>1. ran[a][o] \in Nat /\ faults \in Nat /\ MaxFaults \in Nat
    BY Constants DEF TypeInv, Types
  <2> QED BY <2>1 DEF Once
<1> QED BY <1>1, <1>2, <1>3, PTL DEF Spec

-----------------------------------------------------------------------------
(* Rows: what an actor works on has one, and what a row lists is there or  *)
(* on its way.                                                             *)

Has(o) == row[o].place # None
Kept(o) == ev[o]["analysis"] # None \/ o \in runs

\* A row is absent or lists its identity.
RowInv ==
  \A o \in Obj : IF Has(o) THEN "identity" \in row[o].lists ELSE row[o] = NoRow

\* The statements left of a save: the evidence of a row follows it.
Pairs(s) ==
  \A i \in 1..Len(s) :
    /\ s[i].row.place # None /\ "identity" \in s[i].row.lists
    /\ s[i].table = "objects" =>
         /\ i + 1 \in 1..Len(s) /\ s[i + 1].table = "evidence"
         /\ s[i + 1].obj = s[i].obj /\ s[i + 1].row = s[i].row

\* The objects whose rows it will write.
Written(s) == {s[i].obj : i \in {j \in 1..Len(s) : s[j].table = "objects"}}

FrameKept(f) ==
  /\ Has(f.obj) /\ f.place # None
  /\ \A o \in Elements(f.dug) \cup Elements(f.expanded) : Has(o)
  /\ f.recorded => Kept(f.obj)

\* The graph an actor is saving, or has just saved.
Child(f) == IF Digging(f) THEN Head(f.dig) ELSE Head(f.member)
Graph(o) == {o} \cup Elements(Entry[o])
Saved(a) ==
  {o \in Obj : \/ pc[a] \in {"save_root", "queue"} /\ o \in Graph(Root[a])
               \/ pc[a] \in {"save_carved", "carved"} /\ o \in Graph(Head(todo[a]))
               \/ pc[a] \in {"save_child", "descend"} /\ o = Child(Top(a))}

Rows(a) ==
  /\ \A o \in queued[a] \cup Elements(listed[a]) : Has(o)
  /\ \A f \in Elements(stack[a]) : FrameKept(f)
  /\ Pairs(save[a])
  /\ \A o \in Saved(a) : Has(o) \/ o \in Written(save[a])

\* The evidence i of o is what a inserts next.
Inserting(a, o, i) ==
  /\ save[a] # <<>> /\ Head(save[a]).table = "evidence"
  /\ Head(save[a]).obj = o /\ i \in Head(save[a]).row.lists

ListedKept ==
  \A o \in Obj : \A i \in row[o].lists :
    \/ ev[o][i] # None \/ o \in torn \cup runs
    \/ \E a \in Actor : Inserting(a, o, i)

LEMMA PairsOfTail ==
  ASSUME NEW s \in Seq(StatementType), s # <<>>, Pairs(s)
  PROVE  /\ Pairs(Tail(s)) /\ Head(s) \in StatementType
         /\ Head(s).row.place # None /\ "identity" \in Head(s).row.lists
         /\ Written(s) \subseteq {Head(s).obj} \cup Written(Tail(s))
         /\ Head(s).table = "evidence" => Written(s) = Written(Tail(s))
         /\ Head(s).table = "objects" =>
              /\ Tail(s) # <<>> /\ Head(Tail(s)).table = "evidence"
              /\ Head(Tail(s)).obj = Head(s).obj /\ Head(Tail(s)).row = Head(s).row
<1>1. PICK t \in Seq(StatementType) : t = Tail(s)
  BY HeadAndTail
<1>2. /\ Head(s) \in StatementType /\ Len(s) \in Nat /\ Len(s) >= 1 /\ Len(t) = Len(s) - 1
      /\ Head(s) = s[1] /\ \A i \in 1..Len(s) - 1 : t[i] = s[i + 1]
  BY <1>1, HeadAndTail
<1>3. \A i \in 1..Len(t) : t[i] = s[i + 1] /\ i + 1 \in 1..Len(s) /\ i \in Nat
  BY <1>2
<1>4. \A i \in 1..Len(s) : i = 1 \/ (i - 1 \in 1..Len(t) /\ s[i] = t[i - 1])
  BY <1>2
<1>5. Pairs(t)
  <2> SUFFICES ASSUME NEW i \in 1..Len(t)
               PROVE  /\ t[i].row.place # None /\ "identity" \in t[i].row.lists
                      /\ t[i].table = "objects" =>
                           /\ i + 1 \in 1..Len(t) /\ t[i + 1].table = "evidence"
                           /\ t[i + 1].obj = t[i].obj /\ t[i + 1].row = t[i].row
    BY DEF Pairs
  <2>1. /\ s[i + 1].row.place # None /\ "identity" \in s[i + 1].row.lists
        /\ s[i + 1].table = "objects" =>
             /\ i + 1 + 1 \in 1..Len(s) /\ s[i + 1 + 1].table = "evidence"
             /\ s[i + 1 + 1].obj = s[i + 1].obj /\ s[i + 1 + 1].row = s[i + 1].row
    BY <1>3 DEF Pairs
  <2>2. i + 1 + 1 \in 1..Len(s) => i + 1 \in 1..Len(t)
    BY <1>2
  <2> QED BY <1>3, <2>1, <2>2
<1>6. Written(s) \subseteq {Head(s).obj} \cup Written(t)
  BY <1>2, <1>4 DEF Written
<1>7. Written(t) \subseteq Written(s)
  BY <1>3 DEF Written
<1>8. Head(s).table = "evidence" => Written(s) = Written(t)
  BY <1>2, <1>4, <1>7 DEF Written
<1>9. 1 \in 1..Len(s)
  BY <1>2
<1>10. Head(s).row.place # None /\ "identity" \in Head(s).row.lists
  BY <1>2, <1>9 DEF Pairs
<1>11. ASSUME Head(s).table = "objects"
       PROVE  /\ t # <<>> /\ Head(t).table = "evidence"
              /\ Head(t).obj = Head(s).obj /\ Head(t).row = Head(s).row
  <2>1. /\ 1 + 1 \in 1..Len(s) /\ s[1 + 1].table = "evidence"
        /\ s[1 + 1].obj = s[1].obj /\ s[1 + 1].row = s[1].row
    BY <1>2, <1>9, <1>11 DEF Pairs
  <2>2. 1 \in 1..Len(t) /\ t # <<>> /\ Head(t) = t[1]
    BY <1>2, <2>1
  <2> QED BY <1>2, <1>3, <2>1, <2>2
<1> QED BY <1>1, <1>2, <1>5, <1>6, <1>8, <1>10, <1>11

LEMMA NothingToWrite == Pairs(<<>>) /\ Written(<<>>) = {}
  BY DEF Pairs, Written

LEMMA PairsOfChild ==
  ASSUME NEW o \in Obj, NEW r \in RowType, r.place # None, "identity" \in r.lists
  PROVE  Pairs(ChildStatements(o, r)) /\ Written(ChildStatements(o, r)) = {o}
<1>1. PICK s : s = ChildStatements(o, r)
  OBVIOUS
<1>2. /\ Len(s) = 2 /\ s[1].table = "objects" /\ s[2].table = "evidence"
      /\ \A i \in 1..2 : s[i].obj = o /\ s[i].row = r
  BY <1>1 DEF ChildStatements, Statement
<1>3. Pairs(s)
  BY <1>2 DEF Pairs
<1>4. Written(s) = {o}
  BY <1>2 DEF Written
<1> QED BY <1>1, <1>3, <1>4

LEMMA PairsOfGraph ==
  ASSUME NEW o \in Obj, NEW p \in Place
  PROVE  Pairs(GraphStatements(o, p)) /\ Written(GraphStatements(o, p)) = Graph(o)
<1> DEFINE g == <<o>> \o Entry[o]
           At(i) == (i + 1) \div 2
           R(k) == IdentifiedRow(IF k = 1 THEN p ELSE "entry")
<1>1. PICK s : s = GraphStatements(o, p)
  OBVIOUS
<1>2. g \in Seq(Obj) /\ Len(g) \in Nat /\ Elements(g) = Graph(o)
  <2>1. PICK u : u = <<o>>
    OBVIOUS
  <2>2. u \in Seq(Obj) /\ Elements(u) = {o} /\ g = u \o Entry[o]
    BY <2>1, OneElement
  <2>3. Elements(u \o Entry[o]) = Elements(u) \cup Elements(Entry[o])
    BY <2>2, Constants, Joined
  <2> QED BY <2>2, <2>3, Constants DEF Graph
<1>3. s = [i \in 1..2 * Len(g) |->
             Statement(IF i % 2 = 1 THEN "objects" ELSE "evidence", g[At(i)], R(At(i)))]
  BY <1>1 DEF GraphStatements
<1>4. \A k : R(k).place # None /\ "identity" \in R(k).lists
  BY PipelineAssumption DEF IdentifiedRow, PipelineAssumption, Place, Item
<1> HIDE DEF g, R
<1>5. PICK n \in Nat : n = Len(g)
  BY <1>2
<1>6. \A i \in 1..2 * n : /\ s[i].table = IF i % 2 = 1 THEN "objects" ELSE "evidence"
                          /\ s[i].obj = g[At(i)] /\ s[i].row = R(At(i))
  BY <1>3, <1>5 DEF Statement
<1>7. \A i \in 1..2 * n : i % 2 = 1 =>
         i + 1 \in 1..2 * n /\ At(i + 1) = At(i) /\ (i + 1) % 2 # 1
  OBVIOUS
<1>8. Len(s) = 2 * n
  <2>1. s = [i \in 1..2 * n |-> s[i]]
    BY <1>3, <1>5
  <2> QED BY <2>1
<1>9. \A i \in 1..2 * n : At(i) \in 1..n
  OBVIOUS
<1>10. \A k \in 1..n : 2 * k - 1 \in 1..2 * n /\ At(2 * k - 1) = k /\ (2 * k - 1) % 2 = 1
  OBVIOUS
<1> HIDE DEF At
<1>11. Pairs(s)
  BY <1>4, <1>6, <1>7, <1>8 DEF Pairs
<1>12. Written(s) = {g[k] : k \in 1..n}
  <2>1. ASSUME NEW i \in 1..Len(s), s[i].table = "objects"
        PROVE  s[i].obj \in {g[k] : k \in 1..n}
    BY <1>6, <1>8, <1>9
  <2>2. ASSUME NEW k \in 1..n
        PROVE  \E i \in 1..Len(s) : s[i].table = "objects" /\ s[i].obj = g[k]
    <3>1. PICK i \in 1..2 * n : At(i) = k /\ i % 2 = 1
      BY <1>10
    <3> QED BY <1>6, <1>8, <3>1
  <2> QED BY <2>1, <2>2 DEF Written
<1>13. {g[k] : k \in 1..n} = Graph(o)
  BY <1>2, <1>5 DEF Elements
<1> QED BY <1>1, <1>11, <1>12, <1>13

\* Rows, evidence of analyses and runs never go away again.
Grow ==
  /\ \A o \in Obj : (Has(o) => Has(o)') /\ (Kept(o) => Kept(o)')
  /\ runs \subseteq runs' /\ torn \subseteq torn'

LEMMA StoreChange ==
  ASSUME NEW a \in Actor, Types, Control(a), Step(a)
  PROVE  \/ UNCHANGED store
         \/ SaveStatement(a) \/ SaveFails(a) \/ RecordEvidence(a) \/ RecordRow(a)
         \/ \E o \in Native : BinaryRun(a, o)
<1>1. CASE Promote(a)
  <2>1. Head(todo[a]) \in Native
    BY <1>1, HeadAndTail DEF Promote, Control, Types
  <2> QED BY <1>1, <2>1 DEF Promote, Analyzed, NotAnalyzed, store
<1>2. CASE AnalyzeBinary(a)
  BY <1>2 DEF AnalyzeBinary, Analyzed, NotAnalyzed
<1> QED BY <1>1, <1>2
        DEF Step, Start, QueueGraph, Pop, Finish, FoundChild, Descend, ReuseMember,
            SkipMember, AnalysisFails, EndPromotion, Scan, Identify, Derive, EndCarve, store

\* The statement under way.
LEMMA FirstStatement ==
  ASSUME NEW a \in Actor, Types, Control(a), Rows(a), SaveStatement(a)
  PROVE  LET s == Head(save[a]) IN
         /\ s.obj \in Obj /\ s.row \in RowType /\ s.table \in {"objects", "evidence"}
         /\ s.row.place # None /\ "identity" \in s.row.lists
         /\ s.table = "objects" => row' = [row EXCEPT ![s.obj] = s.row] /\ ev' = ev
         /\ s.table = "evidence" =>
              /\ row' = row
              /\ ev' = [ev EXCEPT ![s.obj] =
                   [i \in Item |-> IF i \in s.row.lists THEN s.row.place ELSE @[i]]]
         /\ save' = [save EXCEPT ![a] = Tail(@)] /\ runs' = runs /\ torn' = torn
<1>1. save[a] # <<>> /\ save[a] \in Seq(StatementType) /\ Pairs(save[a])
  BY DEF SaveStatement, Control, Types, Rows
<1>2. /\ Head(save[a]) \in StatementType /\ Head(save[a]).row.place # None
      /\ "identity" \in Head(save[a]).row.lists
  BY <1>1, PairsOfTail
<1>3. /\ Head(save[a]).obj \in Obj /\ Head(save[a]).row \in RowType
      /\ Head(save[a]).table \in {"objects", "evidence"}
  BY <1>2 DEF StatementType
<1> QED BY <1>2, <1>3 DEF SaveStatement

LEMMA TopKept ==
  ASSUME NEW a \in Actor, Types, stack[a] # <<>>, Rows(a)
  PROVE  Top(a) \in FrameType /\ FrameKept(Top(a))
<1>1. stack[a] \in Seq(FrameType)
  BY DEF Types, StackType
<1>2. Head(stack[a]) \in FrameType /\ Head(stack[a]) \in Elements(stack[a])
  BY <1>1, HeadAndTail
<1> QED BY <1>2 DEF Rows, Top

LEMMA StepGrows ==
  ASSUME NEW a \in Actor, Types, Control(a), Rows(a), Step(a)
  PROVE  Grow
<1>1. CASE UNCHANGED store
  BY <1>1 DEF Grow, Has, Kept, store
<1>2. CASE SaveStatement(a)
  <2>1. PICK s : s = Head(save[a])
    OBVIOUS
  <2>2. /\ s.obj \in Obj /\ s.table \in {"objects", "evidence"} /\ s.row.place # None
        /\ s.table = "objects" => row' = [row EXCEPT ![s.obj] = s.row] /\ ev' = ev
        /\ s.table = "evidence" =>
             /\ row' = row
             /\ ev' = [ev EXCEPT ![s.obj] =
                  [i \in Item |-> IF i \in s.row.lists THEN s.row.place ELSE @[i]]]
        /\ runs' = runs /\ torn' = torn
    BY <1>2, <2>1, FirstStatement
  <2>3. CASE s.table = "objects"
    BY <2>2, <2>3 DEF Grow, Has, Kept, Types
  <2>4. CASE s.table = "evidence"
    <3>1. ASSUME NEW o \in Obj
          PROVE  \/ ev'[o]["analysis"] = ev[o]["analysis"]
                 \/ ev'[o]["analysis"] = s.row.place
      <4>1. "analysis" \in Item
        BY DEF Item
      <4>2. CASE o = s.obj
        BY <2>2, <2>4, <4>1, <4>2 DEF Types
      <4>3. CASE o # s.obj
        BY <2>2, <2>4, <4>3 DEF Types
      <4> QED BY <4>2, <4>3
    <3> QED BY <2>2, <2>4, <3>1 DEF Grow, Has, Kept
  <2> QED BY <2>2, <2>3, <2>4
<1>3. CASE SaveFails(a)
  BY <1>3 DEF SaveFails, Grow, Has, Kept
<1>4. CASE RecordEvidence(a)
  <2>1. stack[a] # <<>>
    BY <1>4 DEF RecordEvidence, Control, Analyzing
  <2>2. Top(a).obj \in Obj /\ Top(a).place # None
    BY <2>1, TopKept DEF FrameType, FrameKept
  <2> QED BY <1>4, <2>2 DEF RecordEvidence, Grow, Has, Kept, Types, Item
<1>5. CASE RecordRow(a)
  BY <1>5 DEF RecordRow, Grow, Has, Kept, Types, RowType
<1>6. CASE \E o \in Native : BinaryRun(a, o)
  <2>1. PICK o \in Native : BinaryRun(a, o)
    BY <1>6
  <2>2. o \in Obj
    BY Constants
  <2> QED BY <2>1, <2>2 DEF BinaryRun, Grow, Has, Kept, Types, Item
<1> QED BY <1>1, <1>2, <1>3, <1>4, <1>5, <1>6, StoreChange

LEMMA StepRowInv ==
  ASSUME NEW a \in Actor, Types, Control(a), Rows(a), Step(a), RowInv
  PROVE  RowInv'
<1>1. CASE row' = row
  BY <1>1 DEF RowInv, Has
<1>2. CASE SaveStatement(a)
  <2>1. PICK s : s = Head(save[a])
    OBVIOUS
  <2>2. /\ s.obj \in Obj /\ s.table \in {"objects", "evidence"} /\ s.row.place # None
        /\ "identity" \in s.row.lists
        /\ row' = [row EXCEPT ![s.obj] = s.row] \/ row' = row
    BY <1>2, <2>1, FirstStatement
  <2> QED BY <2>2 DEF RowInv, Has, Types
<1>3. CASE RecordRow(a)
  <2>1. stack[a] # <<>>
    BY <1>3 DEF RecordRow, Control, Analyzing
  <2>2. PICK o \in Obj : o = Top(a).obj /\ Has(o)
    BY <2>1, TopKept DEF FrameType, FrameKept
  <2>3. row' = [row EXCEPT ![o].lists = Item]
    BY <1>3, <2>2 DEF RecordRow
  <2> QED BY <2>2, <2>3 DEF RowInv, Has, Types, RowType, Item
<1> QED BY <1>1, <1>2, <1>3, StoreChange DEF store, SaveFails, RecordEvidence, BinaryRun

LEMMA KeptFrames ==
  ASSUME Types, Grow, NEW f \in FrameType, FrameKept(f)
  PROVE  FrameKept(f)'
<1>1. f.obj \in Obj /\ f.dug \in Seq(Obj) /\ f.expanded \in Seq(Obj)
  BY DEF FrameType
<1>2. Elements(f.dug) \cup Elements(f.expanded) \subseteq Obj
  BY <1>1, ElementsIn
<1> QED BY <1>1, <1>2 DEF FrameKept, Grow

LEMMA UntouchedRows ==
  ASSUME Types, Grow, NEW b \in Actor, Rows(b), Mine(b)' = Mine(b)
  PROVE  Rows(b)'
<1>1. /\ queued'[b] = queued[b] /\ listed'[b] = listed[b] /\ stack'[b] = stack[b]
      /\ save'[b] = save[b] /\ pc'[b] = pc[b] /\ todo'[b] = todo[b]
  BY DEF Mine
<1>2. queued[b] \cup Elements(listed[b]) \subseteq Obj
  BY ElementsIn DEF Types
<1>3. Elements(stack[b]) \subseteq FrameType
  BY ElementsIn DEF Types, StackType
<1>4. \A f \in Elements(stack[b]) : FrameKept(f)'
  BY <1>3, KeptFrames DEF Rows
<1>5. Saved(b)' = Saved(b)
  BY <1>1 DEF Saved, Top
<1>6. \A o \in Saved(b) : o \in Obj
  BY DEF Saved
<1>7. \A o \in queued[b] \cup Elements(listed[b]) : Has(o)'
  BY <1>2 DEF Rows, Grow
<1>8. \A o \in Saved(b) : Has(o)' \/ o \in Written(save[b])
  BY <1>6 DEF Rows, Grow
<1>9. Pairs(save[b])
  BY DEF Rows
<1> QED BY <1>1, <1>4, <1>5, <1>7, <1>8, <1>9 DEF Rows

\* What an actor has to show after a step of its own.
LEMMA RowsAfter ==
  ASSUME Types, Grow, NEW a \in Actor, Rows(a),
         \A o \in queued'[a] \cup Elements(listed'[a]) :
           o \in queued[a] \cup Elements(listed[a]) \/ (o \in Obj /\ Has(o)),
         \A f \in Elements(stack'[a]) : f \in Elements(stack[a]) \/ FrameKept(f)',
         Pairs(save'[a]),
         \A o \in Saved(a)' : Has(o)' \/ o \in Written(save'[a])
  PROVE  Rows(a)'
<1>1. queued[a] \cup Elements(listed[a]) \subseteq Obj
  BY ElementsIn DEF Types
<1>2. \A o \in queued'[a] \cup Elements(listed'[a]) : Has(o)'
  BY <1>1 DEF Rows, Grow
<1>3. Elements(stack[a]) \subseteq FrameType
  BY ElementsIn DEF Types, StackType
<1>4. \A f \in Elements(stack'[a]) : FrameKept(f)'
  BY <1>3, KeptFrames DEF Rows
<1> QED BY <1>2, <1>4 DEF Rows

LEMMA NothingSaved ==
  ASSUME NEW a \in Actor, pc'[a] \notin Saving \cup {"queue", "carved", "descend"}
  PROVE  Saved(a)' = {}
  BY DEF Saved, Saving

\* A save that does not go on, or that is dropped, is still in pairs.
LEMMA SaveKept ==
  ASSUME NEW a \in Actor, Rows(a), save'[a] = save[a] \/ save'[a] = <<>>
  PROVE  Pairs(save'[a])
  BY NothingToWrite DEF Rows

LEMMA FrameStarts ==
  ASSUME Types, Grow, NEW o \in Obj, Has(o), NEW d \in Nat, NEW f, f = Frame(o, d)
  PROVE  FrameKept(f)'
<1>1. /\ f.obj = o /\ f.place # None /\ f.dug = <<>> /\ f.expanded = <<>>
      /\ f.recorded = FALSE
  BY DEF Frame, Has
<1>2. Has(o)'
  BY DEF Grow
<1> QED BY <1>1, <1>2, EmptyElements DEF FrameKept

LEMMA ListingKept ==
  ASSUME Types, Grow, NEW f \in FrameType, FrameKept(f), ~Closing(f), Has(Child(f))
  PROVE  FrameKept(Listing(f))'
<1>1. PICK c : c = Child(f)
  OBVIOUS
<1>2. /\ f.obj \in Obj /\ f.dug \in Seq(Obj) /\ f.expanded \in Seq(Obj)
      /\ f.dig \in Seq(Obj) /\ f.member \in Seq(Obj)
  BY DEF FrameType
<1>3. c \in Obj
  BY <1>1, <1>2, HeadAndTail DEF Child, Digging, Closing
<1>4. /\ Elements(With(f.dug, c)) = Elements(f.dug) \cup {c}
      /\ Elements(With(f.expanded, c)) = Elements(f.expanded) \cup {c}
  <2>1. \A s \in Seq(Obj) : Elements(With(s, c)) = Elements(s) \cup {c}
    BY <1>3, Listed
  <2> QED BY <1>2, <2>1
<1>5. PICK g : g = Listing(f)
  OBVIOUS
<1>6. /\ g.obj = f.obj /\ g.place = f.place /\ g.recorded = f.recorded
      /\ g.dug = With(f.dug, c) \/ g.dug = f.dug
      /\ g.expanded = With(f.expanded, c) \/ g.expanded = f.expanded
  BY <1>1, <1>5 DEF Listing, Child, FrameType
<1>7. Elements(g.dug) \cup Elements(g.expanded)
        \subseteq Elements(f.dug) \cup Elements(f.expanded) \cup {c}
  BY <1>4, <1>6
<1>8. Elements(f.dug) \cup Elements(f.expanded) \subseteq Obj
  BY <1>2, ElementsIn
<1>9. \A o \in Elements(g.dug) \cup Elements(g.expanded) : Has(o)'
  BY <1>1, <1>3, <1>7, <1>8 DEF FrameKept, Grow
<1>10. FrameKept(g)'
  BY <1>2, <1>6, <1>9 DEF FrameKept, Grow
<1> QED BY <1>5, <1>10

LEMMA FramesChanged ==
  ASSUME NEW S, NEW s \in Seq(S), s # <<>>, NEW f \in S
  PROVE  /\ Elements(<<f>> \o Tail(s)) \subseteq {f} \cup Elements(s)
         /\ Elements(Tail(s)) \subseteq Elements(s)
         /\ <<f>> \o Tail(s) \in Seq(S)
<1>1. Tail(s) \in Seq(S) /\ Elements(Tail(s)) \subseteq Elements(s)
  BY HeadAndTail
<1>2. PICK u \in Seq(S) : u = <<f>> /\ Elements(u) = {f}
  BY OneElement
<1>3. PICK t \in Seq(S) : t = Tail(s)
  BY <1>1
<1>4. u \o t \in Seq(S) /\ Elements(u \o t) = Elements(u) \cup Elements(t)
  BY Joined
<1> QED BY <1>1, <1>2, <1>3, <1>4

LEMMA FramesPushed ==
  ASSUME NEW S, NEW s \in Seq(S), s # <<>>, NEW f \in S, NEW g \in S
  PROVE  Elements(<<g, f>> \o Tail(s)) \subseteq {g, f} \cup Elements(s)
<1>1. PICK t \in Seq(S) : t = <<f>> \o Tail(s) /\ Elements(t) \subseteq {f} \cup Elements(s)
  BY FramesChanged
<1>2. PICK u \in Seq(S) : u = <<g>> /\ Elements(u) = {g}
  BY OneElement
<1>3. Elements(u \o t) = Elements(u) \cup Elements(t)
  BY Joined
<1>4. Tail(s) \in Seq(S)
  BY HeadAndTail
<1>5. <<g, f>> \o Tail(s) = u \o t
  <2>1. PICK r \in Seq(S) : r = Tail(s)
    BY <1>4
  <2>2. <<g, f>> \o r = <<g>> \o (<<f>> \o r)
    OBVIOUS
  <2> QED BY <1>1, <1>2, <2>1, <2>2
<1> QED BY <1>1, <1>2, <1>3, <1>5

LEMMA GraphListed ==
  ASSUME NEW o \in Obj
  PROVE  Graph(o) \subseteq Obj /\ <<o>> \o Entry[o] \in Seq(Obj)
         /\ Elements(<<o>> \o Entry[o]) = Graph(o)
<1>1. PICK u \in Seq(Obj) : u = <<o>> /\ Elements(u) = {o}
  BY OneElement
<1>2. u \o Entry[o] \in Seq(Obj) /\ Elements(u \o Entry[o]) = Elements(u) \cup Elements(Entry[o])
  BY Constants, Joined
<1>3. Elements(Entry[o]) \subseteq Obj
  BY Constants, ElementsIn
<1> QED BY <1>1, <1>2, <1>3 DEF Graph

LEMMA StartRows ==
  ASSUME NEW a \in Actor, Types, Control(a), Rows(a), RowInv, Grow, Start(a)
  PROVE  Rows(a)'
<1>1. pc[a] = "start" /\ stack[a] = <<>> /\ save[a] = <<>> /\ Root[a] \in Obj
  BY Constants DEF Start, Control, Saving, Analyzing
<1>2. queued'[a] = queued[a] /\ listed'[a] = listed[a] /\ todo' = todo
  BY DEF Start, queues
<1>3. CASE save' = [save EXCEPT ![a] = GraphStatements(Root[a], "own")]
           /\ Goto(a, "save_root") /\ stack' = stack
  <2>1. PICK s : s = GraphStatements(Root[a], "own")
    OBVIOUS
  <2>2. Pairs(s) /\ Written(s) = Graph(Root[a])
    BY <1>1, <2>1, PairsOfGraph DEF Place
  <2>3. save'[a] = s /\ pc'[a] = "save_root"
    BY <1>3, <2>1 DEF Types, Goto
  <2>4. \A o \in Saved(a)' : o \in Written(save'[a])
    BY <2>2, <2>3 DEF Saved
  <2> QED BY <1>2, <1>3, <2>2, <2>3, <2>4, RowsAfter
<1>4. CASE row[Root[a]] # NoRow /\ Call(a, Root[a], 0) /\ Goto(a, "analyze") /\ save' = save
  <2>1. PICK f : f = Frame(Root[a], 0)
    OBVIOUS
  <2>2. f \in FrameType
    BY <1>1, <2>1, FrameTyped
  <2>3. Has(Root[a])
    BY <1>1, <1>4 DEF RowInv
  <2>4. stack'[a] = <<f>>
    BY <1>1, <1>4, <2>1, Calls
  <2>5. Elements(stack'[a]) = {f}
    BY <2>2, <2>4, OneElement
  <2>6. FrameKept(f)'
    BY <1>1, <2>1, <2>3, FrameStarts
  <2>7. Saved(a)' = {}
    <3>1. pc'[a] = "analyze"
      BY <1>4 DEF Types, Goto
    <3> QED BY <3>1, NothingSaved DEF Saving
  <2>8. Pairs(save'[a])
    BY <1>4, SaveKept
  <2> QED BY <1>2, <2>5, <2>6, <2>7, <2>8, RowsAfter
<1>5. CASE Goto(a, "error") /\ save' = save /\ stack' = stack
  <2>1. Saved(a)' = {}
    <3>1. pc'[a] = "error"
      BY <1>5 DEF Types, Goto
    <3> QED BY <3>1, NothingSaved DEF Saving
  <2>2. Pairs(save'[a])
    BY <1>5, SaveKept
  <2> QED BY <1>2, <1>5, <2>1, <2>2, RowsAfter
<1> QED BY <1>3, <1>4, <1>5 DEF Start

LEMMA QueueGraphRows ==
  ASSUME NEW a \in Actor, Types, Control(a), Rows(a), Grow, QueueGraph(a)
  PROVE  Rows(a)'
<1>1. PICK s \in Seq(Obj) : s = <<Root[a]>> \o Entry[Root[a]] /\ Elements(s) = Graph(Root[a])
  BY Constants, GraphListed
<1>2. queued'[a] = queued[a] \cup Graph(Root[a])
  <2>1. Queue(a, s)
    BY <1>1 DEF QueueGraph
  <2>2. queued'[a] = queued[a] \cup Elements(s)
    BY <2>1, Queued
  <2> QED BY <1>1, <2>2
<1>3. save[a] = <<>>
  BY DEF QueueGraph, Control, Saving
<1>4. \A o \in Graph(Root[a]) : o \in Obj /\ Has(o)
  <2>1. Graph(Root[a]) \subseteq Obj
    BY Constants, GraphListed
  <2>2. Graph(Root[a]) \subseteq Saved(a)
    BY <2>1 DEF Saved, QueueGraph
  <2> QED BY <1>3, <2>1, <2>2, NothingToWrite DEF Rows
<1>5. listed'[a] = listed[a] /\ stack'[a] = stack[a] /\ save'[a] = save[a]
  BY DEF QueueGraph
<1>6. Saved(a)' = {}
  <2>1. pc'[a] = "loop"
    BY DEF QueueGraph, Types, Goto
  <2> QED BY <2>1, NothingSaved DEF Saving
<1> QED BY <1>2, <1>4, <1>5, <1>6, SaveKept, RowsAfter

LEMMA PopRows ==
  ASSUME NEW a \in Actor, Types, Control(a), Rows(a), Grow, Pop(a)
  PROVE  Rows(a)'
<1> DEFINE o == Head(pending[a])
<1>1. /\ pc[a] = "loop" /\ pending[a] # <<>> /\ stack[a] = <<>>
  BY DEF Pop, Control, Analyzing
<1>2. o \in Obj /\ o \in Elements(pending[a])
  BY <1>1, HeadAndTail DEF Types
<1>3. Has(o)
  BY <1>2 DEF Rows, Control
<1>4. queued'[a] = queued[a] /\ listed'[a] = listed[a] /\ save'[a] = save[a]
  BY DEF Pop
<1>5. CASE Call(a, o, 0) /\ Goto(a, "analyze")
  <2>1. PICK f : f = Frame(o, 0)
    OBVIOUS
  <2>2. f \in FrameType
    BY <1>2, <2>1, FrameTyped
  <2> HIDE DEF o
  <2>3. stack'[a] = <<f>>
    BY <1>1, <1>2, <1>5, <2>1, Calls
  <2>4. Elements(stack'[a]) = {f}
    BY <2>2, <2>3, OneElement
  <2>5. FrameKept(f)'
    BY <1>2, <1>3, <2>1, FrameStarts
  <2>6. Saved(a)' = {}
    <3>1. pc'[a] = "analyze"
      BY <1>5 DEF Types, Goto
    <3> QED BY <3>1, NothingSaved DEF Saving
  <2> QED BY <1>4, <2>4, <2>5, <2>6, SaveKept, RowsAfter
<1>6. CASE stack' = stack /\ pc' = pc
  <2>1. Saved(a)' = {}
    BY <1>1, <1>6, NothingSaved DEF Saving
  <2> QED BY <1>4, <1>6, <2>1, SaveKept, RowsAfter
<1> QED BY <1>5, <1>6 DEF Pop

LEMMA SaveStatementRows ==
  ASSUME NEW a \in Actor, Types, Control(a), Rows(a), Grow, SaveStatement(a)
  PROVE  Rows(a)'
<1>1. PICK s : s = Head(save[a])
  OBVIOUS
<1>2. /\ s.obj \in Obj /\ s.table \in {"objects", "evidence"} /\ s.row.place # None
      /\ s.table = "objects" => row' = [row EXCEPT ![s.obj] = s.row]
      /\ save' = [save EXCEPT ![a] = Tail(@)]
  BY <1>1, FirstStatement
<1>3. save[a] \in Seq(StatementType) /\ save[a] # <<>> /\ Pairs(save[a]) /\ pc[a] \in Saving
  BY DEF Types, Control, SaveStatement, Rows
<1>4. save'[a] = Tail(save[a])
  BY <1>2 DEF Types
<1>5. /\ Pairs(save'[a])
      /\ Written(save[a]) \subseteq {s.obj} \cup Written(save'[a])
      /\ s.table = "evidence" => Written(save[a]) = Written(save'[a])
  BY <1>1, <1>3, <1>4, PairsOfTail
<1>6. /\ queued'[a] = queued[a] /\ listed'[a] = listed[a] /\ stack'[a] = stack[a]
      /\ todo'[a] = todo[a]
  BY DEF SaveStatement, queues
<1>7. Saved(a)' \subseteq Saved(a)
  <2>1. \/ pc'[a] = pc[a]
        \/ pc[a] = "save_root" /\ pc'[a] = "queue"
        \/ pc[a] = "save_child" /\ pc'[a] = "descend"
        \/ pc[a] = "save_carved" /\ pc'[a] = "carved"
    <3>1. pc' = pc \/ pc' = [pc EXCEPT ![a] = AfterSave(pc[a])]
      BY DEF SaveStatement, Goto
    <3> QED BY <1>3, <3>1 DEF Types, AfterSave, Saving
  <2> QED BY <1>6, <2>1 DEF Saved, Top
<1>8. ASSUME NEW o \in Saved(a)
      PROVE  Has(o)' \/ o \in Written(save'[a])
  <2>1. o \in Obj /\ (Has(o) \/ o \in Written(save[a]))
    BY DEF Rows, Saved
  <2>2. CASE Has(o)
    BY <2>1, <2>2 DEF Grow
  <2>3. CASE o \in Written(save[a]) /\ s.table = "evidence"
    BY <1>5, <2>3
  <2>4. CASE o \in Written(save[a]) /\ s.table = "objects"
    <3>1. Has(s.obj)'
      BY <1>2, <2>4 DEF Has, Types
    <3> QED BY <1>5, <2>4, <3>1
  <2> QED BY <1>2, <2>1, <2>2, <2>3, <2>4
<1> QED BY <1>5, <1>6, <1>7, <1>8, RowsAfter

\* An analysis that ends with an error leaves nothing else to show.
LEMMA ErrorRows ==
  ASSUME NEW a \in Actor, Types, Rows(a), Grow, stack[a] # <<>>,
         ReturnError(a) \/ LeaveExpander(a),
         queued'[a] = queued[a], listed'[a] = listed[a],
         save'[a] = save[a] \/ save'[a] = <<>>
  PROVE  Rows(a)'
<1>1. /\ stack[a] \in Seq(FrameType) /\ Top(a) \in FrameType /\ FrameKept(Top(a))
  BY TopKept DEF Types, StackType
<1>2. pc'[a] \in {"analyze", "scan", "done"}
  BY ReturnErrorTyped, LeaveExpanderTyped
<1>3. Saved(a)' = {}
  BY <1>2, NothingSaved DEF Saving
<1>4. CASE ReturnError(a)
  <2>1. stack'[a] = Tail(stack[a]) \/ stack'[a] = <<>>
    BY <1>4 DEF ReturnError, Types
  <2>2. Elements(stack'[a]) \subseteq Elements(stack[a])
    BY <1>1, <2>1, HeadAndTail, EmptyElements
  <2> QED BY <1>3, <2>2, SaveKept, RowsAfter
<1>5. CASE LeaveExpander(a)
  <2>1. PICK f : f = [Top(a) EXCEPT !.member = <<>>, !.expanded = <<>>]
    OBVIOUS
  <2>2. <<>> \in Seq(Obj)
    OBVIOUS
  <2>3. /\ f \in FrameType /\ f.obj = Top(a).obj /\ f.place = Top(a).place
        /\ f.dug = Top(a).dug /\ f.expanded = <<>> /\ f.recorded = Top(a).recorded
    BY <1>1, <2>1, <2>2 DEF FrameType
  <2>4. stack'[a] = <<f>> \o Tail(stack[a])
    BY <1>5, <2>1 DEF LeaveExpander, Update, Types
  <2>5. Elements(stack'[a]) \subseteq {f} \cup Elements(stack[a])
    BY <1>1, <2>3, <2>4, FramesChanged
  <2>6. FrameKept(f)
    BY <1>1, <2>3, EmptyElements DEF FrameKept
  <2>7. FrameKept(f)'
    BY <2>3, <2>6, KeptFrames
  <2> QED BY <1>3, <2>5, <2>7, SaveKept, RowsAfter
<1> QED BY <1>4, <1>5

LEMMA SaveFailsRows ==
  ASSUME NEW a \in Actor, Types, Control(a), Rows(a), Grow, SaveFails(a)
  PROVE  Rows(a)'
<1>1. queued'[a] = queued[a] /\ listed'[a] = listed[a] /\ save'[a] = <<>> /\ pc[a] \in Saving
  BY DEF SaveFails, queues, Types
<1>2. CASE pc[a] = "save_root"
  <2>1. Goto(a, "error") /\ stack' = stack
    BY <1>2 DEF SaveFails
  <2>2. Saved(a)' = {}
    <3>1. pc'[a] = "error"
      BY <2>1 DEF Types, Goto
    <3> QED BY <3>1, NothingSaved DEF Saving
  <2> QED BY <1>1, <2>1, <2>2, SaveKept, RowsAfter
<1>3. CASE pc[a] = "save_carved"
  <2>1. Goto(a, "carve") /\ stack' = stack
    BY <1>3 DEF SaveFails
  <2>2. Saved(a)' = {}
    <3>1. pc'[a] = "carve"
      BY <2>1 DEF Types, Goto
    <3> QED BY <3>1, NothingSaved DEF Saving
  <2> QED BY <1>1, <2>1, <2>2, SaveKept, RowsAfter
<1>4. CASE pc[a] = "save_child"
  <2>1. ReturnError(a) \/ LeaveExpander(a)
    BY <1>4 DEF SaveFails
  <2>2. stack[a] # <<>>
    BY <1>4 DEF Control, Analyzing
  <2> QED BY <1>1, <2>1, <2>2, ErrorRows
<1> QED BY <1>1, <1>2, <1>3, <1>4 DEF Saving

LEMMA AnalysisFailsRows ==
  ASSUME NEW a \in Actor, Types, Control(a), Rows(a), Grow, AnalysisFails(a)
  PROVE  Rows(a)'
<1>1. /\ queued'[a] = queued[a] /\ listed'[a] = listed[a] /\ save'[a] = save[a]
      /\ ReturnError(a) \/ LeaveExpander(a)
  BY DEF AnalysisFails, queues
<1>2. stack[a] # <<>>
  BY DEF AnalysisFails, Control, Analyzing
<1> QED BY <1>1, <1>2, ErrorRows

LEMMA FoundChildRows ==
  ASSUME NEW a \in Actor, Types, Control(a), Rows(a), Grow, FoundChild(a)
  PROVE  Rows(a)'
<1>1. pc[a] = "analyze" /\ stack[a] # <<>>
  BY DEF FoundChild, Control, Analyzing
<1>2. \A o \in Obj : /\ DugRow(o) \in RowType /\ ExpandedRow(o) \in RowType
                     /\ DugRow(o).place # None /\ ExpandedRow(o).place # None
                     /\ "identity" \in DugRow(o).lists /\ "identity" \in ExpandedRow(o).lists
  BY PipelineAssumption DEF DugRow, ExpandedRow, RowType, FoundPlace, Place, Types, Item,
                            PipelineAssumption
<1>3. PICK c \in Obj, r \in RowType :
        /\ r = DugRow(c) \/ r = ExpandedRow(c)
        /\ save' = [save EXCEPT ![a] = ChildStatements(c, r)]
        /\ c = Child(Top(a))
  <2>1. CASE Digging(Top(a)) /\ save' = [save EXCEPT ![a] =
               ChildStatements(Head(Top(a).dig), DugRow(Head(Top(a).dig)))]
    <3>1. Head(Top(a).dig) \in Obj
      BY <1>1, <2>1, TopTyped, HeadAndTail DEF Digging
    <3> QED BY <1>2, <2>1, <3>1 DEF Child
  <2>2. CASE Expanding(Top(a)) /\ save' = [save EXCEPT ![a] =
               ChildStatements(Head(Top(a).member), ExpandedRow(Head(Top(a).member)))]
    <3>1. Head(Top(a).member) \in Obj
      BY <1>1, <2>2, TopTyped, HeadAndTail DEF Expanding
    <3> QED BY <1>2, <2>2, <3>1 DEF Child, Expanding, Digging
  <2> QED BY <2>1, <2>2 DEF FoundChild
<1>4. PICK s : s = ChildStatements(c, r)
  OBVIOUS
<1>5. save'[a] = s
  BY <1>3, <1>4 DEF Types
<1>6. Pairs(s) /\ Written(s) = {c}
  <2>1. r.place # None /\ "identity" \in r.lists
    BY <1>2, <1>3
  <2> QED BY <1>4, <2>1, PairsOfChild
<1>7. /\ queued'[a] = queued[a] /\ listed'[a] = listed[a] /\ stack'[a] = stack[a]
      /\ pc'[a] = "save_child"
  BY DEF FoundChild, queues, Goto, Types
<1>8. Saved(a)' \subseteq {c}
  BY <1>3, <1>7 DEF Saved, Top
<1> QED BY <1>5, <1>6, <1>7, <1>8, RowsAfter

LEMMA DescendRows ==
  ASSUME NEW a \in Actor, Types, Control(a), Rows(a), Grow, Descend(a)
  PROVE  Rows(a)'
<1> DEFINE f == Top(a)
           c == Child(f)
<1>1. pc[a] = "descend" /\ stack[a] # <<>> /\ save[a] = <<>> /\ ~Closing(f)
  BY DEF Descend, Control, Analyzing, Saving
<1>2. /\ stack[a] \in Seq(FrameType) /\ f \in FrameType /\ FrameKept(f) /\ f.depth \in Nat
      /\ Shallow(f) /\ f.dig \in Seq(Obj) /\ f.member \in Seq(Obj)
  BY <1>1, TopKept, TopTyped DEF StackType
<1>3. c \in Obj
  BY <1>1, <1>2, HeadAndTail DEF Child, Digging, Closing
<1>4. Has(c)
  <2>1. c \in Saved(a)
    BY <1>1, <1>3 DEF Saved
  <2> QED BY <1>1, <2>1, NothingToWrite DEF Rows
<1>5. stack'[a] = <<Frame(c, f.depth + 1), Listing(f)>> \o Tail(stack[a])
  BY DEF Descend, Types, Child
<1>6. /\ queued'[a] = queued[a] /\ listed'[a] = listed[a] /\ save'[a] = save[a]
  BY DEF Descend, queues
<1> HIDE DEF f, c
<1>7. PICK d \in Nat : d = f.depth + 1
  BY <1>2
<1>8. PICK g \in FrameType : g = Frame(c, d)
  BY <1>3, FrameTyped
<1>9. PICK h \in FrameType : h = Listing(f)
  BY <1>1, <1>2, ListingTyped
<1>10. Elements(stack'[a]) \subseteq {g, h} \cup Elements(stack[a])
  BY <1>1, <1>2, <1>5, <1>7, <1>8, <1>9, FramesPushed
<1>11. FrameKept(g)'
  BY <1>3, <1>4, <1>8, FrameStarts
<1>12. FrameKept(h)'
  <2>1. PICK f0 : f0 = f
    OBVIOUS
  <2>2. f0 \in FrameType /\ FrameKept(f0) /\ ~Closing(f0) /\ Has(Child(f0)) /\ h = Listing(f0)
    BY <1>1, <1>2, <1>4, <1>9, <2>1 DEF c
  <2> QED BY <2>2, ListingKept
<1>13. Saved(a)' = {}
  <2>1. pc'[a] = "analyze"
    BY DEF Descend, Types, Goto
  <2> QED BY <2>1, NothingSaved DEF Saving
<1> QED BY <1>6, <1>10, <1>11, <1>12, <1>13, SaveKept, RowsAfter

LEMMA UpdateRows ==
  ASSUME NEW a \in Actor, Types, Control(a), Rows(a), Grow, pc[a] = "analyze",
         NEW f \in FrameType, FrameKept(f)', Update(a, f),
         UNCHANGED <<pc, save, listed, queues>>
  PROVE  Rows(a)'
<1>1. stack[a] # <<>> /\ stack[a] \in Seq(FrameType)
  BY DEF Control, Analyzing, Types, StackType
<1>2. stack'[a] = <<f>> \o Tail(stack[a])
  BY DEF Update, Types
<1>3. Elements(stack'[a]) \subseteq {f} \cup Elements(stack[a])
  BY <1>1, <1>2, FramesChanged
<1>4. queued'[a] = queued[a] /\ listed'[a] = listed[a] /\ save'[a] = save[a] /\ pc'[a] = pc[a]
  BY DEF queues
<1>5. Saved(a)' = {}
  BY <1>4, NothingSaved DEF Saving
<1> QED BY <1>3, <1>4, <1>5, SaveKept, RowsAfter

LEMMA ReuseMemberRows ==
  ASSUME NEW a \in Actor, Types, Control(a), Rows(a), RowInv, Grow, ReuseMember(a)
  PROVE  Rows(a)'
<1>1. PICK f : f = Top(a)
  OBVIOUS
<1>2. /\ pc[a] = "analyze" /\ stack[a] # <<>> /\ Expanding(f) /\ Reusable(Head(f.member))
      /\ Update(a, Listing(f)) /\ UNCHANGED <<pc, save, listed, queues>>
  BY <1>1 DEF ReuseMember, Control, Analyzing
<1>3. /\ f \in FrameType /\ FrameKept(f) /\ Shallow(f) /\ f.member \in Seq(Obj)
  BY <1>1, <1>2, TopKept, TopTyped
<1>4. Head(f.member) \in Obj /\ Child(f) = Head(f.member) /\ ~Closing(f)
  BY <1>2, <1>3, HeadAndTail DEF Child, Expanding, Digging, Closing
<1>5. Has(Head(f.member))
  BY <1>2, <1>4 DEF Reusable, RowInv, NoRow
<1>6. FrameKept(Listing(f))' /\ Listing(f) \in FrameType
  BY <1>3, <1>4, <1>5, ListingKept, ListingTyped
<1>7. PICK g \in FrameType : g = Listing(f) /\ FrameKept(g)' /\ Update(a, g)
  BY <1>2, <1>6
<1> QED BY <1>2, <1>7, UpdateRows

LEMMA SkipMemberRows ==
  ASSUME NEW a \in Actor, Types, Control(a), Rows(a), Grow, SkipMember(a)
  PROVE  Rows(a)'
<1>1. PICK f : f = [Top(a) EXCEPT !.member = Tail(@)]
  OBVIOUS
<1>2. /\ pc[a] = "analyze" /\ stack[a] # <<>> /\ Expanding(Top(a))
      /\ Update(a, f) /\ UNCHANGED <<pc, save, listed, queues>>
  BY <1>1 DEF SkipMember, Control, Analyzing
<1>3. /\ Top(a) \in FrameType /\ FrameKept(Top(a)) /\ Tail(Top(a).member) \in Seq(Obj)
  BY <1>2, TopKept, TopTyped, HeadAndTail DEF Expanding
<1>4. /\ f \in FrameType /\ f.obj = Top(a).obj /\ f.place = Top(a).place
      /\ f.dug = Top(a).dug /\ f.expanded = Top(a).expanded /\ f.recorded = Top(a).recorded
  BY <1>1, <1>3 DEF FrameType
<1>5. FrameKept(f)
  BY <1>3, <1>4 DEF FrameKept
<1>6. FrameKept(f)'
  BY <1>4, <1>5, KeptFrames
<1> QED BY <1>2, <1>4, <1>6, UpdateRows

LEMMA RecordEvidenceRows ==
  ASSUME NEW a \in Actor, Types, Control(a), Rows(a), Grow, RecordEvidence(a)
  PROVE  Rows(a)'
<1>1. PICK f : f = [Top(a) EXCEPT !.recorded = TRUE]
  OBVIOUS
<1>2. /\ pc[a] = "analyze" /\ stack[a] # <<>>
      /\ Update(a, f) /\ UNCHANGED <<pc, save, listed, queues>>
      /\ ev' = [ev EXCEPT ![Top(a).obj]["analysis"] = Top(a).place]
  BY <1>1 DEF RecordEvidence, Control, Analyzing
<1>3. PICK t \in FrameType : t = Top(a) /\ FrameKept(t)
  BY <1>2, TopKept
<1>4. /\ f \in FrameType /\ f.obj = t.obj /\ f.place = t.place
      /\ f.dug = t.dug /\ f.expanded = t.expanded /\ t.obj \in Obj /\ t.place # None
  BY <1>1, <1>3 DEF FrameType, FrameKept
<1>5. FrameKept(t)'
  BY <1>3, KeptFrames
<1>6. Kept(f.obj)'
  BY <1>2, <1>3, <1>4 DEF Kept, Types, Item
<1>7. FrameKept(f)'
  BY <1>4, <1>5, <1>6 DEF FrameKept
<1> QED BY <1>2, <1>4, <1>7, UpdateRows

\* What the outermost call has found.
LEMMA Children ==
  ASSUME NEW s \in Seq(Obj), NEW t \in Seq(Obj)
  PROVE  LET u == s \o Pick(t, {i \in DOMAIN t : t[i] \notin Elements(s)})
         IN  u \in Seq(Obj) /\ Elements(u) = Elements(s) \cup Elements(t)
<1> DEFINE I == {i \in DOMAIN t : t[i] \notin Elements(s)}
<1>1. PICK n : n = Pick(t, I)
  OBVIOUS
<1>2. n \in Seq(Obj) /\ Elements(n) = {t[i] : i \in I}
  BY <1>1, Picked
<1>3. s \o n \in Seq(Obj) /\ Elements(s \o n) = Elements(s) \cup Elements(n)
  BY <1>2, Joined
<1>4. {t[i] : i \in I} \cup Elements(s) = Elements(t) \cup Elements(s)
  BY DEF Elements
<1> QED BY <1>1, <1>2, <1>3, <1>4

LEMMA RecordRowRows ==
  ASSUME NEW a \in Actor, Types, Control(a), Rows(a), Grow, RecordRow(a)
  PROVE  Rows(a)'
<1>1. PICK f : f = Top(a)
  OBVIOUS
<1>2. pc[a] = "analyze" /\ stack[a] # <<>> /\ stack[a] \in Seq(FrameType)
  BY DEF RecordRow, Control, Analyzing, Types, StackType
<1>3. f \in FrameType /\ FrameKept(f) /\ f.dug \in Seq(Obj) /\ f.expanded \in Seq(Obj)
  BY <1>1, <1>2, TopKept, TopTyped
<1>4. PICK n : n = f.dug \o Pick(f.expanded, {i \in DOMAIN f.expanded :
                                                f.expanded[i] \notin Elements(f.dug)})
  OBVIOUS
<1>5. n \in Seq(Obj) /\ Elements(n) = Elements(f.dug) \cup Elements(f.expanded)
  BY <1>3, <1>4, Children
<1>6. /\ stack' = [stack EXCEPT ![a] = Tail(@)]
      /\ listed' = listed \/ listed' = [listed EXCEPT ![a] = n]
      /\ pc' = pc \/ pc' = [pc EXCEPT ![a] = "promote"]
      /\ UNCHANGED <<save, queues>>
  BY <1>1, <1>4 DEF RecordRow, Goto
<1>7. stack'[a] = Tail(stack[a]) /\ queued'[a] = queued[a] /\ save'[a] = save[a]
  BY <1>6 DEF Types, queues
<1>8. Elements(stack'[a]) \subseteq Elements(stack[a])
  BY <1>2, <1>7, HeadAndTail
<1>9. Saved(a)' = {}
  <2>1. pc'[a] \in {"analyze", "promote"}
    BY <1>2, <1>6 DEF Types
  <2> QED BY <2>1, NothingSaved DEF Saving
<1>10. listed'[a] = listed[a] \/ listed'[a] = n
  BY <1>6 DEF Types
<1>11. \A o \in Elements(n) : o \in Obj /\ Has(o)
  BY <1>3, <1>5, ElementsIn DEF FrameKept
<1> QED BY <1>7, <1>8, <1>9, <1>10, <1>11, SaveKept, RowsAfter

\* Steps that neither save, analyse nor list.
LEMMA OtherRows ==
  ASSUME NEW a \in Actor, Types, Rows(a), Grow,
         stack'[a] = stack[a], listed'[a] = listed[a], save'[a] = save[a],
         queued'[a] \subseteq queued[a] \cup Elements(listed[a]),
         pc'[a] \notin Saving \cup {"queue", "carved", "descend"}
  PROVE  Rows(a)'
  BY NothingSaved, SaveKept, RowsAfter

LEMMA EndPromotionRows ==
  ASSUME NEW a \in Actor, Types, Control(a), Rows(a), Grow, EndPromotion(a)
  PROVE  Rows(a)'
<1>1. stack'[a] = stack[a] /\ listed'[a] = listed[a] /\ save'[a] = save[a]
  BY DEF EndPromotion
<1>2. queued'[a] \subseteq queued[a] \cup Elements(listed[a])
  BY DEF EndPromotion, Queue, queues, Types
<1>3. pc'[a] \in {"scan", "done", "error"}
  BY DEF EndPromotion, AfterAnalysis, Goto, Types
<1> QED BY <1>1, <1>2, <1>3, OtherRows DEF Saving

LEMMA ScanRows ==
  ASSUME NEW a \in Actor, Types, Control(a), Rows(a), Grow, Scan(a)
  PROVE  Rows(a)'
<1>1. stack'[a] = stack[a] /\ save'[a] = save[a] /\ queued'[a] = queued[a]
  BY DEF Scan, queues
<1>2. Elements(listed'[a]) = {}
  BY EmptyElements DEF Scan, Types
<1>3. pc'[a] \in {"carve", "binary"}
  BY DEF Scan, Goto, Types
<1>4. Saved(a)' = {}
  BY <1>3, NothingSaved DEF Saving
<1> QED BY <1>1, <1>2, <1>4, SaveKept, RowsAfter

LEMMA IdentifyRows ==
  ASSUME NEW a \in Actor, Types, Control(a), Rows(a), Grow, Identify(a)
  PROVE  Rows(a)'
<1>1. /\ stack'[a] = stack[a] /\ listed'[a] = listed[a] /\ queued'[a] = queued[a]
      /\ pc[a] = "carve"
  BY DEF Identify, queues
<1>2. todo[a] \in Seq(Obj) /\ todo[a] # <<>> /\ Head(todo[a]) \in Obj
  BY HeadAndTail DEF Identify, Types
<1>3. CASE /\ save' = [save EXCEPT ![a] = GraphStatements(Head(todo[a]), "artifact")]
           /\ Goto(a, "save_carved") /\ todo' = todo
  <2>1. PICK s : s = GraphStatements(Head(todo[a]), "artifact")
    OBVIOUS
  <2>2. Pairs(s) /\ Written(s) = Graph(Head(todo[a]))
    BY <1>2, <2>1, PairsOfGraph DEF Place
  <2>3. save'[a] = s /\ pc'[a] = "save_carved"
    BY <1>3, <2>1 DEF Types, Goto
  <2>4. \A o \in Saved(a)' : o \in Written(save'[a])
    BY <1>3, <2>2, <2>3 DEF Saved
  <2> QED BY <1>1, <2>2, <2>3, <2>4, RowsAfter
<1>4. CASE UNCHANGED <<pc, save>>
  BY <1>1, <1>4, OtherRows DEF Saving
<1> QED BY <1>3, <1>4 DEF Identify

LEMMA DeriveRows ==
  ASSUME NEW a \in Actor, Types, Control(a), Rows(a), Grow, Derive(a)
  PROVE  Rows(a)'
<1>1. PICK c : c = Head(todo[a])
  OBVIOUS
<1>2. /\ stack'[a] = stack[a] /\ save'[a] = save[a] /\ queued'[a] = queued[a]
      /\ pc[a] = "carved" /\ save[a] = <<>> /\ todo[a] # <<>>
  BY DEF Derive, queues, Control, Saving
<1>3. c \in Obj
  BY <1>1, <1>2, HeadAndTail DEF Types
<1>4. \A o \in Graph(c) : o \in Obj /\ Has(o)
  <2>1. Graph(c) \subseteq Obj
    BY <1>3, GraphListed
  <2>2. Graph(c) \subseteq Saved(a)
    BY <1>1, <1>2, <2>1 DEF Saved
  <2> QED BY <1>2, <2>1, <2>2, NothingToWrite DEF Rows
<1>5. Elements(listed'[a]) \subseteq Elements(listed[a]) \cup Graph(c)
  <2>1. PICK l \in Seq(Obj) : l = listed[a]
    BY DEF Types
  <2>2. PICK g \in Seq(Obj) : g = <<c>> \o Entry[c] /\ Elements(g) = Graph(c)
    BY <1>3, GraphListed
  <2>3. Elements(l \o g) = Elements(l) \cup Elements(g)
    BY Joined
  <2>4. l \o <<c>> \o Entry[c] = l \o g
    <3>1. PICK e \in Seq(Obj) : e = Entry[c]
      BY <1>3, Constants
    <3>2. l \o <<c>> \o e = l \o (<<c>> \o e)
      BY <1>3
    <3> QED BY <2>2, <3>1, <3>2
  <2>5. listed'[a] = listed[a] \/ listed'[a] = listed[a] \o <<c>> \o Entry[c]
    BY <1>1 DEF Derive, Types
  <2> QED BY <2>1, <2>2, <2>3, <2>4, <2>5
<1>6. Saved(a)' = {}
  <2>1. pc'[a] \in {"carve", "binary"}
    BY DEF Derive, Goto, Types
  <2> QED BY <2>1, NothingSaved DEF Saving
<1> QED BY <1>2, <1>4, <1>5, <1>6, SaveKept, RowsAfter

LEMMA EndCarveRows ==
  ASSUME NEW a \in Actor, Types, Control(a), Rows(a), Grow, EndCarve(a)
  PROVE  Rows(a)'
<1>1. stack'[a] = stack[a] /\ listed'[a] = listed[a] /\ save'[a] = save[a]
  BY DEF EndCarve
<1>2. queued'[a] \subseteq queued[a] \cup Elements(listed[a])
  BY DEF EndCarve, Queue, queues, Types
<1>3. pc'[a] = "binary"
  BY DEF EndCarve, Goto, Types
<1> QED BY <1>1, <1>2, <1>3, OtherRows DEF Saving

LEMMA StepRows ==
  ASSUME NEW a \in Actor, Types, Control(a), Rows(a), RowInv, Step(a)
  PROVE  Rows(a)'
<1>1. Grow
  BY StepGrows
<1>2. CASE Promote(a)
  BY <1>1, <1>2, OtherRows DEF Promote, queues, Saving
<1>3. CASE AnalyzeBinary(a)
  <2>1. pc'[a] = "loop"
    BY <1>3 DEF AnalyzeBinary, Goto, Types
  <2> QED BY <1>1, <1>3, <2>1, OtherRows DEF AnalyzeBinary, queues, Saving
<1>4. CASE Finish(a)
  <2>1. pc'[a] \in {"done", "error"}
    BY <1>4 DEF Finish, Goto, Types
  <2> QED BY <1>1, <1>4, <2>1, OtherRows DEF Finish, queues, Saving
<1> QED BY <1>1, <1>2, <1>3, <1>4, StartRows, QueueGraphRows, PopRows, SaveStatementRows,
           SaveFailsRows, AnalysisFailsRows, FoundChildRows, DescendRows, ReuseMemberRows,
           SkipMemberRows, RecordEvidenceRows, RecordRowRows, EndPromotionRows, ScanRows,
           IdentifyRows, DeriveRows, EndCarveRows DEF Step

-----------------------------------------------------------------------------
(* The evidence a row lists.                                               *)

\* The evidence that was there, or on its way by another actor or by one that
\* does not save now, still is.
LEMMA StillKept ==
  ASSUME Types, NEW a \in Actor, Control(a), NEW o \in Obj, NEW i \in Item,
         ev[o][i] # None => ev'[o][i] # None \/ o \in runs',
         Grow, \A b \in Actor \ {a} : Mine(b)' = Mine(b),
         save'[a] = save[a] \/ save[a] = <<>>,
         \/ ev[o][i] # None \/ o \in torn \cup runs
         \/ \E b \in Actor : Inserting(b, o, i)
  PROVE  \/ ev'[o][i] # None \/ o \in torn' \cup runs'
         \/ \E b \in Actor : Inserting(b, o, i)'
<1>1. ASSUME NEW b \in Actor, Inserting(b, o, i)
      PROVE  Inserting(b, o, i)'
  <2>1. save'[b] = save[b]
    BY <1>1 DEF Mine, Inserting
  <2> QED BY <1>1, <2>1 DEF Inserting
<1> QED BY <1>1 DEF Grow

LEMMA SaveStatementListed ==
  ASSUME NEW a \in Actor, Types, Control(a), Rows(a), ListedKept, SaveStatement(a), Step(a)
  PROVE  ListedKept'
<1>1. PICK s : s = Head(save[a])
  OBVIOUS
<1>2. /\ s.obj \in Obj /\ s.row \in RowType /\ s.table \in {"objects", "evidence"}
      /\ s.row.place # None
      /\ s.table = "objects" => row' = [row EXCEPT ![s.obj] = s.row] /\ ev' = ev
      /\ s.table = "evidence" =>
           /\ row' = row
           /\ ev' = [ev EXCEPT ![s.obj] =
                [i \in Item |-> IF i \in s.row.lists THEN s.row.place ELSE @[i]]]
      /\ save' = [save EXCEPT ![a] = Tail(@)] /\ runs' = runs /\ torn' = torn
  BY <1>1, FirstStatement
<1>3. save[a] \in Seq(StatementType) /\ save[a] # <<>> /\ Pairs(save[a])
  BY DEF Types, Control, SaveStatement, Rows
<1>4. save'[a] = Tail(save[a])
  BY <1>2 DEF Types
<1>5. \A b \in Actor \ {a} : save'[b] = save[b]
  BY <1>2 DEF Types
<1> SUFFICES ASSUME NEW o \in Obj, NEW i \in row'[o].lists
             PROVE  \/ ev'[o][i] # None \/ o \in torn' \cup runs'
                    \/ \E b \in Actor : Inserting(b, o, i)'
  BY DEF ListedKept
<1>6. i \in Item
  <2>1. row'[o] = row[o] \/ row'[o] = s.row
    BY <1>2 DEF Types
  <2> QED BY <1>2, <2>1 DEF Types, RowType
<1>7. CASE s.table = "objects"
  <2>1. /\ save'[a] # <<>> /\ Head(save'[a]).table = "evidence"
        /\ Head(save'[a]).obj = s.obj /\ Head(save'[a]).row = s.row
    BY <1>1, <1>3, <1>4, <1>7, PairsOfTail
  <2>2. CASE o = s.obj
    <3>1. i \in s.row.lists
      BY <1>2, <1>7, <2>2 DEF Types
    <3> QED BY <2>1, <2>2, <3>1 DEF Inserting
  <2>3. CASE o # s.obj
    <3>1. i \in row[o].lists
      BY <1>2, <1>7, <2>3 DEF Types
    <3>2. \A b \in Actor : Inserting(b, o, i) => b # a
      BY <1>1, <1>7 DEF Inserting
    <3>3. \A b \in Actor : Inserting(b, o, i) => Inserting(b, o, i)'
      BY <1>5, <3>2 DEF Inserting
    <3> QED BY <1>2, <1>7, <3>1, <3>3 DEF ListedKept
  <2> QED BY <2>2, <2>3
<1>8. CASE s.table = "evidence"
  <2>1. i \in row[o].lists
    BY <1>2, <1>8
  <2>2. ev'[o][i] = IF o = s.obj /\ i \in s.row.lists THEN s.row.place ELSE ev[o][i]
    BY <1>2, <1>6, <1>8 DEF Types
  <2>3. ASSUME NEW b \in Actor, Inserting(b, o, i)
        PROVE  ev'[o][i] # None \/ Inserting(b, o, i)'
    <3>1. CASE b = a
      BY <1>1, <1>2, <2>2, <2>3, <3>1 DEF Inserting
    <3>2. CASE b # a
      BY <1>5, <2>3, <3>2 DEF Inserting
    <3> QED BY <3>1, <3>2
  <2> QED BY <1>2, <2>1, <2>2, <2>3 DEF ListedKept
<1> QED BY <1>2, <1>7, <1>8

LEMMA SaveFailsListed ==
  ASSUME NEW a \in Actor, Types, Control(a), Rows(a), ListedKept, SaveFails(a), Step(a)
  PROVE  ListedKept'
<1>1. /\ row' = row /\ ev' = ev /\ runs' = runs
      /\ torn' = IF Head(save[a]).table = "evidence"
                 THEN torn \cup {Head(save[a]).obj} ELSE torn
      /\ save' = [save EXCEPT ![a] = <<>>]
  BY DEF SaveFails
<1>2. \A b \in Actor \ {a} : save'[b] = save[b]
  BY <1>1 DEF Types
<1> SUFFICES ASSUME NEW o \in Obj, NEW i \in row[o].lists
             PROVE  \/ ev[o][i] # None \/ o \in torn' \cup runs
                    \/ \E b \in Actor : Inserting(b, o, i)'
  BY <1>1 DEF ListedKept
<1>3. ASSUME NEW b \in Actor, Inserting(b, o, i)
      PROVE  o \in torn' \/ Inserting(b, o, i)'
  <2>1. CASE b = a
    BY <1>1, <1>3, <2>1 DEF Inserting
  <2>2. CASE b # a
    BY <1>2, <1>3, <2>2 DEF Inserting
  <2> QED BY <2>1, <2>2
<1> QED BY <1>1, <1>3 DEF ListedKept

LEMMA RecordRowListed ==
  ASSUME NEW a \in Actor, Types, Control(a), Rows(a), RowInv, ListedKept, RecordRow(a)
  PROVE  ListedKept'
<1>1. stack[a] # <<>> /\ Top(a).recorded
  BY DEF RecordRow, Control, Analyzing
<1>2. PICK q \in Obj : q = Top(a).obj /\ Has(q) /\ Kept(q)
  BY <1>1, TopKept DEF FrameType, FrameKept
<1>3. /\ row' = [row EXCEPT ![q].lists = Item] /\ ev' = ev /\ runs' = runs /\ torn' = torn
      /\ save' = save
  BY <1>2 DEF RecordRow
<1>4. \A b \in Actor : \A o \in Obj : \A i \in Item : Inserting(b, o, i)' = Inserting(b, o, i)
  BY <1>3 DEF Inserting
<1> SUFFICES ASSUME NEW o \in Obj, NEW i \in row'[o].lists
             PROVE  \/ ev[o][i] # None \/ o \in torn \cup runs
                    \/ \E b \in Actor : Inserting(b, o, i)
  BY <1>3 DEF ListedKept, Inserting
<1>5. CASE i \in row[o].lists
  BY <1>5 DEF ListedKept
<1>6. CASE i \notin row[o].lists
  <2>1. o = q /\ i \in Item
    BY <1>2, <1>3, <1>6 DEF Types, RowType
  <2>2. i = "analysis"
    BY <1>2, <1>6, <2>1 DEF RowInv, Item
  <2> QED BY <1>2, <2>1, <2>2 DEF Kept
<1> QED BY <1>5, <1>6

LEMMA StepListed ==
  ASSUME NEW a \in Actor, Types, Control(a), Rows(a), RowInv, ListedKept, Step(a)
  PROVE  ListedKept'
<1>1. Grow /\ \A b \in Actor \ {a} : Mine(b)' = Mine(b)
  BY StepGrows, OnlyMine
<1>2. CASE SaveStatement(a)
  BY <1>2, SaveStatementListed
<1>3. CASE SaveFails(a)
  BY <1>3, SaveFailsListed
<1>4. CASE RecordRow(a)
  BY <1>4, RecordRowListed
<1>5. CASE ~SaveStatement(a) /\ ~SaveFails(a) /\ ~RecordRow(a)
  <2>1. row' = row
    BY <1>5, StoreChange DEF store, RecordEvidence, BinaryRun
  <2>2. save'[a] = save[a] \/ save[a] = <<>>
    <3>1. save' = save \/ pc[a] \in {"start", "analyze", "carve"}
      BY <1>5 DEF Step, Start, QueueGraph, Pop, Finish, FoundChild, Descend, ReuseMember,
                  SkipMember, RecordEvidence, AnalysisFails, Promote, EndPromotion,
                  Scan, Identify, Derive, EndCarve, AnalyzeBinary
    <3> QED BY <3>1 DEF Control, Saving
  <2>3. ASSUME NEW o \in Obj, NEW i \in Item, ev[o][i] # None
        PROVE  ev'[o][i] # None \/ o \in runs'
    <3>1. CASE UNCHANGED store
      BY <2>3, <3>1 DEF store
    <3>2. CASE RecordEvidence(a)
      <4>1. stack[a] # <<>>
        BY <3>2 DEF RecordEvidence, Control, Analyzing
      <4>2. Top(a).obj \in Obj /\ Top(a).place # None
        BY <4>1, TopKept DEF FrameType, FrameKept
      <4> QED BY <2>3, <3>2, <4>2 DEF RecordEvidence, Types, Item
    <3>3. CASE \E q \in Native : BinaryRun(a, q)
      <4>1. PICK q \in Native : BinaryRun(a, q)
        BY <3>3
      <4>2. q \in Obj
        BY Constants
      <4> QED BY <2>3, <4>1, <4>2 DEF BinaryRun, Types
    <3> QED BY <1>5, <3>1, <3>2, <3>3, StoreChange
  <2>4. ASSUME NEW o \in Obj, NEW i \in row'[o].lists
        PROVE  \/ ev'[o][i] # None \/ o \in torn' \cup runs'
               \/ \E b \in Actor : Inserting(b, o, i)'
    <3>1. i \in Item /\ i \in row[o].lists
      BY <2>1, <2>4 DEF Types, RowType
    <3>2. \/ ev[o][i] # None \/ o \in torn \cup runs
          \/ \E b \in Actor : Inserting(b, o, i)
      BY <3>1 DEF ListedKept
    <3> QED BY <1>1, <2>2, <2>3, <3>1, <3>2, StillKept
  <2> QED BY <2>4 DEF ListedKept
<1> QED BY <1>2, <1>3, <1>4, <1>5

StoreInv ==
  /\ TypeInv
  /\ \A a \in Actor : Rows(a)
  /\ RowInv
  /\ ListedKept

LEMMA InitStore ==
  ASSUME Init
  PROVE  StoreInv
<1>1. RowInv /\ ListedKept
  BY DEF Init, RowInv, ListedKept, Has, NoRow
<1>2. ASSUME NEW a \in Actor
      PROVE  Rows(a)
  <2>1. /\ queued[a] = {} /\ listed[a] = <<>> /\ stack[a] = <<>> /\ save[a] = <<>>
        /\ pc[a] = "start"
    BY DEF Init
  <2>2. Saved(a) = {}
    BY <2>1 DEF Saved
  <2> QED BY <2>1, <2>2, EmptyElements, NothingToWrite DEF Rows
<1> QED BY <1>1, <1>2, InitTyped DEF StoreInv

LEMMA NextStore ==
  ASSUME StoreInv, [Next]_vars
  PROVE  StoreInv'
<1>1. TypeInv'
  BY NextTyped DEF StoreInv
<1>2. CASE UNCHANGED vars
  <2>1. \A b \in Actor : Rows(b)' = Rows(b)
    BY <1>2 DEF vars, store, queues, Rows, Saved, FrameKept, Has, Kept, Top
  <2>2. RowInv' /\ ListedKept'
    BY <1>2 DEF StoreInv, vars, store, RowInv, ListedKept, Has, Inserting
  <2> QED BY <1>1, <2>1, <2>2 DEF StoreInv
<1>3. CASE Next
  <2>1. PICK a \in Actor : Step(a)
    BY <1>3 DEF Next
  <2>2. Types /\ Control(a) /\ Rows(a) /\ RowInv /\ ListedKept
    BY DEF StoreInv, TypeInv
  <2>3. Rows(a)' /\ RowInv' /\ ListedKept' /\ Grow
    BY <2>1, <2>2, StepRows, StepRowInv, StepListed, StepGrows
  <2>4. \A b \in Actor \ {a} : Rows(b)'
    BY <2>1, <2>2, <2>3, OnlyMine, UntouchedRows DEF StoreInv
  <2> QED BY <1>1, <2>3, <2>4 DEF StoreInv
<1> QED BY <1>2, <1>3

\* What an actor works on has a row, and what a row lists is there, on its
\* way, torn or replaced by the run of a binary.
THEOREM StoreInvariance == Spec => []StoreInv
  BY InitStore, NextStore, PTL DEF Spec

\* Evidence that a row lists exists, whoever rewrites the row and whatever
\* fails, but for a save cut short and for objects analysed as a binary.
THEOREM EvidenceIsKept == Spec => []EvidenceKept
<1>1. ASSUME StoreInv
      PROVE  EvidenceKept
  <2>1. ASSUME NEW o \in Obj, NEW i, NEW a \in Actor, Inserting(a, o, i)
        PROVE  Awaited(o)
    <3>1. save[a] \in Seq(StatementType) /\ save[a] # <<>>
      BY <1>1, <2>1 DEF StoreInv, TypeInv, Types, Inserting
    <3>2. 1 \in DOMAIN save[a] /\ Head(save[a]) = save[a][1]
      BY <3>1
    <3> QED BY <2>1, <3>2 DEF Inserting, Awaited
  <2> QED BY <1>1, <2>1 DEF StoreInv, ListedKept, EvidenceKept
<1> QED BY <1>1, StoreInvariance, PTL

-----------------------------------------------------------------------------
(* What a pipeline without failures or warnings has covered.               *)

\* Runs are of binaries, and what a request has seen has a run.
RunInv ==
  /\ runs \subseteq {BinaryId[o] : o \in Native}
  /\ \A a \in Actor : seen[a] \subseteq runs

Clean(a) == pc[a] # "error" /\ ~failed[a] /\ ~warned[a]
Working(a) == pc[a] \in Analyzing \cup {"promote"} \cup Carving

\* The outermost call of analyze_object_inner.
Outermost(s) == s[Len(s)]
FrameCovers(f, c) ==
  /\ Elements(Dig[c]) \subseteq Elements(f.dug) \cup Elements(f.dig)
  /\ Elements(Member[c]) \subseteq Elements(f.expanded) \cup Elements(f.member)

Inside(c) == Elements(Dig[c]) \cup Elements(Member[c])
Done(a, o) == Found(o) \subseteq queued[a] /\ (o \in Native => BinaryId[o] \in runs)

\* What is found in the object of this round is listed, and then queued.
Progress(a) ==
  /\ pc[a] \in Analyzing => FrameCovers(Outermost(stack[a]), current[a])
  /\ pc[a] = "promote" => Inside(current[a]) \subseteq Elements(listed[a])
  /\ pc[a] \in Carving => Inside(current[a]) \subseteq queued[a]
  /\ pc[a] \in {"carve", "save_carved", "carved"} =>
       \A c \in Elements(Carve[current[a]]) :
         c \in Elements(todo[a]) \/ Graph(c) \subseteq Elements(listed[a])
  /\ pc[a] = "binary" => Found(current[a]) \subseteq queued[a]

Covering(a) ==
  /\ pc[a] \notin {"start", "save_root", "queue"} => Root[a] \in queued[a]
  /\ \A o \in processed[a] : Done(a, o) \/ (Working(a) /\ o = current[a])
  /\ Progress(a)

CoverInv == \A a \in Pipeline : Clean(a) => Covering(a)

LEMMA Known ==
  ASSUME NEW a \in Actor, RunInv, NEW o \in Native, AlreadyAnalyzed(a, o)
  PROVE  BinaryId[o] \in runs
<1>1. o \in runs
  BY DEF AlreadyAnalyzed, RunInv
<1>2. PICK x \in Native : o = BinaryId[x]
  BY <1>1 DEF RunInv
<1>3. BinaryId[o] = o
  BY <1>2, PipelineAssumption DEF PipelineAssumption
<1> QED BY <1>1, <1>3

\* An analysis that is new to runs, or to what a has seen.
LEMMA RunInvAfter ==
  ASSUME NEW a \in Actor, Types, RunInv, NEW x,
         \/ runs' = runs /\ x \in runs
         \/ runs' = runs \cup {x} /\ x \in {BinaryId[o] : o \in Native},
         seen' = seen \/ seen' = [seen EXCEPT ![a] = @ \cup {x}]
  PROVE  RunInv' /\ runs \subseteq runs'
<1>1. runs' \subseteq {BinaryId[o] : o \in Native} /\ runs \subseteq runs' /\ x \in runs'
  BY DEF RunInv
<1>2. ASSUME NEW b \in Actor
      PROVE  seen'[b] \subseteq runs'
  <2>1. seen'[b] = seen[b] \/ seen'[b] = seen[b] \cup {x}
    BY DEF Types
  <2> QED BY <1>1, <2>1 DEF RunInv
<1> QED BY <1>1, <1>2 DEF RunInv

LEMMA StepRunInv ==
  ASSUME NEW a \in Actor, Types, Control(a), RunInv, Step(a)
  PROVE  RunInv' /\ runs \subseteq runs'
<1>1. CASE Promote(a)
  <2>1. PICK o : o = Head(todo[a])
    OBVIOUS
  <2>2. o \in Native
    BY <1>1, <2>1, HeadAndTail DEF Promote, Control, Types
  <2>3. \/ runs' = runs /\ (seen' = seen \/ seen' = [seen EXCEPT ![a] = @ \cup {o}]) /\
             (seen' # seen => AlreadyAnalyzed(a, o))
        \/ runs' = runs \cup {BinaryId[o]}
             /\ (seen' = seen \/ seen' = [seen EXCEPT ![a] = @ \cup {BinaryId[o]}])
    BY <1>1, <2>1 DEF Promote, Analyzed, NotAnalyzed, BinaryRun, store
  <2>4. CASE runs' = runs /\ seen' = seen
    BY <2>4 DEF RunInv
  <2>5. CASE /\ runs' = runs /\ AlreadyAnalyzed(a, o)
             /\ seen' = [seen EXCEPT ![a] = @ \cup {o}]
    <3>1. o \in runs
      BY <2>5 DEF AlreadyAnalyzed, RunInv
    <3> QED BY <2>5, <3>1, RunInvAfter
  <2>6. CASE /\ runs' = runs \cup {BinaryId[o]}
             /\ (seen' = seen \/ seen' = [seen EXCEPT ![a] = @ \cup {BinaryId[o]}])
    BY <2>2, <2>6, RunInvAfter
  <2> QED BY <2>3, <2>4, <2>5, <2>6
<1>2. CASE AnalyzeBinary(a)
  <2>1. PICK o : o = current[a]
    OBVIOUS
  <2>2. \/ runs' = runs /\ seen' = seen
        \/ o \in Native /\ runs' = runs \cup {BinaryId[o]}
             /\ (seen' = seen \/ seen' = [seen EXCEPT ![a] = @ \cup {BinaryId[o]}])
    BY <1>2, <2>1 DEF AnalyzeBinary, Analyzed, NotAnalyzed, BinaryRun, store
  <2>3. CASE runs' = runs /\ seen' = seen
    BY <2>3 DEF RunInv
  <2>4. CASE /\ o \in Native /\ runs' = runs \cup {BinaryId[o]}
             /\ (seen' = seen \/ seen' = [seen EXCEPT ![a] = @ \cup {BinaryId[o]}])
    BY <2>4, RunInvAfter
  <2> QED BY <2>2, <2>3, <2>4
<1>3. CASE runs' = runs /\ seen' = seen
  BY <1>3 DEF RunInv
<1>4. Promote(a) \/ AnalyzeBinary(a) \/ (runs' = runs /\ seen' = seen)
  BY DEF Step, Start, QueueGraph, Pop, Finish, SaveStatement, SaveFails, FoundChild,
         Descend, ReuseMember, SkipMember, RecordEvidence, RecordRow, AnalysisFails,
         EndPromotion, Scan, Identify, Derive, EndCarve, store
<1> QED BY <1>1, <1>2, <1>3, <1>4

\* The outermost call when one above it returns, changes or descends.
LEMMA OutermostKept ==
  ASSUME NEW s \in StackType, s # <<>>, NEW f \in FrameType, NEW g \in FrameType
  PROVE  /\ Outermost(<<f>> \o Tail(s)) = IF Len(s) = 1 THEN f ELSE Outermost(s)
         /\ Outermost(<<g, f>> \o Tail(s)) = IF Len(s) = 1 THEN f ELSE Outermost(s)
         /\ Len(s) > 1 => Outermost(Tail(s)) = Outermost(s)
         /\ Len(s) = 1 => Outermost(s) = Head(s)
<1>1. s \in Seq(FrameType)
  BY DEF StackType
<1>2. PICK t \in Seq(FrameType) : t = Tail(s)
  BY <1>1, HeadAndTail
<1>3. /\ Len(s) \in Nat /\ Len(s) >= 1 /\ Len(t) = Len(s) - 1 /\ Head(s) = s[1]
      /\ \A i \in 1..Len(s) - 1 : t[i] = s[i + 1]
  BY <1>1, <1>2, HeadAndTail
<1>4. Len(s) > 1 => t[Len(t)] = s[Len(s)]
  <2> SUFFICES ASSUME Len(s) > 1 PROVE t[Len(t)] = s[Len(s)]
    OBVIOUS
  <2>1. Len(t) \in 1..Len(s) - 1 /\ Len(t) + 1 = Len(s)
    BY <1>3
  <2> QED BY <1>3, <2>1
<1>5. /\ Len(<<f>> \o t) = Len(t) + 1 /\ (<<f>> \o t)[1] = f
      /\ \A i \in 1..Len(t) : (<<f>> \o t)[i + 1] = t[i]
  BY <1>2
<1>6. /\ Len(<<g, f>> \o t) = Len(t) + 2 /\ (<<g, f>> \o t)[2] = f
      /\ \A i \in 1..Len(t) : (<<g, f>> \o t)[i + 2] = t[i]
  BY <1>2
<1>7. CASE Len(s) = 1
  <2>1. Len(t) = 0
    BY <1>3, <1>7
  <2>2. /\ Len(<<f>> \o t) = 1 /\ (<<f>> \o t)[1] = f
        /\ Len(<<g, f>> \o t) = 2 /\ (<<g, f>> \o t)[2] = f
    BY <1>5, <1>6, <2>1
  <2>3. PICK u : u = <<f>> \o t
    OBVIOUS
  <2>4. PICK v : v = <<g, f>> \o t
    OBVIOUS
  <2>5. Outermost(u) = f /\ Outermost(v) = f
    BY <2>2, <2>3, <2>4 DEF Outermost
  <2>6. Outermost(s) = Head(s)
    BY <1>3, <1>7 DEF Outermost
  <2> QED BY <1>2, <1>7, <2>3, <2>4, <2>5, <2>6
<1>8. CASE Len(s) > 1
  <2>1. Len(t) \in 1..Len(t)
    BY <1>3, <1>8
  <2>2. (<<f>> \o t)[Len(t) + 1] = t[Len(t)] /\ (<<g, f>> \o t)[Len(t) + 2] = t[Len(t)]
    BY <1>5, <1>6, <2>1
  <2> QED BY <1>2, <1>3, <1>4, <1>5, <1>6, <1>8, <2>2 DEF Outermost
<1> QED BY <1>3, <1>7, <1>8

LEMMA ListingCovers ==
  ASSUME NEW f \in FrameType, ~Closing(f), NEW c, FrameCovers(f, c)
  PROVE  FrameCovers(Listing(f), c)
<1>1. /\ f.dug \in Seq(Obj) /\ f.expanded \in Seq(Obj)
      /\ f.dig \in Seq(Obj) /\ f.member \in Seq(Obj)
  BY DEF FrameType
<1>2. PICK g : g = Listing(f)
  OBVIOUS
<1>3. \A s \in Seq(Obj), x \in Obj : Elements(With(s, x)) = Elements(s) \cup {x}
  BY Listed
<1>4. CASE Digging(f)
  <2>1. f.dig # <<>>
    BY <1>4 DEF Digging
  <2>2. Head(f.dig) \in Obj /\ Elements(f.dig) = {Head(f.dig)} \cup Elements(Tail(f.dig))
    BY <1>1, <2>1, HeadAndTail
  <2>3. /\ g.dug = With(f.dug, Head(f.dig)) /\ g.dig = Tail(f.dig)
        /\ g.expanded = f.expanded /\ g.member = f.member
    BY <1>2, <1>4 DEF Listing, FrameType
  <2>4. Elements(g.dug) = Elements(f.dug) \cup {Head(f.dig)}
    BY <1>1, <1>3, <2>2, <2>3
  <2> QED BY <1>2, <2>2, <2>3, <2>4 DEF FrameCovers
<1>5. CASE ~Digging(f)
  <2>1. f.member # <<>>
    BY <1>5 DEF Digging, Closing
  <2>2. /\ Head(f.member) \in Obj
        /\ Elements(f.member) = {Head(f.member)} \cup Elements(Tail(f.member))
    BY <1>1, <2>1, HeadAndTail
  <2>3. /\ g.expanded = With(f.expanded, Head(f.member)) /\ g.member = Tail(f.member)
        /\ g.dug = f.dug /\ g.dig = f.dig
    BY <1>2, <1>5 DEF Listing, FrameType
  <2>4. Elements(g.expanded) = Elements(f.expanded) \cup {Head(f.member)}
    BY <1>1, <1>3, <2>2, <2>3
  <2> QED BY <1>2, <2>2, <2>3, <2>4 DEF FrameCovers
<1> QED BY <1>4, <1>5

\* What has been covered stays so while a request goes on with its round.
LEMMA CoveringAfter ==
  ASSUME NEW a \in Actor, Covering(a), runs \subseteq runs', queued[a] \subseteq queued'[a],
         processed'[a] = processed[a], current'[a] = current[a],
         pc[a] \notin {"start", "save_root", "queue"},
         Working(a) => Working(a)', Progress(a)'
  PROVE  Covering(a)'
<1>1. Root[a] \in queued'[a]
  BY DEF Covering
<1>2. ASSUME NEW o \in processed[a]
      PROVE  Done(a, o)' \/ (Working(a)' /\ o = current'[a])
  <2>1. CASE Done(a, o)
    BY <2>1 DEF Done
  <2>2. CASE Working(a) /\ o = current[a]
    BY <2>2
  <2> QED BY <2>1, <2>2 DEF Covering
<1> QED BY <1>1, <1>2 DEF Covering

\* It holds trivially before the first round.
LEMMA CoveringStarts ==
  ASSUME NEW a \in Actor, Types, Control(a), Start(a), Clean(a)', Covering(a), a \in Pipeline
  PROVE  Covering(a)'
<1>1. pc'[a] = "save_root" \/ pc'[a] = "error"
  BY DEF Start, Goto, Types
<1>2. pc'[a] = "save_root"
  BY <1>1 DEF Clean
<1>3. processed'[a] = processed[a] /\ queued'[a] = queued[a] /\ runs' = runs /\ pc[a] = "start"
  BY DEF Start, queues, store
<1>4. \A o \in processed[a] : Done(a, o)'
  BY <1>3 DEF Covering, Working, Done, Analyzing, Carving
<1> QED BY <1>2, <1>3, <1>4 DEF Covering, Progress, Analyzing, Carving

LEMMA QueueGraphCovers ==
  ASSUME NEW a \in Actor, Types, Control(a), QueueGraph(a), Covering(a)
  PROVE  Covering(a)'
<1>1. PICK s \in Seq(Obj) : s = <<Root[a]>> \o Entry[Root[a]] /\ Elements(s) = Graph(Root[a])
  BY Constants, GraphListed
<1>2. queued'[a] = queued[a] \cup Graph(Root[a])
  <2>1. Queue(a, s)
    BY <1>1 DEF QueueGraph
  <2>2. queued'[a] = queued[a] \cup Elements(s)
    BY <2>1, Queued
  <2> QED BY <1>1, <2>2
<1>3. processed'[a] = processed[a] /\ runs' = runs /\ pc[a] = "queue" /\ pc'[a] = "loop"
  BY DEF QueueGraph, Queue, store, Goto, Types
<1>4. \A o \in processed[a] : Done(a, o)'
  BY <1>2, <1>3 DEF Covering, Working, Done, Analyzing, Carving
<1> QED BY <1>2, <1>3, <1>4 DEF Covering, Progress, Analyzing, Carving, Graph

LEMMA PopCovers ==
  ASSUME NEW a \in Actor, Types, Control(a), Pop(a), Clean(a)', Covering(a)
  PROVE  Covering(a)'
<1> DEFINE o == Head(pending[a])
<1>1. pc[a] = "loop" /\ pending[a] # <<>> /\ stack[a] = <<>>
  BY DEF Pop, Control, Analyzing
<1>2. o \in Obj
  BY <1>1, HeadAndTail DEF Types
<1>3. queued'[a] = queued[a] /\ runs' = runs /\ processed'[a] = processed[a] \cup {o}
  BY DEF Pop, store, Types
<1>4. Root[a] \in queued'[a] /\ \A q \in processed[a] : Done(a, q)'
  BY <1>1, <1>3 DEF Covering, Working, Done, Analyzing, Carving
<1>5. CASE current' = [current EXCEPT ![a] = o] /\ Call(a, o, 0) /\ Goto(a, "analyze")
  <2> HIDE DEF o
  <2>1. pc'[a] = "analyze" /\ current'[a] = o
    BY <1>5 DEF Goto, Types
  <2>2. PICK f \in FrameType : f = Frame(o, 0)
    BY <1>2, FrameTyped
  <2>3. stack'[a] = <<f>>
    BY <1>1, <1>2, <1>5, <2>2, Calls
  <2>4. Outermost(stack'[a]) = f
    BY <2>3 DEF Outermost
  <2>5. FrameCovers(f, o)
    BY <2>2, Constants DEF FrameCovers, Frame
  <2>6. Progress(a)'
    BY <2>1, <2>4, <2>5 DEF Progress, Carving
  <2> QED BY <1>3, <1>4, <2>1, <2>6 DEF Covering, Working, Analyzing
<1>6. CASE o \in processed[a] /\ pc' = pc
  BY <1>1, <1>3, <1>4, <1>6 DEF Covering, Progress, Analyzing, Carving
<1>7. CASE FailStep(a)
  BY <1>7 DEF FailStep, Clean, Types
<1> QED BY <1>5, <1>6, <1>7 DEF Pop

LEMMA FinishCovers ==
  ASSUME NEW a \in Actor, Types, Control(a), Finish(a), Covering(a)
  PROVE  Covering(a)'
<1>1. /\ pc[a] = "loop" /\ pc'[a] \in {"done", "error"} /\ processed'[a] = processed[a]
      /\ queued'[a] = queued[a] /\ runs' = runs /\ current'[a] = current[a]
  BY DEF Finish, Goto, Types, queues, store
<1>2. Progress(a)'
  BY <1>1 DEF Progress, Analyzing, Carving
<1>3. ~Working(a)
  BY <1>1 DEF Working, Analyzing, Carving
<1> QED BY <1>1, <1>2, <1>3, CoveringAfter

LEMMA SaveStatementCovers ==
  ASSUME NEW a \in Actor, Types, Control(a), SaveStatement(a), Covering(a)
  PROVE  Covering(a)'
<1>1. /\ processed'[a] = processed[a] /\ queued'[a] = queued[a] /\ runs' = runs
      /\ current'[a] = current[a] /\ stack'[a] = stack[a] /\ todo'[a] = todo[a]
      /\ listed'[a] = listed[a]
  BY DEF SaveStatement, queues
<1>2. \/ pc'[a] = pc[a] /\ pc[a] \in Saving
      \/ pc[a] = "save_root" /\ pc'[a] = "queue"
      \/ pc[a] = "save_child" /\ pc'[a] = "descend"
      \/ pc[a] = "save_carved" /\ pc'[a] = "carved"
  <2>1. pc[a] \in Saving /\ (pc' = pc \/ pc' = [pc EXCEPT ![a] = AfterSave(pc[a])])
    BY DEF SaveStatement, Goto
  <2> QED BY <2>1 DEF Types, AfterSave, Saving
<1>3. Progress(a)'
  <2>1. CASE pc[a] = "save_root"
    BY <1>2, <2>1 DEF Progress, Analyzing, Carving
  <2>2. CASE pc[a] = "save_child"
    BY <1>1, <1>2, <2>2 DEF Covering, Progress, Analyzing, Carving
  <2>3. CASE pc[a] = "save_carved"
    BY <1>1, <1>2, <2>3 DEF Covering, Progress, Analyzing, Carving
  <2> QED BY <1>2, <2>1, <2>2, <2>3 DEF Saving
<1>4. CASE pc[a] = "save_root"
  <2>1. \A o \in processed[a] : Done(a, o)'
    BY <1>1, <1>4 DEF Covering, Working, Done, Analyzing, Carving
  <2> QED BY <1>1, <1>2, <1>3, <1>4, <2>1 DEF Covering, Saving
<1>5. CASE pc[a] # "save_root"
  <2>1. Working(a)' /\ pc[a] \notin {"start", "save_root", "queue"}
    BY <1>2, <1>5 DEF Working, Analyzing, Carving, Saving
  <2> QED BY <1>1, <1>3, <2>1, CoveringAfter
<1> QED BY <1>4, <1>5

\* Steps of the analysis of the object of this round.
LEMMA AnalyzingCovers ==
  ASSUME NEW a \in Actor, Types, Covering(a), pc[a] \in Analyzing, pc'[a] \in Analyzing,
         UNCHANGED <<runs, queues, current>>,
         FrameCovers(Outermost(stack[a]), current[a])
           => FrameCovers(Outermost(stack'[a]), current[a])
  PROVE  Covering(a)'
<1>1. FrameCovers(Outermost(stack'[a]), current[a])
  BY DEF Covering, Progress
<1>2. /\ processed'[a] = processed[a] /\ queued'[a] = queued[a] /\ current'[a] = current[a]
      /\ runs' = runs
  BY DEF queues
<1>3. Progress(a)'
  BY <1>1, <1>2 DEF Progress, Analyzing, Carving
<1>4. Working(a)' /\ pc[a] \notin {"start", "save_root", "queue"}
  BY DEF Working, Analyzing
<1> QED BY <1>2, <1>3, <1>4, CoveringAfter

LEMMA FoundChildCovers ==
  ASSUME NEW a \in Actor, Types, Control(a), FoundChild(a), Covering(a)
  PROVE  Covering(a)'
<1>1. /\ pc[a] = "analyze" /\ pc'[a] = "save_child" /\ stack' = stack
      /\ UNCHANGED <<runs, queues, current>>
  BY DEF FoundChild, Goto, Types, store
<1> QED BY <1>1, AnalyzingCovers DEF Analyzing

LEMMA DescendCovers ==
  ASSUME NEW a \in Actor, Types, Control(a), Descend(a), Covering(a)
  PROVE  Covering(a)'
<1>1. PICK f : f = Top(a)
  OBVIOUS
<1>2. /\ pc[a] = "descend" /\ stack[a] # <<>> /\ ~Closing(f) /\ pc'[a] = "analyze"
      /\ UNCHANGED <<runs, queues, current>>
  BY <1>1 DEF Descend, Control, Analyzing, Goto, Types, store
<1>3. /\ f \in FrameType /\ Shallow(f) /\ stack[a] \in StackType /\ f.depth \in Nat
      /\ f.dig \in Seq(Obj) /\ f.member \in Seq(Obj) /\ f = Head(stack[a])
  BY <1>1, <1>2, TopTyped DEF Top
<1>4. Child(f) \in Obj
  BY <1>2, <1>3, HeadAndTail DEF Child, Digging, Closing
<1>5. PICK g \in FrameType : g = Frame(Child(f), f.depth + 1)
  BY <1>3, <1>4, FrameTyped
<1>6. PICK h \in FrameType : h = Listing(f)
  BY <1>2, <1>3, ListingTyped
<1>7. stack'[a] = <<g, h>> \o Tail(stack[a])
  BY <1>1, <1>5, <1>6 DEF Descend, Types, Child
<1>8. Outermost(stack'[a]) = IF Len(stack[a]) = 1 THEN h ELSE Outermost(stack[a])
  <2>1. PICK s \in StackType : s = stack[a] /\ s # <<>>
    BY <1>2, <1>3
  <2>2. Outermost(<<g, h>> \o Tail(s)) = IF Len(s) = 1 THEN h ELSE Outermost(s)
    BY <2>1, OutermostKept
  <2> QED BY <1>7, <2>1, <2>2
<1>9. Len(stack[a]) = 1 => Outermost(stack[a]) = f
  BY <1>2, <1>3, OutermostKept
<1>10. FrameCovers(f, current[a]) => FrameCovers(h, current[a])
  BY <1>2, <1>3, <1>6, ListingCovers
<1> QED BY <1>2, <1>8, <1>9, <1>10, AnalyzingCovers DEF Analyzing

\* Steps that change the frame of the call under way.
LEMMA UpdateCovers ==
  ASSUME NEW a \in Actor, Types, Control(a), Covering(a), pc[a] = "analyze",
         NEW f \in FrameType, Update(a, f),
         FrameCovers(Top(a), current[a]) => FrameCovers(f, current[a]),
         UNCHANGED <<pc, runs, queues, current>>
  PROVE  Covering(a)'
<1>1. stack[a] # <<>> /\ stack[a] \in StackType /\ Top(a) = Head(stack[a])
  BY DEF Control, Analyzing, Types, Top
<1>2. stack'[a] = <<f>> \o Tail(stack[a])
  BY DEF Update, Types
<1>3. Outermost(stack'[a]) = IF Len(stack[a]) = 1 THEN f ELSE Outermost(stack[a])
  BY <1>1, <1>2, OutermostKept
<1>4. Len(stack[a]) = 1 => Outermost(stack[a]) = Top(a)
  BY <1>1, OutermostKept
<1> QED BY <1>3, <1>4, AnalyzingCovers DEF Analyzing

LEMMA ReuseMemberCovers ==
  ASSUME NEW a \in Actor, Types, Control(a), ReuseMember(a), Covering(a)
  PROVE  Covering(a)'
<1>1. PICK f : f = Top(a)
  OBVIOUS
<1>2. /\ pc[a] = "analyze" /\ stack[a] # <<>> /\ ~Closing(f)
      /\ Update(a, Listing(f)) /\ UNCHANGED <<pc, runs, queues, current>>
  BY <1>1 DEF ReuseMember, Control, Analyzing, Expanding, Closing, store
<1>3. f \in FrameType /\ Shallow(f)
  BY <1>1, <1>2, TopTyped
<1>4. PICK g \in FrameType : g = Listing(f)
  BY <1>2, <1>3, ListingTyped
<1>5. FrameCovers(f, current[a]) => FrameCovers(g, current[a])
  BY <1>2, <1>3, <1>4, ListingCovers
<1> QED BY <1>1, <1>2, <1>4, <1>5, UpdateCovers

LEMMA RecordEvidenceCovers ==
  ASSUME NEW a \in Actor, Types, Control(a), RecordEvidence(a), Covering(a)
  PROVE  Covering(a)'
<1>1. PICK f : f = [Top(a) EXCEPT !.recorded = TRUE]
  OBVIOUS
<1>2. /\ pc[a] = "analyze" /\ stack[a] # <<>>
      /\ Update(a, f) /\ UNCHANGED <<pc, runs, queues, current>>
  BY <1>1 DEF RecordEvidence, Control, Analyzing
<1>3. Top(a) \in FrameType
  BY <1>2, TopTyped
<1>4. /\ f \in FrameType /\ f.dug = Top(a).dug /\ f.expanded = Top(a).expanded
      /\ f.dig = Top(a).dig /\ f.member = Top(a).member
  BY <1>1, <1>3 DEF FrameType
<1>5. FrameCovers(Top(a), current[a]) => FrameCovers(f, current[a])
  BY <1>4 DEF FrameCovers
<1> QED BY <1>2, <1>4, <1>5, UpdateCovers

LEMMA RecordRowCovers ==
  ASSUME NEW a \in Actor, Types, Control(a), RecordRow(a), Covering(a)
  PROVE  Covering(a)'
<1>1. PICK f : f = Top(a)
  OBVIOUS
<1>2. /\ pc[a] = "analyze" /\ stack[a] # <<>> /\ stack[a] \in StackType
      /\ Closing(f) /\ f = Head(stack[a])
      /\ UNCHANGED <<runs, queues, current>>
  BY <1>1 DEF RecordRow, Control, Analyzing, Types, Top
<1>3. f \in FrameType /\ f.dug \in Seq(Obj) /\ f.expanded \in Seq(Obj) /\ Len(stack[a]) \in Nat
        /\ Len(stack[a]) >= 1
  BY <1>1, <1>2, TopTyped
<1>4. stack'[a] = Tail(stack[a])
  BY DEF RecordRow, Types
<1>5. CASE Len(stack[a]) > 1
  <2>1. Outermost(stack'[a]) = Outermost(stack[a])
    BY <1>2, <1>3, <1>4, <1>5, OutermostKept
  <2>2. pc' = pc
    BY <1>5 DEF RecordRow
  <2> QED BY <1>2, <2>1, <2>2, AnalyzingCovers DEF Analyzing
<1>6. CASE ~ (Len(stack[a]) > 1)
  <2>1. PICK n : n = f.dug \o Pick(f.expanded, {i \in DOMAIN f.expanded :
                                                  f.expanded[i] \notin Elements(f.dug)})
    OBVIOUS
  <2>2. Elements(n) = Elements(f.dug) \cup Elements(f.expanded)
    BY <1>3, <2>1, Children
  <2>3. listed'[a] = n /\ pc'[a] = "promote"
    <3>1. listed' = [listed EXCEPT ![a] = n] /\ Goto(a, "promote")
      BY <1>1, <1>6, <2>1 DEF RecordRow
    <3> QED BY <3>1 DEF Goto, Types
  <2>4. Outermost(stack[a]) = f
    <3>1. Len(stack[a]) = 1
      <4>1. PICK l \in Nat : l = Len(stack[a]) /\ l >= 1
        BY <1>3
      <4>2. ~ (l > 1)
        BY <1>6, <4>1
      <4>3. \A k \in Nat : k >= 1 /\ ~ (k > 1) => k = 1
        OBVIOUS
      <4> QED BY <4>1, <4>2, <4>3, Zenon
    <3> QED BY <1>2, <1>3, <3>1, OutermostKept
  <2>5. FrameCovers(f, current[a])
    BY <1>2, <2>4 DEF Covering, Progress, Analyzing
  <2>6. Inside(current[a]) \subseteq Elements(n)
    BY <1>2, <2>2, <2>5, EmptyElements DEF FrameCovers, Inside, Closing
  <2>7. /\ processed'[a] = processed[a] /\ queued'[a] = queued[a] /\ current'[a] = current[a]
        /\ runs' = runs
    BY <1>2 DEF queues
  <2>8. Progress(a)'
    BY <2>3, <2>6, <2>7 DEF Progress, Analyzing, Carving, Inside
  <2>9. Working(a)' /\ pc[a] \notin {"start", "save_root", "queue"}
    BY <1>2, <2>3 DEF Working
  <2> QED BY <2>7, <2>8, <2>9, CoveringAfter
<1> QED BY <1>5, <1>6

\* An analysis that ends with an error fails or warns.
LEMMA ErrorsShow ==
  ASSUME NEW a \in Actor, Types, Control(a), SaveFails(a) \/ AnalysisFails(a) \/ SkipMember(a)
  PROVE  ~Clean(a)'
<1>1. ReturnError(a) \/ LeaveExpander(a) => ~Clean(a)'
  BY DEF ReturnError, LeaveExpander, Clean, Types
<1>2. CASE SkipMember(a)
  BY <1>2 DEF SkipMember, Clean, Types
<1>3. CASE AnalysisFails(a)
  BY <1>1, <1>3 DEF AnalysisFails
<1>4. CASE SaveFails(a)
  <2>1. CASE pc[a] = "save_root"
    <3>1. Goto(a, "error")
      BY <1>4, <2>1 DEF SaveFails
    <3> QED BY <3>1 DEF Goto, Clean, Types
  <2>2. CASE pc[a] = "save_carved"
    <3>1. FailStep(a)
      BY <1>4, <2>2 DEF SaveFails
    <3> QED BY <3>1 DEF FailStep, Clean, Types
  <2>3. CASE pc[a] = "save_child"
    BY <1>1, <1>4, <2>3 DEF SaveFails
  <2> QED BY <1>4, <2>1, <2>2, <2>3 DEF SaveFails, Saving
<1> QED BY <1>2, <1>3, <1>4

LEMMA PromoteCovers ==
  ASSUME NEW a \in Actor, Types, Control(a), Promote(a), runs \subseteq runs', Covering(a)
  PROVE  Covering(a)'
<1>1. /\ pc[a] = "promote" /\ pc'[a] = pc[a] /\ listed'[a] = listed[a]
      /\ processed'[a] = processed[a] /\ queued'[a] = queued[a] /\ current'[a] = current[a]
  BY DEF Promote, queues
<1>2. Progress(a)'
  BY <1>1 DEF Covering, Progress, Analyzing, Carving, Inside
<1>3. Working(a)'
  BY <1>1 DEF Working
<1> QED BY <1>1, <1>2, <1>3, CoveringAfter

LEMMA EndPromotionCovers ==
  ASSUME NEW a \in Actor, Types, Control(a), EndPromotion(a), a \in Pipeline, Clean(a)',
         Covering(a)
  PROVE  Covering(a)'
<1>1. pc[a] = "promote" /\ runs' = runs /\ current'[a] = current[a]
  BY DEF EndPromotion, store
<1>2. ~Goto(a, "error")
  BY DEF Goto, Clean, Types
<1>3. Goto(a, "scan") /\ Queue(a, listed[a])
  BY <1>2 DEF EndPromotion, AfterAnalysis
<1>4. /\ pc'[a] = "scan" /\ processed'[a] = processed[a]
      /\ queued'[a] = queued[a] \cup Elements(listed[a])
  BY <1>3 DEF Goto, Queue, Types
<1>5. Inside(current[a]) \subseteq queued'[a]
  BY <1>1, <1>4 DEF Covering, Progress
<1>6. Progress(a)'
  BY <1>1, <1>4, <1>5 DEF Progress, Analyzing, Carving, Inside
<1>7. Working(a)'
  BY <1>4 DEF Working, Carving
<1> QED BY <1>1, <1>4, <1>6, <1>7, CoveringAfter

\* Steps of carving the object of this round.
LEMMA CarvingCovers ==
  ASSUME NEW a \in Actor, Covering(a), pc[a] \in Carving,
         pc'[a] \in {"carve", "save_carved", "carved"},
         UNCHANGED <<runs, queues, current>>,
         \A c \in Elements(Carve[current[a]]) :
           c \in Elements(todo'[a]) \/ Graph(c) \subseteq Elements(listed'[a])
  PROVE  Covering(a)'
<1>1. /\ processed'[a] = processed[a] /\ queued'[a] = queued[a] /\ current'[a] = current[a]
      /\ runs' = runs
  BY DEF queues
<1>2. Inside(current[a]) \subseteq queued[a]
  BY DEF Covering, Progress
<1>3. Progress(a)'
  BY <1>1, <1>2 DEF Progress, Analyzing, Carving, Inside, Graph
<1>4. Working(a)' /\ pc[a] \notin {"start", "save_root", "queue"}
  BY DEF Working, Carving
<1> QED BY <1>1, <1>3, <1>4, CoveringAfter

LEMMA FailedShows ==
  ASSUME NEW a \in Actor, Types, FailStep(a)
  PROVE  ~Clean(a)'
  BY DEF FailStep, Clean, Types

LEMMA ScanCovers ==
  ASSUME NEW a \in Actor, Types, Control(a), Scan(a), Clean(a)', Covering(a)
  PROVE  Covering(a)'
<1>1. pc[a] = "scan" /\ UNCHANGED <<runs, queues, current>>
  BY DEF Scan, store
<1>2. Goto(a, "carve") /\ todo' = [todo EXCEPT ![a] = Carve[current[a]]]
  BY FailedShows DEF Scan
<1>3. pc'[a] = "carve" /\ todo'[a] = Carve[current[a]]
  BY <1>2 DEF Goto, Types
<1> QED BY <1>1, <1>3, CarvingCovers DEF Carving

LEMMA IdentifyCovers ==
  ASSUME NEW a \in Actor, Types, Control(a), Identify(a), Clean(a)', Covering(a)
  PROVE  Covering(a)'
<1>1. pc[a] = "carve" /\ listed' = listed /\ UNCHANGED <<runs, queues, current>>
  BY DEF Identify, store
<1>2. Goto(a, "save_carved") /\ todo' = todo
  BY FailedShows DEF Identify
<1>3. pc'[a] = "save_carved"
  BY <1>2 DEF Goto, Types
<1>4. \A c \in Elements(Carve[current[a]]) :
        c \in Elements(todo'[a]) \/ Graph(c) \subseteq Elements(listed'[a])
  BY <1>1, <1>2 DEF Covering, Progress
<1> QED BY <1>1, <1>3, <1>4, CarvingCovers DEF Carving

LEMMA DeriveCovers ==
  ASSUME NEW a \in Actor, Types, Control(a), Derive(a), Clean(a)', Covering(a)
  PROVE  Covering(a)'
<1>1. PICK c : c = Head(todo[a])
  OBVIOUS
<1>2. pc[a] = "carved" /\ todo[a] # <<>> /\ UNCHANGED <<runs, queues, current>>
  BY DEF Derive, Control, store
<1>3. c \in Obj /\ Elements(todo[a]) = {c} \cup Elements(Tail(todo[a]))
  BY <1>1, <1>2, HeadAndTail DEF Types
<1>4. /\ listed' = [listed EXCEPT ![a] = @ \o <<c>> \o Entry[c]]
      /\ todo' = [todo EXCEPT ![a] = Tail(@)] /\ Goto(a, "carve")
  BY <1>1, FailedShows DEF Derive
<1>5. /\ listed'[a] = listed[a] \o <<c>> \o Entry[c] /\ todo'[a] = Tail(todo[a])
      /\ pc'[a] = "carve"
  BY <1>4 DEF Goto, Types
<1>6. Elements(listed'[a]) = Elements(listed[a]) \cup Graph(c)
  <2>1. PICK l \in Seq(Obj) : l = listed[a]
    BY DEF Types
  <2>2. PICK g \in Seq(Obj) : g = <<c>> \o Entry[c] /\ Elements(g) = Graph(c)
    BY <1>3, GraphListed
  <2>3. Elements(l \o g) = Elements(l) \cup Elements(g)
    BY Joined
  <2>4. l \o <<c>> \o Entry[c] = l \o g
    <3>1. PICK e \in Seq(Obj) : e = Entry[c]
      BY <1>3, Constants
    <3>2. l \o <<c>> \o e = l \o (<<c>> \o e)
      BY <1>3
    <3> QED BY <2>2, <3>1, <3>2
  <2> QED BY <1>5, <2>1, <2>2, <2>3, <2>4
<1>7. \A x \in Elements(Carve[current[a]]) :
        x \in Elements(todo'[a]) \/ Graph(x) \subseteq Elements(listed'[a])
  <2>1. \A x \in Elements(Carve[current[a]]) :
          x \in Elements(todo[a]) \/ Graph(x) \subseteq Elements(listed[a])
    BY <1>2 DEF Covering, Progress
  <2> QED BY <1>3, <1>5, <1>6, <2>1
<1> QED BY <1>2, <1>5, <1>7, CarvingCovers DEF Carving

LEMMA EndCarveCovers ==
  ASSUME NEW a \in Actor, Types, Control(a), EndCarve(a), Clean(a)', Covering(a)
  PROVE  Covering(a)'
<1>1. /\ pc[a] = "carve" /\ todo[a] = <<>> /\ runs' = runs /\ current'[a] = current[a]
      /\ Goto(a, "binary")
  BY DEF EndCarve, store
<1>2. Queue(a, listed[a])
  BY FailedShows DEF EndCarve
<1>3. /\ pc'[a] = "binary" /\ processed'[a] = processed[a]
      /\ queued'[a] = queued[a] \cup Elements(listed[a])
  BY <1>1, <1>2 DEF Goto, Queue, Types
<1>4. /\ Inside(current[a]) \subseteq queued[a]
      /\ \A c \in Elements(Carve[current[a]]) : Graph(c) \subseteq Elements(listed[a])
  BY <1>1, EmptyElements DEF Covering, Progress, Carving
<1>5. Found(current[a]) \subseteq queued'[a]
  BY <1>3, <1>4 DEF Found, Graph, Inside
<1>6. Progress(a)'
  BY <1>1, <1>3, <1>4, <1>5 DEF Progress, Analyzing, Inside, Found
<1>7. Working(a)'
  BY <1>3 DEF Working, Carving
<1> QED BY <1>1, <1>3, <1>6, <1>7, CoveringAfter

LEMMA AnalyzeBinaryCovers ==
  ASSUME NEW a \in Actor, Types, Control(a), RunInv, AnalyzeBinary(a), Clean(a)',
         runs \subseteq runs', Covering(a)
  PROVE  Covering(a)'
<1>1. PICK c : c = current[a]
  OBVIOUS
<1>2. /\ pc[a] = "binary" /\ pc'[a] = "loop" /\ processed'[a] = processed[a]
      /\ queued'[a] = queued[a]
  BY DEF AnalyzeBinary, Goto, Types, queues
<1>3. ASSUME c \in Native PROVE BinaryId[c] \in runs'
  <2>1. CASE AlreadyAnalyzed(a, c)
    BY <1>3, <2>1, Known
  <2>2. CASE ~AlreadyAnalyzed(a, c)
    <3>1. Analyzed(a, c)
      BY <1>1, <1>3, <2>2, FailedShows DEF AnalyzeBinary
    <3> QED BY <3>1 DEF Analyzed, BinaryRun
  <2> QED BY <2>1, <2>2
<1>4. Found(c) \subseteq queued[a]
  BY <1>1, <1>2 DEF Covering, Progress
<1>5. \A o \in processed[a] : Done(a, o)'
  BY <1>1, <1>2, <1>3, <1>4 DEF Covering, Done
<1>6. Root[a] \in queued[a]
  BY <1>2 DEF Covering
<1> QED BY <1>2, <1>5, <1>6 DEF Covering, Progress, Analyzing, Carving

LEMMA CleanBefore ==
  ASSUME NEW a \in Actor, Types, Control(a), Step(a), Clean(a)'
  PROVE  Clean(a)
<1>1. pc[a] # "error"
  BY DEF Step, Start, QueueGraph, Pop, Finish, SaveStatement, SaveFails, FoundChild,
         Descend, ReuseMember, SkipMember, RecordEvidence, RecordRow, AnalysisFails,
         Promote, EndPromotion, Scan, Identify, Derive, EndCarve, AnalyzeBinary, Saving
<1>2. CASE SaveFails(a) \/ AnalysisFails(a) \/ SkipMember(a)
  BY <1>2, ErrorsShow
<1>3. CASE ~ (SaveFails(a) \/ AnalysisFails(a) \/ SkipMember(a))
  <2>1. failed' = failed \/ FailStep(a)
    BY <1>3 DEF Step, Start, QueueGraph, Pop, Finish, SaveStatement, FoundChild, Descend,
         ReuseMember, RecordEvidence, RecordRow, Promote, EndPromotion, Scan, Identify,
         Derive, EndCarve, AnalyzeBinary
  <2>2. warned' = warned \/ warned' = [warned EXCEPT ![a] = TRUE]
    BY <1>3 DEF Step, Start, QueueGraph, Pop, Finish, SaveStatement, FoundChild, Descend,
         ReuseMember, RecordEvidence, RecordRow, Promote, EndPromotion, Scan, Identify,
         Derive, EndCarve, AnalyzeBinary
  <2>3. failed' = failed
    BY <2>1, FailedShows
  <2>4. ~warned[a]
    BY <2>2 DEF Clean, Types
  <2> QED BY <1>1, <2>3, <2>4 DEF Clean
<1> QED BY <1>2, <1>3

LEMMA StepCovers ==
  ASSUME NEW a \in Pipeline, Types, Control(a), RunInv, Step(a), Clean(a)', Covering(a)
  PROVE  Covering(a)'
<1>1. a \in Actor
  BY PipelineAssumption DEF PipelineAssumption
<1>2. runs \subseteq runs'
  BY <1>1, StepRunInv
<1>3. ~ (SaveFails(a) \/ AnalysisFails(a) \/ SkipMember(a))
  BY <1>1, ErrorsShow
<1> QED BY <1>1, <1>2, <1>3, CoveringStarts, QueueGraphCovers, PopCovers, FinishCovers,
           SaveStatementCovers, FoundChildCovers, DescendCovers, ReuseMemberCovers,
           RecordEvidenceCovers, RecordRowCovers, PromoteCovers, EndPromotionCovers,
           ScanCovers, IdentifyCovers, DeriveCovers, EndCarveCovers, AnalyzeBinaryCovers
        DEF Step

LEMMA UntouchedCovering ==
  ASSUME NEW b \in Actor, Covering(b), Mine(b)' = Mine(b), runs \subseteq runs'
  PROVE  Covering(b)'
<1>1. /\ pc'[b] = pc[b] /\ stack'[b] = stack[b] /\ listed'[b] = listed[b]
      /\ processed'[b] = processed[b] /\ queued'[b] = queued[b]
      /\ current'[b] = current[b] /\ todo'[b] = todo[b]
  BY DEF Mine
<1>2. Progress(b)' /\ (Working(b)' <=> Working(b))
  BY <1>1 DEF Covering, Progress, Working, Inside, Graph
<1>3. \A o : Done(b, o) => Done(b, o)'
  BY <1>1 DEF Done
<1> QED BY <1>1, <1>2, <1>3 DEF Covering

LEMMA NextCovers ==
  ASSUME TypeInv, RunInv, CoverInv, [Next]_vars
  PROVE  RunInv' /\ CoverInv'
<1>0. Pipeline \subseteq Actor
  BY PipelineAssumption DEF PipelineAssumption
<1>1. CASE UNCHANGED vars
  <2>1. RunInv' /\ runs \subseteq runs' /\ \A b \in Actor : Mine(b)' = Mine(b)
    BY <1>1 DEF RunInv, vars, store, queues, Mine
  <2>2. \A b \in Pipeline : Clean(b)' => Clean(b)
    BY <1>1 DEF Clean, vars
  <2> QED BY <1>0, <2>1, <2>2, UntouchedCovering DEF CoverInv
<1>2. CASE Next
  <2>1. PICK a \in Actor : Step(a)
    BY <1>2 DEF Next
  <2>2. Types /\ Control(a)
    BY DEF TypeInv
  <2>3. RunInv' /\ runs \subseteq runs'
    BY <2>1, <2>2, StepRunInv
  <2>4. ASSUME NEW b \in Pipeline, Clean(b)'
        PROVE  Covering(b)'
    <3>1. CASE b = a
      BY <2>1, <2>2, <2>4, <3>1, CleanBefore, StepCovers DEF CoverInv
    <3>2. CASE b # a
      <4>1. Mine(b)' = Mine(b)
        BY <1>0, <2>1, <2>2, <3>2, OnlyMine
      <4>2. Clean(b)
        BY <2>4, <4>1 DEF Clean, Mine
      <4> QED BY <1>0, <2>3, <4>1, <4>2, UntouchedCovering DEF CoverInv
    <3> QED BY <3>1, <3>2
  <2> QED BY <2>3, <2>4 DEF CoverInv
<1> QED BY <1>1, <1>2

\* A pipeline that is done without a failed step, a warning or anything pending
\* has processed its root and all that is found in what it processed, and every
\* native binary among that has a completed run.
THEOREM PipelinesCover == Spec => []Covers
<1> DEFINE Inv == TypeInv /\ RunInv /\ CoverInv
<1>1. Init => Inv
  <2>1. ASSUME Init, NEW a \in Pipeline PROVE Covering(a)
    <3>1. pc[a] = "start" /\ processed[a] = {}
      BY <2>1, PipelineAssumption DEF Init, PipelineAssumption
    <3> QED BY <3>1 DEF Covering, Progress, Analyzing, Carving
  <2>2. Init => RunInv
    BY DEF Init, RunInv
  <2> QED BY <2>1, <2>2, InitTyped DEF CoverInv
<1>2. Inv /\ [Next]_vars => Inv'
  BY NextTyped, NextCovers
<1>3. Inv => Covers
  <2> SUFFICES ASSUME TypeInv, CoverInv, NEW a \in Pipeline,
                      pc[a] = "done", ~failed[a], ~warned[a], pending[a] = <<>>
               PROVE  /\ Root[a] \in processed[a]
                      /\ \A o \in processed[a] : Found(o) \subseteq processed[a]
                      /\ \A o \in processed[a] \cap Native : BinaryId[o] \in runs
    BY DEF Covers
  <2>1. Covering(a) /\ Control(a)
    BY PipelineAssumption DEF CoverInv, Clean, TypeInv, PipelineAssumption
  <2>2. queued[a] = processed[a]
    BY <2>1, EmptyElements DEF Control
  <2>3. Root[a] \in queued[a] /\ \A o \in processed[a] : Done(a, o)
    BY <2>1 DEF Covering, Working, Analyzing, Carving
  <2> QED BY <2>2, <2>3 DEF Done
<1> QED BY <1>1, <1>2, <1>3, PTL DEF Spec

=============================================================================

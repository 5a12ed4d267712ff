------------------------- MODULE AnalysisPoolProofs -------------------------
(***************************************************************************)
(* Theorems about AnalysisPool, for every number of functions and every    *)
(* number of jobs: no result is ever missing, the functions are delivered  *)
(* in the order in which they were recovered whatever the threads do, and  *)
(* the pool implements FunctionStream.                                     *)
(***************************************************************************)
EXTENDS AnalysisPool, TLAPS

Size == drained - base

\* Where the calling thread is in the delivery of the functions.
Cursor ==
  /\ base <= Len(delivered)
  /\ Len(delivered) <= drained
  /\ phase \in {"stream", "done"} => Len(delivered) = drained
  /\ phase \in {"serial", "scope"} => Len(delivered) = base
  /\ phase = "done" => drained = N

\* A slot holds nothing or the result of its own item.
OwnSlot == \A i \in 1..Size : results[i] \in {None, base + i}

\* An item of the batch is in its slot, in the queue, or with a thread; and
\* the queue outlives some thread that has not left.
Accounted ==
  phase = "scope" =>
    /\ \A i \in 1..Size :
         \/ results[i] # None
         \/ i <= queue
         \/ \E w \in Threads : pc[w] \in {"run", "panicked"} /\ item[w] = i
    /\ queue > 0 => \E w \in Threads : pc[w] # "exit"

Holding == \A w \in Threads : pc[w] = "run" => item[w] \in 1..Size

Filled == phase = "deliver" => \A i \in 1..Size : results[i] = base + i

IInv ==
  /\ TypeOK
  /\ Cursor
  /\ OwnSlot
  /\ Accounted
  /\ Holding
  /\ Filled
  /\ InOrder
  /\ NoMissingResult

LEMMA TakeBounds ==
  ASSUME NEW d \in Nat, d < N
  PROVE  /\ Lesser(BatchSize, N - d) \in 1..(N - d)
         /\ WorkerCount(Lesser(BatchSize, N - d)) \in 1..4
  BY PoolAssumption DEF Lesser, BatchSize, WorkerCount

LEMMA InitInv == Init => IInv
  BY PoolAssumption DEF Init, IInv, TypeOK, Cursor, OwnSlot, Accounted,
     Holding, Filled, InOrder, NoMissingResult, Size, Threads, None, Final

LEMMA CallerInv == IInv /\ Caller => IInv'
<1> SUFFICES ASSUME IInv, Caller PROVE IInv'
  OBVIOUS
<1> USE PoolAssumption DEF IInv, TypeOK, Size, Final, None
<1>1. CASE TakeBatch
  <2>1. /\ Take \in 1..(N - drained)
        /\ WorkerCount(Take) \in 1..4
    BY <1>1, TakeBounds DEF TakeBatch, Take
  <2>2. Len(delivered) = drained
    BY <1>1 DEF TakeBatch, Cursor
  <2>3. TypeOK'
    BY <1>1, <2>1 DEF TakeBatch, Threads
  <2>4. (Cursor /\ OwnSlot /\ Holding /\ Filled /\ NoMissingResult)'
    BY <1>1, <2>1, <2>2
    DEF TakeBatch, Cursor, OwnSlot, Holding, Filled, NoMissingResult
  <2>5. Accounted'
    <3> SUFFICES ASSUME phase' = "scope" PROVE Accounted'
      BY DEF Accounted
    <3>1. 1 \in Threads /\ pc'[1] = "pop"
      BY <1>1, <2>1 DEF TakeBatch, Threads
    <3>2. \A i \in 1..Size' : i <= queue'
      BY <1>1, <2>1 DEF TakeBatch
    <3> QED BY <3>1, <3>2 DEF Accounted
  <2>6. InOrder'
    BY <1>1, <2>1 DEF TakeBatch, InOrder
  <2> QED BY <2>3, <2>4, <2>5, <2>6
<1>2. CASE SerialMap
  <2>1. TypeOK'
    BY <1>2 DEF SerialMap
  <2> QED BY <1>2, <2>1 DEF SerialMap, Cursor, OwnSlot, Accounted, Holding,
             Filled, InOrder, NoMissingResult
<1>3. CASE SerialPanic
  BY <1>3 DEF SerialPanic, Cursor, OwnSlot, Accounted, Holding, Filled,
     InOrder, NoMissingResult
<1>4. CASE Join
  <2>1. CASE \E w \in Threads : pc[w] = "panicked"
    BY <1>4, <2>1 DEF Join, Cursor, OwnSlot, Accounted, Holding, Filled,
       InOrder, NoMissingResult
  <2>2. CASE ~ \E w \in Threads : pc[w] = "panicked"
    <3>1. \A w \in Threads : pc[w] = "exit"
      BY <1>4, <2>2 DEF Join
    <3>2. queue = 0
      BY <1>4, <3>1 DEF Join, Accounted
    <3>3. ASSUME NEW i \in 1..Size PROVE results[i] # None
      <4>1. ~ (i <= queue)
        BY <3>2
      <4>2. ~ \E w \in Threads : pc[w] \in {"run", "panicked"} /\ item[w] = i
        BY <3>1
      <4>3. phase = "scope"
        BY <1>4 DEF Join
      <4> QED BY <4>1, <4>2, <4>3 DEF Accounted
    <3>4. phase' = "deliver"
      BY <1>4, <2>2, <3>3 DEF Join
    <3>5. \A i \in 1..Size : results[i] = base + i
      BY <3>3 DEF OwnSlot
    <3> QED BY <1>4, <3>4, <3>5 DEF Join, Cursor, OwnSlot, Accounted, Holding,
               Filled, InOrder, NoMissingResult
  <2> QED BY <2>1, <2>2
<1>5. CASE Deliver
  <2> DEFINE k == Len(delivered) + 1
  <2>1. k - base \in 1..Size /\ k \in 1..N
    BY <1>5 DEF Deliver, Cursor
  <2>2. results[k - base] = k
    BY <1>5, <2>1 DEF Deliver, Filled
  <2>3. delivered' = Append(delivered, k)
    BY <1>5, <2>2 DEF Deliver
  <2>4. TypeOK'
    BY <1>5, <2>1, <2>3 DEF Deliver
  <2>5. InOrder'
    BY <1>5, <2>1, <2>3 DEF Deliver, InOrder
  <2>6. Cursor'
    BY <1>5, <2>1, <2>3 DEF Deliver, Cursor
  <2> QED BY <1>5, <2>4, <2>5, <2>6 DEF Deliver, OwnSlot, Accounted, Holding,
             Filled, NoMissingResult
<1>6. CASE DeliverError
  BY <1>6 DEF DeliverError, Cursor, OwnSlot, Accounted, Holding, Filled,
     InOrder, NoMissingResult
<1>7. CASE EndBatch
  BY <1>7 DEF EndBatch, Cursor, OwnSlot, Accounted, Holding, Filled,
     InOrder, NoMissingResult
<1>8. CASE Finish
  BY <1>8 DEF Finish, Cursor, OwnSlot, Accounted, Holding, Filled,
     InOrder, NoMissingResult
<1> QED BY <1>1, <1>2, <1>3, <1>4, <1>5, <1>6, <1>7, <1>8 DEF Caller

LEMMA WorkerInv == ASSUME NEW w \in Threads PROVE IInv /\ Worker(w) => IInv'
<1> SUFFICES ASSUME IInv, Worker(w) PROVE IInv'
  OBVIOUS
<1> USE PoolAssumption DEF IInv, TypeOK, Size, Final, None
<1>1. CASE Pop(w)
  <2>1. TypeOK'
    BY <1>1 DEF Pop
  <2>2. (Cursor /\ OwnSlot /\ Filled /\ InOrder /\ NoMissingResult)'
    BY <1>1 DEF Pop, Cursor, OwnSlot, Filled, InOrder, NoMissingResult
  <2>3. Holding'
    BY <1>1 DEF Pop, Holding
  <2>4. Accounted'
    <3>1. pc'[w] = "run" /\ item'[w] = queue /\ queue' = queue - 1
      BY <1>1 DEF Pop
    <3>2. \A v \in Threads : v # w => pc'[v] = pc[v] /\ item'[v] = item[v]
      BY <1>1 DEF Pop
    <3>3. ASSUME NEW i \in 1..Size, results[i] = None, ~ (i <= queue - 1)
          PROVE  \E v \in Threads : pc'[v] \in {"run", "panicked"} /\ item'[v] = i
      <4>1. CASE i = queue
        BY <3>1, <4>1
      <4>2. CASE i # queue
        <5>1. PICK v \in Threads : pc[v] \in {"run", "panicked"} /\ item[v] = i
          BY <1>1, <3>3, <4>2 DEF Accounted, Pop
        <5>2. v # w
          BY <1>1, <5>1 DEF Pop
        <5> QED BY <3>2, <5>1, <5>2
      <4> QED BY <4>1, <4>2
    <3> QED BY <1>1, <3>1, <3>3 DEF Accounted, Pop
  <2> QED BY <2>1, <2>2, <2>3, <2>4
<1>2. CASE Leave(w)
  <2>1. TypeOK'
    BY <1>2 DEF Leave
  <2>2. (Cursor /\ OwnSlot /\ Filled /\ InOrder /\ NoMissingResult /\ Holding)'
    BY <1>2 DEF Leave, Cursor, OwnSlot, Filled, InOrder, NoMissingResult, Holding
  <2>3. \A v \in Threads : pc[v] \in {"run", "panicked"} => pc'[v] = pc[v]
    BY <1>2 DEF Leave
  <2>4. Accounted'
    BY <1>2, <2>3 DEF Leave, Accounted
  <2> QED BY <2>1, <2>2, <2>4
<1>3. CASE Panic(w)
  <2>1. TypeOK'
    BY <1>3 DEF Panic
  <2>2. (Cursor /\ OwnSlot /\ Filled /\ InOrder /\ NoMissingResult /\ Holding)'
    BY <1>3 DEF Panic, Cursor, OwnSlot, Filled, InOrder, NoMissingResult, Holding
  <2>3. \A v \in Threads : pc[v] \in {"run", "panicked"} =>
                             pc'[v] \in {"run", "panicked"}
    BY <1>3 DEF Panic
  <2>4. pc'[w] # "exit"
    BY <1>3 DEF Panic
  <2>5. Accounted'
    BY <1>3, <2>3, <2>4 DEF Panic, Accounted
  <2> QED BY <2>1, <2>2, <2>5
<1>4. CASE Store(w)
  <2> DEFINE k == item[w]
  <2>1. k \in 1..Size /\ pc[w] = "run"
    BY <1>4 DEF Store, Holding
  <2>2. results' = [results EXCEPT ![k] = base + k]
    BY <1>4 DEF Store
  <2>3. base + k \in 1..N
    BY <2>1
  <2>4. TypeOK'
    BY <1>4, <2>1, <2>2, <2>3 DEF Store
  <2>5. OwnSlot'
    BY <1>4, <2>1, <2>2 DEF Store, OwnSlot
  <2>6. (Cursor /\ Filled /\ InOrder /\ NoMissingResult)'
    BY <1>4 DEF Store, Cursor, Filled, InOrder, NoMissingResult
  <2>7. Holding'
    BY <1>4 DEF Store, Holding
  <2>8. Accounted'
    <3>1. ASSUME NEW i \in 1..Size, results'[i] = None, ~ (i <= queue)
          PROVE  \E v \in Threads : pc'[v] \in {"run", "panicked"} /\ item'[v] = i
      <4>1. i # k /\ results[i] = None
        BY <2>1, <2>2, <2>3, <3>1
      <4>2. PICK v \in Threads : pc[v] \in {"run", "panicked"} /\ item[v] = i
        BY <1>4, <3>1, <4>1 DEF Accounted, Store
      <4>3. v # w
        BY <4>1, <4>2
      <4> QED BY <1>4, <4>2, <4>3 DEF Store
    <3>2. pc'[w] = "pop"
      BY <1>4 DEF Store
    <3> QED BY <1>4, <3>1, <3>2 DEF Accounted, Store
  <2> QED BY <2>4, <2>5, <2>6, <2>7, <2>8
<1> QED BY <1>1, <1>2, <1>3, <1>4 DEF Worker

LEMMA StutterInv == IInv /\ UNCHANGED vars => IInv'
  BY DEF vars, IInv, TypeOK, Cursor, OwnSlot, Accounted, Holding, Filled,
     InOrder, NoMissingResult, Size

LEMMA StepInv == IInv /\ [Next]_vars => IInv'
  BY CallerInv, WorkerInv, StutterInv DEF Next, Terminated

\* The inductive invariant holds of every reachable state.
THEOREM Invariance == Spec => []IInv
  BY InitInv, StepInv, PTL DEF Spec

\* TypeOK for every N and Jobs.
THEOREM TypeCorrect == Spec => []TypeOK
<1>1. IInv => TypeOK
  BY DEF IInv
<1> QED BY <1>1, Invariance, PTL

\* The expect in map_in_analysis_pool never fires, for every N and Jobs.
THEOREM NeverMissing == Spec => []NoMissingResult
<1>1. IInv => NoMissingResult
  BY DEF IInv
<1> QED BY <1>1, Invariance, PTL

\* Delivery is in recovery order, each function once, for every N and Jobs.
THEOREM DeliveredInOrder == Spec => []InOrder
<1>1. IInv => InOrder
  BY DEF IInv
<1> QED BY <1>1, Invariance, PTL

\* A walk that ends Ok has delivered every function, for every N and Jobs.
THEOREM Complete == Spec => []CompleteOnSuccess
<1>1. IInv => CompleteOnSuccess
  BY DEF IInv, Cursor, CompleteOnSuccess
<1> QED BY <1>1, Invariance, PTL

\* The batched, parallel walk implements the serial stream of functions.
THEOREM Refinement == Spec => ImplementsStream
<1>1. Init => Stream!Init
  BY DEF Init, Stream!Init
<1>2. IInv /\ [Next]_vars => [Stream!Next]_Stream!vars
  <2> SUFFICES ASSUME IInv, [Next]_vars
               PROVE  [Stream!Next]_Stream!vars
    OBVIOUS
  <2> USE DEF Stream!Next, Stream!vars, IInv, TypeOK, Final
  <2>1. CASE UNCHANGED vars
    BY <2>1 DEF vars
  <2>2. ASSUME NEW w \in Threads, Worker(w)
        PROVE  UNCHANGED <<delivered, phase>>
    BY <2>2 DEF Worker, Pop, Leave, Panic, Store
  <2>3. CASE TakeBatch \/ SerialMap \/ EndBatch
    BY <2>3 DEF TakeBatch, SerialMap, EndBatch
  <2>4. CASE SerialPanic \/ DeliverError
    BY <2>4 DEF SerialPanic, DeliverError, Stream!Abort
  <2>5. CASE Join
    <3>1. phase = "scope" /\ phase' \in {"panicked", "missing", "deliver"}
          /\ UNCHANGED delivered
      BY <2>5 DEF Join
    <3>2. phase' # "missing"
      BY StepInv DEF NoMissingResult
    <3> QED BY <3>1, <3>2 DEF Stream!Abort
  <2>6. CASE Deliver
    <3>1. Len(delivered) + 1 - base \in 1..Size /\ Len(delivered) < N
      BY <2>6, PoolAssumption DEF Deliver, Cursor, Size
    <3>2. results[Len(delivered) + 1 - base] = Len(delivered) + 1
      BY <2>6, <3>1, PoolAssumption DEF Deliver, Filled, Size
    <3> QED BY <2>6, <3>1, <3>2 DEF Deliver, Stream!Emit
  <2>7. CASE Finish
    BY <2>7 DEF Finish, Cursor, Stream!Finish
  <2> QED BY <2>1, <2>2, <2>3, <2>4, <2>5, <2>6, <2>7
          DEF Next, Caller, Terminated
<1> QED BY <1>1, <1>2, Invariance, PTL DEF Spec, ImplementsStream, Stream!Spec

=============================================================================

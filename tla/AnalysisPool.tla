---------------------------- MODULE AnalysisPool ----------------------------
(***************************************************************************)
(* The analysis phase of the function walk (walk_functions_inner, phase 3) *)
(* together with the thread pool it runs on (map_in_analysis_pool), in     *)
(* crates/revx-analysis/src/lib.rs.                                        *)
(*                                                                         *)
(* The caller drains a batch of pending functions, maps analyze_one over   *)
(* the batch on scoped threads that pop (index, item) pairs from a shared  *)
(* Vec and store each result in the slot of its index, joins the threads,  *)
(* collects the slots in order and hands the results to on_function.       *)
(* Functions are numbered 1..N in the order they were pushed; the result   *)
(* of analyze_one on a function is represented by the function's number.   *)
(***************************************************************************)
EXTENDS Integers, Sequences

CONSTANTS
  N,      \* number of pending functions
  Jobs    \* resource::analysis_worker_count()

ASSUME PoolAssumption == N \in Nat /\ Jobs \in Nat \ {0}

None == 0

Lesser(a, b) == IF a <= b THEN a ELSE b

\* pending_stream_batch_size
BatchSize == IF Jobs <= 1 THEN 1 ELSE Lesser(Jobs * 4, 16)

\* The pool never starts more than four threads.
Threads == 1..4

WorkerCount(n) == Lesser(Lesser(Jobs, n), 4)

VARIABLES
  phase,      \* what the calling thread is doing
  drained,    \* how many functions have been drained from pending_functions
  base,       \* how many of them belong to earlier batches
  queue,      \* length of the Vec of (index, item) pairs, popped from its end
  results,    \* the Vec of slots: results[i] is None or the result of item i
  pc,         \* what each scoped thread is doing
  item,       \* the index each thread holds
  delivered   \* the functions on_function has accepted, in order

vars == <<phase, drained, base, queue, results, pc, item, delivered>>

Final == {"done", "failed", "panicked", "missing"}

Init ==
  /\ phase = "stream"
  /\ drained = 0
  /\ base = 0
  /\ queue = 0
  /\ results = << >>
  /\ pc = [w \in Threads |-> "exit"]
  /\ item = [w \in Threads |-> None]
  /\ delivered = << >>

-----------------------------------------------------------------------------
(* The calling thread.  An operator whose name ends in _Slip is a plausible *)
(* mistake in the definition after it; no specification uses one.          *)

Take_Slip == BatchSize

\* pending_stream_batch_size().min(pending_functions.len())
Take == Lesser(BatchSize, N - drained)

\* drain(..take), then map_in_analysis_pool up to the point where its threads
\* are spawned; one worker or one item is mapped by the caller itself.
TakeBatch ==
  /\ phase = "stream"
  /\ drained < N
  /\ LET workers == WorkerCount(Take)
     IN  /\ drained' = drained + Take
         /\ base' = drained
         /\ queue' = Take
         /\ results' = [i \in 1..Take |-> None]
         /\ phase' = IF workers <= 1 THEN "serial" ELSE "scope"
         /\ pc' = [w \in Threads |->
                     IF workers > 1 /\ w <= workers THEN "pop" ELSE "exit"]
         /\ item' = [w \in Threads |-> None]
  /\ UNCHANGED delivered

\* items.into_iter().map(f).collect()
SerialMap ==
  /\ phase = "serial"
  /\ results' = [i \in DOMAIN results |-> base + i]
  /\ queue' = 0
  /\ phase' = "deliver"
  /\ UNCHANGED <<drained, base, pc, item, delivered>>

\* analyze_one panics in the calling thread
SerialPanic ==
  /\ phase = "serial"
  /\ phase' = "panicked"
  /\ UNCHANGED <<drained, base, queue, results, pc, item, delivered>>

\* The end of thread::scope: it re-raises the panic of a scoped thread, and
\* otherwise the slots are collected, each of them expected to be filled.
Join ==
  /\ phase = "scope"
  /\ \A w \in Threads : pc[w] \in {"exit", "panicked"}
  /\ phase' = CASE \E w \in Threads : pc[w] = "panicked" -> "panicked"
                [] OTHER -> IF \E i \in DOMAIN results : results[i] = None
                            THEN "missing" ELSE "deliver"
  /\ UNCHANGED <<drained, base, queue, results, pc, item, delivered>>

\* on_function(function)? succeeds for the next result of the batch
Deliver ==
  /\ phase = "deliver"
  /\ Len(delivered) < drained
  /\ delivered' = Append(delivered, results[Len(delivered) + 1 - base])
  /\ UNCHANGED <<phase, drained, base, queue, results, pc, item>>

\* on_function(function)? returns an error: the walk returns it at once
DeliverError ==
  /\ phase = "deliver"
  /\ Len(delivered) < drained
  /\ phase' = "failed"
  /\ UNCHANGED <<drained, base, queue, results, pc, item, delivered>>

EndBatch ==
  /\ phase = "deliver"
  /\ Len(delivered) = drained
  /\ phase' = "stream"
  /\ UNCHANGED <<drained, base, queue, results, pc, item, delivered>>

\* a last batch that is not full is dropped
Finish_Slip ==
  /\ phase = "stream"
  /\ N - drained < BatchSize
  /\ phase' = "done"
  /\ UNCHANGED <<drained, base, queue, results, pc, item, delivered>>

Finish ==
  /\ phase = "stream"
  /\ drained = N
  /\ phase' = "done"
  /\ UNCHANGED <<drained, base, queue, results, pc, item, delivered>>

Caller == \/ TakeBatch \/ SerialMap \/ SerialPanic \/ Join
          \/ Deliver \/ DeliverError \/ EndBatch \/ Finish

-----------------------------------------------------------------------------
(* A scoped thread.                                                        *)

\* guard.pop() under the queue's mutex
Pop(w) ==
  /\ phase = "scope"
  /\ pc[w] = "pop"
  /\ queue > 0
  /\ item' = [item EXCEPT ![w] = queue]
  /\ queue' = queue - 1
  /\ pc' = [pc EXCEPT ![w] = "run"]
  /\ UNCHANGED <<phase, drained, base, results, delivered>>

\* pop() returned None: continue
Leave_Slip(w) ==
  /\ phase = "scope"
  /\ pc[w] = "pop"
  /\ queue = 0
  /\ UNCHANGED vars

\* pop() returned None: break
Leave(w) ==
  /\ phase = "scope"
  /\ pc[w] = "pop"
  /\ queue = 0
  /\ pc' = [pc EXCEPT ![w] = "exit"]
  /\ UNCHANGED <<phase, drained, base, queue, results, item, delivered>>

\* f(item) panics, with no lock held; the other threads go on
Panic(w) ==
  /\ phase = "scope"
  /\ pc[w] = "run"
  /\ pc' = [pc EXCEPT ![w] = "panicked"]
  /\ UNCHANGED <<phase, drained, base, queue, results, item, delivered>>

\* the items are reversed, to be popped from the front, before they are numbered
Store_Slip(w) ==
  /\ phase = "scope"
  /\ pc[w] = "run"
  /\ results' = [results EXCEPT ![Len(results) + 1 - item[w]] = base + item[w]]
  /\ item' = [item EXCEPT ![w] = None]
  /\ pc' = [pc EXCEPT ![w] = "pop"]
  /\ UNCHANGED <<phase, drained, base, queue, delivered>>

\* f(item) returned, and guard[idx] = Some(value) under the results' mutex
Store(w) ==
  /\ phase = "scope"
  /\ pc[w] = "run"
  /\ results' = [results EXCEPT ![item[w]] = base + item[w]]
  /\ item' = [item EXCEPT ![w] = None]
  /\ pc' = [pc EXCEPT ![w] = "pop"]
  /\ UNCHANGED <<phase, drained, base, queue, delivered>>

Worker(w) == Pop(w) \/ Leave(w) \/ Panic(w) \/ Store(w)

Terminated == phase \in Final /\ UNCHANGED vars

Next == Caller \/ (\E w \in Threads : Worker(w)) \/ Terminated

\* Every thread is scheduled by the operating system, and analyze_one returns.
Fairness == WF_vars(Caller) /\ \A w \in Threads : WF_vars(Worker(w))

Spec == Init /\ [][Next]_vars /\ Fairness

-----------------------------------------------------------------------------
(* Properties.                                                             *)

TypeOK ==
  /\ phase \in {"stream", "serial", "scope", "deliver"} \cup Final
  /\ drained \in 0..N
  /\ base \in 0..drained
  /\ queue \in 0..(drained - base)
  /\ results \in [1..(drained - base) -> 0..N]
  /\ pc \in [Threads -> {"pop", "run", "exit", "panicked"}]
  /\ item \in [Threads -> 0..(drained - base)]
  /\ delivered \in Seq(1..N)

\* The expect("analysis worker missing result") at the end of
\* map_in_analysis_pool never fires: once every thread has left without a
\* panic, every slot is filled, whatever order the items were taken in.
NoMissingResult == phase # "missing"

\* Whatever the threads did, the sink has received the functions in the order
\* in which they were recovered, each once, with its own analysis.
InOrder ==
  /\ Len(delivered) <= drained
  /\ \A i \in 1..Len(delivered) : delivered[i] = i

\* A walk that returns Ok has delivered every recovered function.
CompleteOnSuccess == phase = "done" => Len(delivered) = N

\* The walk ends, whatever the threads do.
Terminates == <>(phase \in Final)

Stream == INSTANCE FunctionStream WITH
            out <- delivered,
            status <- CASE phase = "done" -> "done"
                        [] phase \in {"failed", "panicked"} -> "aborted"
                        [] phase = "missing" -> "missing"
                        [] OTHER -> "running"

\* The parallel, batched walk is a serial stream of the recovered functions
\* for the sink it feeds (analyze_streaming's on_function).
ImplementsStream == Stream!Spec

=============================================================================

-------------------------- MODULE FunctionRecovery --------------------------
(***************************************************************************)
(* The discovery of functions: phase 1 of walk_functions_inner, with       *)
(* sweep_undiscovered_ranges and next_hard_boundary, in                    *)
(* crates/revx-analysis/src/lib.rs.                                        *)
(*                                                                         *)
(* Candidates are popped from two queues into a batch, each with the       *)
(* address it may be decoded up to; the batch is decoded in parallel, and  *)
(* its members are then claimed or rejected one after the other, a claim   *)
(* adding the targets of its calls and the prologues found behind it to    *)
(* the queues.  When the queues run dry the gaps between claims are swept  *)
(* for more candidates.                                                    *)
(*                                                                         *)
(* What a decoder finds is left open: any end up to the limit it was       *)
(* given, any calls.  On arm64 addresses count words, so that a sweep does *)
(* not round its targets up to the next word.                              *)
(*                                                                         *)
(* A queue is a set, popped in any order: an address queued twice is       *)
(* skipped the second time because it has been visited.                    *)
(***************************************************************************)
EXTENDS Integers, Sequences, FiniteSets

CONSTANTS
  Text,        \* executable ranges <<start, end>>, disjoint
  Stubs,       \* addresses of import stubs
  Seeds,       \* addresses among which the first seeds are
  Targets,     \* addresses among which the targets of calls are
  Prologues,   \* function prologues a scan of the code finds (arm64)
  Window,      \* ARM64_NEARBY_SEED_WINDOW, the bytes scanned after a function
  MaxBytes,    \* max_function_bytes
  SweepBytes,  \* SWEEP_RANGE_BYTES
  Batch,       \* phase1_batch_size
  Budget       \* function_budget

ASSUME RecoveryAssumption ==
  /\ Text \subseteq Nat \X Nat
  /\ \A r, s \in Text : r # s => r[2] <= s[1] \/ s[2] <= r[1]
  /\ Stubs \subseteq Nat /\ Seeds \subseteq Nat
  /\ Targets \subseteq Nat /\ Prologues \subseteq Nat
  /\ Window \in Nat
  /\ MaxBytes \in Nat \ {0} /\ SweepBytes \in Nat \ {0}
  /\ Batch \in Nat \ {0} /\ Budget \in Nat

Lesser(a, b) == IF a <= b THEN a ELSE b

In(r, a) == r[1] <= a /\ a < r[2]

\* is_executable_address
Executable(a) == \E r \in Text : In(r, a)

VARIABLES
  phase,      \* "fill", "claim", or how the walk ended
  priority,   \* priority_queue
  deferred,   \* deferred_queue, popped when priority_queue is empty
  visited,    \* visited
  hard,       \* hard_boundaries
  batch,      \* the candidates to decode, each with its limit max_end
  claims,     \* claimed_ranges
  count       \* function_count

vars == <<phase, priority, deferred, visited, hard, batch, claims, count>>

Final == {"done", "stopped", "failed"}

\* The seeds known to be functions go into one queue, guesses into the other;
\* a walk without any returns at once.
Init ==
  /\ priority \in SUBSET (Seeds \ Stubs)
  /\ deferred \in SUBSET ((Seeds \ Stubs) \ priority)
  /\ phase = IF priority \cup deferred = {} THEN "done" ELSE "fill"
  /\ visited = {}
  /\ hard = priority
  /\ batch = << >>
  /\ claims = {}
  /\ count = 0

-----------------------------------------------------------------------------
(* Reading claimed_ranges, a map from the starts of claims to their ends.  *)
(* An operator whose name ends in _Slip is a plausible mistake in the      *)
(* definition after it; no specification uses one.                         *)

\* range(..=a).next_back(): the last claim that starts at or before a
Last(c, a) ==
  /\ c \in claims
  /\ c.start <= a
  /\ \A d \in claims : d.start <= a => d.start <= c.start

\* a lies in the last claim that starts at or before it
Claimed(a) == \E c \in claims : Last(c, a) /\ a < c.end

\* only the claim before the new one is looked at
Overlaps_Slip(a, end) == Claimed(a)

\* the overlap test made before a range from a to end is claimed
Overlaps(a, end) ==
  \/ Claimed(a)
  \/ \E c \in claims : a <= c.start /\ c.start < end

-----------------------------------------------------------------------------
(* The batch.                                                              *)

\* the batch is filled whatever is left of the budget
MayPop_Slip == phase = "fill" /\ Len(batch) < Batch

MayPop ==
  /\ phase = "fill"
  /\ Len(batch) < Batch
  /\ count + Len(batch) < Budget

\* priority_queue.pop_front().or_else(|| deferred_queue.pop_front())
Foremost(a) == IF priority # {} THEN a \in priority ELSE a \in deferred

Popped(a) ==
  /\ MayPop
  /\ Foremost(a)
  /\ priority' = priority \ {a}
  /\ deferred' = IF priority # {} THEN deferred ELSE deferred \ {a}
  /\ visited' = visited \cup {a}

\* the limit ignores the boundaries
Limit_Slip(a, r) == Lesser(a + MaxBytes, r[2])

\* the next hard boundary, the largest function, the end of the range
Limit(a, r) ==
  LET cut == {h \in hard : a < h /\ h <= r[2]}
      largest == Lesser(a + MaxBytes, r[2])
  IN  CHOOSE l \in {largest} \cup cut : \A m \in {largest} \cup cut : l <= m

Candidate(a) == a \notin visited /\ Executable(a) /\ ~ Claimed(a)

Enlist(a) ==
  /\ Popped(a)
  /\ Candidate(a)
  /\ \E r \in Text :
       /\ In(r, a)
       /\ batch' = Append(batch, [start |-> a, limit |-> Limit(a, r)])
  /\ UNCHANGED <<phase, hard, claims, count>>

Skip(a) ==
  /\ Popped(a)
  /\ ~ Candidate(a)
  /\ UNCHANGED <<phase, hard, batch, claims, count>>

\* budget.check() fails at the head of the loop: out of time or of memory
Stop ==
  /\ phase = "fill"
  /\ batch = << >>
  /\ count < Budget
  /\ phase' = "stopped"
  /\ UNCHANGED <<priority, deferred, visited, hard, batch, claims, count>>

\* while function_count < function_budget
Full ==
  /\ phase = "fill"
  /\ count = Budget
  /\ phase' = "done"
  /\ UNCHANGED <<priority, deferred, visited, hard, batch, claims, count>>

QueuesEmpty == priority = {} /\ deferred = {}

\* a candidate is popped before the length of the batch is tested, and lost
Decode_Slip ==
  /\ phase = "fill"
  /\ batch # << >>
  /\ Len(batch) = Batch
  /\ phase' = "claim"
  /\ \E a \in priority : priority' = priority \ {a}
  /\ UNCHANGED <<deferred, visited, hard, batch, claims, count>>

\* the batch is complete: it is decoded in the pool
Decode ==
  /\ phase = "fill"
  /\ batch # << >>
  /\ Len(batch) = Batch \/ count + Len(batch) = Budget \/ QueuesEmpty
  /\ phase' = "claim"
  /\ UNCHANGED <<priority, deferred, visited, hard, batch, claims, count>>

-----------------------------------------------------------------------------
(* sweep_undiscovered_ranges.                                              *)

\* Where the cursor stops: at the start of a gap of a range, and every
\* SweepBytes from there.
Cursors ==
  {a \in UNION {r[1]..(r[2] - 1) : r \in Text} :
     \E r \in Text : \E g \in r[1]..a :
       /\ In(r, a)
       /\ \A b \in g..a : ~ Claimed(b)
       /\ g = r[1] \/ Claimed(g - 1)
       /\ (a - g) % SweepBytes = 0}

\* The first of them, as many as functions are wanted, visited or not.
Swept == {a \in Cursors : Cardinality({b \in Cursors : b < a}) < Budget - count}

\* the sweep is a success when it has looked at anything
Sweep_Slip ==
  /\ phase = "fill"
  /\ batch = << >>
  /\ QueuesEmpty
  /\ count < Budget
  /\ priority' = priority \cup (Swept \ visited)
  /\ phase' = IF Swept = {} THEN "done" ELSE "fill"
  /\ UNCHANGED <<deferred, visited, hard, batch, claims, count>>

Sweep ==
  /\ phase = "fill"
  /\ batch = << >>
  /\ QueuesEmpty
  /\ count < Budget
  /\ priority' = priority \cup (Swept \ visited)
  /\ phase' = IF Swept \ visited = {} THEN "done" ELSE "fill"
  /\ UNCHANGED <<deferred, visited, hard, batch, claims, count>>

-----------------------------------------------------------------------------
(* The decoded batch, one member after the other.                          *)

\* nothing was decoded, the code looks like a fragment or a thunk, or it
\* overlaps with a claim
Reject ==
  /\ phase = "claim"
  /\ batch # << >>
  /\ batch' = Tail(batch)
  /\ UNCHANGED <<phase, priority, deferred, visited, hard, claims, count>>

\* Where the code decoded from c.start may end: the decoder follows branches
\* and reads the bytes up to the limit, no further.
Ends(c) == (c.start + 1)..c.limit

\* the targets of calls that are worth a candidate
Called(calls) == {a \in calls \ (visited \cup Stubs) : Executable(a)}

\* collect_arm64_nearby_seeds in the window behind a function
Replayed(end, r) ==
  {a \in Prologues \ (visited \cup Stubs) :
     end <= a /\ a < Lesser(end + Window, r[2])}

\* The code from c.start to end is a function.  The test function_count >=
\* function_budget before it never succeeds: see WithinBudget.
Claim(end, calls, r) ==
  LET c == Head(batch)
  IN  /\ phase = "claim"
      /\ batch # << >>
      /\ In(r, c.start)
      /\ end \in Ends(c)
      /\ ~ Overlaps(c.start, end)
      /\ claims' = claims \cup {[start |-> c.start, end |-> end]}
      /\ count' = count + 1
      /\ hard' = hard \cup Called(calls) \cup Replayed(end, r)
      /\ priority' = priority \cup (Called(calls) \ hard) \cup Replayed(end, r)
      /\ batch' = Tail(batch)
      /\ UNCHANGED <<phase, deferred, visited>>

EndBatch ==
  /\ phase = "claim"
  /\ batch = << >>
  /\ phase' = "fill"
  /\ UNCHANGED <<priority, deferred, visited, hard, batch, claims, count>>

\* the decoder panics or, in lean mode, on_function returns an error
Fail ==
  /\ phase = "claim"
  /\ batch # << >>
  /\ phase' = "failed"
  /\ UNCHANGED <<priority, deferred, visited, hard, batch, claims, count>>

-----------------------------------------------------------------------------

Fill == (\E a \in priority \cup deferred : Enlist(a) \/ Skip(a))
        \/ Full \/ Decode \/ Sweep

Settle ==
  \/ Reject \/ EndBatch
  \/ /\ batch # << >>
     /\ \E end \in Ends(Head(batch)),
           calls \in SUBSET Targets, r \in Text : Claim(end, calls, r)

Terminated == phase \in Final /\ UNCHANGED vars

Next == Fill \/ Settle \/ Stop \/ Fail \/ Terminated

\* One thread walks, and the decoders return; nothing makes time run out.
Spec == Init /\ [][Next]_vars /\ WF_vars(Fill \/ Settle)

-----------------------------------------------------------------------------
(* Properties.                                                             *)

Span == [start : Nat, end : Nat]

TypeOK ==
  /\ phase \in {"fill", "claim"} \cup Final
  /\ priority \subseteq Nat /\ deferred \subseteq Nat
  /\ visited \subseteq Nat /\ hard \subseteq Nat
  /\ batch \in Seq([start : Nat, limit : Nat])
  /\ claims \subseteq Span
  /\ count \in 0..Budget

\* No two recovered functions share an address and none leaves its section,
\* though a batch is decoded before any of its members is claimed, and each
\* test looks only at the neighbours of a range in the map.
ClaimsDisjoint ==
  /\ \A c \in claims : c.start < c.end /\ \E r \in Text : In(r, c.start) /\ c.end <= r[2]
  /\ \A c, d \in claims : c # d => c.end <= d.start \/ d.end <= c.start

\* Each function is counted once, and the batch never holds more candidates
\* than the budget has room for.
WithinBudget ==
  /\ count = Cardinality(claims)
  /\ phase \in {"fill", "claim"} => count + Len(batch) <= Budget

\* A boundary is never forgotten: it has been tried or it is queued, so that
\* a walk that ends by itself below its budget has tried them all.
BoundariesTried ==
  /\ hard \subseteq visited \cup priority
  /\ phase = "done" /\ count < Budget => hard \subseteq visited

\* A function extends over a boundary only if another member of its batch
\* has just discovered it, so that it is queued and not visited yet; with
\* batches of one (lean mode) functions end at the boundaries that are known.
BoundariesCut ==
  [][\A c \in claims' \ claims, h \in hard :
       c.start < h /\ h < c.end => Batch > 1 /\ h \in priority \ visited]_vars

\* The walk ends: sweeps do not offer the same addresses for ever.
Terminates == <>(phase \in Final)

=============================================================================

# ReVX in TLA+

A formal model of ReVX: TLA+ modules translated from its Rust source, TLC runs that check
them on small instances, and TLAPS proofs for all instances. Paths below are relative to
`src/crates/`. `PROJECT.json` maps every definition to the lines it models and lists every
run, property, finding, hazard and theorem.

## The system

ReVX is a reverse-engineering workspace: binaries are loaded, their functions recovered and
analysed, and the results kept in `.revx/` (a SQLite database and a store of blobs), which a
command line tool, a daemon (IPC) and an MCP server (stdio or HTTP) query and extend.

| Component | State it keeps | Operations | What makes it correct |
|---|---|---|---|
| Function discovery, `revx-analysis/src/lib.rs` | seed queues, visited addresses, hard boundaries, claimed ranges, a batch | fill a batch, decode it in parallel, claim or reject its members, sweep the gaps | claims are disjoint, the budget is kept, no boundary is lost, the walk ends |
| Analysis pool and stream, same file | a queue of items, slots of results, scoped threads | pop, analyse, store, join, deliver | the parallel walk feeds its sink like a serial one, whatever panics or fails |
| Ingestion, `revx-workspace/src/lib.rs` | tables of `state.sqlite`, an open transaction, buffered evidence | `begin_analysis_run`, `ingest_function`, `finalize`, drop; `register_binary` | readers see whole runs only; evidence, counts and imports belong to what they describe |
| Artifact store, `revx-workspace/src/artifacts.rs` | files named by hash, temporary files | `write_artifact_bytes`, evidence exports, promotion | a blob, once complete, stays; a short one is explained by a stopped writer |
| Connection pool, schema, `revx-workspace/src/{pool,schema}.rs` | free connections per path, paths with a schema | checkout, return, schema set-up | a connection belongs to the file that is there; the schema is complete |
| Continuum ledger, `revx-daemon/src/{lib,ibc}.rs`, `revx-analysis/src/lattice.rs` | sessions in memory and a copy in `cache/` | lazy load, visit, advance, bind, persist | recorded visits are not lost; the active session is never evicted |
| Hypotheses, `revx-workspace/src/lib.rs` | rows | create, update | no update is lost |
| Daemon, `revx-daemon/src/lib.rs` | socket, pid file, processes | start, stop, status, requests | one daemon per workspace, stop stops the one that runs |
| MCP over HTTP, `revx-daemon/src/mcp_http.rs` | sessions | requests in blocking tasks, concurrently | calls of the shared service do not disturb each other |
| Plugins, `revx-daemon/src/lib.rs` | a child process and its pipes | run with a timeout | a plugin that would end in time is not killed |
| Symbolic solver, same file | none | enumerate assignments | finds a solution whenever the domains hold one |
| Object analysis, `revx-workspace/src/lib.rs`, `revx-daemon/src/lib.rs` | rows of objects and evidence, a queue of objects per request | identify, analyse, dig, expand, carve, analyse as a binary | whatever is found is processed, binaries once, listed evidence exists, every request ends |
| DEX pipeline, `revx-dex/src` | one method's IR | lift, normalise loops, duplicate handlers, lower phis, build regions, render | each pass preserves the method's behaviour or refuses |
| Loaders, decoders, native SSA and typing, CLI tools | none between calls | parse, translate, print | outside of what a model checker helps with |

How they interact: a daemon call `run_binary_analysis` opens a run (`begin_analysis_run`), walks
the binary (`analyze_streaming` -> discovery -> pool) with `ingest_function` as the sink, and
closes the run (`finalize`), which writes blobs through the artifact store on the way. The
sink's errors end the walk; the walk's errors drop the run. Several threads of one process
(HTTP calls are `spawn_blocking`) and several processes (CLI, daemon, MCP) share the database
and the blobs. `object_register_binary` writes the same tables outside of any run.
`object_pipeline` and `object_analyze` unpack files into objects, analyse those and what is
found in them, and call `run_binary_analysis` for the native binaries among them. A DEX method
goes through `lift`, `normalize_loops` and `destroy_phis` before it is rendered.

The hard behaviours: workers finishing in any order and panicking; limits computed for a batch
that is claimed later; writers, exporters and crashes over the same blob; a run aborted halfway
beside readers and a registration of three statements; two requests that rewrite the rows of one
object statement by statement; passes over loops, where what a value holds depends on the path.
`PROJECT.json` "hazards" has all of them.

## Modules

| Module | Models | State and actions in the code |
|---|---|---|
| `FunctionRecovery` | phase 1 of `walk_functions_inner`, `sweep_undiscovered_ranges`, `next_hard_boundary` | variables have the names of the locals (`priority`, `deferred`, `visited`, `hard`, `claims`, `count`). `Enlist`/`Skip`: one pop of the filling loop; `Decode`: the batch goes to the pool; `Claim`/`Reject`: one turn of the loop over the decoded; `Sweep`, `Full`, `Stop`: the ends of the outer loop |
| `AnalysisPool` | phase 3 and `map_in_analysis_pool` | `TakeBatch`, `Join`, `Deliver`, ... are the caller; `Pop`, `Leave`, `Store`, `Panic` the scoped threads, one action per critical section |
| `FunctionStream` | the contract of the sink `on_function` | `AnalysisPool` implements it |
| `AnalysisIngest` | a run as a transaction, `register_binary` | `db` is the committed database, `work` what the open transaction sees; one action per call (`Begin`, `IngestLean`, `IngestFull`, `Finalize`, `Abort`) or per autocommitted statement (`RegisterRow`, `RegisterDelete`, `RegisterInsert`) |
| `AnalysisSnapshot` | what readers may see | `AnalysisIngest` implements it |
| `IbcLedger` | `ensure_ibc_ledger_loaded`, `ibc_status`, visits and `ibc_advance`, eviction, `persist_ibc_ledger`, forging and sealing of orbit hypotheses | `mem` is `ibc_ledger`, `lock` its mutex where it is held over several steps, `file` the cache file, `hyp` the table of hypotheses; each caller goes through load, operation, write, draft, bind, write, seal, reply as `sync_ibc_continuum`, `apply_continuum_to_brief` and `run_ibc_advance` do; one action per critical section. `stale` is a history variable |
| `ArtifactStore` | `write_artifact_bytes`, the exports, `promote_temp_artifact` | one action per system call; `linked` says whether the open file still has its path, `interrupted` is a history variable |
| `ObjectPipeline` | `run_object_pipeline`, `object_analyze`, `analyze_object_inner` with `auto_dig` and `auto_expand`, `save_object_graph`, carving, promotion of found binaries | `row`, `ev`, `runs` are tables; `stack` the calls of `analyze_object_inner` under way; `pending`, `processed`, `queued`, `seen` have the names of the locals (`..._object_ids`, `analyzed_binary_ids`). One action per SQL statement, per call down or up the recursion, per stage of the loop. `torn`, `ran`, `warned` are history variables |
| `ParallelCopy` | `insert_parallel_copies` | `Store` and `BreakCycle` are the two branches of its loop; each copy is run as it is emitted |
| `PhiLower` | `lower` in `philower.rs` | `Lower` decides which edges are split or refuses; then the method with phis and the lowered one take the same path, `ssa` and `env` holding their values |
| `DexLift` | `lift` in `lift.rs` | `LiftBlock` is one turn of `run_round`, with `merge_predecessor_regs`; `SecondRound` is `reset_state`, `PatchHoles` is `patch_phi_placeholders`; before it the depth-first search: `Descend` and `Leave` are the loop of `reverse_post_order`, `AddOrphan` the blocks `run_round` appends. The code searches again in the second round, with the same result. One register |
| `LoopNorm` | `normalize_loops_with_budget` in `loopnorm.rs`, on what `DexLift` produces | `Peel` is one turn of its loop; then the lifted and the normalised method take the same path, `held` and `heldThere` holding their values |

`MC_*.tla` hold definitions only TLC needs; `*Proofs.tla` the theorems. An operator whose name
ends in `_Slip` (or `_Stale`) is a plausible mistake in the definition after it. No specification uses one:
replacing the definition by it must violate the property the manifest pairs it with.

Left open on purpose: what the lattice of a session contains (so which branch a visit takes,
whether an advance finds a step, which orbits are drafted and sealed); which sessions besides
the active one are the oldest at an eviction, since stamps are milliseconds and `ibc_advance`
sets none; the texts of hypotheses, so that `update_hypothesis` changes nothing; what a decoder finds (any end up to its limit, any calls), so that the
results hold for every binary; why a panic, an I/O error or the time limit happens. A queue of
seeds is a set, since its order decides only which functions fit into the budget. Contents are
written in `Size` pieces, as `write_all` may. What the scanners find in an object is a constant,
since it is a function of the content the object's id is the hash of; limits on sizes and the
ranking of candidates are part of it. The order of basic blocks, where the code uses it only to
be reproducible, is left open; the order blocks are lifted in is not. Rows are represented by the run that wrote them.

## Runs

| Run | Instance | Shows |
|---|---|---|
| `pool` | 13 functions, 3 jobs: a batch of 12 on three threads and one of a single item, which the caller maps itself; about 21,000 states | the walk implements `FunctionStream`, in order and complete on success, and it ends |
| `artifacts` | 2 actors, 2 contents of 2 pieces; about 63,000 states | a complete blob stays, a handle names a file, a handle becomes good unless its writer stopped |
| `artifacts_content` | 2 actors, 1 content | violated: a handle on a blob that does not have its hash (`README.md:87`) |
| `ingest` | 2 sessions, 2 binaries, 2 paths, both profiles, 2 runs of at most 2 functions, evidence written at 2; about 143,000 states up to symmetry | readers see whole completed runs; evidence and imports agree with them, with the exceptions named below |
| `ingest_trace` | one session, two binaries under one path | violated: a function lists evidence that is gone (`benches/vs-jadx-2026-09.md:75`) |
| `recovery` | sections of 4 and 3 addresses, one stub, batches of 2, budget 4, sweeps of 2; about 300,000 states | claims are disjoint, the budget is kept, no boundary is lost, claims are cut at known boundaries, the walk ends |
| `ledger` | 2 callers, 2 namespaces, room for 1 session, epochs to 1, failing writes; about 145,000 states up to symmetry | the active session survives eviction, also when advances have overfilled the ledger; the file keeps up with the ledger unless a write failed or a slow load interfered |
| `ledger_bind` | the same with one orbit, two hypotheses, no failing writes; about 1,260,000 states up to symmetry | bindings are true in every copy of the ledger, a bound orbit gets no second hypothesis |
| `ledger_durable` | 2 callers, 2 namespaces with room for both, no failing writes | violated: a visit replies that its session is durable (`revx-daemon/src/lib.rs:501`) while the file lacks it |
| `pipeline` | a pipeline over a file that holds a package, in it a member, in that a fat binary of two slices; beside it an `object_analyze` of the member; object limits 3 and 10, one failure anywhere; about 290,000 states | a clean report covers everything found, each binary is analysed once (once more per failure), evidence that a row lists exists, recursion is bounded, both requests end |
| `phi` | all graphs of an entry, two blocks and an exit (reachable), 2 inputs, 2 phis in any blocks with any well-formed operands, with and without a protected block; about 2,000,000 states | copies are simultaneous, a cycle costs one temporary, and on every path the lowered method holds what the phis hold |
| `loops` | 360 graphs of 4 blocks, every set of blocks that write, parameter or not, 5 new blocks allowed, with and without a protected block; about 23,000 methods, 880,000 states | phis hold what was written last; a loop left with several entries has a refusal; copies branch where originals do and read what they read |

Why the bounds suffice: two sessions, actors or binaries make every pairwise interference
happen; two runs give one that replaces another; evidence threshold 2 of 2 functions gives a
batch written early and one left for the end; a batch of two is the least that can be stale.
What needs more is covered by the proofs, which have no bounds. Symmetry is used in `ingest`,
`ledger` and `ledger_bind`, where every property is a safety property that treats the members of
each set alike. Room for one session makes every visit to another namespace evict; an epoch that
can grow once makes a ledger differ from its older copy (`Bumped` is where `MaxEpoch` cuts);
two hypotheses allow a second one for an orbit, and `create_hypothesis` fails when none is left.
The length of a run is bounded by `MaxFn`, the number of completed runs by `MaxRun`: the
guards of `IngestLean`, `IngestFull` and `Begin`. In `pipeline` the nesting is one level deeper than
`MAX_AUTO_DIG_DEPTH`, so that one analysis does not reach the bottom and the queue must; limit 3
stops before the end; `MaxFaults` is one failure, which may hit any step, while two would mostly
repeat it. Four blocks give loops of two and three blocks entered at several places, critical
edges into and out of loops, and two phis give a swap, the least cycle; larger cycles are
covered by the proof. `MaxNewBlocks` (32 in the code) is small enough for the
budget to be hit. Deadlock is checked in every run but `pipeline`, `phi` and `loops`, whose
requests and methods end.

Exceptions the properties name, because the code has them:
- `EvidenceBacked` excludes binaries whose evidence a run of another binary with the same path
  deleted (history variable `stolen`); without it the statement is `EvidenceTraceable`, which fails.
- `CountMatches` (proved, not in a run) holds of a binary until it is registered again:
  `register_binary` writes 0.
- `ImportsOnce` excludes binaries where a registration failed halfway or overlapped with
  another writer (history variable `disturbed`).
- `WrittenBack` excludes the time after a failed write or after a load that brought back an older
  file, until the next write (history variable `stale`).
- `BoundariesCut`: with batches larger than one a function may extend over a boundary that
  its own batch has just discovered; the boundary is then still queued.
- `Covers` is about reports without failed steps whose analyses have no warnings: a failure inside
  the recursion is only a warning and not a failed step. `EvidenceKept` excludes objects whose
  save was cut short (history variable `torn`: rows are written before their evidence, outside of
  a transaction) and those analysed as binaries, whose run deletes the evidence of their path.
- `AnalysedOnce` excludes fat Mach-O files: the run is recorded under the id of a slice.
- `MergedReads` and `ValuesCarried` exclude what the lifter and `mirror_phi` leave out: see the
  deviations under "Not modelled".

### Fairness

`AnalysisPool`: weak fairness of the caller and of each thread: the operating system schedules
them, and the analysis of one function returns (it has a deadline). `FunctionRecovery`: weak
fairness of the walking thread's own steps, not of the time limit and not of failures.
`ArtifactStore`: weak fairness of the steps of a call that has begun, not of new calls, errors
or crashes. `AnalysisIngest` has no liveness property: nothing makes a writer wait its turn for
more than the two seconds of `busy_timeout`. `IbcLedger` has none either: a `std::sync::Mutex`
promises no caller its turn. `ObjectPipeline`: weak fairness of each request, a thread that runs
until it answers; not of any particular failure. The DEX modules check safety only.

## Proofs

TLAPS proves, for all values of the constants (under the named assumptions in the modules:
sizes and budgets are natural numbers, sections are disjoint, ids are not `None`, blocks are
finitely many and in `DexLift` numbered from 1, `Hole` and `None` are no values there, a binary that is the slice of another is analysed
as it is):

- `AnalysisPoolProofs`: type correctness, `NoMissingResult`, `InOrder`, `CompleteOnSuccess`, and
  the safety and fairness-free content of `ImplementsStream`. The invariant says that each index
  of the batch is in the queue, held by exactly one thread, stored or lost to a panic; the
  properties alone do not say where an unfilled slot's item is.
- `ArtifactStoreProofs`: type correctness, `HandleNamesFile`, `StubExplained`, `CompleteStays`. The
  invariant adds that a linked writer is exactly as far as its file, that a content has at most
  one linked writer, and that a temporary file about to be promoted is complete.
- `AnalysisIngestProofs`: type correctness, `WholeRun`, `EvidenceBacked`, `ImportsOnce`,
  `CountMatches`, `ImplementsSnapshot`. The invariant relates `work` to `db`: equal when no
  transaction is open, and otherwise different only in the binary of the run, whose rows are exactly
  those ingested so far. `ItemsInv` adds which evidence is written and which still buffered while
  a run is open, and in which of its three statements a registration is that has deleted the
  imports and not yet inserted them.
- `FunctionRecoveryProofs`: type correctness, `ClaimsDisjoint`, `WithinBudget`, `BoundariesTried`,
  `BoundariesCut`. The invariant adds that members of a batch lie in their sections and that a
  boundary inside of what a member may cover was found after the batch was filled. `NoOverlap` is
  the lemma that looking at the neighbours in the map is enough when claims are disjoint.
- `PhiLowerProofs`: `Simultaneous` and `FewTemporaries` of `ParallelCopy` by itself and as `PhiLower`
  uses it, and `Preserved`, for any graph, phis, protected blocks and budget. The invariant of the
  copies says that the source of each assignment left, or the temporary in its place, holds what
  its destination must get, that every other destination has it already, and that two for each
  temporary and one for each assignment left come to at most two more than the destinations, and
  to no more than these when no assignment left reads a temporary. The invariant of the lowering
  says that between the copies at the end of a block and the branch the phis moved there hold
  what comes along the edge, and every other available value what it holds in SSA form. No other
  block misreads a moved phi: the branch goes nowhere else, or the block of the phi can only be
  entered from here.
- `ObjectPipelineProofs`: type correctness, `AnalysedOnce`, `EvidenceKept`, `Covers`, for any number of
  requests, any objects and any number of failures. Its header says which invariant is behind
  which theorem. What one request does to another is kept apart: a step leaves the local
  variables of every other request alone (`OnlyMine`) and takes no row, evidence of an analysis
  or run away (`Grow`).
- `LoopNormProofs`: `MergedReads`, `SingleEntries`, `SameTraces`, `ValuesCarried`, for any graph, any
  blocks that write and any budget. `SearchInv`: the depth-first search puts each block into the order
  once, and every block reached from the entry, but for the entry itself, behind one that branches
  to it. From that `LiftInv`: a block that defined the register in the first round does so in the
  second, so that no phi keeps a hole once they are patched. `MergeInv`: on the path taken, the value
  that was written last is what a block with a phi, or with one predecessor's value, reads. `Reaching`
  shows what the search behind `Cycle` computes, and `Copies` that copied blocks are new. `PeelInv`
  relates the normalised method to the lifted one: a copy has the branches, the write and the reads
  of its original (`Alike`), and the cycles of the two graphs correspond (`CyclesKept`,
  `CyclesApart`). `CarryInv`: the two executions hold the same values of blocks that were not copied
  and of the cycle they are in. It needs `Behind`: a value is held only behind the block that makes
  it, so that none of a cycle's is held when the cycle is entered.
- `IbcLedgerProofs`: all properties of the two passing runs, and `WritesCurrent`. The invariant states soundness of
  each copy of the ledger separately (in memory, in both files, read by a caller and not adopted
  yet), since any of them may become the ledger; and that what is renamed is what is in memory.
  For `WrittenBack` it adds that before the first load the ledger is empty.

Only model-checked: `Terminates` (all three) and `HandleCompletes`, since liveness is out of the
prover's reach. Every other property of every passing run has a theorem. `NoMissingResult`, `StubExplained`, `CountMatches` and `WritesCurrent` are proved and no
longer checked by a run. `FunctionStream` and
`AnalysisSnapshot` have no fairness, so the refinement theorems are of their whole `Spec`.

## Not modelled

- Loaders, decoders, the translation of single DEX instructions and rendering, native SSA and typing
  (`ssa.rs`), the lattice (`lattice.rs`), CLI tools, core data types: sequential translations of
  data, most of the lines of the repository, with no state between calls and no step another
  actor could see. Their correctness is a statement about each rule by itself, which tests reach.
  The vendored Ghidra decompiler is third-party code.
- `handlerprep.rs` copies exception handlers with `clone_block`, `remap_op_operands` and
  `retarget_edge`, which `LoopNorm` models; `region.rs` and `structure.rs` match patterns on trees.
- The connection pool and schema set-up, the life cycle of the daemon, plugins and the symbolic
  solver: the reasons are with the components and hazards in `PROJECT.json`; what would go wrong
  there lies in SQLite, in the operating system, or in numbers of 64 bits.
- Of object analysis: edges, artifacts, plugins and directories, which the modelled steps write and
  never read. Of the ledger: several processes over one cache file, texts of hypotheses. Of
  ingestion: references, strings and types as tables of their own, the export after a run, a power
  failure under `synchronous=OFF`. Of discovery: sections that overlap.
- `lift` treats each register alike but for one thing: a predecessor that defines any register in a
  round is no longer looked up in the snapshot. It is lifted then, and defines what it defines.

Deviations met while modelling the DEX passes, which the properties leave out and name:

1. `merge_predecessor_regs` merges a register only if every predecessor itself defines or merges
   it (`lift.rs:1519`). A definition further up does not count, so that a join, or a block behind a
   single predecessor, may get neither phi nor value and reads what the block lifted before it
   left in `reg_values`. (`benches/r11-pseudocode-stability-2026-10.md:7` speaks of one phi for each
   register at a join.)
2. A phi that appears only in the second round is not seen by the loop heads lifted before it.
3. The first block of a method is never merged, also when it is the head of a loop (`lift.rs:1407`).
4. A block nothing reaches from the entry, all of whose predecessors come later in the order, takes
   `u32::MAX` for the value of the register, as the one value they agree on;
   `patch_phi_placeholders` replaces it in phis, not where it is read.
5. `mirror_phi` extends phis that exist: a block behind a copied loop that reads a value of the
   loop directly reads the original's value also when the copy was run.
6. Methods of more than 256 blocks keep loops with several entries and no refusal is reported.

## History and what is left

In this order: `FunctionStream` and `AnalysisPool`, `ArtifactStore`, `AnalysisSnapshot` and
`AnalysisIngest`, `FunctionRecovery`, `IbcLedger`, with their proofs; then `ParallelCopy` with its
proof, `PhiLower`, `DexLift`, `LoopNorm` and `ObjectPipeline`; then the proofs of what the runs of
`AnalysisIngest`, `PhiLower`, `ObjectPipeline` and `LoopNorm` had only checked. For the last of these
the search of the lifter, first a recursive operator, became the steps it takes. No safety property of a
passing run is left to prove. Left to model: the components `PROJECT.json` lists as partly or
not modelled.

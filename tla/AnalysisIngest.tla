--------------------------- MODULE AnalysisIngest ---------------------------
(***************************************************************************)
(* The ingestion of analyses into state.sqlite: begin_analysis_run,        *)
(* AnalysisRunIngestSession (ingest_function, flush_pending_evidence,      *)
(* finalize, Drop) and register_binary, in                                 *)
(* crates/revx-workspace/src/lib.rs, as run_binary_analysis and the        *)
(* object_register_binary capability of crates/revx-daemon drive them.     *)
(*                                                                         *)
(* A run is one SQLite transaction on a connection of its own (BEGIN       *)
(* IMMEDIATE .. COMMIT), so other connections see the database as of the   *)
(* last commit and cannot write meanwhile; register_binary is a series of  *)
(* statements, each its own transaction.                                   *)
(*                                                                         *)
(* synchronous=OFF, which a run sets, leaves commits atomic as long as the  *)
(* operating system lives: a session dies with its process only.           *)
(*                                                                         *)
(* A row is represented by the run that wrote it.  The evidence kept of a  *)
(* binary is one item for its debug import, numbered 0, which stands for   *)
(* everything both profiles record once per run, and item i for function   *)
(* i.  References, strings and types are deleted and inserted with the     *)
(* functions and are not kept apart from them.                             *)
(***************************************************************************)
EXTENDS Integers, FiniteSets

CONSTANTS
  Session,   \* threads that analyse or register binaries
  Binary,    \* binary ids: hashes of the bytes, so a changed file is another
  Path,      \* paths binaries are read from, the subjects of their evidence
  Profile,   \* analysis profiles in use: "lean" and "full", or one of them
  MaxRun,    \* bound on the number of completed runs
  MaxFn,     \* bound on the number of functions a run recovers
  FlushAt,   \* 512: buffered evidence is written when there is that much
  None

ASSUME IngestAssumption ==
  /\ MaxRun \in Nat /\ MaxFn \in Nat /\ FlushAt \in Nat
  /\ Profile \subseteq {"lean", "full"}
  /\ None \notin Session /\ None \notin Path

Run == 1..MaxRun
Fn == 1..MaxFn
EvidenceId == Binary \X (0..MaxFn)

NoEvidence == [run |-> 0, subject |-> None]
NoRow == [by |-> "none", count |-> 0]

VARIABLES
  db,         \* the committed database
  work,       \* the database as the open transaction sees it
  lock,       \* the session whose transaction is open, or None
  pc,         \* what each session is doing
  job,        \* the binary, path, profile and run of each session
  ingested,   \* how many functions each session has ingested
  pending,    \* the functions of which each session buffers evidence
  stolen,     \* binaries whose evidence a run of another binary deleted
  disturbed   \* binaries whose imports a register_binary left half done or
              \* interleaved with another writer

vars == <<db, work, lock, pc, job, ingested, pending, stolen, disturbed>>

Database == [
  status  : [Run -> {"none", "running", "completed"}],   \* analysis_runs
  profile : [Run -> {"lean", "full"}],                   \* analysis_runs
  fns     : [Binary -> [Fn -> 0..MaxRun]],               \* functions
  row     : [Binary -> [by : {"none", "register", "analysis"},
                        count : 0..MaxFn]],              \* binaries
  imports : [Binary -> Nat],     \* copies of the imports in binary_imports
  ev      : [EvidenceId -> [run : 0..MaxRun, subject : Path \cup {None}]] ]

Init ==
  /\ db = [status  |-> [r \in Run |-> "none"],
           profile |-> [r \in Run |-> "full"],
           fns     |-> [b \in Binary |-> [i \in Fn |-> 0]],
           row     |-> [b \in Binary |-> NoRow],
           imports |-> [b \in Binary |-> 0],
           ev      |-> [e \in EvidenceId |-> NoEvidence]]
  /\ work = db
  /\ lock = None
  /\ pc = [s \in Session |-> "idle"]
  /\ job = [s \in Session |-> None]
  /\ ingested = [s \in Session |-> 0]
  /\ pending = [s \in Session |-> {}]
  /\ stolen = {}
  /\ disturbed = {}

\* the call of s is over: its session, or its connection, is dropped
End(s) ==
  /\ pc' = [pc EXCEPT ![s] = "idle"]
  /\ job' = [job EXCEPT ![s] = None]
  /\ ingested' = [ingested EXCEPT ![s] = 0]
  /\ pending' = [pending EXCEPT ![s] = {}]

-----------------------------------------------------------------------------
(* Statements.  An operator whose name ends in _Slip is a plausible mistake *)
(* in the definition after it, used by no specification.                   *)

\* INSERT INTO analysis_runs
InsertRun(d, j) ==
  [d EXCEPT !.status[j.run] = "running", !.profile[j.run] = j.profile]

\* "functions" is missing from the list of tables
DeleteFunctions_Slip(d, b) == d

DeleteFunctions(d, b) == [d EXCEPT !.fns[b] = [i \in Fn |-> 0]]

\* INSERT OR REPLACE INTO functions, of function i
InsertFunction(d, j, i) == [d EXCEPT !.fns[j.binary][i] = j.run]

\* "binary_imports" is missing from the list of tables
DeleteImports_Slip(d, b) == d

DeleteImports(d, b) == [d EXCEPT !.imports[b] = 0]

InsertImports(d, b) == [d EXCEPT !.imports[b] = @ + 1]

\* DELETE FROM evidence WHERE subject = path
DeleteEvidence(d, p) ==
  [d EXCEPT !.ev = [e \in EvidenceId |->
                      IF d.ev[e].subject = p THEN NoEvidence ELSE d.ev[e]]]

\* INSERT OR REPLACE of the evidence items numbered in is
InsertEvidence(d, j, is) ==
  [d EXCEPT !.ev = [e \in EvidenceId |->
                      IF e[1] = j.binary /\ e[2] \in is
                      THEN [run |-> j.run, subject |-> j.path] ELSE d.ev[e]]]

\* upsert_binary_record
UpsertRow(d, b, by, n) == [d EXCEPT !.row[b] = [by |-> by, count |-> n]]

\* UPDATE analysis_runs SET status
CompleteRun(d, j) == [d EXCEPT !.status[j.run] = "completed"]

\* the binaries, b apart, that lose evidence when that of path p is deleted
Victims(b, p) ==
  {c \in Binary \ {b} : \E i \in 0..MaxFn : db.ev[<<c, i>>].subject = p}

-----------------------------------------------------------------------------
(* An analysis run.                                                        *)

\* begin_analysis_run: the run is inserted as Running, what earlier runs left
\* of the binary is deleted, its debug import and imports are inserted.  The
\* run is the first unused one, since UUIDs do not repeat.
Begin(s, b, p, pf, r) ==
  /\ pc[s] = "idle"
  /\ lock = None
  /\ db.status[r] = "none"
  /\ \A q \in 1..(r - 1) : db.status[q] # "none"
  /\ LET j == [binary |-> b, path |-> p, profile |-> pf, run |-> r]
         functionless == DeleteFunctions(InsertRun(db, j), b)
         cleared == DeleteEvidence(DeleteImports(functionless, b), p)
     IN  /\ work' = InsertImports(InsertEvidence(cleared, j, {0}), b)
         /\ job' = [job EXCEPT ![s] = j]
  /\ lock' = s
  /\ pc' = [pc EXCEPT ![s] = "ingest"]
  /\ UNCHANGED <<db, ingested, pending, stolen, disturbed>>

\* ingest_function in the lean profile: a row that lists evidence ids, of
\* evidence that is not recorded
IngestLean(s) ==
  /\ pc[s] = "ingest"
  /\ job[s].profile = "lean"
  /\ ingested[s] < MaxFn
  /\ work' = InsertFunction(work, job[s], ingested[s] + 1)
  /\ ingested' = [ingested EXCEPT ![s] = @ + 1]
  /\ UNCHANGED <<db, lock, pc, job, pending, stolen, disturbed>>

\* ingest_function in the full profile: the row, and the evidence into the
\* buffer, which is written out when it is full
IngestFull(s) ==
  /\ pc[s] = "ingest"
  /\ job[s].profile = "full"
  /\ ingested[s] < MaxFn
  /\ LET i == ingested[s] + 1
         buffer == pending[s] \cup {i}
         inserted == InsertFunction(work, job[s], i)
     IN  IF Cardinality(buffer) >= FlushAt
         THEN /\ work' = InsertEvidence(inserted, job[s], buffer)
              /\ pending' = [pending EXCEPT ![s] = {}]
         ELSE /\ work' = inserted
              /\ pending' = [pending EXCEPT ![s] = buffer]
  /\ ingested' = [ingested EXCEPT ![s] = @ + 1]
  /\ UNCHANGED <<db, lock, pc, job, stolen, disturbed>>

\* the buffered evidence is forgotten
Flushed_Slip(s) == work

\* flush_pending_evidence
Flushed(s) == InsertEvidence(work, job[s], pending[s])

\* added to the count of the run before
FunctionCount_Slip(s) == db.row[job[s].binary].count + ingested[s]

\* survey.summary.function_count
FunctionCount(s) == ingested[s]

\* finalize, up to and including COMMIT
Finalize(s) ==
  /\ pc[s] = "ingest"
  /\ LET listed == UpsertRow(Flushed(s), job[s].binary, "analysis", FunctionCount(s))
     IN  db' = CompleteRun(listed, job[s])
  /\ work' = db'
  /\ lock' = None
  /\ End(s)
  /\ stolen' = (stolen \cup Victims(job[s].binary, job[s].path)) \ {job[s].binary}
  /\ disturbed' =
       IF \E t \in Session : pc[t] = "insert" /\ job[t].binary = job[s].binary
       THEN disturbed \cup {job[s].binary} ELSE disturbed \ {job[s].binary}

\* an unfinished session that is dropped commits what it has
Abort_Slip(s) ==
  /\ pc[s] = "ingest"
  /\ db' = work
  /\ lock' = None
  /\ End(s)
  /\ UNCHANGED <<work, stolen, disturbed>>

\* Drop of an unfinished session, after an error of ingest_function or
\* finalize or a panic; the death of the process has the same effect
Abort(s) ==
  /\ pc[s] = "ingest"
  /\ work' = db
  /\ lock' = None
  /\ End(s)
  /\ UNCHANGED <<db, stolen, disturbed>>

-----------------------------------------------------------------------------
(* register_binary: three statements, between which others may write.      *)

\* upsert_binary_record, with the counts of a binary not analysed yet
RegisterRow(s, b, p) ==
  /\ pc[s] = "idle"
  /\ lock = None
  /\ db' = UpsertRow(db, b, "register", 0)
  /\ work' = db'
  /\ job' = [job EXCEPT ![s] = [binary |-> b, path |-> p,
                                profile |-> "full", run |-> 0]]
  /\ pc' = [pc EXCEPT ![s] = "delete"]
  /\ UNCHANGED <<lock, ingested, pending, stolen, disturbed>>

RegisterDelete(s) ==
  /\ pc[s] = "delete"
  /\ lock = None
  /\ db' = DeleteImports(db, job[s].binary)
  /\ work' = db'
  /\ pc' = [pc EXCEPT ![s] = "insert"]
  /\ disturbed' =
       IF \E t \in Session \ {s} : pc[t] = "insert" /\ job[t].binary = job[s].binary
       THEN disturbed \cup {job[s].binary} ELSE disturbed \ {job[s].binary}
  /\ UNCHANGED <<lock, job, ingested, pending, stolen>>

\* persist_binary_imports_on_conn
RegisterInsert(s) ==
  /\ pc[s] = "insert"
  /\ lock = None
  /\ db' = InsertImports(db, job[s].binary)
  /\ work' = db'
  /\ End(s)
  /\ UNCHANGED <<lock, stolen, disturbed>>

\* A statement fails, with SQLITE_BUSY after waiting two seconds for the lock
\* of a run, or the process dies: what was done stays.
RegisterFail(s) ==
  /\ pc[s] \in {"delete", "insert"}
  /\ End(s)
  /\ disturbed' = disturbed \cup {job[s].binary}
  /\ UNCHANGED <<db, work, lock, stolen>>

-----------------------------------------------------------------------------

Analyse(s) ==
  \/ \E b \in Binary, p \in Path, pf \in Profile, r \in Run : Begin(s, b, p, pf, r)
  \/ IngestLean(s) \/ IngestFull(s) \/ Finalize(s) \/ Abort(s)

Register(s) ==
  \/ \E b \in Binary, p \in Path : RegisterRow(s, b, p)
  \/ RegisterDelete(s) \/ RegisterInsert(s) \/ RegisterFail(s)

Next == \E s \in Session : Analyse(s) \/ Register(s)

Spec == Init /\ [][Next]_vars

-----------------------------------------------------------------------------
(* Properties.                                                             *)

Job == [binary : Binary, path : Path, profile : {"lean", "full"}, run : 0..MaxRun]

TypeOK ==
  /\ db \in Database
  /\ work \in Database
  /\ lock \in Session \cup {None}
  /\ pc \in [Session -> {"idle", "ingest", "delete", "insert"}]
  /\ job \in [Session -> Job \cup {None}]
  /\ ingested \in [Session -> 0..MaxFn]
  /\ pending \in [Session -> SUBSET Fn]
  /\ stolen \in SUBSET Binary
  /\ disturbed \in SUBSET Binary

\* The runs that have committed rows of functions of b.
Writers(b) == {db.fns[b][i] : i \in Fn} \ {0}

\* The functions a query finds of a binary are the first n of one completed
\* run: no row of an earlier, larger run survives, no row of an unfinished or
\* failed one appears, whatever sessions do at once.
WholeRun ==
  \A b \in Binary :
    /\ \A i, j \in Fn : i <= j /\ db.fns[b][j] # 0 => db.fns[b][i] = db.fns[b][j]
    /\ \A r \in Writers(b) : db.status[r] = "completed"

\* The evidence of every function of a full run is recorded, buffered or not,
\* unless a run of another binary read from the same path has deleted it.
EvidenceBacked ==
  \A b \in Binary, i \in Fn :
    LET r == db.fns[b][i]
    IN  r # 0 /\ db.profile[r] = "full" /\ b \notin stolen =>
          db.ev[<<b, i>>].run = r

\* The function_count of a binary is the number of its functions, as long as
\* it was not registered again after its last analysis.
CountMatches ==
  \A b \in Binary :
    db.row[b].by = "analysis" =>
      db.row[b].count = Cardinality({i \in Fn : db.fns[b][i] # 0})

\* An analysed or registered binary has its imports once, unless a
\* register_binary failed halfway or overlapped with another writer.
ImportsOnce ==
  \A b \in Binary :
    db.row[b].by # "none" /\ b \notin disturbed =>
      \/ db.imports[b] = 1
      \/ \E s \in Session : pc[s] \in {"delete", "insert"} /\ job[s].binary = b

\* The functions of b that a query finds, each with the run that wrote it.
Shown(b) == [i \in {i \in Fn : db.fns[b][i] # 0} |-> db.fns[b][i]]

Snapshot == INSTANCE AnalysisSnapshot WITH
  shown <- [b \in Binary |-> Shown(b)],
  completed <- {r \in Run : db.status[r] = "completed"}

\* Readers see each binary's analysis replaced whole, by one completed run.
ImplementsSnapshot == Snapshot!Spec

\* "evidence ID 全程可追溯" (benches/vs-jadx-2026-09.md): an evidence id can be
\* followed to its evidence from every function that lists it.
EvidenceTraceable ==
  \A b \in Binary, i \in Fn :
    db.fns[b][i] # 0 => db.ev[<<b, i>>] # NoEvidence

=============================================================================

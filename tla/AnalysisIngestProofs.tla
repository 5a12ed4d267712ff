------------------------ MODULE AnalysisIngestProofs ------------------------
(***************************************************************************)
(* Theorems about AnalysisIngest, for every set of sessions, binaries,     *)
(* paths and profiles and all bounds: the functions of a binary that       *)
(* readers see are always those of one completed run, and their evidence   *)
(* and the imports of the binary go with them.                             *)
(***************************************************************************)
EXTENDS AnalysisIngest, FiniteSetTheorems, TLAPS

\* A run is being ingested by the session that holds the lock, and by no
\* other; outside of a transaction there is nothing uncommitted.
LockHeld ==
  /\ \A s \in Session : pc[s] = "ingest" <=> lock = s
  /\ lock = None => work = db

\* A call has its arguments.
JobKnown ==
  \A s \in Session :
    /\ pc[s] # "idle" => job[s] \in Job
    /\ pc[s] = "idle" => ingested[s] = 0

\* The open transaction differs from what is committed in the run it has
\* begun and in the functions of its binary, which are those ingested so far.
WorkOfRun ==
  \A s \in Session : lock = s =>
    /\ job[s].run \in Run
    /\ db.status[job[s].run] = "none"
    /\ work.status = [db.status EXCEPT ![job[s].run] = "running"]
    /\ work.row = db.row
    /\ work.fns = [db.fns EXCEPT ![job[s].binary] =
                     [i \in Fn |-> IF i <= ingested[s] THEN job[s].run ELSE 0]]

\* A completed run has left the first n functions of its binary.
CommittedRun ==
  \A b \in Binary : db.row[b].by = "analysis" =>
    \A i \in Fn : db.fns[b][i] # 0 <=> i <= db.row[b].count

\* What the open transaction has recorded: the profile of its run, the evidence
\* of the functions it has ingested, but for what is still buffered, and the
\* imports of its binary once.  The evidence of others it has left alone, but
\* for what it deleted with its path.
WorkEvidence ==
  \A s \in Session : lock = s =>
    /\ work.profile = [db.profile EXCEPT ![job[s].run] = job[s].profile]
    /\ \A c \in Binary, i \in Fn :
         c # job[s].binary /\ c \notin Victims(job[s].binary, job[s].path) =>
           work.ev[<<c, i>>] = db.ev[<<c, i>>]
    /\ job[s].profile = "full" =>
         \A i \in Fn : i <= ingested[s] =>
           i \in pending[s] \/ work.ev[<<job[s].binary, i>>].run = job[s].run
    /\ work.imports = [db.imports EXCEPT ![job[s].binary] = 1]

\* A registration of b that has deleted its imports and not inserted them yet.
Inserting(s, b) == pc[s] = "insert" /\ job[s].binary = b

\* As long as nothing disturbed them, the imports of a binary are gone while
\* the one registration that deleted them is at it, and there once before and
\* after.
ImportsInv ==
  \A b \in Binary : b \notin disturbed =>
    /\ \A s \in Session : Inserting(s, b) =>
         db.imports[b] = 0 /\ \A t \in Session : Inserting(t, b) => t = s
    /\ db.row[b].by # "none" /\ (\A s \in Session : ~ Inserting(s, b)) =>
         \/ db.imports[b] = 1
         \/ \E s \in Session : pc[s] = "delete" /\ job[s].binary = b

IInv ==
  /\ TypeOK
  /\ LockHeld
  /\ JobKnown
  /\ WorkOfRun
  /\ WholeRun
  /\ CommittedRun

-----------------------------------------------------------------------------
(* What the statements do to a database.                                   *)

Evidence == [run : 0..MaxRun, subject : Path \cup {None}]

LEMMA Tables ==
  ASSUME NEW d \in Database
  PROVE  /\ d.status \in [Run -> {"none", "running", "completed"}]
         /\ d.profile \in [Run -> {"lean", "full"}]
         /\ d.fns \in [Binary -> [Fn -> 0..MaxRun]]
         /\ d.row \in [Binary -> [by : {"none", "register", "analysis"},
                                  count : 0..MaxFn]]
         /\ d.imports \in [Binary -> Nat]
         /\ d.ev \in [EvidenceId -> Evidence]
  BY DEF Database, Evidence

\* The tables of d that a run is judged by are those of e.
SameRuns(d, e) == d.fns = e.fns /\ d.status = e.status /\ d.row = e.row

LEMMA SetImports ==
  ASSUME NEW d \in Database, NEW x \in [Binary -> Nat],
         NEW e, e = [d EXCEPT !.imports = x]
  PROVE  e \in Database /\ SameRuns(e, d)
  BY DEF Database, SameRuns

LEMMA SetEvidence ==
  ASSUME NEW d \in Database, NEW x \in [EvidenceId -> Evidence],
         NEW e, e = [d EXCEPT !.ev = x]
  PROVE  e \in Database /\ SameRuns(e, d)
  BY DEF Database, Evidence, SameRuns

LEMMA DeleteImportsFact ==
  ASSUME NEW d \in Database, NEW b \in Binary
  PROVE  DeleteImports(d, b) \in Database /\ SameRuns(DeleteImports(d, b), d)
<1>1. DeleteImports(d, b) = [d EXCEPT !.imports = [d.imports EXCEPT ![b] = 0]]
  BY DEF DeleteImports
<1>2. [d.imports EXCEPT ![b] = 0] \in [Binary -> Nat]
  BY Tables
<1> QED BY <1>1, <1>2, SetImports

LEMMA InsertImportsFact ==
  ASSUME NEW d \in Database, NEW b \in Binary
  PROVE  InsertImports(d, b) \in Database /\ SameRuns(InsertImports(d, b), d)
<1> DEFINE x == [d.imports EXCEPT ![b] = d.imports[b] + 1]
<1>1. InsertImports(d, b) = [d EXCEPT !.imports = x]
  BY DEF InsertImports
<1>2. x \in [Binary -> Nat]
  BY Tables
<1> QED BY <1>1, <1>2, SetImports

LEMMA DeleteEvidenceFact ==
  ASSUME NEW d \in Database, NEW p \in Path
  PROVE  DeleteEvidence(d, p) \in Database /\ SameRuns(DeleteEvidence(d, p), d)
<1> DEFINE x == [e \in EvidenceId |->
                   IF d.ev[e].subject = p THEN NoEvidence ELSE d.ev[e]]
<1>1. DeleteEvidence(d, p) = [d EXCEPT !.ev = x]
  BY DEF DeleteEvidence
<1>2. NoEvidence \in Evidence
  BY IngestAssumption DEF NoEvidence, Evidence
<1>3. x \in [EvidenceId -> Evidence]
  BY <1>2, Tables
<1> QED BY <1>1, <1>3, SetEvidence

LEMMA InsertEvidenceFact ==
  ASSUME NEW d \in Database, NEW j \in Job, NEW is
  PROVE  InsertEvidence(d, j, is) \in Database /\ SameRuns(InsertEvidence(d, j, is), d)
<1> DEFINE x == [e \in EvidenceId |->
                   IF e[1] = j.binary /\ e[2] \in is
                   THEN [run |-> j.run, subject |-> j.path] ELSE d.ev[e]]
<1>1. InsertEvidence(d, j, is) = [d EXCEPT !.ev = x]
  BY DEF InsertEvidence
<1>2. [run |-> j.run, subject |-> j.path] \in Evidence
  BY DEF Job, Evidence
<1>3. x \in [EvidenceId -> Evidence]
  BY <1>2, Tables
<1> QED BY <1>1, <1>3, SetEvidence

LEMMA DeleteFunctionsFact ==
  ASSUME NEW d \in Database, NEW b \in Binary
  PROVE  /\ DeleteFunctions(d, b) \in Database
         /\ DeleteFunctions(d, b).fns = [d.fns EXCEPT ![b] = [i \in Fn |-> 0]]
         /\ DeleteFunctions(d, b).status = d.status
         /\ DeleteFunctions(d, b).row = d.row
<1> DEFINE x == [d.fns EXCEPT ![b] = [i \in Fn |-> 0]]
<1>1. DeleteFunctions(d, b) = [d EXCEPT !.fns = x]
  BY DEF DeleteFunctions
<1>2. x \in [Binary -> [Fn -> 0..MaxRun]]
  BY Tables, IngestAssumption
<1> HIDE DEF x
<1>3. /\ DeleteFunctions(d, b) \in Database
      /\ DeleteFunctions(d, b).fns = x
      /\ DeleteFunctions(d, b).status = d.status
      /\ DeleteFunctions(d, b).row = d.row
  BY <1>1, <1>2 DEF Database
<1> QED BY <1>3 DEF x

LEMMA InsertRunFact ==
  ASSUME NEW d \in Database, NEW j \in Job, j.run \in Run
  PROVE  /\ InsertRun(d, j) \in Database
         /\ InsertRun(d, j).fns = d.fns
         /\ InsertRun(d, j).row = d.row
         /\ InsertRun(d, j).status = [d.status EXCEPT ![j.run] = "running"]
<1> DEFINE x == [d.status EXCEPT ![j.run] = "running"]
           y == [d.profile EXCEPT ![j.run] = j.profile]
<1>1. InsertRun(d, j) = [d EXCEPT !.status = x, !.profile = y]
  BY DEF InsertRun
<1>2. /\ x \in [Run -> {"none", "running", "completed"}]
      /\ y \in [Run -> {"lean", "full"}]
  BY Tables DEF Job
<1> HIDE DEF x, y
<1>3. /\ InsertRun(d, j) \in Database
      /\ InsertRun(d, j).fns = d.fns
      /\ InsertRun(d, j).row = d.row
      /\ InsertRun(d, j).status = x
  BY <1>1, <1>2 DEF Database
<1> QED BY <1>3 DEF x

LEMMA InsertFunctionFact ==
  ASSUME NEW d \in Database, NEW j \in Job, NEW i \in Fn
  PROVE  /\ InsertFunction(d, j, i) \in Database
         /\ InsertFunction(d, j, i).fns =
              [d.fns EXCEPT ![j.binary] = [d.fns[j.binary] EXCEPT ![i] = j.run]]
         /\ InsertFunction(d, j, i).status = d.status
         /\ InsertFunction(d, j, i).row = d.row
<1> DEFINE x == [d.fns EXCEPT ![j.binary] = [d.fns[j.binary] EXCEPT ![i] = j.run]]
<1>1. InsertFunction(d, j, i) = [d EXCEPT !.fns = x]
  BY DEF InsertFunction
<1>2. x \in [Binary -> [Fn -> 0..MaxRun]]
  BY Tables DEF Job
<1> HIDE DEF x
<1>3. /\ InsertFunction(d, j, i) \in Database
      /\ InsertFunction(d, j, i).fns = x
      /\ InsertFunction(d, j, i).status = d.status
      /\ InsertFunction(d, j, i).row = d.row
  BY <1>1, <1>2 DEF Database
<1> QED BY <1>3 DEF x

LEMMA UpsertRowFact ==
  ASSUME NEW d \in Database, NEW b \in Binary,
         NEW by, by \in {"register", "analysis"}, NEW n \in 0..MaxFn
  PROVE  /\ UpsertRow(d, b, by, n) \in Database
         /\ UpsertRow(d, b, by, n).fns = d.fns
         /\ UpsertRow(d, b, by, n).status = d.status
         /\ UpsertRow(d, b, by, n).row =
              [d.row EXCEPT ![b] = [by |-> by, count |-> n]]
<1> DEFINE x == [d.row EXCEPT ![b] = [by |-> by, count |-> n]]
<1>1. UpsertRow(d, b, by, n) = [d EXCEPT !.row = x]
  BY DEF UpsertRow
<1>2. x \in [Binary -> [by : {"none", "register", "analysis"}, count : 0..MaxFn]]
  BY Tables
<1> HIDE DEF x
<1>3. /\ UpsertRow(d, b, by, n) \in Database
      /\ UpsertRow(d, b, by, n).fns = d.fns
      /\ UpsertRow(d, b, by, n).status = d.status
      /\ UpsertRow(d, b, by, n).row = x
  BY <1>1, <1>2 DEF Database
<1> QED BY <1>3 DEF x

LEMMA CompleteRunFact ==
  ASSUME NEW d \in Database, NEW j \in Job, j.run \in Run
  PROVE  /\ CompleteRun(d, j) \in Database
         /\ CompleteRun(d, j).fns = d.fns
         /\ CompleteRun(d, j).row = d.row
         /\ CompleteRun(d, j).status = [d.status EXCEPT ![j.run] = "completed"]
<1> DEFINE x == [d.status EXCEPT ![j.run] = "completed"]
<1>1. CompleteRun(d, j) = [d EXCEPT !.status = x]
  BY DEF CompleteRun
<1>2. x \in [Run -> {"none", "running", "completed"}]
  BY Tables
<1> HIDE DEF x
<1>3. /\ CompleteRun(d, j) \in Database
      /\ CompleteRun(d, j).fns = d.fns
      /\ CompleteRun(d, j).row = d.row
      /\ CompleteRun(d, j).status = x
  BY <1>1, <1>2 DEF Database
<1> QED BY <1>3 DEF x

\* The functions written by a run that ingested n of them number n.
LEMMA CountOfPrefix ==
  ASSUME NEW n \in 0..MaxFn, NEW f,
         \A i \in Fn : f[i] # 0 <=> i <= n
  PROVE  Cardinality({i \in Fn : f[i] # 0}) = n
<1>1. {i \in Fn : f[i] # 0} = 1..n
  BY IngestAssumption DEF Fn
<1>2. Cardinality(1..n) = n
  BY FS_Interval
<1> QED BY <1>1, <1>2

\* The functions of a run that has ingested n of them.
Prefix(r, n) == [i \in Fn |-> IF i <= n THEN r ELSE 0]

LEMMA PrefixGrows ==
  ASSUME NEW r \in Run, NEW n \in 0..MaxFn, n < MaxFn
  PROVE  /\ n + 1 \in Fn
         /\ [Prefix(r, n) EXCEPT ![n + 1] = r] = Prefix(r, n + 1)
<1>1. n + 1 \in Fn
  BY IngestAssumption DEF Fn
<1>2. ASSUME NEW i \in Fn
      PROVE  [Prefix(r, n) EXCEPT ![n + 1] = r][i] = Prefix(r, n + 1)[i]
  BY DEF Prefix, Fn
<1> QED BY <1>1, <1>2 DEF Prefix

-----------------------------------------------------------------------------
(* The invariant.                                                          *)

LEMMA InitInv == Init => IInv
<1> SUFFICES ASSUME Init PROVE IInv
  OBVIOUS
<1> USE IngestAssumption DEF Init
<1>1. db \in Database
  BY DEF Database, NoEvidence, NoRow
<1>2. TypeOK
  BY <1>1 DEF TypeOK
<1>3. LockHeld /\ JobKnown /\ WorkOfRun
  BY DEF LockHeld, JobKnown, WorkOfRun
<1>4. WholeRun
  BY DEF WholeRun, Writers
<1>5. CommittedRun
  BY DEF CommittedRun, NoRow
<1> QED BY <1>2, <1>3, <1>4, <1>5 DEF IInv

LEMMA BeginInv ==
  ASSUME IInv, NEW s \in Session, NEW b \in Binary, NEW p \in Path,
         NEW pf \in Profile, NEW r \in Run, Begin(s, b, p, pf, r)
  PROVE  IInv'
<1> USE IngestAssumption DEF IInv
<1> DEFINE j == [binary |-> b, path |-> p, profile |-> pf, run |-> r]
           began == InsertRun(db, j)
           noFns == DeleteFunctions(began, b)
           noImports == DeleteImports(noFns, b)
           cleared == DeleteEvidence(noImports, p)
           debug == InsertEvidence(cleared, j, {0})
<1>1. db \in Database /\ pf \in {"lean", "full"} /\ j \in Job
  BY DEF TypeOK, Job, Run, Begin
<1>2. /\ began \in Database
      /\ began.fns = db.fns /\ began.row = db.row
      /\ began.status = [db.status EXCEPT ![r] = "running"]
  BY <1>1, InsertRunFact
<1>3. work' = InsertImports(debug, b)
  BY DEF Begin
<1> HIDE DEF began
<1>4. /\ noFns \in Database
      /\ noFns.fns = [db.fns EXCEPT ![b] = [i \in Fn |-> 0]]
      /\ noFns.row = db.row
      /\ noFns.status = [db.status EXCEPT ![r] = "running"]
  BY <1>2, DeleteFunctionsFact DEF noFns
<1> HIDE DEF noFns
<1>5. noImports \in Database /\ SameRuns(noImports, noFns)
  BY <1>4, DeleteImportsFact
<1> HIDE DEF noImports
<1>6. cleared \in Database /\ SameRuns(cleared, noImports)
  BY <1>5, DeleteEvidenceFact
<1> HIDE DEF cleared
<1>7. debug \in Database /\ SameRuns(debug, cleared)
  BY <1>1, <1>6, InsertEvidenceFact
<1> HIDE DEF debug, j
<1>8. work' \in Database /\ SameRuns(work', debug)
  BY <1>3, <1>7, InsertImportsFact
<1>9. /\ work'.fns = [db.fns EXCEPT ![b] = [i \in Fn |-> 0]]
      /\ work'.row = db.row
      /\ work'.status = [db.status EXCEPT ![r] = "running"]
  BY <1>4, <1>5, <1>6, <1>7, <1>8 DEF SameRuns
<1>10. /\ job' = [job EXCEPT ![s] = j] /\ db' = db /\ lock' = s
       /\ pc' = [pc EXCEPT ![s] = "ingest"] /\ ingested' = ingested
       /\ ingested[s] = 0 /\ j.binary = b /\ j.run = r
  BY DEF j, JobKnown, Begin
<1>11. TypeOK'
  BY <1>1, <1>8, <1>10 DEF TypeOK, Begin
<1>12. LockHeld'
  BY <1>10 DEF LockHeld, TypeOK, Begin
<1>13. JobKnown'
  BY <1>1, <1>10 DEF JobKnown, TypeOK
<1>14. [i \in Fn |-> 0] = [i \in Fn |-> IF i <= 0 THEN r ELSE 0]
  BY DEF Fn
<1>15. WorkOfRun'
  BY <1>9, <1>10, <1>14 DEF WorkOfRun, TypeOK, Begin
<1>16. WholeRun' /\ CommittedRun'
  BY <1>10 DEF WholeRun, CommittedRun, Writers
<1> QED BY <1>11, <1>12, <1>13, <1>15, <1>16

\* The two ways of ingesting a function.
LEMMA IngestInv ==
  ASSUME IInv, NEW s \in Session, IngestLean(s) \/ IngestFull(s)
  PROVE  IInv'
<1> USE IngestAssumption DEF IInv
<1> DEFINE b == job[s].binary
           r == job[s].run
           n == ingested[s]
           inserted == InsertFunction(work, job[s], n + 1)
<1>1. /\ pc[s] = "ingest" /\ lock = s /\ n < MaxFn /\ n \in 0..MaxFn
      /\ job[s] \in Job /\ r \in Run /\ b \in Binary /\ work \in Database
  BY DEF IngestLean, IngestFull, LockHeld, JobKnown, WorkOfRun, TypeOK, Job
<1>2. /\ work.fns = [db.fns EXCEPT ![b] = Prefix(r, n)]
      /\ work.row = db.row
      /\ work.status = [db.status EXCEPT ![r] = "running"]
      /\ db.status[r] = "none"
  BY <1>1 DEF WorkOfRun, Prefix
<1>3. n + 1 \in Fn
  BY <1>1, PrefixGrows
<1>4. /\ inserted \in Database
      /\ inserted.fns = [work.fns EXCEPT ![b] = [work.fns[b] EXCEPT ![n + 1] = r]]
      /\ inserted.status = work.status /\ inserted.row = work.row
  BY <1>1, <1>3, InsertFunctionFact
<1>5. db.fns \in [Binary -> [Fn -> 0..MaxRun]]
  BY Tables DEF TypeOK
<1>6. work.fns[b] = Prefix(r, n)
  BY <1>1, <1>2, <1>5
<1>7. inserted.fns = [db.fns EXCEPT ![b] = Prefix(r, n + 1)]
  BY <1>1, <1>2, <1>4, <1>5, <1>6, PrefixGrows
<1> HIDE DEF inserted
<1>8. work' \in Database /\ SameRuns(work', inserted)
  <2>1. CASE work' = inserted
    BY <1>4, <2>1 DEF SameRuns
  <2>2. CASE \E is : work' = InsertEvidence(inserted, job[s], is)
    BY <1>1, <1>4, <2>2, InsertEvidenceFact
  <2>3. IngestLean(s) => work' = inserted
    BY DEF IngestLean, inserted
  <2>4. IngestFull(s) => \/ work' = inserted
                         \/ work' = InsertEvidence(inserted, job[s], pending[s] \cup {n + 1})
    BY DEF IngestFull, inserted
  <2> QED BY <2>1, <2>2, <2>3, <2>4
<1>9. /\ db' = db /\ lock' = lock /\ pc' = pc /\ job' = job
      /\ stolen' = stolen /\ disturbed' = disturbed
      /\ ingested' = [ingested EXCEPT ![s] = n + 1]
  BY DEF IngestLean, IngestFull
<1>10. pending' \in [Session -> SUBSET Fn]
  BY <1>3 DEF IngestLean, IngestFull, TypeOK
<1>11. TypeOK'
  <2>1. n + 1 \in 0..MaxFn
    BY <1>1
  <2>2. ingested' \in [Session -> 0..MaxFn]
    BY <1>9, <2>1 DEF TypeOK
  <2> QED BY <1>8, <1>9, <1>10, <2>2 DEF TypeOK
<1>12. LockHeld' /\ JobKnown'
  BY <1>1, <1>9 DEF LockHeld, JobKnown, TypeOK
<1>13. WorkOfRun'
  <2>1. ingested'[s] = n + 1
    BY <1>9 DEF TypeOK
  <2>2. /\ work'.fns = [db.fns EXCEPT ![b] = Prefix(r, n + 1)]
        /\ work'.row = db.row
        /\ work'.status = [db.status EXCEPT ![r] = "running"]
    BY <1>2, <1>4, <1>7, <1>8 DEF SameRuns
  <2> QED BY <1>1, <1>2, <1>9, <2>1, <2>2 DEF WorkOfRun, Prefix
<1>14. WholeRun' /\ CommittedRun'
  BY <1>9 DEF WholeRun, CommittedRun, Writers
<1> QED BY <1>11, <1>12, <1>13, <1>14

\* What finalize commits: the functions ingested, the row and the run.
LEMMA FinalizeEffect ==
  ASSUME IInv, NEW s \in Session, Finalize(s),
         NEW b, b = job[s].binary, NEW r, r = job[s].run, NEW n, n = ingested[s]
  PROVE  /\ lock = s /\ n \in 0..MaxFn /\ r \in Run /\ b \in Binary
         /\ db' \in Database
         /\ \A c \in Binary :
              /\ db'.fns[c] = IF c = b THEN Prefix(r, n) ELSE db.fns[c]
              /\ db'.row[c] = IF c = b THEN [by |-> "analysis", count |-> n]
                                       ELSE db.row[c]
         /\ db.status[r] = "none"
         /\ \A q \in Run :
              db'.status[q] = IF q = r THEN "completed" ELSE db.status[q]
<1> DEFINE listed == UpsertRow(Flushed(s), b, "analysis", n)
<1>1. /\ pc[s] = "ingest" /\ lock = s /\ n \in 0..MaxFn
      /\ job[s] \in Job /\ r \in Run /\ b \in Binary /\ work \in Database
  BY DEF Finalize, LockHeld, JobKnown, WorkOfRun, TypeOK, Job, IInv
<1>2. /\ work.fns = [db.fns EXCEPT ![b] = Prefix(r, n)]
      /\ work.row = db.row
      /\ work.status = [db.status EXCEPT ![r] = "running"]
      /\ db.status[r] = "none"
  BY <1>1 DEF WorkOfRun, Prefix, IInv
<1>3. Flushed(s) \in Database /\ SameRuns(Flushed(s), work)
  BY <1>1, InsertEvidenceFact DEF Flushed
<1>4. /\ listed \in Database /\ listed.fns = Flushed(s).fns
      /\ listed.status = Flushed(s).status
      /\ listed.row = [Flushed(s).row EXCEPT ![b] = [by |-> "analysis", count |-> n]]
  BY <1>1, <1>3, UpsertRowFact
<1>5. db' = CompleteRun(listed, job[s])
  BY DEF Finalize, FunctionCount
<1> HIDE DEF listed
<1>6. /\ db' \in Database /\ db'.fns = listed.fns /\ db'.row = listed.row
      /\ db'.status = [listed.status EXCEPT ![r] = "completed"]
  BY <1>1, <1>4, <1>5, CompleteRunFact
<1>7. /\ db'.fns = [db.fns EXCEPT ![b] = Prefix(r, n)]
      /\ db'.row = [db.row EXCEPT ![b] = [by |-> "analysis", count |-> n]]
      /\ db'.status = [[db.status EXCEPT ![r] = "running"] EXCEPT ![r] = "completed"]
  BY <1>2, <1>3, <1>4, <1>6 DEF SameRuns
<1>8. /\ db.fns \in [Binary -> [Fn -> 0..MaxRun]]
      /\ db.row \in [Binary -> [by : {"none", "register", "analysis"}, count : 0..MaxFn]]
      /\ db.status \in [Run -> {"none", "running", "completed"}]
  BY Tables DEF IInv, TypeOK
<1>9. ASSUME NEW c \in Binary
      PROVE  /\ db'.fns[c] = IF c = b THEN Prefix(r, n) ELSE db.fns[c]
             /\ db'.row[c] = IF c = b THEN [by |-> "analysis", count |-> n]
                                      ELSE db.row[c]
  BY <1>7, <1>8
<1>10. ASSUME NEW q \in Run
       PROVE  db'.status[q] = IF q = r THEN "completed" ELSE db.status[q]
  BY <1>7, <1>8
<1> QED BY <1>1, <1>2, <1>6, <1>9, <1>10

LEMMA FinalizeInv ==
  ASSUME IInv, NEW s \in Session, Finalize(s)
  PROVE  IInv'
<1> USE IngestAssumption DEF IInv
<1>1. PICK b, r, n : b = job[s].binary /\ r = job[s].run /\ n = ingested[s]
  OBVIOUS
<1>2. /\ lock = s /\ n \in 0..MaxFn /\ r \in Run /\ b \in Binary
      /\ db' \in Database
      /\ \A c \in Binary :
           /\ db'.fns[c] = IF c = b THEN Prefix(r, n) ELSE db.fns[c]
           /\ db'.row[c] = IF c = b THEN [by |-> "analysis", count |-> n]
                                    ELSE db.row[c]
      /\ \A q \in Run :
           db'.status[q] = IF q = r THEN "completed" ELSE db.status[q]
  BY <1>1, FinalizeEffect
<1>3. /\ work' = db' /\ lock' = None /\ End(s)
      /\ stolen' \in SUBSET Binary /\ disturbed' \in SUBSET Binary
  BY <1>1, <1>2 DEF Finalize, Victims, TypeOK
<1>4. TypeOK'
  BY <1>2, <1>3 DEF TypeOK, End
<1>5. LockHeld' /\ JobKnown' /\ WorkOfRun'
  BY <1>2, <1>3 DEF LockHeld, JobKnown, WorkOfRun, TypeOK, End
<1>6. db.fns \in [Binary -> [Fn -> 0..MaxRun]]
  BY Tables DEF TypeOK
<1>7. \A i \in Fn : Prefix(r, n)[i] = IF i <= n THEN r ELSE 0
  BY DEF Prefix
<1>8. WholeRun'
  <2>1. ASSUME NEW c \in Binary, NEW i \in Fn, NEW j \in Fn,
               i <= j, db'.fns[c][j] # 0
        PROVE  db'.fns[c][i] = db'.fns[c][j]
    <3>1. CASE c = b
      BY <1>2, <1>7, <2>1, <3>1 DEF Fn
    <3>2. CASE c # b
      BY <1>2, <2>1, <3>2 DEF WholeRun
    <3> QED BY <3>1, <3>2
  <2>2. ASSUME NEW c \in Binary, NEW i \in Fn, db'.fns[c][i] # 0
        PROVE  db'.status[db'.fns[c][i]] = "completed"
    <3>1. CASE c = b
      BY <1>2, <1>7, <2>2, <3>1
    <3>2. CASE c # b
      <4>1. db.fns[c][i] \in Run
        BY <1>2, <1>6, <2>2, <3>2 DEF Run
      <4>2. db.status[db.fns[c][i]] = "completed"
        BY <1>2, <2>2, <3>2 DEF WholeRun, Writers
      <4> QED BY <1>2, <3>2, <4>1, <4>2
    <3> QED BY <3>1, <3>2
  <2> QED BY <2>1, <2>2 DEF WholeRun, Writers
<1>9. CommittedRun'
  <2> SUFFICES ASSUME NEW c \in Binary, db'.row[c].by = "analysis", NEW i \in Fn
               PROVE  db'.fns[c][i] # 0 <=> i <= db'.row[c].count
    BY DEF CommittedRun
  <2>1. CASE c = b
    BY <1>2, <1>7, <2>1 DEF Run
  <2>2. CASE c # b
    BY <1>2, <2>2 DEF CommittedRun
  <2> QED BY <2>1, <2>2
<1> QED BY <1>4, <1>5, <1>8, <1>9

LEMMA AbortInv ==
  ASSUME IInv, NEW s \in Session, Abort(s)
  PROVE  IInv'
<1> USE IngestAssumption DEF IInv, Abort, End
<1>1. lock = s
  BY DEF LockHeld
<1>2. TypeOK'
  BY DEF TypeOK
<1>3. LockHeld' /\ JobKnown' /\ WorkOfRun'
  BY <1>1 DEF LockHeld, JobKnown, WorkOfRun, TypeOK
<1>4. WholeRun' /\ CommittedRun'
  BY DEF WholeRun, CommittedRun, Writers
<1> QED BY <1>2, <1>3, <1>4

\* The statements of register_binary, none of which is in a transaction.
LEMMA RegisterInv ==
  ASSUME IInv, NEW s \in Session, Register(s)
  PROVE  IInv'
<1> USE IngestAssumption DEF IInv
<1>1. CASE RegisterFail(s)
  <2> USE <1>1 DEF RegisterFail, End
  <2>1. TypeOK'
    BY DEF TypeOK, JobKnown, Job
  <2>2. LockHeld' /\ JobKnown' /\ WorkOfRun'
    BY DEF LockHeld, JobKnown, WorkOfRun, TypeOK
  <2>3. WholeRun' /\ CommittedRun'
    BY DEF WholeRun, CommittedRun, Writers
  <2> QED BY <2>1, <2>2, <2>3
<1>2. CASE RegisterDelete(s) \/ RegisterInsert(s)
  <2>1. /\ job[s] \in Job /\ lock = None /\ lock' = lock /\ work' = db'
        /\ \/ db' = DeleteImports(db, job[s].binary)
           \/ db' = InsertImports(db, job[s].binary)
    BY <1>2 DEF RegisterDelete, RegisterInsert, JobKnown
  <2>2. db' \in Database /\ SameRuns(db', db)
    BY <2>1, DeleteImportsFact, InsertImportsFact DEF TypeOK, Job
  <2>3. TypeOK'
    BY <1>2, <2>1, <2>2 DEF RegisterDelete, RegisterInsert, End, TypeOK, Job
  <2>4. LockHeld' /\ JobKnown' /\ WorkOfRun'
    BY <1>2, <2>1 DEF RegisterDelete, RegisterInsert, End, LockHeld, JobKnown,
       WorkOfRun, TypeOK
  <2>5. WholeRun' /\ CommittedRun'
    BY <2>2 DEF WholeRun, CommittedRun, Writers, SameRuns
  <2> QED BY <2>3, <2>4, <2>5
<1>3. ASSUME NEW b \in Binary, NEW p \in Path, RegisterRow(s, b, p)
      PROVE  IInv'
  <2>1. /\ db' = UpsertRow(db, b, "register", 0) /\ work' = db'
        /\ lock = None /\ lock' = lock /\ pc[s] = "idle"
    BY <1>3 DEF RegisterRow
  <2>2. /\ db' \in Database /\ db'.fns = db.fns /\ db'.status = db.status
        /\ db'.row = [db.row EXCEPT ![b] = [by |-> "register", count |-> 0]]
    <3>1. 0 \in 0..MaxFn /\ db \in Database
      BY DEF TypeOK
    <3> QED BY <2>1, <3>1, UpsertRowFact
  <2>3. [binary |-> b, path |-> p, profile |-> "full", run |-> 0] \in Job
    BY DEF Job
  <2>4. TypeOK'
    BY <1>3, <2>1, <2>2, <2>3 DEF RegisterRow, TypeOK
  <2>5. LockHeld' /\ JobKnown' /\ WorkOfRun'
    BY <1>3, <2>1, <2>3 DEF RegisterRow, LockHeld, JobKnown, WorkOfRun, TypeOK
  <2>6. WholeRun'
    BY <2>2 DEF WholeRun, Writers
  <2>7. CommittedRun'
    <3>1. db.row \in [Binary -> [by : {"none", "register", "analysis"}, count : 0..MaxFn]]
      BY Tables DEF TypeOK
    <3> SUFFICES ASSUME NEW c \in Binary, db'.row[c].by = "analysis"
                 PROVE  c # b /\ db'.row[c] = db.row[c]
      BY <2>2 DEF CommittedRun
    <3> QED BY <2>2, <3>1
  <2> QED BY <2>4, <2>5, <2>6, <2>7
<1> QED BY <1>1, <1>2, <1>3 DEF Register

THEOREM Invariance == Spec => []IInv
<1>1. ASSUME IInv, [Next]_vars PROVE IInv'
  <2>1. CASE UNCHANGED vars
    BY <1>1, <2>1 DEF vars, IInv, TypeOK, LockHeld, JobKnown, WorkOfRun, WholeRun,
       CommittedRun, Writers
  <2>2. ASSUME NEW s \in Session, Analyse(s) PROVE IInv'
    BY <1>1, <2>2, BeginInv, IngestInv, FinalizeInv, AbortInv DEF Analyse
  <2>3. ASSUME NEW s \in Session, Register(s) PROVE IInv'
    BY <1>1, <2>3, RegisterInv
  <2> QED BY <1>1, <2>1, <2>2, <2>3 DEF Next
<1> QED BY <1>1, InitInv, PTL DEF Spec

-----------------------------------------------------------------------------
(* The theorems.                                                           *)

\* Every state of every behaviour has the types of TypeOK.
THEOREM TypeCorrect == Spec => []TypeOK
  BY Invariance, PTL DEF IInv

\* The functions that a query of a binary finds are the first of one
\* completed run (begin_analysis_run, ingest_function, finalize, Drop).
THEOREM WholeRunsOnly == Spec => []WholeRun
  BY Invariance, PTL DEF IInv

\* The function_count that finalize writes is the number of functions that
\* are there, until the binary is registered or analysed again.
THEOREM CountsMatch == Spec => []CountMatches
<1>1. IInv => CountMatches
  <2> SUFFICES ASSUME IInv, NEW b \in Binary, db.row[b].by = "analysis"
               PROVE  db.row[b].count = Cardinality({i \in Fn : db.fns[b][i] # 0})
    BY DEF CountMatches
  <2>1. db.row[b].count \in 0..MaxFn
    BY Tables DEF IInv, TypeOK
  <2>2. \A i \in Fn : db.fns[b][i] # 0 <=> i <= db.row[b].count
    BY DEF IInv, CommittedRun
  <2> QED BY <2>1, <2>2, CountOfPrefix
<1> QED BY <1>1, Invariance, PTL

\* A run publishes its functions in its last step.
LEMMA FinalizePublishes ==
  ASSUME IInv, NEW s \in Session, Finalize(s)
  PROVE  Snapshot!Next
<1>1. PICK b, r, n : b = job[s].binary /\ r = job[s].run /\ n = ingested[s]
  OBVIOUS
<1>2. /\ lock = s /\ n \in 0..MaxFn /\ r \in Run /\ b \in Binary
      /\ db' \in Database
      /\ \A c \in Binary :
           /\ db'.fns[c] = IF c = b THEN Prefix(r, n) ELSE db.fns[c]
           /\ db'.row[c] = IF c = b THEN [by |-> "analysis", count |-> n]
                                    ELSE db.row[c]
      /\ db.status[r] = "none"
      /\ \A q \in Run :
           db'.status[q] = IF q = r THEN "completed" ELSE db.status[q]
  BY <1>1, FinalizeEffect
<1>3. Shown(b)' = [i \in 1..n |-> r]
  <2>1. {i \in Fn : Prefix(r, n)[i] # 0} = 1..n
    BY <1>2, IngestAssumption DEF Prefix, Fn, Run
  <2>2. Shown(b)' = [i \in {i \in Fn : Prefix(r, n)[i] # 0} |-> Prefix(r, n)[i]]
    BY <1>2 DEF Shown
  <2>3. \A i \in 1..n : Prefix(r, n)[i] = r
    BY <1>2, IngestAssumption DEF Prefix, Fn
  <2> QED BY <2>1, <2>2, <2>3
<1>4. ASSUME NEW c \in Binary, c # b PROVE Shown(c)' = Shown(c)
  BY <1>2, <1>4 DEF Shown
<1>5. [c \in Binary |-> Shown(c)'] =
         [[c \in Binary |-> Shown(c)] EXCEPT ![b] = [i \in 1..n |-> r]]
  BY <1>2, <1>3, <1>4
<1>6. r \in (1..MaxRun) \ {q \in Run : db.status[q] = "completed"}
  BY <1>2 DEF Run
<1>7. {q \in Run : db'.status[q] = "completed"} =
         {q \in Run : db.status[q] = "completed"} \cup {r}
  BY <1>2
<1>8. Snapshot!Publish(b, r, n)
  BY <1>5, <1>6, <1>7 DEF Snapshot!Publish
<1> QED BY <1>2, <1>8 DEF Snapshot!Next, Run

\* Whatever sessions do at once, readers see the analysis of each binary
\* replaced whole, by the commit of one run.
THEOREM Refinement == Spec => ImplementsSnapshot
<1>1. Init => Snapshot!Init
  <2> SUFFICES ASSUME Init PROVE Snapshot!Init
    OBVIOUS
  <2>1. \A b \in Binary : {i \in Fn : db.fns[b][i] # 0} = {}
    BY DEF Init
  <2>2. \A b \in Binary : Shown(b) = [i \in {} |-> 0]
    BY <2>1 DEF Shown
  <2>3. {r \in Run : db.status[r] = "completed"} = {}
    BY DEF Init
  <2> QED BY <2>2, <2>3 DEF Snapshot!Init
<1>2. ASSUME IInv, [Next]_vars PROVE [Snapshot!Next]_(Snapshot!vars)
  <2>1. ASSUME db'.fns = db.fns, db'.status = db.status PROVE UNCHANGED Snapshot!vars
    BY <2>1 DEF Snapshot!vars, Shown
  <2>2. CASE UNCHANGED vars
    BY <2>1, <2>2 DEF vars
  <2>3. ASSUME NEW s \in Session, Analyse(s) PROVE [Snapshot!Next]_(Snapshot!vars)
    <3>1. CASE Finalize(s)
      BY <1>2, <3>1, FinalizePublishes
    <3>2. CASE ~ Finalize(s)
      BY <2>1, <2>3, <3>2 DEF Analyse, Begin, IngestLean, IngestFull, Abort
    <3> QED BY <3>1, <3>2
  <2>4. ASSUME NEW s \in Session, Register(s) PROVE [Snapshot!Next]_(Snapshot!vars)
    <3>1. db \in Database /\ job[s] \in Job \cup {None}
      BY <1>2 DEF IInv, TypeOK
    <3>2. ASSUME NEW b \in Binary, NEW p \in Path, RegisterRow(s, b, p)
          PROVE  db'.fns = db.fns /\ db'.status = db.status
      <4>1. 0 \in 0..MaxFn
        BY IngestAssumption
      <4> QED BY <3>1, <3>2, <4>1, UpsertRowFact DEF RegisterRow
    <3>3. CASE RegisterDelete(s) \/ RegisterInsert(s)
      <4>1. job[s].binary \in Binary
        BY <1>2, <3>3 DEF IInv, JobKnown, Job, RegisterDelete, RegisterInsert
      <4>2. SameRuns(db', db)
        BY <3>1, <3>3, <4>1, DeleteImportsFact, InsertImportsFact
           DEF RegisterDelete, RegisterInsert
      <4> QED BY <2>1, <4>2 DEF SameRuns
    <3>4. CASE RegisterFail(s)
      BY <2>1, <3>4 DEF RegisterFail
    <3> QED BY <2>1, <2>4, <3>2, <3>3, <3>4 DEF Register
  <2> QED BY <1>2, <2>2, <2>3, <2>4 DEF Next
<1> QED BY <1>1, <1>2, Invariance, PTL DEF Spec, ImplementsSnapshot, Snapshot!Spec

-----------------------------------------------------------------------------
(* Evidence and imports.  What the statements do to the other tables:      *)

\* The tables of d that evidence and imports are judged by are those of e.
SameItems(d, e) == d.profile = e.profile /\ d.ev = e.ev /\ d.imports = e.imports

LEMMA FunctionsAndRowsApart ==
  ASSUME NEW d \in Database
  PROVE  /\ \A b \in Binary : SameItems(DeleteFunctions(d, b), d)
         /\ \A j \in Job, i \in Fn : SameItems(InsertFunction(d, j, i), d)
         /\ \A b \in Binary : \A by, n : SameItems(UpsertRow(d, b, by, n), d)
         /\ \A j \in Job : SameItems(CompleteRun(d, j), d)
  BY DEF Database, SameItems, DeleteFunctions, InsertFunction, UpsertRow, CompleteRun

LEMMA InsertRunItems ==
  ASSUME NEW d \in Database, NEW j \in Job
  PROVE  /\ InsertRun(d, j).profile = [d.profile EXCEPT ![j.run] = j.profile]
         /\ InsertRun(d, j).ev = d.ev
         /\ InsertRun(d, j).imports = d.imports
  BY DEF Database, InsertRun

LEMMA ImportsItems ==
  ASSUME NEW d \in Database, NEW b \in Binary
  PROVE  /\ DeleteImports(d, b).imports = [d.imports EXCEPT ![b] = 0]
         /\ InsertImports(d, b).imports = [d.imports EXCEPT ![b] = d.imports[b] + 1]
         /\ DeleteImports(d, b).ev = d.ev /\ InsertImports(d, b).ev = d.ev
         /\ DeleteImports(d, b).profile = d.profile
         /\ InsertImports(d, b).profile = d.profile
  BY DEF Database, DeleteImports, InsertImports

LEMMA DeleteEvidenceItems ==
  ASSUME NEW d \in Database, NEW p
  PROVE  /\ DeleteEvidence(d, p).profile = d.profile
         /\ DeleteEvidence(d, p).imports = d.imports
         /\ \A e \in EvidenceId : d.ev[e].subject # p =>
              DeleteEvidence(d, p).ev[e] = d.ev[e]
  BY DEF Database, DeleteEvidence

LEMMA InsertEvidenceItems ==
  ASSUME NEW d \in Database, NEW j \in Job, NEW is
  PROVE  /\ InsertEvidence(d, j, is).profile = d.profile
         /\ InsertEvidence(d, j, is).imports = d.imports
         /\ \A c \in Binary, i \in 0..MaxFn :
              InsertEvidence(d, j, is).ev[<<c, i>>] =
                IF c = j.binary /\ i \in is
                THEN [run |-> j.run, subject |-> j.path] ELSE d.ev[<<c, i>>]
<1>1. \A c \in Binary, i \in 0..MaxFn : <<c, i>> \in EvidenceId
  BY DEF EvidenceId
<1> QED BY <1>1 DEF Database, InsertEvidence

ItemsInv == IInv /\ WorkEvidence /\ EvidenceBacked /\ ImportsInv

LEMMA InitItems == Init => ItemsInv
<1> SUFFICES ASSUME Init PROVE ItemsInv
  OBVIOUS
<1>1. WorkEvidence
  BY IngestAssumption DEF Init, WorkEvidence
<1>2. EvidenceBacked
  BY DEF Init, EvidenceBacked
<1>3. ImportsInv
  BY DEF Init, ImportsInv, Inserting, NoRow
<1> QED BY <1>1, <1>2, <1>3, InitInv DEF ItemsInv

LEMMA BeginItems ==
  ASSUME ItemsInv, NEW s \in Session, NEW b \in Binary, NEW p \in Path,
         NEW pf \in Profile, NEW r \in Run, Begin(s, b, p, pf, r)
  PROVE  WorkEvidence' /\ EvidenceBacked' /\ ImportsInv'
<1> USE IngestAssumption
<1> DEFINE j == [binary |-> b, path |-> p, profile |-> pf, run |-> r]
           began == InsertRun(db, j)
           noFns == DeleteFunctions(began, b)
           noImports == DeleteImports(noFns, b)
           cleared == DeleteEvidence(noImports, p)
           debug == InsertEvidence(cleared, j, {0})
<1>1. db \in Database /\ pf \in {"lean", "full"} /\ j \in Job /\ IInv
  BY DEF ItemsInv, IInv, TypeOK, Job, Run
<1>2. work' = InsertImports(debug, b)
  BY DEF Begin
<1>3. /\ began \in Database
      /\ began.profile = [db.profile EXCEPT ![r] = pf]
      /\ began.ev = db.ev /\ began.imports = db.imports
  BY <1>1, InsertRunFact, InsertRunItems
<1> HIDE DEF began
<1>4. /\ noFns \in Database /\ noFns.profile = began.profile
      /\ noFns.ev = began.ev /\ noFns.imports = began.imports
  BY <1>3, DeleteFunctionsFact, FunctionsAndRowsApart DEF SameItems
<1> HIDE DEF noFns
<1>5. /\ noImports \in Database /\ noImports.profile = noFns.profile
      /\ noImports.ev = noFns.ev
      /\ noImports.imports = [noFns.imports EXCEPT ![b] = 0]
  BY <1>4, DeleteImportsFact, ImportsItems
<1> HIDE DEF noImports
<1>6. /\ cleared \in Database /\ cleared.profile = noImports.profile
      /\ cleared.imports = noImports.imports
      /\ \A e \in EvidenceId : noImports.ev[e].subject # p =>
           cleared.ev[e] = noImports.ev[e]
  BY <1>5, DeleteEvidenceFact, DeleteEvidenceItems
<1>20. j.binary = b /\ {0} \subseteq 0..MaxFn
  OBVIOUS
<1> HIDE DEF cleared, j
<1>7. /\ debug \in Database /\ debug.profile = cleared.profile
      /\ debug.imports = cleared.imports
      /\ \A c \in Binary, i \in 0..MaxFn :
           c # b => debug.ev[<<c, i>>] = cleared.ev[<<c, i>>]
  <2>1. PICK is : is = {0}
    OBVIOUS
  <2>2. debug = InsertEvidence(cleared, j, is)
    BY <2>1
  <2>3. j \in Job /\ cleared \in Database
    BY <1>1, <1>6
  <2> HIDE DEF debug
  <2>4. debug \in Database
    BY <2>2, <2>3, InsertEvidenceFact
  <2>5. /\ debug.profile = cleared.profile /\ debug.imports = cleared.imports
        /\ \A c \in Binary, i \in 0..MaxFn :
             debug.ev[<<c, i>>] = IF c = j.binary /\ i \in is
                                  THEN [run |-> j.run, subject |-> j.path]
                                  ELSE cleared.ev[<<c, i>>]
    BY <2>2, <2>3, InsertEvidenceItems
  <2> QED BY <1>20, <2>4, <2>5
<1> HIDE DEF debug
<1>8. /\ work'.profile = debug.profile /\ work'.ev = debug.ev
      /\ work'.imports = [debug.imports EXCEPT ![b] = debug.imports[b] + 1]
  BY <1>2, <1>7, ImportsItems
<1>9. /\ job'[s] = j /\ db' = db /\ lock' = s
      /\ pc' = [pc EXCEPT ![s] = "ingest"] /\ ingested'[s] = 0
      /\ \A t \in Session : t # s => job'[t] = job[t]
      /\ pc[s] = "idle"
  BY <1>1 DEF j, Begin, IInv, JobKnown, TypeOK
<1>10. WorkEvidence'
  <2>1. work'.profile = [db.profile EXCEPT ![r] = pf]
    BY <1>3, <1>4, <1>5, <1>6, <1>7, <1>8
  <2>2. work'.imports = [db.imports EXCEPT ![b] = 1]
    BY <1>1, <1>3, <1>4, <1>5, <1>6, <1>7, <1>8, Tables
  <2>3. ASSUME NEW c \in Binary, NEW i \in Fn, c # b, c \notin Victims(b, p)
        PROVE  work'.ev[<<c, i>>] = db.ev[<<c, i>>]
    <3>1. i \in 0..MaxFn /\ <<c, i>> \in EvidenceId
      BY DEF Fn, EvidenceId
    <3>2. db.ev[<<c, i>>].subject # p
      BY <2>3, <3>1 DEF Victims
    <3> QED BY <2>3, <3>1, <3>2, <1>3, <1>4, <1>5, <1>6, <1>7, <1>8
  <2>4. Victims(b, p)' = Victims(b, p)
    BY <1>9 DEF Victims
  <2>5. \A i \in Fn : ~ (i <= 0)
    BY DEF Fn
  <2>6. \A t \in Session : lock' = t => t = s
    BY <1>9
  <2> SUFFICES /\ work'.profile = [db'.profile EXCEPT ![job'[s].run] = job'[s].profile]
               /\ \A c \in Binary, i \in Fn :
                    c # job'[s].binary /\ c \notin Victims(job[s].binary, job[s].path)' =>
                      work'.ev[<<c, i>>] = db'.ev[<<c, i>>]
               /\ job'[s].profile = "full" =>
                    \A i \in Fn : i <= ingested'[s] =>
                      i \in pending'[s] \/ work'.ev[<<job'[s].binary, i>>].run = job'[s].run
               /\ work'.imports = [db'.imports EXCEPT ![job'[s].binary] = 1]
    BY <2>6 DEF WorkEvidence
  <2>7. job'[s].binary = b /\ job'[s].path = p /\ job'[s].run = r /\ job'[s].profile = pf
    BY <1>9 DEF j
  <2>8. Victims(job[s].binary, job[s].path)' = Victims(b, p)
    BY <1>9, <2>7 DEF Victims
  <2> QED BY <1>9, <2>1, <2>2, <2>3, <2>5, <2>7, <2>8
<1>11. EvidenceBacked'
  BY <1>9 DEF ItemsInv, EvidenceBacked, Begin
<1>12. ImportsInv'
  <2>1. \A t \in Session, c \in Binary : Inserting(t, c)' <=> Inserting(t, c)
    BY <1>1, <1>9 DEF Inserting, IInv, TypeOK
  <2>2. \A t \in Session : pc'[t] = "delete" <=> pc[t] = "delete"
    BY <1>1, <1>9 DEF IInv, TypeOK
  <2>3. disturbed' = disturbed
    BY DEF Begin
  <2> QED BY <1>9, <2>1, <2>2, <2>3 DEF ItemsInv, ImportsInv
<1> QED BY <1>10, <1>11, <1>12

LEMMA IngestItems ==
  ASSUME ItemsInv, NEW s \in Session, IngestLean(s) \/ IngestFull(s)
  PROVE  WorkEvidence' /\ EvidenceBacked' /\ ImportsInv'
<1> USE IngestAssumption
<1> DEFINE n == ingested[s]
           inserted == InsertFunction(work, job[s], n + 1)
           buffer == pending[s] \cup {n + 1}
<1>0. /\ IInv /\ pc[s] = "ingest" /\ n < MaxFn
  BY DEF IngestLean, IngestFull, ItemsInv
<1>1. /\ IInv /\ pc[s] = "ingest" /\ lock = s /\ n < MaxFn /\ n \in 0..MaxFn
      /\ job[s] \in Job /\ job[s].binary \in Binary /\ work \in Database
      /\ n + 1 \in Fn
  <2>1. /\ lock = s /\ n \in 0..MaxFn /\ job[s] \in Job /\ work \in Database
    BY <1>0 DEF LockHeld, JobKnown, TypeOK, IInv
  <2>2. job[s].binary \in Binary
    BY <2>1 DEF Job
  <2>3. n + 1 \in Fn
    BY <1>0, <2>1 DEF Fn
  <2> QED BY <1>0, <2>1, <2>2, <2>3
<1>2. inserted \in Database /\ SameItems(inserted, work)
  BY <1>1, InsertFunctionFact, FunctionsAndRowsApart
<1>3. /\ db' = db /\ lock' = lock /\ pc' = pc /\ job' = job
      /\ stolen' = stolen /\ disturbed' = disturbed
      /\ ingested'[s] = n + 1
  BY <1>1 DEF IngestLean, IngestFull, IInv, TypeOK
<1>4. EvidenceBacked' /\ ImportsInv'
  BY <1>3 DEF ItemsInv, EvidenceBacked, ImportsInv, Inserting
<1> HIDE DEF inserted
<1>5. /\ SameItems(work', inserted)
      /\ job[s].profile = "full" => pending'[s] = buffer
      \/ /\ work' = InsertEvidence(inserted, job[s], buffer)
         /\ pending'[s] = {}
  BY <1>1 DEF IngestLean, IngestFull, SameItems, inserted, IInv, TypeOK
<1>6. /\ work'.profile = work.profile /\ work'.imports = work.imports
      /\ \A c \in Binary, i \in Fn :
           \/ work'.ev[<<c, i>>] = work.ev[<<c, i>>]
           \/ c = job[s].binary /\ work'.ev[<<c, i>>].run = job[s].run
      /\ job[s].profile = "full" => \A i \in buffer :
           i \in pending'[s] \/ work'.ev[<<job[s].binary, i>>].run = job[s].run
  <2>1. CASE SameItems(work', inserted) /\ (job[s].profile = "full" => pending'[s] = buffer)
    BY <1>2, <2>1 DEF SameItems
  <2>2. CASE work' = InsertEvidence(inserted, job[s], buffer)
    <3>1. /\ work'.profile = inserted.profile /\ work'.imports = inserted.imports
          /\ \A c \in Binary, i \in 0..MaxFn :
               work'.ev[<<c, i>>] =
                 IF c = job[s].binary /\ i \in buffer
                 THEN [run |-> job[s].run, subject |-> job[s].path]
                 ELSE inserted.ev[<<c, i>>]
      BY <1>1, <1>2, <2>2, InsertEvidenceItems
    <3>2. Fn \subseteq 0..MaxFn /\ buffer \subseteq Fn
      BY <1>1 DEF Fn, IInv, TypeOK
    <3>3. work'.profile = work.profile /\ work'.imports = work.imports
      BY <1>2, <3>1 DEF SameItems
    <3>4. ASSUME NEW c \in Binary, NEW i \in Fn
          PROVE  \/ work'.ev[<<c, i>>] = work.ev[<<c, i>>]
                 \/ c = job[s].binary /\ work'.ev[<<c, i>>].run = job[s].run
      BY <1>2, <3>1, <3>2 DEF SameItems
    <3>5. ASSUME NEW i \in buffer
          PROVE  work'.ev[<<job[s].binary, i>>].run = job[s].run
      <4>1. i \in 0..MaxFn
        BY <3>2
      <4>2. work'.ev[<<job[s].binary, i>>] = [run |-> job[s].run, subject |-> job[s].path]
        BY <1>1, <3>1, <4>1
      <4> QED BY <4>2
    <3> QED BY <3>3, <3>4, <3>5
  <2> QED BY <1>5, <2>1, <2>2
<1>7. WorkEvidence'
  <2>1. \A t \in Session : lock' = t => t = s
    BY <1>1, <1>3
  <2>2. Victims(job[s].binary, job[s].path)' = Victims(job[s].binary, job[s].path)
    BY <1>3 DEF Victims
  <2>3. ASSUME job[s].profile = "full", NEW i \in Fn, i <= n + 1
        PROVE  i \in pending'[s] \/ work'.ev[<<job[s].binary, i>>].run = job[s].run
    <3>1. CASE i \in buffer
      BY <1>6, <2>3, <3>1
    <3>2. CASE i \notin buffer
      <4>1. i <= n
        BY <1>1, <2>3, <3>2 DEF Fn
      <4>2. work.ev[<<job[s].binary, i>>].run = job[s].run
        BY <1>1, <2>3, <3>2, <4>1 DEF ItemsInv, WorkEvidence
      <4> QED BY <1>1, <1>6, <4>2
    <3> QED BY <3>1, <3>2
  <2>4. /\ work.profile = [db.profile EXCEPT ![job[s].run] = job[s].profile]
        /\ \A c \in Binary, i \in Fn :
             c # job[s].binary /\ c \notin Victims(job[s].binary, job[s].path) =>
               work.ev[<<c, i>>] = db.ev[<<c, i>>]
        /\ work.imports = [db.imports EXCEPT ![job[s].binary] = 1]
    BY <1>1 DEF ItemsInv, WorkEvidence
  <2>5. \A c \in Binary, i \in Fn :
             c # job[s].binary /\ c \notin Victims(job[s].binary, job[s].path) =>
               work'.ev[<<c, i>>] = db.ev[<<c, i>>]
    BY <1>6, <2>4
  <2> QED BY <1>3, <1>6, <2>1, <2>2, <2>3, <2>4, <2>5 DEF WorkEvidence
<1> QED BY <1>4, <1>7

LEMMA FinalizeItems ==
  ASSUME ItemsInv, NEW s \in Session, Finalize(s)
  PROVE  WorkEvidence' /\ EvidenceBacked' /\ ImportsInv'
<1>1. PICK b, r, n : b = job[s].binary /\ r = job[s].run /\ n = ingested[s]
  OBVIOUS
<1>2. /\ IInv /\ lock = s /\ r \in Run /\ b \in Binary
      /\ \A c \in Binary :
           /\ db'.fns[c] = IF c = b THEN Prefix(r, n) ELSE db.fns[c]
           /\ db'.row[c] = IF c = b THEN [by |-> "analysis", count |-> n]
                                    ELSE db.row[c]
      /\ db.status[r] = "none"
  BY <1>1, FinalizeEffect DEF ItemsInv
<1>3. /\ lock' = None /\ End(s) /\ pc[s] = "ingest"
      /\ stolen' = (stolen \cup Victims(b, job[s].path)) \ {b}
      /\ disturbed' = IF \E t \in Session : Inserting(t, b)
                      THEN disturbed \cup {b} ELSE disturbed \ {b}
  BY <1>1 DEF Finalize, Inserting
<1>4. /\ db'.profile = [db.profile EXCEPT ![r] = job[s].profile]
      /\ db'.imports = [db.imports EXCEPT ![b] = 1]
      /\ \A c \in Binary, i \in Fn :
           \/ c # b /\ db'.ev[<<c, i>>] = work.ev[<<c, i>>]
           \/ c = b /\ i \notin pending[s] /\ db'.ev[<<c, i>>] = work.ev[<<c, i>>]
           \/ c = b /\ db'.ev[<<c, i>>].run = r
  <2> DEFINE listed == UpsertRow(Flushed(s), b, "analysis", n)
  <2>1. work \in Database /\ job[s] \in Job /\ n \in 0..MaxFn
    BY <1>1, <1>2, <1>3 DEF IInv, TypeOK, JobKnown
  <2>2. db' = CompleteRun(listed, job[s])
    BY <1>1 DEF Finalize, FunctionCount
  <2>3. /\ Flushed(s) \in Database
        /\ Flushed(s).profile = work.profile /\ Flushed(s).imports = work.imports
        /\ \A c \in Binary, i \in 0..MaxFn :
             Flushed(s).ev[<<c, i>>] =
               IF c = job[s].binary /\ i \in pending[s]
               THEN [run |-> job[s].run, subject |-> job[s].path]
               ELSE work.ev[<<c, i>>]
    BY <2>1, InsertEvidenceFact, InsertEvidenceItems DEF Flushed
  <2>4. listed \in Database /\ SameItems(listed, Flushed(s))
    BY <1>2, <2>1, <2>3, UpsertRowFact, FunctionsAndRowsApart
  <2> HIDE DEF listed
  <2>5. SameItems(db', listed)
    BY <2>1, <2>2, <2>4, FunctionsAndRowsApart
  <2>6. /\ work.profile = [db.profile EXCEPT ![r] = job[s].profile]
        /\ work.imports = [db.imports EXCEPT ![b] = 1]
    BY <1>1, <1>2 DEF ItemsInv, WorkEvidence
  <2>7. ASSUME NEW c \in Binary, NEW i \in Fn
        PROVE  db'.ev[<<c, i>>] = IF c = b /\ i \in pending[s]
                                  THEN [run |-> r, subject |-> job[s].path]
                                  ELSE work.ev[<<c, i>>]
    <3>1. i \in 0..MaxFn
      BY IngestAssumption DEF Fn
    <3> QED BY <1>1, <2>3, <2>4, <2>5, <3>1 DEF SameItems
  <2> QED BY <2>3, <2>4, <2>5, <2>6, <2>7 DEF SameItems
<1>5. WorkEvidence'
  BY <1>3, IngestAssumption DEF WorkEvidence
<1>6. EvidenceBacked'
  <2> SUFFICES ASSUME NEW c \in Binary, NEW i \in Fn, db'.fns[c][i] # 0,
                      db'.profile[db'.fns[c][i]] = "full", c \notin stolen'
               PROVE  db'.ev[<<c, i>>].run = db'.fns[c][i]
    BY DEF EvidenceBacked
  <2>1. CASE c = b
    <3>1. i <= n /\ db'.fns[c][i] = r
      BY <1>2, <2>1 DEF Prefix
    <3>2. job[s].profile = "full"
      <4>1. db.profile \in [Run -> {"lean", "full"}]
        BY <1>2, Tables DEF IInv, TypeOK
      <4> QED BY <1>2, <1>4, <3>1, <4>1
    <3>3. i \in pending[s] \/ work.ev[<<b, i>>].run = r
      BY <1>1, <1>2, <3>1, <3>2 DEF ItemsInv, WorkEvidence
    <3> QED BY <1>4, <2>1, <3>1, <3>3
  <2>2. CASE c # b
    <3>1. PICK q : q = db.fns[c][i]
      OBVIOUS
    <3>2. q \in Run /\ q # r
      <4>1. db.fns \in [Binary -> [Fn -> 0..MaxRun]]
        BY <1>2, Tables DEF IInv, TypeOK
      <4>2. q \in Run
        BY <1>2, <2>2, <3>1, <4>1 DEF Run
      <4>3. db.status[q] = "completed"
        BY <1>2, <2>2, <3>1 DEF IInv, WholeRun, Writers
      <4> QED BY <1>2, <4>2, <4>3
    <3>3. db.profile[q] = "full"
      <4>1. db.profile \in [Run -> {"lean", "full"}]
        BY <1>2, Tables DEF IInv, TypeOK
      <4> QED BY <1>2, <1>4, <2>2, <3>1, <3>2, <4>1
    <3>4. c \notin stolen /\ c \notin Victims(b, job[s].path)
      BY <1>3, <2>2
    <3>5. work.ev[<<c, i>>] = db.ev[<<c, i>>]
      <4>1. c # job[s].binary /\ c \notin Victims(job[s].binary, job[s].path)
        BY <1>1, <2>2, <3>4
      <4>2. WorkEvidence
        BY DEF ItemsInv
      <4> QED BY <1>2, <4>1, <4>2 DEF WorkEvidence
    <3>6. db.ev[<<c, i>>].run = q
      BY <1>2, <2>2, <3>1, <3>3, <3>4 DEF ItemsInv, EvidenceBacked
    <3> QED BY <1>2, <1>4, <2>2, <3>1, <3>5, <3>6
  <2> QED BY <2>1, <2>2
<1>7. ImportsInv'
  <2>1. /\ pc'[s] = "idle"
        /\ \A t \in Session : t # s => pc'[t] = pc[t] /\ job'[t] = job[t]
    BY <1>2, <1>3 DEF End, IInv, TypeOK
  <2>2. \A t \in Session, c \in Binary :
          /\ Inserting(t, c)' <=> Inserting(t, c)
          /\ (pc[t] = "delete" /\ job[t].binary = c)' <=>
               (pc[t] = "delete" /\ job[t].binary = c)
    BY <1>3, <2>1 DEF Inserting
  <2>3. db.imports \in [Binary -> Nat]
    BY <1>2, Tables DEF IInv, TypeOK
  <2> SUFFICES ASSUME NEW c \in Binary, c \notin disturbed'
               PROVE  /\ \A t \in Session : Inserting(t, c) =>
                           db'.imports[c] = 0 /\ \A u \in Session : Inserting(u, c) => u = t
                      /\ db'.row[c].by # "none" /\ (\A t \in Session : ~ Inserting(t, c)) =>
                           \/ db'.imports[c] = 1
                           \/ \E t \in Session : pc[t] = "delete" /\ job[t].binary = c
    BY <2>2 DEF ImportsInv
  <2>4. CASE c = b
    BY <1>3, <1>4, <2>3, <2>4
  <2>5. CASE c # b
    <3>1. c \notin disturbed
      BY <1>3, <2>5
    <3>2. db'.imports[c] = db.imports[c] /\ db'.row[c] = db.row[c]
      BY <1>2, <1>4, <2>3, <2>5
    <3> QED BY <3>1, <3>2 DEF ItemsInv, ImportsInv
  <2> QED BY <2>4, <2>5
<1> QED BY <1>5, <1>6, <1>7

LEMMA AbortItems ==
  ASSUME ItemsInv, NEW s \in Session, Abort(s)
  PROVE  WorkEvidence' /\ EvidenceBacked' /\ ImportsInv'
<1>1. /\ lock' = None /\ db' = db /\ stolen' = stolen /\ disturbed' = disturbed
      /\ pc[s] = "ingest" /\ pc'[s] = "idle"
      /\ \A t \in Session : t # s => pc'[t] = pc[t] /\ job'[t] = job[t]
  BY DEF Abort, End, ItemsInv, IInv, TypeOK
<1>2. \A t \in Session, c \in Binary :
        /\ Inserting(t, c)' <=> Inserting(t, c)
        /\ (pc[t] = "delete" /\ job[t].binary = c)' <=>
             (pc[t] = "delete" /\ job[t].binary = c)
  BY <1>1 DEF Inserting
<1>3. WorkEvidence'
  BY <1>1, IngestAssumption DEF WorkEvidence
<1>4. EvidenceBacked'
  BY <1>1 DEF ItemsInv, EvidenceBacked
<1>5. ImportsInv'
  BY <1>1, <1>2 DEF ItemsInv, ImportsInv
<1> QED BY <1>3, <1>4, <1>5

\* The first statement of register_binary: from then on s is about to delete
\* the imports.
LEMMA RegisterRowItems ==
  ASSUME ItemsInv, NEW s \in Session, NEW b \in Binary, NEW p \in Path,
         RegisterRow(s, b, p)
  PROVE  WorkEvidence' /\ EvidenceBacked' /\ ImportsInv'
<1>1. /\ db \in Database /\ lock' = None /\ db' = UpsertRow(db, b, "register", 0)
      /\ pc[s] = "idle" /\ pc'[s] = "delete" /\ job'[s].binary = b
      /\ \A t \in Session : t # s => pc'[t] = pc[t] /\ job'[t] = job[t]
      /\ stolen' = stolen /\ disturbed' = disturbed
  BY DEF RegisterRow, ItemsInv, IInv, TypeOK
<1>2. /\ db'.fns = db.fns /\ SameItems(db', db)
      /\ \A c \in Binary : c # b => db'.row[c] = db.row[c]
  <2>1. 0 \in 0..MaxFn
    BY IngestAssumption
  <2>2. db'.fns = db.fns /\ db'.row = [db.row EXCEPT ![b] = [by |-> "register", count |-> 0]]
    BY <1>1, <2>1, UpsertRowFact
  <2>3. SameItems(db', db)
    BY <1>1, FunctionsAndRowsApart
  <2> QED BY <1>1, <2>2, <2>3, Tables
<1>3. WorkEvidence'
  BY <1>1, IngestAssumption DEF WorkEvidence
<1>4. EvidenceBacked'
  BY <1>1, <1>2 DEF ItemsInv, EvidenceBacked, SameItems
<1>5. ImportsInv'
  <2>1. \A t \in Session, c \in Binary : Inserting(t, c)' <=> Inserting(t, c)
    BY <1>1 DEF Inserting
  <2>2. \A t \in Session, c \in Binary :
          pc[t] = "delete" /\ job[t].binary = c => pc'[t] = "delete" /\ job'[t].binary = c
    BY <1>1
  <2>3. \E t \in Session : pc'[t] = "delete" /\ job'[t].binary = b
    BY <1>1
  <2> QED BY <1>1, <1>2, <2>1, <2>2, <2>3 DEF ItemsInv, ImportsInv, SameItems
<1> QED BY <1>3, <1>4, <1>5

LEMMA RegisterItems ==
  ASSUME ItemsInv, NEW s \in Session,
         RegisterDelete(s) \/ RegisterInsert(s) \/ RegisterFail(s)
  PROVE  WorkEvidence' /\ EvidenceBacked' /\ ImportsInv'
<1>1. PICK b : b = job[s].binary
  OBVIOUS
<1>2. /\ db \in Database /\ b \in Binary /\ pc[s] \in {"delete", "insert"}
      /\ \A t \in Session : t # s => pc'[t] = pc[t] /\ job'[t] = job[t]
      /\ stolen' = stolen
  BY <1>1 DEF RegisterDelete, RegisterInsert, RegisterFail, End, ItemsInv, IInv,
     TypeOK, JobKnown, Job
<1>3. db.imports \in [Binary -> Nat]
  BY <1>2, Tables
<1>4. /\ db'.fns = db.fns /\ db'.row = db.row
      /\ db'.ev = db.ev /\ db'.profile = db.profile
      /\ \A c \in Binary : c # b => db'.imports[c] = db.imports[c]
      /\ RegisterDelete(s) => db'.imports[b] = 0
      /\ RegisterInsert(s) => db'.imports[b] = db.imports[b] + 1
  <2>1. CASE RegisterDelete(s)
    <3>1. db' = DeleteImports(db, b) /\ pc[s] = "delete"
      BY <1>1, <2>1 DEF RegisterDelete
    <3> QED BY <1>2, <1>3, <3>1, DeleteImportsFact, ImportsItems
            DEF SameRuns, RegisterInsert
  <2>2. CASE RegisterInsert(s)
    <3>1. db' = InsertImports(db, b) /\ pc[s] = "insert"
      BY <1>1, <2>2 DEF RegisterInsert
    <3> QED BY <1>2, <1>3, <3>1, InsertImportsFact, ImportsItems
            DEF SameRuns, RegisterDelete
  <2>3. CASE RegisterFail(s) /\ ~ RegisterDelete(s) /\ ~ RegisterInsert(s)
    BY <2>3 DEF RegisterFail
  <2> QED BY <2>1, <2>2, <2>3
<1>5. WorkEvidence'
  <2>1. CASE RegisterDelete(s) \/ RegisterInsert(s)
    BY <2>1, IngestAssumption DEF RegisterDelete, RegisterInsert, WorkEvidence
  <2>2. CASE RegisterFail(s)
    <3>1. \A t \in Session : lock = t => t # s
      BY <1>2 DEF ItemsInv, IInv, LockHeld
    <3>2. /\ db' = db /\ work' = work /\ lock' = lock
          /\ \A t \in Session : t # s => /\ job'[t] = job[t]
                                         /\ ingested'[t] = ingested[t]
                                         /\ pending'[t] = pending[t]
      BY <1>2, <2>2 DEF RegisterFail, End, ItemsInv, IInv, TypeOK
    <3> SUFFICES ASSUME NEW t \in Session, lock = t
                 PROVE  WorkEvidence'
      BY <3>2 DEF WorkEvidence
    <3>3. Victims(job[t].binary, job[t].path)' = Victims(job[t].binary, job[t].path)
      BY <3>1, <3>2 DEF Victims
    <3>4. \A u \in Session : lock' = u => u = t
      BY <3>2
    <3>5. /\ job'[t] = job[t] /\ ingested'[t] = ingested[t]
          /\ pending'[t] = pending[t]
      BY <3>1, <3>2
    <3> QED BY <3>2, <3>3, <3>4, <3>5 DEF WorkEvidence, ItemsInv
  <2> QED BY <2>1, <2>2
<1>6. EvidenceBacked'
  BY <1>2, <1>4 DEF ItemsInv, EvidenceBacked
<1>7. ImportsInv'
  <2>1. ASSUME NEW t \in Session, NEW c \in Binary, t # s \/ c # b,
               pc'[s] = "idle" \/ job'[s] = job[s]
        PROVE  /\ Inserting(t, c)' <=> Inserting(t, c)
               /\ (pc[t] = "delete" /\ job[t].binary = c)' <=>
                    (pc[t] = "delete" /\ job[t].binary = c)
    BY <1>1, <1>2, <2>1 DEF Inserting
  <2>2. pc'[s] = "idle" \/ job'[s] = job[s]
    BY DEF RegisterDelete, RegisterInsert, RegisterFail, End, ItemsInv, IInv, TypeOK
  <2> SUFFICES ASSUME NEW c \in Binary, c \notin disturbed'
               PROVE  /\ \A t \in Session : Inserting(t, c)' =>
                           /\ db'.imports[c] = 0
                           /\ \A u \in Session : Inserting(u, c)' => u = t
                      /\ db'.row[c].by # "none" /\ (\A t \in Session : ~ Inserting(t, c)') =>
                           \/ db'.imports[c] = 1
                           \/ \E t \in Session : pc'[t] = "delete" /\ job'[t].binary = c
    BY DEF ImportsInv
  <2>3. CASE c # b
    <3>1. c \notin disturbed
      BY <1>1, <2>3 DEF RegisterDelete, RegisterInsert, RegisterFail
    <3>2. \A t \in Session : /\ Inserting(t, c)' <=> Inserting(t, c)
                             /\ (pc[t] = "delete" /\ job[t].binary = c)' <=>
                                  (pc[t] = "delete" /\ job[t].binary = c)
      BY <2>1, <2>2, <2>3
    <3> QED BY <1>4, <2>3, <3>1, <3>2 DEF ItemsInv, ImportsInv
  <2>4. CASE c = b /\ RegisterDelete(s)
    <3>1. \A t \in Session \ {s} : ~ Inserting(t, b)
      BY <1>1, <2>4 DEF RegisterDelete, Inserting
    <3>2. \A t \in Session \ {s} : ~ Inserting(t, b)'
      BY <1>2, <2>1, <2>2, <3>1
    <3>3. Inserting(s, b)'
      BY <1>1, <2>4 DEF RegisterDelete, Inserting, ItemsInv, IInv, TypeOK
    <3> QED BY <1>4, <2>4, <3>2, <3>3
  <2>5. CASE c = b /\ RegisterInsert(s)
    <3>1. Inserting(s, b) /\ b \notin disturbed
      BY <1>1, <2>5 DEF RegisterInsert, Inserting
    <3>2. db.imports[b] = 0 /\ \A t \in Session : Inserting(t, b) => t = s
      BY <1>2, <3>1 DEF ItemsInv, ImportsInv
    <3>3. \A t \in Session : ~ Inserting(t, b)'
      <4>1. pc'[s] = "idle"
        BY <2>5 DEF RegisterInsert, End, ItemsInv, IInv, TypeOK
      <4>2. ~ Inserting(s, b)'
        BY <4>1 DEF Inserting
      <4> QED BY <1>2, <2>1, <2>2, <3>2, <4>2
    <3> QED BY <1>4, <2>5, <3>2, <3>3
  <2>6. CASE c = b /\ RegisterFail(s)
    BY <1>1, <2>6 DEF RegisterFail
  <2> QED BY <2>3, <2>4, <2>5, <2>6
<1> QED BY <1>5, <1>6, <1>7

THEOREM ItemsInvariance == Spec => []ItemsInv
<1>1. ASSUME ItemsInv, [Next]_vars, IInv' PROVE ItemsInv'
  <2>1. CASE UNCHANGED vars
    <3>1. WorkEvidence'
      BY <1>1, <2>1 DEF vars, ItemsInv, WorkEvidence, Victims
    <3>2. EvidenceBacked' /\ ImportsInv'
      BY <1>1, <2>1 DEF vars, ItemsInv, EvidenceBacked, ImportsInv, Inserting
    <3> QED BY <1>1, <3>1, <3>2 DEF ItemsInv
  <2>2. ASSUME NEW s \in Session, Analyse(s) PROVE ItemsInv'
    BY <1>1, <2>2, BeginItems, IngestItems, FinalizeItems, AbortItems
       DEF Analyse, ItemsInv
  <2>3. ASSUME NEW s \in Session, Register(s) PROVE ItemsInv'
    BY <1>1, <2>3, RegisterRowItems, RegisterItems DEF Register, ItemsInv
  <2> QED BY <1>1, <2>1, <2>2, <2>3 DEF Next
<1> QED BY <1>1, InitItems, Invariance, PTL DEF Spec

\* The evidence of every function of a full run is recorded, wherever the
\* buffer of flush_pending_evidence was cut and whatever other sessions did.
THEOREM EvidenceIsBacked == Spec => []EvidenceBacked
  BY ItemsInvariance, PTL DEF ItemsInv

\* The imports of a binary are there once, however runs and registrations of
\* it follow one another, unless one of them was disturbed.
THEOREM ImportsAreOnce == Spec => []ImportsOnce
<1>1. ItemsInv => ImportsOnce
  BY DEF ItemsInv, ImportsInv, ImportsOnce, Inserting
<1> QED BY <1>1, ItemsInvariance, PTL

=============================================================================

--------------------------- MODULE ObjectPipeline ---------------------------
(***************************************************************************)
(* Object analysis and the object pipeline: analyze_object_inner with its  *)
(* recursion through auto_dig_embedded_objects and                         *)
(* auto_expand_high_value_payloads, save_object_graph and                  *)
(* materialize_expanded_child in crates/revx-workspace/src/lib.rs, and     *)
(* run_object_pipeline, run_object_carve_identify,                         *)
(* promote_dug_native_binaries_tracked and analyze_object_as_binary in     *)
(* crates/revx-daemon/src/lib.rs.                                          *)
(*                                                                         *)
(* Two callers work on one workspace at a time.  Every SQL statement of    *)
(* these functions commits by itself, so that the steps of two callers     *)
(* interleave between any two of them; only a binary analysis is one       *)
(* transaction.  Any statement, read or write may fail, MaxFaults times in *)
(* all.                                                                    *)
(*                                                                         *)
(* An object is its content hash, and what is found in it is a function of *)
(* that content: what the scanners and unpackers find are constants.  Of a *)
(* row of the objects table the model keeps the path, the flag "expanded"  *)
(* and the evidence it lists, of the evidence table the subjects of the    *)
(* identity and of the analyses of an object (one item for all analyzers). *)
(* Object edges, artifacts, plugins and directories, which no step below   *)
(* reads, are left out.                                                    *)
(***************************************************************************)
EXTENDS Integers, Sequences, FiniteSets

CONSTANTS
  Actor,         \* threads that serve an object_pipeline or object_analyze
  Obj,           \* object ids: hashes of contents
  Root,          \* Root[a]: the object a works on
  Pipeline,      \* the actors that run object_pipeline; others object_analyze
  Native,        \* objects that are native binaries
  BinaryId,      \* BinaryId[o]: the id analysed for o; of a fat Mach-O a slice
  Entry,         \* Entry[o]: entries that identifying o adds to its graph
  Dig,           \* Dig[o]: what auto_dig selects in o, in its order
  Member,        \* Member[o]: what auto_expand unpacks from o, in its order
  Carve,         \* Carve[o]: what object_carve_signatures cuts out of o
  MaxDepth,      \* MAX_AUTO_DIG_DEPTH = 2
  PromoteLimit,  \* 4 candidates per analysis
  Limits,        \* values of object_limit that requests give
  MaxFaults,     \* bound on the number of failures
  None

\* What is analysed of a binary is, where it is one itself, analysed as it is:
\* the loader takes a slice out of a fat file once, and can parse the slice only
\* if it is not fat again (extract_preferred_macho_thin_slice in revx-loader).
ASSUME PipelineAssumption ==
  /\ Root \in [Actor -> Obj] /\ Pipeline \subseteq Actor
  /\ Native \subseteq Obj /\ BinaryId \in [Native -> Obj]
  /\ \A o \in Native : BinaryId[o] \in Native => BinaryId[BinaryId[o]] = BinaryId[o]
  /\ {Entry, Dig, Member, Carve} \subseteq [Obj -> Seq(Obj)]
  /\ MaxDepth \in Nat \ {0} /\ PromoteLimit \in Nat /\ Limits \subseteq Nat
  /\ MaxFaults \in Nat
  /\ None \notin Obj \cup {"own", "entry", "artifact"}

Elements(s) == {s[i] : i \in DOMAIN s}

\* The items of s at the positions I, in their order: SelectSeq without recursion.
Pick(s, I) ==
  LET Rank(i) == Cardinality({j \in I : j <= i})
  IN  [k \in 1..Cardinality(I) |-> s[CHOOSE i \in I : Rank(i) = k]]

\* What an object is recorded as being: a file of the user, an entry of a
\* container (its path has a "!"), or a file under artifacts/.
Place == {"own", "entry", "artifact"}
Item == {"identity", "analysis"}

NoRow == [place |-> None, expanded |-> FALSE, lists |-> {}]

VARIABLES
  row,        \* the objects table
  ev,         \* the evidence table: the subject of each item, or None
  runs,       \* binary ids with a completed analysis run
  faults,     \* failures left
  torn,       \* objects whose row was written and its evidence was not
  pc,         \* what each actor is doing
  save,       \* the statements left of the save_object_graph under way
  stack,      \* the calls of analyze_object_inner under way, innermost first
  listed,     \* child_object_ids of the analysis or carving just done
  pending,    \* pending_objects
  processed,  \* processed_object_ids
  queued,     \* queued_object_ids
  limit,      \* object_limit
  current,    \* the object of this round of the loop
  todo,       \* candidates or carvings left of this stage
  seen,       \* analyzed_binary_ids
  ran,        \* how often each actor analysed an object as a binary
  failed,     \* failed_step_count > 0
  warned      \* some analysis of the actor has warnings

store == <<row, ev, runs, torn>>
queues == <<pending, processed, queued, limit>>
vars == <<store, faults, pc, save, stack, listed, queues, current, todo, seen,
          ran, failed, warned>>

Init ==
  /\ row = [o \in Obj |-> NoRow]
  /\ ev = [o \in Obj |-> [i \in Item |-> None]]
  /\ runs = {} /\ torn = {} /\ faults = MaxFaults
  /\ pc = [a \in Actor |-> "start"]
  /\ save = [a \in Actor |-> <<>>]
  /\ stack = [a \in Actor |-> <<>>]
  /\ listed = [a \in Actor |-> <<>>]
  /\ pending = [a \in Actor |-> <<>>]
  /\ processed = [a \in Actor |-> {}]
  /\ queued = [a \in Actor |-> {}]
  /\ limit \in [Pipeline -> Limits]
  /\ current = [a \in Actor |-> None]
  /\ todo = [a \in Actor |-> <<>>]
  /\ seen = [a \in Actor |-> {}]
  /\ ran = [a \in Actor |-> [o \in Obj |-> 0]]
  /\ failed = [a \in Actor |-> FALSE]
  /\ warned = [a \in Actor |-> FALSE]

Goto(a, l) == pc' = [pc EXCEPT ![a] = l]
Fault == faults > 0 /\ faults' = faults - 1
NoFault == UNCHANGED faults

-----------------------------------------------------------------------------
(* save_object_graph: one row after another, each followed by its evidence *)

Statement(t, o, r) == [table |-> t, obj |-> o, row |-> r]

IdentifiedRow(place) ==
  [place |-> place, expanded |-> FALSE, lists |-> Item]

\* The graph of an identified object: itself and the entries below it.
GraphStatements(o, place) ==
  LET g == <<o>> \o Entry[o]
      At(i) == (i + 1) \div 2
  IN  [i \in 1..2 * Len(g) |->
         Statement(IF i % 2 = 1 THEN "objects" ELSE "evidence", g[At(i)],
                   IdentifiedRow(IF At(i) = 1 THEN place ELSE "entry"))]

\* A found object keeps the path it has inside a container.
FoundPlace(o) == IF row[o].place = "entry" THEN "entry" ELSE "artifact"

\* auto_dig replaces the row and with it the analyses, but for the flags.
DugRow(o) ==
  [place |-> FoundPlace(o), expanded |-> row[o].expanded, lists |-> {"identity"}]

\* materialize_expanded_child copies the analyses of the row it replaces.
ExpandedRow(o) ==
  [place |-> FoundPlace(o), expanded |-> TRUE,
   lists |-> {"identity"} \cup row[o].lists]

ChildStatements(o, r) ==
  <<Statement("objects", o, r), Statement("evidence", o, r)>>

\* The stages at which an actor writes a graph, and those after each.
Saving == {"save_root", "save_child", "save_carved"}
AfterSave(l) == CASE l = "save_root" -> "queue"
                  [] l = "save_child" -> "descend"
                  [] l = "save_carved" -> "carved"

SaveStatement(a) ==
  /\ pc[a] \in Saving
  /\ LET s == Head(save[a]) IN
     /\ IF s.table = "objects"
        THEN row' = [row EXCEPT ![s.obj] = s.row] /\ UNCHANGED ev
        ELSE /\ ev' = [ev EXCEPT ![s.obj] =
                  [i \in Item |-> IF i \in s.row.lists THEN s.row.place ELSE @[i]]]
             /\ UNCHANGED row
     /\ save' = [save EXCEPT ![a] = Tail(@)]
     /\ IF Len(save[a]) = 1 THEN Goto(a, AfterSave(pc[a])) ELSE UNCHANGED pc
  /\ NoFault
  /\ UNCHANGED <<runs, torn, stack, listed, queues, current, todo, seen, ran,
                 failed, warned>>

-----------------------------------------------------------------------------
(* analyze_object_inner *)

Top(a) == Head(stack[a])

\* one level too deep is dug and expanded
Frame_Slip(o, depth) ==
  [obj |-> o, depth |-> depth, place |-> row[o].place,
   dig |-> IF depth <= MaxDepth THEN Dig[o] ELSE <<>>,
   member |-> IF depth <= MaxDepth THEN Member[o] ELSE <<>>,
   dug |-> <<>>, expanded |-> <<>>, recorded |-> FALSE]

\* The call resolves the row, reads the content and runs the analyzers.
Frame(o, depth) ==
  [obj |-> o, depth |-> depth, place |-> row[o].place,
   dig |-> IF depth < MaxDepth THEN Dig[o] ELSE <<>>,
   member |-> IF depth < MaxDepth THEN Member[o] ELSE <<>>,
   dug |-> <<>>, expanded |-> <<>>, recorded |-> FALSE]

Call(a, o, depth) == stack' = [stack EXCEPT ![a] = <<Frame(o, depth)>> \o @]
Update(a, f) == stack' = [stack EXCEPT ![a] = <<f>> \o Tail(@)]

\* Children are listed once.
With(s, o) == IF o \in Elements(s) THEN s ELSE Append(s, o)

Digging(f) == f.dig # <<>>
Expanding(f) == f.dig = <<>> /\ f.member # <<>>
Closing(f) == f.dig = <<>> /\ f.member = <<>>

\* A member that was expanded before is listed and not looked at again.
Reusable(o) == row[o].expanded

\* auto_dig_embedded_objects and materialize_expanded_child: the row of the
\* next child is written ...
FoundChild(a) ==
  /\ pc[a] = "analyze"
  /\ \/ /\ Digging(Top(a))
        /\ LET c == Head(Top(a).dig) IN
           save' = [save EXCEPT ![a] = ChildStatements(c, DugRow(c))]
     \/ /\ Expanding(Top(a)) /\ ~Reusable(Head(Top(a).member))
        /\ LET c == Head(Top(a).member) IN
           save' = [save EXCEPT ![a] = ChildStatements(c, ExpandedRow(c))]
  /\ Goto(a, "save_child")
  /\ NoFault
  /\ UNCHANGED <<store, stack, listed, queues, current, todo, seen, ran,
                 failed, warned>>

Listing(f) ==
  IF Digging(f)
  THEN [f EXCEPT !.dug = With(@, Head(f.dig)), !.dig = Tail(@)]
  ELSE [f EXCEPT !.expanded = With(@, Head(f.member)), !.member = Tail(@)]

\* ... and the child is listed and analysed one level deeper.
Descend(a) ==
  /\ pc[a] = "descend"
  /\ LET f == Top(a)
         c == IF Digging(f) THEN Head(f.dig) ELSE Head(f.member)
     IN  stack' = [stack EXCEPT ![a] =
                     <<Frame(c, f.depth + 1), Listing(f)>> \o Tail(@)]
  /\ Goto(a, "analyze")
  /\ NoFault
  /\ UNCHANGED <<store, save, listed, queues, current, todo, seen, ran, failed,
                 warned>>

\* a member expanded before is not listed
ReuseMember_Slip(a) ==
  /\ pc[a] = "analyze" /\ Expanding(Top(a)) /\ Reusable(Head(Top(a).member))
  /\ Update(a, [Top(a) EXCEPT !.member = Tail(@)])
  /\ NoFault
  /\ UNCHANGED <<store, pc, save, listed, queues, current, todo, seen, ran,
                 failed, warned>>

ReuseMember(a) ==
  /\ pc[a] = "analyze" /\ Expanding(Top(a)) /\ Reusable(Head(Top(a).member))
  /\ Update(a, Listing(Top(a)))
  /\ NoFault
  /\ UNCHANGED <<store, pc, save, listed, queues, current, todo, seen, ran,
                 failed, warned>>

\* The evidence of the analyses is inserted under the path read at the start.
RecordEvidence(a) ==
  /\ pc[a] = "analyze" /\ Closing(Top(a)) /\ ~Top(a).recorded
  /\ ev' = [ev EXCEPT ![Top(a).obj]["analysis"] = Top(a).place]
  /\ Update(a, [Top(a) EXCEPT !.recorded = TRUE])
  /\ NoFault
  /\ UNCHANGED <<row, runs, torn, pc, save, listed, queues, current, todo, seen,
                 ran, failed, warned>>

\* Native candidates among what an analysis listed, at most PromoteLimit.
Candidates(s) ==
  LET n == Pick(s, {i \in DOMAIN s : s[i] \in Native})
  IN  IF Len(n) <= PromoteLimit THEN n ELSE SubSeq(n, 1, PromoteLimit)

\* The row lists the evidence; the outermost call goes on to the promotion.
RecordRow(a) ==
  /\ pc[a] = "analyze" /\ Closing(Top(a)) /\ Top(a).recorded
  /\ row' = [row EXCEPT ![Top(a).obj].lists = Item]
  /\ stack' = [stack EXCEPT ![a] = Tail(@)]
  /\ IF Len(stack[a]) > 1
     THEN UNCHANGED <<pc, listed, todo>>
     ELSE LET dug == Top(a).dug
              expanded == Top(a).expanded
              children == dug \o Pick(expanded, {i \in DOMAIN expanded :
                                                   expanded[i] \notin Elements(dug)})
          IN  /\ Goto(a, "promote")
              /\ listed' = [listed EXCEPT ![a] = children]
              /\ todo' = [todo EXCEPT ![a] = Candidates(children)]
  /\ NoFault
  /\ UNCHANGED <<ev, runs, torn, save, queues, current, seen, ran, failed, warned>>

\* Where an actor goes when the analysis of its object is over.
AfterAnalysis(a) == IF a \in Pipeline THEN "scan" ELSE "done"

\* An error leaves the call: its caller warns and goes on, and the outermost
\* one is a failed step.
ReturnError(a) ==
  IF Len(stack[a]) > 1
  THEN /\ stack' = [stack EXCEPT ![a] = Tail(@)]
       /\ Goto(a, "analyze")
       /\ warned' = [warned EXCEPT ![a] = TRUE]
       /\ UNCHANGED <<failed, todo>>
  ELSE /\ stack' = [stack EXCEPT ![a] = <<>>]
       /\ Goto(a, AfterAnalysis(a))
       /\ failed' = [failed EXCEPT ![a] = TRUE]
       /\ todo' = [todo EXCEPT ![a] = <<>>]
       /\ UNCHANGED warned

\* An error while a member is expanded leaves the expander, whose caller
\* warns: the members it had returned to nobody yet are not listed.
LeaveExpander(a) ==
  /\ Update(a, [Top(a) EXCEPT !.member = <<>>, !.expanded = <<>>])
  /\ Goto(a, "analyze")
  /\ warned' = [warned EXCEPT ![a] = TRUE]
  /\ UNCHANGED <<failed, todo>>

\* The content cannot be read, an artifact or the database not written.
AnalysisFails(a) ==
  /\ pc[a] \in {"analyze", "descend"} /\ Fault
  /\ \/ pc[a] = "analyze" /\ ReturnError(a)
     \/ pc[a] = "descend" /\ Digging(Top(a)) /\ ReturnError(a)
     \/ Expanding(Top(a)) /\ LeaveExpander(a)
  /\ UNCHANGED <<store, save, listed, queues, current, seen, ran>>

\* A member that cannot be read is left out with a warning.
SkipMember(a) ==
  /\ pc[a] = "analyze" /\ Expanding(Top(a)) /\ Fault
  /\ Update(a, [Top(a) EXCEPT !.member = Tail(@)])
  /\ warned' = [warned EXCEPT ![a] = TRUE]
  /\ UNCHANGED <<store, pc, save, listed, queues, current, todo, seen, ran, failed>>

-----------------------------------------------------------------------------
(* analyze_object_as_binary, and the promotion of what was found *)

\* the candidate is taken for the object it was found in
AlreadyAnalyzed_Slip(a, o) == current[a] \in seen[a] \cup runs

AlreadyAnalyzed(a, o) == o \in seen[a] \/ o \in runs

\* a slice is analysed under the path of the fat binary
BinaryRun_Slip(a, o) ==
  /\ ev' = [ev EXCEPT ![o] =
              [i \in Item |-> IF @[i] = "artifact" THEN None ELSE @[i]]]
  /\ runs' = runs \cup {BinaryId[o]}
  /\ ran' = [ran EXCEPT ![a][o] = @ + 1]
  /\ UNCHANGED <<row, torn>>

\* The run replaces the evidence of the path analysed, that of the file under
\* artifacts/; the slice of a fat binary is analysed under a path of its own.
BinaryRun(a, o) ==
  /\ ev' = IF BinaryId[o] = o
           THEN [ev EXCEPT ![o] =
                   [i \in Item |-> IF @[i] = "artifact" THEN None ELSE @[i]]]
           ELSE ev
  /\ runs' = runs \cup {BinaryId[o]}
  /\ ran' = [ran EXCEPT ![a][o] = @ + 1]
  /\ UNCHANGED <<row, torn>>

Analyzed(a, o) ==
  BinaryRun(a, o) /\ seen' = [seen EXCEPT ![a] = @ \cup {BinaryId[o]}]

\* The run fails, or the evidence that links the object to it does.
NotAnalyzed(a, o) ==
  /\ Fault /\ UNCHANGED seen
  /\ \/ UNCHANGED <<store, ran>>
     \/ BinaryRun(a, o)

\* One candidate.  When its row cannot be read it is analysed all the same.
Promote(a) ==
  /\ pc[a] = "promote" /\ todo[a] # <<>>
  /\ LET o == Head(todo[a]) IN
     \/ /\ AlreadyAnalyzed(a, o)
        /\ seen' = [seen EXCEPT ![a] = @ \cup {o}]
        /\ NoFault /\ UNCHANGED <<store, ran, warned>>
     \/ /\ (~AlreadyAnalyzed(a, o) /\ NoFault) \/ Fault
        /\ Analyzed(a, o) /\ UNCHANGED warned
     \/ /\ ~AlreadyAnalyzed(a, o) /\ NotAnalyzed(a, o)
        /\ warned' = [warned EXCEPT ![a] = TRUE]
  /\ todo' = [todo EXCEPT ![a] = Tail(@)]
  /\ UNCHANGED <<pc, save, stack, listed, queues, current, failed>>

\* What is new among s is queued, once.
Queue(a, s) ==
  /\ LET New == {i \in DOMAIN s : /\ s[i] \notin queued[a]
                                   /\ \A j \in 1..i - 1 : s[j] # s[i]}
     IN  pending' = [pending EXCEPT ![a] = @ \o Pick(s, New)]
  /\ queued' = [queued EXCEPT ![a] = @ \cup Elements(s)]
  /\ UNCHANGED <<processed, limit>>

\* The pipeline queues what the analysis listed.  A promotion that cannot
\* record its result ends the request.
EndPromotion(a) ==
  /\ pc[a] = "promote" /\ todo[a] = <<>>
  /\ \/ /\ Goto(a, AfterAnalysis(a))
        /\ IF a \in Pipeline THEN Queue(a, listed[a]) ELSE UNCHANGED queues
        /\ NoFault
     \/ /\ Candidates(listed[a]) # <<>> /\ Fault
        /\ Goto(a, "error") /\ UNCHANGED queues
  /\ UNCHANGED <<store, save, stack, listed, current, todo, seen, ran, failed,
                 warned>>

-----------------------------------------------------------------------------
(* run_object_carve_identify *)

FailStep(a) == failed' = [failed EXCEPT ![a] = TRUE]

\* carve_object_signatures cuts the embedded objects out.
Scan(a) ==
  /\ pc[a] = "scan"
  /\ \/ /\ Goto(a, "carve") /\ NoFault /\ UNCHANGED failed
        /\ todo' = [todo EXCEPT ![a] = Carve[current[a]]]
     \/ /\ Goto(a, "binary") /\ Fault /\ FailStep(a) /\ UNCHANGED todo
  /\ listed' = [listed EXCEPT ![a] = <<>>]
  /\ UNCHANGED <<store, save, stack, queues, current, seen, ran, warned>>

\* Each is identified as a file of its own, or counted as failed.
Identify(a) ==
  /\ pc[a] = "carve" /\ todo[a] # <<>>
  /\ \/ /\ save' = [save EXCEPT ![a] = GraphStatements(Head(todo[a]), "artifact")]
        /\ Goto(a, "save_carved") /\ NoFault /\ UNCHANGED <<todo, failed>>
     \/ /\ todo' = [todo EXCEPT ![a] = Tail(@)]
        /\ Fault /\ FailStep(a) /\ UNCHANGED <<pc, save>>
  /\ UNCHANGED <<store, stack, listed, queues, current, seen, ran, warned>>

\* The edge from the carved object is not counted but ends the whole step.
Derive(a) ==
  /\ pc[a] = "carved"
  /\ \/ /\ LET c == Head(todo[a]) IN
           listed' = [listed EXCEPT ![a] = @ \o <<c>> \o Entry[c]]
        /\ todo' = [todo EXCEPT ![a] = Tail(@)]
        /\ Goto(a, "carve") /\ NoFault /\ UNCHANGED failed
     \/ /\ Goto(a, "binary") /\ todo' = [todo EXCEPT ![a] = <<>>]
        /\ Fault /\ FailStep(a) /\ UNCHANGED listed
  /\ UNCHANGED <<store, save, stack, queues, current, seen, ran, warned>>

EndCarve(a) ==
  /\ pc[a] = "carve" /\ todo[a] = <<>>
  /\ \/ Queue(a, listed[a]) /\ NoFault /\ UNCHANGED failed
     \/ UNCHANGED queues /\ Fault /\ FailStep(a)
  /\ Goto(a, "binary")
  /\ UNCHANGED <<store, save, stack, listed, current, todo, seen, ran, warned>>

\* A statement of save_object_graph fails: what it had written stays.
SaveFails(a) ==
  /\ pc[a] \in Saving /\ Fault
  /\ torn' = IF Head(save[a]).table = "evidence"
             THEN torn \cup {Head(save[a]).obj} ELSE torn
  /\ save' = [save EXCEPT ![a] = <<>>]
  /\ CASE pc[a] = "save_root" ->
            Goto(a, "error") /\ UNCHANGED <<stack, todo, failed, warned>>
       [] pc[a] = "save_carved" ->
            /\ todo' = [todo EXCEPT ![a] = Tail(@)]
            /\ Goto(a, "carve") /\ FailStep(a) /\ UNCHANGED <<stack, warned>>
       [] pc[a] = "save_child" ->
            IF Digging(Top(a)) THEN ReturnError(a) ELSE LeaveExpander(a)
  /\ UNCHANGED <<row, ev, runs, listed, queues, current, seen, ran>>

-----------------------------------------------------------------------------
(* run_object_pipeline, and the object_analyze capability *)

Start(a) ==
  /\ pc[a] = "start"
  /\ \/ /\ a \in Pipeline /\ NoFault
        /\ save' = [save EXCEPT ![a] = GraphStatements(Root[a], "own")]
        /\ Goto(a, "save_root") /\ UNCHANGED stack
     \/ /\ a \notin Pipeline /\ row[Root[a]] # NoRow /\ NoFault
        /\ Call(a, Root[a], 0) /\ Goto(a, "analyze") /\ UNCHANGED save
     \/ /\ a \notin Pipeline /\ row[Root[a]] = NoRow /\ NoFault
        /\ Goto(a, "error") /\ UNCHANGED <<save, stack>>
     \/ Fault /\ Goto(a, "error") /\ UNCHANGED <<save, stack>>
  /\ UNCHANGED <<store, listed, queues, current, todo, seen, ran, failed, warned>>

QueueGraph(a) ==
  /\ pc[a] = "queue"
  /\ Queue(a, <<Root[a]>> \o Entry[Root[a]])
  /\ Goto(a, "loop") /\ NoFault
  /\ UNCHANGED <<store, save, stack, listed, current, todo, seen, ran, failed,
                 warned>>

Full(a) == Cardinality(processed[a]) >= limit[a]

\* The next object: analysed, skipped when it was before, or, when its row
\* cannot be read, a failed step.
Pop(a) ==
  /\ pc[a] = "loop" /\ pending[a] # <<>> /\ ~Full(a)
  /\ LET o == Head(pending[a]) IN
     /\ pending' = [pending EXCEPT ![a] = Tail(@)]
     /\ processed' = [processed EXCEPT ![a] = @ \cup {o}]
     /\ UNCHANGED <<queued, limit>>
     /\ \/ /\ o \notin processed[a] /\ NoFault
           /\ current' = [current EXCEPT ![a] = o]
           /\ Call(a, o, 0) /\ Goto(a, "analyze") /\ UNCHANGED failed
        \/ /\ o \in processed[a] /\ NoFault
           /\ UNCHANGED <<current, stack, pc, failed>>
        \/ /\ o \notin processed[a] /\ Fault /\ FailStep(a)
           /\ UNCHANGED <<current, stack, pc>>
  /\ UNCHANGED <<store, save, listed, todo, seen, ran, warned>>

\* The object itself, when it is a native binary not analysed yet; when the
\* database cannot tell, it is analysed.
AnalyzeBinary(a) ==
  /\ pc[a] = "binary"
  /\ LET o == current[a]
         due == o \in Native /\ ~AlreadyAnalyzed(a, o)
     IN  \/ ~due /\ NoFault /\ UNCHANGED <<store, seen, ran, failed>>
         \/ /\ (due /\ NoFault) \/ (o \in Native \ seen[a] /\ Fault)
            /\ Analyzed(a, o) /\ UNCHANGED failed
         \/ due /\ NotAnalyzed(a, o) /\ FailStep(a)
  /\ Goto(a, "loop")
  /\ UNCHANGED <<save, stack, listed, queues, current, todo, warned>>

\* the object limit does not end the loop
Finish_Slip(a) ==
  /\ pc[a] = "loop" /\ pending[a] = <<>>
  /\ \/ Goto(a, "done") /\ NoFault
     \/ Goto(a, "error") /\ Fault
  /\ UNCHANGED <<store, save, stack, listed, queues, current, todo, seen, ran,
                 failed, warned>>

\* The report is written: Completed when no step failed, else Partial.
Finish(a) ==
  /\ pc[a] = "loop" /\ (pending[a] = <<>> \/ Full(a))
  /\ \/ Goto(a, "done") /\ NoFault
     \/ Goto(a, "error") /\ Fault
  /\ UNCHANGED <<store, save, stack, listed, queues, current, todo, seen, ran,
                 failed, warned>>

Step(a) ==
  \/ Start(a) \/ QueueGraph(a) \/ Pop(a) \/ Finish(a)
  \/ SaveStatement(a) \/ SaveFails(a)
  \/ FoundChild(a) \/ Descend(a) \/ ReuseMember(a) \/ SkipMember(a)
  \/ RecordEvidence(a) \/ RecordRow(a) \/ AnalysisFails(a)
  \/ Promote(a) \/ EndPromotion(a)
  \/ Scan(a) \/ Identify(a) \/ Derive(a) \/ EndCarve(a)
  \/ AnalyzeBinary(a)

Next == \E a \in Actor : Step(a)

\* A thread that serves a request is scheduled until it answers.
Spec == Init /\ [][Next]_vars /\ \A a \in Actor : WF_vars(Step(a))

-----------------------------------------------------------------------------
(* Properties *)

PC == Saving \cup {"start", "queue", "loop", "analyze", "descend", "promote",
                   "scan", "carve", "carved", "binary", "done", "error"}

\* Types.  The recursion that digs and expands is never deeper than
\* MAX_AUTO_DIG_DEPTH calls below the outermost one.
TypeOK ==
  /\ row \in [Obj -> [place : Place \cup {None}, expanded : BOOLEAN,
                      lists : SUBSET Item]]
  /\ ev \in [Obj -> [Item -> Place \cup {None}]]
  /\ runs \subseteq Obj /\ torn \subseteq Obj /\ faults \in 0..MaxFaults
  /\ pc \in [Actor -> PC]
  /\ \A a \in Actor :
       /\ \A i \in DOMAIN stack[a] : stack[a][i].depth = Len(stack[a]) - i
       /\ Len(stack[a]) <= MaxDepth + 1
       /\ Elements(pending[a]) \cup processed[a] \subseteq queued[a]
       /\ queued[a] \subseteq Obj /\ seen[a] \subseteq Obj
       /\ ran[a] \in [Obj -> Nat]

Found(o) == Elements(Dig[o]) \cup Elements(Member[o]) \cup Elements(Carve[o])
              \cup UNION {Elements(Entry[c]) : c \in Elements(Carve[o])}

\* A pipeline that reports no failed step, warns of nothing and left nothing
\* pending when it reached its object limit has processed its root and whatever
\* is found in what it processed, however deep and whoever else expanded it
\* before, and every native binary among that has a completed analysis.
Covers ==
  \A a \in Pipeline :
    pc[a] = "done" /\ ~failed[a] /\ ~warned[a] /\ pending[a] = <<>> =>
      /\ Root[a] \in processed[a]
      /\ \A o \in processed[a] : Found(o) \subseteq processed[a]
      /\ \A o \in processed[a] \cap Native : BinaryId[o] \in runs

\* However often a native binary is found, by the promotion after any
\* analysis and by the loop itself, a request analyses it at most once, and
\* once more for each failure.  (A fat Mach-O, recorded under the id of a
\* slice, is not recognised.)
AnalysedOnce ==
  \A a \in Actor : \A o \in Native :
    BinaryId[o] = o => ran[a][o] <= 1 + MaxFaults - faults

\* The statement that inserts the evidence of a row just written is next.
Awaited(o) ==
  \E a \in Actor : \E i \in DOMAIN save[a] :
    save[a][i].obj = o /\ save[a][i].table = "evidence"

\* Evidence that a row lists exists, whoever rewrites the row and whatever
\* fails, but for a save cut short and for objects analysed as a binary, whose
\* run deletes the evidence of the path it reads.
EvidenceKept ==
  \A o \in Obj : \A i \in row[o].lists :
    ev[o][i] # None \/ Awaited(o) \/ o \in torn \cup runs

\* Every request ends.
Terminates == <>(\A a \in Actor : pc[a] \in {"done", "error"})
=============================================================================

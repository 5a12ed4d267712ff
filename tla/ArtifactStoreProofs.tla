------------------------- MODULE ArtifactStoreProofs -------------------------
(***************************************************************************)
(* Theorems about ArtifactStore, for every set of actors and contents and  *)
(* every size: complete blobs stay complete, handles name files, and a     *)
(* stub without a writer is the trace of an error or a crash.              *)
(***************************************************************************)
EXTENDS ArtifactStore, TLAPS

\* The file an actor writes at its path holds exactly what the actor wrote.
LinkedFile ==
  \A a \in Actor : linked[a] => pc[a] = "write" /\ blob[arg[a]] = pos[a]

\* create_new lets at most one writer hold the file at a path.
OneWriter ==
  \A a, b \in Actor : linked[a] /\ linked[b] /\ arg[a] = arg[b] => a = b

\* What is promoted is complete.
WholeTemp ==
  \A a \in Actor :
    /\ pc[a] = "export" => temp[a] = pos[a]
    /\ pc[a] \in {"rename", "remove"} => temp[a] = Size

\* A call that will return a handle without a rename has a file at its path.
PathTaken ==
  \A a \in Actor : pc[a] \in {"write", "remove"} => blob[arg[a]] # Absent

IInv ==
  /\ TypeOK
  /\ LinkedFile
  /\ OneWriter
  /\ WholeTemp
  /\ PathTaken
  /\ HandleNamesFile
  /\ StubExplained

\* Actor a is writing the file at the path of content c, and has written it
\* as far as it goes.
AtWork(a, c) ==
  pc[a] = "write" /\ arg[a] = c /\ linked[a] /\ pos[a] = blob[c]

LEMMA InitInv == Init => IInv
  BY SizeAssumption DEF Init, IInv, TypeOK, LinkedFile, OneWriter, WholeTemp,
     PathTaken, HandleNamesFile, StubExplained, Absent

\* StubExplained survives a step that explains every stub anew.
LEMMA StubStep ==
  ASSUME IInv,
         \A c \in Content :
           blob'[c] \in 0..(Size - 1) =>
             (\E a \in Actor : AtWork(a, c)') \/ c \in interrupted'
  PROVE  StubExplained'
  BY DEF StubExplained, AtWork

\* The steps of write_artifact_bytes.
LEMMA WriterInv ==
  ASSUME NEW a \in Actor, IInv,
         \/ \E c \in Content : Open(a, c) \/ OpenExisting(a, c)
         \/ Write(a) \/ WriteDone(a) \/ WriteError(a)
  PROVE  IInv'
<1> USE SizeAssumption DEF IInv, TypeOK, Absent, Return
<1>1. ASSUME NEW c \in Content, Open(a, c) PROVE IInv'
  <2> USE <1>1 DEF Open
  <2>1. TypeOK'
    OBVIOUS
  <2>2. \A b \in Actor : linked[b] => arg[b] # c
    BY DEF LinkedFile
  <2>3. LinkedFile' /\ OneWriter'
    BY <2>2 DEF LinkedFile, OneWriter
  <2>4. WholeTemp' /\ PathTaken' /\ HandleNamesFile'
    BY DEF WholeTemp, PathTaken, HandleNamesFile
  <2>5. ASSUME NEW d \in Content, blob'[d] \in 0..(Size - 1), d \notin interrupted
        PROVE  \E b \in Actor : AtWork(b, d)'
    <3>1. CASE d = c
      BY <3>1 DEF AtWork
    <3>2. CASE d # c
      <4>1. PICK b \in Actor : AtWork(b, d)
        BY <2>5, <3>2 DEF StubExplained, AtWork
      <4> QED BY <3>2, <4>1 DEF AtWork
    <3> QED BY <3>1, <3>2
  <2> QED BY <2>1, <2>3, <2>4, <2>5, StubStep
<1>2. ASSUME NEW c \in Content, OpenExisting(a, c) PROVE IInv'
  BY <1>2 DEF OpenExisting, LinkedFile, OneWriter, WholeTemp, PathTaken,
     HandleNamesFile, StubExplained
<1>3. CASE Write(a)
  <2> USE <1>3 DEF Write
  <2>1. TypeOK'
    OBVIOUS
  <2>2. LinkedFile' /\ OneWriter'
    BY DEF LinkedFile, OneWriter
  <2>3. WholeTemp' /\ PathTaken' /\ HandleNamesFile'
    BY DEF WholeTemp, PathTaken, HandleNamesFile
  <2>4. ASSUME NEW c \in Content, blob'[c] \in 0..(Size - 1), c \notin interrupted
        PROVE  \E b \in Actor : AtWork(b, c)'
    <3>1. CASE linked[a] /\ arg[a] = c
      BY <3>1 DEF AtWork
    <3>2. CASE ~ (linked[a] /\ arg[a] = c)
      <4>1. PICK b \in Actor : AtWork(b, c)
        BY <2>4, <3>2 DEF StubExplained, AtWork
      <4> QED BY <3>2, <4>1 DEF AtWork
    <3> QED BY <3>1, <3>2
  <2> QED BY <2>1, <2>2, <2>3, <2>4, StubStep
<1>4. CASE WriteDone(a)
  <2> USE <1>4 DEF WriteDone
  <2>1. TypeOK' /\ LinkedFile' /\ OneWriter'
    BY DEF LinkedFile, OneWriter
  <2>2. WholeTemp' /\ PathTaken' /\ HandleNamesFile'
    BY DEF WholeTemp, PathTaken, HandleNamesFile
  <2>3. ASSUME NEW c \in Content, blob'[c] \in 0..(Size - 1), c \notin interrupted
        PROVE  \E b \in Actor : AtWork(b, c)'
    <3>1. PICK b \in Actor : AtWork(b, c)
      BY <2>3 DEF StubExplained, AtWork
    <3> QED BY <2>3, <3>1 DEF AtWork
  <2> QED BY <2>1, <2>2, <2>3, StubStep
<1>5. CASE WriteError(a)
  <2> USE <1>5 DEF WriteError
  <2>1. TypeOK' /\ LinkedFile' /\ OneWriter'
    BY DEF LinkedFile, OneWriter
  <2>2. WholeTemp' /\ PathTaken' /\ HandleNamesFile'
    BY DEF WholeTemp, PathTaken, HandleNamesFile
  <2>3. ASSUME NEW c \in Content, blob'[c] \in 0..(Size - 1), c \notin interrupted'
        PROVE  \E b \in Actor : AtWork(b, c)'
    <3>1. PICK b \in Actor : AtWork(b, c)
      BY <2>3 DEF StubExplained, AtWork
    <3> QED BY <2>3, <3>1 DEF AtWork
  <2> QED BY <2>1, <2>2, <2>3, StubStep
<1> QED BY <1>1, <1>2, <1>3, <1>4, <1>5

\* The steps of an export that leave the blobs alone.
LEMMA ExportInv ==
  ASSUME NEW a \in Actor, IInv,
         \/ \E c \in Content : ExportBegin(a, c)
         \/ ExportWrite(a) \/ ExportError(a) \/ ExportSmall(a)
         \/ PromoteCheck(a) \/ PromoteRemove(a)
  PROVE  IInv'
<1> USE SizeAssumption DEF IInv, TypeOK, Absent, Return, ExportBegin, ExportWrite,
        ExportError, ExportSmall, PromoteCheck, PromoteRemove
<1>1. TypeOK'
  OBVIOUS
<1>2. UNCHANGED <<blob, linked, interrupted>> /\ pc[a] # "write" /\ pc'[a] # "write"
  OBVIOUS
<1>3. \A b \in Actor : b # a => pc'[b] = pc[b] /\ arg'[b] = arg[b] /\ pos'[b] = pos[b]
  OBVIOUS
<1>4. LinkedFile' /\ OneWriter'
  BY <1>2, <1>3 DEF LinkedFile, OneWriter
<1>5. WholeTemp' /\ PathTaken' /\ HandleNamesFile'
  BY DEF WholeTemp, PathTaken, HandleNamesFile
<1>6. ASSUME NEW c \in Content, blob'[c] \in 0..(Size - 1), c \notin interrupted
      PROVE  \E b \in Actor : AtWork(b, c)'
  <2>1. PICK b \in Actor : AtWork(b, c)
    BY <1>2, <1>6 DEF StubExplained, AtWork
  <2>2. b # a
    BY <1>2, <2>1 DEF AtWork
  <2> QED BY <1>2, <1>3, <2>1, <2>2 DEF AtWork
<1> QED BY <1>1, <1>2, <1>4, <1>5, <1>6, StubStep

\* A rename puts a whole file at its path and cuts every writer off it.
LEMMA RenameInv ==
  ASSUME NEW a \in Actor, IInv, PromoteRename(a)
  PROVE  IInv'
<1> USE SizeAssumption DEF IInv, TypeOK, Absent, Return, PromoteRename
<1>1. temp[a] = Size
  BY DEF WholeTemp
<1>2. TypeOK'
  OBVIOUS
<1>3. LinkedFile' /\ OneWriter'
  BY DEF LinkedFile, OneWriter
<1>4. WholeTemp' /\ PathTaken' /\ HandleNamesFile'
  BY <1>1 DEF WholeTemp, PathTaken, HandleNamesFile
<1>5. ASSUME NEW c \in Content, blob'[c] \in 0..(Size - 1), c \notin interrupted
      PROVE  \E b \in Actor : AtWork(b, c)'
  <2>1. c # arg[a]
    BY <1>1, <1>5
  <2>2. PICK b \in Actor : AtWork(b, c)
    BY <1>5, <2>1 DEF StubExplained, AtWork
  <2> QED BY <2>1, <2>2 DEF AtWork
<1> QED BY <1>2, <1>3, <1>4, <1>5, StubStep

LEMMA CrashInv ==
  ASSUME NEW a \in Actor, IInv, Crash(a)
  PROVE  IInv'
<1> USE SizeAssumption DEF IInv, TypeOK, Absent, Return, Crash
<1>1. TypeOK' /\ LinkedFile' /\ OneWriter'
  BY DEF LinkedFile, OneWriter
<1>2. WholeTemp' /\ PathTaken' /\ HandleNamesFile'
  BY DEF WholeTemp, PathTaken, HandleNamesFile
<1>3. ASSUME NEW c \in Content, blob'[c] \in 0..(Size - 1), c \notin interrupted'
      PROVE  \E b \in Actor : AtWork(b, c)'
  <2>1. PICK b \in Actor : AtWork(b, c)
    BY <1>3 DEF StubExplained, AtWork
  <2> QED BY <1>3, <2>1 DEF AtWork
<1> QED BY <1>1, <1>2, <1>3, StubStep

LEMMA StepInv == IInv /\ [Next]_vars => IInv'
<1> SUFFICES ASSUME IInv, [Next]_vars PROVE IInv'
  OBVIOUS
<1>1. CASE UNCHANGED vars
  BY <1>1 DEF vars, IInv, TypeOK, LinkedFile, OneWriter, WholeTemp, PathTaken,
     HandleNamesFile, StubExplained
<1>2. CASE Next
  BY <1>2, WriterInv, ExportInv, RenameInv, CrashInv DEF Next, Continue, Call, Fail
<1> QED BY <1>1, <1>2

\* The inductive invariant holds of every reachable state.
THEOREM Invariance == Spec => []IInv
  BY InitInv, StepInv, PTL DEF Spec

\* TypeOK for every set of actors and contents.
THEOREM TypeCorrect == Spec => []TypeOK
<1>1. IInv => TypeOK
  BY DEF IInv
<1> QED BY <1>1, Invariance, PTL

\* Every returned handle names a file that is there, however many actors,
\* errors and crashes there were.
THEOREM HandlesNameFiles == Spec => []HandleNamesFile
<1>1. IInv => HandleNamesFile
  BY DEF IInv
<1> QED BY <1>1, Invariance, PTL

\* Errors and crashes of a writer are the only way to a lasting stub.
THEOREM StubsExplained == Spec => []StubExplained
<1>1. IInv => StubExplained
  BY DEF IInv
<1> QED BY <1>1, Invariance, PTL

\* No step of any actor damages a complete blob.
THEOREM CompleteBlobsStay == Spec => CompleteStays
<1>1. IInv /\ [Next]_vars => [\A c \in Content : blob[c] = Size => blob'[c] = Size]_vars
  <2> SUFFICES ASSUME IInv, Next, NEW c \in Content, blob[c] = Size
               PROVE  blob'[c] = Size
    OBVIOUS
  <2> USE SizeAssumption DEF IInv, TypeOK, Absent
  <2>1. PICK a \in Actor : Continue(a) \/ Call(a) \/ Fail(a)
    BY DEF Next
  <2>2. CASE Write(a)
    BY <2>2 DEF Write, LinkedFile
  <2>3. CASE \E d \in Content : Open(a, d)
    BY <2>3 DEF Open
  <2>4. CASE PromoteRename(a)
    BY <2>4 DEF PromoteRename, WholeTemp
  <2>5. CASE UNCHANGED blob
    BY <2>5
  <2> QED
    BY <2>1, <2>2, <2>3, <2>4, <2>5 DEF Continue, Call, Fail, WriteDone, OpenExisting,
       ExportWrite, ExportSmall, PromoteCheck, PromoteRemove, ExportBegin,
       WriteError, ExportError, Crash
<1> QED BY <1>1, Invariance, PTL DEF Spec, CompleteStays

=============================================================================

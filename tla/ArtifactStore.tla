---------------------------- MODULE ArtifactStore ----------------------------
(***************************************************************************)
(* The blobs of a workspace, .revx/artifacts/<blake3>: write_artifact_bytes*)
(* (crates/revx-workspace/src/artifacts.rs), which creates the file of a   *)
(* hash and writes it in place, and the evidence exports of                *)
(* crates/revx-workspace/src/lib.rs, which stream into a temporary file    *)
(* and promote it.  Actors are threads of one or several processes sharing *)
(* the directory; each runs one call at a time.  A content stands for its  *)
(* bytes and for their hash; it is written in Size pieces, since write_all *)
(* is any number of write calls and nothing makes them one.                *)
(***************************************************************************)
EXTENDS Integers

CONSTANTS
  Actor,     \* threads that call the store
  Content,   \* contents, each with its own hash
  Size       \* pieces a content is written in

ASSUME SizeAssumption == Size \in Nat \ {0}

Absent == -1

VARIABLES
  blob,         \* blob[c]: pieces in the file artifacts/<hash of c>, or Absent
  temp,         \* temp[a]: pieces in the temporary file of a, or Absent
  pc,           \* what each actor is doing
  arg,          \* the content each actor is working on
  pos,          \* pieces the actor has written in its current call
  linked,       \* is the file the actor writes still the one at its path?
  handles,      \* contents for which some call has returned a handle
  interrupted   \* contents of which a writer stopped halfway

vars == <<blob, temp, pc, arg, pos, linked, handles, interrupted>>

Init ==
  /\ blob = [c \in Content |-> Absent]
  /\ temp = [a \in Actor |-> Absent]
  /\ pc = [a \in Actor |-> "idle"]
  /\ arg \in [Actor -> Content]
  /\ pos = [a \in Actor |-> 0]
  /\ linked = [a \in Actor |-> FALSE]
  /\ handles = {}
  /\ interrupted = {}

\* the call of a ends, with or without a handle on its content
Return(a, got) ==
  /\ pc' = [pc EXCEPT ![a] = "idle"]
  /\ handles' = handles \cup got

-----------------------------------------------------------------------------
(* write_artifact_bytes.  An operator whose name ends in _Slip is a        *)
(* plausible mistake in the definition after it, used by no specification. *)

\* open with create and truncate instead of create_new
Open_Slip(a, c) ==
  /\ pc[a] = "idle"
  /\ blob' = [blob EXCEPT ![c] = 0]
  /\ arg' = [arg EXCEPT ![a] = c]
  /\ pos' = [pos EXCEPT ![a] = 0]
  /\ linked' = [linked EXCEPT ![a] = TRUE]
  /\ pc' = [pc EXCEPT ![a] = "write"]
  /\ UNCHANGED <<temp, handles, interrupted>>

\* create_new succeeds: the path now names an empty file
Open(a, c) ==
  /\ pc[a] = "idle"
  /\ blob[c] = Absent
  /\ blob' = [blob EXCEPT ![c] = 0]
  /\ arg' = [arg EXCEPT ![a] = c]
  /\ pos' = [pos EXCEPT ![a] = 0]
  /\ linked' = [linked EXCEPT ![a] = TRUE]
  /\ pc' = [pc EXCEPT ![a] = "write"]
  /\ UNCHANGED <<temp, handles, interrupted>>

\* AlreadyExists: the handle is returned without a look at the file
OpenExisting(a, c) ==
  /\ pc[a] = "idle"
  /\ blob[c] # Absent
  /\ handles' = handles \cup {c}
  /\ UNCHANGED <<blob, temp, pc, arg, pos, linked, interrupted>>

\* the loop of write_all runs once too often
Write_Slip(a) ==
  /\ pc[a] = "write"
  /\ pos[a] <= Size
  /\ pos' = [pos EXCEPT ![a] = @ + 1]
  /\ blob' = IF linked[a] THEN [blob EXCEPT ![arg[a]] = pos[a] + 1] ELSE blob
  /\ UNCHANGED <<temp, pc, arg, linked, handles, interrupted>>

\* one write call of write_all, to the file that was opened
Write(a) ==
  /\ pc[a] = "write"
  /\ pos[a] < Size
  /\ pos' = [pos EXCEPT ![a] = @ + 1]
  /\ blob' = IF linked[a] THEN [blob EXCEPT ![arg[a]] = pos[a] + 1] ELSE blob
  /\ UNCHANGED <<temp, pc, arg, linked, handles, interrupted>>

\* the handle is returned before the last piece is written
WriteDone_Slip(a) ==
  /\ pc[a] = "write"
  /\ Return(a, {arg[a]})
  /\ linked' = [linked EXCEPT ![a] = FALSE]
  /\ UNCHANGED <<blob, temp, arg, pos, interrupted>>

WriteDone(a) ==
  /\ pc[a] = "write"
  /\ pos[a] = Size
  /\ Return(a, {arg[a]})
  /\ linked' = [linked EXCEPT ![a] = FALSE]
  /\ UNCHANGED <<blob, temp, arg, pos, interrupted>>

\* the error path tidies up behind itself
WriteError_Slip(a) ==
  /\ pc[a] = "write"
  /\ pos[a] < Size
  /\ Return(a, {})
  /\ blob' = [blob EXCEPT ![arg[a]] = Absent]
  /\ linked' = [linked EXCEPT ![a] = FALSE]
  /\ interrupted' = IF linked[a] THEN interrupted \cup {arg[a]} ELSE interrupted
  /\ UNCHANGED <<temp, arg, pos>>

\* write_all(bytes)? fails (a full disk): the file stays as it is
WriteError(a) ==
  /\ pc[a] = "write"
  /\ pos[a] < Size
  /\ Return(a, {})
  /\ linked' = [linked EXCEPT ![a] = FALSE]
  /\ interrupted' = IF linked[a] THEN interrupted \cup {arg[a]} ELSE interrupted
  /\ UNCHANGED <<blob, temp, arg, pos>>

-----------------------------------------------------------------------------
(* export_evidence_from_rows and export_evidence_ids_from_rows.            *)

\* new_temp_artifact_path and File::create, which truncates a leftover
ExportBegin(a, c) ==
  /\ pc[a] = "idle"
  /\ temp' = [temp EXCEPT ![a] = 0]
  /\ arg' = [arg EXCEPT ![a] = c]
  /\ pos' = [pos EXCEPT ![a] = 0]
  /\ pc' = [pc EXCEPT ![a] = "export"]
  /\ UNCHANGED <<blob, linked, handles, interrupted>>

ExportWrite(a) ==
  /\ pc[a] = "export"
  /\ pos[a] < Size
  /\ pos' = [pos EXCEPT ![a] = @ + 1]
  /\ temp' = [temp EXCEPT ![a] = pos[a] + 1]
  /\ UNCHANGED <<blob, pc, arg, linked, handles, interrupted>>

\* a row cannot be read or written: `?` leaves the temporary file behind
ExportError(a) ==
  /\ pc[a] = "export"
  /\ Return(a, {})
  /\ UNCHANGED <<blob, temp, arg, pos, linked, interrupted>>

\* no more rows than the preview holds: the temporary file is removed
ExportSmall(a) ==
  /\ pc[a] = "export"
  /\ pos[a] = Size
  /\ temp' = [temp EXCEPT ![a] = Absent]
  /\ Return(a, {})
  /\ UNCHANGED <<blob, arg, pos, linked, interrupted>>

\* promote_temp_artifact up to the answer of dst.exists()
PromoteCheck(a) ==
  /\ pc[a] = "export"
  /\ pos[a] = Size
  /\ pc' = [pc EXCEPT ![a] = IF blob[arg[a]] = Absent THEN "rename" ELSE "remove"]
  /\ UNCHANGED <<blob, temp, arg, pos, linked, handles, interrupted>>

\* rename(src, dst) replaces whatever is at dst by now, and a writer that
\* still has the replaced file open goes on writing to a file without a path
PromoteRename(a) ==
  /\ pc[a] = "rename"
  /\ blob' = [blob EXCEPT ![arg[a]] = temp[a]]
  /\ linked' = [b \in Actor |-> linked[b] /\ arg[b] # arg[a]]
  /\ temp' = [temp EXCEPT ![a] = Absent]
  /\ Return(a, {arg[a]})
  /\ UNCHANGED <<arg, pos, interrupted>>

PromoteRemove(a) ==
  /\ pc[a] = "remove"
  /\ temp' = [temp EXCEPT ![a] = Absent]
  /\ Return(a, {arg[a]})
  /\ UNCHANGED <<blob, arg, pos, linked, interrupted>>

-----------------------------------------------------------------------------

\* the process of a dies; what it wrote stays, another takes its place
Crash(a) ==
  /\ pc[a] # "idle"
  /\ Return(a, {})
  /\ linked' = [linked EXCEPT ![a] = FALSE]
  /\ interrupted' = IF linked[a] /\ pos[a] < Size
                    THEN interrupted \cup {arg[a]} ELSE interrupted
  /\ UNCHANGED <<blob, temp, arg, pos>>

\* the steps a call that has begun takes by itself
Continue(a) == \/ Write(a) \/ WriteDone(a)
               \/ ExportWrite(a) \/ ExportSmall(a)
               \/ PromoteCheck(a) \/ PromoteRename(a) \/ PromoteRemove(a)

Call(a) == \E c \in Content : Open(a, c) \/ OpenExisting(a, c) \/ ExportBegin(a, c)

Fail(a) == WriteError(a) \/ ExportError(a) \/ Crash(a)

Next == \E a \in Actor : Continue(a) \/ Call(a) \/ Fail(a)

\* A call that has begun goes on: the operating system schedules its thread.
Spec == Init /\ [][Next]_vars /\ \A a \in Actor : WF_vars(Continue(a))

-----------------------------------------------------------------------------
(* Properties.                                                             *)

TypeOK ==
  /\ blob \in [Content -> Absent..Size]
  /\ temp \in [Actor -> Absent..Size]
  /\ pc \in [Actor -> {"idle", "write", "export", "rename", "remove"}]
  /\ arg \in [Actor -> Content]
  /\ pos \in [Actor -> 0..Size]
  /\ linked \in [Actor -> BOOLEAN]
  /\ handles \in SUBSET Content
  /\ interrupted \in SUBSET Content

\* No interleaving of writers, promotions, errors and crashes ever damages or
\* removes a blob that was complete.
CompleteStays ==
  [][\A c \in Content : blob[c] = Size => blob'[c] = Size]_vars

\* A handle names a file: nothing removes the file of a returned handle, so a
\* row of the database that holds the handle can be followed.
HandleNamesFile == \A c \in handles : blob[c] # Absent

\* A blob that is not complete has one writer at work on it, or had one that
\* stopped halfway: errors and crashes are the only way to a lasting stub.
StubExplained ==
  \A c \in Content :
    blob[c] \in 0..(Size - 1) =>
      \/ \E a \in Actor : pc[a] = "write" /\ arg[a] = c /\ linked[a] /\ pos[a] = blob[c]
      \/ c \in interrupted

\* A returned handle is good in the end unless a writer stopped halfway.
HandleCompletes ==
  \A c \in Content : c \in handles ~> (blob[c] = Size \/ c \in interrupted)

\* What "content-addressed" says of the store (README.md): the file under the
\* hash of a returned handle has that hash, once nobody is writing it.
ContentAddressed ==
  \A c \in handles :
    \/ blob[c] = Size
    \/ \E a \in Actor : pc[a] = "write" /\ arg[a] = c /\ linked[a]

=============================================================================

--------------------------- MODULE FunctionStream ---------------------------
(***************************************************************************)
(* What analyze_streaming promises the sink it is given                    *)
(* (crates/revx-analysis/src/lib.rs): the recovered functions reach        *)
(* on_function one at a time, in the order in which they were recovered,   *)
(* each once, and the walk returns Ok only after the last one.  The walk   *)
(* may stop early, when the sink returns an error or an analysis panics.   *)
(***************************************************************************)
EXTENDS Naturals, Sequences

CONSTANT N    \* number of recovered functions; function i is the i-th pushed

VARIABLES
  out,        \* the functions the sink has accepted, in order
  status      \* "running", "done" or "aborted"

Init ==
  /\ out = << >>
  /\ status = "running"

Emit ==
  /\ status = "running"
  /\ Len(out) < N
  /\ out' = Append(out, Len(out) + 1)
  /\ UNCHANGED status

Finish ==
  /\ status = "running"
  /\ Len(out) = N
  /\ status' = "done"
  /\ UNCHANGED out

Abort ==
  /\ status = "running"
  /\ status' = "aborted"
  /\ UNCHANGED out

Next == Emit \/ Finish \/ Abort

vars == <<out, status>>

Spec == Init /\ [][Next]_vars

=============================================================================

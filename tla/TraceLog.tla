------------------------------ MODULE TraceLog ------------------------------
(***************************************************************************)
(* What the dynamic tracer promises the rest of xcalbuild: a log that      *)
(* grows by one interesting call at a time, each call at most once and     *)
(* only after the traced process has told all of it, until the log is      *)
(* ended, completely ("]" written) or broken off, and then never changes.  *)
(* It promises nothing about the calls that are missing.                   *)
(***************************************************************************)
EXTENDS Naturals, Sequences, Functions

CONSTANTS Calls, Recordable

VARIABLES issued,  \* the calls whose message has been written in full
          log,     \* the calls recorded, in order
          status   \* "recording", "complete" or "broken"

vars == <<issued, log, status>>

Init == issued = {} /\ log = <<>> /\ status = "recording"

Issue(c) ==
  /\ c \notin issued
  /\ issued' = issued \cup {c}
  /\ UNCHANGED <<log, status>>

Record(c) ==
  /\ status = "recording"
  /\ c \in issued \cap Recordable
  /\ c \notin Range(log)
  /\ log' = Append(log, c)
  /\ UNCHANGED <<issued, status>>

End ==
  /\ status = "recording"
  /\ status' \in {"complete", "broken"}
  /\ UNCHANGED <<issued, log>>

Next == End \/ \E c \in Calls : Issue(c) \/ Record(c)

Spec == Init /\ [][Next]_vars

=============================================================================

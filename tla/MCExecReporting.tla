--------------------------- MODULE MCExecReporting ---------------------------
(* ExecReporting on two processes and three environments. *)
EXTENDS ExecReporting, TLC

CONSTANTS p1, p2

Two == {p1, p2}

Own(key) == <<key, "build">>

Symmetry == Permutations(Two)

\* No entry at all, foreign variables, and a key that comes twice.
SomeEnvs ==
  { <<>>, << Own("other"), Own(Preload), Own(Output) >>,
    << Own(Preload), Own(Output), Own(Output) >> }

=============================================================================

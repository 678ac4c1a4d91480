---------------------------- MODULE MCBearTracer ----------------------------
(* BearTracer on small instances. *)
EXTENDS BearTracer

CONSTANTS c1, c2, c3, c4

Two   == {c1, c2}
Three == {c1, c2, c3}
Four  == {c1, c2, c3, c4}
None  == {}
First == {c1}
Last  == {c3}
Codes == {0, 2}

=============================================================================

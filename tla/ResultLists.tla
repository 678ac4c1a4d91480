---------------------------- MODULE ResultLists -----------------------------
(***************************************************************************)
(* What the parallel phase promises the output generation: a list to which *)
(* each work item adds its translation units in the order of its sources,  *)
(* some left out, until the item is closed; after the barrier, which waits *)
(* for all items, the list never changes.                                  *)
(***************************************************************************)
EXTENDS Naturals, Sequences

VARIABLES
  next,    \* of each item, its next source
  closed,  \* the items that will add nothing more
  list,    \* the translation units so far: <<item, source>>
  over     \* the barrier has been passed

vars == <<next, closed, list, over>>

Items == DOMAIN next

Init ==
  /\ next = [i \in Items |-> 1]
  /\ closed = {} /\ list = <<>> /\ over = FALSE

Deliver(i) ==
  /\ i \notin closed
  /\ list' = Append(list, <<i, next[i]>>)
  /\ next' = [next EXCEPT ![i] = @ + 1]
  /\ UNCHANGED <<closed, over>>

Skip(i) ==
  /\ i \notin closed
  /\ next' = [next EXCEPT ![i] = @ + 1]
  /\ UNCHANGED <<closed, list, over>>

Close(i) ==
  /\ i \notin closed
  /\ closed' = closed \cup {i}
  /\ UNCHANGED <<next, list, over>>

Barrier ==
  /\ closed = Items /\ over' = TRUE
  /\ UNCHANGED <<next, closed, list>>

Next == Barrier \/ \E i \in Items : Deliver(i) \/ Skip(i) \/ Close(i)

Spec == Init /\ [][Next]_vars

=============================================================================

------------------------------- MODULE MCWire -------------------------------
(***************************************************************************)
(* Instances of Wire for TLC.                                              *)
(***************************************************************************)
EXTENDS Wire

\* A message that is answered, one without and one with a message inside; two of
\* them outgrow the buffer they are written to.
SomeContent ==
  {[kind |-> "get", id |-> 1],
   [kind |-> "obj_msg", id |-> 1, data |-> << >>],
   [kind |-> "task", name |-> <<7>>, event |-> 5, data |-> <<6, 8>>]}
=============================================================================

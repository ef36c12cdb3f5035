----------------------------- MODULE Connections -----------------------------
(***************************************************************************)
(* What the modules that model edsm_proto_send as appending a message to a *)
(* connection rely on: every message that has been sent is handled once,   *)
(* as it was sent, and in the order of the sending.                        *)
(***************************************************************************)
EXTENDS Sequences

CONSTANTS
  Node,      \* the processes
  Message    \* what can be sent

VARIABLES
  chan,      \* the messages on the connection from one node to another
  handled    \* the last one that has been handled there, in a sequence

vars == <<chan, handled>>

Init ==
  /\ chan    = [p \in Node |-> [n \in Node |-> << >>]]
  /\ handled = [p \in Node |-> [n \in Node |-> << >>]]

Send(p, n, m) ==
  /\ chan' = [chan EXCEPT ![p][n] = Append(@, m)]
  /\ UNCHANGED handled

Handle(p, n) ==
  /\ chan[p][n] # << >>
  /\ handled' = [handled EXCEPT ![p][n] = <<Head(chan[p][n])>>]
  /\ chan' = [chan EXCEPT ![p][n] = Tail(@)]

\* A node handles what it sends to itself in one step.
SendSelf(n, m) ==
  /\ handled' = [handled EXCEPT ![n][n] = <<m>>]
  /\ UNCHANGED chan

Next ==
  \/ \E p, n \in Node : Handle(p, n) \/ \E m \in Message : Send(p, n, m)
  \/ \E n \in Node, m \in Message : SendSelf(n, m)

Spec == Init /\ [][Next]_vars
============================================================================

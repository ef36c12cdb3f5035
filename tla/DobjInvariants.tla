--------------------------- MODULE DobjInvariants ---------------------------
(***************************************************************************)
(* The inductive invariant behind the theorems of DobjProofs.              *)
(***************************************************************************)
EXTENDS Dobj

\* A thread with one of these is the one that has put the object into the hash.
InProgress == {"added", "armed", "asking"}

\* n has not sent its GETs yet.
NotSent(n) == n \notin hashed \/ \E t \in Thread : pc[n][t] \in {"added", "armed"}

\* One thread of a node asks for the object, once; replies are awaited from the
\* arming of the waiter on and until that thread returns.
ThreadInv ==
  \A n \in Node :
    /\ n \notin hashed => \A t \in Thread : pc[n][t] = "out"
    /\ \A s, t \in Thread :
         pc[n][s] \in InProgress /\ pc[n][t] \in InProgress => s = t
    /\ \A t \in Thread : pc[n][t] = "armed" => wait_on[n] = GroupPeers(n)
    /\ Joined(n) => wait_on[n] = {}

\* Where there is a GET, a lookup or a reply, the asker has sent its GETs; who
\* was found has the object, and who says so knows the asker.
MessageInv ==
  \A n, p \in Node :
    /\ GetMsg \in Range(chan[p][n]) => p # n /\ ~ NotSent(p)
    /\ \A get \in looked_up[n] :
         /\ get.peer_id # n /\ ~ NotSent(get.peer_id)
         /\ get.found => n \in hashed
    /\ \A m \in Range(chan[p][n]) :
         m.type = "GET_REPLY" =>
           /\ p # n /\ ~ NotSent(n)
           /\ m.have_reference => p \in hashed /\ n \in peers[p]

Acquainted(n, p) == p \in peers[n] /\ n \in peers[p]

\* The listener of p tells n, or will tell it, that p does not have the object.
NotFound(n, p) ==
  \/ [peer_id |-> n, found |-> FALSE] \in looked_up[p]
  \/ ReplyMsg(FALSE) \in Range(chan[p][n])

\* The GET of n to p finds the object there: it is still to be sent or answered,
\* and not with a no; or it has been, and they know each other.
WillFind(n, p) ==
  /\ p \in hashed
  /\ ~ NotFound(n, p)
  /\ NotSent(n) \/ p \in wait_on[n] \/ Acquainted(n, p)

\* Of two GETs that cross at most one fails: who is not found asks later, and finds.
PairInv ==
  \A n, p \in Node : n # p =>
    /\ NotFound(n, p) => WillFind(p, n)
    /\ ~ NotSent(n) /\ p \notin wait_on[n] => Acquainted(n, p) \/ WillFind(p, n)

DobjInv ==
  TypeOK /\ ThreadInv /\ MessageInv /\ PeersHold /\ NoGetLost /\ PairInv
============================================================================

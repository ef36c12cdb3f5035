-------------------------- MODULE MutexInvariants --------------------------
(***************************************************************************)
(* The inductive invariants behind the theorems of MutexProofs.            *)
(***************************************************************************)
EXTENDS Mutex

\* A thread in the critical region of the object, or about to enter it.
Engaged(n, t) == pc[n][t] \in {"waiting", "held"}

(***************************************************************************)
(* One node, any number of them: local_mutex belongs to the one thread     *)
(* that is inside lock or unlock, there is a request exactly while that    *)
(* thread waits for the mutex or holds it, and replies are awaited only    *)
(* while it waits.                                                         *)
(***************************************************************************)
PeersKnown == peers = [n \in Node |-> Node \ {n}]

NothingToSelf == \A n \in Node : chan[n][n] = << >>

OwnerInside ==
  \A n \in Node, t \in Thread : pc[n][t] # "idle" => local_mutex[n] = t

RequestWhileEngaged ==
  \A n \in Node :
    local_request[n] # NoRequest <=> \E t \in Thread : Engaged(n, t)

AwaitedWhileWaiting ==
  \A n \in Node :
    /\ n \notin wait_on[n]
    /\ wait_on[n] # {} => \E t \in Thread : pc[n][t] = "waiting"

LocalInv ==
  /\ TypeOK /\ PeersKnown /\ NothingToSelf
  /\ OwnerInside /\ RequestWhileEngaged /\ AwaitedWhileWaiting

AnswerInv == LocalInv /\ DeferredFollow /\ NoLostReply

----------------------------------------------------------------------------
(***************************************************************************)
(* Two nodes: where the request of i to j is.                              *)
(***************************************************************************)

\* It is under way to j.
Pending(i, j) == Carries(chan[i][j], "REQUEST")

\* j has put it off.
Deferred(j) == requests[j] # << >>

\* The reply of j is under way.
Answered(i, j) == Carries(chan[j][i], "REPLY")

\* j has replied, whether or not i has seen it.
Granted(i, j) ==
  \/ Answered(i, j)
  \/ local_request[i] # NoRequest /\ j \notin wait_on[i]

\* No two messages of one type are on their way on one connection.
AtMostOne(s, type) ==
  \A k, l \in DOMAIN s : s[k].type = type /\ s[l].type = type => k = l

(***************************************************************************)
(* The request of i is in one place; a message never has a time its sender *)
(* has not reached; and once j has replied, its clock is beyond the        *)
(* request, so that every later request of j comes behind it.              *)
(***************************************************************************)
Single(i, j) ==
  AtMostOne(chan[i][j], "REQUEST") /\ AtMostOne(chan[i][j], "REPLY")

Stamped(i, j) ==
  /\ local_request[i] <= l_time[i]
  /\ \A m \in Range(chan[i][j]) :
       /\ m.type \in {"REQUEST", "REPLY"} => m.l_time <= l_time[i]
       /\ m.type = "REQUEST" => m = RequestMsg(local_request[i])

InOnePlace(i, j) ==
  /\ Pending(i, j) => j \in wait_on[i] /\ ~ Deferred(j) /\ ~ Answered(i, j)
  /\ Deferred(j) => j \in wait_on[i] /\ ~ Answered(i, j)
  /\ Answered(i, j) => j \in wait_on[i]

Kept(i, j) ==
  Deferred(j) =>
    requests[j] = <<LocalRequest(i)>> /\ local_request[i] < l_time[j]

Ahead(i, j) ==
  Granted(i, j) =>
    /\ local_request[i] < l_time[j]
    /\ local_request[j] # NoRequest =>
         Precedes(LocalRequest(i), LocalRequest(j))

PairInv(i, j) ==
  Single(i, j) /\ Stamped(i, j) /\ InOnePlace(i, j) /\ Kept(i, j) /\ Ahead(i, j)

TwoInv == AnswerInv /\ \A i, j \in Node : i # j => PairInv(i, j)
============================================================================

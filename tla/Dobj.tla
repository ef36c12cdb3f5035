-------------------------------- MODULE Dobj --------------------------------
(***************************************************************************)
(* How the nodes of a group that use one distributed object come to know   *)
(* each other: edsm_dobj_get and the GET and GET_REPLY handlers of         *)
(* src/dobj/dobj.c, for one object id.                                     *)
(*                                                                         *)
(* The first thread of a node that gets the object puts it into the hash   *)
(* `objects', asks every peer of the group for it and waits for all their  *)
(* replies; later threads find it in the hash and return.  A node that is  *)
(* asked adds the asker to its peers of the object if it holds the object  *)
(* itself, and says so in the reply, which makes the asker add it in turn. *)
(* Only the listener thread changes dobj->peers; it reads the hash BEFORE  *)
(* it takes local_lock, so that its answer may rest on a stale lookup.     *)
(***************************************************************************)
EXTENDS Integers, Sequences, FiniteSets, Functions

CONSTANTS
  Node,       \* the peers of the group, all connected
  Thread,     \* the threads of a node
  GetThread   \* GetThread[n]: the threads of node n that may get the object

ASSUME NodeAssumption == Node \subseteq Nat \ {0}
ASSUME GetThreadAssumption == GetThread \in [Node -> SUBSET Thread]

VARIABLES
  chan,       \* chan[p][n]: the messages on the connection from p to n
  hashed,     \* the nodes whose hash `objects' has the object
  peers,      \* dobj->peers of each node
  wait_on,    \* dobj->waiter->wait_on of each node
  ref_count,  \* dobj->ref_count of each node
  looked_up,  \* the GETs whose lookup the listener of a node has done
  pc          \* where each thread is in edsm_dobj_get

vars == <<chan, hashed, peers, wait_on, ref_count, looked_up, pc>>

----------------------------------------------------------------------------
GetMsg == [type |-> "GET"]
ReplyMsg(have_reference) ==
  [type |-> "GET_REPLY", have_reference |-> have_reference]

DobjMessage ==
  [type : {"GET"}] \cup [type : {"GET_REPLY"}, have_reference : BOOLEAN]

\* edsm_proto_get_peer_ids
GroupPeers(n) == Node \ {n}

Received(p, n) == [chan EXCEPT ![p][n] = Tail(@)]

Message(p, n) == Head(chan[p][n])

Goto(n, t, from, to) ==
  /\ pc[n][t] = from
  /\ pc' = [pc EXCEPT ![n][t] = to]

Init ==
  /\ chan      = [p \in Node |-> [n \in Node |-> << >>]]
  /\ hashed    = {}
  /\ peers     = [n \in Node |-> {}]
  /\ wait_on   = [n \in Node |-> {}]
  /\ ref_count = [n \in Node |-> 0]
  /\ looked_up = [n \in Node |-> {}]
  /\ pc        = [n \in Node |-> [t \in Thread |-> "out"]]

----------------------------------------------------------------------------
(***************************************************************************)
(* edsm_dobj_get.  The lookup and, if need be, HASH_ADD are one critical   *)
(* section of local_lock, which is given up before the waiter is armed.    *)
(***************************************************************************)

\* The object is there: take a reference and return.
GetFound(n, t) ==
  /\ n \in hashed
  /\ Goto(n, t, "out", "got")
  /\ ref_count' = [ref_count EXCEPT ![n] = @ + 1]
  /\ UNCHANGED <<chan, hashed, peers, wait_on, looked_up>>

GetAdd(n, t) ==
  /\ n \notin hashed
  /\ Goto(n, t, "out", "added")
  /\ hashed' = hashed \cup {n}
  /\ UNCHANGED <<chan, peers, wait_on, ref_count, looked_up>>

\* A slip of edsm_dobj_get: the waiter is armed with id 0, the address of all
\* peers, too.
AskedWithAll(n) == GroupPeers(n) \cup {0}

\* The peers whose replies the get waits for.
Asked(n) == GroupPeers(n)

GetArm(n, t) ==
  /\ Goto(n, t, "added", "armed")
  /\ wait_on' = [wait_on EXCEPT ![n] = Asked(n)]
  /\ UNCHANGED <<chan, hashed, peers, ref_count, looked_up>>

\* edsm_dobj_send_get: a broadcast to the group.
GetSend(n, t) ==
  /\ Goto(n, t, "armed", "asking")
  /\ chan' = [chan EXCEPT ![n] = [p \in Node |-> IF p \in GroupPeers(n)
                                                 THEN Append(@[p], GetMsg)
                                                 ELSE @[p]]]
  /\ UNCHANGED <<hashed, peers, wait_on, ref_count, looked_up>>

GetWait(n, t) ==
  /\ wait_on[n] = {}
  /\ Goto(n, t, "asking", "got")
  /\ ref_count' = [ref_count EXCEPT ![n] = @ + 1]
  /\ UNCHANGED <<chan, hashed, peers, wait_on, looked_up>>

----------------------------------------------------------------------------
(***************************************************************************)
(* The handlers, run by the listener thread of n for the next message of   *)
(* p; the listener does nothing else until it is through with a message.   *)
(***************************************************************************)

\* _read_dobj in edsm_dobj_handle_get, before local_lock is taken.
LookupGet(n, p) ==
  /\ looked_up[n] = {}
  /\ chan[p][n] # << >>
  /\ Message(p, n).type = "GET"
  /\ chan' = Received(p, n)
  /\ looked_up' = [looked_up EXCEPT ![n] = {[peer_id |-> p,
                                             found   |-> n \in hashed]}]
  /\ UNCHANGED <<hashed, peers, wait_on, ref_count, pc>>

\* A slip of the handler: the asker is not added.
AnswerOnly(n, get) == peers[n]

\* _add_peer_reference for a GET.
WithAsker(n, get) ==
  IF get.found THEN peers[n] \cup {get.peer_id} ELSE peers[n]

\* A slip of the handler: a node that does not have the object keeps silent.
AnswerIfFound(get) == IF get.found THEN <<ReplyMsg(TRUE)>> ELSE << >>

\* edsm_dobj_send_get_reply, in either case.
Answer(get) == <<ReplyMsg(get.found)>>

\* The rest of edsm_dobj_handle_get, under local_lock.
AnswerGet(n) ==
  \E get \in looked_up[n] :
    /\ peers' = [peers EXCEPT ![n] = WithAsker(n, get)]
    /\ chan' = [chan EXCEPT ![n][get.peer_id] = @ \o Answer(get)]
    /\ looked_up' = [looked_up EXCEPT ![n] = {}]
    /\ UNCHANGED <<hashed, wait_on, ref_count, pc>>

\* A slip of the handler: whoever replies is added, whatever it says.
WithAnyReplier(n, p) == peers[n] \cup {p}

\* _add_peer_reference for a GET_REPLY.
WithReplier(n, p) ==
  IF Message(p, n).have_reference THEN peers[n] \cup {p} ELSE peers[n]

\* A slip of the handler: it returns early when the replier lacks the object.
StillAwaitedIfLacking(n, p) ==
  IF Message(p, n).have_reference THEN wait_on[n] \ {p} ELSE wait_on[n]

\* edsm_reply_waiter_add_reply
StillAwaited(n, p) == wait_on[n] \ {p}

\* edsm_dobj_handle_get_reply: the object is found, because it stays in the
\* hash once the node has asked for it.
HandleGetReply(n, p) ==
  /\ looked_up[n] = {}
  /\ chan[p][n] # << >>
  /\ Message(p, n).type = "GET_REPLY"
  /\ n \in hashed
  /\ chan' = Received(p, n)
  /\ peers' = [peers EXCEPT ![n] = WithReplier(n, p)]
  /\ wait_on' = [wait_on EXCEPT ![n] = StillAwaited(n, p)]
  /\ UNCHANGED <<hashed, ref_count, looked_up, pc>>

----------------------------------------------------------------------------
Get(n, t) ==
  \/ GetFound(n, t) \/ GetAdd(n, t)
  \/ GetArm(n, t) \/ GetSend(n, t) \/ GetWait(n, t)

Listen(n) ==
  \/ \E p \in Node : LookupGet(n, p) \/ HandleGetReply(n, p)
  \/ AnswerGet(n)

Next ==
  \/ \E n \in Node : \E t \in GetThread[n] : Get(n, t)
  \/ \E n \in Node : Listen(n)

Spec == Init /\ [][Next]_vars

\* The listener of a node goes on as long as there is a message to take, and a
\* thread that has begun a get goes on with it.  Which connection is served next
\* may be left open, because the messages of this protocol run out.
Fairness ==
  /\ \A n \in Node : WF_vars(Listen(n))
  /\ \A n \in Node : \A t \in GetThread[n] :
       WF_vars(GetArm(n, t) \/ GetSend(n, t) \/ GetWait(n, t))

FairSpec == Spec /\ Fairness

----------------------------------------------------------------------------
(***************************************************************************)
(* Properties                                                              *)
(***************************************************************************)

\* Every variable has its type; a listener handles one GET at a time.
TypeOK ==
  /\ chan \in [Node -> [Node -> Seq(DobjMessage)]]
  /\ hashed \in SUBSET Node
  /\ peers \in [Node -> SUBSET Node]
  /\ wait_on \in [Node -> SUBSET Node]
  /\ ref_count \in [Node -> Nat]
  /\ looked_up \in [Node -> SUBSET [peer_id : Node, found : BOOLEAN]]
  /\ \A n \in Node : \A a, b \in looked_up[n] : a = b
  /\ pc \in [Node -> [Thread -> {"out", "added", "armed", "asking", "got"}]]

\* The get that put the object into n's hash has returned.
Joined(n) ==
  /\ n \in hashed
  /\ \A t \in Thread : pc[n][t] \notin {"added", "armed", "asking"}

\* Two nodes whose gets have returned know each other, however their gets,
\* lookups and replies crossed: what edsm_dobj_send relies on to reach every
\* node that uses the object.
PeersMutual ==
  \A n, p \in Node :
    n # p /\ Joined(n) /\ Joined(p) => p \in peers[n] /\ n \in peers[p]

\* A node is known as a peer of the object only if it holds the object, so
\* that no object message is sent to a node that must drop it as unknown.
PeersHold == \A n \in Node : peers[n] \subseteq hashed \ {n}

\* A get that has been sent to p and not answered is in one of three places.
Unanswered(n, p) ==
  \/ GetMsg \in Range(chan[n][p])
  \/ \E get \in looked_up[p] : get.peer_id = n
  \/ \E m \in Range(chan[p][n]) : m.type = "GET_REPLY"

\* No get waits for a node that will not reply any more.
NoGetLost ==
  \A n \in Node, t \in Thread :
    pc[n][t] = "asking" => \A p \in wait_on[n] : Unanswered(n, p)

\* Every get that has begun returns, even when the peers do not use the
\* object or get it at the same time.
GetReturns ==
  \A n \in Node, t \in Thread : pc[n][t] = "added" ~> pc[n][t] = "got"
============================================================================

------------------------------- MODULE Group -------------------------------
(***************************************************************************)
(* How a group of nodes grows: edsm_proto_group_join in src/protocol.c and *)
(* the exchange of INIT messages in src/protocol_handshake.c.              *)
(*                                                                         *)
(* A node that joins gives up its id, connects to a member and sends it    *)
(* INIT with id 0.  The listener thread of the member answers with its own *)
(* id, the next free one for the newcomer and the list of its peers, and   *)
(* the main thread of the newcomer then connects to every listed peer in   *)
(* turn.  The newcomer's own listener runs all the while: it accepts       *)
(* connections, and it reads from the peers in the hash, one of which may  *)
(* be the peer whose answer the main thread is waiting for.                *)
(*                                                                         *)
(* Connecting is modelled together with sending INIT: nobody can tell them *)
(* apart.  What the other nodes do once a process has aborted is left out, *)
(* and so is what a process makes of bytes that were meant for other reads *)
(* (it is "garbled").                                                      *)
(***************************************************************************)
EXTENDS Integers, FiniteSetsExt

CONSTANTS
  Node,        \* the processes, named by the addresses they listen on
  Founder,     \* the one that is started without a group to join
  MaxJoining   \* bound: joins under way at any moment

ASSUME NodeAssumption == IsFiniteSet(Node)
ASSUME FounderAssumption == Founder \in Node
ASSUME MaxJoiningAssumption == MaxJoining \in Nat \ {0}

VARIABLES
  my_id,      \* the id of each node, 0 while it has none
  peers,      \* the hash `peers' of each node
  backlog,    \* INITs on connections that the listener has not accepted yet
  accepted,   \* the peer that has been answered and is not yet in the hash
  response,   \* the INIT that answers the connection a node is waiting on
  target,     \* the node that peer_connect has connected to
  pc          \* where the main thread of each node is, or that it has ended

vars == <<my_id, peers, backlog, accepted, response, target, pc>>

----------------------------------------------------------------------------
Id == 0 .. Cardinality(Node)

\* struct peer_information; connected is sock_fd # -1.
Peer == [id : Id, node : Node, connected : BOOLEAN]

\* An entry of the peer list that a newcomer is sent.
Listing == [id : Id, node : Node]

Up(n) == pc[n] \notin {"off", "aborted", "down"}

Joining(n) == pc[n] \in {"ready", "reading", "robbed", "garbled"}

IdsKnown(n) == {peer.id : peer \in peers[n]}

Init ==
  /\ my_id    = [n \in Node |-> 1]
  /\ peers    = [n \in Node |-> {}]
  /\ backlog  = [n \in Node |-> {}]
  /\ accepted = [n \in Node |-> {}]
  /\ response = [n \in Node |-> {}]
  /\ target   = [n \in Node |-> n]
  /\ pc       = [n \in Node |-> IF n = Founder THEN "joined" ELSE "off"]

----------------------------------------------------------------------------
(***************************************************************************)
(* The main thread of a node that joins.                                   *)
(***************************************************************************)

\* peer_connect up to the wait for the answer: n sends id in an INIT to m.
Ask(n, m, id) ==
  /\ Up(m)
  /\ target' = [target EXCEPT ![n] = m]
  /\ backlog' = [backlog EXCEPT ![m] = @ \cup {[from |-> n, id |-> id]}]
  /\ pc' = [pc EXCEPT ![n] = "reading"]
  /\ UNCHANGED <<accepted, response>>

\* edsm_proto_group_join through m, a member whose own join is over; the entry
\* for m is in no hash yet.
GroupJoin(n, m) ==
  /\ pc[n] = "off"
  /\ pc[m] = "joined"
  /\ Cardinality({p \in Node : Joining(p)}) < MaxJoining
  /\ my_id' = [my_id EXCEPT ![n] = 0]
  /\ Ask(n, m, 0)
  /\ UNCHANGED peers

\* connect_to_new_peers for one peer of the hash.
ConnectToPeer(n) ==
  /\ pc[n] = "ready"
  /\ \E peer \in peers[n] :
       /\ ~ peer.connected
       /\ Ask(n, peer.node, my_id[n])
       /\ peers' = [peers EXCEPT ![n] = (@ \ {peer}) \cup
            {[id |-> peer.id, node |-> peer.node, connected |-> TRUE]}]
  /\ UNCHANGED my_id

JoinReturn(n) ==
  /\ pc[n] = "ready"
  /\ \A peer \in peers[n] : peer.connected
  /\ pc' = [pc EXCEPT ![n] = "joined"]
  /\ UNCHANGED <<my_id, peers, backlog, accepted, response, target>>

\* read_peerlist_from_message: the listed peers that n does not know.
Listed(n, resp) ==
  {[id |-> l.id, node |-> l.node, connected |-> FALSE] :
     l \in {l \in resp.list : l.id \notin IdsKnown(n)}}

\* The listed peers that n does know.  Behind such an id the address is not read, so
\* the rest of the list, if there is any, is read as something else.
KnownListed(n, resp) == {l \in resp.list : l.id \in IdsKnown(n)}

ReadWhole(n, resp) == Cardinality(KnownListed(n, resp)) <= 1

Misread(n, resp) == KnownListed(n, resp) # {} /\ Cardinality(resp.list) > 1

\* The peer that answered, unless the hash has its id.
Answering(known, resp) ==
  IF \E peer \in known : peer.id = resp.id
  THEN {}
  ELSE {[id |-> resp.id, node |-> resp.from, connected |-> TRUE]}

\* read_and_handle_init_response, with the assertion that the peer has an id.
ReadResponse(n) ==
  /\ pc[n] = "reading"
  /\ \E resp \in response[n] :
       IF resp.id = 0
       THEN /\ pc' = [pc EXCEPT ![n] = "aborted"]
            /\ UNCHANGED <<my_id, peers>>
       ELSE LET known == IF my_id[n] = 0 THEN peers[n] \cup Listed(n, resp)
                                         ELSE peers[n]
            IN /\ my_id' = [my_id EXCEPT ![n] =
                              IF @ = 0 THEN resp.assigned ELSE @]
               /\ peers' = [peers EXCEPT ![n] =
                              known \cup Answering(known, resp)]
               /\ \/ /\ my_id[n] = 0 => ReadWhole(n, resp)
                     /\ pc' = [pc EXCEPT ![n] = "ready"]
                  \/ /\ my_id[n] = 0 /\ Misread(n, resp)
                     /\ pc' = [pc EXCEPT ![n] = "garbled"]
  /\ response' = [response EXCEPT ![n] = {}]
  /\ UNCHANGED <<backlog, accepted, target>>

----------------------------------------------------------------------------
(***************************************************************************)
(* The listener thread, which handles one connection at a time.            *)
(***************************************************************************)

\* Slips of get_next_peer_id: the node's own id is forgotten; the peers' ids are;
\* an id is left out.
NextIdOfPeers(n) == Max(IdsKnown(n) \cup {0}) + 1
NextIdOfSelf(n) == my_id[n] + 1
NextIdTwice(n) == Max(IdsKnown(n) \cup {my_id[n]}) + 2

\* get_next_peer_id
NextId(n) == Max(IdsKnown(n) \cup {my_id[n]}) + 1

\* A slip of append_peerlist_to_message: the list is left out.
NoPeers(n) == {}

\* append_peerlist_to_message
PeerList(n) == {[id |-> peer.id, node |-> peer.node] : peer \in peers[n]}

\* The answer to an INIT; only a newcomer is sent an id and the list.
Answer(n, init) ==
  IF init.id = 0
  THEN {[from |-> n, id |-> my_id[n], assigned |-> NextId(n),
         list |-> PeerList(n)]}
  ELSE {[from |-> n, id |-> my_id[n], assigned |-> 0, list |-> {}]}

\* handle_new_connection up to the end of read_and_handle_init_message.
AcceptInit(n) ==
  /\ Up(n)
  /\ accepted[n] = {}
  /\ \E init \in backlog[n] :
       /\ backlog' = [backlog EXCEPT ![n] = @ \ {init}]
       /\ response' = [response EXCEPT ![init.from] = Answer(n, init)]
       /\ accepted' = [accepted EXCEPT ![n] =
            {[id   |-> IF init.id = 0 THEN NextId(n) ELSE init.id,
              node |-> init.from]}]
  /\ UNCHANGED <<my_id, peers, target, pc>>

\* The rest of handle_new_connection, with its assertion.
AcceptAdd(n) ==
  /\ Up(n)
  /\ \E new \in accepted[n] :
       IF new.id \in IdsKnown(n)
       THEN pc' = [pc EXCEPT ![n] = "aborted"] /\ UNCHANGED peers
       ELSE /\ peers' = [peers EXCEPT ![n] = @ \cup
                 {[id |-> new.id, node |-> new.node, connected |-> TRUE]}]
            /\ UNCHANGED pc
  /\ accepted' = [accepted EXCEPT ![n] = {}]
  /\ UNCHANGED <<my_id, backlog, response, target>>

\* listen_thread reads the answer of a peer that is in the hash: no handler is
\* registered for INIT, and the main thread waits for an answer that is gone.  Or
\* each thread reads pieces of it: there are three writes, and two reads in each.
ListenerTakesResponse(n) ==
  /\ pc[n] = "reading"
  /\ accepted[n] = {}
  /\ response[n] # {}
  /\ \E peer \in peers[n] : peer.node = target[n] /\ peer.connected
  /\ response' = [response EXCEPT ![n] = {}]
  /\ \E left \in {"robbed", "garbled"} : pc' = [pc EXCEPT ![n] = left]
  /\ UNCHANGED <<my_id, peers, backlog, accepted, target>>

----------------------------------------------------------------------------
Main(n) == ConnectToPeer(n) \/ ReadResponse(n) \/ JoinReturn(n)

Accept(n) == AcceptInit(n) \/ AcceptAdd(n)

Next ==
  \E n \in Node :
    \/ \E m \in Node : GroupJoin(n, m)
    \/ Main(n)
    \/ Accept(n)
    \/ ListenerTakesResponse(n)

Spec == Init /\ [][Next]_vars

----------------------------------------------------------------------------
(***************************************************************************)
(* Properties                                                              *)
(***************************************************************************)

\* Every variable has its type: ids do not run ahead of the number of nodes, and
\* a listener has one connection in its hands.
TypeOK ==
  /\ my_id \in [Node -> Id]
  /\ \A n \in Node :
       /\ peers[n] \subseteq Peer
       /\ backlog[n] \subseteq [from : Node, id : Id]
       /\ accepted[n] \subseteq [id : Id, node : Node]
       /\ Cardinality(accepted[n]) <= 1
       /\ \A resp \in response[n] :
            /\ resp.from \in Node /\ resp.id \in Id /\ resp.assigned \in Id
            /\ resp.list \subseteq Listing
       /\ Cardinality(response[n]) <= 1
  /\ target \in [Node -> Node]
  /\ pc \in [Node -> {"off", "ready", "reading", "joined", "robbed", "garbled",
                        "aborted", "down"}]

\* Two running nodes never have the same id: edsm_proto_send and every hash and
\* wait list of peers tell them apart by it.
IdsUnique ==
  \A n, m \in Node :
    n # m /\ Up(n) /\ Up(m) /\ my_id[n] # 0 => my_id[n] # my_id[m]

\* m has a connection to n under n's id.
Knows(m, n) ==
  \E peer \in peers[m] :
    peer.node = n /\ peer.id = my_id[n] /\ peer.connected

\* Once the joins of two nodes have returned, each can be reached from the other
\* under its id; the member that answered last may still be adding the newcomer.
GroupConnected ==
  \A n, m \in Node :
    n # m /\ pc[n] = "joined" /\ pc[m] = "joined" =>
      Knows(m, n) \/ \E new \in accepted[m] : new.node = n

\* Neither assertion of the handshake fails before some process has ended: no
\* answering peer is without an id, and nobody is connected to twice under one id.
AssertionsHold ==
  (\A n \in Node : pc[n] # "down") => \A n \in Node : pc[n] # "aborted"
=============================================================================

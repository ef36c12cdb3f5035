--------------------------- MODULE StartupProofs ---------------------------
(***************************************************************************)
(* Theorems about Group and Startup, for any number of processes of which  *)
(* one joins at a time, and any of which may end at any moment: running    *)
(* processes have different ids, those whose joins have returned reach     *)
(* each other, and no assertion of the handshake fails before a process    *)
(* ends.                                                                   *)
(***************************************************************************)
EXTENDS Startup, FiniteSetTheorems, SequenceTheorems, WellFoundedInduction, TLAPS

----------------------------------------------------------------------------
(***************************************************************************)
(* A group that loses members.  All that Startup adds to the steps of      *)
(* Group is that a process ends, and that an INIT of one is dropped.       *)
(***************************************************************************)
Lose(n) ==
  /\ pc'       = [pc EXCEPT ![n] = "down"]
  /\ my_id'    = [my_id EXCEPT ![n] = 0]
  /\ peers'    = [peers EXCEPT ![n] = {}]
  /\ backlog'  = [backlog EXCEPT ![n] = {}]
  /\ accepted' = [accepted EXCEPT ![n] = {}]
  /\ response' = [response EXCEPT ![n] = {}]
  /\ target'   = [target EXCEPT ![n] = n]

Drop(n, init) ==
  /\ pc[init.from] = "down"
  /\ backlog' = [backlog EXCEPT ![n] = @ \ {init}]
  /\ UNCHANGED <<my_id, peers, accepted, response, target, pc>>

LossNext ==
  \/ Next
  \/ \E n \in Node : Lose(n)
  \/ \E n \in Node : \E init \in backlog[n] : Drop(n, init)

LossSpec == Init /\ [][LossNext]_vars

----------------------------------------------------------------------------
(***************************************************************************)
(* The inductive invariant of the group                                    *)
(***************************************************************************)
PC == {"off", "ready", "reading", "joined", "robbed", "garbled", "aborted", "down"}

InitMessage == [from : Node, id : Nat]
Named       == [id : Nat, node : Node]
Response    == [from : Node, id : Nat, assigned : Nat, list : SUBSET Named]

GroupTypes ==
  /\ my_id    \in [Node -> Nat]
  /\ peers    \in [Node -> SUBSET [id : Nat, node : Node, connected : BOOLEAN]]
  /\ backlog  \in [Node -> SUBSET InitMessage]
  /\ accepted \in [Node -> SUBSET Named]
  /\ response \in [Node -> SUBSET Response]
  /\ target   \in [Node -> Node]
  /\ pc       \in [Node -> PC]
  /\ \A n \in Node :
       /\ \A x, y \in accepted[n] : x = y
       /\ \A x, y \in response[n] : x = y

Settling(n) == pc[n] \in {"joined", "aborted", "down"}

\* n has no id yet.
Newcomer(n) == Joining(n) /\ my_id[n] = 0

OneJoiner == \A n, m \in Node : Joining(n) /\ Joining(m) => n = m

\* Nobody connects to a node before its own join has returned, and it has an id by
\* then.
JoinState ==
  /\ pc[Founder] # "off"
  /\ \A n \in Node :
       /\ ~ Settling(n) => backlog[n] = {} /\ accepted[n] = {}
       /\ pc[n] = "off" => peers[n] = {}
       /\ my_id[n] = 0 => pc[n] = "down" \/ (pc[n] = "reading" /\ peers[n] = {})
       /\ response[n] # {} => pc[n] \in {"reading", "aborted", "down"}

\* An INIT comes from a process that has ended, or that waits for its answer.
InitsAwaited ==
  \A m \in Node : \A init \in backlog[m] :
    \/ pc[init.from] = "down"
    \/ /\ pc[init.from] = "reading"
       /\ target[init.from] = m
       /\ init.id = my_id[init.from]
       /\ response[init.from] = {}

\* m has the node n under this id, or is about to.
AcceptedAs(m, n, id) == [id |-> id, node |-> n] \in accepted[m]
KnownAs(m, n, id) == [id |-> id, node |-> n, connected |-> TRUE] \in peers[m]
Reached(m, n, id) == AcceptedAs(m, n, id) \/ KnownAs(m, n, id)

\* Nobody has heard of a newcomer before it has been answered.
HeardOf(m, n) ==
  \/ \E new \in accepted[m] : new.node = n
  \/ \E peer \in peers[m] : peer.node = n

HeardStarted ==
  \A m, n \in Node : HeardOf(m, n) =>
    /\ pc[n] # "off"
    /\ Newcomer(n) => response[n] # {}

\* Nobody knows another under its own id.
OwnIdApart ==
  \A n \in Node : Up(n) =>
    /\ \A peer \in peers[n] : peer.id # my_id[n]
    /\ \A new \in accepted[n] : new.id # my_id[n]
    /\ \A init \in backlog[n] : init.id # my_id[n]

\* The answer to n comes from the member that it has asked, whose id is not that of n.
AnswerApart ==
  \A n \in Node : pc[n] = "reading" => \A resp \in response[n] :
    /\ resp.id # 0 /\ resp.id # my_id[n]
    /\ resp.from = target[n] /\ Settling(resp.from)

\* The answer to a newcomer makes it known to the member that it has asked, and
\* tells it of all the others.
AnswerComplete ==
  \A n \in Node : Newcomer(n) => \A resp \in response[n] :
    /\ resp.assigned # 0 /\ resp.assigned # resp.id
    /\ \A l \in resp.list :
         l.id # resp.id /\ l.id # resp.assigned /\ Settling(l.node)
    /\ \A m \in Node : pc[m] = "joined" =>
         /\ my_id[m] # resp.assigned
         /\ \/ m = resp.from /\ my_id[m] = resp.id
            \/ [id |-> my_id[m], node |-> m] \in resp.list
    /\ pc[resp.from] = "joined" => Reached(resp.from, n, resp.assigned)

\* A node that joins has every member among its peers, and those that it has
\* connected to know it, or have its INIT.
JoinerConnects ==
  \A n \in Node : Joining(n) =>
    /\ \A peer \in peers[n] : peer.connected \/ Settling(peer.node)
    /\ my_id[n] # 0 =>
         \A m \in Node : pc[m] = "joined" =>
           /\ my_id[m] # my_id[n]
           /\ \E peer \in peers[n] :
                /\ peer.node = m /\ peer.id = my_id[m]
                /\ peer.connected => \/ Reached(m, n, my_id[n])
                                     \/ \E init \in backlog[m] : init.from = n

\* Any two whose joins have returned have different ids, and reach each other.
MembersConnected ==
  \A n, m \in Node : n # m /\ pc[n] = "joined" /\ pc[m] = "joined" =>
    my_id[n] # my_id[m] /\ Reached(m, n, my_id[n])

\* A newcomer has sent its INIT to one node.
OneFirstInit ==
  \A n, m \in Node : \A i \in backlog[n], j \in backlog[m] :
    i.from = j.from /\ i.id = 0 /\ j.id = 0 => n = m

\* The nodes that an id has been given to, at most: the others are not started or
\* not answered.
Waiting(n) ==
  \/ pc[n] = "off"
  \/ \E m \in Node : [from |-> n, id |-> 0] \in backlog[m]

Served == {n \in Node : ~ Waiting(n)}

IdsUpTo(k) ==
  \A n \in Node :
    /\ my_id[n] <= k
    /\ \A peer \in peers[n] : peer.id <= k
    /\ \A new \in accepted[n] : new.id <= k
    /\ \A init \in backlog[n] : init.id <= k
    /\ \A resp \in response[n] :
         /\ resp.id <= k /\ resp.assigned <= k
         /\ \A l \in resp.list : l.id <= k

IdsSmall == IdsUpTo(Cardinality(Served))

GroupInv ==
  /\ GroupTypes /\ OneJoiner /\ JoinState /\ InitsAwaited /\ HeardStarted
  /\ OwnIdApart /\ AnswerApart /\ AnswerComplete /\ JoinerConnects
  /\ MembersConnected /\ OneFirstInit /\ IdsSmall

----------------------------------------------------------------------------
(***************************************************************************)
(* As long as no process has ended                                         *)
(***************************************************************************)
NoneGone == \A n \in Node : pc[n] # "down"

\* Everybody is known under its own id; a newcomer, to the member that has
\* answered it, under the id that the answer gives it.
RightId(m, n, id) ==
  /\ n # m
  /\ my_id[n] # 0 => id = my_id[n]
  /\ my_id[n] = 0 => target[n] = m /\ \E resp \in response[n] : id = resp.assigned

KnownRight ==
  \A m \in Node :
    /\ \A peer \in peers[m] : RightId(m, peer.node, peer.id)
    /\ \A new \in accepted[m] : RightId(m, new.node, new.id)

\* An answer tells the ids that its sender and the members that it lists have.
AnswerRight ==
  \A n \in Node : pc[n] = "reading" => \A resp \in response[n] :
    /\ resp.id = my_id[resp.from]
    /\ \A l \in resp.list : l.id = my_id[l.node] /\ l.node # resp.from

\* Nobody connects twice to the same node.
InitNew ==
  \A m \in Node : \A init \in backlog[m] : ~ HeardOf(m, init.from)

AcceptedNew ==
  \A m \in Node : \A new \in accepted[m] : \A peer \in peers[m] : new.id # peer.id

NotTold ==
  \A n \in Node : Joining(n) =>
    \A peer \in peers[n] : ~ peer.connected =>
      /\ ~ HeardOf(peer.node, n)
      /\ \A init \in backlog[peer.node] : init.from # n

NoneAborted == \A n \in Node : pc[n] # "aborted"

NobodyTwice ==
  /\ KnownRight /\ AnswerRight /\ InitNew /\ AcceptedNew /\ NotTold
  /\ NoneAborted

LossFree == NoneGone => NobodyTwice

----------------------------------------------------------------------------
(***************************************************************************)
(* The invariant of Startup, which adds the messages about object 0        *)
(***************************************************************************)
Message == {"GET", "REPLY"}

\* No message is twice on a connection.
Traffic == {c \in Seq(Message) : \A i, j \in 1 .. Len(c) : c[i] = c[j] => i = j}

Holds(c, msg) == \E i \in 1 .. Len(c) : c[i] = msg

LifeTypes ==
  /\ stage     \in [Node -> {"off", "started", "registered", "waiting", "loop", "down"}]
  /\ listener  \in [Node -> {"none", "created", "loop", "ended"}]
  /\ listening \in [Node -> BOOLEAN]
  /\ running   \in [Node -> 0 .. 1]
  /\ sig       \in [Node -> {"none", "joining", "done"}]
  /\ chan      \in [Node -> [Node -> Traffic]]
  /\ wait_on   \in [Node -> SUBSET Node]
  /\ dropped   \in [Node -> BOOLEAN]

GoneEnded == \A n \in Node : Gone(n) <=> stage[n] = "down"

\* The GETs of n have not been sent.
Unasked(n) == stage[n] \in {"off", "started", "registered"}

\* n sends its GETs once, and a REPLY for a GET that it takes.
OneGetEach ==
  \A n, m \in Node :
    /\ Unasked(n) => ~ Holds(chan[n][m], "GET") /\ ~ Holds(chan[m][n], "REPLY")
    /\ Holds(chan[n][m], "GET") => ~ Holds(chan[m][n], "REPLY")

LifeInv == LifeTypes /\ GoneEnded /\ OneGetEach

StartInv == GroupInv /\ LossFree /\ LifeInv

----------------------------------------------------------------------------
(***************************************************************************)
(* Numbers                                                                 *)
(***************************************************************************)
Less == {p \in Nat \X Nat : p[1] < p[2]}

LEMMA LessWellFounded == IsWellFoundedOn(Less, Nat)
<1>1. Less = OpToRel(<, Nat)
  BY Zenon DEF Less, OpToRel
<1> QED BY NatLessThanWellFounded, <1>1, Zenon

LEMMA LeastOfSet ==
  ASSUME NEW T \in SUBSET Nat, T # {}
  PROVE  \E m \in T : \A y \in T : m <= y
<1>1. PICK m \in T : \A y \in T : ~ (<<y, m>> \in Less)
  BY LessWellFounded, WFMin, Zenon
<1>2. \A y \in T : m <= y
  <2> TAKE y \in T
  <2>1. m \in Nat /\ y \in Nat
    OBVIOUS
  <2>2. ~ (<<y, m>> \in Less)
    BY <1>1
  <2> QED BY <2>1, <2>2 DEF Less
<1> QED BY <1>2

\* A set of numbers up to k has a greatest element.
LEMMA MaxOfBounded ==
  ASSUME NEW S \in SUBSET Nat, S # {}, NEW k \in Nat, \A x \in S : x <= k
  PROVE  Max(S) \in S /\ \A x \in S : x <= Max(S)
<1> DEFINE T == {k - x : x \in S}
<1>1. T \subseteq Nat /\ T # {}
  OBVIOUS
<1>2. PICK m \in T : \A y \in T : m <= y
  <2> HIDE DEF T
  <2> QED BY <1>1, LeastOfSet
<1>3. PICK x \in S : m = k - x
  BY <1>2
<1>4. \A y \in S : y <= x
  <2> TAKE y \in S
  <2>1. k - y \in T
    OBVIOUS
  <2>2. m <= k - y
    BY <2>1, <1>2
  <2> QED BY <2>2, <1>3
<1>5. \E z \in S : \A y \in S : z >= y
  BY <1>4
<1> QED BY <1>5 DEF Max

\* get_next_peer_id returns an id above all that the node knows, and the first one.
LEMMA NextIdFresh ==
  ASSUME GroupTypes, NEW n \in Node, NEW k \in Nat, IdsUpTo(k)
  PROVE  /\ NextId(n) \in Nat \ {0}
         /\ NextId(n) <= k + 1
         /\ NextId(n) > my_id[n]
         /\ \A peer \in peers[n] : NextId(n) > peer.id
<1> DEFINE S == IdsKnown(n) \cup {my_id[n]}
<1>1. S \in SUBSET Nat /\ S # {} /\ \A x \in S : x <= k
  BY DEF GroupTypes, IdsUpTo, IdsKnown
<1>2. my_id[n] \in S /\ \A peer \in peers[n] : peer.id \in S
  BY DEF IdsKnown
<1>3. NextId(n) = Max(S) + 1
  BY DEF NextId
<1> HIDE DEF S
<1>4. Max(S) \in S /\ \A x \in S : x <= Max(S)
  BY <1>1, MaxOfBounded
<1>5. Max(S) \in Nat /\ Max(S) <= k
  BY <1>1, <1>4
<1>6. \A peer \in peers[n] : peer.id \in Nat /\ peer.id <= Max(S)
  BY <1>1, <1>2, <1>4
<1>7. my_id[n] \in Nat /\ my_id[n] <= Max(S)
  BY <1>1, <1>2, <1>4
<1> QED BY <1>3, <1>5, <1>6, <1>7

LEMMA ServedFinite == IsFiniteSet(Served) /\ Cardinality(Served) \in Nat
<1>1. Served \subseteq Node
  BY DEF Served
<1> QED BY <1>1, NodeAssumption, FS_Subset, FS_CardinalityType

\* More nodes are served, and ids may be higher.
LEMMA MoreServed ==
  ASSUME Served \subseteq Served'
  PROVE  Cardinality(Served) <= Cardinality(Served')
         /\ Cardinality(Served) \in Nat /\ Cardinality(Served') \in Nat
<1>1. Served' \subseteq Node
  BY DEF Served
<1>2. IsFiniteSet(Served')
  BY <1>1, NodeAssumption, FS_Subset
<1> QED BY <1>2, FS_Subset, FS_CardinalityType

LEMMA HigherBound ==
  ASSUME GroupTypes, NEW k \in Nat, NEW j \in Nat, k <= j, IdsUpTo(k)
  PROVE  IdsUpTo(j)
BY DEF GroupTypes, IdsUpTo, InitMessage, Named, Response

LEMMA BoundKept ==
  ASSUME GroupTypes, IdsSmall, Served \subseteq Served'
  PROVE  Cardinality(Served') \in Nat /\ IdsUpTo(Cardinality(Served'))
<1> DEFINE k == Cardinality(Served)
           j == Cardinality(Served')
<1>1. k \in Nat /\ j \in Nat /\ k <= j
  BY MoreServed
<1>2. IdsUpTo(k)
  BY DEF IdsSmall
<1> HIDE DEF k, j
<1>3. IdsUpTo(j)
  BY <1>1, <1>2, HigherBound
<1> QED BY <1>1, <1>3 DEF j

LEMMA NobodyJoins ==
  ASSUME GroupTypes, MaxJoining = 1,
         Cardinality({p \in Node : Joining(p)}) < MaxJoining
  PROVE  \A p \in Node : ~ Joining(p)
<1> DEFINE S == {p \in Node : Joining(p)}
<1>1. IsFiniteSet(S) /\ Cardinality(S) \in Nat
  BY NodeAssumption, FS_Subset, FS_CardinalityType
<1>2. Cardinality(S) = 0
  BY <1>1
<1>3. S = {}
  BY <1>1, <1>2, FS_EmptySet
<1> QED BY <1>3

----------------------------------------------------------------------------
(***************************************************************************)
(* Every step keeps the invariant                                          *)
(***************************************************************************)
LEMMA GroupJoinKeeps ==
  ASSUME GroupInv, MaxJoining = 1, NEW n \in Node, NEW m \in Node, GroupJoin(n, m)
  PROVE  GroupInv'
<1> DEFINE msg == [from |-> n, id |-> 0]
<1>1. /\ GroupTypes /\ JoinState /\ InitsAwaited /\ HeardStarted
      /\ my_id' = [my_id EXCEPT ![n] = 0]
      /\ pc' = [pc EXCEPT ![n] = "reading"]
      /\ target' = [target EXCEPT ![n] = m]
      /\ backlog' = [backlog EXCEPT ![m] = @ \cup {msg}]
      /\ UNCHANGED <<peers, accepted, response>>
      /\ pc[n] = "off" /\ pc[m] = "joined" /\ n # m
      /\ peers[n] = {} /\ accepted[n] = {} /\ backlog[n] = {} /\ response[n] = {}
  BY DEF GroupInv, GroupJoin, Ask, JoinState, Settling
<1>2. \A p \in Node : ~ Joining(p)
  BY NobodyJoins DEF GroupInv, GroupJoin
<1> HIDE DEF msg
<1>m. msg = [from |-> n, id |-> 0] /\ msg \in InitMessage /\ msg.from = n /\ msg.id = 0
  BY DEF msg, InitMessage
<1>3. GroupTypes'
  BY <1>1, <1>m DEF GroupTypes, PC
<1>4. OneJoiner'
  BY <1>1, <1>2 DEF OneJoiner, Joining, GroupTypes
<1>5. JoinState'
  BY <1>1 DEF JoinState, Settling, GroupTypes
<1>6. InitsAwaited'
  BY <1>1, <1>m DEF InitsAwaited, GroupTypes, InitMessage
<1>7. HeardStarted'
  BY <1>1 DEF HeardStarted, HeardOf, Newcomer, Joining, GroupTypes
<1>8. OwnIdApart'
  <2> SUFFICES ASSUME NEW p \in Node, Up(p)'
               PROVE  /\ \A peer \in peers[p]' : peer.id # my_id'[p]
                      /\ \A new \in accepted[p]' : new.id # my_id'[p]
                      /\ \A init \in backlog[p]' : init.id # my_id'[p]
    BY DEF OwnIdApart
  <2>1. OwnIdApart
    BY DEF GroupInv
  <2>2. CASE p = n
    BY <2>2, <1>1 DEF GroupTypes
  <2>3. CASE p # n
    <3>1. Up(p) /\ my_id'[p] = my_id[p] /\ peers'[p] = peers[p] /\ accepted'[p] = accepted[p]
      BY <2>3, <1>1 DEF Up, GroupTypes
    <3>2. my_id[m] # 0
      BY <1>1 DEF JoinState
    <3>3. backlog'[p] = IF p = m THEN backlog[p] \cup {msg} ELSE backlog[p]
      BY <1>1 DEF GroupTypes
    <3> QED BY <2>1, <3>1, <3>2, <3>3, <1>m DEF OwnIdApart
  <2> QED BY <2>2, <2>3
<1>9. AnswerApart' /\ AnswerComplete'
  BY <1>1, <1>2 DEF AnswerApart, AnswerComplete, GroupTypes, Newcomer, Joining, Settling
<1>10. JoinerConnects'
  BY <1>1, <1>2 DEF JoinerConnects, GroupTypes, Joining
<1>11. MembersConnected'
  BY <1>1 DEF GroupInv, MembersConnected, Reached, KnownAs, AcceptedAs, GroupTypes
<1>12. OneFirstInit'
  <2>1. OneFirstInit
    BY DEF GroupInv
  <2>2. \A p \in Node : \A i \in backlog[p] : i.from # n
    BY <1>1 DEF InitsAwaited
  <2>3. \A p \in Node :
          backlog'[p] = IF p = m THEN backlog[p] \cup {msg} ELSE backlog[p]
    BY <1>1 DEF GroupTypes
  <2> SUFFICES ASSUME NEW p \in Node, NEW q \in Node,
                      NEW i \in backlog'[p], NEW j \in backlog'[q],
                      i.from = j.from, i.id = 0, j.id = 0
               PROVE  p = q
    BY DEF OneFirstInit
  <2>4. i \in backlog[p] \/ (p = m /\ i = msg)
    <3>1. backlog'[p] = IF p = m THEN backlog[p] \cup {msg} ELSE backlog[p]
      BY <2>3
    <3> QED BY <3>1
  <2>5. j \in backlog[q] \/ (q = m /\ j = msg)
    <3>1. backlog'[q] = IF q = m THEN backlog[q] \cup {msg} ELSE backlog[q]
      BY <2>3
    <3> QED BY <3>1
  <2> QED BY <2>1, <2>2, <2>4, <2>5, <1>m DEF OneFirstInit
<1>13. IdsSmall'
  <2>1. Served \subseteq Served'
    BY <1>1, <1>m DEF Served, Waiting, GroupTypes
  <2> DEFINE j == Cardinality(Served')
  <2>4. j \in Nat /\ IdsUpTo(j)
    BY <2>1, BoundKept DEF GroupInv
  <2> HIDE DEF j
  <2>5. \A p \in Node :
          /\ my_id'[p] <= j
          /\ \A init \in backlog'[p] : init.id <= j
    BY <1>1, <1>m, <2>4 DEF IdsUpTo, GroupTypes
  <2>6. \A p \in Node :
          /\ my_id'[p] <= j
          /\ \A peer \in peers'[p] : peer.id <= j
          /\ \A new \in accepted'[p] : new.id <= j
          /\ \A init \in backlog'[p] : init.id <= j
          /\ \A resp \in response'[p] :
               /\ resp.id <= j /\ resp.assigned <= j
               /\ \A l \in resp.list : l.id <= j
    BY <1>1, <2>4, <2>5 DEF IdsUpTo
  <2> QED BY <2>6 DEF IdsSmall, IdsUpTo, j
<1> QED BY <1>3, <1>4, <1>5, <1>6, <1>7, <1>8, <1>9, <1>10, <1>11, <1>12,
           <1>13 DEF GroupInv

LEMMA ConnectToPeerKeeps ==
  ASSUME GroupInv, NEW n \in Node, ConnectToPeer(n)
  PROVE  GroupInv'
<1>1. PICK peer \in peers[n] :
        /\ ~ peer.connected
        /\ Ask(n, peer.node, my_id[n])
        /\ peers' = [peers EXCEPT ![n] = (@ \ {peer}) \cup
             {[id |-> peer.id, node |-> peer.node, connected |-> TRUE]}]
  BY DEF ConnectToPeer
<1> DEFINE m == peer.node
           met == [id |-> peer.id, node |-> peer.node, connected |-> TRUE]
           msg == [from |-> n, id |-> my_id[n]]
<1>2. /\ peer \in [id : Nat, node : Node, connected : BOOLEAN]
      /\ m \in Node
      /\ met \in [id : Nat, node : Node, connected : BOOLEAN]
      /\ met.id = peer.id /\ met.node = m /\ met.connected = TRUE
  <2>1. peer \in [id : Nat, node : Node, connected : BOOLEAN]
    BY DEF GroupInv, GroupTypes
  <2> QED BY <2>1
<1>3. /\ my_id[n] \in Nat
      /\ msg \in InitMessage /\ msg.from = n /\ msg.id = my_id[n]
  BY DEF GroupInv, GroupTypes, InitMessage
<1>4. /\ pc' = [pc EXCEPT ![n] = "reading"]
      /\ target' = [target EXCEPT ![n] = m]
      /\ backlog' = [backlog EXCEPT ![m] = @ \cup {msg}]
      /\ peers' = [peers EXCEPT ![n] = (@ \ {peer}) \cup {met}]
      /\ UNCHANGED <<my_id, accepted, response>>
      /\ pc[n] = "ready" /\ Up(m)
  BY <1>1 DEF ConnectToPeer, Ask
<1> HIDE DEF met, msg
<1>5. /\ GroupTypes /\ OneJoiner /\ JoinState /\ InitsAwaited /\ JoinerConnects
      /\ OwnIdApart
  BY DEF GroupInv
<1>6. /\ Joining(n) /\ my_id[n] # 0 /\ response[n] = {}
      /\ accepted[n] = {} /\ backlog[n] = {}
      /\ \A p \in Node : Joining(p) => p = n
  BY <1>4, <1>5 DEF JoinState, OneJoiner, Joining, Settling
<1>7. pc[m] = "joined" /\ m # n
  BY <1>1, <1>4, <1>5, <1>6 DEF JoinerConnects, Settling, Up
<1>8. /\ \A p \in Node :
           /\ pc'[p] = IF p = n THEN "reading" ELSE pc[p]
           /\ target'[p] = IF p = n THEN m ELSE target[p]
           /\ backlog'[p] = IF p = m THEN backlog[p] \cup {msg} ELSE backlog[p]
           /\ peers'[p] = IF p = n THEN (peers[p] \ {peer}) \cup {met}
                                   ELSE peers[p]
      /\ my_id' = my_id /\ accepted' = accepted /\ response' = response
  <2>1. /\ DOMAIN pc = Node /\ DOMAIN target = Node
        /\ DOMAIN backlog = Node /\ DOMAIN peers = Node
    BY <1>5 DEF GroupTypes
  <2>2. \A p \in Node :
          /\ pc'[p] = IF p = n THEN "reading" ELSE pc[p]
          /\ target'[p] = IF p = n THEN m ELSE target[p]
    BY <2>1, <1>4
  <2>3. \A p \in Node :
          backlog'[p] = IF p = m THEN backlog[p] \cup {msg} ELSE backlog[p]
    BY <2>1, <1>4
  <2>4. \A p \in Node :
          peers'[p] = IF p = n THEN (peers[p] \ {peer}) \cup {met} ELSE peers[p]
    BY <2>1, <1>4
  <2> QED BY <2>2, <2>3, <2>4, <1>4
<1>9. \A p \in Node : Joining(p)' <=> Joining(p)
  BY <1>4, <1>8 DEF Joining
<1>10. \A p \in Node : \A i \in backlog[p] : i.from # n
  BY <1>4, <1>5 DEF InitsAwaited
<1>11. GroupTypes'
  <2>1. (peers[n] \ {peer}) \cup {met} \in
          SUBSET [id : Nat, node : Node, connected : BOOLEAN]
    BY <1>2, <1>5 DEF GroupTypes
  <2>2. peers' \in [Node -> SUBSET [id : Nat, node : Node, connected : BOOLEAN]]
    BY <2>1, <1>4, <1>5 DEF GroupTypes
  <2>3. backlog' \in [Node -> SUBSET InitMessage]
    BY <1>2, <1>3, <1>4, <1>5 DEF GroupTypes
  <2> QED BY <2>2, <2>3, <1>2, <1>4, <1>5 DEF GroupTypes, PC
<1>12. OneJoiner'
  BY <1>5, <1>9 DEF OneJoiner
<1>13. JoinState'
  BY <1>4, <1>5, <1>6, <1>7, <1>8 DEF JoinState, Settling
<1>14. InitsAwaited'
  BY <1>3, <1>4, <1>5, <1>6, <1>7, <1>8, <1>10 DEF InitsAwaited, GroupTypes, InitMessage
<1>15. HeardStarted'
  <2>1. HeardStarted
    BY DEF GroupInv
  <2>2. \A p, q \in Node : HeardOf(p, q)' => HeardOf(p, q)
    BY <1>1, <1>2, <1>8 DEF HeardOf
  <2> QED BY <2>1, <2>2, <1>4, <1>8, <1>9 DEF HeardStarted, Newcomer
<1>16. OwnIdApart'
  <2>1. \A p \in Node : Up(p)' => Up(p)
    BY <1>4, <1>8 DEF Up
  <2>2. my_id[m] # my_id[n]
    BY <1>2, <1>5, <1>6, <1>7 DEF JoinerConnects
  <2>3. ASSUME NEW p \in Node, Up(p)
        PROVE  /\ \A q \in peers'[p] : q.id # my_id[p]
               /\ \A new \in accepted[p] : new.id # my_id[p]
               /\ \A init \in backlog'[p] : init.id # my_id[p]
    <3>1. /\ \A q \in peers[p] : q.id # my_id[p]
          /\ \A new \in accepted[p] : new.id # my_id[p]
          /\ \A init \in backlog[p] : init.id # my_id[p]
      BY <2>3, <1>5 DEF OwnIdApart
    <3>2. \A q \in peers'[p] : q.id # my_id[p]
      BY <3>1, <1>1, <1>2, <1>8
    <3>3. \A init \in backlog'[p] : init.id # my_id[p]
      <4>1. CASE p = m
        <5>1. backlog'[p] = backlog[p] \cup {msg}
          BY <4>1, <1>8
        <5>2. msg.id # my_id[p]
          BY <4>1, <2>2, <1>3
        <5> QED BY <5>1, <5>2, <3>1
      <4>2. CASE p # m
        <5>1. backlog'[p] = backlog[p]
          BY <4>2, <1>8
        <5> QED BY <5>1, <3>1
      <4> QED BY <4>1, <4>2
    <3> QED BY <3>1, <3>2, <3>3
  <2> QED BY <2>1, <2>3, <1>8 DEF OwnIdApart
<1>17. AnswerApart'
  BY <1>6, <1>8, <1>9 DEF AnswerApart, Joining
<1>18. AnswerComplete'
  BY <1>6, <1>8, <1>9 DEF AnswerComplete, Newcomer
<1>19. JoinerConnects'
  <2>1. \A p \in peers'[n] : p.connected \/ Settling(p.node)'
    BY <1>2, <1>4, <1>5, <1>6, <1>8 DEF JoinerConnects, Settling, GroupTypes
  <2>2. ASSUME NEW q \in Node, pc'[q] = "joined"
        PROVE  /\ my_id'[q] # my_id'[n]
               /\ \E p \in peers'[n] :
                    /\ p.node = q /\ p.id = my_id'[q]
                    /\ p.connected => \/ Reached(q, n, my_id[n])'
                                      \/ \E init \in backlog'[q] : init.from = n
    <3>1. pc[q] = "joined" /\ q # n
      BY <2>2, <1>8
    <3>2. PICK p \in peers[n] :
            /\ p.node = q /\ p.id = my_id[q]
            /\ p.connected => \/ Reached(q, n, my_id[n])
                              \/ \E init \in backlog[q] : init.from = n
      BY <3>1, <1>5, <1>6 DEF JoinerConnects
    <3>3. my_id[q] # my_id[n]
      BY <3>1, <1>5, <1>6 DEF JoinerConnects
    <3>4. CASE p = peer
      <4>1. met \in peers'[n] /\ met.node = q /\ met.id = my_id[q]
        BY <3>2, <3>4, <1>2, <1>8
      <4>2. msg \in backlog'[q]
        BY <3>2, <3>4, <1>8
      <4> QED BY <4>1, <4>2, <3>3, <1>3, <1>8
    <3>5. CASE p # peer
      <4>1. p \in peers'[n]
        BY <3>2, <3>5, <1>8
      <4>2. Reached(q, n, my_id[n]) => Reached(q, n, my_id[n])'
        BY <3>1, <1>8 DEF Reached, AcceptedAs, KnownAs
      <4>3. \A i \in backlog[q] : i \in backlog'[q]
        BY <1>8
      <4> QED BY <4>1, <4>2, <4>3, <3>2, <3>3, <1>8
    <3> QED BY <3>4, <3>5
  <2> QED BY <2>1, <2>2, <1>6, <1>9 DEF JoinerConnects
<1>20. MembersConnected'
  <2>1. MembersConnected
    BY DEF GroupInv
  <2>2. \A p \in Node : pc'[p] = "joined" => pc[p] = "joined" /\ p # n
    BY <1>8
  <2> QED BY <2>1, <2>2, <1>8 DEF MembersConnected, Reached, AcceptedAs, KnownAs
<1>21. OneFirstInit'
  <2>1. OneFirstInit
    BY DEF GroupInv
  <2>2. \A p \in Node : \A i \in backlog'[p] : i.id = 0 => i \in backlog[p]
    <3> TAKE p \in Node
    <3> TAKE i \in backlog'[p]
    <3>1. i \in backlog[p] \/ i = msg
      <4>1. backlog'[p] = IF p = m THEN backlog[p] \cup {msg} ELSE backlog[p]
        BY <1>8
      <4> QED BY <4>1
    <3> QED BY <3>1, <1>3, <1>6
  <2> QED BY <2>1, <2>2 DEF OneFirstInit
<1>22. IdsSmall'
  <2>1. Served \subseteq Served'
    BY <1>3, <1>4, <1>6, <1>8 DEF Served, Waiting
  <2> DEFINE j == Cardinality(Served')
  <2>2. j \in Nat /\ IdsUpTo(j)
    BY <2>1, BoundKept DEF GroupInv
  <2> HIDE DEF j
  <2>3. peer.id <= j /\ my_id[n] <= j
    BY <1>1, <2>2 DEF IdsUpTo
  <2>4. \A p \in Node : \A q \in peers'[p] : q.id <= j
    <3> TAKE p \in Node
    <3> TAKE q \in peers'[p]
    <3>1. q \in peers[p] \/ q = met
      BY <1>8, ZenonT(60)
    <3> QED BY <3>1, <1>2, <2>2, <2>3 DEF IdsUpTo
  <2>5. \A p \in Node : \A init \in backlog'[p] : init.id <= j
    <3> TAKE p \in Node
    <3> TAKE i \in backlog'[p]
    <3>1. i \in backlog[p] \/ i = msg
      <4>1. backlog'[p] = IF p = m THEN backlog[p] \cup {msg} ELSE backlog[p]
        BY <1>8
      <4> QED BY <4>1
    <3> QED BY <3>1, <1>3, <2>2, <2>3 DEF IdsUpTo
  <2> QED BY <1>8, <2>2, <2>4, <2>5 DEF IdsSmall, IdsUpTo, j
<1> QED BY <1>11, <1>12, <1>13, <1>14, <1>15, <1>16, <1>17, <1>18, <1>19, <1>20,
           <1>21, <1>22 DEF GroupInv

LEMMA JoinReturnKeeps ==
  ASSUME GroupInv, NEW n \in Node, JoinReturn(n)
  PROVE  GroupInv'
<1>1. /\ pc' = [pc EXCEPT ![n] = "joined"]
      /\ UNCHANGED <<my_id, peers, backlog, accepted, response, target>>
      /\ pc[n] = "ready"
      /\ \A peer \in peers[n] : peer.connected
  BY DEF JoinReturn
<1>2. /\ GroupTypes /\ OneJoiner /\ JoinState /\ InitsAwaited /\ JoinerConnects
  BY DEF GroupInv
<1>3. /\ Joining(n) /\ my_id[n] # 0 /\ response[n] = {}
      /\ \A p \in Node : Joining(p) => p = n
  BY <1>1, <1>2 DEF JoinState, OneJoiner, Joining, Settling
<1>4. \A p \in Node : pc'[p] = IF p = n THEN "joined" ELSE pc[p]
  BY <1>1, <1>2 DEF GroupTypes
<1>5. \A p \in Node : ~ Joining(p)'
  BY <1>3, <1>4 DEF Joining
<1>6. GroupTypes'
  BY <1>1, <1>2 DEF GroupTypes, PC
<1>7. JoinState'
  BY <1>1, <1>2, <1>3, <1>4 DEF JoinState, Settling
<1>8. InitsAwaited'
  BY <1>1, <1>2, <1>4 DEF InitsAwaited, GroupTypes, InitMessage
<1>9. HeardStarted'
  BY <1>1, <1>4, <1>5 DEF GroupInv, HeardStarted, HeardOf, Newcomer
<1>10. OwnIdApart'
  BY <1>1, <1>4 DEF GroupInv, OwnIdApart, Up
<1>11. AnswerApart' /\ AnswerComplete' /\ OneJoiner' /\ JoinerConnects'
  <2>1. \A p \in Node : pc'[p] # "reading"
    BY <1>5 DEF Joining
  <2> QED BY <2>1, <1>5 DEF AnswerApart, AnswerComplete, OneJoiner, JoinerConnects,
                            Newcomer
<1>12. MembersConnected'
  <2>1. MembersConnected
    BY DEF GroupInv
  <2>2. ASSUME NEW m \in Node, pc[m] = "joined"
        PROVE  /\ my_id[m] # my_id[n]
               /\ Reached(m, n, my_id[n]) /\ Reached(n, m, my_id[m])
    <3>1. PICK p \in peers[n] :
            /\ p.node = m /\ p.id = my_id[m]
            /\ p.connected => \/ Reached(m, n, my_id[n])
                              \/ \E init \in backlog[m] : init.from = n
      BY <2>2, <1>2, <1>3 DEF JoinerConnects
    <3>2. \A init \in backlog[m] : init.from # n
      BY <1>1, <1>2 DEF InitsAwaited
    <3>3. p = [id |-> my_id[m], node |-> m, connected |-> TRUE]
      BY <3>1, <1>1, <1>2 DEF GroupTypes
    <3>4. Reached(n, m, my_id[m])
      BY <3>1, <3>3 DEF Reached, KnownAs
    <3> QED BY <3>1, <3>2, <3>4, <2>2, <1>1, <1>2, <1>3 DEF JoinerConnects
  <2>3. \A p, q \in Node : Reached(p, q, my_id[q])' <=> Reached(p, q, my_id[q])
    BY <1>1 DEF Reached, KnownAs, AcceptedAs
  <2> QED BY <2>1, <2>2, <2>3, <1>1, <1>4 DEF MembersConnected
<1>13. OneFirstInit'
  BY <1>1 DEF GroupInv, OneFirstInit
<1>14. IdsSmall'
  <2>1. Served \subseteq Served'
    BY <1>1, <1>4 DEF Served, Waiting
  <2> DEFINE j == Cardinality(Served')
  <2>2. j \in Nat /\ IdsUpTo(j)
    BY <2>1, BoundKept DEF GroupInv
  <2> HIDE DEF j
  <2> QED BY <1>1, <2>2 DEF IdsSmall, IdsUpTo, j
<1> QED BY <1>6, <1>7, <1>8, <1>9, <1>10, <1>11, <1>12, <1>13, <1>14 DEF GroupInv

\* What the answer changes: the id of n and its peers.
LEMMA ReadResponseEffect ==
  ASSUME GroupInv, NEW n \in Node, ReadResponse(n)
  PROVE  \E resp \in response[n] :
           LET met == [id |-> resp.id, node |-> resp.from, connected |-> TRUE]
           IN /\ pc' = [pc EXCEPT ![n] = "ready"]
              /\ response' = [response EXCEPT ![n] = {}]
              /\ UNCHANGED <<backlog, accepted, target>>
              /\ my_id' = [my_id EXCEPT ![n] = IF @ = 0 THEN resp.assigned ELSE @]
              /\ my_id[n] = 0 =>
                   peers' = [peers EXCEPT ![n] =
                     {[id |-> l.id, node |-> l.node, connected |-> FALSE] :
                        l \in resp.list} \cup {met}]
              /\ my_id[n] # 0 =>
                   \/ peers' = [peers EXCEPT ![n] = @ \cup {met}]
                   \/ peers' = peers
<1>1. PICK resp \in response[n] :
         IF resp.id = 0
         THEN /\ pc' = [pc EXCEPT ![n] = "aborted"]
              /\ UNCHANGED <<my_id, peers>>
         ELSE LET known == IF my_id[n] = 0 THEN peers[n] \cup Listed(n, resp)
                                           ELSE peers[n]
              IN /\ my_id' = [my_id EXCEPT ![n] =
                                IF @ = 0 THEN resp.assigned ELSE @]
                 /\ peers' = [peers EXCEPT ![n] =
                                known \cup Answering(known, resp)]
                 /\ \/ pc' = [pc EXCEPT ![n] = "ready"]
                    \/ my_id[n] = 0 /\ Misread(n, resp)
  BY DEF ReadResponse
<1>2. /\ response' = [response EXCEPT ![n] = {}]
      /\ UNCHANGED <<backlog, accepted, target>>
      /\ pc[n] = "reading"
  BY DEF ReadResponse
<1>3. resp.id # 0
  BY <1>1, <1>2 DEF GroupInv, AnswerApart
<1> DEFINE known == IF my_id[n] = 0 THEN peers[n] \cup Listed(n, resp)
                                    ELSE peers[n]
           met == [id |-> resp.id, node |-> resp.from, connected |-> TRUE]
           told == {[id |-> l.id, node |-> l.node, connected |-> FALSE] :
                      l \in resp.list}
<1>4. /\ my_id' = [my_id EXCEPT ![n] = IF @ = 0 THEN resp.assigned ELSE @]
      /\ peers' = [peers EXCEPT ![n] = known \cup Answering(known, resp)]
      /\ pc' = [pc EXCEPT ![n] = "ready"]
  <2>1. ASSUME my_id[n] = 0
        PROVE  ~ Misread(n, resp)
    <3>1. peers[n] = {}
      BY <1>2, <2>1 DEF GroupInv, JoinState, Joining
    <3> QED BY <3>1 DEF Misread, KnownListed, IdsKnown
  <2> QED BY <1>1, <1>3, <2>1
<1>5. ASSUME my_id[n] = 0
      PROVE  peers' = [peers EXCEPT ![n] = told \cup {met}]
  <2>1. peers[n] = {} /\ Newcomer(n)
    BY <1>2, <1>5 DEF GroupInv, JoinState, Newcomer, Joining
  <2>2. Listed(n, resp) = told
    BY <2>1 DEF Listed, IdsKnown
  <2>3. \A l \in resp.list : l.id # resp.id
    BY <2>1 DEF GroupInv, AnswerComplete
  <2>4. Answering(told, resp) = {met}
    BY <2>3 DEF Answering
  <2>5. known = told
    BY <2>1, <2>2, <1>5
  <2> QED BY <1>4, <2>4, <2>5
<1>6. ASSUME my_id[n] # 0
      PROVE  \/ peers' = [peers EXCEPT ![n] = @ \cup {met}]
             \/ peers' = peers
  <2>1. known = peers[n]
    BY <1>6
  <2>2. Answering(peers[n], resp) = {met} \/ Answering(peers[n], resp) = {}
    BY DEF Answering
  <2>3. peers' = [peers EXCEPT ![n] = @ \cup Answering(peers[n], resp)]
    BY <1>4, <2>1
  <2>4. peers = [p \in Node |-> peers[p]]
    BY DEF GroupInv, GroupTypes
  <2>5. CASE Answering(peers[n], resp) = {}
    BY <2>3, <2>4, <2>5
  <2> QED BY <2>2, <2>3, <2>5
<1> QED BY <1>2, <1>4, <1>5, <1>6

LEMMA ReadResponseKeeps ==
  ASSUME GroupInv, NEW n \in Node, ReadResponse(n)
  PROVE  GroupInv'
<1>1. PICK resp \in response[n] :
        LET met == [id |-> resp.id, node |-> resp.from, connected |-> TRUE]
        IN /\ pc' = [pc EXCEPT ![n] = "ready"]
           /\ response' = [response EXCEPT ![n] = {}]
           /\ UNCHANGED <<backlog, accepted, target>>
           /\ my_id' = [my_id EXCEPT ![n] = IF @ = 0 THEN resp.assigned ELSE @]
           /\ my_id[n] = 0 =>
                peers' = [peers EXCEPT ![n] =
                  {[id |-> l.id, node |-> l.node, connected |-> FALSE] :
                     l \in resp.list} \cup {met}]
           /\ my_id[n] # 0 =>
                \/ peers' = [peers EXCEPT ![n] = @ \cup {met}]
                \/ peers' = peers
  BY ReadResponseEffect
<1> DEFINE met == [id |-> resp.id, node |-> resp.from, connected |-> TRUE]
           told == {[id |-> l.id, node |-> l.node, connected |-> FALSE] :
                      l \in resp.list}
<1>id. PICK new_id : new_id = IF my_id[n] = 0 THEN resp.assigned ELSE my_id[n]
  OBVIOUS
<1>2. pc[n] = "reading"
  BY DEF ReadResponse
<1>3. /\ GroupTypes /\ OneJoiner /\ JoinState /\ InitsAwaited /\ AnswerApart
      /\ AnswerComplete /\ JoinerConnects /\ HeardStarted /\ OwnIdApart
  BY DEF GroupInv
<1>4. /\ resp \in Response
      /\ resp.from \in Node /\ resp.id \in Nat /\ resp.assigned \in Nat
      /\ \A l \in resp.list : l \in Named /\ l.id \in Nat /\ l.node \in Node
  <2>1. resp \in Response
    BY <1>3 DEF GroupTypes
  <2> QED BY <2>1 DEF Response, Named
<1>5. /\ resp.id # 0 /\ resp.id # my_id[n]
      /\ resp.from = target[n] /\ Settling(resp.from)
  BY <1>2, <1>3 DEF AnswerApart
<1>6. /\ Joining(n) /\ backlog[n] = {} /\ accepted[n] = {}
      /\ \A p \in Node : Joining(p) => p = n
      /\ my_id[n] = 0 => Newcomer(n) /\ peers[n] = {}
  BY <1>2, <1>3 DEF JoinState, OneJoiner, Joining, Settling, Newcomer
<1>7. my_id[n] = 0 =>
        /\ resp.assigned # 0 /\ resp.assigned # resp.id
        /\ \A l \in resp.list :
             l.id # resp.id /\ l.id # resp.assigned /\ Settling(l.node)
        /\ \A m \in Node : pc[m] = "joined" =>
             /\ my_id[m] # resp.assigned
             /\ \/ m = resp.from /\ my_id[m] = resp.id
                \/ [id |-> my_id[m], node |-> m] \in resp.list
        /\ pc[resp.from] = "joined" => Reached(resp.from, n, resp.assigned)
  BY <1>3, <1>6 DEF AnswerComplete
<1>8. /\ met \in [id : Nat, node : Node, connected : BOOLEAN]
      /\ met.id = resp.id /\ met.node = resp.from /\ met.connected = TRUE
      /\ told \in SUBSET [id : Nat, node : Node, connected : BOOLEAN]
      /\ \A p \in told : \E l \in resp.list :
            p.id = l.id /\ p.node = l.node /\ p.connected = FALSE
      /\ \A l \in resp.list : \E p \in told :
            p.id = l.id /\ p.node = l.node /\ p.connected = FALSE
  <2>1. \A p \in told : \E l \in resp.list :
           p = [id |-> l.id, node |-> l.node, connected |-> FALSE]
    OBVIOUS
  <2>2. \A l \in resp.list : [id |-> l.id, node |-> l.node, connected |-> FALSE] \in told
    OBVIOUS
  <2>3. /\ met \in [id : Nat, node : Node, connected : BOOLEAN]
        /\ met.id = resp.id /\ met.node = resp.from /\ met.connected = TRUE
    BY <1>4
  <2> HIDE DEF told, met
  <2>4. ASSUME NEW p \in told
        PROVE  p \in [id : Nat, node : Node, connected : BOOLEAN]
    <3>1. PICK l \in resp.list : p = [id |-> l.id, node |-> l.node, connected |-> FALSE]
      BY <2>1
    <3> QED BY <3>1, <1>4
  <2>5. \A p \in told : \E l \in resp.list :
            p.id = l.id /\ p.node = l.node /\ p.connected = FALSE
    BY <2>1
  <2>6. \A l \in resp.list : \E p \in told :
            p.id = l.id /\ p.node = l.node /\ p.connected = FALSE
    BY <2>2
  <2> QED BY <2>3, <2>4, <2>5, <2>6
<1>9. /\ pc' = [pc EXCEPT ![n] = "ready"]
      /\ response' = [response EXCEPT ![n] = {}]
      /\ UNCHANGED <<backlog, accepted, target>>
      /\ my_id' = [my_id EXCEPT ![n] = new_id]
      /\ my_id[n] = 0 => peers' = [peers EXCEPT ![n] = told \cup {met}]
      /\ my_id[n] # 0 => \/ peers' = [peers EXCEPT ![n] = @ \cup {met}]
                         \/ peers' = peers
  BY <1>1, <1>id
<1>10. new_id \in Nat /\ new_id # 0 /\ (my_id[n] # 0 => new_id = my_id[n])
       /\ (my_id[n] = 0 => new_id = resp.assigned)
  BY <1>3, <1>4, <1>7, <1>id DEF GroupTypes
<1> HIDE DEF met, told
<1>11. /\ \A p \in Node :
            /\ pc'[p] = IF p = n THEN "ready" ELSE pc[p]
            /\ response'[p] = IF p = n THEN {} ELSE response[p]
            /\ my_id'[p] = IF p = n THEN new_id ELSE my_id[p]
       /\ \A p \in Node \ {n} : peers'[p] = peers[p]
       /\ my_id[n] = 0 => peers'[n] = told \cup {met}
       /\ my_id[n] # 0 => peers'[n] = peers[n] \/ peers'[n] = peers[n] \cup {met}
       /\ backlog' = backlog /\ accepted' = accepted /\ target' = target
  BY <1>3, <1>9 DEF GroupTypes
<1>12. \A p \in peers'[n] :
         \/ p \in peers[n]
         \/ p = met
         \/ my_id[n] = 0 /\ p \in told
  BY <1>11
<1>13. \A p \in Node : Joining(p)' <=> Joining(p)
  BY <1>2, <1>11 DEF Joining
<1>14. \A p \in Node : \A i \in backlog[p] : i.from # n
  BY <1>2, <1>3 DEF InitsAwaited
<1>15. GroupTypes'
  <2>1. peers' \in [Node -> SUBSET [id : Nat, node : Node, connected : BOOLEAN]]
    BY <1>3, <1>8, <1>9 DEF GroupTypes
  <2> QED BY <2>1, <1>3, <1>9, <1>10 DEF GroupTypes, PC
<1>16. OneJoiner'
  BY <1>3, <1>13 DEF OneJoiner
<1>17. JoinState'
  BY <1>2, <1>3, <1>6, <1>10, <1>11, FounderAssumption DEF JoinState, Settling
<1>18. InitsAwaited'
  BY <1>3, <1>11, <1>14 DEF InitsAwaited, GroupTypes, InitMessage
<1>19. HeardStarted'
  <2>1. ASSUME NEW p \in Node, NEW q \in Node, HeardOf(p, q)'
        PROVE  HeardOf(p, q) \/ (Settling(q) /\ q # n)
    <3>1. CASE \E new \in accepted'[p] : new.node = q
      BY <3>1, <1>11 DEF HeardOf
    <3>2. CASE \E peer \in peers'[p] : peer.node = q
      <4>1. CASE p # n
        BY <3>2, <4>1, <1>11 DEF HeardOf
      <4>2. CASE p = n
        <5>1. PICK peer \in peers'[n] : peer.node = q
          BY <3>2, <4>2
        <5>2. CASE peer \in peers[n]
          BY <5>1, <5>2, <4>2 DEF HeardOf
        <5>3. CASE peer = met
          BY <5>1, <5>3, <1>2, <1>5, <1>8 DEF Settling
        <5>4. CASE my_id[n] = 0 /\ peer \in told
          BY <5>1, <5>4, <1>2, <1>7, <1>8 DEF Settling
        <5> QED BY <5>1, <5>2, <5>3, <5>4, <1>12
      <4> QED BY <4>1, <4>2
    <3> QED BY <2>1, <3>1, <3>2 DEF HeardOf
  <2>2. ASSUME NEW p \in Node, NEW q \in Node, HeardOf(p, q)'
        PROVE  pc'[q] # "off" /\ (Newcomer(q)' => response'[q] # {})
    BY <2>1, <2>2, <1>3, <1>10, <1>11, <1>13
       DEF HeardStarted, Newcomer, Joining, Settling
  <2> QED BY <2>2 DEF HeardStarted
<1>20. OwnIdApart'
  <2>1. ASSUME NEW p \in peers'[n]
        PROVE  p.id # new_id
    <3>1. CASE p \in peers[n]
      BY <3>1, <1>2, <1>3, <1>6, <1>10 DEF OwnIdApart, Up
    <3>2. CASE p = met
      BY <3>2, <1>5, <1>7, <1>8, <1>10
    <3>3. CASE my_id[n] = 0 /\ p \in told
      BY <3>3, <1>7, <1>8, <1>10
    <3> QED BY <3>1, <3>2, <3>3, <1>12
  <2>2. \A p \in Node : Up(p)' => Up(p)
    BY <1>2, <1>11 DEF Up
  <2> QED BY <2>1, <2>2, <1>3, <1>6, <1>11 DEF OwnIdApart
<1>21. AnswerApart'
  BY <1>2, <1>3, <1>11 DEF AnswerApart, Settling, GroupTypes, Response
<1>22. AnswerComplete'
  BY <1>6, <1>10, <1>11, <1>13 DEF AnswerComplete, Newcomer
<1>23. JoinerConnects'
  <2>1. ASSUME NEW p \in peers'[n]
        PROVE  p.connected \/ Settling(p.node)'
    <3>1. p.connected \/ Settling(p.node)
      <4>1. CASE p \in peers[n]
        BY <4>1, <1>3, <1>6 DEF JoinerConnects
      <4>2. CASE p = met
        BY <4>2, <1>8
      <4>3. CASE my_id[n] = 0 /\ p \in told
        BY <4>3, <1>7, <1>8
      <4> QED BY <4>1, <4>2, <4>3, <1>12
    <3>2. p.node \in Node
      BY <1>15 DEF GroupTypes
    <3> QED BY <3>1, <3>2, <1>2, <1>11 DEF Settling
  <2>2. ASSUME NEW m \in Node, pc'[m] = "joined"
        PROVE  /\ my_id'[m] # new_id
               /\ \E peer \in peers'[n] :
                    /\ peer.node = m /\ peer.id = my_id'[m]
                    /\ peer.connected => \/ Reached(m, n, new_id)'
                                         \/ \E init \in backlog'[m] : init.from = n
    <3>1. pc[m] = "joined" /\ m # n /\ my_id'[m] = my_id[m]
      BY <2>2, <1>11
    <3>2. Reached(m, n, new_id) => Reached(m, n, new_id)'
      BY <3>1, <1>11 DEF Reached, AcceptedAs, KnownAs
    <3>3. CASE my_id[n] # 0
      <4>1. PICK peer \in peers[n] :
              /\ peer.node = m /\ peer.id = my_id[m]
              /\ peer.connected => \/ Reached(m, n, my_id[n])
                                   \/ \E init \in backlog[m] : init.from = n
        BY <3>1, <3>3, <1>3, <1>6 DEF JoinerConnects
      <4>2. peer \in peers'[n]
        BY <3>3, <1>11
      <4>3. my_id[m] # new_id
        BY <3>1, <3>3, <1>3, <1>6, <1>10 DEF JoinerConnects
      <4> QED BY <4>1, <4>2, <4>3, <3>1, <3>2, <3>3, <1>10, <1>11
    <3>4. CASE my_id[n] = 0
      <4>1. my_id[m] # new_id
        BY <3>1, <3>4, <1>7, <1>10
      <4>2. CASE m = resp.from /\ my_id[m] = resp.id
        <5>1. met \in peers'[n] /\ met.node = m /\ met.id = my_id[m]
          BY <4>2, <3>4, <1>8, <1>11
        <5>2. Reached(m, n, new_id)
          BY <4>2, <3>1, <3>4, <1>7, <1>10
        <5> QED BY <5>1, <5>2, <4>1, <3>1, <3>2
      <4>3. CASE [id |-> my_id[m], node |-> m] \in resp.list
        <5>1. PICK peer \in told :
                peer.id = my_id[m] /\ peer.node = m /\ peer.connected = FALSE
          BY <4>3, <1>8
        <5> QED BY <5>1, <4>1, <3>1, <3>4, <1>11
      <4> QED BY <4>2, <4>3, <3>1, <3>4, <1>7
    <3> QED BY <3>3, <3>4
  <2>3. my_id'[n] = new_id
    BY <1>11
  <2> QED BY <2>1, <2>2, <2>3, <1>6, <1>13 DEF JoinerConnects
<1>24. MembersConnected'
  <2>1. MembersConnected
    BY DEF GroupInv
  <2>2. \A p \in Node : pc'[p] = "joined" => pc[p] = "joined" /\ p # n
    BY <1>11
  <2> QED BY <2>1, <2>2, <1>11 DEF MembersConnected, Reached, AcceptedAs, KnownAs
<1>25. OneFirstInit'
  BY <1>11 DEF GroupInv, OneFirstInit
<1>26. IdsSmall'
  <2>1. Served \subseteq Served'
    BY <1>2, <1>11 DEF Served, Waiting
  <2> DEFINE j == Cardinality(Served')
  <2>2. j \in Nat /\ IdsUpTo(j)
    BY <2>1, BoundKept DEF GroupInv
  <2> HIDE DEF j
  <2>3. /\ resp.id <= j /\ resp.assigned <= j /\ my_id[n] <= j
        /\ \A l \in resp.list : l.id <= j
    BY <2>2 DEF IdsUpTo
  <2>4. new_id <= j
    BY <2>3, <1>10
  <2>5. ASSUME NEW p \in peers'[n]
        PROVE  p.id <= j
    <3>1. CASE p \in peers[n]
      BY <3>1, <2>2 DEF IdsUpTo
    <3>2. CASE p = met
      BY <3>2, <2>3, <1>8
    <3>3. CASE my_id[n] = 0 /\ p \in told
      BY <3>3, <2>3, <1>8
    <3> QED BY <3>1, <3>2, <3>3, <1>12
  <2> QED BY <1>11, <2>2, <2>4, <2>5 DEF IdsSmall, IdsUpTo, j
<1> QED BY <1>15, <1>16, <1>17, <1>18, <1>19, <1>20, <1>21, <1>22, <1>23, <1>24,
           <1>25, <1>26 DEF GroupInv

\* What a member answers, and what it is about to add to its hash.
LEMMA AcceptInitEffect ==
  ASSUME GroupInv, NEW n \in Node, AcceptInit(n)
  PROVE  \E init \in backlog[n], given \in Nat, resp \in Response :
           /\ backlog' = [backlog EXCEPT ![n] = @ \ {init}]
           /\ response' = [response EXCEPT ![init.from] = {resp}]
           /\ accepted' = [accepted EXCEPT ![n] = {[id |-> given, node |-> init.from]}]
           /\ resp.from = n /\ resp.id = my_id[n]
           /\ init.id # 0 =>
                /\ given = init.id /\ resp.assigned = 0
                /\ \A l \in resp.list : FALSE
           /\ init.id = 0 =>
                /\ given = NextId(n) /\ resp.assigned = given
                /\ \A l \in resp.list : \E peer \in peers[n] :
                     l.id = peer.id /\ l.node = peer.node
                /\ \A peer \in peers[n] :
                     [id |-> peer.id, node |-> peer.node] \in resp.list
<1>1. PICK init \in backlog[n] :
        /\ backlog' = [backlog EXCEPT ![n] = @ \ {init}]
        /\ response' = [response EXCEPT ![init.from] = Answer(n, init)]
        /\ accepted' = [accepted EXCEPT ![n] =
             {[id   |-> IF init.id = 0 THEN NextId(n) ELSE init.id,
               node |-> init.from]}]
  BY DEF AcceptInit
<1>2. init.from \in Node /\ init.id \in Nat /\ my_id[n] \in Nat
  BY DEF GroupInv, GroupTypes, InitMessage
<1>3. NextId(n) \in Nat
  <2>1. IdsUpTo(Cardinality(Served)) /\ GroupTypes
    BY DEF GroupInv, IdsSmall
  <2> QED BY <2>1, ServedFinite, NextIdFresh
<1>4. PeerList(n) \in SUBSET Named
  BY DEF GroupInv, GroupTypes, PeerList, Named
<1>5. CASE init.id # 0
  <2> DEFINE resp == [from |-> n, id |-> my_id[n], assigned |-> 0, list |-> {}]
  <2>1. Answer(n, init) = {resp}
    BY <1>5 DEF Answer
  <2>2. resp \in Response
    BY <1>2 DEF Response
  <2>3. resp.from = n /\ resp.id = my_id[n] /\ resp.assigned = 0 /\ resp.list = {}
    OBVIOUS
  <2> HIDE DEF resp
  <2>4. accepted' = [accepted EXCEPT ![n] = {[id |-> init.id, node |-> init.from]}]
    BY <1>1, <1>5
  <2>5. response' = [response EXCEPT ![init.from] = {resp}]
    BY <1>1, <2>1
  <2>6. init.id \in Nat
    BY <1>2
  <2> QED BY <1>1, <1>5, <2>2, <2>3, <2>4, <2>5, <2>6
<1>6. CASE init.id = 0
  <2> DEFINE resp == [from |-> n, id |-> my_id[n], assigned |-> NextId(n),
                      list |-> PeerList(n)]
  <2>1. Answer(n, init) = {resp}
    BY <1>6 DEF Answer
  <2>2. resp \in Response
    BY <1>2, <1>3, <1>4 DEF Response
  <2>3. /\ resp.from = n /\ resp.id = my_id[n] /\ resp.assigned = NextId(n)
        /\ resp.list = PeerList(n)
    OBVIOUS
  <2> HIDE DEF resp
  <2>4. accepted' = [accepted EXCEPT ![n] = {[id |-> NextId(n), node |-> init.from]}]
    BY <1>1, <1>6
  <2>5. response' = [response EXCEPT ![init.from] = {resp}]
    BY <1>1, <2>1
  <2>6. /\ \A l \in resp.list : \E peer \in peers[n] :
             l.id = peer.id /\ l.node = peer.node
        /\ \A peer \in peers[n] :
             [id |-> peer.id, node |-> peer.node] \in resp.list
    BY <2>3 DEF PeerList
  <2> QED BY <1>1, <1>3, <1>6, <2>2, <2>3, <2>4, <2>5, <2>6
<1> QED BY <1>5, <1>6

LEMMA AcceptInitKeeps ==
  ASSUME GroupInv, NEW n \in Node, AcceptInit(n)
  PROVE  GroupInv'
<1>1. PICK init \in backlog[n], given \in Nat, resp \in Response :
        /\ backlog' = [backlog EXCEPT ![n] = @ \ {init}]
        /\ response' = [response EXCEPT ![init.from] = {resp}]
        /\ accepted' = [accepted EXCEPT ![n] = {[id |-> given, node |-> init.from]}]
        /\ resp.from = n /\ resp.id = my_id[n]
        /\ init.id # 0 =>
             /\ given = init.id /\ resp.assigned = 0
             /\ \A l \in resp.list : FALSE
        /\ init.id = 0 =>
             /\ given = NextId(n) /\ resp.assigned = given
             /\ \A l \in resp.list : \E peer \in peers[n] :
                  l.id = peer.id /\ l.node = peer.node
             /\ \A peer \in peers[n] :
                  [id |-> peer.id, node |-> peer.node] \in resp.list
  BY AcceptInitEffect
<1> DEFINE new == [id |-> given, node |-> init.from]
<1>2. /\ GroupTypes /\ OneJoiner /\ JoinState /\ InitsAwaited /\ AnswerApart
      /\ AnswerComplete /\ JoinerConnects /\ HeardStarted /\ OwnIdApart
      /\ MembersConnected /\ OneFirstInit /\ IdsSmall
  BY DEF GroupInv
<1>3. PICK f \in Node : f = init.from
  BY <1>2 DEF GroupTypes, InitMessage
<1>4. /\ new \in Named /\ new.id = given /\ new.node = f
      /\ resp.id \in Nat /\ resp.assigned \in Nat /\ init.id \in Nat
      /\ init = [from |-> f, id |-> init.id]
  BY <1>2, <1>3 DEF Named, Response, GroupTypes, InitMessage
<1>5. /\ UNCHANGED <<my_id, peers, target, pc>>
      /\ Up(n) /\ accepted[n] = {}
      /\ new = [id |-> given, node |-> f]
  BY <1>3 DEF AcceptInit
<1> HIDE DEF new
<1>6. /\ \A p \in Node :
           /\ backlog'[p] = IF p = n THEN backlog[p] \ {init} ELSE backlog[p]
           /\ response'[p] = IF p = f THEN {resp} ELSE response[p]
           /\ accepted'[p] = IF p = n THEN {new} ELSE accepted[p]
      /\ my_id' = my_id /\ peers' = peers /\ target' = target /\ pc' = pc
  <2>1. accepted' = [accepted EXCEPT ![n] = {new}]
    BY <1>1 DEF new
  <2>2. response' = [response EXCEPT ![f] = {resp}]
    BY <1>1, <1>3
  <2>3. backlog' = [backlog EXCEPT ![n] = @ \ {init}]
    BY <1>1
  <2>4. \A p \in Node : accepted'[p] = IF p = n THEN {new} ELSE accepted[p]
    BY <2>1, <1>2 DEF GroupTypes
  <2>5. \A p \in Node : response'[p] = IF p = f THEN {resp} ELSE response[p]
    BY <2>2, <1>2 DEF GroupTypes
  <2>6. \A p \in Node : backlog'[p] = IF p = n THEN backlog[p] \ {init} ELSE backlog[p]
    BY <2>3, <1>2, ZenonT(60) DEF GroupTypes
  <2> QED BY <2>4, <2>5, <2>6, <1>5
<1>7. pc[n] = "joined" /\ my_id[n] # 0
  BY <1>2, <1>5 DEF JoinState, Settling, Up
<1>8. \/ pc[f] = "down"
      \/ /\ pc[f] = "reading" /\ target[f] = n /\ init.id = my_id[f]
         /\ response[f] = {}
  BY <1>2, <1>3 DEF InitsAwaited
<1>9. f # n
  BY <1>7, <1>8
<1>10. init.id # my_id[n]
  BY <1>2, <1>5 DEF OwnIdApart
<1>11. init.id = 0 =>
         /\ given # 0 /\ given > my_id[n] /\ given <= Cardinality(Served) + 1
         /\ \A peer \in peers[n] : given > peer.id
  <2>1. IdsUpTo(Cardinality(Served))
    BY <1>2 DEF IdsSmall
  <2> QED BY <2>1, <1>1, <1>2, ServedFinite, NextIdFresh
<1>12. given # my_id[n]
  BY <1>1, <1>2, <1>10, <1>11 DEF GroupTypes
<1>13. \A p \in Node :
         /\ Joining(p)' <=> Joining(p)
         /\ Newcomer(p)' <=> Newcomer(p)
         /\ Settling(p)' <=> Settling(p)
  BY <1>6 DEF Joining, Newcomer, Settling
<1>14. \A p, q \in Node, id \in Nat : Reached(p, q, id) => Reached(p, q, id)'
  BY <1>5, <1>6 DEF Reached, AcceptedAs, KnownAs
<1>15. GroupTypes'
  <2>1. /\ backlog' \in [Node -> SUBSET InitMessage]
        /\ response' \in [Node -> SUBSET Response]
        /\ accepted' \in [Node -> SUBSET Named]
    BY <1>1, <1>2, <1>3, <1>4, <1>5 DEF GroupTypes, new
  <2>2. \A p \in Node : /\ \A x, y \in accepted'[p] : x = y
                        /\ \A x, y \in response'[p] : x = y
    BY <1>2, <1>6, ZenonT(60) DEF GroupTypes
  <2> QED BY <2>1, <2>2, <1>2, <1>6 DEF GroupTypes
<1>16. OneJoiner'
  BY <1>2, <1>13 DEF OneJoiner
<1>17. JoinState'
  BY <1>2, <1>6, <1>7, <1>8, <1>9 DEF JoinState, Settling
<1>18. InitsAwaited'
  <2>1. ASSUME NEW m \in Node, NEW i \in backlog'[m]
        PROVE  \/ pc[i.from] = "down"
               \/ /\ pc[i.from] = "reading" /\ target[i.from] = m
                  /\ i.id = my_id[i.from] /\ response'[i.from] = {}
    <3>1. i \in backlog[m] /\ (m = n => i # init)
      BY <1>6
    <3>2. i.from \in Node /\ i = [from |-> i.from, id |-> i.id]
      BY <3>1, <1>2 DEF GroupTypes, InitMessage
    <3>3. \/ pc[i.from] = "down"
          \/ /\ pc[i.from] = "reading" /\ target[i.from] = m
             /\ i.id = my_id[i.from] /\ response[i.from] = {}
      BY <3>1, <1>2 DEF InitsAwaited
    <3>4. CASE i.from = f /\ pc[f] # "down"
      BY <3>1, <3>2, <3>3, <3>4, <1>4, <1>8
    <3> QED BY <3>2, <3>3, <3>4, <1>6
  <2> QED BY <2>1, <1>6 DEF InitsAwaited
<1>19. HeardStarted'
  <2>1. ASSUME NEW p \in Node, NEW q \in Node, HeardOf(p, q)'
        PROVE  HeardOf(p, q) \/ q = f
    BY <2>1, <1>4, <1>6, ZenonT(60) DEF HeardOf
  <2> QED BY <2>1, <1>2, <1>6, <1>8, <1>13 DEF HeardStarted
<1>20. OwnIdApart'
  <2>1. ASSUME NEW p \in Node, Up(p)
        PROVE  /\ \A peer \in peers[p] : peer.id # my_id[p]
               /\ \A x \in accepted'[p] : x.id # my_id[p]
               /\ \A i \in backlog'[p] : i.id # my_id[p]
    <3>1. /\ \A peer \in peers[p] : peer.id # my_id[p]
          /\ \A x \in accepted[p] : x.id # my_id[p]
          /\ \A i \in backlog[p] : i.id # my_id[p]
      BY <2>1, <1>2 DEF OwnIdApart
    <3>2. \A x \in accepted'[p] : x \in accepted[p] \/ (x = new /\ p = n)
      BY <1>6
    <3>3. \A i \in backlog'[p] : i \in backlog[p]
      BY <1>6
    <3> QED BY <3>1, <3>2, <3>3, <1>4, <1>12
  <2> QED BY <2>1, <1>6 DEF OwnIdApart, Up
<1>21. AnswerApart'
  <2>1. ASSUME pc[f] = "reading"
        PROVE  /\ resp.id # 0 /\ resp.id # my_id[f]
               /\ resp.from = target[f] /\ Settling(resp.from)
    BY <2>1, <1>1, <1>7, <1>8, <1>10 DEF Settling
  <2>2. ASSUME NEW p \in Node, pc[p] = "reading", NEW r \in response'[p]
        PROVE  /\ r.id # 0 /\ r.id # my_id[p]
               /\ r.from = target[p] /\ Settling(r.from)
    BY <2>1, <2>2, <1>2, <1>6, ZenonT(60) DEF AnswerApart
  <2> QED BY <2>2, <1>6 DEF AnswerApart, Settling
<1>22. AnswerComplete'
  <2>1. ASSUME Newcomer(f)
        PROVE  /\ resp.assigned # 0 /\ resp.assigned # resp.id
               /\ \A l \in resp.list :
                    l.id # resp.id /\ l.id # resp.assigned /\ Settling(l.node)
               /\ \A m \in Node : pc[m] = "joined" =>
                    /\ my_id[m] # resp.assigned
                    /\ \/ m = resp.from /\ my_id[m] = resp.id
                       \/ [id |-> my_id[m], node |-> m] \in resp.list
               /\ Reached(resp.from, f, resp.assigned)'
    <3>1. pc[f] = "reading" /\ init.id = 0 /\ response[f] = {}
      BY <2>1, <1>8 DEF Newcomer, Joining
    <3>2. resp.assigned = given /\ given # 0 /\ given # resp.id
      BY <3>1, <1>1, <1>11, <1>12
    <3>3. ASSUME NEW l \in resp.list
          PROVE  l.id # resp.id /\ l.id # resp.assigned /\ Settling(l.node)
      <4>1. PICK peer \in peers[n] : l.id = peer.id /\ l.node = peer.node
        BY <3>1, <1>1
      <4>2. peer.id # my_id[n]
        BY <1>2, <1>5 DEF OwnIdApart
      <4>3. peer.id \in Nat /\ given > peer.id /\ peer.node \in Node
        BY <3>1, <1>2, <1>11 DEF GroupTypes
      <4>4. pc[peer.node] # "off" /\ (Newcomer(peer.node) => response[peer.node] # {})
        BY <4>3, <1>2 DEF HeardStarted, HeardOf
      <4>5. Joining(peer.node) => peer.node = f
        BY <2>1, <4>3, <1>2 DEF OneJoiner, Newcomer
      <4>6. ~ Joining(peer.node)
        BY <4>4, <4>5, <3>1, <2>1
      <4>7. pc[peer.node] \in PC
        BY <4>3, <1>2 DEF GroupTypes
      <4>8. Settling(peer.node)
        BY <4>4, <4>6, <4>7 DEF Settling, Joining, PC
      <4> QED BY <4>1, <4>2, <4>3, <4>8, <3>2, <1>1
    <3>4. ASSUME NEW m \in Node, pc[m] = "joined"
          PROVE  /\ my_id[m] # resp.assigned
                 /\ \/ m = resp.from /\ my_id[m] = resp.id
                    \/ [id |-> my_id[m], node |-> m] \in resp.list
      <4>1. CASE m = n
        BY <4>1, <3>2, <1>1
      <4>2. CASE m # n
        <5>1. KnownAs(n, m, my_id[m])
          BY <4>2, <3>4, <1>2, <1>5, <1>7 DEF MembersConnected, Reached, AcceptedAs
        <5>2. PICK peer \in peers[n] : peer = [id |-> my_id[m], node |-> m,
                                               connected |-> TRUE]
          BY <5>1 DEF KnownAs
        <5>3. peer.id = my_id[m] /\ peer.node = m
          BY <5>2
        <5>4. given > my_id[m] /\ my_id[m] \in Nat
          BY <5>3, <3>1, <1>2, <1>11 DEF GroupTypes
        <5>5. [id |-> my_id[m], node |-> m] \in resp.list
          BY <5>3, <3>1, <1>1
        <5> QED BY <5>4, <5>5, <3>2
      <4> QED BY <4>1, <4>2
    <3>5. Reached(n, f, resp.assigned)'
      BY <3>2, <1>5, <1>6 DEF Reached, AcceptedAs
    <3> QED BY <3>2, <3>3, <3>4, <3>5, <1>1
  <2>2. ASSUME NEW p \in Node, Newcomer(p), NEW r \in response'[p]
        PROVE  /\ r.assigned # 0 /\ r.assigned # r.id
               /\ \A l \in r.list :
                    l.id # r.id /\ l.id # r.assigned /\ Settling(l.node)
               /\ \A m \in Node : pc[m] = "joined" =>
                    /\ my_id[m] # r.assigned
                    /\ \/ m = r.from /\ my_id[m] = r.id
                       \/ [id |-> my_id[m], node |-> m] \in r.list
               /\ pc[r.from] = "joined" => Reached(r.from, p, r.assigned)'
    <3>1. CASE p = f
      BY <3>1, <2>1, <2>2, <1>6
    <3>2. CASE p # f
      <4>1. r \in response[p]
        BY <3>2, <1>6
      <4>2. r.from \in Node /\ r.assigned \in Nat
        BY <4>1, <1>2 DEF GroupTypes, Response
      <4>3. /\ r.assigned # 0 /\ r.assigned # r.id
            /\ \A l \in r.list :
                 l.id # r.id /\ l.id # r.assigned /\ Settling(l.node)
            /\ \A m \in Node : pc[m] = "joined" =>
                 /\ my_id[m] # r.assigned
                 /\ \/ m = r.from /\ my_id[m] = r.id
                    \/ [id |-> my_id[m], node |-> m] \in r.list
            /\ pc[r.from] = "joined" => Reached(r.from, p, r.assigned)
        BY <4>1, <2>2, <1>2 DEF AnswerComplete
      <4> QED BY <4>2, <4>3, <1>14
    <3> QED BY <3>1, <3>2
  <2> QED BY <2>2, <1>6, <1>13 DEF AnswerComplete, Settling
<1>23. JoinerConnects'
  <2>1. ASSUME NEW p \in Node, Joining(p)
        PROVE  /\ \A peer \in peers[p] : peer.connected \/ Settling(peer.node)
               /\ my_id[p] # 0 =>
                    \A m \in Node : pc[m] = "joined" =>
                      /\ my_id[m] # my_id[p]
                      /\ \E peer \in peers[p] :
                           /\ peer.node = m /\ peer.id = my_id[m]
                           /\ peer.connected =>
                                \/ Reached(m, p, my_id[p])'
                                \/ \E i \in backlog'[m] : i.from = p
    <3>1. \A peer \in peers[p] : peer.connected \/ Settling(peer.node)
      BY <2>1, <1>2 DEF JoinerConnects
    <3>2. ASSUME my_id[p] # 0, NEW m \in Node, pc[m] = "joined"
          PROVE  /\ my_id[m] # my_id[p]
                 /\ \E peer \in peers[p] :
                      /\ peer.node = m /\ peer.id = my_id[m]
                      /\ peer.connected =>
                           \/ Reached(m, p, my_id[p])'
                           \/ \E i \in backlog'[m] : i.from = p
      <4>1. PICK peer \in peers[p] :
              /\ peer.node = m /\ peer.id = my_id[m]
              /\ peer.connected => \/ Reached(m, p, my_id[p])
                                   \/ \E i \in backlog[m] : i.from = p
        BY <2>1, <3>2, <1>2 DEF JoinerConnects
      <4>2. my_id[m] # my_id[p]
        BY <2>1, <3>2, <1>2 DEF JoinerConnects
      <4>3. Reached(m, p, my_id[p]) => Reached(m, p, my_id[p])'
        BY <1>2, <1>6, <1>5 DEF Reached, AcceptedAs, KnownAs
      <4>4. ASSUME NEW i \in backlog[m], i.from = p
            PROVE  i \in backlog'[m] \/ Reached(m, p, my_id[p])'
        <5>1. CASE m = n /\ i = init
          <6>1. p = f /\ init.id = my_id[p]
            <7>1. p = f
              BY <5>1, <4>4, <1>3
            <7>2. pc[f] # "down"
              BY <7>1, <2>1 DEF Joining
            <7> QED BY <7>1, <7>2, <1>8
          <6>2. init.id # 0
            BY <6>1, <3>2
          <6>3. given = my_id[p]
            BY <6>1, <6>2, <1>1
          <6>4. new \in accepted'[n]
            BY <1>6
          <6> QED BY <5>1, <6>1, <6>3, <6>4, <1>5 DEF Reached, AcceptedAs
        <5> QED BY <5>1, <1>6
      <4> QED BY <4>1, <4>2, <4>3, <4>4
    <3> QED BY <3>1, <3>2
  <2> QED BY <2>1, <1>6, <1>13 DEF JoinerConnects, Settling
<1>24. MembersConnected'
  BY <1>2, <1>5, <1>6, ZenonT(60) DEF MembersConnected, Reached, AcceptedAs, KnownAs
<1>25. OneFirstInit'
  <2>1. \A p \in Node : \A i \in backlog'[p] : i \in backlog[p]
    BY <1>6
  <2> QED BY <2>1, <1>2 DEF OneFirstInit
<1>26. IdsSmall'
  <2>1. Served \subseteq Served'
    BY <1>6 DEF Served, Waiting
  <2>2. PICK j \in Nat : j = Cardinality(Served') /\ IdsUpTo(j)
    BY <2>1, <1>2, BoundKept
  <2>3. given <= j
    <3>1. CASE init.id # 0
      BY <3>1, <1>1, <2>2 DEF IdsUpTo
    <3>2. CASE init.id = 0
      <4>1. f \notin Served
        BY <3>2, <1>4 DEF Served, Waiting
      <4>2. f \in Served'
        <5>1. pc'[f] # "off"
          BY <1>6, <1>8
        <5>2. ASSUME NEW m \in Node, [from |-> f, id |-> 0] \in backlog'[m]
              PROVE  FALSE
          <6>1. init = [from |-> f, id |-> 0]
            BY <3>2, <1>4
          <6>2. [from |-> f, id |-> 0] \in backlog[m]
            BY <5>2, <1>6
          <6>3. m = n
            BY <6>1, <6>2, <1>2 DEF OneFirstInit
          <6> QED BY <6>1, <6>3, <5>2, <1>6
        <5> QED BY <5>1, <5>2 DEF Served, Waiting
      <4>3. IsFiniteSet(Served) /\ Cardinality(Served) \in Nat
        BY ServedFinite
      <4>4. /\ IsFiniteSet(Served \cup {f})
            /\ Cardinality(Served \cup {f}) = Cardinality(Served) + 1
        BY <4>1, <4>3, FS_AddElement
      <4>5. IsFiniteSet(Served')
        <5>1. Served' \subseteq Node
          BY DEF Served
        <5> QED BY <5>1, NodeAssumption, FS_Subset
      <4>6. Served \cup {f} \subseteq Served'
        BY <2>1, <4>2
      <4>7. Cardinality(Served \cup {f}) <= Cardinality(Served')
        BY <4>5, <4>6, FS_Subset
      <4> QED BY <3>2, <4>3, <4>4, <4>7, <1>11, <2>2
    <3> QED BY <3>1, <3>2
  <2>4. /\ resp.id <= j /\ resp.assigned <= j
        /\ \A l \in resp.list : l.id <= j
    <3>1. resp.id <= j /\ 0 <= j
      BY <2>2, <1>1 DEF IdsUpTo
    <3>2. resp.assigned <= j
      BY <2>3, <3>1, <1>1
    <3>3. \A l \in resp.list : l.id <= j
      BY <2>2, <1>1 DEF IdsUpTo
    <3> QED BY <3>1, <3>2, <3>3
  <2>5. ASSUME NEW p \in Node
        PROVE  /\ \A x \in accepted'[p] : x.id <= j
               /\ \A i \in backlog'[p] : i.id <= j
               /\ \A r \in response'[p] :
                    /\ r.id <= j /\ r.assigned <= j
                    /\ \A l \in r.list : l.id <= j
    <3>1. \A x \in accepted'[p] : x \in accepted[p] \/ x = new
      BY <1>6
    <3>2. \A r \in response'[p] : r \in response[p] \/ r = resp
      BY <1>6
    <3>3. \A i \in backlog'[p] : i \in backlog[p]
      BY <1>6
    <3>4. \A x \in accepted'[p] : x.id <= j
      BY <3>1, <2>2, <2>3, <1>4 DEF IdsUpTo
    <3>5. \A r \in response'[p] :
            /\ r.id <= j /\ r.assigned <= j
            /\ \A l \in r.list : l.id <= j
      BY <3>2, <2>2, <2>4 DEF IdsUpTo
    <3> QED BY <3>3, <3>4, <3>5, <2>2 DEF IdsUpTo
  <2>6. \A p \in Node : my_id'[p] <= j /\ \A peer \in peers'[p] : peer.id <= j
    BY <1>6, <2>2 DEF IdsUpTo
  <2> QED BY <2>2, <2>5, <2>6 DEF IdsSmall, IdsUpTo
<1> QED BY <1>15, <1>16, <1>17, <1>18, <1>19, <1>20, <1>21, <1>22, <1>23, <1>24,
           <1>25, <1>26 DEF GroupInv

LEMMA AcceptAddKeeps ==
  ASSUME GroupInv, NEW n \in Node, AcceptAdd(n)
  PROVE  GroupInv'
<1>1. PICK new \in accepted[n] :
        IF new.id \in IdsKnown(n)
        THEN pc' = [pc EXCEPT ![n] = "aborted"] /\ UNCHANGED peers
        ELSE /\ peers' = [peers EXCEPT ![n] = @ \cup
                  {[id |-> new.id, node |-> new.node, connected |-> TRUE]}]
             /\ UNCHANGED pc
  BY DEF AcceptAdd
<1> DEFINE met == [id |-> new.id, node |-> new.node, connected |-> TRUE]
<1>2. /\ GroupTypes /\ OneJoiner /\ JoinState /\ InitsAwaited /\ AnswerApart
      /\ AnswerComplete /\ JoinerConnects /\ HeardStarted /\ OwnIdApart
      /\ MembersConnected /\ OneFirstInit /\ IdsSmall
  BY DEF GroupInv
<1>3. /\ accepted' = [accepted EXCEPT ![n] = {}] /\ Up(n)
      /\ UNCHANGED <<my_id, backlog, response, target>>
  BY DEF AcceptAdd
<1>4. /\ new \in Named /\ new.id \in Nat /\ new.node \in Node
      /\ new = [id |-> new.id, node |-> new.node]
      /\ accepted[n] = {new}
  BY <1>2 DEF GroupTypes, Named
<1>5. /\ met \in [id : Nat, node : Node, connected : BOOLEAN]
      /\ met.id = new.id /\ met.node = new.node /\ met.connected = TRUE
      /\ met = [id |-> new.id, node |-> new.node, connected |-> TRUE]
  BY <1>4
<1>6. pc[n] = "joined" /\ my_id[n] # 0
  BY <1>2, <1>3, <1>4 DEF JoinState, Settling, Up
<1>7. \/ pc' = [pc EXCEPT ![n] = "aborted"] /\ peers' = peers
      \/ pc' = pc /\ peers' = [peers EXCEPT ![n] = @ \cup {met}]
  BY <1>1
<1> HIDE DEF met
<1>8. /\ \A p \in Node : accepted'[p] = IF p = n THEN {} ELSE accepted[p]
      /\ \A p \in Node : p # n => pc'[p] = pc[p] /\ peers'[p] = peers[p]
      /\ \/ pc'[n] = "aborted" /\ peers'[n] = peers[n]
         \/ pc'[n] = pc[n] /\ peers'[n] = peers[n] \cup {met}
      /\ my_id' = my_id /\ backlog' = backlog /\ response' = response
      /\ target' = target
  BY <1>2, <1>3, <1>7 DEF GroupTypes
<1>9. \A p \in Node :
        /\ Joining(p)' <=> Joining(p)
        /\ Newcomer(p)' <=> Newcomer(p)
        /\ Settling(p)' <=> Settling(p)
        /\ Up(p)' => Up(p)
        /\ pc'[p] = "joined" => pc[p] = "joined"
        /\ pc'[p] = "off" <=> pc[p] = "off"
        /\ pc'[p] = "reading" <=> pc[p] = "reading"
        /\ pc'[p] = "down" <=> pc[p] = "down"
  BY <1>6, <1>8 DEF Joining, Newcomer, Settling, Up
<1>10. \A p, q \in Node, id \in Nat :
         pc'[p] = "joined" /\ Reached(p, q, id) => Reached(p, q, id)'
  <2>1. ASSUME NEW p \in Node, NEW q \in Node, NEW id \in Nat,
               pc'[p] = "joined", Reached(p, q, id)
        PROVE  Reached(p, q, id)'
    <3>1. CASE p # n
      BY <2>1, <3>1, <1>8 DEF Reached, AcceptedAs, KnownAs
    <3>2. CASE p = n
      <4>1. peers'[n] = peers[n] \cup {met}
        BY <2>1, <3>2, <1>8
      <4>2. CASE [id |-> id, node |-> q] \in accepted[n]
        <5>1. new.id = id /\ new.node = q
          BY <4>2, <1>4
        <5>2. met = [id |-> id, node |-> q, connected |-> TRUE]
          BY <5>1, <1>5
        <5> QED BY <5>2, <4>1, <3>2 DEF Reached, KnownAs
      <4>3. CASE [id |-> id, node |-> q, connected |-> TRUE] \in peers[n]
        BY <4>1, <4>3, <3>2 DEF Reached, KnownAs
      <4> QED BY <2>1, <3>2, <4>2, <4>3 DEF Reached, KnownAs, AcceptedAs
    <3> QED BY <3>1, <3>2
  <2> QED BY <2>1
<1>11. GroupTypes'
  <2>1. peers' \in [Node -> SUBSET [id : Nat, node : Node, connected : BOOLEAN]]
    <3>1. peers[n] \cup {met} \in SUBSET [id : Nat, node : Node, connected : BOOLEAN]
      BY <1>2, <1>5 DEF GroupTypes
    <3> QED BY <3>1, <1>2, <1>7 DEF GroupTypes
  <2>2. pc' \in [Node -> PC]
    BY <1>2, <1>7 DEF GroupTypes, PC
  <2>3. accepted' \in [Node -> SUBSET Named]
    BY <1>2, <1>3 DEF GroupTypes
  <2> QED BY <2>1, <2>2, <2>3, <1>2, <1>8 DEF GroupTypes
<1>12. OneJoiner'
  BY <1>2, <1>9 DEF OneJoiner
<1>13. JoinState'
  <2>1. pc'[Founder] # "off"
    BY <1>2, <1>9, FounderAssumption DEF JoinState
  <2>2. ASSUME NEW p \in Node
        PROVE  /\ ~ Settling(p)' => backlog'[p] = {} /\ accepted'[p] = {}
               /\ pc'[p] = "off" => peers'[p] = {}
               /\ my_id'[p] = 0 =>
                    pc'[p] = "down" \/ (pc'[p] = "reading" /\ peers'[p] = {})
               /\ response'[p] # {} => pc'[p] \in {"reading", "aborted", "down"}
    <3>1. CASE p = n
      BY <3>1, <1>2, <1>6, <1>8 DEF JoinState, Settling
    <3>2. CASE p # n
      <4>1. pc'[p] = pc[p] /\ peers'[p] = peers[p] /\ accepted'[p] = accepted[p]
        BY <3>2, <1>8
      <4> QED BY <4>1, <1>2, <1>8 DEF JoinState, Settling
    <3> QED BY <3>1, <3>2
  <2> QED BY <2>1, <2>2 DEF JoinState, Settling
<1>14. InitsAwaited'
  BY <1>2, <1>8, <1>9 DEF InitsAwaited, GroupTypes, InitMessage
<1>15. HeardStarted'
  <2>1. ASSUME NEW p \in Node, NEW q \in Node, HeardOf(p, q)'
        PROVE  HeardOf(p, q)
    <3>1. \A x \in accepted'[p] : x \in accepted[p]
      BY <1>8
    <3>2. \A x \in peers'[p] : x \in peers[p] \/ (x = met /\ p = n)
      BY <1>8
    <3> QED BY <2>1, <3>1, <3>2, <1>4, <1>5 DEF HeardOf
  <2> QED BY <2>1, <1>2, <1>8, <1>9 DEF HeardStarted
<1>16. OwnIdApart'
  <2>1. ASSUME NEW p \in Node, Up(p)
        PROVE  /\ \A peer \in peers'[p] : peer.id # my_id[p]
               /\ \A x \in accepted'[p] : x.id # my_id[p]
               /\ \A i \in backlog[p] : i.id # my_id[p]
    <3>1. /\ \A peer \in peers[p] : peer.id # my_id[p]
          /\ \A x \in accepted[p] : x.id # my_id[p]
          /\ \A i \in backlog[p] : i.id # my_id[p]
      BY <2>1, <1>2 DEF OwnIdApart
    <3>2. \A x \in accepted'[p] : x \in accepted[p]
      BY <1>8
    <3>3. \A x \in peers'[p] : x \in peers[p] \/ (x = met /\ p = n)
      BY <1>8
    <3>4. p = n => met.id # my_id[p]
      BY <3>1, <1>5
    <3> QED BY <3>1, <3>2, <3>3, <3>4
  <2> QED BY <2>1, <1>8, <1>9 DEF OwnIdApart
<1>17. AnswerApart'
  <2>1. ASSUME NEW p \in Node, pc[p] = "reading", NEW r \in response[p]
        PROVE  /\ r.id # 0 /\ r.id # my_id[p]
               /\ r.from = target[p] /\ Settling(r.from)'
    <3>1. r.from \in Node
      BY <1>2 DEF GroupTypes, Response
    <3> QED BY <2>1, <3>1, <1>2, <1>9 DEF AnswerApart
  <2> QED BY <2>1, <1>8, <1>9 DEF AnswerApart
<1>18. AnswerComplete'
  <2>1. ASSUME NEW p \in Node, Newcomer(p), NEW r \in response[p]
        PROVE  /\ r.assigned # 0 /\ r.assigned # r.id
               /\ \A l \in r.list :
                    l.id # r.id /\ l.id # r.assigned /\ Settling(l.node)'
               /\ \A m \in Node : pc'[m] = "joined" =>
                    /\ my_id[m] # r.assigned
                    /\ \/ m = r.from /\ my_id[m] = r.id
                       \/ [id |-> my_id[m], node |-> m] \in r.list
               /\ pc'[r.from] = "joined" => Reached(r.from, p, r.assigned)'
    <3>1. /\ r.from \in Node /\ r.assigned \in Nat
          /\ \A l \in r.list : l.node \in Node
      BY <1>2 DEF GroupTypes, Response, Named
    <3>2. /\ r.assigned # 0 /\ r.assigned # r.id
          /\ \A l \in r.list :
               l.id # r.id /\ l.id # r.assigned /\ Settling(l.node)
          /\ \A m \in Node : pc[m] = "joined" =>
               /\ my_id[m] # r.assigned
               /\ \/ m = r.from /\ my_id[m] = r.id
                  \/ [id |-> my_id[m], node |-> m] \in r.list
          /\ pc[r.from] = "joined" => Reached(r.from, p, r.assigned)
      BY <2>1, <1>2 DEF AnswerComplete
    <3>3. pc'[r.from] = "joined" => Reached(r.from, p, r.assigned)'
      BY <3>1, <3>2, <1>9, <1>10
    <3> QED BY <3>1, <3>2, <3>3, <1>9
  <2> QED BY <2>1, <1>8, <1>9 DEF AnswerComplete
<1>19. JoinerConnects'
  <2>1. ASSUME NEW p \in Node, Joining(p)
        PROVE  /\ \A peer \in peers[p] : peer.connected \/ Settling(peer.node)'
               /\ my_id[p] # 0 =>
                    \A m \in Node : pc'[m] = "joined" =>
                      /\ my_id[m] # my_id[p]
                      /\ \E peer \in peers[p] :
                           /\ peer.node = m /\ peer.id = my_id[m]
                           /\ peer.connected =>
                                \/ Reached(m, p, my_id[p])'
                                \/ \E i \in backlog[m] : i.from = p
    <3>1. \A peer \in peers[p] : peer.node \in Node
      BY <1>2 DEF GroupTypes
    <3>2. \A peer \in peers[p] : peer.connected \/ Settling(peer.node)'
      BY <2>1, <3>1, <1>2, <1>9 DEF JoinerConnects
    <3>3. ASSUME my_id[p] # 0, NEW m \in Node, pc'[m] = "joined"
          PROVE  /\ my_id[m] # my_id[p]
                 /\ \E peer \in peers[p] :
                      /\ peer.node = m /\ peer.id = my_id[m]
                      /\ peer.connected =>
                           \/ Reached(m, p, my_id[p])'
                           \/ \E i \in backlog[m] : i.from = p
      <4>1. pc[m] = "joined"
        BY <3>3, <1>9
      <4>2. PICK k \in Nat : k = my_id[p]
        BY <1>2 DEF GroupTypes
      <4>3. Reached(m, p, k) => Reached(m, p, k)'
        BY <3>3, <1>10
      <4>4. Reached(m, p, k)' => Reached(m, p, my_id[p])'
        BY <4>2, <1>8 DEF Reached, AcceptedAs, KnownAs
      <4> QED BY <2>1, <3>3, <4>1, <4>2, <4>3, <4>4, <1>2 DEF JoinerConnects
    <3> QED BY <3>2, <3>3
  <2>2. \A p \in Node : Joining(p) => peers'[p] = peers[p]
    BY <1>6, <1>8 DEF Joining
  <2> QED BY <2>1, <2>2, <1>8, <1>9 DEF JoinerConnects
<1>20. MembersConnected'
  <2>1. ASSUME NEW p \in Node, NEW m \in Node, p # m,
               pc'[p] = "joined", pc'[m] = "joined"
        PROVE  my_id[p] # my_id[m] /\ Reached(m, p, my_id[p])'
    <3>1. my_id[p] # my_id[m] /\ Reached(m, p, my_id[p])
      BY <2>1, <1>2, <1>9 DEF MembersConnected
    <3>2. PICK k \in Nat : k = my_id[p]
      BY <1>2 DEF GroupTypes
    <3>3. Reached(m, p, k)'
      BY <2>1, <3>1, <3>2, <1>10
    <3>4. Reached(m, p, k)' => Reached(m, p, my_id[p])'
      BY <3>2, <1>8 DEF Reached, AcceptedAs, KnownAs
    <3> QED BY <3>1, <3>3, <3>4
  <2> QED BY <2>1, <1>8 DEF MembersConnected
<1>21. OneFirstInit'
  BY <1>2, <1>8 DEF OneFirstInit
<1>22. IdsSmall'
  <2>1. Served \subseteq Served'
    BY <1>8, <1>9 DEF Served, Waiting
  <2>2. PICK j \in Nat : j = Cardinality(Served') /\ IdsUpTo(j)
    BY <2>1, <1>2, BoundKept
  <2>3. ASSUME NEW p \in Node
        PROVE  /\ \A x \in accepted'[p] : x.id <= j
               /\ \A peer \in peers'[p] : peer.id <= j
    <3>1. \A x \in accepted'[p] : x \in accepted[p]
      BY <1>8
    <3>2. \A x \in peers'[p] : x \in peers[p] \/ x = met
      BY <1>8
    <3>3. met.id <= j
      BY <2>2, <1>5 DEF IdsUpTo
    <3> QED BY <3>1, <3>2, <3>3, <2>2 DEF IdsUpTo
  <2> QED BY <2>2, <2>3, <1>8 DEF IdsSmall, IdsUpTo
<1> QED BY <1>11, <1>12, <1>13, <1>14, <1>15, <1>16, <1>17, <1>18, <1>19, <1>20,
           <1>21, <1>22 DEF GroupInv

\* Only a node that is connected to somebody loses an answer, so no newcomer does.
LEMMA ListenerTakesResponseKeeps ==
  ASSUME GroupInv, NEW n \in Node, ListenerTakesResponse(n)
  PROVE  GroupInv'
<1>1. /\ GroupTypes /\ OneJoiner /\ JoinState /\ InitsAwaited /\ AnswerApart
      /\ AnswerComplete /\ JoinerConnects /\ HeardStarted /\ OwnIdApart
      /\ MembersConnected /\ OneFirstInit /\ IdsSmall
  BY DEF GroupInv
<1>2. /\ response' = [response EXCEPT ![n] = {}]
      /\ UNCHANGED <<my_id, peers, backlog, accepted, target>>
      /\ pc[n] = "reading" /\ response[n] # {} /\ peers[n] # {}
  BY DEF ListenerTakesResponse
<1> PICK left \in {"robbed", "garbled"} : pc' = [pc EXCEPT ![n] = left]
  BY DEF ListenerTakesResponse
<1>3. my_id[n] # 0
  BY <1>1, <1>2 DEF JoinState
<1>4. /\ \A p \in Node : /\ response'[p] = IF p = n THEN {} ELSE response[p]
                         /\ pc'[p] = IF p = n THEN left ELSE pc[p]
      /\ my_id' = my_id /\ peers' = peers /\ backlog' = backlog
      /\ accepted' = accepted /\ target' = target
  BY <1>1, <1>2 DEF GroupTypes
<1>5. \A p \in Node :
        /\ Joining(p)' <=> Joining(p)
        /\ Newcomer(p)' <=> Newcomer(p)
        /\ Newcomer(p) => p # n
        /\ Settling(p)' <=> Settling(p)
        /\ Up(p)' <=> Up(p)
        /\ pc'[p] = "joined" <=> pc[p] = "joined"
        /\ pc'[p] = "off" <=> pc[p] = "off"
        /\ pc'[p] = "reading" => pc[p] = "reading" /\ p # n
        /\ pc'[p] = "down" <=> pc[p] = "down"
  BY <1>2, <1>3, <1>4 DEF Joining, Newcomer, Settling, Up
<1>6. \A p, q \in Node : \A id : Reached(p, q, id)' <=> Reached(p, q, id)
  BY <1>4 DEF Reached, AcceptedAs, KnownAs
<1>7. GroupTypes'
  BY <1>1, <1>2 DEF GroupTypes, PC
<1>8. OneJoiner'
  BY <1>1, <1>5 DEF OneJoiner
<1>9. JoinState'
  BY <1>1, <1>2, <1>3, <1>4, FounderAssumption DEF JoinState, Settling
<1>10. InitsAwaited'
  <2>1. \A p \in Node : \A i \in backlog[p] : i.from # n
    BY <1>1, <1>2 DEF InitsAwaited
  <2> QED BY <2>1, <1>1, <1>4 DEF InitsAwaited, GroupTypes, InitMessage
<1>11. HeardStarted'
  BY <1>1, <1>4, <1>5 DEF HeardStarted, HeardOf
<1>12. OwnIdApart'
  BY <1>1, <1>4, <1>5 DEF OwnIdApart
<1>13. AnswerApart'
  BY <1>1, <1>4, <1>5 DEF AnswerApart, GroupTypes, Response
<1>14. AnswerComplete'
  <2>1. \A p \in Node : \A r \in response[p] :
          r.from \in Node /\ \A l \in r.list : l.node \in Node
    BY <1>1 DEF GroupTypes, Response, Named
  <2> QED BY <2>1, <1>1, <1>4, <1>5, <1>6 DEF AnswerComplete
<1>15. JoinerConnects'
  <2>1. \A p \in Node : \A peer \in peers[p] : peer.node \in Node
    BY <1>1 DEF GroupTypes
  <2> QED BY <2>1, <1>1, <1>4, <1>5 DEF JoinerConnects, Reached, AcceptedAs, KnownAs
<1>16. MembersConnected'
  BY <1>1, <1>4, <1>5 DEF MembersConnected, Reached, AcceptedAs, KnownAs
<1>17. OneFirstInit'
  BY <1>1, <1>4 DEF OneFirstInit
<1>18. IdsSmall'
  <2>1. Served \subseteq Served'
    BY <1>4, <1>5 DEF Served, Waiting
  <2>2. PICK j \in Nat : j = Cardinality(Served') /\ IdsUpTo(j)
    BY <2>1, <1>1, BoundKept
  <2> QED BY <2>2, <1>4 DEF IdsSmall, IdsUpTo
<1> QED BY <1>7, <1>8, <1>9, <1>10, <1>11, <1>12, <1>13, <1>14, <1>15, <1>16,
           <1>17, <1>18 DEF GroupInv

LEMMA LoseKeeps ==
  ASSUME GroupInv, NEW n \in Node, Lose(n)
  PROVE  GroupInv'
<1>1. /\ GroupTypes /\ OneJoiner /\ JoinState /\ InitsAwaited /\ AnswerApart
      /\ AnswerComplete /\ JoinerConnects /\ HeardStarted /\ OwnIdApart
      /\ MembersConnected /\ OneFirstInit /\ IdsSmall
  BY DEF GroupInv
<1>2. /\ \A p \in Node : p # n =>
           /\ pc'[p] = pc[p] /\ my_id'[p] = my_id[p] /\ peers'[p] = peers[p]
           /\ backlog'[p] = backlog[p] /\ accepted'[p] = accepted[p]
           /\ response'[p] = response[p] /\ target'[p] = target[p]
      /\ pc'[n] = "down" /\ my_id'[n] = 0 /\ peers'[n] = {} /\ backlog'[n] = {}
      /\ accepted'[n] = {} /\ response'[n] = {} /\ target'[n] = n
  BY <1>1 DEF GroupTypes, Lose
<1>3. \A p \in Node :
        /\ Joining(p)' => Joining(p) /\ p # n
        /\ Newcomer(p)' => Newcomer(p) /\ p # n
        /\ Settling(p) => Settling(p)'
        /\ Up(p)' => Up(p) /\ p # n
        /\ pc'[p] = "joined" => pc[p] = "joined" /\ p # n
        /\ pc'[p] = "off" => pc[p] = "off" /\ p # n
        /\ pc'[p] = "reading" => pc[p] = "reading" /\ p # n
        /\ pc[p] = "down" => pc'[p] = "down"
  BY <1>2 DEF Joining, Newcomer, Settling, Up
<1>4. \A p, q \in Node : \A id : p # n /\ Reached(p, q, id) => Reached(p, q, id)'
  BY <1>2 DEF Reached, AcceptedAs, KnownAs
<1>5. GroupTypes'
  BY <1>1 DEF GroupTypes, PC, Lose
<1>6. OneJoiner'
  BY <1>1, <1>3 DEF OneJoiner
<1>7. JoinState'
  BY <1>1, <1>2, FounderAssumption DEF JoinState, Settling
<1>8. InitsAwaited'
  <2>1. ASSUME NEW m \in Node, NEW i \in backlog'[m]
        PROVE  \/ pc'[i.from] = "down"
               \/ /\ pc'[i.from] = "reading" /\ target'[i.from] = m
                  /\ i.id = my_id'[i.from] /\ response'[i.from] = {}
    <3>1. i \in backlog[m]
      BY <1>2
    <3>2. i.from \in Node
      BY <3>1, <1>1 DEF GroupTypes, InitMessage
    <3> QED BY <3>1, <3>2, <1>1, <1>2 DEF InitsAwaited
  <2> QED BY <2>1 DEF InitsAwaited
<1>9. HeardStarted'
  <2>1. ASSUME NEW p \in Node, NEW q \in Node, HeardOf(p, q)'
        PROVE  HeardOf(p, q)
    BY <2>1, <1>2 DEF HeardOf
  <2> QED BY <2>1, <1>1, <1>2, <1>3 DEF HeardStarted
<1>10. OwnIdApart'
  BY <1>1, <1>2, <1>3 DEF OwnIdApart
<1>11. AnswerApart'
  BY <1>1, <1>2, <1>3 DEF AnswerApart, GroupTypes, Response
<1>12. AnswerComplete'
  <2>1. ASSUME NEW p \in Node, Newcomer(p)', NEW r \in response'[p]
        PROVE  /\ r.assigned # 0 /\ r.assigned # r.id
               /\ \A l \in r.list :
                    l.id # r.id /\ l.id # r.assigned /\ Settling(l.node)'
               /\ \A m \in Node : pc'[m] = "joined" =>
                    /\ my_id'[m] # r.assigned
                    /\ \/ m = r.from /\ my_id'[m] = r.id
                       \/ [id |-> my_id'[m], node |-> m] \in r.list
               /\ pc'[r.from] = "joined" => Reached(r.from, p, r.assigned)'
    <3>1. Newcomer(p) /\ p # n /\ r \in response[p]
      BY <2>1, <1>2, <1>3
    <3>2. /\ r.from \in Node /\ r.assigned \in Nat
          /\ \A l \in r.list : l.node \in Node
      BY <3>1, <1>1 DEF GroupTypes, Response, Named
    <3>3. /\ r.assigned # 0 /\ r.assigned # r.id
          /\ \A l \in r.list :
               l.id # r.id /\ l.id # r.assigned /\ Settling(l.node)
          /\ \A m \in Node : pc[m] = "joined" =>
               /\ my_id[m] # r.assigned
               /\ \/ m = r.from /\ my_id[m] = r.id
                  \/ [id |-> my_id[m], node |-> m] \in r.list
          /\ pc[r.from] = "joined" => Reached(r.from, p, r.assigned)
      BY <3>1, <1>1 DEF AnswerComplete
    <3> QED BY <3>2, <3>3, <1>2, <1>3, <1>4
  <2> QED BY <2>1 DEF AnswerComplete
<1>13. JoinerConnects'
  <2>1. ASSUME NEW p \in Node, Joining(p)'
        PROVE  /\ \A peer \in peers'[p] : peer.connected \/ Settling(peer.node)'
               /\ my_id'[p] # 0 =>
                    \A m \in Node : pc'[m] = "joined" =>
                      /\ my_id'[m] # my_id'[p]
                      /\ \E peer \in peers'[p] :
                           /\ peer.node = m /\ peer.id = my_id'[m]
                           /\ peer.connected =>
                                \/ Reached(m, p, my_id[p])'
                                \/ \E i \in backlog'[m] : i.from = p
    <3>1. Joining(p) /\ p # n /\ \A peer \in peers[p] : peer.node \in Node
      BY <2>1, <1>1, <1>3 DEF GroupTypes
    <3>2. \A peer \in peers'[p] : peer.connected \/ Settling(peer.node)'
      BY <3>1, <1>1, <1>2, <1>3 DEF JoinerConnects
    <3>3. ASSUME my_id[p] # 0, NEW m \in Node, pc'[m] = "joined"
          PROVE  /\ my_id[m] # my_id[p]
                 /\ \E peer \in peers[p] :
                      /\ peer.node = m /\ peer.id = my_id[m]
                      /\ peer.connected =>
                           \/ Reached(m, p, my_id[p])'
                           \/ \E i \in backlog[m] : i.from = p
      <4>1. pc[m] = "joined" /\ m # n
        BY <3>3, <1>3
      <4>2. Reached(m, p, my_id[p]) => Reached(m, p, my_id[p])'
        BY <3>1, <4>1, <1>2 DEF Reached, AcceptedAs, KnownAs
      <4> QED BY <3>1, <3>3, <4>1, <4>2, <1>1 DEF JoinerConnects
    <3>4. ASSUME my_id'[p] # 0, NEW m \in Node, pc'[m] = "joined"
          PROVE  /\ my_id'[m] # my_id'[p]
                 /\ \E peer \in peers'[p] :
                      /\ peer.node = m /\ peer.id = my_id'[m]
                      /\ peer.connected =>
                           \/ Reached(m, p, my_id[p])'
                           \/ \E i \in backlog'[m] : i.from = p
      BY <3>1, <3>3, <3>4, <1>2, <1>3
    <3> QED BY <3>2, <3>4
  <2> QED BY <2>1 DEF JoinerConnects
<1>14. MembersConnected'
  <2>1. ASSUME NEW p \in Node, NEW m \in Node, p # m,
               pc'[p] = "joined", pc'[m] = "joined"
        PROVE  my_id'[p] # my_id'[m] /\ Reached(m, p, my_id[p])'
    <3>1. pc[p] = "joined" /\ pc[m] = "joined" /\ p # n /\ m # n
      BY <2>1, <1>3
    <3>2. my_id[p] # my_id[m] /\ Reached(m, p, my_id[p])
      BY <2>1, <3>1, <1>1 DEF MembersConnected
    <3> QED BY <3>1, <3>2, <1>2 DEF Reached, AcceptedAs, KnownAs
  <2> QED BY <2>1 DEF MembersConnected
<1>15. OneFirstInit'
  <2>1. \A p \in Node : \A i \in backlog'[p] : i \in backlog[p]
    BY <1>2
  <2> QED BY <2>1, <1>1 DEF OneFirstInit
<1>16. IdsSmall'
  <2>1. \A p \in Node : \A i \in backlog'[p] : i \in backlog[p]
    BY <1>2
  <2>2. Served \subseteq Served'
    BY <2>1, <1>3 DEF Served, Waiting
  <2>3. PICK j \in Nat : j = Cardinality(Served') /\ IdsUpTo(j)
    BY <2>2, <1>1, BoundKept
  <2>4. IdsUpTo(j)'
    <3>1. ASSUME NEW p \in Node
          PROVE  /\ my_id'[p] <= j
                 /\ \A peer \in peers'[p] : peer.id <= j
                 /\ \A new \in accepted'[p] : new.id <= j
                 /\ \A init \in backlog'[p] : init.id <= j
                 /\ \A resp \in response'[p] :
                      /\ resp.id <= j /\ resp.assigned <= j
                      /\ \A l \in resp.list : l.id <= j
      <4>1. CASE p = n
        BY <4>1, <1>2, <2>3
      <4>2. CASE p # n
        BY <4>2, <1>2, <2>3 DEF IdsUpTo
      <4> QED BY <4>1, <4>2
    <3> QED BY <3>1 DEF IdsUpTo
  <2> QED BY <2>3, <2>4 DEF IdsSmall
<1> QED BY <1>5, <1>6, <1>7, <1>8, <1>9, <1>10, <1>11, <1>12, <1>13, <1>14,
           <1>15, <1>16 DEF GroupInv

LEMMA DropKeeps ==
  ASSUME GroupInv, NEW n \in Node, NEW init \in backlog[n], Drop(n, init)
  PROVE  GroupInv'
<1>1. /\ GroupTypes /\ OneJoiner /\ JoinState /\ InitsAwaited /\ AnswerApart
      /\ AnswerComplete /\ JoinerConnects /\ HeardStarted /\ OwnIdApart
      /\ MembersConnected /\ OneFirstInit /\ IdsSmall
  BY DEF GroupInv
<1>2. /\ backlog' = [backlog EXCEPT ![n] = @ \ {init}]
      /\ UNCHANGED <<my_id, peers, accepted, response, target, pc>>
      /\ pc[init.from] = "down"
  BY DEF Drop
<1>3. \A p \in Node :
        /\ \A i \in backlog'[p] : i \in backlog[p]
        /\ \A i \in backlog[p] : i \in backlog'[p] \/ i = init
  BY <1>1, <1>2 DEF GroupTypes
<1>4. GroupTypes'
  BY <1>1, <1>2 DEF GroupTypes
<1>5. OneJoiner' /\ HeardStarted' /\ AnswerApart' /\ MembersConnected'
  BY <1>1, <1>2 DEF OneJoiner, Joining, HeardStarted, HeardOf, Newcomer,
     AnswerApart, Settling, MembersConnected, Reached, AcceptedAs, KnownAs
<1>6. JoinState'
  BY <1>1, <1>2, <1>3 DEF JoinState, Settling
<1>7. InitsAwaited' /\ OneFirstInit'
  BY <1>1, <1>2, <1>3 DEF InitsAwaited, OneFirstInit
<1>8. OwnIdApart'
  BY <1>1, <1>2, <1>3 DEF OwnIdApart, Up
<1>9. AnswerComplete'
  BY <1>1, <1>2 DEF AnswerComplete, Newcomer, Joining, Settling, Reached,
     AcceptedAs, KnownAs
<1>10. JoinerConnects'
  <2>1. ASSUME NEW p \in Node, Joining(p)
        PROVE  /\ \A peer \in peers[p] : peer.connected \/ Settling(peer.node)
               /\ my_id[p] # 0 =>
                    \A m \in Node : pc[m] = "joined" =>
                      /\ my_id[m] # my_id[p]
                      /\ \E peer \in peers[p] :
                           /\ peer.node = m /\ peer.id = my_id[m]
                           /\ peer.connected =>
                                \/ Reached(m, p, my_id[p])
                                \/ \E i \in backlog'[m] : i.from = p
    <3>1. init.from # p
      BY <2>1, <1>2 DEF Joining
    <3>2. \A m \in Node : \A i \in backlog[m] : i.from = p => i \in backlog'[m]
      BY <3>1, <1>3
    <3> QED BY <2>1, <3>2, <1>1 DEF JoinerConnects
  <2> QED BY <2>1, <1>2 DEF JoinerConnects, Joining, Settling, Reached,
          AcceptedAs, KnownAs
<1>11. IdsSmall'
  <2>1. Served \subseteq Served'
    BY <1>2, <1>3 DEF Served, Waiting
  <2>2. PICK j \in Nat : j = Cardinality(Served') /\ IdsUpTo(j)
    BY <2>1, <1>1, BoundKept
  <2> QED BY <2>2, <1>2, <1>3 DEF IdsSmall, IdsUpTo
<1> QED BY <1>4, <1>5, <1>6, <1>7, <1>8, <1>9, <1>10, <1>11 DEF GroupInv

LEMMA InitGroupInv == Init => GroupInv
<1> SUFFICES ASSUME Init PROVE GroupInv
  OBVIOUS
<1>1. \A n \in Node :
        /\ my_id[n] = 1 /\ peers[n] = {} /\ backlog[n] = {} /\ accepted[n] = {}
        /\ response[n] = {} /\ target[n] = n
        /\ pc[n] = IF n = Founder THEN "joined" ELSE "off"
  BY DEF Init
<1>2. GroupTypes
  BY <1>1 DEF Init, GroupTypes, PC
<1>3. \A n \in Node : ~ Joining(n) /\ (pc[n] = "joined" => n = Founder)
  BY <1>1 DEF Joining
<1>4. /\ OneJoiner /\ JoinState /\ InitsAwaited /\ HeardStarted /\ OwnIdApart
      /\ AnswerApart /\ AnswerComplete /\ JoinerConnects /\ MembersConnected
      /\ OneFirstInit
  BY <1>1, <1>3, FounderAssumption DEF OneJoiner, JoinState, InitsAwaited,
     HeardStarted, HeardOf, OwnIdApart, AnswerApart, AnswerComplete,
     JoinerConnects, MembersConnected, OneFirstInit, Newcomer
<1>5. IdsSmall
  <2>1. Served = {Founder}
    BY <1>1, FounderAssumption DEF Served, Waiting
  <2>2. Cardinality(Served) = 1
    BY <2>1, FS_Singleton
  <2> QED BY <2>2, <1>1 DEF IdsSmall, IdsUpTo
<1> QED BY <1>2, <1>4, <1>5 DEF GroupInv

LEMMA LossNextKeeps ==
  ASSUME MaxJoining = 1, GroupInv, [LossNext]_vars
  PROVE  GroupInv'
<1>1. CASE UNCHANGED vars
  <2>1. GroupTypes' /\ OneJoiner' /\ JoinState' /\ InitsAwaited' /\ HeardStarted'
    BY <1>1 DEF vars, GroupInv, GroupTypes, OneJoiner, JoinState, InitsAwaited,
       HeardStarted, HeardOf, Joining, Newcomer, Settling
  <2>2. OwnIdApart' /\ AnswerApart' /\ OneFirstInit'
    BY <1>1 DEF vars, GroupInv, OwnIdApart, AnswerApart, OneFirstInit, Up, Settling
  <2>3. AnswerComplete' /\ JoinerConnects' /\ MembersConnected'
    BY <1>1 DEF vars, GroupInv, AnswerComplete, JoinerConnects, MembersConnected,
       Joining, Newcomer, Settling, Reached, AcceptedAs, KnownAs
  <2>4. IdsSmall'
    <3>1. Served' = Served
      BY <1>1 DEF vars, Served, Waiting
    <3>2. PICK j : j = Cardinality(Served) /\ IdsUpTo(j)
      BY DEF GroupInv, IdsSmall
    <3> QED BY <3>1, <3>2, <1>1 DEF vars, IdsSmall, IdsUpTo
  <2> QED BY <2>1, <2>2, <2>3, <2>4 DEF GroupInv
<1>2. CASE \E n, m \in Node : GroupJoin(n, m)
  BY <1>2, GroupJoinKeeps
<1>3. CASE \E n \in Node : ConnectToPeer(n)
  BY <1>3, ConnectToPeerKeeps
<1>4. CASE \E n \in Node : JoinReturn(n)
  BY <1>4, JoinReturnKeeps
<1>5. CASE \E n \in Node : ReadResponse(n)
  BY <1>5, ReadResponseKeeps
<1>6. CASE \E n \in Node : AcceptInit(n)
  BY <1>6, AcceptInitKeeps
<1>7. CASE \E n \in Node : AcceptAdd(n)
  BY <1>7, AcceptAddKeeps
<1>8. CASE \E n \in Node : ListenerTakesResponse(n)
  BY <1>8, ListenerTakesResponseKeeps
<1>9. CASE \E n \in Node : Lose(n)
  BY <1>9, LoseKeeps
<1>10. CASE \E n \in Node : \E init \in backlog[n] : Drop(n, init)
  BY <1>10, DropKeeps
<1> QED
  BY <1>1, <1>2, <1>3, <1>4, <1>5, <1>6, <1>7, <1>8, <1>9, <1>10
     DEF LossNext, Next, Main, Accept

----------------------------------------------------------------------------
(***************************************************************************)
(* As long as no process has ended, nobody is connected to twice           *)
(***************************************************************************)
LEMMA GroupJoinNobodyTwice ==
  ASSUME GroupInv, MaxJoining = 1, NobodyTwice,
         NEW n \in Node, NEW m \in Node, GroupJoin(n, m)
  PROVE  NobodyTwice'
<1>1. /\ GroupTypes /\ JoinState /\ HeardStarted
      /\ KnownRight /\ AnswerRight /\ InitNew /\ AcceptedNew /\ NotTold
      /\ NoneAborted
  BY DEF GroupInv, NobodyTwice
<1>2. \A p \in Node : ~ Joining(p)
  BY NobodyJoins DEF GroupInv, GroupJoin
<1> DEFINE msg == [from |-> n, id |-> 0]
<1>3. /\ pc[n] = "off" /\ peers[n] = {} /\ response[n] = {}
      /\ \A p \in Node :
           /\ my_id'[p] = IF p = n THEN 0 ELSE my_id[p]
           /\ pc'[p] = IF p = n THEN "reading" ELSE pc[p]
           /\ target'[p] = IF p = n THEN m ELSE target[p]
           /\ backlog'[p] = IF p = m THEN backlog[p] \cup {msg} ELSE backlog[p]
      /\ peers' = peers /\ accepted' = accepted /\ response' = response
  BY <1>1 DEF GroupJoin, Ask, GroupTypes, JoinState
<1>4. msg.from = n
  OBVIOUS
<1> HIDE DEF msg
<1>5. \A p \in Node : ~ HeardOf(p, n)
  BY <1>1, <1>3 DEF HeardStarted
<1>6. \A p, q \in Node : HeardOf(p, q)' <=> HeardOf(p, q)
  BY <1>3 DEF HeardOf
<1>7. KnownRight'
  <2>1. \A p, q \in Node : \A id : q # n /\ RightId(p, q, id) => RightId(p, q, id)'
    BY <1>3 DEF RightId
  <2>2. \A p \in Node : /\ \A peer \in peers[p] : peer.node \in Node /\ peer.node # n
                        /\ \A new \in accepted[p] : new.node \in Node /\ new.node # n
    BY <1>1, <1>5 DEF GroupTypes, HeardOf, Named
  <2>3. \A p \in Node :
          /\ \A peer \in peers[p] : RightId(p, peer.node, peer.id)
          /\ \A new \in accepted[p] : RightId(p, new.node, new.id)
    BY <1>1 DEF KnownRight
  <2>4. \A p \in Node :
          /\ \A peer \in peers[p] : RightId(p, peer.node, peer.id)'
          /\ \A new \in accepted[p] : RightId(p, new.node, new.id)'
    BY <2>1, <2>2, <2>3
  <2>5. \A p \in Node :
          /\ \A peer \in peers'[p] : RightId(p, peer.node, peer.id)'
          /\ \A new \in accepted'[p] : RightId(p, new.node, new.id)'
    BY <2>4, <1>3
  <2> QED BY <2>5 DEF KnownRight
<1>8. AnswerRight'
  <2>1. \A p \in Node : pc'[p] = "reading" => p = n
    BY <1>2, <1>3 DEF Joining
  <2> QED BY <2>1, <1>3 DEF AnswerRight
<1>9. InitNew'
  <2>1. ASSUME NEW p \in Node, NEW i \in backlog'[p]
        PROVE  ~ HeardOf(p, i.from)'
    <3>1. CASE i \in backlog[p]
      <4>1. ~ HeardOf(p, i.from) /\ i.from \in Node
        BY <3>1, <1>1 DEF InitNew, GroupTypes, InitMessage
      <4> QED BY <4>1, <1>6
    <3>2. CASE i = msg
      BY <3>2, <1>4, <1>5, <1>6
    <3> QED BY <2>1, <3>1, <3>2, <1>3
  <2> QED BY <2>1 DEF InitNew
<1>10. AcceptedNew' /\ NoneAborted'
  BY <1>1, <1>3 DEF AcceptedNew, NoneAborted
<1>11. NotTold'
  <2>1. \A p \in Node : Joining(p)' => p = n
    BY <1>2, <1>3 DEF Joining
  <2> QED BY <2>1, <1>3 DEF NotTold
<1> QED BY <1>7, <1>8, <1>9, <1>10, <1>11 DEF NobodyTwice

LEMMA ConnectToPeerNobodyTwice ==
  ASSUME GroupInv, NobodyTwice, NEW n \in Node, ConnectToPeer(n)
  PROVE  NobodyTwice'
<1>1. /\ GroupTypes /\ OneJoiner /\ JoinState /\ HeardStarted /\ JoinerConnects
      /\ KnownRight /\ AnswerRight /\ InitNew /\ AcceptedNew /\ NotTold
      /\ NoneAborted
  BY DEF GroupInv, NobodyTwice
<1>2. PICK peer \in peers[n] :
        /\ ~ peer.connected
        /\ Ask(n, peer.node, my_id[n])
        /\ peers' = [peers EXCEPT ![n] = (@ \ {peer}) \cup
             {[id |-> peer.id, node |-> peer.node, connected |-> TRUE]}]
  BY DEF ConnectToPeer
<1> DEFINE m == peer.node
           met == [id |-> peer.id, node |-> peer.node, connected |-> TRUE]
           msg == [from |-> n, id |-> my_id[n]]
<1>3. /\ peer \in [id : Nat, node : Node, connected : BOOLEAN] /\ m \in Node
      /\ met.id = peer.id /\ met.node = m /\ met.connected = TRUE
      /\ msg.from = n
  BY <1>1 DEF GroupTypes
<1>4. /\ pc[n] = "ready" /\ Up(m)
      /\ \A p \in Node :
           /\ pc'[p] = IF p = n THEN "reading" ELSE pc[p]
           /\ target'[p] = IF p = n THEN m ELSE target[p]
           /\ backlog'[p] = IF p = m THEN backlog[p] \cup {msg} ELSE backlog[p]
           /\ peers'[p] = IF p = n THEN (peers[p] \ {peer}) \cup {met}
                                   ELSE peers[p]
      /\ my_id' = my_id /\ accepted' = accepted /\ response' = response
  BY <1>1, <1>2, ZenonT(60) DEF ConnectToPeer, Ask, GroupTypes
<1> HIDE DEF met, msg
<1>5. /\ Joining(n) /\ my_id[n] # 0 /\ accepted[n] = {} /\ response[n] = {}
      /\ \A p \in Node : Joining(p) => p = n
  BY <1>1, <1>4 DEF JoinState, OneJoiner, Joining, Settling
<1>6. pc[m] = "joined" /\ my_id[m] # 0
  BY <1>1, <1>2, <1>3, <1>4, <1>5 DEF JoinerConnects, Settling, Up, JoinState
<1>7. /\ \A q \in peers'[n] : (q \in peers[n] /\ q # peer) \/ q = met
      /\ \A p, q \in Node : HeardOf(p, q)' => HeardOf(p, q)
  <2>1. peers'[n] = (peers[n] \ {peer}) \cup {met}
    BY <1>4
  <2>2. \A q \in peers'[n] : (q \in peers[n] /\ q # peer) \/ q = met
    BY <2>1
  <2>3. ASSUME NEW p \in Node, NEW q \in Node, HeardOf(p, q)'
        PROVE  HeardOf(p, q)
    <3>1. CASE p = n
      BY <2>2, <2>3, <3>1, <1>2, <1>3, <1>4 DEF HeardOf
    <3>2. CASE p # n
      BY <2>3, <3>2, <1>4 DEF HeardOf
    <3> QED BY <3>1, <3>2
  <2> QED BY <2>2, <2>3
<1>8. KnownRight'
  <2>1. \A p, q \in Node : \A id : RightId(p, q, id) => RightId(p, q, id)'
    BY <1>4, <1>5 DEF RightId
  <2>2. \A p \in Node : /\ \A q \in peers[p] : q.node \in Node
                        /\ \A new \in accepted[p] : new.node \in Node
    BY <1>1 DEF GroupTypes, Named
  <2>3. \A p \in Node :
          /\ \A q \in peers[p] : RightId(p, q.node, q.id)
          /\ \A new \in accepted[p] : RightId(p, new.node, new.id)
    BY <1>1 DEF KnownRight
  <2>4. \A p \in Node :
          /\ \A q \in peers[p] : RightId(p, q.node, q.id)'
          /\ \A new \in accepted[p] : RightId(p, new.node, new.id)'
    BY <2>1, <2>2, <2>3
  <2>5. RightId(n, met.node, met.id)'
    BY <2>4, <1>2, <1>3
  <2>6. \A p \in Node :
          /\ \A q \in peers'[p] : RightId(p, q.node, q.id)'
          /\ \A new \in accepted'[p] : RightId(p, new.node, new.id)'
    BY <2>4, <2>5, <1>4, <1>7
  <2> QED BY <2>6 DEF KnownRight
<1>9. AnswerRight'
  <2>1. ASSUME NEW p \in Node, pc'[p] = "reading"
        PROVE  p = n
    <3>1. CASE p = n
      BY <3>1
    <3>2. CASE p # n
      <4>1. pc[p] = "reading"
        BY <1>4, <2>1, <3>2
      <4>2. Joining(p)
        BY <4>1 DEF Joining
      <4> QED BY <1>5, <4>2
    <3> QED BY <3>1, <3>2
  <2> QED BY <2>1, <1>4, <1>5 DEF AnswerRight
<1>10. InitNew'
  <2>1. ~ HeardOf(m, n)
    BY <1>1, <1>2, <1>5 DEF NotTold
  <2>2. ASSUME NEW p \in Node, NEW i \in backlog'[p]
        PROVE  ~ HeardOf(p, i.from)'
    <3>1. CASE i \in backlog[p]
      <4>1. ~ HeardOf(p, i.from) /\ i.from \in Node
        BY <3>1, <1>1 DEF InitNew, GroupTypes, InitMessage
      <4> QED BY <4>1, <1>7
    <3>2. CASE i = msg /\ p = m
      BY <3>2, <2>1, <1>3, <1>7
    <3>3. i \in backlog[p] \/ (i = msg /\ p = m)
      <4>1. backlog'[p] = IF p = m THEN backlog[p] \cup {msg} ELSE backlog[p]
        BY <2>2, <1>4
      <4> QED BY <4>1, <2>2
    <3> QED BY <3>1, <3>2, <3>3
  <2> QED BY <2>2 DEF InitNew
<1>11. AcceptedNew' /\ NoneAborted'
  <2>1. \A p \in Node : \A new \in accepted'[p] :
          new \in accepted[p] /\ peers'[p] = peers[p]
    BY <1>4, <1>5
  <2>2. AcceptedNew'
    BY <2>1, <1>1 DEF AcceptedNew
  <2>3. NoneAborted'
    BY <1>1, <1>4 DEF NoneAborted
  <2> QED BY <2>2, <2>3
<1>12. NotTold'
  <2>1. ASSUME NEW q \in peers'[n], ~ q.connected
        PROVE  /\ ~ HeardOf(q.node, n)'
               /\ \A i \in backlog'[q.node] : i.from # n
    <3>1. q \in peers[n] /\ q # peer
      BY <2>1, <1>3, <1>7
    <3>2. q \in [id : Nat, node : Node, connected : BOOLEAN]
      BY <3>1, <1>1 DEF GroupTypes
    <3>3. ~ HeardOf(q.node, n) /\ \A i \in backlog[q.node] : i.from # n
      BY <2>1, <3>1, <1>1, <1>5 DEF NotTold
    <3>4. q.node # m
      <4>1. RightId(n, q.node, q.id) /\ RightId(n, m, peer.id)
        BY <3>1, <1>1, <1>2 DEF KnownRight
      <4> QED BY <4>1, <2>1, <3>1, <3>2, <1>2, <1>3, <1>6 DEF RightId
    <3> QED BY <3>2, <3>3, <3>4, <1>4, <1>7
  <2>2. \A p \in Node : Joining(p)' => p = n
    BY <1>4, <1>5 DEF Joining
  <2> QED BY <2>1, <2>2 DEF NotTold
<1> QED BY <1>8, <1>9, <1>10, <1>11, <1>12 DEF NobodyTwice

LEMMA JoinReturnNobodyTwice ==
  ASSUME GroupInv, NobodyTwice, NEW n \in Node, JoinReturn(n)
  PROVE  NobodyTwice'
<1>1. /\ GroupTypes /\ OneJoiner
      /\ KnownRight /\ AnswerRight /\ InitNew /\ AcceptedNew /\ NotTold
      /\ NoneAborted
  BY DEF GroupInv, NobodyTwice
<1>2. /\ pc[n] = "ready"
      /\ \A p \in Node : pc'[p] = IF p = n THEN "joined" ELSE pc[p]
      /\ UNCHANGED <<my_id, peers, backlog, accepted, response, target>>
  BY <1>1 DEF JoinReturn, GroupTypes
<1>3. \A p \in Node : ~ Joining(p)' /\ pc'[p] # "reading"
  BY <1>1, <1>2 DEF OneJoiner, Joining
<1>4. KnownRight' /\ InitNew' /\ AcceptedNew' /\ NoneAborted'
  BY <1>1, <1>2 DEF KnownRight, RightId, InitNew, HeardOf, AcceptedNew, NoneAborted
<1>5. AnswerRight' /\ NotTold'
  BY <1>3 DEF AnswerRight, NotTold
<1> QED BY <1>4, <1>5 DEF NobodyTwice

LEMMA ReadResponseNobodyTwice ==
  ASSUME GroupInv, NoneGone, NobodyTwice, NEW n \in Node, ReadResponse(n)
  PROVE  NobodyTwice'
<1>1. /\ GroupTypes /\ OneJoiner /\ JoinState /\ InitsAwaited /\ AnswerApart
      /\ AnswerComplete
      /\ KnownRight /\ AnswerRight /\ InitNew /\ AcceptedNew /\ NotTold
      /\ NoneAborted
  BY DEF GroupInv, NobodyTwice
<1>2. PICK resp \in response[n] :
        LET met == [id |-> resp.id, node |-> resp.from, connected |-> TRUE]
        IN /\ pc' = [pc EXCEPT ![n] = "ready"]
           /\ response' = [response EXCEPT ![n] = {}]
           /\ UNCHANGED <<backlog, accepted, target>>
           /\ my_id' = [my_id EXCEPT ![n] = IF @ = 0 THEN resp.assigned ELSE @]
           /\ my_id[n] = 0 =>
                peers' = [peers EXCEPT ![n] =
                  {[id |-> l.id, node |-> l.node, connected |-> FALSE] :
                     l \in resp.list} \cup {met}]
           /\ my_id[n] # 0 =>
                \/ peers' = [peers EXCEPT ![n] = @ \cup {met}]
                \/ peers' = peers
  BY ReadResponseEffect
<1> DEFINE met == [id |-> resp.id, node |-> resp.from, connected |-> TRUE]
           told == {[id |-> l.id, node |-> l.node, connected |-> FALSE] :
                      l \in resp.list}
<1>3. PICK new_id : new_id = IF my_id[n] = 0 THEN resp.assigned ELSE my_id[n]
  OBVIOUS
<1>4. /\ \A p \in told : \E l \in resp.list :
            p.id = l.id /\ p.node = l.node /\ p.connected = FALSE
      /\ met.id = resp.id /\ met.node = resp.from /\ met.connected = TRUE
  OBVIOUS
<1>5. /\ my_id[n] = 0 => peers' = [peers EXCEPT ![n] = told \cup {met}]
      /\ my_id[n] # 0 => \/ peers' = [peers EXCEPT ![n] = @ \cup {met}]
                         \/ peers' = peers
      /\ my_id' = [my_id EXCEPT ![n] = new_id]
      /\ pc' = [pc EXCEPT ![n] = "ready"]
      /\ response' = [response EXCEPT ![n] = {}]
      /\ UNCHANGED <<backlog, accepted, target>>
  BY <1>2, <1>3
<1> HIDE DEF met, told
<1>6. /\ \A p \in Node :
           /\ pc'[p] = IF p = n THEN "ready" ELSE pc[p]
           /\ response'[p] = IF p = n THEN {} ELSE response[p]
           /\ my_id'[p] = IF p = n THEN new_id ELSE my_id[p]
      /\ \A p \in Node \ {n} : peers'[p] = peers[p]
      /\ \A q \in peers'[n] :
           \/ q \in peers[n]
           \/ q = met
           \/ my_id[n] = 0 /\ q \in told
      /\ backlog' = backlog /\ accepted' = accepted /\ target' = target
  BY <1>1, <1>5 DEF GroupTypes
<1>7. /\ pc[n] = "reading" /\ Joining(n) /\ backlog[n] = {} /\ accepted[n] = {}
      /\ \A p \in Node : Joining(p) => p = n
      /\ my_id[n] = 0 => Newcomer(n) /\ peers[n] = {}
  BY <1>1 DEF ReadResponse, JoinState, OneJoiner, Joining, Settling, Newcomer
<1>8. /\ resp.id # 0 /\ resp.from = target[n] /\ Settling(resp.from)
      /\ resp.id = my_id[resp.from]
      /\ resp.from \in Node /\ \A l \in resp.list : l.node \in Node
      /\ \A l \in resp.list : l.id = my_id[l.node] /\ l.node # resp.from
      /\ my_id[n] = 0 => \A l \in resp.list : Settling(l.node)
      /\ my_id[n] = 0 => resp.assigned # 0
      /\ \A x \in response[n] : x = resp
  BY <1>1, <1>7 DEF AnswerApart, AnswerRight, AnswerComplete, GroupTypes, Response,
                    Named
<1>9. \A p \in Node : Joining(p)' <=> Joining(p)
  BY <1>6, <1>7 DEF Joining
<1>10. KnownRight'
  <2>1. ASSUME NEW p \in Node, NEW q \in Node, NEW id, RightId(p, q, id)
        PROVE  RightId(p, q, id)'
    <3>1. CASE q # n
      BY <2>1, <3>1, <1>6 DEF RightId
    <3>2. CASE q = n
      BY <2>1, <3>2, <1>3, <1>6, <1>8 DEF RightId
    <3> QED BY <3>1, <3>2
  <2>2. \A p \in Node : /\ \A q \in peers[p] : q.node \in Node
                        /\ \A new \in accepted[p] : new.node \in Node
    BY <1>1 DEF GroupTypes, Named
  <2>3. \A p \in Node :
          /\ \A q \in peers[p] : RightId(p, q.node, q.id)
          /\ \A new \in accepted[p] : RightId(p, new.node, new.id)
    BY <1>1 DEF KnownRight
  <2>4. \A p \in Node :
          /\ \A q \in peers[p] : RightId(p, q.node, q.id)'
          /\ \A new \in accepted[p] : RightId(p, new.node, new.id)'
    BY <2>1, <2>2, <2>3
  <2>5. ASSUME NEW q \in Node, Settling(q), NEW id, id = my_id[q]
        PROVE  RightId(n, q, id)'
    <3>1. my_id[q] # 0
      BY <2>5, <1>1 DEF JoinState, Settling, NoneGone
    <3>2. q # n
      BY <2>5, <1>7 DEF Settling
    <3> QED BY <2>5, <3>1, <3>2, <1>6 DEF RightId
  <2>6. ASSUME NEW q \in peers'[n]
        PROVE  RightId(n, q.node, q.id)'
    <3>1. CASE q \in peers[n]
      BY <3>1, <2>4
    <3>2. CASE q = met
      BY <3>2, <2>5, <1>4, <1>8
    <3>3. CASE my_id[n] = 0 /\ q \in told
      BY <3>3, <2>5, <1>4, <1>8
    <3> QED BY <3>1, <3>2, <3>3, <1>6
  <2>7. \A p \in Node :
          /\ \A q \in peers'[p] : RightId(p, q.node, q.id)'
          /\ \A new \in accepted'[p] : RightId(p, new.node, new.id)'
    BY <2>4, <2>6, <1>6
  <2> QED BY <2>7 DEF KnownRight
<1>11. AnswerRight'
  <2>1. \A p \in Node : pc'[p] # "reading"
    BY <1>6, <1>7, <1>9 DEF Joining
  <2> QED BY <2>1 DEF AnswerRight
<1>12. \A p, q \in Node : p # n => (HeardOf(p, q)' <=> HeardOf(p, q))
  BY <1>6 DEF HeardOf
<1>13. InitNew'
  BY <1>1, <1>6, <1>7, <1>12 DEF InitNew, GroupTypes, InitMessage
<1>14. AcceptedNew' /\ NoneAborted'
  BY <1>1, <1>6, <1>7 DEF AcceptedNew, NoneAborted
<1>15. NotTold'
  <2>1. ASSUME NEW q \in peers'[n], ~ q.connected
        PROVE  /\ ~ HeardOf(q.node, n)'
               /\ \A i \in backlog'[q.node] : i.from # n
    <3>1. CASE q \in peers[n]
      <4>1. q.node \in Node /\ q.node # n
        BY <3>1, <1>1 DEF GroupTypes, KnownRight, RightId
      <4> QED BY <2>1, <3>1, <4>1, <1>1, <1>6, <1>7, <1>12 DEF NotTold
    <3>2. CASE q = met
      BY <2>1, <3>2, <1>4
    <3>3. CASE my_id[n] = 0 /\ q \in told
      <4>1. PICK l \in resp.list : q.node = l.node
        BY <3>3, <1>4
      <4>2. q.node \in Node /\ q.node # n /\ q.node # target[n]
        BY <3>3, <4>1, <1>7, <1>8 DEF Settling
      <4>3. ~ HeardOf(q.node, n)
        BY <3>3, <4>2, <1>1 DEF HeardOf, KnownRight, RightId
      <4>4. \A i \in backlog[q.node] : i.from # n
        BY <4>2, <1>1, <1>7 DEF InitsAwaited
      <4> QED BY <4>2, <4>3, <4>4, <1>6, <1>12
    <3> QED BY <3>1, <3>2, <3>3, <1>6
  <2>2. \A p \in Node : Joining(p)' => p = n
    BY <1>7, <1>9
  <2> QED BY <2>1, <2>2 DEF NotTold
<1> QED BY <1>10, <1>11, <1>13, <1>14, <1>15 DEF NobodyTwice

LEMMA AcceptInitNobodyTwice ==
  ASSUME GroupInv, NoneGone, NobodyTwice, NEW n \in Node, AcceptInit(n)
  PROVE  NobodyTwice'
<1>1. /\ GroupTypes /\ OneJoiner /\ JoinState /\ InitsAwaited /\ HeardStarted
      /\ JoinerConnects /\ IdsSmall
      /\ KnownRight /\ AnswerRight /\ InitNew /\ AcceptedNew /\ NotTold
      /\ NoneAborted
  BY DEF GroupInv, NobodyTwice
<1>2. PICK init \in backlog[n], given \in Nat, resp \in Response :
        /\ backlog' = [backlog EXCEPT ![n] = @ \ {init}]
        /\ response' = [response EXCEPT ![init.from] = {resp}]
        /\ accepted' = [accepted EXCEPT ![n] = {[id |-> given, node |-> init.from]}]
        /\ resp.from = n /\ resp.id = my_id[n]
        /\ init.id # 0 =>
             /\ given = init.id /\ resp.assigned = 0
             /\ \A l \in resp.list : FALSE
        /\ init.id = 0 =>
             /\ given = NextId(n) /\ resp.assigned = given
             /\ \A l \in resp.list : \E peer \in peers[n] :
                  l.id = peer.id /\ l.node = peer.node
             /\ \A peer \in peers[n] :
                  [id |-> peer.id, node |-> peer.node] \in resp.list
  BY AcceptInitEffect
<1>3. PICK f \in Node : f = init.from
  BY <1>1 DEF GroupTypes, InitMessage
<1> DEFINE new == [id |-> given, node |-> f]
<1>4. new.id = given /\ new.node = f /\ init = [from |-> f, id |-> init.id]
  BY <1>1, <1>3 DEF GroupTypes, InitMessage
<1>5. /\ accepted' = [accepted EXCEPT ![n] = {new}]
      /\ response' = [response EXCEPT ![f] = {resp}]
      /\ backlog' = [backlog EXCEPT ![n] = @ \ {init}]
      /\ UNCHANGED <<my_id, peers, target, pc>>
      /\ Up(n) /\ accepted[n] = {}
  BY <1>2, <1>3 DEF AcceptInit
<1> HIDE DEF new
<1>6. /\ \A p \in Node : response'[p] = IF p = f THEN {resp} ELSE response[p]
      /\ \A p \in Node : accepted'[p] = IF p = n THEN {new} ELSE accepted[p]
      /\ \A p \in Node : backlog'[p] = IF p = n THEN backlog[p] \ {init}
                                                ELSE backlog[p]
      /\ my_id' = my_id /\ peers' = peers /\ target' = target /\ pc' = pc
  <2>1. \A p \in Node : response'[p] = IF p = f THEN {resp} ELSE response[p]
    BY <1>1, <1>5 DEF GroupTypes
  <2>2. \A p \in Node : accepted'[p] = IF p = n THEN {new} ELSE accepted[p]
    BY <1>1, <1>5 DEF GroupTypes
  <2>3. \A p \in Node : backlog'[p] = IF p = n THEN backlog[p] \ {init}
                                               ELSE backlog[p]
    <3>1. backlog \in [Node -> SUBSET InitMessage]
      BY <1>1 DEF GroupTypes
    <3>2. backlog' = [backlog EXCEPT ![n] = @ \ {init}]
      BY <1>5
    <3> QED BY <3>1, <3>2
  <2> QED BY <2>1, <2>2, <2>3, <1>5
<1>7. pc[n] = "joined" /\ my_id[n] # 0
  BY <1>1, <1>5 DEF JoinState, Settling, Up
<1>8. /\ pc[f] = "reading" /\ target[f] = n /\ init.id = my_id[f]
      /\ response[f] = {} /\ Joining(f) /\ f # n
      /\ \A p \in Node : Joining(p) => p = f
  <2>1. pc[f] # "down"
    BY DEF NoneGone
  <2> QED BY <2>1, <1>1, <1>3, <1>7 DEF InitsAwaited, Joining, OneJoiner
<1>9. \A p \in Node : my_id[p] = 0 => p = f
  BY <1>1, <1>8 DEF JoinState, NoneGone, Joining
<1>10. ~ HeardOf(n, f)
  BY <1>1, <1>3 DEF InitNew
<1>11. ASSUME NEW peer \in peers[n]
       PROVE  /\ peer.node \in Node /\ peer.node # n /\ peer.node # f
              /\ peer.id = my_id[peer.node] /\ my_id[peer.node] # 0
              /\ pc[peer.node] = "joined"
  <2>1. peer.node \in Node /\ RightId(n, peer.node, peer.id)
    BY <1>1 DEF GroupTypes, KnownRight
  <2>2. peer.node # f
    BY <1>10 DEF HeardOf
  <2>3. my_id[peer.node] # 0
    BY <2>1, <2>2, <1>9
  <2>4. pc[peer.node] # "off"
    BY <2>1, <1>1 DEF HeardStarted, HeardOf
  <2>5. pc[peer.node] = "joined"
    BY <2>1, <2>2, <2>4, <1>1, <1>8
       DEF GroupTypes, PC, Joining, NoneAborted, NoneGone
  <2> QED BY <2>1, <2>2, <2>3, <2>5 DEF RightId
<1>12. \A p, q \in Node : HeardOf(p, q)' => HeardOf(p, q) \/ (p = n /\ q = f)
  BY <1>4, <1>6 DEF HeardOf
<1>13. KnownRight'
  <2>1. ASSUME NEW p \in Node, NEW q \in Node, NEW id, RightId(p, q, id)
        PROVE  RightId(p, q, id)'
    BY <2>1, <1>6, <1>8 DEF RightId
  <2>2. \A p \in Node : /\ \A q \in peers[p] : q.node \in Node
                        /\ \A x \in accepted[p] : x.node \in Node
    BY <1>1 DEF GroupTypes, Named
  <2>3. \A p \in Node :
          /\ \A q \in peers[p] : RightId(p, q.node, q.id)
          /\ \A x \in accepted[p] : RightId(p, x.node, x.id)
    BY <1>1 DEF KnownRight
  <2>4. \A p \in Node :
          /\ \A q \in peers[p] : RightId(p, q.node, q.id)'
          /\ \A x \in accepted[p] : RightId(p, x.node, x.id)'
    BY <2>1, <2>2, <2>3
  <2>5. RightId(n, f, given)'
    BY <1>2, <1>6, <1>8 DEF RightId
  <2>6. \A p \in Node :
          /\ \A q \in peers'[p] : RightId(p, q.node, q.id)'
          /\ \A x \in accepted'[p] : RightId(p, x.node, x.id)'
    BY <2>4, <2>5, <1>4, <1>6
  <2> QED BY <2>6 DEF KnownRight
<1>14. AnswerRight'
  <2>1. ASSUME NEW l \in resp.list
        PROVE  l.id = my_id[l.node] /\ l.node # n
    <3>1. PICK peer \in peers[n] : l.id = peer.id /\ l.node = peer.node
      BY <1>2
    <3> QED BY <3>1, <1>11
  <2> QED BY <2>1, <1>1, <1>2, <1>6 DEF AnswerRight
<1>15. InitNew'
  <2>1. ASSUME NEW p \in Node, NEW i \in backlog'[p]
        PROVE  ~ HeardOf(p, i.from)'
    <3>1. i \in backlog[p] /\ (p = n => i # init)
      BY <1>6
    <3>2. /\ ~ HeardOf(p, i.from) /\ i.from \in Node
          /\ i = [from |-> i.from, id |-> i.id]
      BY <3>1, <1>1 DEF InitNew, GroupTypes, InitMessage
    <3>3. ~ (p = n /\ i.from = f)
      <4>1. i.from = f => i.id = my_id[f]
        BY <3>1, <1>1, <1>8 DEF InitsAwaited
      <4> QED BY <4>1, <3>1, <3>2, <1>4, <1>8
    <3> QED BY <3>2, <3>3, <1>12
  <2> QED BY <2>1 DEF InitNew
<1>16. AcceptedNew'
  <2>1. ASSUME NEW peer \in peers[n]
        PROVE  given # peer.id
    <3>1. CASE init.id = 0
      <4>1. GroupTypes /\ IdsUpTo(Cardinality(Served))
        BY <1>1 DEF IdsSmall
      <4>2. NextId(n) > peer.id /\ peer.id \in Nat
        BY <4>1, ServedFinite, NextIdFresh DEF GroupTypes
      <4> QED BY <4>2, <3>1, <1>2
    <3>2. CASE init.id # 0
      <4>1. my_id[peer.node] # my_id[f]
        BY <3>2, <1>1, <1>8, <1>11 DEF JoinerConnects
      <4> QED BY <4>1, <3>2, <1>2, <1>8, <1>11
    <3> QED BY <3>1, <3>2
  <2>2. \A p \in Node : \A x \in accepted'[p] :
           x \in accepted[p] \/ (p = n /\ x = new)
    BY <1>6
  <2> QED BY <2>1, <2>2, <1>1, <1>4, <1>6 DEF AcceptedNew
<1>17. NoneAborted'
  BY <1>1, <1>6 DEF NoneAborted
<1>18. NotTold'
  <2>1. ASSUME NEW p \in Node, Joining(p), NEW q \in peers[p], ~ q.connected
        PROVE  /\ ~ HeardOf(q.node, p)'
               /\ \A i \in backlog'[q.node] : i.from # p
    <3>1. p = f /\ q.node \in Node
      BY <2>1, <1>1, <1>8 DEF GroupTypes
    <3>2. ~ HeardOf(q.node, p) /\ \A i \in backlog[q.node] : i.from # p
      BY <2>1, <1>1 DEF NotTold
    <3>3. q.node # n
      BY <3>1, <3>2, <1>3
    <3> QED BY <3>1, <3>2, <3>3, <1>6, <1>12
  <2> QED BY <2>1, <1>6 DEF NotTold, Joining
<1> QED BY <1>13, <1>14, <1>15, <1>16, <1>17, <1>18 DEF NobodyTwice

LEMMA AcceptAddNobodyTwice ==
  ASSUME GroupInv, NobodyTwice, NEW n \in Node, AcceptAdd(n)
  PROVE  NobodyTwice'
<1>1. /\ GroupTypes /\ JoinState /\ HeardStarted
      /\ KnownRight /\ AnswerRight /\ InitNew /\ AcceptedNew /\ NotTold
      /\ NoneAborted
  BY DEF GroupInv, NobodyTwice
<1>2. PICK new \in accepted[n] :
        IF new.id \in IdsKnown(n)
        THEN pc' = [pc EXCEPT ![n] = "aborted"] /\ UNCHANGED peers
        ELSE /\ peers' = [peers EXCEPT ![n] = @ \cup
                  {[id |-> new.id, node |-> new.node, connected |-> TRUE]}]
             /\ UNCHANGED pc
  BY DEF AcceptAdd
<1>3. new.id \notin IdsKnown(n)
  BY <1>1 DEF AcceptedNew, IdsKnown
<1> DEFINE met == [id |-> new.id, node |-> new.node, connected |-> TRUE]
<1>4. met.id = new.id /\ met.node = new.node /\ met.connected = TRUE
  OBVIOUS
<1>5. /\ peers' = [peers EXCEPT ![n] = @ \cup {met}]
      /\ accepted' = [accepted EXCEPT ![n] = {}]
      /\ UNCHANGED <<my_id, backlog, response, target, pc>>
      /\ Up(n)
  BY <1>2, <1>3 DEF AcceptAdd
<1> HIDE DEF met
<1>6. /\ \A p \in Node : peers'[p] = IF p = n THEN peers[p] \cup {met} ELSE peers[p]
      /\ \A p \in Node : accepted'[p] = IF p = n THEN {} ELSE accepted[p]
      /\ my_id' = my_id /\ backlog' = backlog /\ response' = response
      /\ target' = target /\ pc' = pc
  <2>1. \A p \in Node : peers'[p] = IF p = n THEN peers[p] \cup {met} ELSE peers[p]
    BY <1>1, <1>5, ZenonT(60) DEF GroupTypes
  <2>2. \A p \in Node : accepted'[p] = IF p = n THEN {} ELSE accepted[p]
    BY <1>1, <1>5 DEF GroupTypes
  <2> QED BY <2>1, <2>2, <1>5
<1>7. pc[n] = "joined"
  BY <1>1, <1>5 DEF JoinState, Settling, Up
<1>8. ASSUME NEW p \in Node, NEW q \in Node, HeardOf(p, q)'
      PROVE  HeardOf(p, q)
  <2>1. CASE p # n
    BY <1>6, <1>8, <2>1 DEF HeardOf
  <2>2. CASE p = n
    <3>1. CASE q = new.node
      BY <1>1, <2>2, <3>1 DEF HeardOf
    <3>2. CASE q # new.node
      BY <1>4, <1>6, <1>8, <2>2, <3>2 DEF HeardOf
    <3> QED BY <3>1, <3>2
  <2> QED BY <2>1, <2>2
<1>9. KnownRight'
  <2>1. \A p, q \in Node : \A id : RightId(p, q, id) => RightId(p, q, id)'
    BY <1>6 DEF RightId
  <2>2. \A p \in Node : /\ \A q \in peers[p] : q.node \in Node
                        /\ \A x \in accepted[p] : x.node \in Node
    BY <1>1 DEF GroupTypes, Named
  <2>3. \A p \in Node :
          /\ \A q \in peers[p] : RightId(p, q.node, q.id)
          /\ \A x \in accepted[p] : RightId(p, x.node, x.id)
    BY <1>1 DEF KnownRight
  <2>4. \A p \in Node :
          /\ \A q \in peers[p] : RightId(p, q.node, q.id)'
          /\ \A x \in accepted[p] : RightId(p, x.node, x.id)'
    BY <2>1, <2>2, <2>3
  <2>5. RightId(n, met.node, met.id)'
    BY <2>4, <1>4
  <2>6. \A p \in Node :
          /\ \A q \in peers'[p] : RightId(p, q.node, q.id)'
          /\ \A x \in accepted'[p] : RightId(p, x.node, x.id)'
    BY <2>4, <2>5, <1>6
  <2> QED BY <2>6 DEF KnownRight
<1>10. AnswerRight'
  BY <1>1, <1>6 DEF AnswerRight
<1>11. InitNew'
  <2>1. \A p \in Node : \A i \in backlog[p] : i.from \in Node
    BY <1>1 DEF GroupTypes, InitMessage
  <2> QED BY <2>1, <1>1, <1>6, <1>8 DEF InitNew
<1>12. AcceptedNew'
  <2>1. \A p \in Node : \A x \in accepted'[p] :
          p # n /\ x \in accepted[p] /\ peers'[p] = peers[p]
    BY <1>6
  <2> QED BY <2>1, <1>1 DEF AcceptedNew
<1>13. NoneAborted'
  BY <1>1, <1>6 DEF NoneAborted
<1>14. NotTold'
  <2>1. ASSUME NEW p \in Node, Joining(p), NEW q \in peers'[p], ~ q.connected
        PROVE  /\ ~ HeardOf(q.node, p)'
               /\ \A i \in backlog[q.node] : i.from # p
    <3>1. p # n
      BY <2>1, <1>7 DEF Joining
    <3>2. q \in peers[p]
      BY <3>1, <1>6
    <3>3. q.node \in Node
      BY <3>2, <1>1 DEF GroupTypes
    <3> QED BY <2>1, <3>2, <3>3, <1>1, <1>8 DEF NotTold
  <2> QED BY <2>1, <1>6 DEF NotTold, Joining
<1> QED BY <1>9, <1>10, <1>11, <1>12, <1>13, <1>14 DEF NobodyTwice

LEMMA ListenerTakesResponseNobodyTwice ==
  ASSUME GroupInv, NobodyTwice, NEW n \in Node, ListenerTakesResponse(n)
  PROVE  NobodyTwice'
<1>1. /\ GroupTypes /\ JoinState
      /\ KnownRight /\ AnswerRight /\ InitNew /\ AcceptedNew /\ NotTold
      /\ NoneAborted
  BY DEF GroupInv, NobodyTwice
<1> PICK left \in {"robbed", "garbled"} : pc' = [pc EXCEPT ![n] = left]
  BY DEF ListenerTakesResponse
<1>2. /\ \A p \in Node : /\ response'[p] = IF p = n THEN {} ELSE response[p]
                         /\ pc'[p] = IF p = n THEN left ELSE pc[p]
      /\ UNCHANGED <<my_id, peers, backlog, accepted, target>>
      /\ pc[n] = "reading" /\ peers[n] # {}
  BY <1>1 DEF ListenerTakesResponse, GroupTypes
<1>3. my_id[n] # 0
  BY <1>1, <1>2 DEF JoinState
<1>4. \A p \in Node : Joining(p)' => Joining(p)
  BY <1>2 DEF Joining
<1>5. KnownRight'
  <2>1. \A p, q \in Node : \A id : RightId(p, q, id) => RightId(p, q, id)'
    BY <1>2, <1>3 DEF RightId
  <2>2. \A p \in Node : /\ \A q \in peers[p] : q.node \in Node
                        /\ \A x \in accepted[p] : x.node \in Node
    BY <1>1 DEF GroupTypes, Named
  <2>3. \A p \in Node :
          /\ \A q \in peers[p] : RightId(p, q.node, q.id)
          /\ \A x \in accepted[p] : RightId(p, x.node, x.id)
    BY <1>1 DEF KnownRight
  <2>4. \A p \in Node :
          /\ \A q \in peers[p] : RightId(p, q.node, q.id)'
          /\ \A x \in accepted[p] : RightId(p, x.node, x.id)'
    BY <2>1, <2>2, <2>3
  <2> QED BY <2>4, <1>2 DEF KnownRight
<1>6. AnswerRight' /\ AcceptedNew' /\ NoneAborted'
  BY <1>1, <1>2 DEF AnswerRight, AcceptedNew, NoneAborted
<1>7. InitNew'
  BY <1>1, <1>2 DEF InitNew, HeardOf
<1>8. NotTold'
  BY <1>1, <1>2, <1>4 DEF NotTold, HeardOf
<1> QED BY <1>5, <1>6, <1>7, <1>8 DEF NobodyTwice

LEMMA InitNobodyTwice == Init => NobodyTwice
<1> SUFFICES ASSUME Init PROVE NobodyTwice
  OBVIOUS
<1>1. \A n \in Node :
        /\ peers[n] = {} /\ backlog[n] = {} /\ accepted[n] = {} /\ response[n] = {}
        /\ pc[n] = IF n = Founder THEN "joined" ELSE "off"
  BY DEF Init
<1> QED BY <1>1 DEF NobodyTwice, KnownRight, AnswerRight, InitNew, AcceptedNew,
           NotTold, NoneAborted

\* The steps of a group in which no process ends leave alone who has ended.
LEMMA NextEndsNobody ==
  ASSUME GroupTypes, [Next]_vars, NEW p \in Node
  PROVE  pc'[p] = "down" <=> pc[p] = "down"
<1>1. CASE UNCHANGED vars
  BY <1>1 DEF vars
<1>2. CASE \E n, m \in Node : GroupJoin(n, m)
  BY <1>2 DEF GroupJoin, Ask, GroupTypes
<1>3. CASE \E n \in Node : ConnectToPeer(n)
  BY <1>3 DEF ConnectToPeer, Ask, GroupTypes
<1>4. CASE \E n \in Node : JoinReturn(n) \/ ListenerTakesResponse(n)
  BY <1>4 DEF JoinReturn, ListenerTakesResponse, GroupTypes
<1>5. CASE \E n \in Node : ReadResponse(n)
  <2>1. PICK n \in Node : ReadResponse(n)
    BY <1>5
  <2>2. pc[n] = "reading"
    BY <2>1 DEF ReadResponse
  <2>3. \/ pc' = [pc EXCEPT ![n] = "aborted"]
        \/ pc' = [pc EXCEPT ![n] = "ready"]
        \/ pc' = [pc EXCEPT ![n] = "garbled"]
    BY <2>1 DEF ReadResponse
  <2> QED BY <2>2, <2>3 DEF GroupTypes
<1>6. CASE \E n \in Node : AcceptInit(n) \/ AcceptAdd(n)
  BY <1>6 DEF AcceptInit, AcceptAdd, Up, GroupTypes
<1> QED BY <1>1, <1>2, <1>3, <1>4, <1>5, <1>6 DEF Next, Main, Accept

\* A process that has ended stays so.
LEMMA GoneStays ==
  ASSUME GroupInv, [LossNext]_vars, NEW p \in Node, pc[p] = "down"
  PROVE  pc'[p] = "down"
<1>1. GroupTypes
  BY DEF GroupInv
<1>2. CASE [Next]_vars
  BY <1>1, <1>2, NextEndsNobody
<1>3. CASE \E n \in Node : Lose(n)
  BY <1>1, <1>3 DEF Lose, GroupTypes
<1>4. CASE \E n \in Node : \E init \in backlog[n] : Drop(n, init)
  BY <1>4 DEF Drop
<1> QED BY <1>2, <1>3, <1>4 DEF LossNext

LEMMA LossFreeKept ==
  ASSUME MaxJoining = 1, GroupInv, LossFree, [LossNext]_vars
  PROVE  LossFree'
<1> SUFFICES ASSUME NoneGone' PROVE NobodyTwice'
  BY DEF LossFree
<1>1. NoneGone
  BY GoneStays DEF NoneGone
<1>2. NobodyTwice
  BY <1>1 DEF LossFree
<1>3. CASE UNCHANGED vars
  BY <1>2, <1>3 DEF vars, NobodyTwice, KnownRight, RightId, AnswerRight, InitNew,
     HeardOf, AcceptedNew, NotTold, Joining, NoneAborted
<1>4. CASE \E n, m \in Node : GroupJoin(n, m)
  BY <1>2, <1>4, GroupJoinNobodyTwice
<1>5. CASE \E n \in Node : ConnectToPeer(n)
  BY <1>2, <1>5, ConnectToPeerNobodyTwice
<1>6. CASE \E n \in Node : JoinReturn(n)
  BY <1>2, <1>6, JoinReturnNobodyTwice
<1>7. CASE \E n \in Node : ReadResponse(n)
  BY <1>1, <1>2, <1>7, ReadResponseNobodyTwice
<1>8. CASE \E n \in Node : AcceptInit(n)
  BY <1>1, <1>2, <1>8, AcceptInitNobodyTwice
<1>9. CASE \E n \in Node : AcceptAdd(n)
  BY <1>2, <1>9, AcceptAddNobodyTwice
<1>10. CASE \E n \in Node : ListenerTakesResponse(n)
  BY <1>2, <1>10, ListenerTakesResponseNobodyTwice
<1>11. CASE \E n \in Node : Lose(n)
  <2>1. PICK n \in Node : Lose(n)
    BY <1>11
  <2>2. pc'[n] = "down"
    BY <2>1 DEF Lose, GroupInv, GroupTypes
  <2> QED BY <2>2 DEF NoneGone
<1>12. CASE \E n \in Node : \E init \in backlog[n] : Drop(n, init)
  <2>0. PICK n \in Node : \E init \in backlog[n] : Drop(n, init)
    BY <1>12
  <2>1. PICK init \in backlog[n] : Drop(n, init)
    BY <2>0
  <2>2. init.from \in Node /\ pc[init.from] = "down"
    BY <2>1 DEF Drop, GroupInv, GroupTypes, InitMessage
  <2> QED BY <2>2, <1>1 DEF NoneGone
<1> QED
  BY <1>3, <1>4, <1>5, <1>6, <1>7, <1>8, <1>9, <1>10, <1>11, <1>12
     DEF LossNext, Next, Main, Accept


----------------------------------------------------------------------------
(***************************************************************************)
(* The messages about object 0                                             *)
(***************************************************************************)
LEMMA MessageSent ==
  ASSUME NEW c \in Traffic, NEW msg \in Message, ~ Holds(c, msg)
  PROVE  /\ Append(c, msg) \in Traffic
         /\ \A other \in Message :
              other # msg => (Holds(Append(c, msg), other) <=> Holds(c, other))
<1> DEFINE d == Append(c, msg)
<1>1. /\ d \in Seq(Message) /\ Len(c) \in Nat
      /\ Len(d) = Len(c) + 1
      /\ \A i \in 1 .. Len(c) : d[i] = c[i]
      /\ d[Len(c) + 1] = msg
  BY DEF Traffic
<1>2. \A i \in 1 .. Len(d) : i \in 1 .. Len(c) \/ i = Len(c) + 1
  BY <1>1
<1> HIDE DEF d
<1>3. \A i, j \in 1 .. Len(d) : d[i] = d[j] => i = j
  BY <1>1, <1>2 DEF Traffic, Holds
<1>4. \A other \in Message :
        other # msg => (Holds(d, other) <=> Holds(c, other))
  BY <1>1, <1>2 DEF Holds
<1> QED BY <1>1, <1>3, <1>4 DEF Traffic, d

LEMMA HeadTaken ==
  ASSUME NEW c \in Traffic, c # << >>
  PROVE  /\ Tail(c) \in Traffic
         /\ \A msg : Holds(Tail(c), msg) => Holds(c, msg)
         /\ Holds(c, Head(c)) /\ ~ Holds(Tail(c), Head(c))
<1> DEFINE d == Tail(c)
<1>1. /\ d \in Seq(Message) /\ Len(c) \in Nat \ {0}
      /\ Len(d) = Len(c) - 1 /\ Head(c) = c[1]
      /\ \A i \in 1 .. Len(d) : d[i] = c[i + 1]
  BY HeadTailProperties DEF Traffic
<1> HIDE DEF d
<1>2. \A i \in 1 .. Len(d) : i + 1 \in 1 .. Len(c) /\ i + 1 # 1
  BY <1>1
<1>3. \A i, j \in 1 .. Len(d) : d[i] = d[j] => i = j
  BY <1>1, <1>2 DEF Traffic
<1>4. \A msg : Holds(d, msg) => Holds(c, msg)
  BY <1>1, <1>2 DEF Holds
<1>5. 1 \in 1 .. Len(c)
  BY <1>1
<1>6. Holds(c, Head(c)) /\ ~ Holds(d, Head(c))
  BY <1>1, <1>2, <1>5 DEF Holds, Traffic
<1> QED BY <1>1, <1>3, <1>4, <1>6 DEF Traffic, d

LEMMA TrafficShort ==
  ASSUME NEW c \in Traffic
  PROVE  Len(c) <= 2 /\ \A i \in DOMAIN c : c[i] \in Message
<1>1. Len(c) \in Nat /\ DOMAIN c = 1 .. Len(c)
      /\ \A i \in 1 .. Len(c) : c[i] \in Message
  BY DEF Traffic
<1>2. ASSUME Len(c) > 2
      PROVE  FALSE
  <2>1. 1 \in 1 .. Len(c) /\ 2 \in 1 .. Len(c) /\ 3 \in 1 .. Len(c)
    BY <1>1, <1>2
  <2>2. c[1] # c[2] /\ c[1] # c[3] /\ c[2] # c[3]
    BY <2>1 DEF Traffic
  <2> QED BY <1>1, <2>1, <2>2 DEF Message
<1> QED BY <1>1, <1>2

LEMMA NothingSent == << >> \in Traffic /\ \A msg : ~ Holds(<< >>, msg)
BY DEF Traffic, Holds

\* Only sending can break the rule.
LEMMA FewerMessages ==
  ASSUME OneGetEach,
         \A n \in Node : Unasked(n)' => Unasked(n),
         \A n, m \in Node : \A msg \in Message :
           Holds(chan'[n][m], msg) => Holds(chan[n][m], msg)
  PROVE  OneGetEach'
<1>1. "GET" \in Message /\ "REPLY" \in Message
  BY DEF Message
<1> QED BY <1>1 DEF OneGetEach

----------------------------------------------------------------------------
(***************************************************************************)
(* The steps of Startup are steps of a group that loses members            *)
(***************************************************************************)
LEMMA StartSteps ==
  ASSUME [StartNext]_allVars
  PROVE  \/ \E n \in Node : End(n)
         \/ /\ \/ [Next]_vars
               \/ \E n \in Node : \E init \in backlog[n] : Drop(n, init)
            /\ UNCHANGED <<life, object>>
         \/ StartFounder
         \/ \E n, m \in Node : BeginJoin(n, m)
         \/ \E n \in Node :
              \/ Register(n) \/ GetReturn(n) \/ Signal(n) \/ SignalReturn(n)
              \/ ListenerStart(n) \/ ListenerStop(n) \/ HandleEnd(n)
         \/ \E n \in Node : SendGets(n)
         \/ \E n \in Node : HandleMessage(n)
<1>1. CASE UNCHANGED allVars
  BY <1>1 DEF allVars
<1>2. ASSUME NEW n \in Node,
             JoinRefused(n) \/ ResponseLost(n) \/ MainReturn(n) \/ MainCrash(n)
               \/ AnswerGone(n)
      PROVE  End(n)
  BY <1>2 DEF JoinRefused, ResponseLost, MainReturn, MainCrash, AnswerGone
<1>3. ASSUME NEW n \in Node, GoOnJoining(n) \/ AcceptNew(n) \/ TakeResponse(n)
      PROVE  [Next]_vars /\ UNCHANGED <<life, object>>
  BY <1>3 DEF GoOnJoining, AcceptNew, TakeResponse, Next, Main
<1>4. ASSUME NEW n \in Node, AcceptGone(n)
      PROVE  /\ \E init \in backlog[n] : Drop(n, init)
             /\ UNCHANGED <<life, object>>
  BY <1>4 DEF AcceptGone, Gone, Drop
<1> QED
  BY <1>1, <1>2, <1>3, <1>4 DEF StartNext, MainStep, Crash, ListenerStep

LEMMA StartImplementsLoss ==
  ASSUME [StartNext]_allVars
  PROVE  [LossNext]_vars
<1>1. CASE \E n \in Node : End(n)
  BY <1>1 DEF End, Lose, LossNext
<1>2. CASE StartFounder
  BY <1>2 DEF StartFounder
<1>3. CASE \E n, m \in Node : BeginJoin(n, m)
  BY <1>3 DEF BeginJoin, LossNext, Next
<1>4. CASE \E n \in Node :
              \/ Register(n) \/ GetReturn(n) \/ Signal(n) \/ SignalReturn(n)
              \/ ListenerStart(n) \/ ListenerStop(n) \/ HandleEnd(n)
  BY <1>4 DEF Register, GetReturn, Signal, SignalReturn, ListenerStart,
              ListenerStop, HandleEnd
<1>5. CASE \E n \in Node : SendGets(n)
  BY <1>5 DEF SendGets
<1>6. CASE \E n \in Node : HandleMessage(n)
  BY <1>6 DEF HandleMessage
<1> QED BY <1>1, <1>2, <1>3, <1>4, <1>5, <1>6, StartSteps DEF LossNext

LEMMA EndKeepsLife ==
  ASSUME GroupTypes, LifeInv, NEW n \in Node, End(n)
  PROVE  LifeInv'
<1>1. LifeTypes /\ GoneEnded /\ OneGetEach
  BY DEF LifeInv
<1>2. \A p, q \in Node : chan'[p][q] = IF q = n THEN << >> ELSE chan[p][q]
  BY <1>1 DEF End, LifeTypes
<1>3. chan' \in [Node -> [Node -> Traffic]]
  <2>1. \A p \in Node : [chan[p] EXCEPT ![n] = << >>] \in [Node -> Traffic]
    BY <1>1, NothingSent DEF LifeTypes
  <2> QED BY <2>1 DEF End
<1>4. \A p \in Node : stage'[p] = IF p = n THEN "down" ELSE stage[p]
  BY <1>1 DEF End, LifeTypes
<1>5. LifeTypes'
  BY <1>1, <1>3 DEF End, LifeTypes
<1>6. GoneEnded'
  BY <1>1, <1>4 DEF End, GroupTypes, GoneEnded, Gone
<1>7. OneGetEach'
  <2>1. \A p \in Node : Unasked(p)' => Unasked(p)
    BY <1>4 DEF Unasked
  <2>2. \A p, q \in Node : \A msg \in Message :
          Holds(chan'[p][q], msg) => Holds(chan[p][q], msg)
    BY <1>2, NothingSent
  <2> QED BY <1>1, <2>1, <2>2, FewerMessages
<1> QED BY <1>5, <1>6, <1>7 DEF LifeInv

\* The steps that send and take no messages.
LEMMA QuietKeepsLife ==
  ASSUME LifeInv,
         \A p \in Node : pc'[p] = "down" <=> pc[p] = "down",
         LifeTypes', chan' = chan,
         \A p \in Node : \/ stage'[p] = stage[p]
                         \/ Unasked(p) /\ stage'[p] # "down"
                         \/ stage[p] = "waiting" /\ stage'[p] = "loop",
         \A p \in Node : Unasked(p)' => Unasked(p)
  PROVE  LifeInv'
<1>1. GoneEnded /\ OneGetEach
  BY DEF LifeInv
<1>2. GoneEnded'
  BY <1>1 DEF GoneEnded, Gone, Unasked
<1>3. OneGetEach'
  BY <1>1, FewerMessages
<1> QED BY <1>2, <1>3 DEF LifeInv

LEMMA OthersKeepLife ==
  ASSUME GroupTypes, LifeInv,
         \/ UNCHANGED <<life, object>>
         \/ StartFounder
         \/ \E n, m \in Node : BeginJoin(n, m)
         \/ \E n \in Node :
              \/ Register(n) \/ GetReturn(n) \/ Signal(n) \/ SignalReturn(n)
              \/ ListenerStart(n) \/ ListenerStop(n) \/ HandleEnd(n),
         \A p \in Node : pc'[p] = "down" <=> pc[p] = "down"
  PROVE  LifeInv'
<1>1. LifeTypes
  BY DEF LifeInv
<1> DEFINE Forward(p) == \/ stage'[p] = stage[p]
                         \/ Unasked(p) /\ stage'[p] # "down"
                         \/ stage[p] = "waiting" /\ stage'[p] = "loop"
<1> SUFFICES /\ LifeTypes' /\ chan' = chan
             /\ \A p \in Node : Forward(p) /\ (Unasked(p)' => Unasked(p))
  BY QuietKeepsLife
<1>2. CASE UNCHANGED <<life, object>>
  BY <1>1, <1>2 DEF life, object, LifeTypes, Unasked
<1>3. ASSUME NEW n \in Node, stage[n] = "off", Start(n)
      PROVE  /\ LifeTypes' /\ chan' = chan
             /\ \A p \in Node : Forward(p) /\ (Unasked(p)' => Unasked(p))
  BY <1>1, <1>3 DEF Start, object, LifeTypes, Unasked
<1>4. CASE StartFounder
  BY <1>3, <1>4, FounderAssumption DEF StartFounder
<1>5. CASE \E n, m \in Node : BeginJoin(n, m)
  BY <1>3, <1>5 DEF BeginJoin
<1>6. CASE \E n \in Node : Register(n)
  BY <1>1, <1>6 DEF Register, object, LifeTypes, Unasked
<1>7. CASE \E n \in Node : GetReturn(n)
  BY <1>1, <1>7 DEF GetReturn, object, LifeTypes, Unasked
<1>8. CASE \E n \in Node : Signal(n)
  BY <1>1, <1>8 DEF Signal, object, LifeTypes, Unasked
<1>9. CASE \E n \in Node : SignalReturn(n)
  BY <1>1, <1>9 DEF SignalReturn, object, LifeTypes, Unasked
<1>11. CASE \E n \in Node : ListenerStart(n)
  BY <1>1, <1>11 DEF ListenerStart, object, LifeTypes, Unasked
<1>12. CASE \E n \in Node : ListenerStop(n)
  BY <1>1, <1>12 DEF ListenerStop, object, LifeTypes, Unasked
<1>10. CASE \E n \in Node : HandleEnd(n)
  BY <1>1, <1>10 DEF HandleEnd, Stopped, object, LifeTypes, Unasked
<1> QED BY <1>2, <1>4, <1>5, <1>6, <1>7, <1>8, <1>9, <1>10, <1>11, <1>12

LEMMA SendGetsKeepsLife ==
  ASSUME GroupTypes, LifeInv, NEW n \in Node, SendGets(n)
  PROVE  LifeInv'
<1>1. LifeTypes /\ GoneEnded /\ OneGetEach
  BY DEF LifeInv
<1>2. PICK asked \in SUBSET PeerNodes(n) :
        chan' = [chan EXCEPT ![n] = [m \in Node |->
                   IF m \in asked /\ ~ Gone(m) THEN Append(@[m], "GET") ELSE @[m]]]
  BY DEF SendGets
<1>3. /\ stage[n] = "registered"
      /\ \A p \in Node : stage'[p] = IF p = n THEN "waiting" ELSE stage[p]
      /\ pc' = pc
  BY <1>1 DEF SendGets, LifeTypes, vars
<1>4. \A p, q \in Node :
        chan'[p][q] = IF p = n /\ q \in asked /\ ~ Gone(q)
                      THEN Append(chan[p][q], "GET") ELSE chan[p][q]
  BY <1>1, <1>2 DEF LifeTypes
<1>5. /\ chan \in [Node -> [Node -> Traffic]]
      /\ "GET" \in Message /\ "REPLY" \in Message /\ "GET" # "REPLY"
  BY <1>1 DEF LifeTypes, Message
<1>6. \A q \in Node : ~ Holds(chan[n][q], "GET") /\ ~ Holds(chan[q][n], "REPLY")
  BY <1>1, <1>3 DEF OneGetEach, Unasked
<1>7. \A p, q \in Node :
        /\ chan'[p][q] \in Traffic
        /\ Holds(chan'[p][q], "REPLY") <=> Holds(chan[p][q], "REPLY")
        /\ p # n => chan'[p][q] = chan[p][q]
  BY <1>4, <1>5, <1>6, MessageSent
<1>8. LifeTypes'
  <2>1. chan' \in [Node -> [Node -> Traffic]]
    <3>1. \A p \in Node : p # n => chan'[p] = chan[p]
      BY <1>2, <1>5
    <3>2. chan'[n] = [m \in Node |-> chan'[n][m]]
      BY <1>2, <1>5
    <3>3. chan'[n] \in [Node -> Traffic]
      BY <1>7, <3>2
    <3>4. chan' = [p \in Node |-> chan'[p]]
      BY <1>2, <1>5
    <3> QED BY <1>5, <3>1, <3>3, <3>4
  <2>2. wait_on' \in [Node -> SUBSET Node]
    <3>1. PeerNodes(n) \subseteq Node
      BY DEF PeerNodes, GroupTypes
    <3> QED BY <1>1, <3>1 DEF SendGets, LifeTypes
  <2> QED BY <1>1, <2>1, <2>2 DEF SendGets, LifeTypes
<1>9. GoneEnded'
  BY <1>1, <1>3 DEF GoneEnded, Gone
<1>10. OneGetEach'
  <2>1. \A p \in Node : Unasked(p)' => Unasked(p) /\ p # n
    BY <1>3 DEF Unasked
  <2>2. ASSUME NEW p \in Node, NEW q \in Node
        PROVE  /\ Unasked(p)' => ~ Holds(chan'[p][q], "GET") /\ ~ Holds(chan'[q][p], "REPLY")
               /\ Holds(chan'[p][q], "GET") => ~ Holds(chan'[q][p], "REPLY")
    <3>1. CASE p = n
      BY <3>1, <2>1, <1>6, <1>7
    <3>2. CASE p # n
      BY <3>2, <2>1, <1>1, <1>7 DEF OneGetEach
    <3> QED BY <3>1, <3>2
  <2> QED BY <2>2 DEF OneGetEach
<1> QED BY <1>8, <1>9, <1>10 DEF LifeInv

LEMMA HandleMessageKeepsLife ==
  ASSUME GroupTypes, LifeInv, NEW n \in Node, HandleMessage(n)
  PROVE  LifeInv'
<1>1. LifeTypes /\ GoneEnded /\ OneGetEach
  BY DEF LifeInv
<1>2. PICK p \in PeerNodes(n) :
        /\ chan[p][n] # << >>
        /\ \/ Head(chan[p][n]) = "GET" /\ HandleGet(n, p)
           \/ Head(chan[p][n]) = "REPLY" /\ HandleReply(n, p)
  BY DEF HandleMessage
<1>3. p \in Node
  BY DEF PeerNodes, GroupTypes
<1>4. /\ chan \in [Node -> [Node -> Traffic]]
      /\ "GET" \in Message /\ "REPLY" \in Message /\ "GET" # "REPLY"
      /\ stage' = stage /\ pc' = pc
      /\ UNCHANGED <<listener, listening, running, sig>>
  BY <1>1 DEF LifeTypes, Message, HandleMessage, life, vars
<1> DEFINE rest == Tail(chan[p][n])
<1>5. /\ rest \in Traffic
      /\ \A msg : Holds(rest, msg) => Holds(chan[p][n], msg)
      /\ Holds(chan[p][n], Head(chan[p][n])) /\ ~ Holds(rest, Head(chan[p][n]))
  BY <1>2, <1>3, <1>4, HeadTaken
<1>6. /\ Taken(p, n) \in [Node -> [Node -> Traffic]]
      /\ \A q, m \in Node :
           Taken(p, n)[q][m] = IF q = p /\ m = n THEN rest ELSE chan[q][m]
  BY <1>3, <1>4, <1>5 DEF Taken
<1> HIDE DEF rest
<1>7. wait_on' \in [Node -> SUBSET Node] /\ dropped' \in [Node -> BOOLEAN]
  <2>1. CASE HandleGet(n, p)
    <3>1. /\ wait_on' = wait_on
          /\ dropped' = dropped \/ dropped' = [dropped EXCEPT ![p] = TRUE]
      BY <2>1 DEF HandleGet
    <3> QED BY <1>1, <1>3, <3>1 DEF LifeTypes
  <2>2. CASE HandleReply(n, p)
    BY <1>1, <2>2 DEF HandleReply, LifeTypes
  <2> QED BY <1>2, <2>1, <2>2
<1>8. GoneEnded' /\ \A q \in Node : Unasked(q)' <=> Unasked(q)
  BY <1>1, <1>4 DEF GoneEnded, Gone, Unasked
<1>9. CASE chan' = Taken(p, n)
  <2>1. \A q, m \in Node : \A msg \in Message :
          Holds(chan'[q][m], msg) => Holds(chan[q][m], msg)
    BY <1>5, <1>6, <1>9
  <2>2. OneGetEach'
    BY <1>1, <1>8, <2>1, FewerMessages
  <2> QED BY <1>1, <1>4, <1>6, <1>7, <1>8, <1>9, <2>2 DEF LifeInv, LifeTypes
<1>10. CASE /\ Head(chan[p][n]) = "GET"
            /\ chan' = [Taken(p, n) EXCEPT ![n][p] = Append(@, "REPLY")]
  <2> DEFINE old == Taken(p, n)[n][p]
  <2>1. /\ Holds(chan[p][n], "GET") /\ ~ Holds(rest, "GET")
        /\ ~ Holds(chan[n][p], "REPLY") /\ ~ Unasked(p)
    BY <1>1, <1>3, <1>5, <1>10 DEF OneGetEach
  <2>2. /\ old \in Traffic /\ ~ Holds(old, "REPLY")
        /\ Holds(old, "GET") => Holds(chan[n][p], "GET") /\ n # p
    BY <1>3, <1>5, <1>6, <1>4, <2>1
  <2>3. /\ Append(old, "REPLY") \in Traffic
        /\ Holds(Append(old, "REPLY"), "GET") <=> Holds(old, "GET")
    BY <1>4, <2>2, MessageSent
  <2>4. /\ chan' \in [Node -> [Node -> Traffic]]
        /\ \A q, m \in Node :
             chan'[q][m] = IF q = n /\ m = p THEN Append(old, "REPLY")
                                             ELSE Taken(p, n)[q][m]
    <3> HIDE DEF Taken
    <3> QED BY <1>3, <1>6, <1>10, <2>3
  <2> HIDE DEF old
  <2>5. \A q, m \in Node :
          /\ Holds(chan'[q][m], "GET") =>
               Holds(chan[q][m], "GET") /\ ~ (q = p /\ m = n)
          /\ Holds(chan'[q][m], "REPLY") =>
               Holds(chan[q][m], "REPLY") \/ (q = n /\ m = p)
    BY <1>4, <1>5, <1>6, <2>1, <2>2, <2>3, <2>4
  <2>6. OneGetEach'
    BY <1>1, <1>8, <2>1, <2>5 DEF OneGetEach
  <2> QED BY <1>1, <1>4, <1>7, <1>8, <2>4, <2>6 DEF LifeInv, LifeTypes
<1> QED BY <1>2, <1>9, <1>10 DEF HandleGet, HandleReply

----------------------------------------------------------------------------
(***************************************************************************)
(* The theorems                                                            *)
(***************************************************************************)
LEMMA LifeKept ==
  ASSUME GroupInv, LifeInv, [StartNext]_allVars
  PROVE  LifeInv'
<1> DEFINE Other ==
      \/ UNCHANGED <<life, object>>
      \/ StartFounder
      \/ \E n, m \in Node : BeginJoin(n, m)
      \/ \E n \in Node :
           \/ Register(n) \/ GetReturn(n) \/ Signal(n) \/ SignalReturn(n)
           \/ ListenerStart(n) \/ ListenerStop(n) \/ HandleEnd(n)
<1>1. GroupTypes
  BY DEF GroupInv
<1>2. [Next]_vars => \A p \in Node : pc'[p] = "down" <=> pc[p] = "down"
  BY <1>1, NextEndsNobody
<1>3. ASSUME Other, \A p \in Node : pc'[p] = "down" <=> pc[p] = "down"
      PROVE  LifeInv'
  BY <1>1, <1>3, OthersKeepLife
<1>4. CASE \E n \in Node : End(n)
  BY <1>1, <1>4, EndKeepsLife
<1>5. CASE \E n \in Node : SendGets(n)
  BY <1>1, <1>5, SendGetsKeepsLife
<1>6. CASE \E n \in Node : HandleMessage(n)
  BY <1>1, <1>6, HandleMessageKeepsLife
<1>7. CASE [Next]_vars /\ UNCHANGED <<life, object>>
  BY <1>2, <1>3, <1>7
<1>8. CASE /\ \E n \in Node : \E init \in backlog[n] : Drop(n, init)
           /\ UNCHANGED <<life, object>>
  <2>1. pc' = pc
    BY <1>8 DEF Drop
  <2> QED BY <2>1, <1>3, <1>8
<1>9. CASE StartFounder
  <2>1. pc' = pc
    BY <1>9 DEF StartFounder, vars
  <2> QED BY <2>1, <1>3, <1>9
<1>10. CASE \E n, m \in Node : BeginJoin(n, m)
  <2>1. [Next]_vars
    BY <1>10 DEF BeginJoin, Next
  <2> QED BY <2>1, <1>2, <1>3, <1>10
<1>11. CASE \E n \in Node :
              \/ Register(n) \/ GetReturn(n) \/ Signal(n) \/ SignalReturn(n)
              \/ ListenerStart(n) \/ ListenerStop(n) \/ HandleEnd(n)
  <2>1. pc' = pc
    BY <1>11 DEF Register, GetReturn, Signal, SignalReturn, ListenerStart,
                 ListenerStop, HandleEnd, vars
  <2> QED BY <2>1, <1>3, <1>11
<1> QED
  BY <1>4, <1>5, <1>6, <1>7, <1>8, <1>9, <1>10, <1>11, StartSteps

LEMMA InitLifeInv == StartInit => LifeInv
<1> SUFFICES ASSUME StartInit PROVE LifeInv
  OBVIOUS
<1>1. LifeTypes
  BY NothingSent DEF StartInit, LifeTypes
<1>2. GoneEnded
  BY DEF StartInit, Init, GoneEnded, Gone
<1>3. OneGetEach
  <2>1. \A n, m \in Node : chan[n][m] = << >>
    BY DEF StartInit
  <2> QED BY <2>1, NothingSent DEF OneGetEach
<1> QED BY <1>1, <1>2, <1>3 DEF LifeInv

LEMMA StartInvariant ==
  ASSUME MaxJoining = 1
  PROVE  StartSpec => []StartInv
<1>1. StartInit => StartInv
  BY InitGroupInv, InitNobodyTwice, InitLifeInv DEF StartInit, StartInv, LossFree
<1>2. StartInv /\ [StartNext]_allVars => StartInv'
  BY StartImplementsLoss, LossNextKeeps, LossFreeKept, LifeKept DEF StartInv
<1> QED BY <1>1, <1>2, PTL DEF StartSpec

\* The processes that Startup describes are a group that grows as Group says, and
\* loses members.
THEOREM StartIsGroup == StartSpec => LossSpec
<1>1. StartInit => Init
  BY DEF StartInit
<1>2. [StartNext]_allVars => [LossNext]_vars
  BY StartImplementsLoss
<1> QED BY <1>1, <1>2, PTL DEF StartSpec, LossSpec

LEMMA SmallIds ==
  ASSUME GroupInv
  PROVE  IdsUpTo(Cardinality(Node)) /\ Cardinality(Node) \in Nat
<1>1. Served \subseteq Node
  BY DEF Served
<1>2. /\ Cardinality(Served) \in Nat /\ Cardinality(Node) \in Nat
      /\ Cardinality(Served) <= Cardinality(Node)
  BY <1>1, NodeAssumption, FS_Subset, FS_CardinalityType
<1> QED BY <1>2, HigherBound DEF GroupInv, IdsSmall

LEMMA AtMostOneElement ==
  ASSUME NEW S, \A x, y \in S : x = y
  PROVE  Cardinality(S) <= 1
<1>1. CASE S = {}
  BY <1>1, FS_EmptySet
<1>2. CASE S # {}
  <2>1. PICK x \in S : S = {x}
    BY <1>2
  <2> QED BY <2>1, FS_Singleton
<1> QED BY <1>1, <1>2

LEMMA GroupTypeOK ==
  ASSUME GroupInv
  PROVE  TypeOK
<1>1. GroupTypes /\ IdsUpTo(Cardinality(Node)) /\ Cardinality(Node) \in Nat
  BY SmallIds DEF GroupInv
<1>2. \A k \in Nat : k <= Cardinality(Node) => k \in Id
  BY <1>1 DEF Id
<1>3. my_id \in [Node -> Id] /\ target \in [Node -> Node]
      /\ pc \in [Node -> {"off", "ready", "reading", "joined", "robbed",
                            "garbled", "aborted", "down"}]
  BY <1>1, <1>2 DEF GroupTypes, IdsUpTo, PC
<1>4. ASSUME NEW n \in Node
      PROVE  /\ peers[n] \subseteq Peer
             /\ backlog[n] \subseteq [from : Node, id : Id]
             /\ accepted[n] \subseteq [id : Id, node : Node]
             /\ Cardinality(accepted[n]) <= 1
             /\ \A resp \in response[n] :
                  /\ resp.from \in Node /\ resp.id \in Id /\ resp.assigned \in Id
                  /\ resp.list \subseteq Listing
             /\ Cardinality(response[n]) <= 1
  <2>1. peers[n] \subseteq Peer
    BY <1>1, <1>2 DEF GroupTypes, IdsUpTo, Peer
  <2>2. backlog[n] \subseteq [from : Node, id : Id]
    BY <1>1, <1>2 DEF GroupTypes, IdsUpTo, InitMessage
  <2>3. accepted[n] \subseteq [id : Id, node : Node]
    BY <1>1, <1>2 DEF GroupTypes, IdsUpTo, Named
  <2>4. Cardinality(accepted[n]) <= 1 /\ Cardinality(response[n]) <= 1
    BY <1>1, AtMostOneElement DEF GroupTypes
  <2>5. ASSUME NEW resp \in response[n]
        PROVE  /\ resp.from \in Node /\ resp.id \in Id /\ resp.assigned \in Id
               /\ resp.list \subseteq Listing
    <3>1. resp \in Response
      BY <1>1 DEF GroupTypes
    <3>2. resp.from \in Node /\ resp.id \in Id /\ resp.assigned \in Id
      BY <1>1, <1>2, <3>1 DEF IdsUpTo, Response
    <3>3. resp.list \subseteq Listing
      BY <1>1, <1>2, <3>1 DEF IdsUpTo, Response, Named, Listing
    <3> QED BY <3>2, <3>3
  <2> QED BY <2>1, <2>2, <2>3, <2>4, <2>5
<1> QED BY <1>3, <1>4 DEF TypeOK

\* Every reachable state has its types: among others, no id is larger than the
\* number of processes, and no connection holds more than two messages.
THEOREM StartTypeCorrect ==
  ASSUME MaxJoining = 1
  PROVE  StartSpec => []StartTypeOK
<1>1. StartInv => StartTypeOK
  <2> SUFFICES ASSUME StartInv PROVE StartTypeOK
    OBVIOUS
  <2>1. TypeOK /\ LifeTypes /\ GoneEnded
    BY GroupTypeOK DEF StartInv, LifeInv
  <2>2. \A p, n \in Node :
          /\ Len(chan[p][n]) <= 2
          /\ \A i \in DOMAIN chan[p][n] : chan[p][n][i] \in {"GET", "REPLY"}
    BY <2>1, TrafficShort DEF LifeTypes, Message
  <2> QED BY <2>1, <2>2 DEF StartTypeOK, LifeTypes, GoneEnded
<1> QED BY <1>1, StartInvariant, PTL

\* No two running processes have the same id, however many have joined, one at a
\* time, and ended.
THEOREM IdsApart ==
  ASSUME MaxJoining = 1
  PROVE  StartSpec => []IdsUnique
<1>1. StartInv => IdsUnique
  <2> SUFFICES ASSUME StartInv, NEW n \in Node, NEW m \in Node, n # m,
                      Up(n), Up(m), my_id[n] # 0
               PROVE  my_id[n] # my_id[m]
    BY DEF IdsUnique
  <2>1. OneJoiner /\ JoinerConnects /\ MembersConnected /\ GroupTypes
    BY DEF StartInv, GroupInv
  <2>2. \A p \in Node : Up(p) => Joining(p) \/ pc[p] = "joined"
    BY <2>1 DEF GroupTypes, PC, Up, Joining
  <2>3. CASE pc[n] = "joined" /\ pc[m] = "joined"
    BY <2>1, <2>3 DEF MembersConnected
  <2>4. CASE Joining(n) /\ pc[m] = "joined"
    BY <2>1, <2>4 DEF JoinerConnects
  <2>5. CASE pc[n] = "joined" /\ Joining(m)
    BY <2>1, <2>5 DEF JoinerConnects
  <2> QED BY <2>1, <2>2, <2>3, <2>4, <2>5 DEF OneJoiner
<1> QED BY <1>1, StartInvariant, PTL

\* Any two processes whose joins have returned reach each other under their ids.
THEOREM MembersReachable ==
  ASSUME MaxJoining = 1
  PROVE  StartSpec => []GroupConnected
<1>1. StartInv => GroupConnected
  <2> SUFFICES ASSUME StartInv, NEW n \in Node, NEW m \in Node, n # m,
                      pc[n] = "joined", pc[m] = "joined"
               PROVE  Knows(m, n) \/ \E new \in accepted[m] : new.node = n
    BY DEF GroupConnected
  <2>1. Reached(m, n, my_id[n])
    BY DEF StartInv, GroupInv, MembersConnected
  <2> QED BY <2>1 DEF Reached, AcceptedAs, KnownAs, Knows
<1> QED BY <1>1, StartInvariant, PTL

\* Neither assertion of the handshake fails before a process ends.
THEOREM NobodyAborts ==
  ASSUME MaxJoining = 1
  PROVE  StartSpec => []AssertionsHold
<1>1. StartInv => AssertionsHold
  BY DEF StartInv, LossFree, NoneGone, NobodyTwice, NoneAborted, AssertionsHold
<1> QED BY <1>1, StartInvariant, PTL
====

---------------------------- MODULE MutexProofs ----------------------------
(***************************************************************************)
(* Theorems about Mutex, for every set of nodes and threads and every      *)
(* bound on the clocks.  The first part holds for any number of nodes; the *)
(* second needs AtMostTwoNodes, because with a third node a reply meant    *)
(* for one requester also answers another (run mutex_three).               *)
(***************************************************************************)
EXTENDS MutexInvariants, FiniteSetTheorems, SequenceTheorems, TLAPS

----------------------------------------------------------------------------
(***************************************************************************)
(* Lemmas about the operators of Mutex                                     *)
(***************************************************************************)

LEMMA HeadTailRange ==
  ASSUME NEW S, NEW s \in Seq(S), s # << >>
  PROVE  /\ Head(s) \in S
         /\ Tail(s) \in Seq(S)
         /\ Range(s) = {Head(s)} \cup Range(Tail(s))
<1>1. /\ Head(s) \in S
      /\ Tail(s) \in Seq(S)
      /\ Len(Tail(s)) = Len(s) - 1
      /\ \A i \in 1 .. Len(Tail(s)) : Tail(s)[i] = s[i + 1]
  BY HeadTailProperties
<1>2. /\ Range(s) = {s[i] : i \in 1 .. Len(s)}
      /\ Range(Tail(s)) = {Tail(s)[i] : i \in 1 .. Len(Tail(s))}
  BY <1>1, RangeEquality
<1>3. Len(s) \in Nat \ {0} /\ Head(s) = s[1]
  BY EmptySeq
<1>4. ASSUME NEW i \in 1 .. Len(s)
      PROVE  s[i] \in {Head(s)} \cup Range(Tail(s))
  <2>1. CASE i = 1
    BY <1>3, <2>1
  <2>2. CASE i # 1
    <3>1. i - 1 \in 1 .. Len(Tail(s)) /\ s[i] = Tail(s)[i - 1]
      BY <1>1, <1>3, <2>2
    <3> QED BY <1>2, <3>1
  <2> QED BY <2>1, <2>2
<1>5. ASSUME NEW i \in 1 .. Len(Tail(s))
      PROVE  Tail(s)[i] \in Range(s)
  <2>1. i + 1 \in 1 .. Len(s) /\ Tail(s)[i] = s[i + 1]
    BY <1>1, <1>3
  <2> QED BY <1>2, <2>1
<1>6. Head(s) \in Range(s)
  BY <1>2, <1>3
<1> QED BY <1>1, <1>2, <1>4, <1>5, <1>6

\* Inserting an entry keeps all the others and adds this one.
LEMMA InsertProperties ==
  ASSUME NEW S, NEW s \in Seq(S), NEW e \in S
  PROVE  /\ Insert(s, e) \in Seq(S)
         /\ Len(Insert(s, e)) = Len(s) + 1
         /\ Range(Insert(s, e)) = Range(s) \cup {e}
<1> DEFINE before == Cardinality({k \in DOMAIN s : ~ Precedes(e, s[k])})
           ins == Insert(s, e)
<1>1. Len(s) \in Nat /\ DOMAIN s = 1 .. Len(s) /\ \A k \in 1 .. Len(s) : s[k] \in S
  BY LenProperties, ElementOfSeq
<1>2. before \in 0 .. Len(s)
  <2>1. IsFiniteSet(1 .. Len(s)) /\ Cardinality(1 .. Len(s)) = Len(s)
    <3>1. 1 \in Int /\ Len(s) \in Int
      BY <1>1
    <3>2. /\ IsFiniteSet(1 .. Len(s))
          /\ Cardinality(1 .. Len(s)) =
               IF 1 > Len(s) THEN 0 ELSE Len(s) - 1 + 1
      BY <3>1, FS_Interval
    <3> QED BY <1>1, <3>2
  <2>2. {k \in DOMAIN s : ~ Precedes(e, s[k])} \in SUBSET (1 .. Len(s))
    BY <1>1
  <2>3. /\ IsFiniteSet({k \in DOMAIN s : ~ Precedes(e, s[k])})
        /\ before <= Len(s)
    BY <2>1, <2>2, FS_Subset
  <2>4. before \in Nat
    BY <2>3, FS_CardinalityType
  <2> QED BY <1>1, <2>3, <2>4
<1> HIDE DEF before
<1>3. ins = [k \in 1 .. Len(s) + 1 |-> IF k <= before THEN s[k]
                                       ELSE IF k = before + 1 THEN e
                                       ELSE s[k - 1]]
  BY DEF Insert, before
<1> HIDE DEF ins
<1>4. \A k \in 1 .. Len(s) + 1 :
        ins[k] = IF k <= before THEN s[k]
                 ELSE IF k = before + 1 THEN e ELSE s[k - 1]
  BY <1>3
<1>5. \A k \in 1 .. Len(s) + 1 : ins[k] \in S
  BY <1>1, <1>2, <1>4
<1>6. ins \in Seq(S) /\ Len(ins) = Len(s) + 1
  <2>1. ins \in [1 .. Len(s) + 1 -> S]
    BY <1>3, <1>5
  <2> QED BY <1>1, <2>1
<1>7. Range(ins) = {ins[k] : k \in 1 .. Len(s) + 1}
  BY <1>6, RangeEquality
<1>8. Range(s) = {s[k] : k \in 1 .. Len(s)}
  BY RangeEquality
<1>9. ASSUME NEW k \in 1 .. Len(s) + 1
      PROVE  ins[k] \in Range(s) \cup {e}
  <2>1. CASE k <= before
    BY <1>1, <1>2, <1>4, <1>8, <2>1
  <2>2. CASE k = before + 1
    BY <1>2, <1>4, <2>2
  <2>3. CASE k > before + 1
    <3>1. k - 1 \in 1 .. Len(s) /\ ins[k] = s[k - 1]
      BY <1>1, <1>2, <1>4, <2>3
    <3> QED BY <1>8, <3>1
  <2> QED BY <1>1, <1>2, <2>1, <2>2, <2>3
<1>10. ASSUME NEW k \in 1 .. Len(s)
       PROVE  s[k] \in Range(ins)
  <2>1. CASE k <= before
    <3>1. k \in 1 .. Len(s) + 1 /\ ins[k] = s[k]
      BY <1>1, <1>4, <2>1
    <3> QED BY <1>7, <3>1
  <2>2. CASE k > before
    <3>1. k + 1 \in 1 .. Len(s) + 1 /\ ins[k + 1] = s[k]
      BY <1>1, <1>2, <1>4, <2>2
    <3> QED BY <1>7, <3>1
  <2> QED BY <1>1, <1>2, <2>1, <2>2
<1>11. e \in Range(ins)
  <2>1. before + 1 \in 1 .. Len(s) + 1 /\ ins[before + 1] = e
    BY <1>1, <1>2, <1>4
  <2> QED BY <1>7, <2>1
<1>12. Range(ins) = Range(s) \cup {e}
  BY <1>7, <1>8, <1>9, <1>10, <1>11
<1> QED BY <1>6, <1>12 DEF ins

Channels == [Node -> [Node -> Seq(AnyMessage)]]

\* What n sends is appended to its connections to its peers and to no other.
LEMMA SentProperties ==
  ASSUME peers \in [Node -> SUBSET Node],
         NEW c \in Channels, NEW n \in Node, NEW ms \in Seq(AnyMessage)
  PROVE  /\ Sent(c, n, ms) \in Channels
         /\ \A p, q \in Node :
              Sent(c, n, ms)[p][q] =
                IF p = n /\ q \in peers[n] THEN c[p][q] \o ms ELSE c[p][q]
<1>1. \A q \in Node : c[n][q] \o ms \in Seq(AnyMessage)
  BY ConcatProperties DEF Channels
<1> QED BY <1>1 DEF Sent, Channels

\* Receiving takes one message from one connection.
LEMMA ReceivedProperties ==
  ASSUME chan \in Channels, NEW p \in Node, NEW n \in Node, chan[p][n] # << >>
  PROVE  /\ Head(chan[p][n]) \in AnyMessage
         /\ Received(p, n) \in Channels
         /\ \A a, b \in Node :
              Received(p, n)[a][b] =
                IF a = p /\ b = n THEN Tail(chan[p][n]) ELSE chan[a][b]
<1>1. /\ Head(chan[p][n]) \in AnyMessage
      /\ Tail(chan[p][n]) \in Seq(AnyMessage)
  BY HeadTailProperties DEF Channels
<1> QED BY <1>1 DEF Received, Channels

\* The clock moves past its own time and that of the message.
LEMMA ClockProperties ==
  ASSUME NEW n \in Node, l_time[n] \in Nat, NEW t \in Nat
  PROVE  /\ Clock(n, t) \in Nat
         /\ Clock(n, t) > t
         /\ Clock(n, t) > l_time[n]
BY DEF Clock

LEMMA MessagesOfUnlock ==
  ASSUME NEW n \in Node, l_time[n] \in Nat, requests[n] \in Seq(RequestEntry)
  PROVE  /\ Replies(n) \in Seq(MutexMessage)
         /\ Replies(n) \in Seq(AnyMessage)
         /\ Len(Replies(n)) = Len(requests[n])
         /\ \A m \in Range(Replies(n)) : m.type = "REPLY"
<1> DEFINE R == Replies(n)
<1>1. Len(requests[n]) \in Nat
  BY LenProperties
<1>2. \A k \in 1 .. Len(requests[n]) :
        ReplyMsg(l_time[n] + k) \in MutexMessage
  BY <1>1 DEF ReplyMsg, AnyMessage, MutexMessage
<1>3. R = [k \in 1 .. Len(requests[n]) |-> ReplyMsg(l_time[n] + k)]
  BY DEF Replies
<1>4. /\ R \in [1 .. Len(requests[n]) -> MutexMessage]
      /\ R \in [1 .. Len(requests[n]) -> AnyMessage]
  BY <1>2, <1>3 DEF AnyMessage
<1>5. R \in Seq(MutexMessage) /\ R \in Seq(AnyMessage) /\ Len(R) = Len(requests[n])
  BY <1>1, <1>4
<1>6. \A k \in DOMAIN R : R[k].type = "REPLY"
  BY <1>3 DEF ReplyMsg
<1>7. \A m \in Range(R) : m.type = "REPLY"
  BY <1>6 DEF Range
<1> QED BY <1>5, <1>7

----------------------------------------------------------------------------
(***************************************************************************)
(* Type correctness                                                        *)
(***************************************************************************)

LEMMA TypeInit == Init => TypeOK
<1> SUFFICES ASSUME Init PROVE TypeOK
  OBVIOUS
<1>1. << >> \in Seq(AnyMessage) /\ << >> \in Seq(RequestEntry)
  BY EmptySeq
<1> QED BY <1>1 DEF Init, MutexInit, TypeOK, NoRequest

LEMMA TypeLock ==
  ASSUME TypeOK, NEW n \in Node, NEW t \in Thread, Lock(n, t)
  PROVE  TypeOK'
<1> USE DEF TypeOK
<1>1. CASE LockLocal(n, t)
  BY <1>1 DEF LockLocal, Goto
<1>2. CASE LockRequest(n, t)
  <2>1. <<RequestMsg(l_time[n] + 1)>> \in Seq(AnyMessage)
    BY DEF RequestMsg, AnyMessage, MutexMessage
  <2>2. chan' \in Channels
    BY <1>2, <2>1, SentProperties DEF LockRequest, Channels
  <2>3. l_time' \in [Node -> Nat] /\ local_request' \in [Node -> Nat]
    BY <1>2 DEF LockRequest
  <2>4. /\ peers' \in [Node -> SUBSET Node]
        /\ requests' \in [Node -> Seq(RequestEntry)]
        /\ wait_on' \in [Node -> SUBSET Node]
        /\ local_mutex' \in [Node -> Thread \cup {NoThread}]
    BY <1>2 DEF LockRequest, Awaited
  <2>5. pc' \in [Node -> [Thread -> {"idle", "locking", "waiting", "held",
                                     "unlocking"}]]
    BY <1>2 DEF LockRequest, Goto
  <2> QED BY <2>2, <2>3, <2>4, <2>5 DEF Channels
<1>3. CASE LockWait(n, t)
  BY <1>3 DEF LockWait, Goto
<1> QED BY <1>1, <1>2, <1>3 DEF Lock

LEMMA TypeUnlock ==
  ASSUME TypeOK, NEW n \in Node, NEW t \in Thread, Unlock(n, t)
  PROVE  TypeOK'
<1> USE DEF TypeOK
<1>1. CASE UnlockReply(n, t)
  <2>1. chan' \in Channels
    BY <1>1, MessagesOfUnlock, SentProperties DEF UnlockReply, Channels
  <2>2. l_time[n] + Len(requests[n]) \in Nat /\ << >> \in Seq(RequestEntry)
    BY LenProperties, EmptySeq
  <2> QED
    BY <1>1, <2>1, <2>2 DEF UnlockReply, Goto, NoRequest, Channels
<1>2. CASE UnlockLocal(n, t)
  BY <1>2 DEF UnlockLocal, Goto
<1> QED BY <1>1, <1>2 DEF Unlock

LEMMA Taken ==
  ASSUME TypeOK, NEW n \in Node, NEW p \in Node, chan[p][n] # << >>,
         Message(p, n).type \in {"REQUEST", "REPLY"}
  PROVE  /\ Message(p, n) \in MutexMessage
         /\ Other(p, n) \in RequestEntry
         /\ Clock(n, Message(p, n).l_time) \in Nat
         /\ Clock(n, Message(p, n).l_time) > Message(p, n).l_time
         /\ Clock(n, Message(p, n).l_time) > l_time[n]
         /\ Received(p, n) \in Channels
<1>1. /\ Message(p, n) \in MutexMessage
      /\ Received(p, n) \in Channels
  BY ReceivedProperties, ForeignAssumption
  DEF TypeOK, Channels, Message, AnyMessage
<1>2. Message(p, n).l_time \in Nat
  BY <1>1 DEF MutexMessage
<1>3. Other(p, n) \in RequestEntry
  BY <1>2 DEF Other, RequestEntry
<1>4. l_time[n] \in Nat
  BY DEF TypeOK
<1> QED BY <1>1, <1>2, <1>3, <1>4, ClockProperties

LEMMA TypeHandle ==
  ASSUME TypeOK, NEW n \in Node, NEW p \in Node, Handle(n, p)
  PROVE  TypeOK'
<1> DEFINE now == Clock(n, Message(p, n).l_time)
<1>1. chan[p][n] # << >> /\ Message(p, n).type \in {"REQUEST", "REPLY"}
  BY DEF Handle, HandleRequest, HandleReply
<1>2. /\ Other(p, n) \in RequestEntry
      /\ now \in Nat
      /\ Received(p, n) \in Channels
  BY <1>1, Taken
<1>3. /\ peers \in [Node -> SUBSET Node]
      /\ l_time \in [Node -> Nat]
      /\ requests \in [Node -> Seq(RequestEntry)]
      /\ wait_on \in [Node -> SUBSET Node]
  BY DEF TypeOK
<1>4. /\ chan' \in Channels
      /\ l_time' \in [Node -> Nat]
      /\ requests' \in [Node -> Seq(RequestEntry)]
      /\ wait_on' \in [Node -> SUBSET Node]
  <2>1. CASE HandleRequest(n, p) /\ ReplyAtOnce(n, Other(p, n))
    <3>1. /\ l_time' = [l_time EXCEPT ![n] = now + 1]
          /\ chan' = Sent(Received(p, n), n, <<ReplyMsg(now + 1)>>)
          /\ UNCHANGED <<requests, wait_on>>
      BY <2>1 DEF HandleRequest
    <3>2. <<ReplyMsg(now + 1)>> \in Seq(AnyMessage)
      BY <1>2 DEF ReplyMsg, AnyMessage, MutexMessage
    <3>3. chan' \in Channels
      BY <1>2, <1>3, <3>1, <3>2, SentProperties
    <3> QED BY <1>2, <1>3, <3>1, <3>3
  <2>2. CASE HandleRequest(n, p) /\ ~ ReplyAtOnce(n, Other(p, n))
    <3>1. /\ l_time' = [l_time EXCEPT ![n] = now]
          /\ chan' = Received(p, n)
          /\ requests' = [requests EXCEPT ![n] = Insert(@, Other(p, n))]
          /\ UNCHANGED wait_on
      BY <2>2 DEF HandleRequest
    <3>2. Insert(requests[n], Other(p, n)) \in Seq(RequestEntry)
      BY <1>2, <1>3, InsertProperties
    <3> QED BY <1>2, <1>3, <3>1, <3>2
  <2>3. CASE HandleReply(n, p)
    BY <1>2, <1>3, <2>3 DEF HandleReply
  <2> QED BY <2>1, <2>2, <2>3 DEF Handle
<1>5. UNCHANGED <<peers, local_request, local_mutex, pc>>
  BY DEF Handle, HandleRequest, HandleReply
<1> QED BY <1>4, <1>5 DEF TypeOK, Channels

\* Every reachable state has its types, the clocks included: no step takes a
\* clock, a request or a deferred entry out of its range.
THEOREM TypeCorrect == Spec => []TypeOK
<1>1. Init => TypeOK
  BY TypeInit
<1>2. TypeOK /\ [Next]_vars => TypeOK'
  <2> SUFFICES ASSUME TypeOK, [Next]_vars PROVE TypeOK'
    OBVIOUS
  <2>1. CASE Next
    BY <2>1, TypeLock, TypeUnlock, TypeHandle DEF Next
  <2>2. CASE UNCHANGED vars
    BY <2>2 DEF vars, mutexVars, TypeOK
  <2> QED BY <2>1, <2>2
<1> QED BY <1>1, <1>2, PTL DEF Spec

----------------------------------------------------------------------------
(***************************************************************************)
(* Any number of nodes: local_mutex, the local request and the waiter      *)
(***************************************************************************)

\* The thread that is inside lock or unlock is alone there on its node.
LEMMA OneInside ==
  ASSUME LocalInv, NEW n \in Node, NEW s \in Thread, NEW t \in Thread,
         pc[n][s] # "idle", pc[n][t] # "idle"
  PROVE  s = t
BY DEF LocalInv, OwnerInside

LEMMA LocalInit == Init => LocalInv
<1> SUFFICES ASSUME Init PROVE LocalInv
  OBVIOUS
<1>1. TypeOK
  BY TypeInit
<1> QED
  BY <1>1 DEF LocalInv, PeersKnown, NothingToSelf, OwnerInside,
              RequestWhileEngaged, AwaitedWhileWaiting, Init, MutexInit,
              Engaged, NoRequest

\* The message that a step of n sends goes to its peers, so not to n.
LEMMA SelfStep ==
  ASSUME TypeOK, PeersKnown, NothingToSelf, [Next]_vars
  PROVE  NothingToSelf'
<1> SUFFICES ASSUME NEW q \in Node
             PROVE  chan'[q][q] = << >>
  BY DEF NothingToSelf
<1>1. /\ chan \in Channels
      /\ chan[q][q] = << >>
      /\ \A n \in Node : n \notin peers[n]
      /\ peers \in [Node -> SUBSET Node]
  BY DEF TypeOK, Channels, PeersKnown, NothingToSelf
<1>2. ASSUME NEW n \in Node, NEW c \in Channels, c[q][q] = << >>,
             NEW ms \in Seq(AnyMessage)
      PROVE  Sent(c, n, ms)[q][q] = << >>
  BY <1>1, <1>2, SentProperties
<1>3. ASSUME NEW n \in Node, NEW p \in Node, chan[p][n] # << >>
      PROVE  /\ Received(p, n) \in Channels
             /\ Received(p, n)[q][q] = << >>
  BY <1>1, <1>3, ReceivedProperties
<1>4. ASSUME NEW n \in Node, NEW t \in Thread, LockRequest(n, t)
      PROVE  chan'[q][q] = << >>
  <2>1. <<RequestMsg(l_time[n] + 1)>> \in Seq(AnyMessage)
    BY DEF RequestMsg, AnyMessage, MutexMessage, TypeOK
  <2> QED BY <1>1, <1>2, <1>4, <2>1 DEF LockRequest
<1>5. ASSUME NEW n \in Node, NEW t \in Thread, UnlockReply(n, t)
      PROVE  chan'[q][q] = << >>
  <2>1. Replies(n) \in Seq(AnyMessage)
    BY MessagesOfUnlock DEF TypeOK
  <2> QED BY <1>1, <1>2, <1>5, <2>1 DEF UnlockReply
<1>6. ASSUME NEW n \in Node, NEW p \in Node, HandleRequest(n, p)
      PROVE  chan'[q][q] = << >>
  <2> DEFINE ms == <<ReplyMsg(Clock(n, Message(p, n).l_time) + 1)>>
  <2>1. chan[p][n] # << >> /\ Message(p, n).type = "REQUEST"
    BY <1>6 DEF HandleRequest
  <2>2. ms \in Seq(AnyMessage)
    BY <2>1, Taken DEF ReplyMsg, AnyMessage, MutexMessage
  <2>3. chan' = Sent(Received(p, n), n, ms) \/ chan' = Received(p, n)
    BY <1>6 DEF HandleRequest
  <2> HIDE DEF ms
  <2>4. /\ Received(p, n) \in Channels
        /\ Received(p, n)[q][q] = << >>
    BY <1>3, <2>1
  <2> QED BY <1>2, <2>2, <2>3, <2>4
<1>7. ASSUME NEW n \in Node, NEW p \in Node, HandleReply(n, p)
      PROVE  chan'[q][q] = << >>
  BY <1>3, <1>7 DEF HandleReply
<1>8. CASE UNCHANGED chan
  BY <1>1, <1>8
<1> QED
  BY <1>4, <1>5, <1>6, <1>7, <1>8
  DEF Next, Lock, Unlock, Handle, LockLocal, LockWait, UnlockLocal, vars

LEMMA LocalStep ==
  ASSUME LocalInv, [Next]_vars
  PROVE  LocalInv'
<1> USE DEF Engaged, Goto, NoRequest
<1>t. TypeOK'
  <2>1. TypeOK
    BY DEF LocalInv
  <2>2. CASE Next
    BY <2>1, <2>2, TypeLock, TypeUnlock, TypeHandle DEF Next
  <2>3. CASE UNCHANGED vars
    BY <2>1, <2>3 DEF vars, mutexVars, TypeOK
  <2> QED BY <2>2, <2>3
<1>ty. /\ PeersKnown /\ OwnerInside /\ RequestWhileEngaged
       /\ AwaitedWhileWaiting
       /\ chan \in Channels /\ NothingToSelf
       /\ l_time \in [Node -> Nat]
       /\ local_request \in [Node -> Nat]
       /\ wait_on \in [Node -> SUBSET Node]
       /\ local_mutex \in [Node -> Thread \cup {NoThread}]
       /\ pc \in [Node -> [Thread -> {"idle", "locking", "waiting", "held",
                                      "unlocking"}]]
  BY DEF LocalInv, TypeOK, Channels
<1>self. NothingToSelf'
  BY <1>ty, SelfStep DEF LocalInv
<1>1. ASSUME NEW n \in Node, NEW t \in Thread, LockLocal(n, t)
      PROVE  LocalInv'
  <2>1. PeersKnown'
    BY <1>ty, <1>1 DEF PeersKnown, LockLocal
  <2>2. OwnerInside'
    BY <1>ty, <1>1, ThreadAssumption DEF OwnerInside, LockLocal
  <2>3. RequestWhileEngaged'
    BY <1>ty, <1>1 DEF RequestWhileEngaged, OwnerInside, LockLocal
  <2>4. AwaitedWhileWaiting'
    BY <1>ty, <1>1 DEF AwaitedWhileWaiting, OwnerInside, LockLocal
  <2> QED BY <1>t, <1>self, <2>1, <2>2, <2>3, <2>4 DEF LocalInv
<1>2. ASSUME NEW n \in Node, NEW t \in Thread, LockRequest(n, t)
      PROVE  LocalInv'
  <2>1. PeersKnown'
    BY <1>ty, <1>2 DEF PeersKnown, LockRequest, Awaited
  <2>2. OwnerInside'
    BY <1>ty, <1>2 DEF OwnerInside, LockRequest, Awaited, PeersKnown
  <2>3. RequestWhileEngaged'
    BY <1>ty, <1>2 DEF RequestWhileEngaged, OwnerInside, LockRequest, Awaited, PeersKnown
  <2>4. AwaitedWhileWaiting'
    <3>1. Awaited(n) \subseteq Node /\ n \notin Awaited(n)
      BY <1>ty DEF Awaited, PeersKnown
    <3>2. /\ wait_on' = [wait_on EXCEPT ![n] = Awaited(n)]
          /\ pc' = [pc EXCEPT ![n][t] = "waiting"]
      BY <1>2 DEF LockRequest
    <3>3. ASSUME NEW m \in Node, NEW s \in Thread, pc[m][s] = "waiting"
          PROVE  pc'[m][s] = "waiting"
      BY <1>ty, <3>2, <3>3
    <3>4. pc'[n][t] = "waiting"
      BY <1>ty, <3>2
    <3> QED BY <1>ty, <3>1, <3>2, <3>3, <3>4 DEF AwaitedWhileWaiting
  <2> QED BY <1>t, <1>self, <2>1, <2>2, <2>3, <2>4 DEF LocalInv
<1>3. ASSUME NEW n \in Node, NEW t \in Thread, LockWait(n, t)
      PROVE  LocalInv'
  <2>1. PeersKnown'
    BY <1>ty, <1>3 DEF PeersKnown, LockWait
  <2>2. OwnerInside'
    BY <1>ty, <1>3 DEF OwnerInside, LockWait
  <2>3. RequestWhileEngaged'
    BY <1>ty, <1>3 DEF RequestWhileEngaged, OwnerInside, LockWait
  <2>4. AwaitedWhileWaiting'
    BY <1>ty, <1>3 DEF AwaitedWhileWaiting, OwnerInside, LockWait
  <2> QED BY <1>t, <1>self, <2>1, <2>2, <2>3, <2>4 DEF LocalInv
<1>4. ASSUME NEW n \in Node, NEW t \in Thread, UnlockReply(n, t)
      PROVE  LocalInv'
  <2>1. PeersKnown'
    BY <1>ty, <1>4 DEF PeersKnown, UnlockReply
  <2>2. OwnerInside'
    BY <1>ty, <1>4 DEF OwnerInside, UnlockReply
  <2>3. RequestWhileEngaged'
    BY <1>ty, <1>4 DEF RequestWhileEngaged, OwnerInside, UnlockReply
  <2>4. AwaitedWhileWaiting'
    BY <1>ty, <1>4 DEF AwaitedWhileWaiting, OwnerInside, UnlockReply
  <2> QED BY <1>t, <1>self, <2>1, <2>2, <2>3, <2>4 DEF LocalInv
<1>5. ASSUME NEW n \in Node, NEW t \in Thread, UnlockLocal(n, t)
      PROVE  LocalInv'
  <2>1. PeersKnown'
    BY <1>ty, <1>5 DEF PeersKnown, UnlockLocal
  <2>2. OwnerInside'
    BY <1>ty, <1>5 DEF OwnerInside, UnlockLocal
  <2>3. RequestWhileEngaged'
    BY <1>ty, <1>5 DEF RequestWhileEngaged, OwnerInside, UnlockLocal
  <2>4. AwaitedWhileWaiting'
    BY <1>ty, <1>5 DEF AwaitedWhileWaiting, OwnerInside, UnlockLocal
  <2> QED BY <1>t, <1>self, <2>1, <2>2, <2>3, <2>4 DEF LocalInv
<1>6. ASSUME NEW n \in Node, NEW p \in Node, HandleRequest(n, p)
      PROVE  LocalInv'
  <2>1. PeersKnown'
    BY <1>ty, <1>6 DEF PeersKnown, HandleRequest
  <2>2. OwnerInside'
    BY <1>ty, <1>6 DEF OwnerInside, HandleRequest
  <2>3. RequestWhileEngaged'
    BY <1>ty, <1>6 DEF RequestWhileEngaged, OwnerInside, HandleRequest
  <2>4. AwaitedWhileWaiting'
    BY <1>ty, <1>6 DEF AwaitedWhileWaiting, OwnerInside, HandleRequest
  <2> QED BY <1>t, <1>self, <2>1, <2>2, <2>3, <2>4 DEF LocalInv
<1>7. ASSUME NEW n \in Node, NEW p \in Node, HandleReply(n, p)
      PROVE  LocalInv'
  <2>1. PeersKnown'
    BY <1>ty, <1>7 DEF PeersKnown, HandleReply
  <2>2. OwnerInside'
    BY <1>ty, <1>7 DEF OwnerInside, HandleReply
  <2>3. RequestWhileEngaged'
    BY <1>ty, <1>7 DEF RequestWhileEngaged, OwnerInside, HandleReply
  <2>4. AwaitedWhileWaiting'
    <3>1. /\ wait_on' = [wait_on EXCEPT ![n] = @ \ {p}]
          /\ pc' = pc
      BY <1>7 DEF HandleReply
    <3>2. ASSUME NEW m \in Node
          PROVE  wait_on'[m] \subseteq wait_on[m]
      BY <1>ty, <3>1
    <3> QED BY <3>1, <3>2, <1>ty DEF AwaitedWhileWaiting
  <2> QED BY <1>t, <1>self, <2>1, <2>2, <2>3, <2>4 DEF LocalInv
<1>8. CASE UNCHANGED vars
  BY <1>t, <1>ty, <1>self, <1>8
  DEF LocalInv, PeersKnown, OwnerInside, RequestWhileEngaged,
      AwaitedWhileWaiting, vars, mutexVars
<1> QED
  BY <1>1, <1>2, <1>3, <1>4, <1>5, <1>6, <1>7, <1>8
  DEF Next, Lock, Unlock, Handle

LEMMA LocalInvariant == Spec => []LocalInv
BY LocalInit, LocalStep, PTL DEF Spec

\* The assertion of edsm_mutex_lock never fires: a thread that has taken
\* local_mutex finds that the request of the thread before it is gone.
THEOREM RequestFree == Spec => []LocalRequestFree
<1>1. LocalInv => LocalRequestFree
  <2> SUFFICES ASSUME LocalInv, NEW n \in Node, NEW t \in Thread,
                      pc[n][t] = "locking", local_request[n] # NoRequest
               PROVE  FALSE
    BY DEF LocalRequestFree
  <2>1. PICK s \in Thread : Engaged(n, s)
    BY DEF LocalInv, RequestWhileEngaged
  <2>2. s = t
    BY <2>1, OneInside DEF Engaged
  <2> QED BY <2>1, <2>2 DEF Engaged
<1> QED BY <1>1, LocalInvariant, PTL

----------------------------------------------------------------------------
(***************************************************************************)
(* Any number of nodes: no deferred request comes first, and none is lost  *)
(***************************************************************************)

\* What is added at the end of a connection leaves what was there.
LEMMA CarriesAppend ==
  ASSUME NEW s \in Seq(AnyMessage), NEW ms \in Seq(AnyMessage)
  PROVE  /\ Range(s \o ms) = Range(s) \cup Range(ms)
         /\ \A type : Carries(s \o ms, type) <=>
                        Carries(s, type) \/ Carries(ms, type)
BY RangeConcatenation DEF Carries

LEMMA GrowthKeeps ==
  ASSUME NEW s \in Seq(AnyMessage), NEW ms \in Seq(AnyMessage),
         NEW longer, longer = s \/ longer = s \o ms
  PROVE  /\ Range(s) \subseteq Range(longer)
         /\ \A type : Carries(s, type) => Carries(longer, type)
<1>1. Range(s \o ms) = Range(s) \cup Range(ms)
  BY CarriesAppend
<1>2. Range(s) \subseteq Range(longer)
  <2>1. CASE longer = s
    BY <2>1
  <2>2. CASE longer = s \o ms
    BY <1>1, <2>2
  <2> QED BY <2>1, <2>2
<1> QED BY <1>2 DEF Carries

LEMMA CarriesOne ==
  ASSUME NEW m
  PROVE  /\ Range(<<m>>) = {m}
         /\ \A type : Carries(<<m>>, type) <=> m.type = type
<1>1. Range(<<m>>) = {m}
  BY DEF Range
<1> QED BY <1>1 DEF Carries

LEMMA CarriesTail ==
  ASSUME NEW s \in Seq(AnyMessage), s # << >>
  PROVE  \A type : Carries(s, type) <=>
                     Head(s).type = type \/ Carries(Tail(s), type)
BY HeadTailRange DEF Carries

LEMMA RequestsAreOthers ==
  ASSUME LocalInv, DeferredFollow, NEW n \in Node, requests[n] # << >>
  PROVE  local_request[n] # NoRequest
<1>1. requests[n] \in Seq(RequestEntry)
  BY DEF LocalInv, TypeOK
<1>2. Head(requests[n]) \in Range(requests[n])
  BY <1>1, HeadTailRange
<1> QED BY <1>2 DEF DeferredFollow

(***************************************************************************)
(* What each step that touches a connection does to all of them.           *)
(***************************************************************************)
LEMMA RequestSent ==
  ASSUME LocalInv, NEW n \in Node, NEW t \in Thread, LockRequest(n, t)
  PROVE  \A a, b \in Node :
           chan'[a][b] = IF a = n /\ b # n
                           THEN chan[a][b] \o <<RequestMsg(l_time[n] + 1)>>
                           ELSE chan[a][b]
<1> DEFINE ms == <<RequestMsg(l_time[n] + 1)>>
<1>1. ms \in Seq(AnyMessage)
  BY DEF RequestMsg, AnyMessage, MutexMessage, LocalInv, TypeOK
<1>2. /\ chan \in Channels /\ peers \in [Node -> SUBSET Node]
      /\ \A b \in Node : b \in peers[n] <=> b # n
  BY DEF LocalInv, TypeOK, Channels, PeersKnown
<1>3. chan' = Sent(chan, n, ms)
  BY DEF LockRequest
<1> HIDE DEF ms
<1>4. \A a, b \in Node :
        chan'[a][b] = IF a = n /\ b # n THEN chan[a][b] \o ms ELSE chan[a][b]
  BY <1>1, <1>2, <1>3, SentProperties
<1> QED BY <1>4 DEF ms

LEMMA RepliesSent ==
  ASSUME LocalInv, NEW n \in Node, NEW t \in Thread, UnlockReply(n, t)
  PROVE  \A a, b \in Node :
           chan'[a][b] = IF a = n /\ b # n THEN chan[a][b] \o Replies(n)
                                           ELSE chan[a][b]
<1>1. Replies(n) \in Seq(AnyMessage)
  BY MessagesOfUnlock DEF LocalInv, TypeOK
<1>2. /\ chan \in Channels /\ peers \in [Node -> SUBSET Node]
      /\ \A b \in Node : b \in peers[n] <=> b # n
  BY DEF LocalInv, TypeOK, Channels, PeersKnown
<1>3. chan' = Sent(chan, n, Replies(n))
  BY DEF UnlockReply
<1> QED BY <1>1, <1>2, <1>3, SentProperties

LEMMA RequestAccepted ==
  ASSUME LocalInv, NEW n \in Node, NEW p \in Node,
         HandleRequest(n, p), ReplyAtOnce(n, Other(p, n))
  PROVE  /\ p # n
         /\ \A a, b \in Node :
              chan'[a][b] =
                IF a = p /\ b = n THEN Tail(chan[p][n])
                ELSE IF a = n /\ b # n
                  THEN chan[a][b]
                         \o <<ReplyMsg(Clock(n, Message(p, n).l_time) + 1)>>
                ELSE chan[a][b]
<1> DEFINE ms == <<ReplyMsg(Clock(n, Message(p, n).l_time) + 1)>>
<1>1. TypeOK /\ chan[p][n] # << >> /\ Message(p, n).type = "REQUEST"
  BY DEF HandleRequest, LocalInv
<1>2. p # n
  BY <1>1 DEF LocalInv, NothingToSelf
<1>3. ms \in Seq(AnyMessage)
  BY <1>1, Taken DEF ReplyMsg, AnyMessage, MutexMessage
<1>4. /\ chan \in Channels /\ peers \in [Node -> SUBSET Node]
      /\ \A b \in Node : b \in peers[n] <=> b # n
  BY DEF LocalInv, TypeOK, Channels, PeersKnown
<1>5. chan' = Sent(Received(p, n), n, ms)
  BY DEF HandleRequest
<1>6. /\ Received(p, n) \in Channels
      /\ \A a, b \in Node :
           Received(p, n)[a][b] =
             IF a = p /\ b = n THEN Tail(chan[p][n]) ELSE chan[a][b]
  BY <1>1, <1>4, ReceivedProperties
<1> HIDE DEF ms
<1>7. \A a, b \in Node :
        chan'[a][b] = IF a = n /\ b # n THEN Received(p, n)[a][b] \o ms
                                        ELSE Received(p, n)[a][b]
  BY <1>3, <1>4, <1>5, <1>6, SentProperties
<1>8. \A a, b \in Node :
        chan'[a][b] =
          IF a = p /\ b = n THEN Tail(chan[p][n])
          ELSE IF a = n /\ b # n THEN chan[a][b] \o ms
          ELSE chan[a][b]
  BY <1>2, <1>6, <1>7
<1> QED BY <1>2, <1>8 DEF ms

LEMMA MessageTaken ==
  ASSUME LocalInv, NEW n \in Node, NEW p \in Node, chan[p][n] # << >>,
         chan' = Received(p, n)
  PROVE  /\ p # n
         /\ \A a, b \in Node :
              chan'[a][b] = IF a = p /\ b = n THEN Tail(chan[p][n])
                                              ELSE chan[a][b]
<1>1. p # n
  BY DEF LocalInv, NothingToSelf
<1>2. chan \in Channels
  BY DEF LocalInv, TypeOK, Channels
<1> QED BY <1>1, <1>2, ReceivedProperties

(***************************************************************************)
(* A node defers only what comes after its own request.                    *)
(***************************************************************************)
LEMMA DeferredStep ==
  ASSUME LocalInv, DeferredFollow, [Next]_vars
  PROVE  DeferredFollow'
<1> SUFFICES ASSUME NEW q \in Node, NEW r \in Range(requests'[q])
             PROVE  /\ local_request'[q] # NoRequest
                    /\ Precedes(LocalRequest(q)', r)
  BY DEF DeferredFollow
<1> USE DEF LocalRequest
<1>1. /\ requests \in [Node -> Seq(RequestEntry)]
      /\ local_request \in [Node -> Nat]
      /\ l_time \in [Node -> Nat]
      /\ TypeOK
  BY DEF LocalInv, TypeOK
<1>2. CASE /\ requests'[q] = requests[q]
           /\ local_request'[q] = local_request[q]
  BY <1>2 DEF DeferredFollow, Precedes
<1>3. ASSUME NEW n \in Node, NEW t \in Thread, LockRequest(n, t)
      PROVE  requests'[q] = requests[q] /\ local_request'[q] = local_request[q]
  <2>1. local_request[n] = NoRequest
    <3>1. \A s \in Thread : Engaged(n, s) => s = t
      BY <1>3, OneInside DEF LockRequest, Goto, Engaged
    <3> QED
      BY <1>3, <3>1
      DEF LocalInv, RequestWhileEngaged, LockRequest, Goto, Engaged
  <2>2. CASE q = n
    <3>1. requests[q] = << >>
      BY <2>1, <2>2, RequestsAreOthers
    <3>2. Range(requests'[q]) = {}
      BY <1>3, <3>1 DEF LockRequest, Range
    <3> QED BY <3>2
  <2>3. CASE q # n
    BY <1>1, <1>3, <2>3 DEF LockRequest
  <2> QED BY <2>2, <2>3
<1>4. ASSUME NEW n \in Node, NEW t \in Thread, UnlockReply(n, t)
      PROVE  requests'[q] = requests[q] /\ local_request'[q] = local_request[q]
  <2>1. CASE q = n
    <3>1. Range(requests'[q]) = {}
      BY <1>1, <1>4, <2>1 DEF UnlockReply, Range
    <3> QED BY <3>1
  <2>2. CASE q # n
    BY <1>1, <1>4, <2>2 DEF UnlockReply
  <2> QED BY <2>1, <2>2
<1>5. ASSUME NEW n \in Node, NEW p \in Node, HandleRequest(n, p)
      PROVE  /\ local_request'[q] # NoRequest
             /\ Precedes(LocalRequest(q)', r)
  <2>1. local_request' = local_request
    BY <1>5 DEF HandleRequest
  <2>2. CASE ReplyAtOnce(n, Other(p, n)) \/ q # n
    <3>1. requests'[q] = requests[q]
      BY <1>1, <1>5, <2>2 DEF HandleRequest
    <3> QED BY <1>2, <2>1, <3>1
  <2>3. CASE ~ ReplyAtOnce(n, Other(p, n)) /\ q = n
    <3>1. chan[p][n] # << >> /\ Message(p, n).type = "REQUEST"
      BY <1>5 DEF HandleRequest
    <3>2. Other(p, n) \in RequestEntry
      BY <1>1, <3>1, Taken
    <3>3. Range(requests'[q]) = Range(requests[q]) \cup {Other(p, n)}
      <4>1. requests'[q] = Insert(requests[q], Other(p, n))
        BY <1>1, <1>5, <2>3 DEF HandleRequest
      <4> QED BY <1>1, <3>2, <4>1, InsertProperties
    <3>4. CASE r \in Range(requests[q])
      BY <2>1, <3>4 DEF DeferredFollow, Precedes
    <3>5. CASE r = Other(p, n)
      <4>1. local_request[q] # NoRequest /\ ~ Precedes(r, LocalRequest(q))
        BY <2>3, <3>5 DEF ReplyAtOnce
      <4>2. p # q
        BY <2>3, <3>1 DEF LocalInv, NothingToSelf
      <4>3. r.l_time \in Nat /\ r.peer_id = p
        BY <3>2, <3>5 DEF RequestEntry, Other
      <4>4. p \in Nat /\ q \in Nat /\ local_request[q] \in Nat
        BY <1>1, NodeAssumption
      <4>5. Precedes(LocalRequest(q), r)
        BY <4>1, <4>2, <4>3, <4>4 DEF Precedes
      <4> QED BY <2>1, <4>1, <4>5 DEF Precedes
    <3> QED BY <3>3, <3>4, <3>5
  <2> QED BY <2>2, <2>3
<1>6. CASE UNCHANGED <<requests, local_request>>
  BY <1>2, <1>6
<1> QED
  BY <1>2, <1>3, <1>4, <1>5, <1>6
  DEF Next, Lock, Unlock, Handle, LockLocal, LockWait, UnlockLocal,
      HandleReply, vars, mutexVars

(***************************************************************************)
(* A reply that is awaited stays owed: each step keeps the place where it  *)
(* is to come from, or moves it to the next place.                         *)
(***************************************************************************)
LEMMA StillOwed ==
  ASSUME NoLostReply, NEW q \in Node, NEW p \in wait_on[q],
         local_request'[q] = local_request[q],
         RequestMsg(local_request[q]) \in Range(chan[q][p])
           => RequestMsg(local_request[q]) \in Range(chan'[q][p]),
         Range(requests[p]) \subseteq Range(requests'[p]),
         \A t \in Thread : Engaged(p, t) => Engaged(p, t)',
         Carries(chan[p][q], "REPLY") => Carries(chan'[p][q], "REPLY")
  PROVE  ReplyOwed(q, p)'
<1>1. ReplyOwed(q, p)
  BY DEF NoLostReply
<1>2. CASE RequestMsg(local_request[q]) \in Range(chan[q][p])
  BY <1>2 DEF ReplyOwed
<1>3. CASE /\ \E r \in Range(requests[p]) : r.peer_id = q
           /\ \E t \in Thread : Engaged(p, t)
  BY <1>3 DEF ReplyOwed, Engaged
<1>4. CASE Carries(chan[p][q], "REPLY")
  BY <1>4 DEF ReplyOwed, Carries
<1> QED BY <1>1, <1>2, <1>3, <1>4 DEF ReplyOwed, Engaged

LEMMA OwedStep ==
  ASSUME AnswerInv, [Next]_vars
  PROVE  NoLostReply'
<1> SUFFICES ASSUME NEW q \in Node, NEW p \in Node, p \in wait_on'[q]
             PROVE  ReplyOwed(q, p)'
  <2>1. wait_on' \in [Node -> SUBSET Node]
    BY LocalStep DEF AnswerInv, LocalInv, TypeOK
  <2> QED BY <2>1 DEF NoLostReply
<1>inv. LocalInv /\ DeferredFollow /\ NoLostReply /\ TypeOK
  BY DEF AnswerInv, LocalInv
<1>ty. /\ chan \in Channels
       /\ \A a, b \in Node : chan[a][b] \in Seq(AnyMessage)
       /\ l_time \in [Node -> Nat]
       /\ local_request \in [Node -> Nat]
       /\ requests \in [Node -> Seq(RequestEntry)]
       /\ wait_on \in [Node -> SUBSET Node]
       /\ pc \in [Node -> [Thread -> {"idle", "locking", "waiting", "held",
                                      "unlocking"}]]
  BY <1>inv DEF TypeOK, Channels
<1>1. ASSUME NEW n \in Node, NEW t \in Thread,
             LockLocal(n, t) \/ LockWait(n, t) \/ UnlockLocal(n, t)
      PROVE  ReplyOwed(q, p)'
  <2>1. UNCHANGED <<chan, local_request, requests, wait_on>>
    BY <1>1 DEF LockLocal, LockWait, UnlockLocal
  <2>2. \A s \in Thread : Engaged(p, s) => Engaged(p, s)'
    <3>1. \/ pc[n][t] = "idle" /\ pc' = [pc EXCEPT ![n][t] = "locking"]
          \/ pc[n][t] = "waiting" /\ pc' = [pc EXCEPT ![n][t] = "held"]
          \/ pc[n][t] = "unlocking" /\ pc' = [pc EXCEPT ![n][t] = "idle"]
      BY <1>1 DEF LockLocal, LockWait, UnlockLocal, Goto
    <3>2. ASSUME NEW s \in Thread, pc[p][s] \in {"waiting", "held"}
          PROVE  pc'[p][s] \in {"waiting", "held"}
      <4>1. CASE p = n /\ s = t
        BY <1>ty, <3>1, <3>2, <4>1
      <4>2. CASE ~ (p = n /\ s = t)
        <5>1. pc'[p][s] = pc[p][s]
          BY <1>ty, <3>1, <4>2
        <5> QED BY <3>2, <5>1
      <4> QED BY <4>1, <4>2
    <3> QED BY <3>2 DEF Engaged
  <2> QED BY <1>inv, <2>1, <2>2, StillOwed
<1>2. ASSUME NEW n \in Node, NEW t \in Thread, LockRequest(n, t)
      PROVE  ReplyOwed(q, p)'
  <2> DEFINE m == RequestMsg(l_time[n] + 1)
  <2>1. \A a, b \in Node :
          chan'[a][b] = IF a = n /\ b # n THEN chan[a][b] \o <<m>>
                                          ELSE chan[a][b]
    BY <1>inv, <1>2, RequestSent
  <2>2. <<m>> \in Seq(AnyMessage) /\ Range(<<m>>) = {m}
    BY <1>ty, CarriesOne DEF RequestMsg, AnyMessage, MutexMessage
  <2>3. CASE q = n
    <3>1. p # n
      BY <1>2, <1>inv, <1>ty, <2>3 DEF LockRequest, Awaited, LocalInv, PeersKnown
    <3>2. Range(chan'[n][p]) = Range(chan[n][p]) \cup {m}
      BY <1>ty, <2>1, <2>2, <3>1, CarriesAppend
    <3>3. local_request'[n] = l_time[n] + 1
      BY <1>2, <1>ty DEF LockRequest
    <3> QED BY <2>3, <3>2, <3>3 DEF ReplyOwed
  <2>4. CASE q # n
    <3> HIDE DEF m
    <3>1. /\ p \in wait_on[q]
          /\ local_request'[q] = local_request[q]
          /\ requests' = requests
      BY <1>2, <1>ty, <2>4 DEF LockRequest
    <3>2. \A s \in Thread : Engaged(p, s) => Engaged(p, s)'
      BY <1>2, <1>ty DEF LockRequest, Goto, Engaged
    <3>3. chan'[q][p] = chan[q][p]
      BY <2>1, <2>4
    <3>4. Carries(chan[p][q], "REPLY") => Carries(chan'[p][q], "REPLY")
      <4>1. \/ chan'[p][q] = chan[p][q]
            \/ chan'[p][q] = chan[p][q] \o <<m>>
        BY <2>1
      <4> QED BY <1>ty, <2>2, <4>1, GrowthKeeps
    <3> QED BY <1>inv, <3>1, <3>2, <3>3, <3>4, StillOwed
  <2> QED BY <2>3, <2>4
<1>3. ASSUME NEW n \in Node, NEW t \in Thread, UnlockReply(n, t)
      PROVE  ReplyOwed(q, p)'
  <2>1. \A a, b \in Node :
          chan'[a][b] = IF a = n /\ b # n THEN chan[a][b] \o Replies(n)
                                          ELSE chan[a][b]
    BY <1>inv, <1>3, RepliesSent
  <2>2. /\ Replies(n) \in Seq(AnyMessage)
        /\ Len(Replies(n)) = Len(requests[n])
        /\ \A r \in Range(Replies(n)) : r.type = "REPLY"
    BY <1>ty, MessagesOfUnlock
  <2>3. p \in wait_on[q] /\ q # p
    BY <1>3, <1>inv DEF UnlockReply, LocalInv, AwaitedWhileWaiting
  <2>4. q # n
    <3>1. \A s \in Thread : pc[n][s] # "waiting"
      BY <1>3, <1>inv, OneInside DEF UnlockReply, Goto
    <3> QED BY <1>inv, <2>3, <3>1 DEF LocalInv, AwaitedWhileWaiting
  <2>5. local_request'[q] = local_request[q] /\ chan'[q][p] = chan[q][p]
    BY <1>3, <1>ty, <2>1, <2>4 DEF UnlockReply
  <2>6. Carries(chan[p][q], "REPLY") => Carries(chan'[p][q], "REPLY")
    <3>1. \/ chan'[p][q] = chan[p][q]
          \/ chan'[p][q] = chan[p][q] \o Replies(n)
      BY <2>1
    <3> QED BY <1>ty, <2>2, <3>1, GrowthKeeps
  <2>7. CASE p # n
    <3>1. requests'[p] = requests[p]
      BY <1>3, <1>ty, <2>7 DEF UnlockReply
    <3>2. \A s \in Thread : Engaged(p, s) => Engaged(p, s)'
      BY <1>3, <1>ty, <2>7 DEF UnlockReply, Goto, Engaged
    <3> QED BY <1>inv, <2>3, <2>5, <2>6, <3>1, <3>2, StillOwed
  <2>8. CASE p = n
    <3>1. ReplyOwed(q, p)
      BY <1>inv, <2>3 DEF NoLostReply
    <3>2. CASE RequestMsg(local_request[q]) \in Range(chan[q][p])
      BY <2>5, <3>2 DEF ReplyOwed
    <3>3. CASE Carries(chan[p][q], "REPLY")
      BY <2>6, <3>3 DEF ReplyOwed, Carries
    <3>4. CASE \E r \in Range(requests[p]) : r.peer_id = q
      <4>1. requests[n] # << >>
        BY <2>8, <3>4 DEF Range
      <4>2. Replies(n) # << >>
        <5>1. Len(requests[n]) # 0
          BY <1>ty, <4>1, EmptySeq
        <5> QED BY <2>2, <5>1, EmptySeq
      <4>3. Head(Replies(n)) \in Range(Replies(n))
        BY <2>2, <4>2, HeadTailRange
      <4>4. Carries(Replies(n), "REPLY")
        BY <2>2, <4>3 DEF Carries
      <4>5. chan'[p][q] = chan[p][q] \o Replies(n)
        BY <2>1, <2>4, <2>8
      <4>6. Carries(chan'[p][q], "REPLY")
        BY <1>ty, <2>2, <4>4, <4>5, CarriesAppend
      <4> QED BY <4>6 DEF ReplyOwed, Carries
    <3> QED BY <3>1, <3>2, <3>3, <3>4 DEF ReplyOwed
  <2> QED BY <2>7, <2>8
<1>4. ASSUME NEW n \in Node, NEW f \in Node, HandleRequest(n, f)
      PROVE  ReplyOwed(q, p)'
  <2> DEFINE now == Clock(n, Message(f, n).l_time)
             ms == <<ReplyMsg(now + 1)>>
  <2>1. /\ UNCHANGED <<peers, local_request, wait_on, local_mutex, pc>>
        /\ chan[f][n] # << >>
        /\ Message(f, n).type = "REQUEST"
    BY <1>4 DEF HandleRequest
  <2>2. /\ p \in wait_on[q]
        /\ \A s \in Thread : Engaged(p, s) => Engaged(p, s)'
    BY <2>1 DEF Engaged
  <2>3. /\ Other(f, n) \in RequestEntry /\ now \in Nat
    BY <1>inv, <2>1, Taken
  <2>4. ms \in Seq(AnyMessage) /\ Carries(ms, "REPLY")
    BY <2>3, CarriesOne DEF ReplyMsg, AnyMessage, MutexMessage
  <2>5. \A type : Carries(chan[f][n], type) <=>
                    type = "REQUEST" \/ Carries(Tail(chan[f][n]), type)
    BY <1>ty, <2>1, CarriesTail DEF Message
  <2> HIDE DEF ms
  <2>6. CASE ReplyAtOnce(n, Other(f, n))
    <3>1. /\ f # n
          /\ \A a, b \in Node :
               chan'[a][b] = IF a = f /\ b = n THEN Tail(chan[f][n])
                             ELSE IF a = n /\ b # n THEN chan[a][b] \o ms
                             ELSE chan[a][b]
      BY <1>inv, <1>4, <2>6, RequestAccepted DEF ms
    <3>2. requests' = requests
      BY <1>4, <2>6 DEF HandleRequest
    <3>3. Carries(chan[p][q], "REPLY") => Carries(chan'[p][q], "REPLY")
      <4>1. CASE p = f /\ q = n
        BY <2>5, <3>1, <4>1
      <4>2. CASE ~ (p = f /\ q = n)
        <5>1. \/ chan'[p][q] = chan[p][q]
              \/ chan'[p][q] = chan[p][q] \o ms
          BY <3>1, <4>2
        <5> QED BY <1>ty, <2>4, <5>1, GrowthKeeps
      <4> QED BY <4>1, <4>2
    <3>4. CASE q = f /\ p = n
      <4>1. chan'[p][q] = chan[p][q] \o ms
        BY <3>1, <3>4
      <4>2. Carries(chan'[p][q], "REPLY")
        BY <1>ty, <2>4, <4>1, CarriesAppend
      <4> QED BY <4>2 DEF ReplyOwed, Carries
    <3>5. CASE ~ (q = f /\ p = n)
      <4>1. Range(chan[q][p]) \subseteq Range(chan'[q][p])
        <5>1. \/ chan'[q][p] = chan[q][p]
              \/ chan'[q][p] = chan[q][p] \o ms
          BY <3>1, <3>5
        <5> QED BY <1>ty, <2>4, <5>1, GrowthKeeps
      <4> QED BY <1>inv, <2>1, <2>2, <3>2, <3>3, <4>1, StillOwed
    <3> QED BY <3>4, <3>5
  <2>7. CASE ~ ReplyAtOnce(n, Other(f, n))
    <3>1. /\ chan' = Received(f, n)
          /\ requests' = [requests EXCEPT ![n] = Insert(@, Other(f, n))]
      BY <1>4, <2>7 DEF HandleRequest
    <3>2. \A a, b \in Node :
            chan'[a][b] = IF a = f /\ b = n THEN Tail(chan[f][n])
                                            ELSE chan[a][b]
      BY <1>inv, <2>1, <3>1, MessageTaken
    <3>3. /\ \A a \in Node : Range(requests[a]) \subseteq Range(requests'[a])
          /\ Other(f, n) \in Range(requests'[n])
      <4>1. \A a \in Node :
              requests'[a] = IF a = n THEN Insert(requests[n], Other(f, n))
                                      ELSE requests[a]
        BY <1>ty, <3>1
      <4>2. Range(Insert(requests[n], Other(f, n))) =
              Range(requests[n]) \cup {Other(f, n)}
        BY <1>ty, <2>3, InsertProperties
      <4> QED BY <4>1, <4>2
    <3>4. CASE q = f /\ p = n
      <4>1. \E r \in Range(requests'[p]) : r.peer_id = q
        BY <3>3, <3>4 DEF Other
      <4>2. local_request[n] # NoRequest
        BY <2>7 DEF ReplyAtOnce
      <4>3. \E s \in Thread : Engaged(p, s)
        BY <1>inv, <3>4, <4>2 DEF LocalInv, RequestWhileEngaged
      <4>4. \E s \in Thread : Engaged(p, s)'
        BY <2>2, <4>3
      <4> QED BY <4>1, <4>4 DEF ReplyOwed, Engaged
    <3>5. CASE ~ (q = f /\ p = n)
      <4>1. chan'[q][p] = chan[q][p]
        BY <3>2, <3>5
      <4>2. Carries(chan[p][q], "REPLY") => Carries(chan'[p][q], "REPLY")
        BY <2>5, <3>2
      <4> QED BY <1>inv, <2>1, <2>2, <3>3, <4>1, <4>2, StillOwed
    <3> QED BY <3>4, <3>5
  <2> QED BY <2>6, <2>7
<1>5. ASSUME NEW n \in Node, NEW f \in Node, HandleReply(n, f)
      PROVE  ReplyOwed(q, p)'
  <2>1. /\ chan[f][n] # << >>
        /\ Message(f, n).type = "REPLY"
        /\ chan' = Received(f, n)
        /\ wait_on' = [wait_on EXCEPT ![n] = @ \ {f}]
        /\ UNCHANGED <<local_request, requests, pc>>
    BY <1>5 DEF HandleReply
  <2>2. \A a, b \in Node :
          chan'[a][b] = IF a = f /\ b = n THEN Tail(chan[f][n])
                                          ELSE chan[a][b]
    BY <1>inv, <2>1, MessageTaken
  <2>3. p \in wait_on[q] /\ ~ (q = n /\ p = f)
    BY <1>ty, <2>1
  <2>4. chan'[p][q] = chan[p][q]
    BY <2>2, <2>3
  <2>5. RequestMsg(local_request[q]) \in Range(chan[q][p])
          => RequestMsg(local_request[q]) \in Range(chan'[q][p])
    <3>1. CASE q = f /\ p = n
      <4>1. Range(chan[f][n]) = {Message(f, n)} \cup Range(Tail(chan[f][n]))
        BY <1>ty, <2>1, HeadTailRange DEF Message
      <4>2. RequestMsg(local_request[q]) # Message(f, n)
        BY <2>1 DEF RequestMsg
      <4> QED BY <2>2, <3>1, <4>1, <4>2
    <3>2. CASE ~ (q = f /\ p = n)
      BY <2>2, <3>2
    <3> QED BY <3>1, <3>2
  <2>6. \A s \in Thread : Engaged(p, s) => Engaged(p, s)'
    BY <2>1 DEF Engaged
  <2> QED BY <1>inv, <2>1, <2>3, <2>4, <2>5, <2>6, StillOwed
<1>6. CASE UNCHANGED vars
  <2>1. UNCHANGED <<chan, local_request, requests, wait_on, pc>>
    BY <1>6 DEF vars, mutexVars
  <2>2. \A s \in Thread : Engaged(p, s) => Engaged(p, s)'
    BY <2>1 DEF Engaged
  <2> QED BY <1>inv, <2>1, <2>2, StillOwed
<1> QED
  BY <1>1, <1>2, <1>3, <1>4, <1>5, <1>6 DEF Next, Lock, Unlock, Handle

LEMMA AnswerInvariant == Spec => []AnswerInv
<1>1. Init => AnswerInv
  <2> SUFFICES ASSUME Init PROVE AnswerInv
    OBVIOUS
  <2>1. DeferredFollow
    BY DEF Init, MutexInit, DeferredFollow, Range
  <2>2. NoLostReply
    BY DEF Init, MutexInit, NoLostReply
  <2> QED BY <2>1, <2>2, LocalInit DEF AnswerInv
<1>2. AnswerInv /\ [Next]_vars => AnswerInv'
  BY LocalStep, DeferredStep, OwedStep DEF AnswerInv
<1> QED BY <1>1, <1>2, PTL DEF Spec

\* Deferred requests never wait for each other in a cycle: each comes after
\* the request of the node that keeps it.
THEOREM DeferralOrdered == Spec => []DeferredFollow
BY AnswerInvariant, PTL DEF AnswerInv

\* Whoever waits for a reply is owed one, through every interleaving of lock,
\* unlock and the handlers, for any number of nodes.
THEOREM RepliesNotLost == Spec => []NoLostReply
BY AnswerInvariant, PTL DEF AnswerInv

----------------------------------------------------------------------------
(***************************************************************************)
(* Two nodes                                                               *)
(***************************************************************************)
AtMostTwoNodes == \A a, b, c \in Node : a = b \/ a = c \/ b = c

LEMMA AtMostOneAppend ==
  ASSUME NEW s \in Seq(AnyMessage), NEW m \in AnyMessage, NEW type,
         AtMostOne(s, type), m.type # type \/ ~ Carries(s, type)
  PROVE  AtMostOne(s \o <<m>>, type)
<1> DEFINE t == s \o <<m>>
<1>1. Len(s) \in Nat /\ DOMAIN s = 1 .. Len(s)
  BY LenProperties
<1>2. <<m>> \in Seq(AnyMessage) /\ Len(<<m>>) = 1 /\ <<m>>[1] = m
  OBVIOUS
<1>3. /\ t \in Seq(AnyMessage)
      /\ Len(t) = Len(s) + 1
      /\ \A k \in 1 .. Len(s) + 1 : t[k] = IF k <= Len(s) THEN s[k] ELSE m
  BY <1>1, <1>2, ConcatProperties
<1>4. DOMAIN t = 1 .. Len(s) + 1
  BY <1>3, LenProperties
<1> HIDE DEF t
<1>5. ASSUME NEW k \in DOMAIN t, NEW l \in DOMAIN t,
             t[k].type = type, t[l].type = type, k < l
      PROVE  FALSE
  <2>1. k \in 1 .. Len(s) /\ t[k] = s[k]
    BY <1>1, <1>3, <1>4, <1>5
  <2>2. Carries(s, type)
    BY <1>1, <1>5, <2>1 DEF Carries, Range
  <2>3. CASE l <= Len(s)
    <3>1. l \in DOMAIN s /\ t[l] = s[l]
      BY <1>1, <1>3, <1>4, <2>3
    <3>2. k = l
      BY <1>1, <1>5, <2>1, <3>1 DEF AtMostOne
    <3> QED BY <1>5, <3>2, <1>1, <1>4
  <2>4. CASE ~ (l <= Len(s))
    <3>1. t[l] = m
      BY <1>3, <1>4, <2>4
    <3> QED BY <1>5, <2>2, <3>1
  <2> QED BY <2>3, <2>4
<1>6. \A k, l \in DOMAIN t : k < l \/ l < k \/ k = l
  BY <1>1, <1>4
<1>7. AtMostOne(t, type)
  BY <1>5, <1>6 DEF AtMostOne
<1> QED BY <1>7 DEF t

LEMMA AtMostOneTail ==
  ASSUME NEW s \in Seq(AnyMessage), s # << >>, NEW type, AtMostOne(s, type)
  PROVE  /\ AtMostOne(Tail(s), type)
         /\ Head(s).type = type => ~ Carries(Tail(s), type)
<1> DEFINE t == Tail(s)
<1>1. /\ t \in Seq(AnyMessage)
      /\ Len(t) = Len(s) - 1
      /\ \A k \in 1 .. Len(t) : t[k] = s[k + 1]
  BY HeadTailProperties
<1>2. /\ Len(s) \in Nat \ {0} /\ Head(s) = s[1]
      /\ DOMAIN s = 1 .. Len(s) /\ DOMAIN t = 1 .. Len(t)
  BY <1>1, EmptySeq, LenProperties
<1> HIDE DEF t
<1>3. ASSUME NEW k \in DOMAIN t, t[k].type = type
      PROVE  k + 1 \in DOMAIN s /\ s[k + 1].type = type /\ k \in Nat \ {0}
  BY <1>1, <1>2, <1>3
<1>4. ASSUME NEW k \in DOMAIN t, NEW l \in DOMAIN t,
             t[k].type = type, t[l].type = type
      PROVE  k = l
  <2>1. k + 1 = l + 1 /\ k \in Nat /\ l \in Nat
    BY <1>3, <1>4 DEF AtMostOne
  <2> QED BY <2>1
<1>5. ASSUME Head(s).type = type, NEW k \in DOMAIN t, t[k].type = type
      PROVE  FALSE
  <2>1. k + 1 = 1 /\ k \in Nat \ {0}
    BY <1>2, <1>3, <1>5 DEF AtMostOne
  <2> QED BY <2>1
<1>6. AtMostOne(t, type)
  BY <1>4 DEF AtMostOne
<1>7. Head(s).type = type => ~ Carries(t, type)
  BY <1>5 DEF Carries, Range
<1> QED BY <1>6, <1>7 DEF t

LEMMA OneElement ==
  ASSUME NEW S, NEW s \in Seq(S), NEW e \in S, Len(s) = 1, Range(s) = {e}
  PROVE  s = <<e>>
<1>1. s[1] \in Range(s)
  BY LenProperties DEF Range
<1>2. <<e>> \in Seq(S) /\ Len(<<e>>) = 1 /\ <<e>>[1] = e
  OBVIOUS
<1> QED BY <1>1, <1>2, SeqEqual

LEMMA InsertFirst ==
  ASSUME NEW S, NEW e \in S
  PROVE  Insert(<< >>, e) = <<e>>
<1> DEFINE none == << >>
<1>1. none \in Seq(S) /\ Len(none) = 0 /\ Range(none) = {}
  BY EmptySeq DEF Range
<1> HIDE DEF none
<1>2. /\ Insert(none, e) \in Seq(S)
      /\ Len(Insert(none, e)) = Len(none) + 1
      /\ Range(Insert(none, e)) = Range(none) \cup {e}
  <2>1. none \in Seq(S)
    BY <1>1
  <2> QED BY <2>1, InsertProperties
<1> DEFINE ins == Insert(none, e)
<1>3. ins \in Seq(S) /\ Len(ins) = 1 /\ Range(ins) = {e}
  BY <1>1, <1>2
<1> HIDE DEF ins
<1>4. ins = <<e>>
  BY <1>3, OneElement
<1> QED BY <1>4 DEF none, ins

LEMMA PairTypes ==
  ASSUME TwoInv
  PROVE  /\ AnswerInv /\ LocalInv /\ DeferredFollow
         /\ \A a, b \in Node : chan[a][b] \in Seq(AnyMessage)
         /\ l_time \in [Node -> Nat]
         /\ local_request \in [Node -> Nat]
         /\ requests \in [Node -> Seq(RequestEntry)]
         /\ wait_on \in [Node -> SUBSET Node]
BY DEF TwoInv, AnswerInv, LocalInv, TypeOK

LEMMA TimesOnTheWay ==
  ASSUME TwoInv, NEW a \in Node, NEW b \in Node, NEW x \in Range(chan[a][b]),
         x.type \in {"REQUEST", "REPLY"}
  PROVE  x.l_time \in Nat
<1>1. chan[a][b] \in Seq(AnyMessage)
  BY PairTypes
<1>2. x \in MutexMessage
  BY <1>1, RangeOfSeq, ForeignAssumption DEF AnyMessage
<1> QED BY <1>2 DEF MutexMessage

\* A thread about to request, or about to release, awaits nothing: its node's
\* last request is nowhere any more.
LEMMA Settled ==
  ASSUME TwoInv, NEW n \in Node, NEW o \in Node, n # o,
         NEW t \in Thread, pc[n][t] \in {"locking", "held"}
  PROVE  /\ wait_on[n] = {}
         /\ ~ Pending(n, o) /\ ~ Deferred(o) /\ ~ Answered(n, o)
<1>1. ASSUME NEW s \in Thread, pc[n][s] = "waiting"
      PROVE  FALSE
  <2>1. LocalInv
    BY PairTypes
  <2>2. s = t
    BY <1>1, <2>1, OneInside
  <2> QED BY <1>1, <2>2
<1>2. wait_on[n] = {}
  BY <1>1, PairTypes DEF LocalInv, AwaitedWhileWaiting
<1> QED BY <1>2 DEF TwoInv, PairInv, InOnePlace

LEMMA PairLockRequest ==
  ASSUME TwoInv, NEW n \in Node, NEW o \in Node, n # o,
         NEW t \in Thread, LockRequest(n, t)
  PROVE  PairInv(n, o)' /\ PairInv(o, n)'
<1> DEFINE m == RequestMsg(l_time[n] + 1)
<1>1. pc[n][t] = "locking"
  BY DEF LockRequest, Goto
<1>2. wait_on[n] = {} /\ ~ Pending(n, o) /\ ~ Deferred(o) /\ ~ Answered(n, o)
  BY <1>1, Settled
<1>3. ~ Deferred(n)
  <2>1. \A s \in Thread : Engaged(n, s) => s = t
    BY <1>1, PairTypes, OneInside DEF Engaged
  <2>2. local_request[n] = NoRequest
    BY <1>1, <2>1, PairTypes DEF LocalInv, RequestWhileEngaged, Engaged
  <2> QED BY <2>2, PairTypes, RequestsAreOthers DEF Deferred
<1>4. /\ l_time' = [l_time EXCEPT ![n] = @ + 1]
      /\ wait_on' = [wait_on EXCEPT ![n] = Awaited(n)]
      /\ local_request' = [local_request EXCEPT ![n] = l_time[n] + 1]
      /\ requests' = requests
  BY DEF LockRequest
<1>5. o \in wait_on'[n] /\ wait_on'[o] = wait_on[o]
  BY <1>4, PairTypes DEF LocalInv, PeersKnown, Awaited
<1>6. chan'[n][o] = chan[n][o] \o <<m>> /\ chan'[o][n] = chan[o][n]
  <2>1. LocalInv
    BY PairTypes
  <2>2. \A a, b \in Node :
          chan'[a][b] = IF a = n /\ b # n THEN chan[a][b] \o <<m>>
                                         ELSE chan[a][b]
    BY <2>1, RequestSent
  <2> HIDE DEF m
  <2> QED BY <2>2
<1>7. m \in AnyMessage /\ m.type = "REQUEST" /\ m.l_time = l_time[n] + 1
  BY PairTypes DEF RequestMsg, AnyMessage, MutexMessage
<1>8. /\ l_time'[n] = l_time[n] + 1 /\ l_time'[o] = l_time[o]
      /\ local_request'[n] = l_time[n] + 1
      /\ local_request'[o] = local_request[o]
      /\ m = RequestMsg(local_request'[n])
  BY <1>4, PairTypes
<1> HIDE DEF m
<1>9. /\ Range(chan'[n][o]) = Range(chan[n][o]) \cup {m}
      /\ \A type : Carries(chan'[n][o], type) <=>
                     Carries(chan[n][o], type) \/ type = "REQUEST"
  <2> DEFINE ms == <<m>>
  <2>1. /\ ms \in Seq(AnyMessage) /\ Range(ms) = {m}
        /\ \A type : Carries(ms, type) <=> type = "REQUEST"
    BY <1>7, CarriesOne
  <2>2. chan[n][o] \in Seq(AnyMessage) /\ chan'[n][o] = chan[n][o] \o ms
    BY <1>6, PairTypes
  <2> HIDE DEF ms
  <2> QED BY <2>1, <2>2, CarriesAppend
<1>10. /\ Single(n, o) /\ Stamped(n, o) /\ Ahead(n, o)
       /\ Single(o, n) /\ Stamped(o, n) /\ InOnePlace(o, n) /\ Ahead(o, n)
  BY DEF TwoInv, PairInv
<1>11. Single(n, o)' /\ Single(o, n)'
  <2>1. /\ chan[n][o] \in Seq(AnyMessage)
        /\ AtMostOne(chan[n][o], "REQUEST") /\ AtMostOne(chan[n][o], "REPLY")
        /\ ~ Carries(chan[n][o], "REQUEST")
    BY <1>2, <1>10, PairTypes DEF Single, Pending
  <2>2. AtMostOne(chan'[n][o], "REQUEST") /\ AtMostOne(chan'[n][o], "REPLY")
    BY <1>6, <1>7, <2>1, AtMostOneAppend
  <2> QED BY <1>6, <1>10, <2>2 DEF Single
<1>12. Stamped(n, o)'
  <2>1. ASSUME NEW x \in Range(chan'[n][o])
        PROVE  /\ x.type \in {"REQUEST", "REPLY"} => x.l_time <= l_time'[n]
               /\ x.type = "REQUEST" => x = RequestMsg(local_request'[n])
    <3>1. CASE x = m
      BY <1>7, <1>8, <3>1, PairTypes
    <3>2. CASE x \in Range(chan[n][o])
      <4>1. x.type # "REQUEST"
        BY <1>2, <3>2 DEF Pending, Carries
      <4>2. x.type \in {"REQUEST", "REPLY"} => x.l_time \in Nat
        BY <3>2, TimesOnTheWay
      <4> QED BY <1>8, <1>10, <3>2, <4>1, <4>2, PairTypes DEF Stamped
    <3> QED BY <1>9, <2>1, <3>1, <3>2
  <2> QED BY <1>8, <2>1, PairTypes DEF Stamped
<1>13. Stamped(o, n)'
  BY <1>6, <1>8, <1>10 DEF Stamped
<1>14. Deferred(o)' = Deferred(o) /\ Deferred(n)' = Deferred(n)
  BY <1>4 DEF Deferred
<1>15. /\ Answered(n, o)' = Answered(n, o)
       /\ Answered(o, n)' <=> Answered(o, n)
       /\ Pending(o, n)' = Pending(o, n)
  BY <1>6, <1>9 DEF Answered, Pending
<1>16. InOnePlace(n, o)' /\ Kept(n, o)' /\ Ahead(n, o)'
  BY <1>2, <1>5, <1>14, <1>15 DEF InOnePlace, Kept, Ahead, Granted
<1>17. InOnePlace(o, n)' /\ Kept(o, n)'
  BY <1>3, <1>5, <1>10, <1>14, <1>15 DEF InOnePlace, Kept
<1>18. Ahead(o, n)'
  <2>1. Granted(o, n)' => Granted(o, n)
    BY <1>5, <1>8, <1>15 DEF Granted
  <2>2. Granted(o, n) => local_request[o] < l_time[n]
    BY <1>10 DEF Ahead
  <2> QED
    BY <1>8, <2>1, <2>2, PairTypes DEF Ahead, Precedes, LocalRequest
<1> QED BY <1>11, <1>12, <1>13, <1>16, <1>17, <1>18 DEF PairInv

LEMMA PairUnlockReply ==
  ASSUME TwoInv, NEW n \in Node, NEW o \in Node, n # o,
         NEW t \in Thread, UnlockReply(n, t)
  PROVE  PairInv(n, o)' /\ PairInv(o, n)'
<1>1. pc[n][t] = "held"
  BY DEF UnlockReply, Goto
<1>2. wait_on[n] = {} /\ ~ Pending(n, o) /\ ~ Deferred(o) /\ ~ Answered(n, o)
  BY <1>1, Settled
<1>3. /\ l_time' = [l_time EXCEPT ![n] = @ + Len(requests[n])]
      /\ requests' = [requests EXCEPT ![n] = << >>]
      /\ local_request' = [local_request EXCEPT ![n] = NoRequest]
      /\ wait_on' = wait_on
  BY DEF UnlockReply
<1>4. /\ chan'[n][o] = chan[n][o] \o Replies(n)
      /\ chan'[o][n] = chan[o][n]
  <2>1. LocalInv
    BY PairTypes
  <2>2. \A a, b \in Node :
          chan'[a][b] = IF a = n /\ b # n THEN chan[a][b] \o Replies(n)
                                         ELSE chan[a][b]
    BY <2>1, RepliesSent
  <2> QED BY <2>2
<1>5. /\ Single(n, o) /\ Stamped(n, o)
      /\ Single(o, n) /\ Stamped(o, n) /\ InOnePlace(o, n) /\ Kept(o, n)
      /\ Ahead(o, n)
  BY DEF TwoInv, PairInv
<1>6. /\ Replies(n) \in Seq(AnyMessage)
      /\ Len(Replies(n)) = Len(requests[n])
      /\ \A m \in Range(Replies(n)) : m.type = "REPLY"
  BY PairTypes, MessagesOfUnlock
<1>7. /\ Deferred(o)' = Deferred(o) /\ ~ Deferred(n)'
      /\ local_request'[n] = 0 /\ local_request'[o] = local_request[o]
      /\ l_time'[o] = l_time[o]
  BY <1>3, PairTypes DEF Deferred, NoRequest
<1>8. Answered(n, o)' = Answered(n, o) /\ Pending(o, n)' = Pending(o, n)
  BY <1>4 DEF Answered, Pending
<1>9. Kept(n, o)' /\ Kept(o, n)' /\ Ahead(n, o)'
  BY <1>2, <1>7, <1>8 DEF Kept, Ahead, Granted, NoRequest
<1>10. Single(o, n)' /\ Stamped(o, n)'
  BY <1>4, <1>5, <1>7 DEF Single, Stamped
<1>11. ASSUME ~ Deferred(n)
       PROVE  PairInv(n, o)' /\ PairInv(o, n)'
  <2>1. Replies(n) = << >>
    BY <1>6, <1>11, EmptySeq DEF Deferred
  <2>2. chan'[n][o] = chan[n][o]
    BY <1>4, <2>1, PairTypes, ConcatEmptySeq
  <2>3. l_time'[n] = l_time[n]
    BY <1>3, <1>11, PairTypes, EmptySeq DEF Deferred
  <2>4. Pending(n, o)' = Pending(n, o) /\ Answered(o, n)' = Answered(o, n)
    BY <2>2 DEF Pending, Answered
  <2>5. Single(n, o)'
    BY <1>5, <2>2 DEF Single
  <2>6. Stamped(n, o)'
    BY <1>2, <1>5, <1>7, <2>2, <2>3, PairTypes DEF Stamped, Pending, Carries
  <2>7. InOnePlace(n, o)' /\ InOnePlace(o, n)'
    BY <1>2, <1>3, <1>5, <1>7, <1>8, <1>11, <2>4 DEF InOnePlace
  <2>8. Ahead(o, n)'
    BY <1>3, <1>5, <1>7, <2>3, <2>4 DEF Ahead, Granted, NoRequest
  <2> QED BY <1>9, <1>10, <2>5, <2>6, <2>7, <2>8 DEF PairInv
<1>12. ASSUME Deferred(n)
       PROVE  PairInv(n, o)' /\ PairInv(o, n)'
  <2> DEFINE r == ReplyMsg(l_time[n] + 1)
  <2>1. requests[n] = <<LocalRequest(o)>> /\ local_request[o] < l_time[n]
    BY <1>5, <1>12 DEF Kept
  <2>2. Replies(n) = <<r>> /\ Len(requests[n]) = 1
    BY <2>1 DEF Replies
  <2>3. r \in AnyMessage /\ r.type = "REPLY" /\ r.l_time = l_time[n] + 1
    BY PairTypes DEF ReplyMsg, AnyMessage, MutexMessage
  <2>4. l_time'[n] = l_time[n] + 1
    BY <1>3, <2>2, PairTypes
  <2> HIDE DEF r
  <2>5. /\ Range(chan'[n][o]) = Range(chan[n][o]) \cup {r}
        /\ \A type : Carries(chan'[n][o], type) <=>
                       Carries(chan[n][o], type) \/ type = "REPLY"
    <3> DEFINE ms == <<r>>
    <3>1. /\ ms \in Seq(AnyMessage) /\ Range(ms) = {r}
          /\ \A type : Carries(ms, type) <=> type = "REPLY"
      BY <2>3, CarriesOne
    <3>2. chan[n][o] \in Seq(AnyMessage) /\ chan'[n][o] = chan[n][o] \o ms
      BY <1>4, <2>2, PairTypes
    <3> HIDE DEF ms
    <3> QED BY <3>1, <3>2, CarriesAppend
  <2>6. ~ Pending(o, n) /\ ~ Answered(o, n) /\ n \in wait_on[o]
    BY <1>5, <1>12 DEF InOnePlace
  <2>7. Single(n, o)'
    <3>1. /\ chan[n][o] \in Seq(AnyMessage)
          /\ AtMostOne(chan[n][o], "REQUEST") /\ AtMostOne(chan[n][o], "REPLY")
          /\ ~ Carries(chan[n][o], "REPLY")
      BY <1>5, <2>6, PairTypes DEF Single, Answered
    <3>2. chan'[n][o] = chan[n][o] \o <<r>>
      BY <1>4, <2>2
    <3>3. AtMostOne(chan'[n][o], "REQUEST") /\ AtMostOne(chan'[n][o], "REPLY")
      BY <2>3, <3>1, <3>2, AtMostOneAppend
    <3> QED BY <3>3 DEF Single
  <2>8. Stamped(n, o)'
    <3>1. ASSUME NEW x \in Range(chan'[n][o])
          PROVE  /\ x.type \in {"REQUEST", "REPLY"} => x.l_time <= l_time'[n]
                 /\ x.type # "REQUEST"
      <4>1. CASE x = r
        BY <2>3, <2>4, <4>1, PairTypes
      <4>2. CASE x \in Range(chan[n][o])
        <5>1. x.type # "REQUEST"
          BY <1>2, <4>2 DEF Pending, Carries
        <5>2. x.type \in {"REQUEST", "REPLY"} => x.l_time \in Nat
          BY <4>2, TimesOnTheWay
        <5> QED BY <1>5, <2>4, <4>2, <5>1, <5>2, PairTypes DEF Stamped
      <4> QED BY <2>5, <3>1, <4>1, <4>2
    <3> QED BY <1>7, <2>4, <3>1, PairTypes DEF Stamped
  <2>9. ~ Pending(n, o)' /\ Answered(o, n)'
    BY <1>2, <2>5 DEF Pending, Answered
  <2>10. InOnePlace(n, o)' /\ InOnePlace(o, n)'
    BY <1>2, <1>3, <1>7, <1>8, <2>6, <2>9 DEF InOnePlace
  <2>11. Ahead(o, n)'
    BY <1>7, <2>1, <2>4, PairTypes DEF Ahead, NoRequest
  <2> QED BY <1>9, <1>10, <2>7, <2>8, <2>10, <2>11 DEF PairInv
<1> QED BY <1>11, <1>12

\* What the handler of n finds: the head of the connection, and what is left.
LEMMA PairTaken ==
  ASSUME TwoInv, NEW n \in Node, NEW o \in Node, n # o, chan[o][n] # << >>
  PROVE  /\ Message(o, n) \in Range(chan[o][n])
         /\ Range(Tail(chan[o][n])) \subseteq Range(chan[o][n])
         /\ AtMostOne(Tail(chan[o][n]), "REQUEST")
         /\ AtMostOne(Tail(chan[o][n]), "REPLY")
         /\ \A type : Carries(chan[o][n], type) <=>
              Message(o, n).type = type \/ Carries(Tail(chan[o][n]), type)
         /\ \A type \in {"REQUEST", "REPLY"} :
              Message(o, n).type = type => ~ Carries(Tail(chan[o][n]), type)
<1>1. /\ chan[o][n] \in Seq(AnyMessage)
      /\ AtMostOne(chan[o][n], "REQUEST") /\ AtMostOne(chan[o][n], "REPLY")
  BY PairTypes DEF TwoInv, PairInv, Single
<1> QED BY <1>1, HeadTailRange, CarriesTail, AtMostOneTail DEF Message

LEMMA PairHandleRequest ==
  ASSUME TwoInv, NEW n \in Node, NEW o \in Node, n # o, HandleRequest(n, o)
  PROVE  PairInv(n, o)' /\ PairInv(o, n)'
<1> DEFINE m   == Message(o, n)
           now == Clock(n, m.l_time)
           r   == ReplyMsg(now + 1)
<1>1. /\ chan[o][n] # << >> /\ m.type = "REQUEST"
      /\ local_request' = local_request /\ wait_on' = wait_on
  BY DEF HandleRequest
<1>2. /\ Single(n, o) /\ Stamped(n, o) /\ InOnePlace(n, o) /\ Kept(n, o)
      /\ Ahead(n, o)
      /\ Single(o, n) /\ Stamped(o, n) /\ InOnePlace(o, n) /\ Kept(o, n)
      /\ Ahead(o, n)
  BY DEF TwoInv, PairInv
<1>3. /\ m \in Range(chan[o][n])
      /\ Range(Tail(chan[o][n])) \subseteq Range(chan[o][n])
      /\ AtMostOne(Tail(chan[o][n]), "REQUEST")
      /\ AtMostOne(Tail(chan[o][n]), "REPLY")
      /\ Carries(chan[o][n], "REQUEST") /\ ~ Carries(Tail(chan[o][n]), "REQUEST")
      /\ Carries(chan[o][n], "REPLY") <=> Carries(Tail(chan[o][n]), "REPLY")
  BY <1>1, PairTaken
<1>4. m = RequestMsg(local_request[o])
  BY <1>1, <1>2, <1>3 DEF Stamped
<1>5. Other(o, n) = LocalRequest(o) /\ m.l_time = local_request[o]
  BY <1>4 DEF Other, LocalRequest, RequestMsg
<1>6. n \in wait_on[o] /\ ~ Deferred(n) /\ ~ Answered(o, n)
  BY <1>2, <1>3 DEF InOnePlace, Pending
<1>7. now \in Nat /\ now > local_request[o] /\ now > l_time[n]
  <2>1. TypeOK
    BY PairTypes DEF LocalInv
  <2> QED BY <1>1, <1>5, <2>1, Taken
<1> HIDE DEF m, now
<1>8. \A x \in Range(chan[n][o]) :
        x.type \in {"REQUEST", "REPLY"} => x.l_time \in Nat
  BY TimesOnTheWay
<1>9. ASSUME ReplyAtOnce(n, Other(o, n))
      PROVE  PairInv(n, o)' /\ PairInv(o, n)'
  <2>1. /\ chan'[o][n] = Tail(chan[o][n])
        /\ chan'[n][o] = chan[n][o] \o <<r>>
    <3>1. LocalInv
      BY PairTypes
    <3>2. \A a, b \in Node :
            chan'[a][b] =
              IF a = o /\ b = n THEN Tail(chan[o][n])
              ELSE IF a = n /\ b # n THEN chan[a][b] \o <<r>>
              ELSE chan[a][b]
      BY <1>9, <3>1, RequestAccepted DEF m, now
    <3> QED BY <3>2
  <2>2. /\ l_time' = [l_time EXCEPT ![n] = now + 1]
        /\ requests' = requests
    BY <1>9 DEF HandleRequest, m, now
  <2>3. l_time'[n] = now + 1 /\ l_time'[o] = l_time[o]
    BY <2>2, PairTypes
  <2>4. r \in AnyMessage /\ r.type = "REPLY" /\ r.l_time = now + 1
    BY <1>7 DEF ReplyMsg, AnyMessage, MutexMessage
  <2> HIDE DEF r
  <2>5. /\ Range(chan'[n][o]) = Range(chan[n][o]) \cup {r}
        /\ \A type : Carries(chan'[n][o], type) <=>
                       Carries(chan[n][o], type) \/ type = "REPLY"
    <3> DEFINE ms == <<r>>
    <3>1. /\ ms \in Seq(AnyMessage) /\ Range(ms) = {r}
          /\ \A type : Carries(ms, type) <=> type = "REPLY"
      BY <2>4, CarriesOne
    <3>2. chan[n][o] \in Seq(AnyMessage) /\ chan'[n][o] = chan[n][o] \o ms
      BY <2>1, PairTypes
    <3> HIDE DEF ms
    <3> QED BY <3>1, <3>2, CarriesAppend
  <2>6. Single(n, o)'
    <3>1. /\ chan[n][o] \in Seq(AnyMessage)
          /\ AtMostOne(chan[n][o], "REQUEST") /\ AtMostOne(chan[n][o], "REPLY")
          /\ ~ Carries(chan[n][o], "REPLY")
      BY <1>2, <1>6, PairTypes DEF Single, Answered
    <3>2. AtMostOne(chan'[n][o], "REQUEST") /\ AtMostOne(chan'[n][o], "REPLY")
      BY <2>1, <2>4, <3>1, AtMostOneAppend
    <3> QED BY <3>2 DEF Single
  <2>7. Stamped(n, o)'
    <3>1. ASSUME NEW x \in Range(chan'[n][o])
          PROVE  /\ x.type \in {"REQUEST", "REPLY"} => x.l_time <= l_time'[n]
                 /\ x.type = "REQUEST" => x = RequestMsg(local_request[n])
      <4>1. CASE x = r
        BY <1>7, <2>3, <2>4, <4>1
      <4>2. CASE x \in Range(chan[n][o])
        BY <1>2, <1>7, <1>8, <2>3, <4>2, PairTypes DEF Stamped
      <4> QED BY <2>5, <3>1, <4>1, <4>2
    <3>2. local_request[n] <= l_time'[n]
      BY <1>2, <1>7, <2>3, PairTypes DEF Stamped
    <3> QED BY <1>1, <3>1, <3>2 DEF Stamped
  <2>8. Single(o, n)' /\ Stamped(o, n)'
    BY <1>1, <1>2, <1>3, <2>1, <2>3 DEF Single, Stamped
  <2>9. /\ Pending(n, o)' <=> Pending(n, o)
        /\ Answered(n, o)' <=> Answered(n, o)
        /\ ~ Pending(o, n)'
        /\ Answered(o, n)'
    BY <1>3, <2>1, <2>5 DEF Pending, Answered
  <2>10. Deferred(o)' = Deferred(o) /\ Deferred(n)' = Deferred(n)
    BY <2>2 DEF Deferred
  <2>11. /\ InOnePlace(n, o)' /\ InOnePlace(o, n)'
         /\ Kept(n, o)' /\ Kept(o, n)'
    BY <1>1, <1>2, <1>6, <2>2, <2>3, <2>9, <2>10
    DEF InOnePlace, Kept, LocalRequest
  <2>12. Ahead(n, o)'
    BY <1>1, <1>2, <2>3, <2>9 DEF Ahead, Granted, LocalRequest, Precedes
  <2>13. Ahead(o, n)'
    <3>1. local_request[n] # NoRequest =>
            Precedes(LocalRequest(o), LocalRequest(n))
      BY <1>5, <1>9 DEF ReplyAtOnce
    <3>2. local_request[o] < now + 1
      BY <1>7, PairTypes
    <3> QED
      BY <1>1, <2>3, <3>1, <3>2 DEF Ahead, LocalRequest, Precedes
  <2> QED
    BY <2>6, <2>7, <2>8, <2>11, <2>12, <2>13 DEF PairInv
<1>10. ASSUME ~ ReplyAtOnce(n, Other(o, n))
       PROVE  PairInv(n, o)' /\ PairInv(o, n)'
  <2>1. /\ l_time' = [l_time EXCEPT ![n] = now]
        /\ chan' = Received(o, n)
        /\ requests' = [requests EXCEPT ![n] = Insert(@, Other(o, n))]
    BY <1>10 DEF HandleRequest, m, now
  <2>2. /\ chan'[o][n] = Tail(chan[o][n])
        /\ chan'[n][o] = chan[n][o]
    BY <1>1, <2>1, PairTypes, MessageTaken
  <2>3. /\ l_time'[n] = now /\ l_time'[o] = l_time[o]
        /\ requests'[o] = requests[o]
        /\ requests'[n] = Insert(requests[n], Other(o, n))
    BY <2>1, PairTypes
  <2>4. requests'[n] = <<LocalRequest(o)>>
    <3>1. requests[n] = << >>
      BY <1>6 DEF Deferred
    <3> QED BY <1>5, <2>3, <3>1, InsertFirst
  <2>5. Single(n, o)' /\ Single(o, n)'
    BY <1>2, <1>3, <2>2 DEF Single
  <2>6. Stamped(n, o)' /\ Stamped(o, n)'
    <3>1. \A x \in Range(chan[n][o]) :
            x.type \in {"REQUEST", "REPLY"} => x.l_time <= now
      BY <1>2, <1>7, <1>8, PairTypes DEF Stamped
    <3>2. local_request[n] <= now
      BY <1>2, <1>7, PairTypes DEF Stamped
    <3> QED BY <1>1, <1>2, <1>3, <2>2, <2>3, <3>1, <3>2 DEF Stamped
  <2>7. /\ Pending(n, o)' = Pending(n, o)
        /\ Answered(n, o)' <=> Answered(n, o)
        /\ ~ Pending(o, n)'
        /\ Answered(o, n)' = Answered(o, n)
        /\ Deferred(o)' = Deferred(o)
    BY <1>3, <2>2, <2>3 DEF Pending, Answered, Deferred
  <2>8. InOnePlace(n, o)' /\ InOnePlace(o, n)'
    BY <1>1, <1>2, <1>6, <2>7 DEF InOnePlace
  <2>9. Kept(n, o)' /\ Ahead(n, o)'
    BY <1>1, <1>2, <2>3, <2>7
    DEF Kept, Ahead, Granted, LocalRequest, Precedes
  <2>10. Kept(o, n)'
    BY <1>1, <1>7, <2>3, <2>4 DEF Kept, LocalRequest
  <2>11. Ahead(o, n)'
    BY <1>1, <1>6, <2>7 DEF Ahead, Granted
  <2> QED BY <2>5, <2>6, <2>8, <2>9, <2>10, <2>11 DEF PairInv
<1> QED BY <1>9, <1>10

LEMMA PairHandleReply ==
  ASSUME TwoInv, NEW n \in Node, NEW o \in Node, n # o, HandleReply(n, o)
  PROVE  PairInv(n, o)' /\ PairInv(o, n)'
<1> DEFINE m   == Message(o, n)
           now == Clock(n, m.l_time)
<1>1. /\ chan[o][n] # << >> /\ m.type = "REPLY"
      /\ l_time' = [l_time EXCEPT ![n] = now]
      /\ chan' = Received(o, n)
      /\ wait_on' = [wait_on EXCEPT ![n] = @ \ {o}]
      /\ local_request' = local_request /\ requests' = requests
  BY DEF HandleReply
<1>2. /\ Single(n, o) /\ Stamped(n, o) /\ InOnePlace(n, o) /\ Ahead(n, o)
      /\ Single(o, n) /\ Stamped(o, n) /\ InOnePlace(o, n) /\ Kept(o, n)
      /\ Ahead(o, n)
  BY DEF TwoInv, PairInv
<1>3. /\ Range(Tail(chan[o][n])) \subseteq Range(chan[o][n])
      /\ AtMostOne(Tail(chan[o][n]), "REQUEST")
      /\ AtMostOne(Tail(chan[o][n]), "REPLY")
      /\ Carries(chan[o][n], "REPLY") /\ ~ Carries(Tail(chan[o][n]), "REPLY")
      /\ Carries(chan[o][n], "REQUEST") <=> Carries(Tail(chan[o][n]), "REQUEST")
  BY <1>1, PairTaken
<1>4. Answered(n, o) /\ ~ Pending(n, o) /\ ~ Deferred(o)
  BY <1>2, <1>3 DEF InOnePlace, Answered
<1>5. now \in Nat /\ now > l_time[n]
  <2>1. TypeOK
    BY PairTypes DEF LocalInv
  <2> QED BY <1>1, <2>1, Taken
<1> HIDE DEF m, now
<1>6. /\ chan'[o][n] = Tail(chan[o][n])
      /\ chan'[n][o] = chan[n][o]
  BY <1>1, PairTypes, MessageTaken
<1>7. /\ l_time'[n] = now /\ l_time'[o] = l_time[o]
      /\ wait_on'[o] = wait_on[o]
  BY <1>1, PairTypes
<1>8. Single(n, o)' /\ Single(o, n)'
  BY <1>2, <1>3, <1>6 DEF Single
<1>9. Stamped(n, o)' /\ Stamped(o, n)'
  <2>1. \A x \in Range(chan[n][o]) :
          x.type \in {"REQUEST", "REPLY"} => x.l_time \in Nat
    BY TimesOnTheWay
  <2>2. \A x \in Range(chan[n][o]) :
          x.type \in {"REQUEST", "REPLY"} => x.l_time <= now
    BY <1>2, <1>5, <2>1, PairTypes DEF Stamped
  <2>3. local_request[n] <= now
    BY <1>2, <1>5, PairTypes DEF Stamped
  <2> QED BY <1>1, <1>2, <1>3, <1>6, <1>7, <2>2, <2>3 DEF Stamped
<1>10. /\ Pending(n, o)' = Pending(n, o)
       /\ Pending(o, n)' <=> Pending(o, n)
       /\ Answered(o, n)' = Answered(o, n)
       /\ ~ Answered(n, o)'
       /\ Deferred(o)' = Deferred(o) /\ Deferred(n)' = Deferred(n)
  BY <1>1, <1>3, <1>6 DEF Pending, Answered, Deferred
<1>11. InOnePlace(n, o)' /\ InOnePlace(o, n)' /\ Kept(n, o)'
  BY <1>2, <1>4, <1>7, <1>10 DEF InOnePlace, Kept
<1>12. Ahead(n, o)'
  BY <1>1, <1>2, <1>4, <1>7 DEF Ahead, Granted, LocalRequest, Precedes
<1>13. Kept(o, n)'
  BY <1>1, <1>2, <1>5, <1>7, <1>10, PairTypes DEF Kept, LocalRequest
<1>14. Ahead(o, n)'
  <2>1. Granted(o, n)' => Granted(o, n)
    BY <1>1, <1>7, <1>10 DEF Granted
  <2>2. Granted(o, n) => local_request[o] < now
    BY <1>2, <1>5, PairTypes DEF Ahead
  <2> QED
    BY <1>1, <1>2, <1>7, <2>1, <2>2 DEF Ahead, LocalRequest, Precedes
<1> QED
  BY <1>8, <1>9, <1>11, <1>12, <1>13, <1>14 DEF PairInv

LEMMA PairStep ==
  ASSUME AtMostTwoNodes, TwoInv, [Next]_vars
  PROVE  TwoInv'
<1>1. AnswerInv'
  BY LocalStep, DeferredStep, OwedStep DEF TwoInv, AnswerInv
<1>2. ASSUME NEW i \in Node, NEW j \in Node, i # j
      PROVE  PairInv(i, j)'
  <2>0. \A n \in Node : n = i \/ n = j
    BY <1>2 DEF AtMostTwoNodes
  <2>1. ASSUME NEW n \in Node, NEW t \in Thread, LockRequest(n, t)
        PROVE  PairInv(i, j)'
    BY <1>2, <2>0, <2>1, PairLockRequest
  <2>2. ASSUME NEW n \in Node, NEW t \in Thread, UnlockReply(n, t)
        PROVE  PairInv(i, j)'
    BY <1>2, <2>0, <2>2, PairUnlockReply
  <2>3. ASSUME NEW n \in Node, NEW p \in Node, Handle(n, p)
        PROVE  PairInv(i, j)'
    <3>1. n # p
      BY <2>3, PairTypes
      DEF Handle, HandleRequest, HandleReply, LocalInv, NothingToSelf
    <3> QED
      BY <1>2, <2>0, <2>3, <3>1, PairHandleRequest, PairHandleReply DEF Handle
  <2>4. CASE UNCHANGED <<chan, l_time, local_request, requests, wait_on>>
    BY <1>2, <2>4
    DEF TwoInv, PairInv, Single, Stamped, InOnePlace, Kept, Ahead, Granted,
        Pending, Deferred, Answered, LocalRequest
  <2> QED
    BY <2>1, <2>2, <2>3, <2>4
    DEF Next, Lock, Unlock, LockLocal, LockWait, UnlockLocal, vars, mutexVars
<1> QED BY <1>1, <1>2 DEF TwoInv

LEMMA PairInit == Init => TwoInv
<1> SUFFICES ASSUME Init PROVE TwoInv
  OBVIOUS
<1>1. DeferredFollow /\ NoLostReply
  BY DEF Init, MutexInit, DeferredFollow, NoLostReply, Range
<1>2. ASSUME NEW i \in Node, NEW j \in Node, i # j
      PROVE  PairInv(i, j)
  <2>1. /\ chan[i][j] = << >> /\ chan[j][i] = << >> /\ requests[j] = << >>
        /\ local_request[i] = 0 /\ l_time[i] = 0
    BY DEF Init, MutexInit, NoRequest
  <2>2. /\ Range(chan[i][j]) = {} /\ Range(chan[j][i]) = {}
        /\ DOMAIN chan[i][j] = {}
    BY <2>1 DEF Range
  <2>3. ~ Pending(i, j) /\ ~ Deferred(j) /\ ~ Answered(i, j) /\ ~ Granted(i, j)
    BY <2>1, <2>2 DEF Pending, Deferred, Answered, Granted, Carries, NoRequest
  <2>4. Single(i, j) /\ Stamped(i, j)
    BY <2>1, <2>2 DEF Single, Stamped, AtMostOne
  <2> QED BY <2>3, <2>4 DEF PairInv, InOnePlace, Kept, Ahead
<1> QED BY <1>1, <1>2, LocalInit DEF TwoInv, AnswerInv

LEMMA PairInvariant == ASSUME AtMostTwoNodes PROVE Spec => []TwoInv
<1>1. TwoInv /\ [Next]_vars => TwoInv'
  BY PairStep
<1> QED BY <1>1, PairInit, PTL DEF Spec

LEMMA PairExclusion ==
  ASSUME TwoInv
  PROVE  MutualExclusion
<1> SUFFICES ASSUME NEW m \in Node, NEW n \in Node,
                    NEW s \in Thread, NEW t \in Thread,
                    pc[m][s] = "held", pc[n][t] = "held"
             PROVE  m = n /\ s = t
  BY DEF MutualExclusion
<1>1. CASE m = n
  BY <1>1, PairTypes, OneInside
<1>2. CASE m # n
  <2>1. wait_on[m] = {} /\ wait_on[n] = {}
    BY <1>2, Settled
  <2>2. local_request[m] # NoRequest /\ local_request[n] # NoRequest
    BY PairTypes DEF LocalInv, RequestWhileEngaged, Engaged
  <2>3. /\ Precedes(LocalRequest(m), LocalRequest(n))
        /\ Precedes(LocalRequest(n), LocalRequest(m))
    BY <1>2, <2>1, <2>2 DEF TwoInv, PairInv, Ahead, Granted
  <2>4. FALSE
    BY <1>2, <2>3, PairTypes, NodeAssumption DEF Precedes, LocalRequest
  <2> QED BY <2>4
<1> QED BY <1>1, <1>2

\* Between two nodes edsm_mutex_lock excludes: whatever the interleaving of
\* the threads and the listeners, one thread at a time has the mutex.
THEOREM PairMutualExclusion ==
  ASSUME AtMostTwoNodes
  PROVE  Spec => []MutualExclusion
BY PairInvariant, PairExclusion, PTL

\* Between two nodes the mutex is handed over in the order of the requests.
THEOREM PairRequestOrder ==
  ASSUME AtMostTwoNodes
  PROVE  Spec => InRequestOrder
<1>1. ASSUME TwoInv, [Next]_vars
      PROVE  [\A n, p \in Node : \A t \in Thread :
                /\ n # p /\ pc[n][t] = "waiting" /\ pc'[n][t] = "held"
                /\ local_request[p] # NoRequest
                => Precedes(LocalRequest(n), LocalRequest(p))]_vars
  <2> SUFFICES ASSUME NEW n \in Node, NEW p \in Node, NEW t \in Thread,
                      n # p, pc[n][t] = "waiting", pc'[n][t] = "held",
                      local_request[p] # NoRequest
               PROVE  Precedes(LocalRequest(n), LocalRequest(p))
    OBVIOUS
  <2>0. pc \in [Node -> [Thread -> {"idle", "locking", "waiting", "held",
                                    "unlocking"}]]
    BY <1>1, PairTypes DEF LocalInv, TypeOK
  <2>1. wait_on[n] = {}
    <3>1. PICK a \in Node, s \in Thread : Lock(a, s) \/ Unlock(a, s)
      BY <1>1
      DEF Next, Handle, HandleRequest, HandleReply, vars, mutexVars
    <3>2. a = n /\ s = t
      BY <2>0, <3>1
      DEF Lock, Unlock, LockLocal, LockRequest, LockWait, UnlockReply,
          UnlockLocal, Goto
    <3> QED
      BY <2>0, <3>1, <3>2
      DEF Lock, Unlock, LockLocal, LockRequest, LockWait, UnlockReply,
          UnlockLocal, Goto
  <2>2. local_request[n] # NoRequest
    BY <1>1, PairTypes DEF LocalInv, RequestWhileEngaged, Engaged
  <2> QED BY <1>1, <2>1, <2>2 DEF TwoInv, PairInv, Ahead, Granted
<1> QED BY <1>1, PairInvariant, PTL DEF Spec, InRequestOrder

Waiting == {c \in Node \X Thread : pc[c[1]][c[2]] = "waiting"}
Holding == {c \in Node \X Thread : pc[c[1]][c[2]] = "held"}

\* Between two nodes the mutex implements the lock service: a lock call that
\* returns finds the lock free, and no step does anything else to its callers.
THEOREM PairImplementsLock ==
  ASSUME AtMostTwoNodes
  PROVE  Spec => ImplementsLockService
<1>1. Init => Service!ServiceInit
  BY DEF Init, MutexInit, Service!ServiceInit
<1>2. ASSUME TwoInv, MutualExclusion', [Next]_vars
      PROVE  [Service!ServiceNext]_(Service!serviceVars)
  <2>0. /\ pc \in [Node -> [Thread -> {"idle", "locking", "waiting", "held",
                                       "unlocking"}]]
        /\ MutualExclusion'
    BY <1>2, PairTypes DEF LocalInv, TypeOK
  <2>1. ASSUME NEW n \in Node, NEW t \in Thread, LockRequest(n, t)
        PROVE  Service!Request(<<n, t>>)
    <3>1. /\ pc[n][t] = "locking"
          /\ \A m \in Node, s \in Thread :
               pc'[m][s] = IF m = n /\ s = t THEN "waiting" ELSE pc[m][s]
      BY <2>0, <2>1 DEF LockRequest, Goto
    <3>2. /\ <<n, t>> \notin Waiting /\ <<n, t>> \notin Holding
          /\ Waiting' = Waiting \cup {<<n, t>>}
          /\ Holding' = Holding
      BY <3>1 DEF Waiting, Holding
    <3> QED BY <3>2 DEF Service!Request, Waiting, Holding
  <2>2. ASSUME NEW n \in Node, NEW t \in Thread, LockWait(n, t)
        PROVE  Service!Acquire(<<n, t>>)
    <3>1. /\ pc[n][t] = "waiting"
          /\ \A m \in Node, s \in Thread :
               pc'[m][s] = IF m = n /\ s = t THEN "held" ELSE pc[m][s]
      BY <2>0, <2>2 DEF LockWait, Goto
    <3>2. \A m \in Node, s \in Thread : pc[m][s] # "held"
      BY <2>0, <3>1 DEF MutualExclusion
    <3>3. /\ <<n, t>> \in Waiting /\ Holding = {}
          /\ Waiting' = Waiting \ {<<n, t>>}
          /\ Holding' = {<<n, t>>}
      BY <3>1, <3>2 DEF Waiting, Holding
    <3> QED BY <3>3 DEF Service!Acquire, Waiting, Holding
  <2>3. ASSUME NEW n \in Node, NEW t \in Thread, UnlockReply(n, t)
        PROVE  Service!Release(<<n, t>>)
    <3>1. /\ pc[n][t] = "held"
          /\ \A m \in Node, s \in Thread :
               pc'[m][s] = IF m = n /\ s = t THEN "unlocking" ELSE pc[m][s]
      BY <2>0, <2>3 DEF UnlockReply, Goto
    <3>2. /\ <<n, t>> \in Holding
          /\ Waiting' = Waiting
          /\ Holding' = Holding \ {<<n, t>>}
      BY <3>1 DEF Waiting, Holding
    <3> QED BY <3>2 DEF Service!Release, Waiting, Holding
  <2>4. ASSUME NEW n \in Node, NEW t \in Thread,
               LockLocal(n, t) \/ UnlockLocal(n, t)
        PROVE  UNCHANGED Service!serviceVars
    <3>1. PICK to \in {"idle", "locking"} :
            /\ pc[n][t] \notin {"waiting", "held"}
            /\ pc' = [pc EXCEPT ![n][t] = to]
      <4>1. CASE LockLocal(n, t)
        BY <4>1 DEF LockLocal, Goto
      <4>2. CASE UnlockLocal(n, t)
        BY <4>2 DEF UnlockLocal, Goto
      <4> QED BY <2>4, <4>1, <4>2
    <3>2. /\ pc[n][t] \notin {"waiting", "held"}
          /\ \A m \in Node, s \in Thread :
               pc'[m][s] = IF m = n /\ s = t THEN to ELSE pc[m][s]
      BY <2>0, <3>1
    <3>3. Waiting' = Waiting /\ Holding' = Holding
      BY <3>2 DEF Waiting, Holding
    <3> QED BY <3>3 DEF Service!serviceVars, Waiting, Holding
  <2>5. CASE UNCHANGED pc
    <3>1. Waiting' = Waiting /\ Holding' = Holding
      BY <2>5 DEF Waiting, Holding
    <3> QED BY <3>1 DEF Service!serviceVars, Waiting, Holding
  <2> QED
    BY <1>2, <2>1, <2>2, <2>3, <2>4, <2>5
    DEF Next, Lock, Unlock, Handle, HandleRequest, HandleReply, vars,
        mutexVars, Service!ServiceNext
<1> QED
  BY <1>1, <1>2, PairInvariant, PairMutualExclusion, PTL
  DEF Spec, ImplementsLockService, Service!ServiceSpec

----------------------------------------------------------------------------
(***************************************************************************)
(* Two nodes, and what the rest of the program does on the connections     *)
(***************************************************************************)

\* A step of another module at one connection: nothing, a message of its own is
\* sent, or a message of its own is taken.
ForeignAt(before, after, mayGrow) ==
  \/ after = before
  \/ mayGrow /\ \E f \in Foreign : after = before \o <<f>>
  \/ /\ before # << >> /\ Head(before).type \notin {"REQUEST", "REPLY"}
     /\ after = Tail(before)

\* The messages of the mutex are the same after it.
LEMMA ForeignKeeps ==
  ASSUME NEW s \in Seq(AnyMessage), NEW t, NEW mayGrow, ForeignAt(s, t, mayGrow)
  PROVE  /\ t \in Seq(AnyMessage)
         /\ \A x : x.type \in {"REQUEST", "REPLY"} =>
                   (x \in Range(t) <=> x \in Range(s))
         /\ \A type \in {"REQUEST", "REPLY"} :
              /\ Carries(t, type) <=> Carries(s, type)
              /\ AtMostOne(s, type) => AtMostOne(t, type)
<1> DEFINE Same == \A x : x.type \in {"REQUEST", "REPLY"} =>
                            (x \in Range(t) <=> x \in Range(s))
<1>1. ASSUME Same
      PROVE  \A type \in {"REQUEST", "REPLY"} : Carries(t, type) <=> Carries(s, type)
  BY <1>1 DEF Carries
<1>2. CASE t = s
  BY <1>2
<1>3. ASSUME NEW f \in Foreign, t = s \o <<f>>
      PROVE  /\ t \in Seq(AnyMessage) /\ Same
             /\ \A type \in {"REQUEST", "REPLY"} :
                  AtMostOne(s, type) => AtMostOne(t, type)
  <2>1. f \in AnyMessage /\ f.type \notin {"REQUEST", "REPLY"}
    BY ForeignAssumption DEF AnyMessage
  <2>2. <<f>> \in Seq(AnyMessage) /\ Range(<<f>>) = {f}
    BY <2>1, CarriesOne
  <2>3. t \in Seq(AnyMessage) /\ Range(t) = Range(s) \cup {f}
    <3> DEFINE fs == <<f>>
    <3>1. fs \in Seq(AnyMessage) /\ Range(fs) = {f} /\ t = s \o fs
      BY <1>3, <2>2
    <3> HIDE DEF fs
    <3> QED BY <3>1, CarriesAppend, ConcatProperties
  <2>4. \A type \in {"REQUEST", "REPLY"} :
          AtMostOne(s, type) => AtMostOne(t, type)
    BY <1>3, <2>1, AtMostOneAppend
  <2> QED BY <2>1, <2>3, <2>4
<1>4. ASSUME s # << >>, Head(s).type \notin {"REQUEST", "REPLY"}, t = Tail(s)
      PROVE  /\ t \in Seq(AnyMessage) /\ Same
             /\ \A type \in {"REQUEST", "REPLY"} :
                  AtMostOne(s, type) => AtMostOne(t, type)
  <2>1. t \in Seq(AnyMessage) /\ Range(s) = {Head(s)} \cup Range(t)
    BY <1>4, HeadTailRange
  <2> QED BY <1>4, <2>1, AtMostOneTail
<1> HIDE DEF Same
<1>5. /\ t \in Seq(AnyMessage) /\ Same
      /\ \A type \in {"REQUEST", "REPLY"} :
           AtMostOne(s, type) => AtMostOne(t, type)
  BY <1>2, <1>3, <1>4 DEF ForeignAt, Same
<1> QED BY <1>1, <1>5 DEF Same

\* What another module sends to a peer, or takes, does not disturb the mutex.
LEMMA ForeignStep ==
  ASSUME TwoInv, UNCHANGED <<peers, mutexVars>>,
         chan' \in [Node -> [Node -> Seq(AnyMessage)]],
         \A a, b \in Node : ForeignAt(chan[a][b], chan'[a][b], a # b)
  PROVE  TwoInv'
<1>1. /\ UNCHANGED <<peers, l_time, local_request, requests, wait_on,
                     local_mutex, pc>>
      /\ chan' \in Channels
  BY DEF mutexVars, Channels
<1>2. ASSUME NEW a \in Node, NEW b \in Node
      PROVE  /\ \A x : x.type \in {"REQUEST", "REPLY"} =>
                       (x \in Range(chan'[a][b]) <=> x \in Range(chan[a][b]))
             /\ \A type \in {"REQUEST", "REPLY"} :
                  /\ Carries(chan'[a][b], type) <=> Carries(chan[a][b], type)
                  /\ AtMostOne(chan[a][b], type) => AtMostOne(chan'[a][b], type)
  BY PairTypes, ForeignKeeps
<1>3. LocalInv'
  <2>1. LocalInv
    BY PairTypes
  <2>2. TypeOK'
    BY <1>1, <2>1 DEF LocalInv, TypeOK, Channels
  <2>3. NothingToSelf'
    BY <2>1 DEF LocalInv, NothingToSelf, ForeignAt
  <2> QED
    BY <1>1, <2>1, <2>2, <2>3
    DEF LocalInv, PeersKnown, OwnerInside, RequestWhileEngaged,
        AwaitedWhileWaiting, Engaged
<1>4. DeferredFollow'
  BY <1>1, PairTypes DEF DeferredFollow, LocalRequest
<1>5. NoLostReply'
  <2> SUFFICES ASSUME NEW q \in Node, NEW p \in wait_on[q]
               PROVE  ReplyOwed(q, p)'
    BY <1>1 DEF NoLostReply
  <2>1. p \in Node /\ NoLostReply
    BY PairTypes DEF AnswerInv
  <2>2. RequestMsg(local_request[q]).type = "REQUEST"
    BY DEF RequestMsg
  <2>3. RequestMsg(local_request[q]) \in Range(chan[q][p])
          => RequestMsg(local_request[q]) \in Range(chan'[q][p])
    BY <1>2, <2>1, <2>2
  <2>4. \A t \in Thread : Engaged(p, t) => Engaged(p, t)'
    BY <1>1 DEF Engaged
  <2> QED BY <1>1, <1>2, <2>1, <2>3, <2>4, StillOwed
<1>6. ASSUME NEW i \in Node, NEW j \in Node, i # j
      PROVE  PairInv(i, j)'
  <2>1. PairInv(i, j)
    BY <1>6 DEF TwoInv
  <2>2. Single(i, j)'
    BY <1>2, <2>1 DEF PairInv, Single
  <2>3. Stamped(i, j)'
    BY <1>1, <1>2, <2>1 DEF PairInv, Stamped
  <2>4. /\ Pending(i, j)' <=> Pending(i, j)
        /\ Answered(i, j)' <=> Answered(i, j)
        /\ Deferred(j)' <=> Deferred(j)
    BY <1>1, <1>2 DEF Pending, Answered, Deferred
  <2> QED
    BY <1>1, <2>1, <2>2, <2>3, <2>4
    DEF PairInv, InOnePlace, Kept, Ahead, Granted, LocalRequest
<1> QED BY <1>3, <1>4, <1>5, <1>6 DEF TwoInv, AnswerInv

\* A step of the mutex at one connection: nothing, messages of its own are sent,
\* or one of them is taken.
MutexAt(before, after) ==
  \/ after = before
  \/ \E ms \in Seq(MutexMessage) : after = before \o ms
  \/ /\ before # << >> /\ Head(before).type \in {"REQUEST", "REPLY"}
     /\ after = Tail(before)

LEMMA ConnectionStep ==
  ASSUME LocalInv, [Next]_vars, NEW p \in Node, NEW q \in Node
  PROVE  MutexAt(chan[p][q], chan'[p][q])
<1>1. TypeOK /\ l_time \in [Node -> Nat]
  BY DEF LocalInv, TypeOK
<1>2. ASSUME NEW n \in Node, NEW t \in Thread, LockRequest(n, t)
      PROVE  MutexAt(chan[p][q], chan'[p][q])
  <2> DEFINE ms == <<RequestMsg(l_time[n] + 1)>>
  <2>1. ms \in Seq(MutexMessage)
    BY <1>1 DEF RequestMsg, MutexMessage
  <2>2. chan'[p][q] = IF p = n /\ q # n THEN chan[p][q] \o ms ELSE chan[p][q]
    BY <1>2, RequestSent
  <2> HIDE DEF ms
  <2> QED BY <2>1, <2>2 DEF MutexAt
<1>3. ASSUME NEW n \in Node, NEW t \in Thread, UnlockReply(n, t)
      PROVE  MutexAt(chan[p][q], chan'[p][q])
  <2>1. Replies(n) \in Seq(MutexMessage)
    <3>1. l_time[n] \in Nat /\ requests[n] \in Seq(RequestEntry)
      BY <1>1 DEF TypeOK
    <3> QED BY <3>1, MessagesOfUnlock
  <2>2. chan'[p][q] = IF p = n /\ q # n THEN chan[p][q] \o Replies(n)
                                        ELSE chan[p][q]
    BY <1>3, RepliesSent
  <2> QED BY <2>1, <2>2 DEF MutexAt
<1>4. ASSUME NEW n \in Node, NEW o \in Node, Handle(n, o)
      PROVE  MutexAt(chan[p][q], chan'[p][q])
  <2> DEFINE ms == <<ReplyMsg(Clock(n, Message(o, n).l_time) + 1)>>
  <2>1. chan[o][n] # << >> /\ Head(chan[o][n]).type \in {"REQUEST", "REPLY"}
    BY <1>4 DEF Handle, HandleRequest, HandleReply, Message
  <2>2. CASE HandleRequest(n, o) /\ ReplyAtOnce(n, Other(o, n))
    <3>1. ms \in Seq(MutexMessage)
      BY <1>1, <2>1, Taken DEF Message, ReplyMsg, MutexMessage
    <3>2. chan'[p][q] =
            IF p = o /\ q = n THEN Tail(chan[o][n])
            ELSE IF p = n /\ q # n THEN chan[p][q] \o ms
            ELSE chan[p][q]
      BY <2>2, RequestAccepted
    <3> HIDE DEF ms
    <3> QED BY <2>1, <3>1, <3>2 DEF MutexAt
  <2>3. CASE \/ HandleRequest(n, o) /\ ~ ReplyAtOnce(n, Other(o, n))
             \/ HandleReply(n, o)
    <3>1. chan' = Received(o, n)
      BY <2>3 DEF HandleRequest, HandleReply
    <3> QED BY <2>1, <3>1, MessageTaken DEF MutexAt
  <2> QED BY <1>4, <2>2, <2>3 DEF Handle
<1> QED
  BY <1>2, <1>3, <1>4
  DEF Next, Lock, Unlock, LockLocal, LockWait, UnlockLocal, vars, MutexAt

\* The reply of p is heard when n takes it from the connection, and not before.
LEMMA HeardStep ==
  ASSUME LocalInv, [Next]_vars, NEW p \in Node, NEW n \in Node, p # n,
         local_request'[n] # NoRequest, p \notin wait_on'[n]
  PROVE  \/ local_request[n] # NoRequest /\ p \notin wait_on[n]
         \/ /\ chan[p][n] # << >> /\ Head(chan[p][n]).type = "REPLY"
            /\ chan'[p][n] = Tail(chan[p][n])
<1>1. /\ local_request \in [Node -> Nat] /\ wait_on \in [Node -> SUBSET Node]
      /\ PeersKnown
  BY DEF LocalInv, TypeOK
<1>2. ASSUME NEW m \in Node, NEW t \in Thread, LockRequest(m, t)
      PROVE  local_request[n] # NoRequest /\ p \notin wait_on[n]
  <2>1. m # n
    BY <1>1, <1>2 DEF LockRequest, Awaited, PeersKnown
  <2> QED BY <1>1, <1>2, <2>1 DEF LockRequest
<1>3. ASSUME NEW m \in Node, NEW t \in Thread, UnlockReply(m, t)
      PROVE  local_request[n] # NoRequest /\ p \notin wait_on[n]
  BY <1>1, <1>3 DEF UnlockReply
<1>4. ASSUME NEW m \in Node, NEW o \in Node, HandleReply(m, o)
      PROVE  \/ local_request[n] # NoRequest /\ p \notin wait_on[n]
             \/ /\ chan[p][n] # << >> /\ Head(chan[p][n]).type = "REPLY"
                /\ chan'[p][n] = Tail(chan[p][n])
  <2>1. chan[o][m] # << >> /\ chan' = Received(o, m)
        /\ Head(chan[o][m]).type = "REPLY"
    BY <1>4 DEF HandleReply, Message
  <2>2. CASE m = n /\ o = p
    BY <2>1, <2>2, MessageTaken
  <2>3. CASE ~ (m = n /\ o = p)
    BY <1>1, <1>4, <2>3 DEF HandleReply
  <2> QED BY <2>2, <2>3
<1> QED
  BY <1>2, <1>3, <1>4
  DEF Next, Lock, Unlock, Handle, HandleRequest, LockLocal, LockWait,
      UnlockLocal, vars, mutexVars

\* While n holds the mutex its reply is not on the way and has not been heard.
LEMMA HolderKeepsReply ==
  ASSUME TwoInv, NEW n \in Node, NEW o \in Node, n # o,
         NEW t \in Thread, pc[n][t] = "held"
  PROVE  /\ ~ Carries(chan[n][o], "REPLY")
         /\ local_request[o] # NoRequest => n \in wait_on[o]
<1>1. wait_on[n] = {} /\ local_request[n] # NoRequest
  BY Settled, PairTypes DEF LocalInv, RequestWhileEngaged, Engaged
<1>2. Granted(n, o)
  BY <1>1 DEF Granted
<1>3. ASSUME Granted(o, n)
      PROVE  FALSE
  <2>1. n \in wait_on[o] => local_request[o] # NoRequest
    BY PairTypes DEF LocalInv, AwaitedWhileWaiting, RequestWhileEngaged, Engaged
  <2>2. Answered(o, n) => n \in wait_on[o]
    BY DEF TwoInv, PairInv, InOnePlace
  <2>3. local_request[o] # NoRequest
    BY <1>3, <2>1, <2>2 DEF Granted
  <2>4. /\ Precedes(LocalRequest(n), LocalRequest(o))
        /\ Precedes(LocalRequest(o), LocalRequest(n))
    BY <1>1, <1>2, <1>3, <2>3 DEF TwoInv, PairInv, Ahead
  <2> QED BY <2>4, PairTypes, NodeAssumption DEF Precedes, LocalRequest
<1> QED BY <1>3 DEF Granted, Answered
============================================================================

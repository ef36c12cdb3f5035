--------------------------- MODULE ObjectIdsProofs ---------------------------
(***************************************************************************)
(* Theorems about ObjectIds: between two nodes that start together no id   *)
(* is assigned twice, whatever the interleaving of creators and listeners. *)
(*                                                                         *)
(* The mutex is not proved again: MP is MutexProofs on the connections     *)
(* that the two modules share, with the CREATE messages as what is foreign *)
(* to the mutex.                                                           *)
(***************************************************************************)
EXTENDS ObjectIds, FiniteSetTheorems, SequenceTheorems, TLAPS

MP == INSTANCE MutexProofs WITH Foreign <- CreateMessage

----------------------------------------------------------------------------
(***************************************************************************)
(* The inductive invariant                                                 *)
(***************************************************************************)

\* The ids that the connection s carries.
Creates(s) == {m.id : m \in {x \in Range(s) : x.type = "CREATE"}}

\* CREATE messages arrive in the order of their ids, and ahead of the reply
\* with which their sender gives up the lock.
InIdOrder(s) ==
  \A k, l \in DOMAIN s :
    s[k].type = "CREATE" /\ s[l].type = "CREATE" /\ k < l => s[k].id < s[l].id

AheadOfReply(s) ==
  \A k, l \in DOMAIN s : s[k].type = "REPLY" /\ s[l].type = "CREATE" => l < k

\* Where a thread is in edsm_dobj_create fits where it is in lock and unlock.
CreatesUnderLock ==
  \A n \in Node, t \in Thread :
    /\ creating[n][t] = "incremented" => pc[n][t] = "held"
    /\ creating[n][t] = "sent" => pc[n][t] \in {"held", "unlocking", "idle"}
    /\ pc[n][t] = "unlocking" => creating[n][t] = "sent"

\* n has incremented its copy and has not told anyone.
Untold(n) == \E t \in Thread : creating[n][t] = "incremented"

AssignedInOrder == \A k \in DOMAIN assigned : assigned[k] = k

CopiesTrail == \A n \in Node : max_obj_id[n] <= Len(assigned)

\* What is on the way is news to the receiver.
CreatesAreNews(p, n) ==
  /\ InIdOrder(chan[p][n]) /\ AheadOfReply(chan[p][n])
  /\ \A id \in Creates(chan[p][n]) :
       id \in Nat /\ max_obj_id[n] < id /\ id <= Len(assigned)

\* Nobody has heard of the id that a creator is about to broadcast.
UntoldIsNewest(p, n) ==
  Untold(p) =>
    /\ max_obj_id[p] = Len(assigned)
    /\ max_obj_id[n] < Len(assigned)
    /\ Len(assigned) \notin Creates(chan[p][n])

\* A copy that is behind has the newest id on its way, or not yet sent.
Catching(p, n) ==
  max_obj_id[n] = Len(assigned) \/ Untold(p)
  \/ Len(assigned) \in Creates(chan[p][n])

\* Once the reply of p has been received no CREATE of p is on the way.
Heard(p, n) ==
  local_request[n] # 0 /\ p \notin wait_on[n] => Creates(chan[p][n]) = {}

IdsTypeOK ==
  /\ max_obj_id \in [Node -> Nat]
  /\ creating \in [Node -> [Thread -> {"out", "incremented", "sent"}]]
  /\ assigned \in Seq(Nat)
  /\ returned \in Seq(Nat)

IdsPairInv(p, n) ==
  CreatesAreNews(p, n) /\ UntoldIsNewest(p, n) /\ Catching(p, n) /\ Heard(p, n)

AloneInv ==
  \A n \in Node : (\A p \in Node : p = n) => max_obj_id[n] = Len(assigned)

IdsInv ==
  /\ MP!TwoInv
  /\ IdsTypeOK /\ CreatesUnderLock /\ AssignedInOrder /\ CopiesTrail
  /\ AloneInv
  /\ \A p, n \in Node : p # n => IdsPairInv(p, n)

----------------------------------------------------------------------------
(***************************************************************************)
(* Lemmas about what a connection carries                                  *)
(***************************************************************************)
Messages == MP!AnyMessage

LEMMA ForeignCreates ==
  \A m \in CreateMessage : m.type \notin {"REQUEST", "REPLY"}
BY DEF CreateMessage

LEMMA CreateTypes ==
  ASSUME NEW s \in Seq(Messages)
  PROVE  /\ \A k \in DOMAIN s : s[k].type = "CREATE" => s[k].id \in Nat
         /\ Creates(s) \subseteq Nat
         /\ \A id : id \in Creates(s) <=>
                    \E k \in DOMAIN s : s[k].type = "CREATE" /\ s[k].id = id
<1>1. \A k \in DOMAIN s : s[k] \in Messages
  BY ElementOfSeq, LenProperties
<1>2. \A m \in Messages : m.type = "CREATE" => m.id \in Nat
  BY DEF Messages, MP!AnyMessage, MP!MutexMessage, CreateMessage
<1> QED BY <1>1, <1>2 DEF Creates, Range

LEMMA OrderedTail ==
  ASSUME NEW s \in Seq(Messages), s # << >>, InIdOrder(s), AheadOfReply(s)
  PROVE  /\ Tail(s) \in Seq(Messages)
         /\ InIdOrder(Tail(s)) /\ AheadOfReply(Tail(s))
         /\ Creates(Tail(s)) \subseteq Creates(s)
         /\ Head(s).type # "CREATE" => Creates(Tail(s)) = Creates(s)
         /\ Head(s).type = "CREATE" =>
              /\ Creates(s) = Creates(Tail(s)) \cup {Head(s).id}
              /\ \A id \in Creates(Tail(s)) : Head(s).id < id
         /\ Head(s).type = "REPLY" => Creates(Tail(s)) = {}
<1> DEFINE t == Tail(s)
<1>1. /\ t \in Seq(Messages)
      /\ Len(t) = Len(s) - 1
      /\ \A k \in 1 .. Len(t) : t[k] = s[k + 1]
  BY HeadTailProperties
<1>2. /\ Len(s) \in Nat \ {0} /\ Head(s) = s[1]
      /\ DOMAIN s = 1 .. Len(s) /\ DOMAIN t = 1 .. Len(t)
  BY <1>1, EmptySeq, LenProperties
<1> HIDE DEF t
<1>3. \A k \in DOMAIN t : k \in Nat \ {0} /\ k + 1 \in DOMAIN s /\ t[k] = s[k + 1]
  BY <1>1, <1>2
<1>4. \A k \in DOMAIN s : k = 1 \/ (k - 1 \in DOMAIN t /\ s[k] = t[k - 1])
  BY <1>1, <1>2
<1>5. 1 \in DOMAIN s
  BY <1>2
<1>6. InIdOrder(t)
  <2> SUFFICES ASSUME NEW k \in DOMAIN t, NEW l \in DOMAIN t, k < l,
                      t[k].type = "CREATE", t[l].type = "CREATE"
               PROVE  t[k].id < t[l].id
    BY DEF InIdOrder
  <2>1. k + 1 < l + 1
    BY <1>3
  <2> QED BY <1>3, <2>1 DEF InIdOrder
<1>7. AheadOfReply(t)
  <2> SUFFICES ASSUME NEW k \in DOMAIN t, NEW l \in DOMAIN t,
                      t[k].type = "REPLY", t[l].type = "CREATE"
               PROVE  l < k
    BY DEF AheadOfReply
  <2>1. l + 1 < k + 1 /\ l \in Nat /\ k \in Nat
    BY <1>3 DEF AheadOfReply
  <2> QED BY <2>1
<1>8. Range(s) = {Head(s)} \cup Range(t)
  BY <1>2, <1>3, <1>4, <1>5, SMTT(30) DEF Range
<1>9. ASSUME Head(s).type = "CREATE", NEW id \in Creates(t)
      PROVE  Head(s).id < id
  <2>1. PICK k \in DOMAIN t : t[k].type = "CREATE" /\ t[k].id = id
    BY <1>1, CreateTypes
  <2>2. k + 1 \in DOMAIN s /\ 1 < k + 1 /\ s[k + 1].type = "CREATE"
        /\ s[k + 1].id = id
    BY <1>3, <2>1
  <2> QED BY <1>2, <1>5, <1>9, <2>2 DEF InIdOrder
<1>10. ASSUME Head(s).type = "REPLY", NEW id \in Creates(t)
       PROVE  FALSE
  <2>1. PICK k \in DOMAIN t : t[k].type = "CREATE" /\ t[k].id = id
    BY <1>1, CreateTypes
  <2>2. k + 1 \in DOMAIN s /\ k \in Nat \ {0} /\ s[k + 1].type = "CREATE"
    BY <1>3, <2>1
  <2>3. k + 1 < 1
    BY <1>2, <1>5, <1>10, <2>2 DEF AheadOfReply
  <2> QED BY <2>2, <2>3
<1>11. /\ Creates(t) \subseteq Creates(s)
       /\ Head(s).type # "CREATE" => Creates(t) = Creates(s)
       /\ Head(s).type = "CREATE" => Creates(s) = Creates(t) \cup {Head(s).id}
  BY <1>8 DEF Creates
<1> QED BY <1>1, <1>6, <1>7, <1>9, <1>10, <1>11 DEF t

\* Messages of the mutex behind it do not disturb a connection.
LEMMA OrderedAppend ==
  ASSUME NEW s \in Seq(Messages), NEW ms \in Seq(Messages),
         \A m \in Range(ms) : m.type # "CREATE",
         InIdOrder(s), AheadOfReply(s)
  PROVE  /\ InIdOrder(s \o ms) /\ AheadOfReply(s \o ms)
         /\ Creates(s \o ms) = Creates(s)
<1> DEFINE t == s \o ms
<1>1. /\ t \in Seq(Messages)
      /\ Len(t) = Len(s) + Len(ms)
      /\ \A k \in 1 .. Len(s) + Len(ms) :
           t[k] = IF k <= Len(s) THEN s[k] ELSE ms[k - Len(s)]
  BY ConcatProperties
<1>2. /\ Len(s) \in Nat /\ Len(ms) \in Nat
      /\ DOMAIN s = 1 .. Len(s) /\ DOMAIN ms = 1 .. Len(ms)
      /\ DOMAIN t = 1 .. Len(t)
  BY <1>1, LenProperties
<1>3. Range(t) = Range(s) \cup Range(ms)
  BY RangeConcatenation
<1> HIDE DEF t
<1>4. ASSUME NEW k \in DOMAIN t
      PROVE  \/ k \in DOMAIN s /\ t[k] = s[k]
             \/ k \in Nat /\ k > Len(s) /\ t[k].type # "CREATE"
  <2>1. CASE k <= Len(s)
    BY <1>1, <1>2, <2>1
  <2>2. CASE k > Len(s)
    <3>1. k - Len(s) \in DOMAIN ms /\ t[k] = ms[k - Len(s)]
      BY <1>1, <1>2, <2>2
    <3>2. t[k] \in Range(ms)
      BY <3>1 DEF Range
    <3> QED BY <1>1, <1>2, <2>2, <3>2
  <2> QED BY <1>1, <1>2, <2>1, <2>2
<1>5. InIdOrder(t)
  BY <1>4 DEF InIdOrder
<1>6. AheadOfReply(t)
  <2> SUFFICES ASSUME NEW k \in DOMAIN t, NEW l \in DOMAIN t,
                      t[k].type = "REPLY", t[l].type = "CREATE"
               PROVE  l < k
    BY DEF AheadOfReply
  <2>1. l \in DOMAIN s /\ t[l] = s[l]
    BY <1>4
  <2>2. CASE k \in DOMAIN s /\ t[k] = s[k]
    BY <2>1, <2>2 DEF AheadOfReply
  <2>3. CASE k \in Nat /\ k > Len(s)
    BY <1>2, <2>1, <2>3
  <2> QED BY <1>4, <2>2, <2>3
<1>7. Creates(t) = Creates(s)
  BY <1>3 DEF Creates
<1> QED BY <1>5, <1>6, <1>7 DEF t

\* So does a CREATE with an id above those before it, if no reply precedes it.
LEMMA OrderedCreate ==
  ASSUME NEW s \in Seq(Messages), NEW id \in Nat,
         InIdOrder(s), \A m \in Range(s) : m.type # "REPLY",
         \A k \in Creates(s) : k < id
  PROVE  /\ Append(s, CreateMsg(id)) \in Seq(Messages)
         /\ InIdOrder(Append(s, CreateMsg(id)))
         /\ AheadOfReply(Append(s, CreateMsg(id)))
         /\ Creates(Append(s, CreateMsg(id))) = Creates(s) \cup {id}
<1> DEFINE c == CreateMsg(id)
           t == Append(s, c)
<1>1. c \in Messages /\ c.type = "CREATE" /\ c.id = id
  BY DEF CreateMsg, Messages, MP!AnyMessage, CreateMessage
<1> HIDE DEF c
<1>2. /\ t \in Seq(Messages)
      /\ Len(t) = Len(s) + 1
      /\ \A k \in 1 .. Len(s) : t[k] = s[k]
      /\ t[Len(s) + 1] = c
  BY <1>1, AppendProperties
<1>3. /\ Len(s) \in Nat /\ DOMAIN s = 1 .. Len(s)
      /\ DOMAIN t = 1 .. Len(s) + 1
  BY <1>2, LenProperties
<1> HIDE DEF t
<1>4. ASSUME NEW k \in DOMAIN t
      PROVE  \/ k \in DOMAIN s /\ t[k] = s[k]
             \/ k = Len(s) + 1 /\ t[k] = c
  BY <1>2, <1>3
<1>r. Range(t) = Range(s) \cup {c}
  BY <1>2, <1>3, <1>4 DEF Range
<1>5. InIdOrder(t)
  <2> SUFFICES ASSUME NEW k \in DOMAIN t, NEW l \in DOMAIN t, k < l,
                      t[k].type = "CREATE", t[l].type = "CREATE"
               PROVE  t[k].id < t[l].id
    BY DEF InIdOrder
  <2>1. k \in DOMAIN s /\ t[k] = s[k]
    BY <1>3, <1>4
  <2>2. CASE l \in DOMAIN s /\ t[l] = s[l]
    BY <2>1, <2>2 DEF InIdOrder
  <2>3. CASE t[l] = c
    <3>1. s[k].id \in Creates(s)
      BY <2>1, CreateTypes
    <3> QED BY <1>1, <2>1, <2>3, <3>1
  <2> QED BY <1>4, <2>2, <2>3
<1>6. AheadOfReply(t)
  <2> SUFFICES ASSUME NEW k \in DOMAIN t, t[k].type = "REPLY"
               PROVE  FALSE
    BY DEF AheadOfReply
  <2>1. t[k] \in Range(t)
    BY DEF Range
  <2> QED BY <1>1, <1>r, <2>1
<1>7. Creates(t) = Creates(s) \cup {id}
  BY <1>1, <1>r DEF Creates
<1> QED BY <1>2, <1>5, <1>6, <1>7 DEF t, c

----------------------------------------------------------------------------
(***************************************************************************)
(* The mutex under the creators                                            *)
(***************************************************************************)

\* M and MP are two instances of one module on the same state.
LEMMA SameMutex ==
  /\ \A n \in Node, t \in Thread :
       /\ M!Lock(n, t) => MP!Lock(n, t)
       /\ M!Unlock(n, t) => MP!Unlock(n, t)
  /\ \A n, p \in Node : M!Handle(n, p) => MP!Handle(n, p)
<1>1. ASSUME NEW n \in Node, NEW t \in Thread
      PROVE  M!Lock(n, t) => MP!Lock(n, t)
  BY DEF M!Lock, MP!Lock, M!LockLocal, MP!LockLocal, M!LockRequest,
         MP!LockRequest, M!LockWait, MP!LockWait, M!Goto, MP!Goto, M!Awaited,
         MP!Awaited, M!Sent, MP!Sent, M!RequestMsg, MP!RequestMsg
<1>2. ASSUME NEW n \in Node, NEW t \in Thread
      PROVE  M!Unlock(n, t) => MP!Unlock(n, t)
  BY DEF M!Unlock, MP!Unlock, M!UnlockReply, MP!UnlockReply, M!UnlockLocal,
         MP!UnlockLocal, M!Goto, MP!Goto, M!Replies, MP!Replies, M!Sent,
         MP!Sent, M!ReplyMsg, MP!ReplyMsg, M!NoRequest, MP!NoRequest
<1>3. ASSUME NEW n \in Node, NEW p \in Node
      PROVE  M!Handle(n, p) => MP!Handle(n, p)
  <2>1. /\ M!Message(p, n) = MP!Message(p, n)
        /\ M!Other(p, n) = MP!Other(p, n)
        /\ M!Received(p, n) = MP!Received(p, n)
        /\ \A t : M!Clock(n, t) = MP!Clock(n, t)
        /\ \A t : M!ReplyMsg(t) = MP!ReplyMsg(t)
        /\ \A c, ms : M!Sent(c, n, ms) = MP!Sent(c, n, ms)
    BY DEF M!Message, MP!Message, M!Other, MP!Other, M!Received, MP!Received,
           M!Clock, MP!Clock, M!ReplyMsg, MP!ReplyMsg, M!Sent, MP!Sent
  <2>2. \A a, b : M!Precedes(a, b) <=> MP!Precedes(a, b)
    BY DEF M!Precedes, MP!Precedes
  <2>3. \A e : M!ReplyAtOnce(n, e) <=> MP!ReplyAtOnce(n, e)
    BY <2>2 DEF M!ReplyAtOnce, MP!ReplyAtOnce, M!LocalRequest,
                MP!LocalRequest, M!NoRequest, MP!NoRequest
  <2>4. ASSUME NEW q, NEW e
        PROVE  M!Insert(q, e) = MP!Insert(q, e)
    <3>1. {k \in DOMAIN q : ~ M!Precedes(e, q[k])}
            = {k \in DOMAIN q : ~ MP!Precedes(e, q[k])}
      BY <2>2
    <3>2. \A S : M!Cardinality(S) = MP!Cardinality(S)
      BY Zenon DEF M!Cardinality, MP!Cardinality
    <3> QED BY <3>1, <3>2, Zenon DEF M!Insert, MP!Insert
  <2>5. M!HandleRequest(n, p) => MP!HandleRequest(n, p)
    BY <2>1, <2>3, <2>4, Zenon DEF M!HandleRequest, MP!HandleRequest
  <2>6. M!HandleReply(n, p) => MP!HandleReply(n, p)
    BY <2>1, Zenon DEF M!HandleReply, MP!HandleReply
  <2> QED BY <2>5, <2>6 DEF M!Handle, MP!Handle
<1> QED BY <1>1, <1>2, <1>3

\* A step of the creators or listeners that is one of the mutex.
OnMutex(n) ==
  \/ \E t \in Thread : LockObject(n, t) \/ UnlockObject(n, t)
  \/ \E p \in Node : HandleLock(n, p)

LEMMA MutexMoves ==
  ASSUME NEW n \in Node, OnMutex(n)
  PROVE  MP!Next /\ UNCHANGED idVars
BY SameMutex DEF OnMutex, LockObject, UnlockObject, HandleLock, MP!Next

LEMMA IdsTypes ==
  ASSUME IdsInv
  PROVE  /\ MP!TwoInv /\ MP!LocalInv
         /\ chan \in [Node -> [Node -> Seq(Messages)]]
         /\ \A a, b \in Node : chan[a][b] \in Seq(Messages)
         /\ \A a \in Node : chan[a][a] = << >>
         /\ pc \in [Node -> [Thread -> {"idle", "locking", "waiting", "held",
                                        "unlocking"}]]
         /\ max_obj_id \in [Node -> Nat]
         /\ creating \in [Node -> [Thread -> {"out", "incremented", "sent"}]]
         /\ assigned \in Seq(Nat) /\ Len(assigned) \in Nat
         /\ returned \in Seq(Nat)
<1>1. MP!TwoInv /\ MP!LocalInv /\ MP!TypeOK /\ MP!NothingToSelf
  BY DEF IdsInv, MP!TwoInv, MP!AnswerInv, MP!LocalInv
<1>2. chan \in [Node -> [Node -> Seq(Messages)]]
  BY <1>1 DEF MP!TypeOK, Messages
<1> QED
  BY <1>1, <1>2, LenProperties
  DEF IdsInv, IdsTypeOK, MP!TypeOK, MP!NothingToSelf

LEMMA CreateSent ==
  ASSUME IdsInv, NEW n \in Node, NEW t \in Thread, SendCreate(n, t)
  PROVE  /\ chan' \in [Node -> [Node -> Seq(Messages)]]
         /\ \A a, b \in Node :
              chan'[a][b] =
                IF a = n /\ b # n
                  THEN Append(chan[a][b], CreateMsg(max_obj_id[n]))
                  ELSE chan[a][b]
<1> DEFINE c == CreateMsg(max_obj_id[n])
<1>1. c \in Messages
  BY IdsTypes DEF CreateMsg, Messages, MP!AnyMessage, CreateMessage
<1>2. chan' = [chan EXCEPT ![n] =
                [p \in Node |-> IF p \in BroadcastTo(n) THEN Append(@[p], c)
                                                        ELSE @[p]]]
  BY DEF SendCreate
<1> HIDE DEF c
<1>3. \A b \in Node : Append(chan[n][b], c) \in Seq(Messages)
  BY <1>1, IdsTypes, AppendProperties
<1>4. /\ chan' \in [Node -> [Node -> Seq(Messages)]]
      /\ \A a, b \in Node :
           chan'[a][b] = IF a = n /\ b # n THEN Append(chan[a][b], c)
                                           ELSE chan[a][b]
  BY <1>2, <1>3, IdsTypes DEF BroadcastTo
<1> QED BY <1>4 DEF c

LEMMA CreateTaken ==
  ASSUME IdsInv, NEW n \in Node, NEW p \in Node, HandleCreate(n, p)
  PROVE  /\ p # n /\ chan[p][n] # << >>
         /\ Head(chan[p][n]).type = "CREATE"
         /\ Head(chan[p][n]).id \in Nat
         /\ max_obj_id' = [max_obj_id EXCEPT ![n] = Head(chan[p][n]).id]
         /\ chan' \in [Node -> [Node -> Seq(Messages)]]
         /\ \A a, b \in Node :
              chan'[a][b] = IF a = p /\ b = n THEN Tail(chan[p][n])
                                              ELSE chan[a][b]
<1>1. /\ chan[p][n] # << >> /\ Head(chan[p][n]).type = "CREATE"
      /\ max_obj_id' = [max_obj_id EXCEPT ![n] = Head(chan[p][n]).id]
      /\ chan' = [chan EXCEPT ![p][n] = Tail(@)]
  BY DEF HandleCreate, M!Message, M!Received, ReadId
<1>2. p # n
  BY <1>1, IdsTypes
<1>3. Head(chan[p][n]) \in Messages /\ Tail(chan[p][n]) \in Seq(Messages)
  BY <1>1, IdsTypes, HeadTailProperties
<1>4. Head(chan[p][n]).id \in Nat
  BY <1>1, <1>3 DEF Messages, MP!AnyMessage, MP!MutexMessage, CreateMessage
<1>5. /\ chan' \in [Node -> [Node -> Seq(Messages)]]
      /\ \A a, b \in Node :
           chan'[a][b] = IF a = p /\ b = n THEN Tail(chan[p][n])
                                           ELSE chan[a][b]
  BY <1>1, <1>3, IdsTypes
<1> QED BY <1>1, <1>2, <1>4, <1>5

\* Whatever the creators do, the mutex is as it would be alone.
LEMMA MutexUndisturbed ==
  ASSUME MP!AtMostTwoNodes, IdsInv, [Next]_vars
  PROVE  MP!TwoInv'
<1>1. MP!TwoInv
  BY DEF IdsInv
<1>2. ASSUME NEW n \in Node, OnMutex(n)
      PROVE  MP!TwoInv'
  <2>1. MP!Next
    BY <1>2, MutexMoves
  <2> QED
    BY <1>1, <2>1, MP!PairStep, NodeAssumption, ThreadAssumption,
       MaxTimeAssumption, ForeignCreates
<1>3. CASE UNCHANGED <<chan, lockVars>>
  <2>1. UNCHANGED MP!vars
    BY <1>3 DEF lockVars, MP!vars, MP!mutexVars
  <2> QED
    BY <1>1, <2>1, MP!PairStep, NodeAssumption, ThreadAssumption,
       MaxTimeAssumption, ForeignCreates
<1>4. ASSUME chan' \in [Node -> [Node -> Seq(Messages)]],
             UNCHANGED lockVars,
             \A a, b \in Node : MP!ForeignAt(chan[a][b], chan'[a][b], a # b)
      PROVE  MP!TwoInv'
  <2>1. UNCHANGED <<peers, MP!mutexVars>>
    BY <1>4 DEF lockVars, MP!mutexVars
  <2>2. chan' \in [Node -> [Node -> Seq(MP!AnyMessage)]]
    BY <1>4 DEF Messages
  <2> QED
    BY <1>1, <1>4, <2>1, <2>2, MP!ForeignStep, NodeAssumption,
       ThreadAssumption, MaxTimeAssumption, ForeignCreates
<1>5. ASSUME NEW n \in Node, NEW t \in Thread, SendCreate(n, t)
      PROVE  MP!TwoInv'
  <2> DEFINE c == CreateMsg(max_obj_id[n])
  <2>1. c \in CreateMessage
    BY IdsTypes DEF CreateMsg, CreateMessage
  <2>2. c \in Messages
    BY <2>1 DEF Messages, MP!AnyMessage
  <2>3. /\ chan' \in [Node -> [Node -> Seq(Messages)]]
        /\ \A a, b \in Node :
             chan'[a][b] = IF a = n /\ b # n THEN Append(chan[a][b], c)
                                             ELSE chan[a][b]
    BY <1>5, CreateSent
  <2> HIDE DEF c
  <2>4. ASSUME NEW a \in Node, NEW b \in Node
        PROVE  MP!ForeignAt(chan[a][b], chan'[a][b], a # b)
    <3>1. CASE a = n /\ b # n
      <4>1. chan'[a][b] = chan[a][b] \o <<c>>
        <5>1. chan[a][b] \in Seq(Messages) /\ chan'[a][b] = Append(chan[a][b], c)
          BY <2>3, <3>1, IdsTypes
        <5> QED BY <2>2, <5>1, AppendIsConcat
      <4> QED BY <2>1, <3>1, <4>1 DEF MP!ForeignAt
    <3>2. CASE ~ (a = n /\ b # n)
      <4>1. chan'[a][b] = chan[a][b]
        BY <2>3, <3>2
      <4> QED BY <4>1 DEF MP!ForeignAt
    <3> QED BY <3>1, <3>2
  <2> QED BY <1>4, <1>5, <2>3, <2>4 DEF SendCreate
<1>6. ASSUME NEW n \in Node, NEW p \in Node, HandleCreate(n, p)
      PROVE  MP!TwoInv'
  <2>1. /\ chan[p][n] # << >> /\ Head(chan[p][n]).type = "CREATE"
        /\ chan' \in [Node -> [Node -> Seq(Messages)]]
        /\ \A a, b \in Node :
             chan'[a][b] = IF a = p /\ b = n THEN Tail(chan[p][n])
                                             ELSE chan[a][b]
    BY <1>6, CreateTaken
  <2>2. ASSUME NEW a \in Node, NEW b \in Node
        PROVE  MP!ForeignAt(chan[a][b], chan'[a][b], a # b)
    <3>1. CASE a = p /\ b = n
      BY <2>1, <3>1 DEF MP!ForeignAt
    <3>2. CASE ~ (a = p /\ b = n)
      <4>1. chan'[a][b] = chan[a][b]
        BY <2>1, <3>2
      <4> QED BY <4>1 DEF MP!ForeignAt
    <3> QED BY <3>1, <3>2
  <2> QED BY <1>4, <1>6, <2>1, <2>2 DEF HandleCreate
<1> QED
  BY <1>2, <1>3, <1>5, <1>6
  DEF Next, Create, Handle, OnMutex, Increment, Return, vars

----------------------------------------------------------------------------
(***************************************************************************)
(* The creators                                                            *)
(***************************************************************************)

\* Of two creators at most one is between its increment and its broadcast, and
\* no other thread holds the lock then.
LEMMA UntoldAlone ==
  ASSUME IdsInv, NEW n \in Node, Untold(n)
  PROVE  /\ \E t \in Thread : pc[n][t] = "held" /\ creating[n][t] = "incremented"
         /\ \A p \in Node : p # n =>
              /\ ~ MP!Carries(chan[n][p], "REPLY")
              /\ local_request[p] # 0 => n \in wait_on[p]
         /\ \A p \in Node, s \in Thread :
              pc[p][s] = "held" => p = n /\ creating[p][s] = "incremented"
<1>1. PICK t \in Thread : pc[n][t] = "held" /\ creating[n][t] = "incremented"
  BY DEF Untold, IdsInv, CreatesUnderLock
<1>2. MP!TwoInv /\ MP!LocalInv
  BY IdsTypes
<1>3. \A p \in Node : p # n =>
        /\ ~ MP!Carries(chan[n][p], "REPLY")
        /\ local_request[p] # 0 => n \in wait_on[p]
  BY <1>1, <1>2, MP!HolderKeepsReply, NodeAssumption, ThreadAssumption,
     MaxTimeAssumption, ForeignCreates DEF MP!NoRequest
<1>4. MP!MutualExclusion
  BY <1>2, MP!PairExclusion, NodeAssumption, ThreadAssumption,
     MaxTimeAssumption, ForeignCreates
<1>5. \A p \in Node, s \in Thread : pc[p][s] = "held" => p = n /\ s = t
  BY <1>1, <1>4 DEF MP!MutualExclusion
<1> QED BY <1>1, <1>3, <1>5

\* The lock and the broadcast agree: a holder that has not incremented yet has
\* seen every id that was assigned.
LEMMA UpToDate ==
  ASSUME IdsInv, NEW n \in Node, NEW t \in Thread,
         pc[n][t] = "held", creating[n][t] = "out"
  PROVE  /\ max_obj_id[n] = Len(assigned)
         /\ \A p \in Node : ~ Untold(p)
         /\ \A p \in Node : p # n => Creates(chan[p][n]) = {}
<1>1. \A p \in Node : ~ Untold(p)
  BY UntoldAlone
<1>2. local_request[n] # 0 /\ wait_on[n] = {}
  <2>1. MP!RequestWhileEngaged /\ MP!AwaitedWhileWaiting /\ MP!LocalInv
    BY IdsTypes DEF MP!LocalInv
  <2>2. local_request[n] # 0
    BY <2>1 DEF MP!RequestWhileEngaged, MP!Engaged, MP!NoRequest
  <2>3. ASSUME NEW s \in Thread, pc[n][s] = "waiting"
        PROVE  FALSE
    BY <2>1, <2>3, MP!OneInside, NodeAssumption, ThreadAssumption,
       MaxTimeAssumption, ForeignCreates
  <2> QED BY <2>1, <2>2, <2>3 DEF MP!AwaitedWhileWaiting
<1>3. \A p \in Node : p # n => Creates(chan[p][n]) = {}
  BY <1>2 DEF IdsInv, IdsPairInv, Heard
<1>4. max_obj_id[n] = Len(assigned)
  <2>1. CASE \A p \in Node : p = n
    BY <2>1 DEF IdsInv, AloneInv
  <2>2. ASSUME NEW p \in Node, p # n
        PROVE  max_obj_id[n] = Len(assigned)
    BY <1>1, <1>3, <2>2 DEF IdsInv, IdsPairInv, Catching
  <2> QED BY <2>1, <2>2
<1> QED BY <1>1, <1>3, <1>4

\* The types, the phases of the creators and the order of the assigned ids.
LEMMA CreatorsStep ==
  ASSUME IdsInv, [Next]_vars
  PROVE  (IdsTypeOK /\ CreatesUnderLock /\ AssignedInOrder)'
<1>1. IdsTypeOK /\ CreatesUnderLock /\ AssignedInOrder
  BY DEF IdsInv
<1> USE DEF IdsTypeOK
<1>2. ASSUME NEW n \in Node, NEW t \in Thread, LockObject(n, t)
      PROVE  (IdsTypeOK /\ CreatesUnderLock /\ AssignedInOrder)'
  <2>1. UNCHANGED idVars /\ creating[n][t] = "out"
    BY <1>2 DEF LockObject
  <2>2. \E to \in {"locking", "waiting", "held"} : pc' = [pc EXCEPT ![n][t] = to]
    BY <1>2
    DEF LockObject, M!Lock, M!LockLocal, M!LockRequest, M!LockWait, M!Goto
  <2>3. CreatesUnderLock'
    BY <1>1, <2>1, <2>2, IdsTypes DEF CreatesUnderLock, idVars
  <2> QED BY <1>1, <2>1, <2>3 DEF AssignedInOrder, idVars
<1>3. ASSUME NEW n \in Node, NEW t \in Thread, UnlockObject(n, t)
      PROVE  (IdsTypeOK /\ CreatesUnderLock /\ AssignedInOrder)'
  <2>1. UNCHANGED idVars /\ creating[n][t] = "sent"
    BY <1>3 DEF UnlockObject
  <2>2. \E to \in {"unlocking", "idle"} : pc' = [pc EXCEPT ![n][t] = to]
    BY <1>3 DEF UnlockObject, M!Unlock, M!UnlockReply, M!UnlockLocal, M!Goto
  <2>3. CreatesUnderLock'
    BY <1>1, <2>1, <2>2, IdsTypes DEF CreatesUnderLock, idVars
  <2> QED BY <1>1, <2>1, <2>3 DEF AssignedInOrder, idVars
<1>4. ASSUME NEW n \in Node, NEW p \in Node, HandleLock(n, p)
      PROVE  (IdsTypeOK /\ CreatesUnderLock /\ AssignedInOrder)'
  <2>1. UNCHANGED idVars /\ UNCHANGED pc
    BY <1>4 DEF HandleLock, M!Handle, M!HandleRequest, M!HandleReply
  <2> QED BY <1>1, <2>1 DEF CreatesUnderLock, AssignedInOrder, idVars
<1>5. ASSUME NEW n \in Node, NEW t \in Thread, Increment(n, t)
      PROVE  (IdsTypeOK /\ CreatesUnderLock /\ AssignedInOrder)'
  <2>1. /\ pc[n][t] = "held" /\ creating[n][t] = "out"
        /\ creating' = [creating EXCEPT ![n][t] = "incremented"]
        /\ max_obj_id' = [max_obj_id EXCEPT ![n] = @ + 1]
        /\ assigned' = Append(assigned, max_obj_id[n] + 1)
        /\ UNCHANGED <<pc, returned>>
    BY <1>5 DEF Increment, Goto, lockVars
  <2>2. max_obj_id[n] = Len(assigned) /\ max_obj_id[n] + 1 \in Nat
    BY <2>1, UpToDate, IdsTypes
  <2>3. CreatesUnderLock'
    BY <1>1, <2>1, IdsTypes DEF CreatesUnderLock
  <2>4. assigned' \in Seq(Nat) /\ AssignedInOrder'
    <3>1. /\ assigned' \in Seq(Nat)
          /\ Len(assigned') = Len(assigned) + 1
          /\ \A k \in 1 .. Len(assigned) : assigned'[k] = assigned[k]
          /\ assigned'[Len(assigned) + 1] = Len(assigned) + 1
      BY <2>1, <2>2, IdsTypes, AppendProperties
    <3>2. /\ DOMAIN assigned' = 1 .. Len(assigned) + 1
          /\ DOMAIN assigned = 1 .. Len(assigned)
      BY <3>1, IdsTypes, LenProperties
    <3>3. ASSUME NEW k \in 1 .. Len(assigned) + 1
          PROVE  assigned'[k] = k
      <4>1. CASE k = Len(assigned) + 1
        BY <3>1, <4>1
      <4>2. CASE k # Len(assigned) + 1
        <5>1. k \in 1 .. Len(assigned)
          BY <4>2, IdsTypes
        <5> QED BY <1>1, <3>1, <3>2, <5>1 DEF AssignedInOrder
      <4> QED BY <4>1, <4>2
    <3> QED BY <3>1, <3>2, <3>3 DEF AssignedInOrder
  <2> QED BY <1>1, <2>1, <2>2, <2>3, <2>4
<1>6. ASSUME NEW n \in Node, NEW t \in Thread, SendCreate(n, t)
      PROVE  (IdsTypeOK /\ CreatesUnderLock /\ AssignedInOrder)'
  <2>1. /\ creating[n][t] = "incremented"
        /\ creating' = [creating EXCEPT ![n][t] = "sent"]
        /\ UNCHANGED <<pc, max_obj_id, assigned, returned>>
    BY <1>6 DEF SendCreate, Goto, lockVars
  <2>2. CreatesUnderLock'
    BY <1>1, <2>1, IdsTypes DEF CreatesUnderLock
  <2> QED BY <1>1, <2>1, <2>2 DEF AssignedInOrder
<1>7. ASSUME NEW n \in Node, NEW t \in Thread, Return(n, t)
      PROVE  (IdsTypeOK /\ CreatesUnderLock /\ AssignedInOrder)'
  <2>1. /\ pc[n][t] = "idle" /\ creating[n][t] = "sent"
        /\ creating' = [creating EXCEPT ![n][t] = "out"]
        /\ returned' = Append(returned, max_obj_id[n])
        /\ UNCHANGED <<pc, max_obj_id, assigned>>
    BY <1>7 DEF Return, Goto, lockVars
  <2>2. CreatesUnderLock'
    BY <1>1, <2>1, IdsTypes DEF CreatesUnderLock
  <2>3. returned' \in Seq(Nat)
    BY <2>1, IdsTypes, AppendProperties
  <2> QED BY <1>1, <2>1, <2>2, <2>3 DEF AssignedInOrder
<1>8. ASSUME NEW n \in Node, NEW p \in Node, HandleCreate(n, p)
      PROVE  (IdsTypeOK /\ CreatesUnderLock /\ AssignedInOrder)'
  <2>1. /\ max_obj_id' = [max_obj_id EXCEPT ![n] = Head(chan[p][n]).id]
        /\ Head(chan[p][n]).id \in Nat
    BY <1>8, CreateTaken
  <2>2. UNCHANGED <<pc, creating, assigned, returned>>
    BY <1>8 DEF HandleCreate, lockVars
  <2> QED BY <1>1, <2>1, <2>2 DEF CreatesUnderLock, AssignedInOrder
<1>9. CASE UNCHANGED vars
  BY <1>1, <1>9 DEF CreatesUnderLock, AssignedInOrder, vars, lockVars, idVars
<1> QED
  BY <1>2, <1>3, <1>4, <1>5, <1>6, <1>7, <1>8, <1>9
  DEF Next, Create, Handle

(***************************************************************************)
(* The copies: what each step does to the ids on the way from p to n.      *)
(***************************************************************************)
CopiesInv ==
  /\ CopiesTrail /\ AloneInv
  /\ \A p, n \in Node : p # n => IdsPairInv(p, n)

\* A step of the mutex moves no id, and lets nobody hear a reply too early.
LEMMA CopiesMutex ==
  ASSUME IdsInv, NEW m \in Node, OnMutex(m)
  PROVE  CopiesInv'
<1>1. UNCHANGED <<max_obj_id, creating, assigned>> /\ [MP!Next]_MP!vars
  BY MutexMoves DEF idVars
<1>2. ASSUME NEW p \in Node, NEW n \in Node, p # n
      PROVE  IdsPairInv(p, n)'
  <2> DEFINE s == chan[p][n]
             t == chan'[p][n]
  <2>1. s \in Seq(Messages) /\ InIdOrder(s) /\ AheadOfReply(s)
    BY <1>2, IdsTypes DEF IdsInv, IdsPairInv, CreatesAreNews
  <2>2. MP!MutexAt(s, t)
    BY <1>1, IdsTypes, MP!ConnectionStep, NodeAssumption, ThreadAssumption,
       MaxTimeAssumption, ForeignCreates
  <2>3. ASSUME local_request'[n] # 0, p \notin wait_on'[n]
        PROVE  \/ local_request[n] # 0 /\ p \notin wait_on[n]
               \/ s # << >> /\ Head(s).type = "REPLY" /\ t = Tail(s)
    BY <1>1, <1>2, <2>3, IdsTypes, MP!HeardStep, NodeAssumption,
       ThreadAssumption, MaxTimeAssumption, ForeignCreates DEF MP!NoRequest
  <2> HIDE DEF s, t
  <2>4. InIdOrder(t) /\ AheadOfReply(t) /\ Creates(t) = Creates(s)
    <3>1. CASE t = s
      BY <2>1, <3>1
    <3>2. ASSUME NEW ms \in Seq(MP!MutexMessage), t = s \o ms
          PROVE  InIdOrder(t) /\ AheadOfReply(t) /\ Creates(t) = Creates(s)
      <4>1. \A m2 \in Range(ms) : m2.type # "CREATE"
        <5>1. Range(ms) \subseteq MP!MutexMessage
          BY RangeOfSeq
        <5> QED BY <5>1 DEF MP!MutexMessage
      <4>2. ms \in Seq(Messages)
        <5>1. \A k \in 1 .. Len(ms) : ms[k] \in Messages
          BY ElementOfSeq DEF Messages, MP!AnyMessage
        <5> QED BY <5>1
      <4> QED BY <2>1, <3>2, <4>1, <4>2, OrderedAppend
    <3>3. CASE s # << >> /\ Head(s).type \in {"REQUEST", "REPLY"} /\ t = Tail(s)
      BY <2>1, <3>3, OrderedTail
    <3> QED BY <2>2, <3>1, <3>2, <3>3 DEF MP!MutexAt
  <2>5. Heard(p, n)'
    <3> SUFFICES ASSUME local_request'[n] # 0, p \notin wait_on'[n]
                 PROVE  Creates(t) = {}
      BY DEF Heard, t
    <3>1. CASE local_request[n] # 0 /\ p \notin wait_on[n]
      BY <1>2, <2>4, <3>1 DEF IdsInv, IdsPairInv, Heard, s
    <3>2. CASE s # << >> /\ Head(s).type = "REPLY" /\ t = Tail(s)
      BY <2>1, <3>2, OrderedTail
    <3> QED BY <2>3, <3>1, <3>2
  <2>6. IdsPairInv(p, n)
    BY <1>2 DEF IdsInv
  <2> QED
    BY <1>1, <2>4, <2>5, <2>6
    DEF IdsPairInv, CreatesAreNews, UntoldIsNewest, Catching, Untold, s, t
<1>3. CopiesTrail' /\ AloneInv'
  BY <1>1 DEF IdsInv, CopiesTrail, AloneInv
<1> QED BY <1>2, <1>3 DEF CopiesInv

LEMMA CopiesIncrement ==
  ASSUME MP!AtMostTwoNodes, IdsInv, NEW h \in Node, NEW t \in Thread,
         Increment(h, t)
  PROVE  CopiesInv'
<1>1. /\ pc[h][t] = "held" /\ creating[h][t] = "out"
      /\ creating' = [creating EXCEPT ![h][t] = "incremented"]
      /\ max_obj_id' = [max_obj_id EXCEPT ![h] = @ + 1]
      /\ assigned' = Append(assigned, max_obj_id[h] + 1)
      /\ UNCHANGED <<chan, local_request, wait_on>>
  BY DEF Increment, Goto, lockVars
<1>2. /\ max_obj_id[h] = Len(assigned)
      /\ \A p \in Node : ~ Untold(p)
      /\ \A p \in Node : p # h => Creates(chan[p][h]) = {}
  BY <1>1, UpToDate
<1>3. Len(assigned') = Len(assigned) + 1
  BY <1>1, <1>2, IdsTypes, AppendProperties
<1>4. /\ max_obj_id'[h] = Len(assigned')
      /\ \A n \in Node : n # h => max_obj_id'[n] = max_obj_id[n]
      /\ \A n \in Node : max_obj_id[n] \in Nat /\ max_obj_id[n] <= Len(assigned)
      /\ Len(assigned) \in Nat
  BY <1>1, <1>2, <1>3, IdsTypes DEF IdsInv, CopiesTrail
<1>5. /\ Untold(h)'
      /\ \A p \in Node : p # h => ~ Untold(p)'
  BY <1>1, <1>2, IdsTypes DEF Untold
<1>6. ASSUME NEW p \in Node, NEW n \in Node, p # n
      PROVE  IdsPairInv(p, n)'
  <2>1. IdsPairInv(p, n)
    BY <1>6 DEF IdsInv
  <2>2. CASE p = h
    <3>1. \A id \in Creates(chan[p][n]) :
            id \in Nat /\ max_obj_id[n] < id /\ id <= Len(assigned)
      BY <2>1 DEF IdsPairInv, CreatesAreNews
    <3>2. CreatesAreNews(p, n)'
      BY <1>1, <1>3, <1>4, <1>6, <2>1, <2>2, <3>1 DEF IdsPairInv, CreatesAreNews
    <3>3. UntoldIsNewest(p, n)'
      BY <1>1, <1>3, <1>4, <1>6, <2>2, <3>1 DEF UntoldIsNewest
    <3>4. Catching(p, n)' /\ Heard(p, n)'
      BY <1>1, <1>5, <2>1, <2>2 DEF Catching, IdsPairInv, Heard
    <3> QED BY <3>2, <3>3, <3>4 DEF IdsPairInv
  <2>3. CASE n = h
    <3>1. Creates(chan'[p][n]) = {}
      BY <1>1, <1>2, <1>6, <2>3
    <3>2. ~ Untold(p)'
      BY <1>5, <1>6, <2>3
    <3> QED
      BY <1>1, <1>4, <2>1, <2>3, <3>1, <3>2
      DEF IdsPairInv, CreatesAreNews, UntoldIsNewest, Catching, Heard
  <2> QED BY <1>6, <2>2, <2>3 DEF MP!AtMostTwoNodes
<1>7. CopiesTrail'
  BY <1>3, <1>4 DEF CopiesTrail
<1>8. AloneInv'
  BY <1>4 DEF AloneInv
<1> QED BY <1>6, <1>7, <1>8 DEF CopiesInv

LEMMA CopiesSendCreate ==
  ASSUME MP!AtMostTwoNodes, IdsInv, NEW h \in Node, NEW t \in Thread,
         SendCreate(h, t)
  PROVE  CopiesInv'
<1>1. /\ creating[h][t] = "incremented"
      /\ creating' = [creating EXCEPT ![h][t] = "sent"]
      /\ UNCHANGED <<max_obj_id, assigned, local_request, wait_on>>
  BY DEF SendCreate, Goto, lockVars
<1>2. Untold(h)
  BY <1>1 DEF Untold
<1>3. \A a, b \in Node :
        chan'[a][b] = IF a = h /\ b # h
                        THEN Append(chan[a][b], CreateMsg(max_obj_id[h]))
                        ELSE chan[a][b]
  BY CreateSent
<1>4. ~ Untold(h)'
  <2> SUFFICES ASSUME NEW s \in Thread, creating'[h][s] = "incremented"
               PROVE  FALSE
    BY DEF Untold
  <2>1. s # t /\ creating[h][s] = "incremented"
    BY <1>1, IdsTypes
  <2>2. pc[h][s] = "held" /\ pc[h][t] = "held"
    BY <1>1, <2>1 DEF IdsInv, CreatesUnderLock
  <2> QED
    BY <2>1, <2>2, IdsTypes, MP!OneInside, NodeAssumption, ThreadAssumption,
       MaxTimeAssumption, ForeignCreates
<1>5. \A p \in Node : p # h => Untold(p)' = Untold(p)
  BY <1>1, IdsTypes DEF Untold
<1>6. ASSUME NEW p \in Node, NEW n \in Node, p # n
      PROVE  IdsPairInv(p, n)'
  <2>1. IdsPairInv(p, n)
    BY <1>6 DEF IdsInv
  <2>2. CASE p = h
    <3> DEFINE s == chan[h][n]
               id == max_obj_id[h]
    <3>1. id = Len(assigned) /\ max_obj_id[n] < id /\ id \notin Creates(s)
      BY <1>2, <2>1, <2>2 DEF IdsPairInv, UntoldIsNewest
    <3>2. /\ s \in Seq(Messages) /\ InIdOrder(s)
          /\ \A k \in Creates(s) :
               k \in Nat /\ max_obj_id[n] < k /\ k <= Len(assigned)
      BY <2>1, <2>2, IdsTypes DEF IdsPairInv, CreatesAreNews
    <3>3. \A m \in Range(s) : m.type # "REPLY"
      <4>1. ~ MP!Carries(s, "REPLY")
        BY <1>2, <1>6, <2>2, UntoldAlone
      <4> QED BY <4>1 DEF MP!Carries, MP!Range, Range
    <3>4. id \in Nat
      BY IdsTypes
    <3>5. chan'[h][n] = Append(s, CreateMsg(id))
      BY <1>3, <1>6, <2>2
    <3> HIDE DEF s, id
    <3>6. \A k \in Creates(s) : k < id
      BY <3>1, <3>2, <3>4
    <3>7. /\ InIdOrder(chan'[h][n]) /\ AheadOfReply(chan'[h][n])
          /\ Creates(chan'[h][n]) = Creates(s) \cup {id}
      BY <3>2, <3>3, <3>4, <3>5, <3>6, OrderedCreate
    <3>8. CreatesAreNews(h, n)'
      BY <1>1, <3>1, <3>2, <3>4, <3>7 DEF CreatesAreNews
    <3>9. UntoldIsNewest(h, n)'
      BY <1>4 DEF UntoldIsNewest
    <3>10. Catching(h, n)'
      BY <1>1, <3>1, <3>7 DEF Catching
    <3>11. Heard(h, n)'
      BY <1>1, <1>2, <1>6, <2>2, UntoldAlone DEF Heard
    <3> QED BY <2>2, <3>8, <3>9, <3>10, <3>11 DEF IdsPairInv
  <2>3. CASE p # h
    <3>1. chan'[p][n] = chan[p][n] /\ Untold(p)' = Untold(p)
      BY <1>3, <1>5, <2>3
    <3> QED
      BY <1>1, <2>1, <3>1
      DEF IdsPairInv, CreatesAreNews, UntoldIsNewest, Catching, Heard
  <2> QED BY <2>2, <2>3
<1>7. CopiesTrail' /\ AloneInv'
  BY <1>1 DEF IdsInv, CopiesTrail, AloneInv
<1> QED BY <1>6, <1>7 DEF CopiesInv

LEMMA CopiesHandleCreate ==
  ASSUME MP!AtMostTwoNodes, IdsInv, NEW r \in Node, NEW s \in Node,
         HandleCreate(r, s)
  PROVE  CopiesInv' /\ max_obj_id[r] < max_obj_id'[r]
<1> DEFINE q  == chan[s][r]
           id == Head(q).id
<1>1. /\ s # r /\ q # << >> /\ Head(q).type = "CREATE" /\ id \in Nat
      /\ max_obj_id' = [max_obj_id EXCEPT ![r] = id]
      /\ \A a, b \in Node :
           chan'[a][b] = IF a = s /\ b = r THEN Tail(q) ELSE chan[a][b]
  BY CreateTaken
<1>2. UNCHANGED <<creating, assigned, local_request, wait_on>>
  BY DEF HandleCreate, lockVars
<1>3. IdsPairInv(s, r) /\ IdsPairInv(r, s)
  BY <1>1 DEF IdsInv
<1>4. /\ q \in Seq(Messages) /\ InIdOrder(q) /\ AheadOfReply(q)
      /\ \A k \in Creates(q) :
           k \in Nat /\ max_obj_id[r] < k /\ k <= Len(assigned)
  BY <1>3, IdsTypes DEF IdsPairInv, CreatesAreNews
<1> HIDE DEF q
<1>5. /\ InIdOrder(Tail(q)) /\ AheadOfReply(Tail(q))
      /\ Creates(q) = Creates(Tail(q)) \cup {id}
      /\ \A k \in Creates(Tail(q)) : id < k
  BY <1>1, <1>4, OrderedTail
<1> HIDE DEF id
<1>6. max_obj_id[r] < id /\ id <= Len(assigned)
  BY <1>4, <1>5
<1>7. /\ max_obj_id'[r] = id
      /\ \A n \in Node : n # r => max_obj_id'[n] = max_obj_id[n]
  BY <1>1, IdsTypes
<1>8. \A p \in Node : Untold(p)' = Untold(p)
  BY <1>2 DEF Untold
<1>9. IdsPairInv(s, r)'
  <2>1. chan'[s][r] = Tail(q)
    BY <1>1
  <2>2. CreatesAreNews(s, r)'
    BY <1>2, <1>4, <1>5, <1>7, <2>1 DEF CreatesAreNews
  <2>3. UntoldIsNewest(s, r)'
    <3> SUFFICES ASSUME Untold(s)
                 PROVE  /\ max_obj_id[s] = Len(assigned)
                        /\ id < Len(assigned)
                        /\ Len(assigned) \notin Creates(Tail(q))
      BY <1>1, <1>2, <1>7, <1>8, <2>1 DEF UntoldIsNewest
    <3>1. max_obj_id[s] = Len(assigned) /\ Len(assigned) \notin Creates(q)
      BY <1>3 DEF IdsPairInv, UntoldIsNewest, q
    <3> QED BY <1>1, <1>5, <1>6, <3>1, IdsTypes
  <2>4. Catching(s, r)'
    <3>1. \/ max_obj_id[r] = Len(assigned) \/ Untold(s)
          \/ Len(assigned) \in Creates(q)
      BY <1>3 DEF IdsPairInv, Catching, q
    <3>2. max_obj_id[r] # Len(assigned)
      BY <1>1, <1>6, IdsTypes
    <3> QED BY <1>2, <1>5, <1>7, <1>8, <2>1, <3>1, <3>2 DEF Catching
  <2>5. Heard(s, r)'
    BY <1>2, <1>3, <1>5 DEF IdsPairInv, Heard, q
  <2> QED BY <2>2, <2>3, <2>4, <2>5 DEF IdsPairInv
<1>10. IdsPairInv(r, s)'
  <2>1. ~ Untold(r)
    <3>1. max_obj_id[r] # Len(assigned)
      BY <1>1, <1>6, IdsTypes
    <3> QED BY <1>3, <3>1 DEF IdsPairInv, UntoldIsNewest
  <2>2. chan'[r][s] = chan[r][s] /\ max_obj_id'[s] = max_obj_id[s]
    BY <1>1, <1>7
  <2> QED
    BY <1>2, <1>3, <1>8, <2>1, <2>2
    DEF IdsPairInv, CreatesAreNews, UntoldIsNewest, Catching, Heard
<1>11. \A p, n \in Node : p # n => IdsPairInv(p, n)'
  BY <1>1, <1>9, <1>10 DEF MP!AtMostTwoNodes
<1>12. CopiesTrail' /\ AloneInv'
  BY <1>1, <1>2, <1>6, <1>7 DEF IdsInv, CopiesTrail, AloneInv
<1> QED BY <1>6, <1>7, <1>11, <1>12 DEF CopiesInv

LEMMA CopiesStep ==
  ASSUME MP!AtMostTwoNodes, IdsInv, [Next]_vars
  PROVE  CopiesInv'
<1>1. CASE UNCHANGED <<chan, local_request, wait_on, max_obj_id, assigned>>
           /\ \A n \in Node : Untold(n)' = Untold(n)
  <2>1. CopiesInv
    BY DEF IdsInv, CopiesInv
  <2> QED
    BY <1>1, <2>1
    DEF CopiesInv, CopiesTrail, AloneInv, IdsPairInv, CreatesAreNews,
        UntoldIsNewest, Catching, Heard
<1>2. ASSUME NEW n \in Node, NEW t \in Thread, Return(n, t)
      PROVE  CopiesInv'
  <2>1. UNCHANGED <<chan, local_request, wait_on, max_obj_id, assigned>>
    BY <1>2 DEF Return, lockVars
  <2>2. \A p \in Node : Untold(p)' = Untold(p)
    BY <1>2, IdsTypes DEF Return, Goto, Untold
  <2> QED BY <1>1, <2>1, <2>2
<1>3. CASE UNCHANGED vars
  BY <1>1, <1>3 DEF vars, lockVars, idVars, Untold
<1> QED
  BY <1>2, <1>3, CopiesMutex, CopiesIncrement, CopiesSendCreate,
     CopiesHandleCreate
  DEF Next, Create, Handle, OnMutex

----------------------------------------------------------------------------
(***************************************************************************)
(* Theorems                                                                *)
(***************************************************************************)

\* The nodes have seen the same ids to begin with: none of them joined late.
StartedTogether == Node # {} /\ \E k \in Nat : MaxObjId = [n \in Node |-> k]

LEMMA IdsInvInit ==
  ASSUME StartedTogether, IdsInit
  PROVE  IdsInv
<1>1. MP!TwoInv
  <2>1. M!Init => MP!Init
    BY DEF M!Init, MP!Init, M!MutexInit, MP!MutexInit, M!NoRequest, MP!NoRequest
  <2> QED
    BY <2>1, MP!PairInit, NodeAssumption, ThreadAssumption, MaxTimeAssumption,
       ForeignCreates DEF IdsInit
<1>2. /\ chan = [p \in Node |-> [n \in Node |-> << >>]]
      /\ local_request = [n \in Node |-> 0]
      /\ pc = [n \in Node |-> [t \in Thread |-> "idle"]]
      /\ max_obj_id = MaxObjId
      /\ creating = [n \in Node |-> [t \in Thread |-> "out"]]
      /\ assigned = [k \in 1 .. Max({MaxObjId[n] : n \in Node}) |-> k]
      /\ returned = << >>
  BY DEF IdsInit, M!Init, M!MutexInit, M!NoRequest
<1>3. PICK k \in Nat : MaxObjId = [n \in Node |-> k]
  BY DEF StartedTogether
<1>4. {MaxObjId[n] : n \in Node} = {k}
  BY <1>3 DEF StartedTogether
<1>5. Max({k}) = k
  BY DEF Max
<1>6. assigned \in Seq(Nat) /\ Len(assigned) = k
      /\ \A l \in DOMAIN assigned : assigned[l] = l
  <2>1. assigned = [l \in 1 .. k |-> l]
    BY <1>2, <1>4, <1>5
  <2>2. assigned \in [1 .. k -> Nat]
    BY <2>1
  <2> QED BY <2>1, <2>2
<1>7. IdsTypeOK /\ CreatesUnderLock
  BY <1>2, <1>3, <1>6, EmptySeq DEF IdsTypeOK, CreatesUnderLock
<1>8. ASSUME NEW p \in Node, NEW n \in Node
      PROVE  IdsPairInv(p, n)
  <2>1. Creates(chan[p][n]) = {}
    BY <1>2 DEF Creates, Range
  <2>2. InIdOrder(chan[p][n]) /\ AheadOfReply(chan[p][n])
    BY <1>2 DEF InIdOrder, AheadOfReply
  <2>3. max_obj_id[n] = Len(assigned) /\ ~ Untold(p)
    BY <1>2, <1>3, <1>6 DEF Untold
  <2> QED
    BY <2>1, <2>2, <2>3
    DEF IdsPairInv, CreatesAreNews, UntoldIsNewest, Catching, Heard
<1>9. AssignedInOrder /\ CopiesTrail /\ AloneInv
  <2>1. \A n \in Node : max_obj_id[n] = Len(assigned)
    BY <1>2, <1>3, <1>6
  <2> QED BY <1>6, <2>1 DEF AssignedInOrder, CopiesTrail, AloneInv
<1> QED BY <1>1, <1>7, <1>8, <1>9 DEF IdsInv

LEMMA IdsInvariant ==
  ASSUME MP!AtMostTwoNodes, StartedTogether
  PROVE  Spec => []IdsInv
<1>1. IdsInit => IdsInv
  BY IdsInvInit
<1>2. IdsInv /\ [Next]_vars => IdsInv'
  BY MutexUndisturbed, CreatorsStep, CopiesStep DEF IdsInv, CopiesInv
<1> QED BY <1>1, <1>2, PTL DEF Spec

\* Every reachable state of the creators, the listeners and the mutex has its
\* types.
THEOREM IdsTypeCorrect ==
  ASSUME MP!AtMostTwoNodes, StartedTogether
  PROVE  Spec => []TypeOK
<1>1. IdsInv => TypeOK
  <2> SUFFICES ASSUME IdsInv PROVE TypeOK
    OBVIOUS
  <2>1. M!AnyMessage = MP!AnyMessage
    BY DEF M!AnyMessage, MP!AnyMessage, M!MutexMessage, MP!MutexMessage
  <2>2. wait_on \in [Node -> SUBSET Node]
    BY IdsTypes DEF MP!LocalInv, MP!TypeOK
  <2> QED BY <2>1, <2>2, IdsTypes DEF TypeOK, Messages
<1> QED BY <1>1, IdsInvariant, PTL

\* Between two nodes no id is assigned twice: object_lock and the CREATE that
\* is broadcast under it hand the ids out one after the other.
THEOREM IdsAssignedOnce ==
  ASSUME MP!AtMostTwoNodes, StartedTogether
  PROVE  Spec => []AssignedUnique
<1>1. IdsInv => AssignedUnique
  BY DEF IdsInv, AssignedInOrder, AssignedUnique, IsInjective
<1> QED BY <1>1, IdsInvariant, PTL

\* Between two nodes a creator that gets object_lock has seen every id that was
\* assigned before: its CREATE has overtaken nothing and is behind nothing.
THEOREM HolderHasSeenAll ==
  ASSUME MP!AtMostTwoNodes, StartedTogether
  PROVE  Spec => []HolderUpToDate
<1>1. IdsInv => HolderUpToDate
  BY UpToDate DEF HolderUpToDate
<1> QED BY <1>1, IdsInvariant, PTL

\* Between two nodes no CREATE that arrives late takes an id back.
THEOREM IdsOnlyGrow ==
  ASSUME MP!AtMostTwoNodes, StartedTogether
  PROVE  Spec => CopyGrows
<1>1. ASSUME IdsInv, [Next]_vars
      PROVE  [\A n \in Node : max_obj_id'[n] >= max_obj_id[n]]_vars
  <2> SUFFICES ASSUME NEW n \in Node
               PROVE  max_obj_id'[n] >= max_obj_id[n]
    OBVIOUS
  <2>0. IdsInv /\ max_obj_id \in [Node -> Nat]
    BY <1>1, IdsTypes
  <2>1. CASE UNCHANGED max_obj_id
    BY <2>0, <2>1
  <2>2. ASSUME NEW h \in Node, NEW t \in Thread, Increment(h, t)
        PROVE  max_obj_id'[n] >= max_obj_id[n]
    BY <2>0, <2>2 DEF Increment
  <2>3. ASSUME NEW r \in Node, NEW s \in Node, HandleCreate(r, s)
        PROVE  max_obj_id'[n] >= max_obj_id[n]
    <3>1. /\ Head(chan[s][r]).id \in Nat
          /\ max_obj_id' = [max_obj_id EXCEPT ![r] = Head(chan[s][r]).id]
      BY <2>0, <2>3, CreateTaken
    <3>2. max_obj_id[r] < max_obj_id'[r]
      BY <2>0, <2>3, CopiesHandleCreate
    <3> QED BY <2>0, <3>1, <3>2
  <2> QED
    BY <1>1, <2>1, <2>2, <2>3
    DEF Next, Create, Handle, LockObject, SendCreate, UnlockObject, Return,
        HandleLock, vars, idVars
<1> QED BY <1>1, IdsInvariant, PTL DEF Spec, CopyGrows
============================================================================

----------------------------- MODULE DobjProofs -----------------------------
(***************************************************************************)
(* Theorems about Dobj, for every set of nodes and of threads: nodes that  *)
(* have the object know each other, only holders are known, and no get     *)
(* waits for a reply that will not come.  Then, for a mutex whose object   *)
(* this is (module MutexJoin): two nodes that have settled exclude each    *)
(* other.                                                                  *)
(***************************************************************************)
EXTENDS DobjInvariants, MutexJoin, SequenceTheorems, TLAPS

MP == INSTANCE MutexProofs WITH Foreign <- DobjMessage,
                                wait_on <- lock_wait_on, pc <- lock_pc

----------------------------------------------------------------------------
(***************************************************************************)
(* Lemmas about messages and connections                                   *)
(***************************************************************************)

Channels == [Node -> [Node -> Seq(DobjMessage)]]

Lookup == [peer_id : Node, found : BOOLEAN]

\* The three messages there are.
LEMMA MessageCases ==
  ASSUME NEW m \in DobjMessage
  PROVE  m = GetMsg \/ m = ReplyMsg(TRUE) \/ m = ReplyMsg(FALSE)
BY DEF DobjMessage, GetMsg, ReplyMsg

\* They are messages, and differ.
LEMMA MessageTypes ==
  /\ GetMsg \in DobjMessage /\ GetMsg.type = "GET"
  /\ \A b \in BOOLEAN :
       /\ ReplyMsg(b) \in DobjMessage
       /\ ReplyMsg(b).type = "GET_REPLY" /\ ReplyMsg(b).have_reference = b
BY DEF DobjMessage, GetMsg, ReplyMsg

\* A lookup that has not found the object is made up of the asker and a no.
LEMMA LookupCases ==
  ASSUME NEW get \in Lookup, ~ get.found
  PROVE  get = [peer_id |-> get.peer_id, found |-> FALSE]
BY DEF Lookup

\* What is in a sequence with one element more at the end.
LEMMA AppendRange ==
  ASSUME NEW S, NEW s \in Seq(S), NEW m \in S
  PROVE  /\ Append(s, m) \in Seq(S)
         /\ Range(Append(s, m)) = Range(s) \cup {m}
<1>1. /\ Append(s, m) \in Seq(S)
      /\ Len(Append(s, m)) = Len(s) + 1
      /\ \A i \in 1 .. Len(s) : Append(s, m)[i] = s[i]
      /\ Append(s, m)[Len(s) + 1] = m
  BY AppendProperties
<1>2. /\ Range(s) = {s[i] : i \in 1 .. Len(s)}
      /\ Range(Append(s, m)) = {Append(s, m)[i] : i \in 1 .. Len(s) + 1}
  BY <1>1, RangeEquality
<1>3. Len(s) \in Nat
  OBVIOUS
<1>4. Range(Append(s, m)) = Range(s) \cup {m}
  BY <1>1, <1>2, <1>3
<1> QED BY <1>1, <1>4

\* What is in a sequence and in its tail.
LEMMA TailRange ==
  ASSUME NEW S, NEW s \in Seq(S), s # << >>
  PROVE  /\ Head(s) \in S /\ Tail(s) \in Seq(S)
         /\ Range(s) = Range(Tail(s)) \cup {Head(s)}
<1>1. /\ Head(s) \in S
      /\ Tail(s) \in Seq(S)
      /\ Len(Tail(s)) = Len(s) - 1
      /\ \A i \in 1 .. Len(Tail(s)) : Tail(s)[i] = s[i + 1]
  BY HeadTailProperties
<1>2. /\ Range(s) = {s[i] : i \in 1 .. Len(s)}
      /\ Range(Tail(s)) = {Tail(s)[i] : i \in 1 .. Len(Tail(s))}
  BY <1>1, RangeEquality
<1>3. Len(s) \in Nat \ {0} /\ Head(s) = s[1]
  BY EmptySeq
<1>4. ASSUME NEW i \in 1 .. Len(s), i # 1
      PROVE  s[i] \in Range(Tail(s))
  <2>1. i - 1 \in 1 .. Len(Tail(s)) /\ s[i] = Tail(s)[i - 1]
    BY <1>1, <1>3, <1>4
  <2> QED BY <1>2, <2>1
<1>5. ASSUME NEW i \in 1 .. Len(Tail(s))
      PROVE  Tail(s)[i] \in Range(s)
  <2>1. i + 1 \in 1 .. Len(s) /\ Tail(s)[i] = s[i + 1]
    BY <1>1, <1>3
  <2> QED BY <1>2, <2>1
<1>6. Head(s) \in Range(s)
  BY <1>2, <1>3
<1> QED BY <1>1, <1>2, <1>3, <1>4, <1>5, <1>6

\* The listener takes the message at the head of one connection.
LEMMA ReceivedProperties ==
  ASSUME TypeOK, NEW n \in Node, NEW p \in Node, chan[p][n] # << >>,
         chan' = Received(p, n)
  PROVE  /\ chan' \in Channels
         /\ Message(p, n) \in DobjMessage
         /\ Message(p, n) \in Range(chan[p][n])
         /\ \A a, b \in Node : Range(chan[a][b])' \subseteq Range(chan[a][b])
         /\ \A a, b \in Node : \A m \in Range(chan[a][b]) :
              \/ m \in Range(chan[a][b])'
              \/ a = p /\ b = n /\ m = Message(p, n)
<1>1. chan \in Channels
  BY DEF TypeOK, Channels
<1>2. chan[p][n] \in Seq(DobjMessage)
  BY <1>1 DEF Channels
<1>3. /\ Head(chan[p][n]) \in DobjMessage
      /\ Tail(chan[p][n]) \in Seq(DobjMessage)
      /\ Range(chan[p][n]) = Range(Tail(chan[p][n])) \cup {Head(chan[p][n])}
  BY <1>2, TailRange
<1>4. /\ chan' \in Channels
      /\ \A a, b \in Node :
           chan'[a][b] = IF a = p /\ b = n THEN Tail(chan[p][n]) ELSE chan[a][b]
  BY <1>1, <1>3 DEF Received, Channels
<1>5. ASSUME NEW a \in Node, NEW b \in Node
      PROVE  /\ Range(chan[a][b])' \subseteq Range(chan[a][b])
             /\ \A m \in Range(chan[a][b]) :
                  \/ m \in Range(chan[a][b])'
                  \/ a = p /\ b = n /\ m = Message(p, n)
  <2>1. CASE a = p /\ b = n
    <3>1. chan'[a][b] = Tail(chan[p][n])
      BY <1>4, <2>1
    <3> QED BY <1>3, <2>1, <3>1 DEF Message
  <2>2. CASE ~ (a = p /\ b = n)
    <3>1. chan'[a][b] = chan[a][b]
      BY <1>4, <2>2
    <3> QED BY <3>1
  <2> QED BY <2>1, <2>2
<1> QED BY <1>3, <1>4, <1>5 DEF Message

----------------------------------------------------------------------------
(***************************************************************************)
(* The steps of edsm_dobj_get                                              *)
(***************************************************************************)

\* Nothing is in the empty sequence.
LEMMA EmptyRange == Range(<< >>) = {}
<1>1. << >> \in Seq({}) /\ Len(<< >>) = 0
  OBVIOUS
<1>2. Range(<< >>) = {<< >>[i] : i \in 1 .. Len(<< >>)}
  BY <1>1, RangeEquality
<1> QED BY <1>1, <1>2

\* The invariant holds in the beginning.
LEMMA InitInv == Init => DobjInv
<1> SUFFICES ASSUME Init PROVE DobjInv
  OBVIOUS
<1>1. TypeOK
  BY DEF Init, TypeOK
<1>2. \A n, p \in Node : Range(chan[p][n]) = {}
  BY EmptyRange DEF Init
<1>3. ThreadInv
  BY DEF Init, ThreadInv, InProgress, Joined
<1>4. MessageInv
  BY <1>2 DEF Init, MessageInv
<1>5. PeersHold
  BY DEF Init, PeersHold
<1>6. NoGetLost
  BY DEF Init, NoGetLost
<1>7. PairInv
  BY <1>2 DEF Init, PairInv, NotFound, NotSent
<1> QED BY <1>1, <1>3, <1>4, <1>5, <1>6, <1>7 DEF DobjInv

\* What a step without messages keeps when it neither sends GETs nor changes whom
\* a node that has sent them waits for.
LEMMA QuietStep ==
  ASSUME TypeOK, MessageInv, PeersHold, PairInv,
         UNCHANGED <<chan, peers, looked_up>>,
         hashed \subseteq hashed',
         \A n \in Node : NotSent(n) <=> NotSent(n)',
         \A n \in Node : ~ NotSent(n) => wait_on'[n] = wait_on[n]
  PROVE  MessageInv' /\ PeersHold' /\ PairInv'
<1>1. MessageInv'
  <2> SUFFICES ASSUME NEW n \in Node, NEW p \in Node
               PROVE  /\ GetMsg \in Range(chan[p][n]) => p # n /\ ~ NotSent(p)'
                      /\ \A get \in looked_up[n] :
                           /\ get.peer_id # n /\ ~ NotSent(get.peer_id)'
                           /\ get.found => n \in hashed'
                      /\ \A m \in Range(chan[p][n]) :
                           m.type = "GET_REPLY" =>
                             /\ p # n /\ ~ NotSent(n)'
                             /\ m.have_reference => p \in hashed' /\ n \in peers[p]
    BY DEF MessageInv
  <2>1. \A get \in looked_up[n] : get.peer_id \in Node
    BY DEF TypeOK
  <2> QED BY <2>1 DEF MessageInv
<1>2. PeersHold'
  BY DEF PeersHold
<1>3. PairInv'
  <2>1. \A a, b \in Node :
          /\ NotFound(a, b)' <=> NotFound(a, b)
          /\ Acquainted(a, b)' <=> Acquainted(a, b)
    BY DEF NotFound, Acquainted
  <2>2. \A a, b \in Node : WillFind(a, b) => WillFind(a, b)'
    BY <2>1 DEF WillFind
  <2> QED BY <2>1, <2>2 DEF PairInv
<1> QED BY <1>1, <1>2, <1>3

\* A thread finds the object in the hash.
LEMMA GetFoundKeeps ==
  ASSUME DobjInv, NEW n \in Node, NEW t \in Thread, GetFound(n, t)
  PROVE  DobjInv'
<1> USE DEF DobjInv
<1>1. TypeOK'
  BY DEF TypeOK, GetFound, Goto
<1>2. /\ \A m \in Node, u \in Thread :
           pc'[m][u] = IF m = n /\ u = t THEN "got" ELSE pc[m][u]
      /\ pc[n][t] = "out" /\ n \in hashed
      /\ UNCHANGED <<hashed, wait_on>>
  BY DEF TypeOK, GetFound, Goto
<1>3. ThreadInv'
  BY <1>2 DEF ThreadInv, Joined, InProgress, GroupPeers
<1>4. \A m \in Node : NotSent(m) <=> NotSent(m)'
  BY <1>2 DEF NotSent
<1>5. MessageInv' /\ PeersHold' /\ PairInv'
  BY <1>4, QuietStep DEF GetFound
<1>6. NoGetLost'
  BY <1>2 DEF NoGetLost, Unanswered, GetFound
<1> QED BY <1>1, <1>3, <1>5, <1>6

\* A thread puts the object into the hash.
LEMMA GetAddKeeps ==
  ASSUME DobjInv, NEW n \in Node, NEW t \in Thread, GetAdd(n, t)
  PROVE  DobjInv'
<1> USE DEF DobjInv
<1>1. TypeOK'
  BY DEF TypeOK, GetAdd, Goto
<1>2. \A m \in Node, u \in Thread :
        pc'[m][u] = IF m = n /\ u = t THEN "added" ELSE pc[m][u]
  BY DEF TypeOK, GetAdd, Goto
<1>3. ThreadInv'
  BY <1>2 DEF ThreadInv, GetAdd, Joined, InProgress, GroupPeers
<1>4. \A m \in Node : NotSent(m) <=> NotSent(m)'
  BY <1>2 DEF NotSent, GetAdd
<1>5. MessageInv' /\ PeersHold' /\ PairInv'
  BY <1>4, QuietStep DEF GetAdd
<1>6. NoGetLost'
  BY <1>2 DEF NoGetLost, Unanswered, GetAdd
<1> QED BY <1>1, <1>3, <1>5, <1>6

\* It arms the waiter.
LEMMA GetArmKeeps ==
  ASSUME DobjInv, NEW n \in Node, NEW t \in Thread, GetArm(n, t)
  PROVE  DobjInv'
<1> USE DEF DobjInv
<1>1. TypeOK'
  BY DEF TypeOK, GetArm, Goto, Asked, GroupPeers
<1>2. \A m \in Node, u \in Thread :
        pc'[m][u] = IF m = n /\ u = t THEN "armed" ELSE pc[m][u]
  BY DEF TypeOK, GetArm, Goto
<1>3. pc[n][t] = "added" /\ hashed' = hashed
  BY DEF GetArm, Goto
<1>4. \A m \in Node :
        wait_on'[m] = IF m = n THEN GroupPeers(n) ELSE wait_on[m]
  BY DEF TypeOK, GetArm, Asked
<1>5. ThreadInv'
  BY <1>2, <1>3, <1>4 DEF ThreadInv, Joined, InProgress, GroupPeers
<1>6. \A m \in Node : NotSent(m) <=> NotSent(m)'
  BY <1>2, <1>3 DEF NotSent
<1>7. NotSent(n)
  BY <1>3 DEF NotSent
<1>8. MessageInv' /\ PeersHold' /\ PairInv'
  BY <1>4, <1>6, <1>7, QuietStep DEF GetArm
<1>9. \A u \in Thread : pc'[n][u] # "asking"
  BY <1>2, <1>3 DEF ThreadInv, InProgress
<1>10. NoGetLost'
  BY <1>2, <1>4, <1>9 DEF NoGetLost, Unanswered, GetArm
<1> QED BY <1>1, <1>5, <1>8, <1>10

\* It has all its replies and returns.
LEMMA GetWaitKeeps ==
  ASSUME DobjInv, NEW n \in Node, NEW t \in Thread, GetWait(n, t)
  PROVE  DobjInv'
<1> USE DEF DobjInv
<1>1. TypeOK'
  BY DEF TypeOK, GetWait, Goto
<1>2. \A m \in Node, u \in Thread :
        pc'[m][u] = IF m = n /\ u = t THEN "got" ELSE pc[m][u]
  BY DEF TypeOK, GetWait, Goto
<1>3. pc[n][t] = "asking" /\ hashed' = hashed /\ wait_on' = wait_on
  BY DEF GetWait, Goto
<1>4. wait_on[n] = {}
  BY DEF GetWait
<1>5. ThreadInv'
  BY <1>2, <1>3, <1>4 DEF ThreadInv, Joined, InProgress, GroupPeers
<1>6. \A m \in Node : NotSent(m) <=> NotSent(m)'
  BY <1>2, <1>3 DEF NotSent
<1>7. MessageInv' /\ PeersHold' /\ PairInv'
  BY <1>3, <1>6, QuietStep DEF GetWait
<1>8. NoGetLost'
  BY <1>2, <1>3 DEF NoGetLost, Unanswered, GetWait
<1> QED BY <1>1, <1>5, <1>7, <1>8

\* It sends its GETs: they go to everybody it waits for.
LEMMA GetSendKeeps ==
  ASSUME DobjInv, NEW n \in Node, NEW t \in Thread, GetSend(n, t)
  PROVE  DobjInv'
<1> USE DEF DobjInv
<1>1. /\ chan' \in Channels
      /\ \A a, b \in Node :
           Range(chan[a][b])' = IF a = n /\ b # n THEN Range(chan[a][b]) \cup {GetMsg}
                                                  ELSE Range(chan[a][b])
  <2>1. chan \in Channels
    BY DEF TypeOK, Channels
  <2>2. \A b \in Node :
          /\ Append(chan[n][b], GetMsg) \in Seq(DobjMessage)
          /\ Range(Append(chan[n][b], GetMsg)) = Range(chan[n][b]) \cup {GetMsg}
    BY <2>1, AppendRange, MessageTypes DEF Channels
  <2>3. /\ chan' \in Channels
        /\ \A a, b \in Node :
             chan'[a][b] = IF a = n /\ b # n THEN Append(chan[a][b], GetMsg)
                                             ELSE chan[a][b]
    BY <2>1, <2>2 DEF GetSend, Channels, GroupPeers
  <2>4. ASSUME NEW a \in Node, NEW b \in Node
        PROVE  Range(chan[a][b])' = IF a = n /\ b # n
                                    THEN Range(chan[a][b]) \cup {GetMsg}
                                    ELSE Range(chan[a][b])
    BY <2>2, <2>3
  <2> QED BY <2>3, <2>4
<1>2. TypeOK'
  BY <1>1 DEF TypeOK, GetSend, Goto, Channels
<1>3. \A m \in Node, u \in Thread :
        pc'[m][u] = IF m = n /\ u = t THEN "asking" ELSE pc[m][u]
  BY DEF TypeOK, GetSend, Goto
<1>4. /\ pc[n][t] = "armed" /\ wait_on[n] = GroupPeers(n)
      /\ UNCHANGED <<hashed, peers, wait_on, looked_up>>
  BY DEF GetSend, Goto, ThreadInv
<1>5. ThreadInv'
  BY <1>3, <1>4 DEF ThreadInv, Joined, InProgress, GroupPeers
<1>6. /\ ~ NotSent(n)'
      /\ \A m \in Node \ {n} : NotSent(m)' <=> NotSent(m)
  <2>1. n \in hashed /\ \A u \in Thread \ {t} : pc[n][u] \notin InProgress
    BY <1>4 DEF ThreadInv, InProgress
  <2> QED BY <1>3, <1>4, <2>1 DEF NotSent, InProgress
<1>7. MessageInv'
  <2> SUFFICES ASSUME NEW m \in Node, NEW p \in Node
               PROVE  /\ GetMsg \in Range(chan[p][m])' => p # m /\ ~ NotSent(p)'
                      /\ \A get \in looked_up[m] :
                           /\ get.peer_id # m /\ ~ NotSent(get.peer_id)'
                           /\ get.found => m \in hashed
                      /\ \A x \in Range(chan[p][m])' :
                           x.type = "GET_REPLY" =>
                             /\ p # m /\ ~ NotSent(m)'
                             /\ x.have_reference => p \in hashed /\ m \in peers[p]
    BY <1>4 DEF MessageInv
  <2>1. \A a \in Node : ~ NotSent(a) => ~ NotSent(a)'
    BY <1>6
  <2>2. GetMsg \in Range(chan[p][m])' => p # m /\ ~ NotSent(p)'
    BY <1>1, <1>6, <2>1 DEF MessageInv
  <2>3. \A get \in looked_up[m] : get.peer_id \in Node
    BY DEF TypeOK
  <2>4. \A x \in Range(chan[p][m])' :
          x.type = "GET_REPLY" => x \in Range(chan[p][m])
    BY <1>1, MessageTypes
  <2> QED BY <2>1, <2>2, <2>3, <2>4 DEF MessageInv
<1>8. PeersHold'
  BY <1>4 DEF PeersHold
<1>9. NoGetLost'
  <2>1. \A m, p \in Node : Unanswered(m, p) => Unanswered(m, p)'
    BY <1>1, <1>4 DEF Unanswered
  <2>2. \A p \in GroupPeers(n) : Unanswered(n, p)'
    BY <1>1 DEF Unanswered, GroupPeers
  <2>3. ASSUME NEW m \in Node, NEW u \in Thread, pc'[m][u] = "asking",
               NEW p \in wait_on'[m]
        PROVE  Unanswered(m, p)'
    <3>1. p \in Node
      BY <1>2 DEF TypeOK
    <3>2. CASE m = n
      BY <1>4, <2>2, <2>3, <3>2
    <3>3. CASE m # n
      BY <1>3, <1>4, <2>1, <2>3, <3>1, <3>3 DEF NoGetLost
    <3> QED BY <3>2, <3>3
  <2> QED BY <2>3 DEF NoGetLost
<1>10. PairInv'
  <2>1. \A a, b \in Node : NotFound(a, b)' <=> NotFound(a, b)
    BY <1>1, <1>4, MessageTypes DEF NotFound
  <2>2. \A a, b \in Node : Acquainted(a, b)' <=> Acquainted(a, b)
    BY <1>4 DEF Acquainted
  <2>3. \A a, b \in Node : a # b /\ WillFind(a, b) => WillFind(a, b)'
    BY <1>4, <1>6, <2>1, <2>2 DEF WillFind, GroupPeers
  <2>4. \A a, b \in Node :
          a # b /\ ~ NotSent(a)' /\ b \notin wait_on'[a]
            => ~ NotSent(a) /\ b \notin wait_on[a]
    BY <1>4, <1>6 DEF GroupPeers
  <2> QED BY <2>1, <2>2, <2>3, <2>4 DEF PairInv
<1> QED BY <1>2, <1>5, <1>7, <1>8, <1>9, <1>10

----------------------------------------------------------------------------
(***************************************************************************)
(* The handlers                                                            *)
(***************************************************************************)

\* The listener looks the object up for a GET.
LEMMA LookupGetKeeps ==
  ASSUME DobjInv, NEW n \in Node, NEW p \in Node, LookupGet(n, p)
  PROVE  DobjInv'
<1> USE DEF DobjInv
<1> DEFINE get == [peer_id |-> p, found |-> n \in hashed]
<1>1. /\ chan' \in Channels
      /\ Message(p, n) \in DobjMessage
      /\ Message(p, n) \in Range(chan[p][n])
      /\ \A a, b \in Node : Range(chan[a][b])' \subseteq Range(chan[a][b])
      /\ \A a, b \in Node : \A m \in Range(chan[a][b]) :
           \/ m \in Range(chan[a][b])'
           \/ a = p /\ b = n /\ m = Message(p, n)
  BY ReceivedProperties DEF LookupGet
<1>2. Message(p, n) = GetMsg
  BY <1>1, MessageCases, MessageTypes DEF LookupGet
<1>3. /\ looked_up[n] = {}
      /\ \A a \in Node : looked_up'[a] = IF a = n THEN {get} ELSE looked_up[a]
      /\ UNCHANGED <<hashed, peers, wait_on, ref_count, pc>>
  BY DEF LookupGet, TypeOK
<1>4. get \in [peer_id : Node, found : BOOLEAN]
  OBVIOUS
<1>5. p # n /\ ~ NotSent(p)
  BY <1>1, <1>2 DEF MessageInv
<1> HIDE DEF get
<1>6. get.peer_id = p /\ (get.found <=> n \in hashed)
  BY DEF get
<1>7. TypeOK'
  <2>1. looked_up' \in [Node -> SUBSET [peer_id : Node, found : BOOLEAN]]
    BY <1>4 DEF LookupGet, TypeOK, get
  <2> QED BY <1>1, <1>3, <2>1 DEF TypeOK, Channels
<1>8. ThreadInv'
  BY <1>3 DEF ThreadInv, Joined
<1>9. \A a \in Node : NotSent(a)' <=> NotSent(a)
  BY <1>3 DEF NotSent
<1>10. MessageInv'
  <2> SUFFICES ASSUME NEW a \in Node, NEW b \in Node
               PROVE  /\ GetMsg \in Range(chan[b][a])' => b # a /\ ~ NotSent(b)'
                      /\ \A g \in looked_up'[a] :
                           /\ g.peer_id # a /\ ~ NotSent(g.peer_id)'
                           /\ g.found => a \in hashed
                      /\ \A x \in Range(chan[b][a])' :
                           x.type = "GET_REPLY" =>
                             /\ b # a /\ ~ NotSent(a)'
                             /\ x.have_reference => b \in hashed /\ a \in peers[b]
    BY <1>3 DEF MessageInv
  <2>1. \A g \in looked_up[a] : g.peer_id \in Node
    BY DEF TypeOK
  <2>2. \A g \in looked_up'[a] :
          /\ g.peer_id # a /\ ~ NotSent(g.peer_id)'
          /\ g.found => a \in hashed
    BY <1>3, <1>5, <1>6, <1>9, <2>1 DEF MessageInv
  <2> QED BY <1>1, <1>9, <2>2, SMTT(30) DEF MessageInv
<1>11. PeersHold'
  BY <1>3 DEF PeersHold
<1>12. NoGetLost'
  <2>1. \A a, b \in Node : Unanswered(a, b) => Unanswered(a, b)'
    <3> SUFFICES ASSUME NEW a \in Node, NEW b \in Node, Unanswered(a, b)
                 PROVE  Unanswered(a, b)'
      OBVIOUS
    <3>1. CASE GetMsg \in Range(chan[a][b])
      <4>1. CASE GetMsg \in Range(chan[a][b])'
        BY <4>1 DEF Unanswered
      <4>2. CASE a = p /\ b = n
        BY <1>3, <1>6, <4>2 DEF Unanswered
      <4> QED BY <1>1, <3>1, <4>1, <4>2
    <3>2. CASE \E g \in looked_up[b] : g.peer_id = a
      BY <1>3, <3>2 DEF Unanswered
    <3>3. CASE \E m \in Range(chan[b][a]) : m.type = "GET_REPLY"
      BY <1>1, <1>2, <3>3, MessageTypes DEF Unanswered
    <3> QED BY <3>1, <3>2, <3>3 DEF Unanswered
  <2> QED BY <1>3, <2>1 DEF NoGetLost, TypeOK
<1>13. PairInv'
  <2>1. \A a, b \in Node : NotFound(a, b)' =>
          NotFound(a, b) \/ (a = p /\ b = n /\ n \notin hashed)
    <3> SUFFICES ASSUME NEW a \in Node, NEW b \in Node, NotFound(a, b)',
                        ~ NotFound(a, b)
                 PROVE  a = p /\ b = n /\ n \notin hashed
      OBVIOUS
    <3>1. [peer_id |-> a, found |-> FALSE] \in looked_up'[b] \ looked_up[b]
      BY <1>1 DEF NotFound
    <3>2. b = n /\ [peer_id |-> a, found |-> FALSE] = get
      BY <1>3, <3>1
    <3> QED BY <1>6, <3>2
  <2>2. \A a, b \in Node : Acquainted(a, b)' <=> Acquainted(a, b)
    BY <1>3 DEF Acquainted
  <2>3. \A a, b \in Node : WillFind(a, b) => WillFind(a, b)'
    BY <1>3, <1>9, <2>1, <2>2 DEF WillFind
  <2>4. n \notin hashed => WillFind(n, p)
    <3> SUFFICES ASSUME n \notin hashed PROVE WillFind(n, p)
      OBVIOUS
    <3>1. NotSent(n)
      BY DEF NotSent
    <3>2. p \in hashed
      BY <1>5 DEF NotSent
    <3>3. [peer_id |-> n, found |-> FALSE] \notin looked_up[p]
      BY <3>1 DEF MessageInv
    <3>4. ReplyMsg(FALSE) \notin Range(chan[p][n])
      BY <3>1, MessageTypes DEF MessageInv
    <3> QED BY <3>1, <3>2, <3>3, <3>4 DEF WillFind, NotFound
  <2> QED BY <1>3, <1>9, <2>1, <2>2, <2>3, <2>4 DEF PairInv
<1> QED BY <1>7, <1>8, <1>10, <1>11, <1>12, <1>13

\* The listener answers a GET.
LEMMA AnswerGetKeeps ==
  ASSUME DobjInv, NEW n \in Node, AnswerGet(n)
  PROVE  DobjInv'
<1> USE DEF DobjInv
<1>1. PICK get \in looked_up[n] :
        /\ peers' = [peers EXCEPT ![n] = WithAsker(n, get)]
        /\ chan' = [chan EXCEPT ![n][get.peer_id] = @ \o Answer(get)]
        /\ looked_up' = [looked_up EXCEPT ![n] = {}]
        /\ UNCHANGED <<hashed, wait_on, ref_count, pc>>
  BY DEF AnswerGet
<1> DEFINE p == get.peer_id
           reply == ReplyMsg(get.found)
<1>2. get \in Lookup /\ looked_up[n] = {get}
  BY DEF TypeOK, Lookup
<1>3. p \in Node /\ p # n /\ ~ NotSent(p) /\ (get.found => n \in hashed)
  BY <1>2 DEF MessageInv, Lookup
<1>4. reply \in DobjMessage /\ reply.type = "GET_REPLY"
                            /\ reply.have_reference = get.found
  BY <1>2, MessageTypes DEF Lookup
<1> HIDE DEF reply
<1>5. /\ chan' \in Channels
      /\ \A a, b \in Node :
           Range(chan[a][b])' = IF a = n /\ b = p THEN Range(chan[a][b]) \cup {reply}
                                                  ELSE Range(chan[a][b])
  <2>1. chan \in Channels
    BY DEF TypeOK, Channels
  <2>2. /\ chan[n][p] \o <<reply>> \in Seq(DobjMessage)
        /\ Range(chan[n][p] \o <<reply>>) = Range(chan[n][p]) \cup {reply}
    <3>1. chan[n][p] \in Seq(DobjMessage)
      BY <1>3, <2>1 DEF Channels
    <3>2. /\ Append(chan[n][p], reply) \in Seq(DobjMessage)
          /\ Range(Append(chan[n][p], reply)) = Range(chan[n][p]) \cup {reply}
      BY <1>4, <3>1, AppendRange
    <3>3. chan[n][p] \o <<reply>> = Append(chan[n][p], reply)
      BY <1>4, <3>1
    <3> QED BY <3>2, <3>3
  <2>3. /\ chan' \in Channels
        /\ \A a, b \in Node :
             chan'[a][b] = IF a = n /\ b = p THEN chan[n][p] \o <<reply>>
                                             ELSE chan[a][b]
    BY <1>1, <1>3, <2>1, <2>2 DEF Channels, Answer, reply
  <2>4. ASSUME NEW a \in Node, NEW b \in Node
        PROVE  Range(chan[a][b])' = IF a = n /\ b = p
                                    THEN Range(chan[a][b]) \cup {reply}
                                    ELSE Range(chan[a][b])
    BY <2>2, <2>3
  <2> QED BY <2>3, <2>4
<1> HIDE DEF p
<1>6. /\ \A a \in Node : looked_up'[a] = IF a = n THEN {} ELSE looked_up[a]
      /\ peers' \in [Node -> SUBSET Node]
      /\ \A a \in Node :
           peers'[a] = IF a = n /\ get.found THEN peers[n] \cup {p} ELSE peers[a]
      /\ UNCHANGED <<hashed, wait_on, ref_count, pc>>
  BY <1>1, <1>3 DEF TypeOK, WithAsker, p
<1>7. TypeOK'
  <2>1. looked_up' \in [Node -> SUBSET [peer_id : Node, found : BOOLEAN]]
    BY <1>1 DEF TypeOK
  <2> QED BY <1>5, <1>6, <2>1 DEF TypeOK, Channels
<1>8. ThreadInv'
  BY <1>6 DEF ThreadInv, Joined
<1>9. \A a \in Node : NotSent(a)' <=> NotSent(a)
  BY <1>6 DEF NotSent
<1>10. MessageInv'
  <2> SUFFICES ASSUME NEW a \in Node, NEW b \in Node
               PROVE  /\ GetMsg \in Range(chan[b][a])' => b # a /\ ~ NotSent(b)'
                      /\ \A g \in looked_up'[a] :
                           /\ g.peer_id # a /\ ~ NotSent(g.peer_id)'
                           /\ g.found => a \in hashed
                      /\ \A x \in Range(chan[b][a])' :
                           x.type = "GET_REPLY" =>
                             /\ b # a /\ ~ NotSent(a)'
                             /\ x.have_reference => b \in hashed /\ a \in peers'[b]
    BY <1>6 DEF MessageInv
  <2>1. \A g \in looked_up'[a] : g.peer_id \in Node /\ g \in looked_up[a]
    <3>1. looked_up'[a] \subseteq looked_up[a]
      BY <1>6
    <3>2. looked_up[a] \subseteq [peer_id : Node, found : BOOLEAN]
      BY DEF TypeOK
    <3> QED BY <3>1, <3>2
  <2>2. GetMsg \in Range(chan[b][a])' => GetMsg \in Range(chan[b][a])
    BY <1>4, <1>5, MessageTypes
  <2>3. ASSUME NEW x \in Range(chan[b][a])', x.type = "GET_REPLY"
        PROVE  /\ b # a /\ ~ NotSent(a)'
               /\ x.have_reference => b \in hashed /\ a \in peers'[b]
    <3>1. CASE x \in Range(chan[b][a])
      BY <1>6, <1>9, <2>3, <3>1 DEF MessageInv
    <3>2. CASE b = n /\ a = p /\ x = reply
      BY <1>3, <1>4, <1>6, <1>9, <3>2 DEF p
    <3> QED BY <1>5, <2>3, <3>1, <3>2
  <2> QED BY <1>9, <2>1, <2>2, <2>3 DEF MessageInv
<1>11. PeersHold'
  BY <1>3, <1>6 DEF PeersHold, NotSent, p
<1>12. NoGetLost'
  <2>1. \A a, b \in Node : Unanswered(a, b) => Unanswered(a, b)'
    <3> SUFFICES ASSUME NEW a \in Node, NEW b \in Node, Unanswered(a, b)
                 PROVE  Unanswered(a, b)'
      OBVIOUS
    <3>1. CASE GetMsg \in Range(chan[a][b])
      BY <1>5, <3>1 DEF Unanswered
    <3>2. CASE \E g \in looked_up[b] : g.peer_id = a
      <4>1. CASE b = n
        <5>1. a = p
          BY <1>2, <3>2, <4>1 DEF p
        <5> QED BY <1>4, <1>5, <4>1, <5>1 DEF Unanswered
      <4>2. CASE b # n
        BY <1>6, <3>2, <4>2 DEF Unanswered
      <4> QED BY <4>1, <4>2
    <3>3. CASE \E m \in Range(chan[b][a]) : m.type = "GET_REPLY"
      BY <1>5, <3>3 DEF Unanswered
    <3> QED BY <3>1, <3>2, <3>3 DEF Unanswered
  <2> QED BY <1>6, <2>1 DEF NoGetLost, TypeOK
<1>13. PairInv'
  <2>1. NotFound(p, n) \/ get.found
    <3>1. get.found \/ get = [peer_id |-> p, found |-> FALSE]
      BY <1>2, LookupCases DEF p
    <3> QED BY <1>2, <3>1 DEF NotFound
  <2>2. \A a, b \in Node : NotFound(a, b)' => NotFound(a, b)
    <3> SUFFICES ASSUME NEW a \in Node, NEW b \in Node, NotFound(a, b)'
                 PROVE  NotFound(a, b)
      OBVIOUS
    <3>1. CASE [peer_id |-> a, found |-> FALSE] \in looked_up'[b]
      BY <1>6, <3>1 DEF NotFound
    <3>2. CASE ReplyMsg(FALSE) \in Range(chan[b][a])
      BY <3>2 DEF NotFound
    <3>3. CASE b = n /\ a = p /\ ReplyMsg(FALSE) = reply
      BY <1>4, <2>1, <3>3, MessageTypes
    <3> QED BY <1>5, <3>1, <3>2, <3>3 DEF NotFound
  <2>3. \A a, b \in Node : Acquainted(a, b) => Acquainted(a, b)'
    BY <1>6 DEF Acquainted
  <2>4. \A a, b \in Node : WillFind(a, b) => WillFind(a, b)'
    BY <1>6, <1>9, <2>2, <2>3 DEF WillFind
  <2> QED BY <1>6, <1>9, <2>2, <2>3, <2>4 DEF PairInv
<1> QED BY <1>7, <1>8, <1>10, <1>11, <1>12, <1>13

\* The listener takes a reply.
LEMMA HandleGetReplyKeeps ==
  ASSUME DobjInv, NEW n \in Node, NEW p \in Node, HandleGetReply(n, p)
  PROVE  DobjInv'
<1> USE DEF DobjInv
<1> DEFINE reply == Message(p, n)
<1>1. /\ chan' \in Channels
      /\ reply \in DobjMessage
      /\ reply \in Range(chan[p][n])
      /\ \A a, b \in Node : Range(chan[a][b])' \subseteq Range(chan[a][b])
      /\ \A a, b \in Node : \A m \in Range(chan[a][b]) :
           \/ m \in Range(chan[a][b])'
           \/ a = p /\ b = n /\ m = reply
  BY ReceivedProperties DEF HandleGetReply
<1>2. reply.type = "GET_REPLY"
  BY DEF HandleGetReply
<1>3. /\ p # n /\ ~ NotSent(n)
      /\ reply.have_reference => p \in hashed /\ n \in peers[p]
  BY <1>1, <1>2 DEF MessageInv
<1>4. /\ peers' \in [Node -> SUBSET Node]
      /\ wait_on' \in [Node -> SUBSET Node]
      /\ \A a \in Node :
           /\ peers'[a] = IF a = n /\ reply.have_reference THEN peers[n] \cup {p}
                                                            ELSE peers[a]
           /\ wait_on'[a] = IF a = n THEN wait_on[n] \ {p} ELSE wait_on[a]
      /\ UNCHANGED <<hashed, ref_count, looked_up, pc>>
  BY DEF HandleGetReply, TypeOK, WithReplier, StillAwaited
<1> HIDE DEF reply
<1>5. TypeOK'
  BY <1>1, <1>4 DEF TypeOK, Channels
<1>6. \A a \in Node : NotSent(a)' <=> NotSent(a)
  BY <1>4 DEF NotSent
<1>7. ThreadInv'
  <2>1. \A t \in Thread : pc[n][t] # "armed"
    BY <1>3 DEF NotSent
  <2> QED BY <1>4, <2>1 DEF ThreadInv, Joined, GroupPeers
<1>8. MessageInv'
  <2> SUFFICES ASSUME NEW a \in Node, NEW b \in Node
               PROVE  /\ GetMsg \in Range(chan[b][a])' => b # a /\ ~ NotSent(b)'
                      /\ \A g \in looked_up[a] :
                           /\ g.peer_id # a /\ ~ NotSent(g.peer_id)'
                           /\ g.found => a \in hashed
                      /\ \A x \in Range(chan[b][a])' :
                           x.type = "GET_REPLY" =>
                             /\ b # a /\ ~ NotSent(a)'
                             /\ x.have_reference => b \in hashed /\ a \in peers'[b]
    BY <1>4 DEF MessageInv
  <2>1. \A g \in looked_up[a] : g.peer_id \in Node
    BY DEF TypeOK
  <2>2. \A g \in looked_up[a] :
          /\ g.peer_id # a /\ ~ NotSent(g.peer_id)'
          /\ g.found => a \in hashed
    BY <1>6, <2>1 DEF MessageInv
  <2>3. peers[b] \subseteq peers'[b]
    BY <1>4
  <2>4. ASSUME NEW x \in Range(chan[b][a])', x.type = "GET_REPLY"
        PROVE  /\ b # a /\ ~ NotSent(a)'
               /\ x.have_reference => b \in hashed /\ a \in peers'[b]
    BY <1>1, <1>6, <2>3, <2>4 DEF MessageInv
  <2> QED BY <1>1, <1>6, <2>2, <2>4 DEF MessageInv
<1>9. PeersHold'
  BY <1>3, <1>4 DEF PeersHold
<1>10. NoGetLost'
  <2>1. ASSUME NEW a \in Node, NEW b \in Node, Unanswered(a, b), ~ (a = n /\ b = p)
        PROVE  Unanswered(a, b)'
    <3>1. CASE GetMsg \in Range(chan[a][b])
      <4>1. GetMsg # reply
        BY <1>2, MessageTypes
      <4>2. GetMsg \in Range(chan[a][b])'
        BY <1>1, <3>1, <4>1
      <4> QED BY <4>2 DEF Unanswered
    <3>2. CASE \E g \in looked_up[b] : g.peer_id = a
      BY <1>4, <3>2 DEF Unanswered
    <3>3. CASE \E m \in Range(chan[b][a]) : m.type = "GET_REPLY"
      <4>1. PICK m \in Range(chan[b][a]) : m.type = "GET_REPLY"
        BY <3>3
      <4>2. m \in Range(chan[b][a])'
        BY <1>1, <2>1, <4>1
      <4> QED BY <4>1, <4>2 DEF Unanswered
    <3> QED BY <2>1, <3>1, <3>2, <3>3 DEF Unanswered
  <2>2. ASSUME NEW a \in Node, NEW t \in Thread, pc'[a][t] = "asking",
               NEW b \in wait_on'[a]
        PROVE  Unanswered(a, b)'
    <3>1. b \in Node /\ b \in wait_on[a] /\ ~ (a = n /\ b = p)
      <4>1. wait_on'[a] \subseteq Node
        BY <1>4
      <4> QED BY <1>4, <2>2, <4>1
    <3>2. Unanswered(a, b)
      BY <1>4, <2>2, <3>1 DEF NoGetLost
    <3> QED BY <2>1, <3>1, <3>2
  <2> QED BY <2>2 DEF NoGetLost
<1>11. PairInv'
  <2>1. \A a, b \in Node : NotFound(a, b)' => NotFound(a, b)
    BY <1>1, <1>4 DEF NotFound
  <2>2. \A a, b \in Node : Acquainted(a, b) => Acquainted(a, b)'
    BY <1>4 DEF Acquainted
  <2>3. CASE reply.have_reference
    <3>1. Acquainted(n, p)' /\ Acquainted(p, n)'
      BY <1>3, <1>4, <2>3 DEF Acquainted
    <3>2. \A a, b \in Node : WillFind(a, b) => WillFind(a, b)'
      BY <1>4, <1>6, <2>1, <2>2, <3>1 DEF WillFind
    <3> QED BY <1>4, <1>6, <2>1, <2>2, <3>1, <3>2 DEF PairInv
  <2>4. CASE ~ reply.have_reference
    <3>1. reply = ReplyMsg(FALSE)
      BY <1>1, <1>2, <2>4, MessageCases, MessageTypes
    <3>2. NotFound(n, p)
      BY <1>1, <3>1 DEF NotFound
    <3>3. WillFind(p, n) /\ ~ WillFind(n, p)
      BY <1>3, <3>2 DEF PairInv, WillFind
    <3>4. \A a, b \in Node : WillFind(a, b) => WillFind(a, b)'
      BY <1>4, <1>6, <2>1, <2>2, <3>3 DEF WillFind
    <3> QED BY <1>4, <1>6, <2>1, <2>2, <3>3, <3>4 DEF PairInv
  <2> QED BY <2>3, <2>4
<1> QED BY <1>5, <1>7, <1>8, <1>9, <1>10, <1>11

----------------------------------------------------------------------------
(***************************************************************************)
(* Theorems                                                                *)
(***************************************************************************)

\* A step that changes nothing keeps the invariant.
LEMMA StutterKeeps == ASSUME DobjInv, UNCHANGED vars PROVE DobjInv'
<1> USE DEF DobjInv, vars
<1>1. TypeOK'
  BY DEF TypeOK
<1>2. ThreadInv'
  BY DEF ThreadInv, Joined
<1>3. \A n \in Node : NotSent(n) <=> NotSent(n)'
  BY DEF NotSent
<1>4. MessageInv' /\ PeersHold' /\ PairInv'
  BY <1>3, QuietStep
<1>5. NoGetLost'
  BY DEF NoGetLost, Unanswered
<1> QED BY <1>1, <1>2, <1>4, <1>5

\* The invariant: whatever crosses, of two GETs at most one is told no, and the
\* node that was not found asks later and finds.
THEOREM DobjInvariant == Spec => []DobjInv
<1>1. Init => DobjInv
  BY InitInv
<1>2. DobjInv /\ [Next]_vars => DobjInv'
  <2> SUFFICES ASSUME DobjInv, [Next]_vars PROVE DobjInv'
    OBVIOUS
  <2>1. CASE UNCHANGED vars
    BY <2>1, StutterKeeps
  <2>2. ASSUME NEW n \in Node, NEW t \in GetThread[n], Get(n, t)
        PROVE  DobjInv'
    <3>1. t \in Thread
      BY <2>2, GetThreadAssumption
    <3> QED BY <2>2, <3>1, GetFoundKeeps, GetAddKeeps, GetArmKeeps, GetSendKeeps,
               GetWaitKeeps DEF Get
  <2>3. ASSUME NEW n \in Node, Listen(n)
        PROVE  DobjInv'
    BY <2>3, LookupGetKeeps, AnswerGetKeeps, HandleGetReplyKeeps DEF Listen
  <2> QED BY <2>1, <2>2, <2>3 DEF Next
<1> QED BY <1>1, <1>2, PTL DEF Spec

\* Nodes whose gets have returned know each other (dobj.c:90-91 and 112-120).
THEOREM UsersKnowEachOther == Spec => []PeersMutual
<1>1. DobjInv => PeersMutual
  <2> SUFFICES ASSUME DobjInv, NEW n \in Node, NEW p \in Node,
                      n # p, Joined(n), Joined(p)
               PROVE  p \in peers[n] /\ n \in peers[p]
    BY DEF PeersMutual
  <2>1. ~ NotSent(n) /\ ~ NotSent(p)
    BY DEF Joined, NotSent
  <2>2. wait_on[n] = {} /\ wait_on[p] = {}
    BY DEF DobjInv, ThreadInv
  <2>3. Acquainted(n, p) \/ WillFind(p, n)
    BY <2>1, <2>2 DEF DobjInv, PairInv
  <2> QED BY <2>1, <2>2, <2>3 DEF WillFind, Acquainted
<1> QED BY <1>1, DobjInvariant, PTL

\* Only nodes that have the object are known as its users (dobj.c:90-91 and 112-114).
THEOREM UsersHoldObject == Spec => []PeersHold
<1>1. DobjInv => PeersHold
  BY DEF DobjInv
<1> QED BY <1>1, DobjInvariant, PTL

\* No get waits for an answer that will not come (dobj.c:93 and 145-148).
THEOREM GetsNotLost == Spec => []NoGetLost
<1>1. DobjInv => NoGetLost
  BY DEF DobjInv
<1> QED BY <1>1, DobjInvariant, PTL

----------------------------------------------------------------------------
(***************************************************************************)
(* The mutex of module MutexJoin, of which the object is the one above.    *)
(* Here its inductive invariant: first what holds in any group of nodes.   *)
(***************************************************************************)

\* A node has the object before one of its threads has got it, and the thread
\* that makes the mutex has set `inited'.
GetInOrder ==
  \A n \in Node :
    /\ n \notin hashed => \A t \in Thread : pc[n][t] = "out"
    /\ \A t \in Thread : get_init[n][t] = "init" => n \in inited

\* No node hears from itself.
OthersOnly ==
  \A n \in Node :
    /\ chan[n][n] = << >>
    /\ n \notin peers[n]
    /\ \A get \in looked_up[n] : get.peer_id # n

\* Replies are awaited by a thread that has armed the waiter, and at first those
\* of all peers of the snapshot.
ArmedAwaits ==
  \A n \in Node :
    /\ \A t \in Thread :
         lock_pc[n][t] = "arming" => lock_wait_on[n] = asked[n] /\ l_time[n] > 0
    /\ lock_wait_on[n] # {} =>
         \E t \in Thread : lock_pc[n][t] \in {"arming", "waiting"}

LockInv == MP!OwnerInside /\ MP!RequestWhileEngaged /\ ArmedAwaits

JoinLocalInv ==
  /\ JoinTypeOK /\ GetInOrder /\ OthersOnly
  /\ LockInv

(***************************************************************************)
(* Then what holds between two nodes of which i has never sent j a REQUEST *)
(* without waiting for the reply: the request of i is in one place, and    *)
(* when j has granted it every request of j comes behind it.               *)
(***************************************************************************)
Awaits(i, j) == local_request[i] # 0 /\ j \in lock_wait_on[i]

\* j has replied to the request of i, whether or not i has seen it.
GrantedTo(i, j) ==
  \/ MP!Answered(i, j)
  \/ local_request[i] # 0 /\ j \in asked[i] \ lock_wait_on[i]

OneRequest(i, j) ==
  /\ MP!AtMostOne(chan[i][j], "REQUEST")
  /\ MP!AtMostOne(chan[j][i], "REPLY")
  /\ \A m \in Range(chan[i][j]) :
       m.type = "REQUEST" => m = MP!RequestMsg(local_request[i])

InPlace(i, j) ==
  /\ MP!Pending(i, j) => Awaits(i, j) /\ ~ MP!Deferred(j) /\ ~ MP!Answered(i, j)
  /\ MP!Deferred(j) => Awaits(i, j) /\ ~ MP!Answered(i, j)
  /\ MP!Answered(i, j) => Awaits(i, j)

GrantAhead(i, j) ==
  GrantedTo(i, j) =>
    /\ local_request[i] < l_time[j]
    /\ local_request[j] # 0 => MP!Precedes(MP!LocalRequest(i), MP!LocalRequest(j))

SettledInv(i, j) ==
  OneRequest(i, j) /\ InPlace(i, j) /\ MP!Kept(i, j) /\ GrantAhead(i, j)

JoinInv ==
  /\ JoinLocalInv
  /\ \A i, j \in Node : i # j /\ j \notin unawaited[i] => SettledInv(i, j)

----------------------------------------------------------------------------
(***************************************************************************)
(* Lemmas about the connections                                            *)
(***************************************************************************)
Messages == M!AnyMessage
JoinChannels == [Node -> [Node -> Seq(Messages)]]

\* M and MP are the same instance of Mutex.
LEMMA SameMessages == MP!AnyMessage = Messages /\ MP!Channels = JoinChannels
BY DEF MP!AnyMessage, M!AnyMessage, Messages, MP!MutexMessage, M!MutexMessage,
       MP!Channels, JoinChannels

\* What the dobj layer sends is foreign to the mutex.
LEMMA JoinForeign ==
  \A m \in DobjMessage : m.type \notin {"REQUEST", "REPLY"} /\ m \in Messages
BY DEF DobjMessage, Messages, M!AnyMessage

\* What MutexProofs assumes of its constants.
LEMMA MutexAssumptions ==
  /\ Node \subseteq Nat \ {0}
  /\ NoThread \notin Thread
  /\ MaxTime \in [Node -> Nat]
  /\ \A m \in DobjMessage : m.type \notin {"REQUEST", "REPLY"}
BY NodeAssumption, ThreadAssumption, MaxTimeAssumption, JoinForeign

\* What n sends is appended to its connections to its peers and to no other.
LEMMA JoinSent ==
  ASSUME JoinTypeOK, NEW c \in JoinChannels, NEW n \in Node,
         NEW ms \in Seq(Messages)
  PROVE  /\ M!Sent(c, n, ms) \in JoinChannels
         /\ \A a, b \in Node :
              M!Sent(c, n, ms)[a][b] =
                IF a = n /\ b \in peers[n] THEN c[a][b] \o ms ELSE c[a][b]
<1>1. peers \in [Node -> SUBSET Node]
  BY DEF JoinTypeOK
<1>2. M!Sent(c, n, ms) = MP!Sent(c, n, ms)
  BY DEF M!Sent, MP!Sent
<1> QED BY <1>1, <1>2, SameMessages, MutexAssumptions, MP!SentProperties

\* The listener of n takes the message at the head of the connection from p.
LEMMA JoinReceived ==
  ASSUME JoinTypeOK, NEW p \in Node, NEW n \in Node, chan[p][n] # << >>
  PROVE  /\ Head(chan[p][n]) \in Messages
         /\ Received(p, n) \in JoinChannels
         /\ \A a, b \in Node :
              Received(p, n)[a][b] =
                IF a = p /\ b = n THEN Tail(chan[p][n]) ELSE chan[a][b]
<1>1. chan \in MP!Channels
  BY SameMessages DEF JoinTypeOK, JoinChannels, Messages
<1>2. Received(p, n) = MP!Received(p, n)
  BY DEF Received, MP!Received
<1> QED BY <1>1, <1>2, SameMessages, MutexAssumptions, MP!ReceivedProperties

\* z carries no message of this type that s does not carry.
Fewer(z, s, type) ==
  /\ MP!AtMostOne(s, type) => MP!AtMostOne(z, type)
  /\ \A m \in Range(z) : m.type = type => m \in Range(s)

\* An unchanged connection carries no more than before,
LEMMA FewerSame ==
  ASSUME NEW s, NEW type
  PROVE  Fewer(s, s, type)
BY DEF Fewer

\* nor does one whose first message is taken,
LEMMA FewerTail ==
  ASSUME NEW s \in Seq(Messages), s # << >>, NEW type
  PROVE  Tail(s) \in Seq(Messages) /\ Fewer(Tail(s), s, type)
<1>1. Tail(s) \in Seq(Messages) /\ Range(Tail(s)) \subseteq Range(s)
  BY TailRange
<1>2. MP!AtMostOne(s, type) => MP!AtMostOne(Tail(s), type)
  BY SameMessages, MutexAssumptions, MP!AtMostOneTail
<1> QED BY <1>1, <1>2 DEF Fewer

\* nor one that gets messages of another type,
LEMMA FewerConcat ==
  ASSUME NEW s \in Seq(Messages), NEW ms \in Seq(Messages), NEW type,
         \A m \in Range(ms) : m.type # type
  PROVE  s \o ms \in Seq(Messages) /\ Fewer(s \o ms, s, type)
<1> DEFINE z == s \o ms
<1>1. /\ z \in Seq(Messages) /\ Len(z) = Len(s) + Len(ms)
      /\ \A k \in 1 .. Len(s) + Len(ms) :
           z[k] = IF k <= Len(s) THEN s[k] ELSE ms[k - Len(s)]
  BY ConcatProperties
<1>2. /\ Len(s) \in Nat /\ Len(ms) \in Nat
      /\ DOMAIN s = 1 .. Len(s) /\ DOMAIN z = 1 .. Len(z)
      /\ DOMAIN ms = 1 .. Len(ms)
  BY <1>1, LenProperties
<1> HIDE DEF z
<1>3. ASSUME NEW k \in DOMAIN z, z[k].type = type
      PROVE  k \in DOMAIN s /\ z[k] = s[k]
  <2>1. CASE k <= Len(s)
    BY <1>1, <1>2, <2>1
  <2>2. CASE ~ (k <= Len(s))
    <3>1. k - Len(s) \in DOMAIN ms /\ z[k] = ms[k - Len(s)]
      BY <1>1, <1>2, <2>2
    <3> QED BY <1>3, <3>1 DEF Range
  <2> QED BY <2>1, <2>2
<1>4. MP!AtMostOne(s, type) => MP!AtMostOne(z, type)
  BY <1>3 DEF MP!AtMostOne
<1>5. \A m \in Range(z) : m.type = type => m \in Range(s)
  BY <1>3 DEF Range
<1> QED BY <1>1, <1>4, <1>5 DEF Fewer, z

\* of which one is the usual case.
LEMMA FewerAppend ==
  ASSUME NEW s \in Seq(Messages), NEW m \in Messages
  PROVE  /\ s \o <<m>> \in Seq(Messages) /\ s \o <<m>> = Append(s, m)
         /\ \A type : m.type # type => Fewer(s \o <<m>>, s, type)
         /\ Range(s \o <<m>>) = Range(s) \cup {m}
<1> DEFINE ms == <<m>>
<1>1. ms \in Seq(Messages) /\ Range(ms) = {m}
  BY DEF Range
<1>2. s \o ms = Append(s, m)
  OBVIOUS
<1> HIDE DEF ms
<1>3. \A type : m.type # type => s \o ms \in Seq(Messages) /\ Fewer(s \o ms, s, type)
  BY <1>1, FewerConcat
<1>4. s \o ms \in Seq(Messages) /\ Range(s \o ms) = Range(s) \cup {m}
  BY <1>1, RangeConcatenation
<1> QED BY <1>2, <1>3, <1>4 DEF ms

\* A step that brings no message for the mutex.
QuietOnChannels ==
  \A a, b \in Node : \A type \in {"REQUEST", "REPLY"} :
    Fewer(chan'[a][b], chan[a][b], type)

\* A step that sends and takes nothing is quiet,
LEMMA QuietUnchanged ==
  ASSUME UNCHANGED chan
  PROVE  QuietOnChannels
BY FewerSame DEF QuietOnChannels

\* One connection of n gets a message of the dobj layer.
LEMMA QuietAppend ==
  ASSUME NEW s \in Seq(Messages), NEW m \in DobjMessage
  PROVE  /\ s \o <<m>> \in Seq(Messages) /\ Append(s, m) \in Seq(Messages)
         /\ \A type \in {"REQUEST", "REPLY"} :
              Fewer(s \o <<m>>, s, type) /\ Fewer(Append(s, m), s, type)
<1>1. m \in Messages /\ m.type \notin {"REQUEST", "REPLY"}
  BY JoinForeign
<1>2. /\ s \o <<m>> \in Seq(Messages) /\ s \o <<m>> = Append(s, m)
      /\ \A type : m.type # type => Fewer(s \o <<m>>, s, type)
  BY <1>1, FewerAppend
<1> HIDE DEF Fewer
<1> QED BY <1>1, <1>2

\* and so is the taking of a message.
LEMMA QuietReceived ==
  ASSUME JoinTypeOK, NEW p \in Node, NEW n \in Node, chan[p][n] # << >>,
         chan' = Received(p, n)
  PROVE  chan' \in JoinChannels /\ QuietOnChannels
<1>1. /\ chan' \in JoinChannels
      /\ \A a, b \in Node :
           chan'[a][b] = IF a = p /\ b = n THEN Tail(chan[p][n]) ELSE chan[a][b]
  BY JoinReceived
<1>2. chan[p][n] \in Seq(Messages)
  BY DEF JoinTypeOK, Messages
<1>3. \A type : Fewer(Tail(chan[p][n]), chan[p][n], type)
  BY <1>2, FewerTail
<1>4. \A a, b \in Node : \A type : Fewer(chan'[a][b], chan[a][b], type)
  BY <1>1, <1>3, FewerSame
<1> QED BY <1>1, <1>4 DEF QuietOnChannels

----------------------------------------------------------------------------
(***************************************************************************)
(* The steps of edsm_mutex_get and of its listener                         *)
(***************************************************************************)

\* The lock of a node depends on the variables of the mutex only.
LEMMA LockInvUnchanged ==
  ASSUME LockInv, UNCHANGED <<mutexVars, asked>>
  PROVE  LockInv'
BY DEF LockInv, mutexVars, MP!OwnerInside, MP!RequestWhileEngaged, MP!Engaged,
       MP!NoRequest, ArmedAwaits

\* edsm_dobj_get, called by edsm_mutex_get.
LEMMA JoinGetKeeps ==
  ASSUME JoinLocalInv, NEW n \in Node, NEW t \in Thread, MutexGetDobj(n, t)
  PROVE  JoinLocalInv' /\ QuietOnChannels
<1> USE DEF JoinLocalInv
<1>1. UNCHANGED <<mutexVars, getVars, history>>
  BY DEF MutexGetDobj
<1>2. LockInv'
  BY <1>1, LockInvUnchanged DEF history
<1>3. CASE ~ GetSend(n, t)
  <2>1. UNCHANGED <<chan, peers, looked_up>>
    BY <1>3 DEF MutexGetDobj, Get, GetFound, GetAdd, GetArm, GetWait
  <2>2. /\ hashed \subseteq hashed' /\ hashed' \subseteq Node /\ n \in hashed'
        /\ wait_on' \in [Node -> SUBSET Node]
        /\ ref_count' \in [Node -> Nat]
        /\ \E to \in {"added", "armed", "got"} :
             pc' = [pc EXCEPT ![n][t] = to]
    <3>1. CASE GetFound(n, t)
      BY <3>1 DEF GetFound, Goto, JoinTypeOK
    <3>2. CASE GetAdd(n, t)
      BY <3>2 DEF GetAdd, Goto, JoinTypeOK
    <3>3. CASE GetArm(n, t)
      <4>1. n \in hashed
        BY <3>3 DEF GetArm, Goto, GetInOrder
      <4>2. wait_on' \in [Node -> SUBSET Node]
        BY <3>3 DEF GetArm, Asked, GroupPeers, JoinTypeOK
      <4> QED BY <3>3, <4>1, <4>2 DEF GetArm, Goto, JoinTypeOK
    <3>4. CASE GetWait(n, t)
      <4>1. n \in hashed
        BY <3>4 DEF GetWait, Goto, GetInOrder
      <4>2. ref_count' \in [Node -> Nat]
        BY <3>4 DEF GetWait, JoinTypeOK
      <4> QED BY <3>4, <4>1, <4>2 DEF GetWait, Goto, JoinTypeOK
    <3> QED BY <1>3, <3>1, <3>2, <3>3, <3>4 DEF MutexGetDobj, Get
  <2>3. /\ pc' \in [Node -> [Thread -> {"out", "added", "armed", "asking", "got"}]]
        /\ \A m \in Node : m # n => pc'[m] = pc[m]
    BY <2>2 DEF JoinTypeOK
  <2>4. JoinTypeOK'
    BY <1>1, <2>1, <2>2, <2>3 DEF JoinTypeOK, mutexVars, getVars, history
  <2>5. GetInOrder' /\ OthersOnly'
    BY <1>1, <2>1, <2>2, <2>3 DEF GetInOrder, OthersOnly, getVars
  <2> QED BY <1>2, <2>1, <2>4, <2>5, QuietUnchanged
<1>4. CASE GetSend(n, t)
  <2>1. \A b \in Node : chan[n][b] \in Seq(Messages)
    BY DEF JoinTypeOK, Messages
  <2>2. GetMsg \in DobjMessage
    BY MessageTypes
  <2>3. \A b \in Node : /\ Append(chan[n][b], GetMsg) \in Seq(Messages)
                        /\ \A type \in {"REQUEST", "REPLY"} :
                             Fewer(Append(chan[n][b], GetMsg), chan[n][b], type)
    BY <2>1, <2>2, QuietAppend
  <2>4. chan \in JoinChannels
    BY DEF JoinTypeOK, JoinChannels, Messages
  <2>5. /\ chan' \in JoinChannels
        /\ \A a, b \in Node :
             chan'[a][b] = IF a = n /\ b # n THEN Append(chan[n][b], GetMsg)
                                             ELSE chan[a][b]
    BY <1>4, <2>3, <2>4 DEF GetSend, GroupPeers, JoinChannels
  <2>6. QuietOnChannels
    BY <2>3, <2>5, FewerSame DEF QuietOnChannels
  <2>7. /\ UNCHANGED <<hashed, peers, wait_on, ref_count, looked_up>>
        /\ pc[n][t] = "armed" /\ pc' = [pc EXCEPT ![n][t] = "asking"]
    BY <1>4 DEF GetSend, Goto
  <2>8. JoinTypeOK'
    <3>1. pc' \in [Node -> [Thread -> {"out", "added", "armed", "asking", "got"}]]
      BY <2>7 DEF JoinTypeOK
    <3> QED BY <1>1, <2>5, <2>7, <3>1
        DEF JoinTypeOK, JoinChannels, Messages, mutexVars, getVars, history
  <2>9. GetInOrder'
    BY <1>1, <2>7 DEF GetInOrder, getVars, JoinTypeOK
  <2>10. OthersOnly'
    BY <2>5, <2>7 DEF OthersOnly
  <2> QED BY <1>2, <2>6, <2>8, <2>9, <2>10
<1> QED BY <1>3, <1>4

\* edsm_dobj_test_and_init and the initialisation.
LEMMA JoinInitKeeps ==
  ASSUME JoinLocalInv, NEW n \in Node, NEW t \in Thread,
         MutexGetTest(n, t) \/ MutexGetInit(n, t)
  PROVE  JoinLocalInv' /\ QuietOnChannels
<1> USE DEF JoinLocalInv
<1>1. UNCHANGED <<chan, peers, dobjVars, mutexVars, history>>
  BY DEF MutexGetTest, MutexGetInit
<1>2. LockInv' /\ QuietOnChannels
  BY <1>1, LockInvUnchanged, QuietUnchanged DEF history
<1>3. /\ inited' \in SUBSET hashed /\ inited \subseteq inited'
      /\ made' \in SUBSET inited'
  BY DEF MutexGetTest, MutexGetInit, GotoInit, GetInOrder, JoinTypeOK
<1>4. /\ get_init' \in [Node -> [Thread -> {"dobj", "init", "ready"}]]
      /\ \A m \in Node, u \in Thread :
           get_init'[m][u] = "init" => m \in inited'
  <2>1. CASE MutexGetTest(n, t)
    <3>1. \E to \in {"init", "ready"} :
            get_init' = [get_init EXCEPT ![n][t] = to]
      BY <2>1 DEF MutexGetTest, GotoInit
    <3>2. inited' = inited \cup {n}
      BY <2>1 DEF MutexGetTest
    <3> QED BY <3>1, <3>2 DEF GetInOrder, JoinTypeOK
  <2>2. CASE MutexGetInit(n, t)
    BY <2>2 DEF MutexGetInit, GotoInit, GetInOrder, JoinTypeOK
  <2> QED BY <2>1, <2>2
<1>5. JoinTypeOK'
  BY <1>1, <1>3, <1>4 DEF JoinTypeOK, dobjVars, mutexVars, history
<1>6. GetInOrder' /\ OthersOnly'
  BY <1>1, <1>4 DEF GetInOrder, OthersOnly, dobjVars
<1> QED BY <1>2, <1>5, <1>6

\* The GET and GET_REPLY handlers.
LEMMA JoinListenGetKeeps ==
  ASSUME JoinLocalInv, NEW n \in Node, ListenGet(n)
  PROVE  JoinLocalInv' /\ QuietOnChannels
<1> USE DEF JoinLocalInv
<1>1. UNCHANGED <<mutexVars, getVars, history>>
  BY DEF ListenGet
<1>2. LockInv'
  BY <1>1, LockInvUnchanged DEF history
<1>3. ASSUME NEW p \in Node, LookupGet(n, p) \/ HandleGetReply(n, p)
      PROVE  JoinLocalInv' /\ QuietOnChannels
  <2>1. /\ chan[p][n] # << >> /\ chan' = Received(p, n)
        /\ UNCHANGED <<hashed, ref_count, pc>>
    BY <1>3 DEF LookupGet, HandleGetReply
  <2>2. chan' \in JoinChannels /\ QuietOnChannels
    BY <2>1, QuietReceived
  <2>3. p # n
    BY <2>1 DEF OthersOnly
  <2>4. \A a \in Node : chan'[a][a] = << >>
    BY <2>1, <2>3, JoinReceived DEF OthersOnly
  <2>5. /\ looked_up' \in [Node -> SUBSET [peer_id : Node, found : BOOLEAN]]
        /\ \A m \in Node : \A get \in looked_up'[m] : get.peer_id # m
    <3>1. CASE LookupGet(n, p)
      <4>1. [peer_id |-> p, found |-> n \in hashed] \in [peer_id : Node, found : BOOLEAN]
        OBVIOUS
      <4>2. \A m \in Node :
              looked_up'[m] = IF m = n
                                THEN {[peer_id |-> p, found |-> n \in hashed]}
                                ELSE looked_up[m]
        BY <3>1 DEF LookupGet, JoinTypeOK
      <4>3. looked_up' \in [Node -> SUBSET [peer_id : Node, found : BOOLEAN]]
        BY <3>1, <4>1 DEF LookupGet, JoinTypeOK
      <4> QED BY <2>3, <4>2, <4>3 DEF OthersOnly
    <3>2. CASE HandleGetReply(n, p)
      BY <3>2 DEF HandleGetReply, JoinTypeOK, OthersOnly
    <3> QED BY <1>3, <3>1, <3>2
  <2>6. /\ peers' \in [Node -> SUBSET Node]
        /\ \A m \in Node : m \notin peers'[m]
        /\ wait_on' \in [Node -> SUBSET Node]
    <3>1. CASE LookupGet(n, p)
      BY <3>1 DEF LookupGet, JoinTypeOK, OthersOnly
    <3>2. CASE HandleGetReply(n, p)
      <4>1. WithReplier(n, p) \subseteq peers[n] \cup {p}
        BY DEF WithReplier
      <4>2. /\ peers' = [peers EXCEPT ![n] = WithReplier(n, p)]
            /\ wait_on' = [wait_on EXCEPT ![n] = StillAwaited(n, p)]
        BY <3>2 DEF HandleGetReply
      <4> HIDE DEF WithReplier
      <4> QED BY <2>3, <4>1, <4>2 DEF JoinTypeOK, OthersOnly, StillAwaited
    <3> QED BY <1>3, <3>1, <3>2
  <2>7. JoinTypeOK'
    BY <1>1, <2>1, <2>2, <2>5, <2>6
    DEF JoinTypeOK, JoinChannels, Messages, mutexVars, getVars, history
  <2>8. GetInOrder' /\ OthersOnly'
    BY <1>1, <2>1, <2>4, <2>5, <2>6 DEF GetInOrder, OthersOnly, getVars
  <2> QED BY <1>2, <2>2, <2>7, <2>8
<1>4. CASE AnswerGet(n)
  <2>1. PICK get \in looked_up[n] :
          /\ peers' = [peers EXCEPT ![n] = WithAsker(n, get)]
          /\ chan' = [chan EXCEPT ![n][get.peer_id] = @ \o Answer(get)]
          /\ looked_up' = [looked_up EXCEPT ![n] = {}]
          /\ UNCHANGED <<hashed, wait_on, ref_count, pc>>
    BY <1>4 DEF AnswerGet
  <2>2. get.peer_id \in Node /\ get.found \in BOOLEAN /\ get.peer_id # n
    BY DEF JoinTypeOK, OthersOnly
  <2> DEFINE p == get.peer_id
             m == ReplyMsg(get.found)
  <2>3. m \in DobjMessage /\ Answer(get) = <<m>>
    BY <2>2, MessageTypes DEF Answer
  <2>4. chan \in JoinChannels /\ chan[n][p] \in Seq(Messages)
    BY <2>2 DEF JoinTypeOK, JoinChannels, Messages
  <2> HIDE DEF m
  <2>5. /\ chan[n][p] \o <<m>> \in Seq(Messages)
        /\ \A type \in {"REQUEST", "REPLY"} :
             Fewer(chan[n][p] \o <<m>>, chan[n][p], type)
    BY <2>3, <2>4, QuietAppend
  <2>6. /\ chan' \in JoinChannels
        /\ \A a, b \in Node :
             chan'[a][b] = IF a = n /\ b = p THEN chan[n][p] \o <<m>>
                                             ELSE chan[a][b]
    BY <2>1, <2>2, <2>3, <2>4, <2>5 DEF JoinChannels
  <2>7. QuietOnChannels
    BY <2>5, <2>6, FewerSame DEF QuietOnChannels
  <2>8. /\ peers' \in [Node -> SUBSET Node]
        /\ \A a \in Node : a \notin peers'[a]
    <3>1. WithAsker(n, get) \subseteq peers[n] \cup {p}
      BY DEF WithAsker
    <3> HIDE DEF WithAsker
    <3> QED BY <2>1, <2>2, <3>1 DEF JoinTypeOK, OthersOnly
  <2>9. /\ looked_up' \in [Node -> SUBSET [peer_id : Node, found : BOOLEAN]]
        /\ \A a \in Node : \A g \in looked_up'[a] : g.peer_id # a
    BY <2>1 DEF JoinTypeOK, OthersOnly
  <2>10. JoinTypeOK'
    BY <1>1, <2>1, <2>6, <2>8, <2>9
    DEF JoinTypeOK, JoinChannels, Messages, mutexVars, getVars, history
  <2>11. GetInOrder' /\ OthersOnly'
    BY <1>1, <2>1, <2>2, <2>6, <2>8, <2>9 DEF GetInOrder, OthersOnly, getVars
  <2> QED BY <1>2, <2>7, <2>10, <2>11
<1> QED BY <1>3, <1>4 DEF ListenGet, Listen

----------------------------------------------------------------------------
(***************************************************************************)
(* The steps of lock and unlock, and the object messages                   *)
(***************************************************************************)

\* A node has one thread in lock or unlock.
LEMMA OneLocker ==
  ASSUME JoinLocalInv, NEW n \in Node, NEW s \in Thread, NEW t \in Thread,
         lock_pc[n][s] # "idle", lock_pc[n][t] # "idle"
  PROVE  s = t
BY DEF JoinLocalInv, LockInv, MP!OwnerInside

\* The REQUEST goes to the peers that there are now.
LEMMA JoinRequestSent ==
  ASSUME JoinLocalInv, NEW n \in Node, NEW t \in Thread, LockSend(n, t)
  PROVE  /\ chan' \in JoinChannels
         /\ M!RequestMsg(l_time[n]) \in Messages
         /\ M!RequestMsg(l_time[n]).type = "REQUEST"
         /\ \A a, b \in Node :
              chan'[a][b] = IF a = n /\ b \in peers[n]
                              THEN chan[a][b] \o <<M!RequestMsg(l_time[n])>>
                              ELSE chan[a][b]
<1> DEFINE m == M!RequestMsg(l_time[n])
           ms == <<m>>
<1>1. JoinTypeOK /\ chan \in JoinChannels
  BY DEF JoinLocalInv, JoinTypeOK, JoinChannels, Messages
<1>2. m \in Messages /\ m.type = "REQUEST"
  BY <1>1 DEF JoinTypeOK, M!RequestMsg, Messages, M!AnyMessage, M!MutexMessage
<1> HIDE DEF m
<1>3. ms \in Seq(Messages)
  BY <1>2
<1>4. chan' = M!Sent(chan, n, ms)
  BY DEF LockSend, m
<1> HIDE DEF ms
<1>5. /\ chan' \in JoinChannels
      /\ \A a, b \in Node :
           chan'[a][b] = IF a = n /\ b \in peers[n] THEN chan[a][b] \o ms
                                                    ELSE chan[a][b]
  BY <1>1, <1>3, <1>4, JoinSent
<1> QED BY <1>2, <1>5 DEF m, ms

\* So do the replies of an unlock.
LEMMA JoinRepliesSent ==
  ASSUME JoinLocalInv, NEW n \in Node, NEW t \in Thread, M!UnlockReply(n, t)
  PROVE  /\ chan' \in JoinChannels
         /\ M!Replies(n) \in Seq(Messages)
         /\ Len(M!Replies(n)) = Len(requests[n])
         /\ \A m \in Range(M!Replies(n)) : m.type = "REPLY"
         /\ \A a, b \in Node :
              chan'[a][b] = IF a = n /\ b \in peers[n]
                              THEN chan[a][b] \o M!Replies(n)
                              ELSE chan[a][b]
<1>1. JoinTypeOK /\ chan \in JoinChannels
  BY DEF JoinLocalInv, JoinTypeOK, JoinChannels, Messages
<1>2. M!Replies(n) = MP!Replies(n)
  BY DEF M!Replies, MP!Replies, M!ReplyMsg, MP!ReplyMsg
<1>3. l_time[n] \in Nat /\ requests[n] \in Seq(MP!RequestEntry)
  BY <1>1 DEF JoinTypeOK, M!RequestEntry, MP!RequestEntry
<1>4. /\ M!Replies(n) \in Seq(Messages)
      /\ Len(M!Replies(n)) = Len(requests[n])
      /\ \A m \in MP!Range(M!Replies(n)) : m.type = "REPLY"
  BY <1>2, <1>3, SameMessages, MutexAssumptions, MP!MessagesOfUnlock
<1>5. chan' = M!Sent(chan, n, M!Replies(n))
  BY DEF M!UnlockReply
<1>6. \A m \in Range(M!Replies(n)) : m.type = "REPLY"
  BY <1>4 DEF Range, MP!Range
<1> QED BY <1>1, <1>4, <1>5, <1>6, JoinSent

LockStages == {"idle", "locking", "arming", "waiting", "held", "unlocking"}

\* What a step of lock or unlock leaves alone.
LEMMA LockingFrame ==
  ASSUME JoinLocalInv, UNCHANGED <<peers, dobjVars, getVars>>,
         \A a \in Node : chan'[a][a] = << >>
  PROVE  GetInOrder' /\ OthersOnly'
BY DEF JoinLocalInv, GetInOrder, OthersOnly, dobjVars, getVars

\* local_mutex is taken by a thread that finds it free, and given back.
LEMMA JoinLocalMutex ==
  ASSUME JoinLocalInv, NEW n \in Node, NEW t \in Thread,
         LockLocal(n, t) \/ (M!UnlockLocal(n, t) /\ Unlock(n, t))
  PROVE  JoinLocalInv'
<1> USE DEF JoinLocalInv
<1>1. /\ UNCHANGED <<chan, peers, dobjVars, getVars, history>>
      /\ UNCHANGED <<l_time, local_request, requests, lock_wait_on>>
  BY DEF LockLocal, M!LockLocal, Unlock, M!UnlockLocal
<1>2. PICK to \in {"idle", "locking"}, owner \in Thread \cup {NoThread} :
        /\ lock_pc[n][t] \in {"idle", "unlocking"}
        /\ lock_pc' = [lock_pc EXCEPT ![n][t] = to]
        /\ local_mutex' = [local_mutex EXCEPT ![n] = owner]
        /\ local_mutex[n] \in {NoThread, t}
        /\ to = "locking" => owner = t
  <2>1. CASE LockLocal(n, t)
    BY <2>1 DEF LockLocal, M!LockLocal, M!Goto
  <2>2. CASE M!UnlockLocal(n, t)
    <3>1. local_mutex[n] = t
      BY <2>2 DEF M!UnlockLocal, M!Goto, LockInv, MP!OwnerInside
    <3> QED BY <2>2, <3>1 DEF M!UnlockLocal, M!Goto
  <2> QED BY <2>1, <2>2
<1>3. JoinTypeOK'
  <2>1. /\ lock_pc' \in [Node -> [Thread -> LockStages]]
        /\ local_mutex' \in [Node -> Thread \cup {NoThread}]
    BY <1>2 DEF JoinTypeOK, LockStages
  <2> QED BY <1>1, <2>1
      DEF JoinTypeOK, LockStages, dobjVars, getVars, history
<1>4. GetInOrder' /\ OthersOnly'
  BY <1>1, LockingFrame DEF OthersOnly
<1>5. /\ \A m \in Node, u \in Thread :
           lock_pc'[m][u] = IF m = n /\ u = t THEN to ELSE lock_pc[m][u]
      /\ \A m \in Node : local_mutex'[m] = IF m = n THEN owner ELSE local_mutex[m]
  BY <1>2 DEF JoinTypeOK
<1>6. MP!OwnerInside'
  <2>1. \A u \in Thread : lock_pc[n][u] # "idle" => u = t
    BY <1>2, ThreadAssumption DEF LockInv, MP!OwnerInside
  <2> QED BY <1>2, <1>5, <2>1 DEF LockInv, MP!OwnerInside
<1>7. MP!RequestWhileEngaged' /\ ArmedAwaits'
  BY <1>1, <1>2, <1>5
  DEF LockInv, MP!RequestWhileEngaged, MP!Engaged, MP!NoRequest, ArmedAwaits,
      history
<1> QED BY <1>3, <1>4, <1>6, <1>7 DEF LockInv

\* The critical parts of lock, and the end of its wait.
LEMMA JoinLockArmKeeps ==
  ASSUME JoinLocalInv, NEW n \in Node, NEW t \in Thread, LockArm(n, t)
  PROVE  JoinLocalInv'
<1> USE DEF JoinLocalInv
<1>1. /\ lock_pc[n][t] = "locking"
      /\ lock_pc' = [lock_pc EXCEPT ![n][t] = "arming"]
      /\ l_time' = [l_time EXCEPT ![n] = @ + 1]
      /\ lock_wait_on' = [lock_wait_on EXCEPT ![n] = peers[n]]
      /\ asked' = [asked EXCEPT ![n] = peers[n]]
      /\ UNCHANGED <<chan, peers, dobjVars, local_request, requests, local_mutex,
                     getVars, unawaited>>
  BY DEF LockArm, M!Goto, LockAsked
<1>2. JoinTypeOK'
  <2>1. /\ lock_pc' \in [Node -> [Thread -> LockStages]]
        /\ l_time' \in [Node -> Nat]
        /\ lock_wait_on' \in [Node -> SUBSET Node]
        /\ asked' \in [Node -> SUBSET Node]
    BY <1>1 DEF JoinTypeOK, LockStages
  <2> QED BY <1>1, <2>1 DEF JoinTypeOK, LockStages, dobjVars, getVars
<1>3. GetInOrder' /\ OthersOnly'
  BY <1>1, LockingFrame DEF OthersOnly
<1>4. \A m \in Node, u \in Thread :
        lock_pc'[m][u] = IF m = n /\ u = t THEN "arming" ELSE lock_pc[m][u]
  BY <1>1 DEF JoinTypeOK
<1>5. MP!OwnerInside'
  BY <1>1, <1>4 DEF LockInv, MP!OwnerInside
<1>6. MP!RequestWhileEngaged'
  BY <1>1, <1>4 DEF LockInv, MP!RequestWhileEngaged, MP!Engaged, MP!NoRequest
<1>7. ArmedAwaits'
  <2>1. /\ l_time'[n] > 0
        /\ lock_wait_on'[n] = asked'[n]
        /\ \A m \in Node : m # n => /\ lock_wait_on'[m] = lock_wait_on[m]
                                    /\ asked'[m] = asked[m]
                                    /\ l_time'[m] = l_time[m]
    BY <1>1 DEF JoinTypeOK
  <2> QED BY <1>4, <2>1 DEF LockInv, ArmedAwaits
<1> QED BY <1>2, <1>3, <1>5, <1>6, <1>7 DEF LockInv

\* The sending of the REQUEST: from here on the request of the node stands.
LEMMA JoinLockSendKeeps ==
  ASSUME JoinLocalInv, NEW n \in Node, NEW t \in Thread, LockSend(n, t)
  PROVE  JoinLocalInv'
<1> USE DEF JoinLocalInv
<1>1. /\ lock_pc[n][t] = "arming"
      /\ lock_pc' = [lock_pc EXCEPT ![n][t] = "waiting"]
      /\ local_request' = [local_request EXCEPT ![n] = l_time[n]]
      /\ unawaited' = [unawaited EXCEPT ![n] = @ \cup (peers[n] \ asked[n])]
      /\ UNCHANGED <<peers, dobjVars, l_time, requests, lock_wait_on, local_mutex,
                     getVars, asked>>
  BY DEF LockSend, M!Goto
<1>2. /\ chan' \in JoinChannels
      /\ \A a, b \in Node :
           a # n \/ b \notin peers[n] => chan'[a][b] = chan[a][b]
  BY JoinRequestSent, ZenonT(60)
<1>3. JoinTypeOK'
  <2>1. /\ lock_pc' \in [Node -> [Thread -> LockStages]]
        /\ local_request' \in [Node -> Nat]
        /\ unawaited' \in [Node -> SUBSET Node]
    BY <1>1 DEF JoinTypeOK, LockStages
  <2> QED BY <1>1, <1>2, <2>1
      DEF JoinTypeOK, LockStages, JoinChannels, Messages, dobjVars, getVars
<1>4. GetInOrder' /\ OthersOnly'
  BY <1>1, <1>2, LockingFrame DEF OthersOnly
<1>5. \A m \in Node, u \in Thread :
        lock_pc'[m][u] = IF m = n /\ u = t THEN "waiting" ELSE lock_pc[m][u]
  BY <1>1 DEF JoinTypeOK
<1>6. MP!OwnerInside' /\ ArmedAwaits'
  BY <1>1, <1>5 DEF LockInv, MP!OwnerInside, ArmedAwaits
<1>7. MP!RequestWhileEngaged'
  <2>1. l_time[n] > 0 /\ l_time[n] \in Nat
    BY <1>1 DEF LockInv, ArmedAwaits, JoinTypeOK
  <2>2. /\ local_request'[n] # 0
        /\ \A m \in Node : m # n => local_request'[m] = local_request[m]
    BY <1>1, <2>1 DEF JoinTypeOK
  <2> QED
    BY <1>5, <2>2 DEF LockInv, MP!RequestWhileEngaged, MP!Engaged, MP!NoRequest
<1> QED BY <1>3, <1>4, <1>6, <1>7 DEF LockInv

\* The wait ends when nobody is awaited.
LEMMA JoinLockWaitKeeps ==
  ASSUME JoinLocalInv, NEW n \in Node, NEW t \in Thread, LockWait(n, t)
  PROVE  JoinLocalInv'
<1> USE DEF JoinLocalInv
<1>1. /\ lock_pc[n][t] = "waiting" /\ lock_wait_on[n] = {}
      /\ lock_pc' = [lock_pc EXCEPT ![n][t] = "held"]
      /\ UNCHANGED <<chan, peers, dobjVars, l_time, local_request, requests,
                     lock_wait_on, local_mutex, getVars, history>>
  BY DEF LockWait, M!LockWait, M!Goto
<1>2. JoinTypeOK'
  <2>1. lock_pc' \in [Node -> [Thread -> LockStages]]
    BY <1>1 DEF JoinTypeOK, LockStages
  <2> QED BY <1>1, <2>1
      DEF JoinTypeOK, LockStages, dobjVars, getVars, history
<1>3. GetInOrder' /\ OthersOnly'
  BY <1>1, LockingFrame DEF OthersOnly
<1>4. \A m \in Node, u \in Thread :
        lock_pc'[m][u] = IF m = n /\ u = t THEN "held" ELSE lock_pc[m][u]
  BY <1>1 DEF JoinTypeOK
<1>5. MP!OwnerInside' /\ ArmedAwaits' /\ MP!RequestWhileEngaged'
  BY <1>1, <1>4
  DEF LockInv, MP!OwnerInside, ArmedAwaits, MP!RequestWhileEngaged, MP!Engaged,
      MP!NoRequest, history
<1> QED BY <1>2, <1>3, <1>5 DEF LockInv

\* The critical part of unlock: the request is dropped, and who was put off gets a
\* reply.
LEMMA JoinUnlockReplyKeeps ==
  ASSUME JoinLocalInv, NEW n \in Node, NEW t \in Thread,
         M!UnlockReply(n, t), Unlock(n, t)
  PROVE  JoinLocalInv'
<1> USE DEF JoinLocalInv
<1>1. /\ lock_pc[n][t] = "held"
      /\ lock_pc' = [lock_pc EXCEPT ![n][t] = "unlocking"]
      /\ l_time' = [l_time EXCEPT ![n] = @ + Len(requests[n])]
      /\ requests' = [requests EXCEPT ![n] = << >>]
      /\ local_request' = [local_request EXCEPT ![n] = 0]
      /\ UNCHANGED <<peers, dobjVars, lock_wait_on, local_mutex, getVars, history>>
  BY DEF Unlock, M!UnlockReply, M!Goto, M!NoRequest
<1>2. /\ chan' \in JoinChannels
      /\ \A a, b \in Node :
           a # n \/ b \notin peers[n] => chan'[a][b] = chan[a][b]
  BY JoinRepliesSent
<1>3. Len(requests[n]) \in Nat
  BY DEF JoinTypeOK
<1>4. JoinTypeOK'
  <2>1. /\ lock_pc' \in [Node -> [Thread -> LockStages]]
        /\ l_time' \in [Node -> Nat]
        /\ local_request' \in [Node -> Nat]
        /\ requests' \in [Node -> Seq(M!RequestEntry)]
    BY <1>1, <1>3 DEF JoinTypeOK, LockStages
  <2> QED BY <1>1, <1>2, <2>1
      DEF JoinTypeOK, LockStages, JoinChannels, Messages, dobjVars, getVars, history
<1>5. GetInOrder' /\ OthersOnly'
  BY <1>1, <1>2, LockingFrame DEF OthersOnly
<1>6. \A m \in Node, u \in Thread :
        lock_pc'[m][u] = IF m = n /\ u = t THEN "unlocking" ELSE lock_pc[m][u]
  BY <1>1 DEF JoinTypeOK
<1>7. \A u \in Thread : u # t => lock_pc[n][u] = "idle"
  BY <1>1, OneLocker
<1>8. MP!OwnerInside'
  BY <1>1, <1>6 DEF LockInv, MP!OwnerInside
<1>9. MP!RequestWhileEngaged'
  <2>1. /\ local_request'[n] = 0
        /\ \A m \in Node : m # n => local_request'[m] = local_request[m]
    BY <1>1 DEF JoinTypeOK
  <2> QED BY <1>6, <1>7, <2>1
      DEF LockInv, MP!RequestWhileEngaged, MP!Engaged, MP!NoRequest
<1>10. ArmedAwaits'
  <2>1. /\ \A u \in Thread : lock_pc'[n][u] \in {"idle", "unlocking"}
        /\ lock_wait_on'[n] = {}
    BY <1>1, <1>6, <1>7 DEF LockInv, ArmedAwaits
  <2>2. \A m \in Node : m # n => l_time'[m] = l_time[m]
    BY <1>1 DEF JoinTypeOK
  <2> QED BY <1>1, <1>6, <2>1, <2>2 DEF LockInv, ArmedAwaits, history
<1> QED BY <1>4, <1>5, <1>8, <1>9, <1>10 DEF LockInv

\* The listener of n takes an object message of another node.
LEMMA JoinTaken ==
  ASSUME JoinLocalInv, NEW n \in Node, NEW p \in Node,
         chan[p][n] # << >>, Message(p, n).type \in {"REQUEST", "REPLY"}
  PROVE  /\ p # n
         /\ Message(p, n).l_time \in Nat
         /\ M!Clock(n, Message(p, n).l_time) \in Nat
         /\ M!Clock(n, Message(p, n).l_time) > Message(p, n).l_time
         /\ M!Clock(n, Message(p, n).l_time) > l_time[n]
<1>1. JoinTypeOK /\ p # n
  BY DEF JoinLocalInv, OthersOnly
<1>2. Message(p, n) \in Messages
  BY <1>1, JoinReceived DEF Message
<1>3. Message(p, n).l_time \in Nat
  BY <1>2, JoinForeign DEF Messages, M!AnyMessage, M!MutexMessage
<1>4. l_time[n] \in Nat
  BY <1>1 DEF JoinTypeOK
<1> QED BY <1>1, <1>3, <1>4 DEF M!Clock

\* A REQUEST is answered at once, and so to all peers,
LEMMA JoinRequestGranted ==
  ASSUME JoinLocalInv, NEW n \in Node, NEW p \in Node, NEW now \in Nat,
         now = M!Clock(n, Message(p, n).l_time), M!HandleRequest(n, p),
         M!ReplyAtOnce(n, M!Other(p, n))
  PROVE  /\ chan' \in JoinChannels
         /\ M!ReplyMsg(now + 1) \in Messages
         /\ M!ReplyMsg(now + 1).type = "REPLY"
         /\ l_time' = [l_time EXCEPT ![n] = now + 1]
         /\ requests' = requests
         /\ \A a, b \in Node :
              chan'[a][b] =
                IF a = p /\ b = n THEN Tail(chan[p][n])
                ELSE IF a = n /\ b \in peers[n]
                  THEN chan[a][b] \o <<M!ReplyMsg(now + 1)>>
                ELSE chan[a][b]
<1> DEFINE m == M!ReplyMsg(now + 1)
           ms == <<m>>
<1>1. JoinTypeOK /\ chan[p][n] # << >> /\ p # n
  BY DEF JoinLocalInv, OthersOnly, M!HandleRequest
<1>2. m \in Messages /\ m.type = "REPLY"
  BY DEF M!ReplyMsg, Messages, M!AnyMessage, M!MutexMessage
<1>3. /\ Received(p, n) \in JoinChannels
      /\ \A a, b \in Node :
           Received(p, n)[a][b] =
             IF a = p /\ b = n THEN Tail(chan[p][n]) ELSE chan[a][b]
  BY <1>1, JoinReceived
<1>4. M!Received(p, n) = Received(p, n) /\ M!Message(p, n) = Message(p, n)
  BY DEF M!Received, Received, M!Message, Message
<1>5. /\ l_time' = [l_time EXCEPT ![n] = now + 1]
      /\ requests' = requests
      /\ chan' = M!Sent(Received(p, n), n, ms)
  BY <1>4, Zenon DEF M!HandleRequest
<1> HIDE DEF m
<1>6. ms \in Seq(Messages)
  BY <1>2
<1> HIDE DEF ms
<1>7. /\ chan' \in JoinChannels
      /\ \A a, b \in Node :
           chan'[a][b] = IF a = n /\ b \in peers[n]
                           THEN Received(p, n)[a][b] \o ms
                           ELSE Received(p, n)[a][b]
  BY <1>1, <1>3, <1>5, <1>6, JoinSent
<1>8. \A a, b \in Node :
        chan'[a][b] =
          IF a = p /\ b = n THEN Tail(chan[p][n])
          ELSE IF a = n /\ b \in peers[n] THEN chan[a][b] \o ms
          ELSE chan[a][b]
  BY <1>1, <1>3, <1>7
<1> QED BY <1>2, <1>5, <1>7, <1>8 DEF m, ms

\* or put off.
LEMMA JoinRequestDeferred ==
  ASSUME JoinLocalInv, NEW n \in Node, NEW p \in Node, NEW now,
         now = M!Clock(n, Message(p, n).l_time), M!HandleRequest(n, p),
         ~ M!ReplyAtOnce(n, M!Other(p, n))
  PROVE  /\ l_time' = [l_time EXCEPT ![n] = now]
         /\ requests' = [requests EXCEPT ![n] = M!Insert(@, M!Other(p, n))]
         /\ chan' = Received(p, n)
<1>1. M!Received(p, n) = Received(p, n) /\ M!Message(p, n) = Message(p, n)
  BY DEF M!Received, Received, M!Message, Message
<1> QED BY <1>1, Zenon DEF M!HandleRequest

\* What is deferred stays a list of requests.
LEMMA JoinInsert ==
  ASSUME NEW s \in Seq(M!RequestEntry), NEW e \in M!RequestEntry
  PROVE  /\ M!Insert(s, e) \in Seq(M!RequestEntry)
         /\ s = << >> => M!Insert(s, e) = <<e>>
<1>1. M!Insert(s, e) = MP!Insert(s, e)
  <2>1. {k \in DOMAIN s : ~ M!Precedes(e, s[k])}
          = {k \in DOMAIN s : ~ MP!Precedes(e, s[k])}
    BY DEF M!Precedes, MP!Precedes
  <2>2. \A S : M!Cardinality(S) = MP!Cardinality(S)
    BY Zenon DEF M!Cardinality, MP!Cardinality
  <2> QED BY <2>1, <2>2, Zenon DEF M!Insert, MP!Insert
<1>2. MP!Insert(s, e) \in Seq(M!RequestEntry)
  BY MutexAssumptions, MP!InsertProperties
<1>3. MP!Insert(<< >>, e) = <<e>>
  BY MutexAssumptions, MP!InsertFirst
<1> QED BY <1>1, <1>2, <1>3

\* The handler of the mutex changes the clock, the deferred requests and what is
\* awaited of its node.
LEMMA JoinHandleKeeps ==
  ASSUME JoinLocalInv, NEW n \in Node, NEW p \in Node, HandleObjMsg(n, p)
  PROVE  JoinLocalInv'
<1> DEFINE m == Message(p, n)
           now == M!Clock(n, m.l_time)
<1> USE DEF JoinLocalInv
<1>1. /\ chan[p][n] # << >> /\ m.type \in {"REQUEST", "REPLY"}
      /\ \A t \in Thread : lock_pc[n][t] # "arming"
      /\ M!Handle(n, p)
      /\ UNCHANGED <<peers, dobjVars, local_request, local_mutex, lock_pc,
                     getVars, history>>
  BY DEF HandleObjMsg, TakesObjMsg, M!Message, Message, M!Handle,
         M!HandleRequest, M!HandleReply
<1>2. p # n /\ m.l_time \in Nat /\ now \in Nat /\ now > l_time[n]
  BY <1>1, JoinTaken
<1>3. /\ chan' \in JoinChannels
      /\ \A a \in Node : chan'[a][a] = chan[a][a]
      /\ \E time \in Nat : time >= l_time[n] /\ l_time' = [l_time EXCEPT ![n] = time]
      /\ requests' \in [Node -> Seq(M!RequestEntry)]
      /\ \E S \in SUBSET Node : lock_wait_on' = [lock_wait_on EXCEPT ![n] = S]
                               /\ S \subseteq lock_wait_on[n]
  <2>1. l_time[n] \in Nat /\ lock_wait_on \in [Node -> SUBSET Node]
    BY DEF JoinTypeOK
  <2>2. CASE M!HandleRequest(n, p)
    <3>1. lock_wait_on' = [lock_wait_on EXCEPT ![n] = lock_wait_on[n]]
      BY <2>1, <2>2 DEF M!HandleRequest
    <3>2. M!Other(p, n) \in M!RequestEntry
      BY <1>2 DEF M!Other, M!Message, Message, M!RequestEntry
    <3>3. M!Insert(requests[n], M!Other(p, n)) \in Seq(M!RequestEntry)
      BY <3>2, JoinInsert DEF JoinTypeOK
    <3> HIDE DEF m, now
    <3>4. /\ chan' \in JoinChannels
          /\ \A a \in Node : chan'[a][a] = chan[a][a]
          /\ l_time' \in {[l_time EXCEPT ![n] = now], [l_time EXCEPT ![n] = now + 1]}
          /\ requests' \in {requests,
                 [requests EXCEPT ![n] = M!Insert(@, M!Other(p, n))]}
      <4>1. n \notin peers[n]
        BY DEF OthersOnly
      <4>2. now = M!Clock(n, Message(p, n).l_time) /\ now \in Nat
        BY <1>2 DEF now, m
      <4>3. CASE M!ReplyAtOnce(n, M!Other(p, n))
        <5>1. /\ chan' \in JoinChannels
              /\ l_time' = [l_time EXCEPT ![n] = now + 1]
              /\ requests' = requests
              /\ \A a, b \in Node :
                   chan'[a][b] =
                     IF a = p /\ b = n THEN Tail(chan[p][n])
                     ELSE IF a = n /\ b \in peers[n]
                       THEN chan[a][b] \o <<M!ReplyMsg(now + 1)>>
                     ELSE chan[a][b]
          BY <2>2, <4>2, <4>3, JoinRequestGranted
        <5> QED BY <1>2, <4>1, <5>1
      <4>4. CASE ~ M!ReplyAtOnce(n, M!Other(p, n))
        <5>1. /\ l_time' = [l_time EXCEPT ![n] = now]
              /\ requests' = [requests EXCEPT ![n] = M!Insert(@, M!Other(p, n))]
              /\ chan' = Received(p, n)
          BY <2>2, <4>2, <4>4, JoinRequestDeferred
        <5> QED BY <1>1, <1>2, <5>1, JoinReceived
      <4> QED BY <4>3, <4>4
    <3>5. requests' \in [Node -> Seq(M!RequestEntry)]
      BY <3>3, <3>4, ZenonT(60) DEF JoinTypeOK
    <3>6. now >= l_time[n] /\ now + 1 >= l_time[n] /\ now + 1 \in Nat
      BY <1>2, <2>1
    <3> QED BY <1>2, <2>1, <3>1, <3>4, <3>5, <3>6
  <2>3. CASE M!HandleReply(n, p)
    <3>1. /\ l_time' = [l_time EXCEPT ![n] = now]
          /\ chan' = Received(p, n)
          /\ lock_wait_on' = [lock_wait_on EXCEPT ![n] = @ \ {p}]
          /\ requests' = requests
      BY <2>3 DEF M!HandleReply, M!Received, Received, M!Message, Message
    <3>2. now >= l_time[n]
      BY <1>2, <2>1
    <3> HIDE DEF m, now
    <3>3. chan' \in JoinChannels /\ \A a \in Node : chan'[a][a] = chan[a][a]
      BY <1>1, <1>2, <3>1, JoinReceived
    <3>4. lock_wait_on[n] \ {p} \in SUBSET Node
      BY <2>1
    <3> QED BY <1>2, <3>1, <3>2, <3>3, <3>4 DEF JoinTypeOK
  <2> QED BY <1>1, <2>2, <2>3 DEF M!Handle
<1> HIDE DEF m, now
<1>4. PICK time \in Nat, S \in SUBSET Node :
        /\ time >= l_time[n] /\ l_time' = [l_time EXCEPT ![n] = time]
        /\ lock_wait_on' = [lock_wait_on EXCEPT ![n] = S]
        /\ S \subseteq lock_wait_on[n]
  BY <1>3
<1>5. JoinTypeOK'
  <2>1. l_time' \in [Node -> Nat] /\ lock_wait_on' \in [Node -> SUBSET Node]
    BY <1>4 DEF JoinTypeOK
  <2> QED BY <1>1, <1>3, <2>1
      DEF JoinTypeOK, JoinChannels, Messages, dobjVars, getVars, history
<1>6. GetInOrder' /\ OthersOnly'
  BY <1>1, <1>3, LockingFrame DEF OthersOnly
<1>7. MP!OwnerInside' /\ MP!RequestWhileEngaged'
  BY <1>1 DEF LockInv, MP!OwnerInside, MP!RequestWhileEngaged, MP!Engaged,
              MP!NoRequest
<1>8. ArmedAwaits'
  <2>1. \A a \in Node : a # n => /\ l_time'[a] = l_time[a]
                                /\ lock_wait_on'[a] = lock_wait_on[a]
    BY <1>4 DEF JoinTypeOK
  <2>2. lock_wait_on'[n] \subseteq lock_wait_on[n]
    BY <1>4 DEF JoinTypeOK
  <2> QED BY <1>1, <2>1, <2>2 DEF LockInv, ArmedAwaits, history
<1> QED BY <1>5, <1>6, <1>7, <1>8 DEF LockInv

\* A node that does not have the mutex drops the message.
LEMMA JoinDropKeeps ==
  ASSUME JoinLocalInv, NEW n \in Node, NEW p \in Node, DropObjMsg(n, p)
  PROVE  JoinLocalInv' /\ QuietOnChannels
<1> USE DEF JoinLocalInv
<1>1. /\ chan[p][n] # << >> /\ chan' = Received(p, n)
      /\ UNCHANGED <<peers, dobjVars, mutexVars, getVars, history>>
  BY DEF DropObjMsg, TakesObjMsg, M!Received, Received
<1>2. p # n
  BY <1>1 DEF OthersOnly
<1>3. chan' \in JoinChannels /\ QuietOnChannels
  BY <1>1, QuietReceived
<1>4. \A a \in Node : chan'[a][a] = << >>
  BY <1>1, <1>2, JoinReceived DEF OthersOnly
<1>5. LockInv'
  BY <1>1, LockInvUnchanged DEF history
<1>6. JoinTypeOK'
  BY <1>1, <1>3
  DEF JoinTypeOK, JoinChannels, Messages, dobjVars, mutexVars, getVars, history
<1>7. GetInOrder' /\ OthersOnly'
  BY <1>1, <1>4, LockingFrame
<1> QED BY <1>3, <1>5, <1>6, <1>7

----------------------------------------------------------------------------
(***************************************************************************)
(* Two nodes that have settled                                             *)
(***************************************************************************)

\* The types that the proofs about a pair use.
LEMMA JoinTypes ==
  ASSUME JoinLocalInv
  PROVE  /\ chan \in JoinChannels
         /\ \A a, b \in Node : chan[a][b] \in Seq(Messages)
         /\ l_time \in [Node -> Nat]
         /\ local_request \in [Node -> Nat]
         /\ requests \in [Node -> Seq(M!RequestEntry)]
         /\ lock_wait_on \in [Node -> SUBSET Node]
         /\ asked \in [Node -> SUBSET Node]
         /\ unawaited \in [Node -> SUBSET Node]
BY DEF JoinLocalInv, JoinTypeOK, JoinChannels, Messages

\* There is a message of that type: with the Range of this module.
LEMMA CarriesDef ==
  ASSUME NEW s, NEW type
  PROVE  MP!Carries(s, type) <=> \E m \in Range(s) : m.type = type
BY DEF MP!Carries, MP!Range, Range

\* A step that takes at most messages of the two away, and moves the clock of j on,
\* keeps the pair.  A request that j makes then is stamped with that clock.
LEMMA PairQuiet ==
  ASSUME JoinLocalInv, NEW i \in Node, NEW j \in Node, SettledInv(i, j),
         Fewer(chan'[i][j], chan[i][j], "REQUEST"),
         Fewer(chan'[j][i], chan[j][i], "REPLY"),
         local_request'[i] = local_request[i],
         lock_wait_on'[i] = lock_wait_on[i], asked'[i] = asked[i],
         requests'[j] = requests[j],
         l_time'[j] \in Nat, l_time'[j] >= l_time[j],
         local_request'[j] \in {local_request[j], 0, l_time[j]}
  PROVE  SettledInv(i, j)'
<1>1. /\ MP!Pending(i, j)' => MP!Pending(i, j)
      /\ MP!Answered(i, j)' => MP!Answered(i, j)
      /\ MP!Deferred(j)' <=> MP!Deferred(j)
  BY CarriesDef DEF MP!Pending, MP!Answered, MP!Deferred, Fewer
<1>2. Awaits(i, j)' <=> Awaits(i, j)
  BY DEF Awaits
<1>3. GrantedTo(i, j)' => GrantedTo(i, j)
  BY <1>1 DEF GrantedTo
<1>4. OneRequest(i, j)'
  BY DEF SettledInv, OneRequest, Fewer, MP!RequestMsg
<1>5. InPlace(i, j)'
  BY <1>1, <1>2 DEF SettledInv, InPlace
<1>6. MP!Kept(i, j)'
  BY <1>1, JoinTypes DEF SettledInv, MP!Kept, MP!LocalRequest
<1>7. GrantAhead(i, j)'
  <2>1. /\ l_time[j] \in Nat /\ l_time'[j] \in Nat
        /\ local_request[i] \in Nat /\ local_request[j] \in Nat
    BY JoinTypes
  <2> QED BY <1>3, <2>1
      DEF SettledInv, GrantAhead, MP!Precedes, MP!LocalRequest
<1> QED BY <1>4, <1>5, <1>6, <1>7 DEF SettledInv

\* While i does not wait for j, nothing of its requests is on the way.
LEMMA PairNothing ==
  ASSUME NEW i \in Node, NEW j \in Node, SettledInv(i, j), ~ Awaits(i, j)
  PROVE  ~ MP!Pending(i, j) /\ ~ MP!Deferred(j) /\ ~ MP!Answered(i, j)
BY DEF SettledInv, InPlace

\* A thread that begins a lock or holds it is the only one of its node in there, so
\* the node awaits no reply to a request of its own.
LEMMA IdleAwaitsNothing ==
  ASSUME JoinLocalInv, NEW i \in Node, NEW j \in Node, NEW t \in Thread,
         lock_pc[i][t] \in {"locking", "arming", "held"}
  PROVE  ~ Awaits(i, j)
<1>1. \A u \in Thread : u # t => lock_pc[i][u] = "idle"
  BY OneLocker
<1>2. CASE lock_pc[i][t] = "held"
  BY <1>1, <1>2 DEF JoinLocalInv, LockInv, ArmedAwaits, Awaits
<1>3. CASE lock_pc[i][t] \in {"locking", "arming"}
  <2>1. local_request[i] = 0
    BY <1>1, <1>3
    DEF JoinLocalInv, LockInv, MP!RequestWhileEngaged, MP!Engaged, MP!NoRequest
  <2> QED BY <2>1 DEF Awaits
<1> QED BY <1>2, <1>3

\* A node that begins or ends its own lock has no request.
LEMMA PairIdle ==
  ASSUME NEW i \in Node, NEW j \in Node,
         SettledInv(i, j), ~ Awaits(i, j),
         Fewer(chan'[i][j], chan[i][j], "REQUEST"),
         Fewer(chan'[j][i], chan[j][i], "REPLY"),
         local_request'[i] = 0, requests'[j] = requests[j]
  PROVE  SettledInv(i, j)'
<1>1. ~ MP!Pending(i, j)' /\ ~ MP!Deferred(j)' /\ ~ MP!Answered(i, j)'
  BY PairNothing, CarriesDef DEF MP!Pending, MP!Answered, MP!Deferred, Fewer
<1>2. OneRequest(i, j)'
  BY <1>1, CarriesDef DEF SettledInv, OneRequest, Fewer, MP!Pending
<1>3. ~ GrantedTo(i, j)'
  BY <1>1 DEF GrantedTo
<1> QED BY <1>1, <1>2, <1>3
    DEF SettledInv, InPlace, MP!Kept, GrantAhead

\* i sends its request, to a peer whose reply it waits for.
LEMMA PairSend ==
  ASSUME JoinLocalInv, NEW i \in Node, NEW j \in Node, i # j,
         j \notin unawaited'[i], SettledInv(i, j),
         NEW t \in Thread, LockSend(i, t)
  PROVE  SettledInv(i, j)'
<1> DEFINE m == M!RequestMsg(l_time[i])
<1>1. /\ lock_pc[i][t] = "arming"
      /\ local_request' = [local_request EXCEPT ![i] = l_time[i]]
      /\ unawaited' = [unawaited EXCEPT ![i] = @ \cup (peers[i] \ asked[i])]
      /\ requests' = requests /\ lock_wait_on' = lock_wait_on /\ asked' = asked
  BY DEF LockSend, M!Goto
<1>2. lock_wait_on[i] = asked[i] /\ l_time[i] > 0
  BY <1>1 DEF JoinLocalInv, LockInv, ArmedAwaits
<1>3. ~ MP!Pending(i, j) /\ ~ MP!Deferred(j) /\ ~ MP!Answered(i, j)
  BY <1>1, IdleAwaitsNothing, PairNothing
<1>4. /\ m \in Messages /\ m.type = "REQUEST"
      /\ chan'[i][j] = IF j \in peers[i] THEN chan[i][j] \o <<m>> ELSE chan[i][j]
      /\ chan'[j][i] = chan[j][i]
  BY JoinRequestSent
<1>5. local_request'[i] = l_time[i] /\ l_time[i] \in Nat
  BY <1>1, JoinTypes
<1>6. m = MP!RequestMsg(l_time[i])
  BY DEF M!RequestMsg, MP!RequestMsg
<1> HIDE DEF m
<1>7. chan[i][j] \in Seq(Messages)
  BY JoinTypes
<1>8. ~ MP!Deferred(j)' /\ ~ MP!Answered(i, j)'
  BY <1>1, <1>3, <1>4 DEF MP!Deferred, MP!Answered
<1>9. ~ GrantedTo(i, j)'
  BY <1>1, <1>2, <1>8 DEF GrantedTo
<1>10. CASE j \in peers[i]
  <2>1. Awaits(i, j)'
    <3>1. j \in asked[i]
      BY <1>1, <1>10, JoinTypes
    <3> QED BY <1>1, <1>2, <1>5, <3>1 DEF Awaits
  <2>2. Range(chan'[i][j]) = Range(chan[i][j]) \cup {m}
    BY <1>4, <1>7, <1>10, FewerAppend
  <2>3. \A x \in Range(chan[i][j]) : x.type # "REQUEST"
    BY <1>3, CarriesDef DEF MP!Pending
  <2>4. MP!AtMostOne(chan'[i][j], "REQUEST")
    <3>1. MP!AtMostOne(chan[i][j], "REQUEST") /\ ~ MP!Carries(chan[i][j], "REQUEST")
      BY <1>3 DEF SettledInv, OneRequest, MP!Pending
    <3> QED BY <1>4, <1>7, <1>10, <3>1, SameMessages, MutexAssumptions,
               MP!AtMostOneAppend
  <2>5. OneRequest(i, j)'
    <3>1. \A x \in Range(chan'[i][j]) :
            x.type = "REQUEST" => x = MP!RequestMsg(local_request'[i])
      BY <1>5, <1>6, <2>2, <2>3
    <3> QED BY <1>4, <2>4, <3>1 DEF SettledInv, OneRequest, MP!RequestMsg
  <2> QED BY <1>8, <1>9, <2>1, <2>5
      DEF SettledInv, InPlace, MP!Kept, GrantAhead
<1>11. CASE j \notin peers[i]
  <2>1. chan'[i][j] = chan[i][j]
    BY <1>4, <1>11
  <2>2. ~ MP!Pending(i, j)'
    BY <1>3, <2>1 DEF MP!Pending
  <2>3. OneRequest(i, j)'
    BY <1>4, <2>1, <2>2, CarriesDef DEF SettledInv, OneRequest, MP!Pending
  <2> QED BY <1>8, <1>9, <2>2, <2>3
      DEF SettledInv, InPlace, MP!Kept, GrantAhead
<1> QED BY <1>10, <1>11

\* A reply of j to i goes on the way, when none of the two is owed any more.
LEMMA PairReplySent ==
  ASSUME JoinLocalInv, NEW i \in Node, NEW j \in Node, i # j,
         SettledInv(i, j), Awaits(i, j), ~ MP!Answered(i, j),
         NEW r \in Messages, r.type = "REPLY",
         Fewer(chan'[i][j], chan[i][j], "REQUEST"),
         ~ MP!Pending(i, j)', requests'[j] = << >>,
         chan'[j][i] \in {chan[j][i], chan[j][i] \o <<r>>},
         local_request'[i] = local_request[i],
         lock_wait_on'[i] = lock_wait_on[i], asked'[i] = asked[i],
         local_request[i] < l_time'[j],
         local_request'[j] # 0 =>
           MP!Precedes(MP!LocalRequest(i), MP!LocalRequest(j)')
  PROVE  SettledInv(i, j)'
<1>1. MP!AtMostOne(chan'[j][i], "REPLY")
  <2>1. /\ MP!AtMostOne(chan[j][i], "REPLY") /\ ~ MP!Carries(chan[j][i], "REPLY")
        /\ chan[j][i] \in Seq(Messages)
    BY JoinTypes DEF SettledInv, OneRequest, MP!Answered
  <2>2. MP!AtMostOne(chan[j][i] \o <<r>>, "REPLY")
    BY <2>1, SameMessages, MutexAssumptions, MP!AtMostOneAppend
  <2> QED BY <2>1, <2>2
<1>2. OneRequest(i, j)'
  BY <1>1 DEF SettledInv, OneRequest, Fewer, MP!RequestMsg
<1>3. InPlace(i, j)'
  BY DEF InPlace, Awaits, MP!Deferred
<1>4. MP!Kept(i, j)' /\ GrantAhead(i, j)'
  BY DEF MP!Kept, MP!Deferred, GrantAhead, MP!LocalRequest
<1> QED BY <1>2, <1>3, <1>4 DEF SettledInv

\* The handler of j finds the request of i.
LEMMA PairHandleRequest ==
  ASSUME JoinLocalInv, NEW i \in Node, NEW j \in Node, i # j,
         SettledInv(i, j), HandleObjMsg(j, i), M!HandleRequest(j, i)
  PROVE  SettledInv(i, j)'
<1> DEFINE m   == Message(i, j)
           now == M!Clock(j, m.l_time)
           r   == M!ReplyMsg(now + 1)
<1>1. /\ chan[i][j] # << >> /\ m.type = "REQUEST"
      /\ UNCHANGED <<local_request, lock_wait_on, asked>>
  BY DEF HandleObjMsg, M!HandleRequest, M!Message, Message, history
<1>2. chan[i][j] \in Seq(Messages)
  BY JoinTypes
<1>3. /\ m \in Range(chan[i][j])
      /\ Fewer(Tail(chan[i][j]), chan[i][j], "REQUEST")
      /\ ~ MP!Carries(Tail(chan[i][j]), "REQUEST")
  <2>1. m \in Range(chan[i][j])
    BY <1>1, <1>2, TailRange DEF Message
  <2>2. MP!AtMostOne(chan[i][j], "REQUEST")
    BY DEF SettledInv, OneRequest
  <2>3. ~ MP!Carries(Tail(chan[i][j]), "REQUEST")
    BY <1>1, <1>2, <2>2, SameMessages, MutexAssumptions, MP!AtMostOneTail
    DEF Message
  <2> QED BY <1>1, <1>2, <2>1, <2>3, FewerTail
<1>4. /\ m = MP!RequestMsg(local_request[i])
      /\ Awaits(i, j) /\ ~ MP!Deferred(j) /\ ~ MP!Answered(i, j)
  BY <1>1, <1>3, CarriesDef DEF SettledInv, OneRequest, InPlace, MP!Pending
<1>5. m.l_time = local_request[i] /\ M!Other(i, j) = MP!LocalRequest(i)
  BY <1>4 DEF MP!RequestMsg, M!Other, M!Message, Message, MP!LocalRequest
<1>6. now \in Nat /\ now > local_request[i] /\ now > l_time[j]
  BY <1>1, <1>5, JoinTaken
<1> HIDE DEF m
<1>7. now = M!Clock(j, Message(i, j).l_time)
  BY DEF m
<1> HIDE DEF now
<1>8. CASE M!ReplyAtOnce(j, M!Other(i, j))
  <2>1. /\ r \in Messages /\ r.type = "REPLY"
        /\ l_time' = [l_time EXCEPT ![j] = now + 1]
        /\ requests' = requests
        /\ chan'[i][j] = Tail(chan[i][j])
        /\ chan'[j][i] = IF i \in peers[j] THEN chan[j][i] \o <<r>>
                                           ELSE chan[j][i]
    BY <1>6, <1>7, <1>8, JoinRequestGranted
  <2> HIDE DEF r
  <2>2. requests'[j] = << >> /\ ~ MP!Pending(i, j)'
    BY <1>3, <1>4, <2>1 DEF MP!Deferred, MP!Pending
  <2>3. local_request[i] < l_time'[j]
    BY <1>6, <2>1, JoinTypes
  <2>4. local_request'[j] # 0 =>
          MP!Precedes(MP!LocalRequest(i), MP!LocalRequest(j)')
    <3>1. local_request[j] # 0 => M!Precedes(M!Other(i, j), M!LocalRequest(j))
      BY <1>8 DEF M!ReplyAtOnce, M!NoRequest
    <3> QED BY <1>1, <1>5, <3>1
        DEF M!Precedes, MP!Precedes, M!LocalRequest, MP!LocalRequest
  <2> QED BY <1>1, <1>3, <1>4, <2>1, <2>2, <2>3, <2>4, PairReplySent
<1>9. CASE ~ M!ReplyAtOnce(j, M!Other(i, j))
  <2>1. /\ l_time' = [l_time EXCEPT ![j] = now]
        /\ requests' = [requests EXCEPT ![j] = M!Insert(@, M!Other(i, j))]
        /\ chan' = Received(i, j)
    BY <1>7, <1>9, JoinRequestDeferred
  <2>2. /\ chan'[i][j] = Tail(chan[i][j])
        /\ chan'[j][i] = chan[j][i]
    BY <1>1, <2>1, JoinReceived DEF JoinLocalInv
  <2>3. requests'[j] = <<MP!LocalRequest(i)>>
    <3>1. MP!LocalRequest(i) \in M!RequestEntry
      BY JoinTypes DEF MP!LocalRequest, M!RequestEntry
    <3>2. requests[j] = << >> /\ requests[j] \in Seq(M!RequestEntry)
      BY <1>4, JoinTypes DEF MP!Deferred
    <3>3. requests'[j] = M!Insert(requests[j], MP!LocalRequest(i))
      BY <1>5, <2>1, JoinTypes
    <3> QED BY <3>1, <3>2, <3>3, JoinInsert
  <2>4. local_request[i] < l_time'[j]
    BY <1>6, <2>1, JoinTypes
  <2>5. ~ MP!Pending(i, j)' /\ ~ MP!Answered(i, j)' /\ Awaits(i, j)'
    BY <1>1, <1>3, <1>4, <2>2 DEF MP!Pending, MP!Answered, Awaits
  <2>6. OneRequest(i, j)'
    BY <1>1, <1>3, <2>2 DEF SettledInv, OneRequest, Fewer, MP!RequestMsg
  <2>7. MP!Kept(i, j)'
    BY <1>1, <2>3, <2>4 DEF MP!Kept, MP!LocalRequest
  <2> QED BY <2>5, <2>6, <2>7
      DEF SettledInv, InPlace, GrantAhead, GrantedTo, Awaits
<1> QED BY <1>8, <1>9

\* j unlocks, and replies if it has put the request of i off.
LEMMA PairUnlock ==
  ASSUME JoinLocalInv, NEW i \in Node, NEW j \in Node, i # j,
         SettledInv(i, j), NEW t \in Thread, M!UnlockReply(j, t), Unlock(j, t),
         l_time'[j] \in Nat
  PROVE  SettledInv(i, j)'
<1>1. /\ l_time' = [l_time EXCEPT ![j] = @ + Len(requests[j])]
      /\ requests' = [requests EXCEPT ![j] = << >>]
      /\ local_request' = [local_request EXCEPT ![j] = 0]
      /\ UNCHANGED <<lock_wait_on, asked>>
  BY DEF Unlock, M!UnlockReply, M!NoRequest, history
<1>2. /\ M!Replies(j) \in Seq(Messages)
      /\ Len(M!Replies(j)) = Len(requests[j])
      /\ chan'[i][j] = chan[i][j]
      /\ chan'[j][i] = IF i \in peers[j] THEN chan[j][i] \o M!Replies(j)
                                         ELSE chan[j][i]
  BY JoinRepliesSent
<1>3. /\ requests'[j] = << >> /\ local_request'[j] = 0
      /\ local_request'[i] = local_request[i]
      /\ l_time'[j] = l_time[j] + Len(requests[j]) /\ l_time[j] \in Nat
      /\ requests[j] \in Seq(M!RequestEntry) /\ chan[j][i] \in Seq(Messages)
  BY <1>1, JoinTypes
<1>4. CASE ~ MP!Deferred(j)
  <2>1. requests[j] = << >>
    BY <1>4 DEF MP!Deferred
  <2>2. M!Replies(j) = << >> /\ l_time'[j] = l_time[j]
    BY <1>2, <1>3, <2>1, EmptySeq
  <2>3. chan'[j][i] = chan[j][i]
    BY <1>2, <1>3, <2>2, ConcatEmptySeq
  <2> QED BY <1>1, <1>2, <1>3, <2>1, <2>2, <2>3, PairQuiet, FewerSame
<1>5. CASE MP!Deferred(j)
  <2> DEFINE r == M!ReplyMsg(l_time[j] + 1)
  <2>1. /\ requests[j] = <<MP!LocalRequest(i)>> /\ local_request[i] < l_time[j]
        /\ Awaits(i, j) /\ ~ MP!Answered(i, j) /\ ~ MP!Pending(i, j)
    BY <1>5 DEF SettledInv, MP!Kept, InPlace
  <2>2. M!Replies(j) = <<r>> /\ Len(requests[j]) = 1
    BY <2>1 DEF M!Replies
  <2>3. r \in Messages /\ r.type = "REPLY"
    BY <1>3 DEF M!ReplyMsg, Messages, M!AnyMessage, M!MutexMessage
  <2> HIDE DEF r
  <2>4. local_request[i] < l_time'[j]
    BY <1>3, <2>1, <2>2, JoinTypes
  <2>5. chan'[j][i] \in {chan[j][i], chan[j][i] \o <<r>>}
    BY <1>2, <2>2
  <2>6. ~ MP!Pending(i, j)' /\ Fewer(chan'[i][j], chan[i][j], "REQUEST")
    BY <1>2, <2>1, FewerSame DEF MP!Pending
  <2> QED BY <1>1, <1>3, <2>1, <2>3, <2>4, <2>5, <2>6, PairReplySent
<1> QED BY <1>4, <1>5

\* i gets the reply of j.
LEMMA PairHandleReply ==
  ASSUME JoinLocalInv, NEW i \in Node, NEW j \in Node, i # j,
         SettledInv(i, j), HandleObjMsg(i, j), M!HandleReply(i, j)
  PROVE  SettledInv(i, j)'
<1> DEFINE m == Message(j, i)
<1>1. /\ chan[j][i] # << >> /\ m.type = "REPLY"
      /\ l_time' = [l_time EXCEPT ![i] = M!Clock(i, m.l_time)]
      /\ chan' = Received(j, i)
      /\ lock_wait_on' = [lock_wait_on EXCEPT ![i] = @ \ {j}]
      /\ UNCHANGED <<local_request, requests, asked>>
  BY DEF HandleObjMsg, M!HandleReply, M!Received, Received, M!Message, Message,
         history
<1>2. chan[j][i] \in Seq(Messages) /\ MP!AtMostOne(chan[j][i], "REPLY")
  BY JoinTypes DEF SettledInv, OneRequest
<1>3. /\ MP!Carries(chan[j][i], "REPLY")
      /\ ~ MP!Carries(Tail(chan[j][i]), "REPLY")
      /\ Fewer(Tail(chan[j][i]), chan[j][i], "REPLY")
  <2>1. m \in Range(chan[j][i])
    BY <1>1, <1>2, TailRange DEF Message
  <2>2. ~ MP!Carries(Tail(chan[j][i]), "REPLY")
    BY <1>1, <1>2, SameMessages, MutexAssumptions, MP!AtMostOneTail DEF Message
  <2> QED BY <1>1, <1>2, <2>1, <2>2, FewerTail, CarriesDef
<1>4. /\ chan'[j][i] = Tail(chan[j][i])
      /\ chan'[i][j] = chan[i][j]
      /\ l_time'[j] = l_time[j]
  BY <1>1, JoinReceived, JoinTypes DEF JoinLocalInv
<1>5. MP!Answered(i, j) /\ ~ MP!Pending(i, j) /\ ~ MP!Deferred(j)
  BY <1>3 DEF SettledInv, InPlace, MP!Answered
<1>6. ~ MP!Answered(i, j)' /\ ~ MP!Pending(i, j)' /\ ~ MP!Deferred(j)'
  BY <1>1, <1>3, <1>4, <1>5 DEF MP!Answered, MP!Pending, MP!Deferred
<1>7. OneRequest(i, j)'
  BY <1>1, <1>3, <1>4 DEF SettledInv, OneRequest, Fewer, MP!RequestMsg
<1>8. GrantAhead(i, j)'
  BY <1>1, <1>4, <1>5
  DEF SettledInv, GrantAhead, GrantedTo, MP!Precedes, MP!LocalRequest
<1> QED BY <1>6, <1>7, <1>8 DEF SettledInv, InPlace, MP!Kept

\* The handler of i finds a request of j: the reply is none of the messages that
\* the pair (i, j) is about.
LEMMA PairAnswers ==
  ASSUME JoinLocalInv, NEW i \in Node, NEW j \in Node, i # j,
         HandleObjMsg(i, j), M!HandleRequest(i, j)
  PROVE  /\ Fewer(chan'[i][j], chan[i][j], "REQUEST")
         /\ Fewer(chan'[j][i], chan[j][i], "REPLY")
         /\ \A a \in Node : a # i => /\ requests'[a] = requests[a]
                                   /\ l_time'[a] = l_time[a]
<1> DEFINE now == M!Clock(i, Message(j, i).l_time)
           r   == M!ReplyMsg(now + 1)
<1>1. chan[j][i] # << >> /\ Message(j, i).type = "REQUEST"
  BY DEF M!HandleRequest, M!Message, Message
<1>2. now \in Nat
  BY <1>1, JoinTaken
<1>3. chan[j][i] \in Seq(Messages) /\ chan[i][j] \in Seq(Messages)
  BY JoinTypes
<1>4. Fewer(Tail(chan[j][i]), chan[j][i], "REPLY")
  BY <1>1, <1>3, FewerTail
<1> HIDE DEF now
<1>5. now = M!Clock(i, Message(j, i).l_time)
  BY DEF now
<1>6. CASE M!ReplyAtOnce(i, M!Other(j, i))
  <2>1. /\ r \in Messages /\ r.type = "REPLY"
        /\ l_time' = [l_time EXCEPT ![i] = now + 1]
        /\ requests' = requests
        /\ chan'[j][i] = Tail(chan[j][i])
        /\ chan'[i][j] = IF j \in peers[i] THEN chan[i][j] \o <<r>>
                                           ELSE chan[i][j]
    BY <1>2, <1>5, <1>6, JoinRequestGranted
  <2> HIDE DEF r
  <2>2. Fewer(chan[i][j] \o <<r>>, chan[i][j], "REQUEST")
    BY <1>3, <2>1, FewerAppend
  <2> QED BY <1>4, <2>1, <2>2, FewerSame, JoinTypes
<1>7. CASE ~ M!ReplyAtOnce(i, M!Other(j, i))
  <2>1. /\ l_time' = [l_time EXCEPT ![i] = now]
        /\ requests' = [requests EXCEPT ![i] = M!Insert(@, M!Other(j, i))]
        /\ chan' = Received(j, i)
    BY <1>5, <1>7, JoinRequestDeferred
  <2>2. chan'[j][i] = Tail(chan[j][i]) /\ chan'[i][j] = chan[i][j]
    BY <1>1, <2>1, JoinReceived DEF JoinLocalInv
  <2> QED BY <1>4, <2>1, <2>2, FewerSame, JoinTypes
<1> QED BY <1>6, <1>7

\* The steps that are about the lock of the node itself.
LEMMA PairLocking ==
  ASSUME JoinLocalInv, JoinLocalInv', NEW i \in Node, NEW j \in Node, i # j,
         j \notin unawaited'[i], SettledInv(i, j),
         NEW n \in {i, j}, NEW t \in Thread, Lock(n, t) \/ Unlock(n, t)
  PROVE  SettledInv(i, j)'
<1>0. n \in Node /\ l_time[j] \in Nat /\ l_time'[j] \in Nat
  BY DEF JoinLocalInv, JoinTypeOK
<1>1. CASE UNCHANGED <<chan, l_time, local_request, requests, lock_wait_on, asked>>
  BY <1>0, <1>1, PairQuiet, FewerSame
<1>2. CASE LockArm(n, t)
  <2>1. /\ lock_pc[n][t] = "locking"
        /\ l_time' = [l_time EXCEPT ![n] = @ + 1]
        /\ \A a \in Node : a # n => /\ lock_wait_on'[a] = lock_wait_on[a]
                                  /\ asked'[a] = asked[a]
        /\ UNCHANGED <<chan, local_request, requests>>
    BY <1>2, JoinTypes DEF LockArm, M!Goto
  <2>2. CASE n = i
    <3>1. ~ Awaits(i, j) /\ local_request[i] = 0
      <4>1. \A u \in Thread : u # t => lock_pc[i][u] = "idle"
        BY <2>1, <2>2, OneLocker
      <4>2. local_request[i] = 0
        BY <2>1, <2>2, <4>1
        DEF JoinLocalInv, LockInv, MP!RequestWhileEngaged, MP!Engaged, MP!NoRequest
      <4> QED BY <4>2 DEF Awaits
    <3> QED BY <2>1, <3>1, PairIdle, FewerSame
  <2>3. CASE n = j
    <3>1. l_time'[j] >= l_time[j]
      BY <1>0, <2>1, <2>3, JoinTypes
    <3> QED BY <1>0, <2>1, <2>3, <3>1, PairQuiet, FewerSame
  <2> QED BY <2>2, <2>3
<1>3. CASE LockSend(n, t)
  <2>1. CASE n = i
    BY <1>3, <2>1, PairSend
  <2>2. CASE n = j
    <3> DEFINE m == M!RequestMsg(l_time[j])
    <3>1. /\ local_request' = [local_request EXCEPT ![j] = l_time[j]]
          /\ UNCHANGED <<l_time, requests, lock_wait_on, asked>>
      BY <1>3, <2>2 DEF LockSend
    <3>2. /\ m \in Messages /\ m.type = "REQUEST"
          /\ chan'[j][i] = IF i \in peers[j] THEN chan[j][i] \o <<m>>
                                             ELSE chan[j][i]
          /\ chan'[i][j] = chan[i][j]
      BY <1>3, <2>2, JoinRequestSent
    <3> HIDE DEF m
    <3>3. Fewer(chan'[j][i], chan[j][i], "REPLY")
      <4>1. chan[j][i] \in Seq(Messages)
        BY JoinTypes
      <4>2. Fewer(chan[j][i] \o <<m>>, chan[j][i], "REPLY")
        BY <3>2, <4>1, FewerAppend
      <4> QED BY <3>2, <4>2, FewerSame
    <3>4. /\ local_request'[i] = local_request[i]
          /\ local_request'[j] = l_time[j]
      BY <3>1, JoinTypes
    <3> QED BY <1>0, <3>1, <3>2, <3>3, <3>4, PairQuiet, FewerSame
  <2> QED BY <2>1, <2>2
<1>4. CASE M!UnlockReply(n, t) /\ Unlock(n, t)
  <2>1. CASE n = i
    <3>1. /\ lock_pc[i][t] = "held"
          /\ requests' = [requests EXCEPT ![i] = << >>]
          /\ local_request' = [local_request EXCEPT ![i] = 0]
      BY <1>4, <2>1 DEF M!UnlockReply, M!Goto, M!NoRequest
    <3>2. /\ M!Replies(i) \in Seq(Messages)
          /\ \A m \in Range(M!Replies(i)) : m.type # "REQUEST"
          /\ chan'[j][i] = chan[j][i]
          /\ chan'[i][j] = IF j \in peers[i] THEN chan[i][j] \o M!Replies(i)
                                             ELSE chan[i][j]
      BY <1>4, <2>1, JoinRepliesSent
    <3>3. Fewer(chan'[i][j], chan[i][j], "REQUEST")
      <4>1. chan[i][j] \in Seq(Messages)
        BY JoinTypes
      <4>2. Fewer(chan[i][j] \o M!Replies(i), chan[i][j], "REQUEST")
        BY <3>2, <4>1, FewerConcat
      <4> QED BY <3>2, <4>2, FewerSame
    <3>4. local_request'[i] = 0 /\ requests'[j] = requests[j] /\ ~ Awaits(i, j)
      BY <3>1, JoinTypes, IdleAwaitsNothing
    <3> QED BY <3>2, <3>3, <3>4, PairIdle, FewerSame
  <2>2. CASE n = j
    BY <1>0, <1>4, <2>2, PairUnlock
  <2> QED BY <2>1, <2>2
<1> QED
  BY <1>1, <1>2, <1>3, <1>4
  DEF Lock, LockLocal, M!LockLocal, LockWait, M!LockWait, Unlock, M!Unlock,
      M!UnlockLocal, history

\* Every step keeps what holds in any group.
LEMMA JoinLocalStep ==
  ASSUME JoinLocalInv, [JoinNext]_joinVars
  PROVE  JoinLocalInv'
<1>1. ASSUME NEW n \in Node, NEW t \in GetThread[n], MutexGet(n, t)
      PROVE  JoinLocalInv'
  BY <1>1, GetThreadAssumption, JoinGetKeeps, JoinInitKeeps DEF MutexGet
<1>2. ASSUME NEW n \in Node, NEW t \in Thread, Lock(n, t)
      PROVE  JoinLocalInv'
  <2>1. CASE LockLocal(n, t)
    BY <2>1, JoinLocalMutex
  <2>2. CASE LockArm(n, t)
    BY <2>2, JoinLockArmKeeps
  <2>3. CASE LockSend(n, t)
    BY <2>3, JoinLockSendKeeps
  <2>4. CASE LockWait(n, t)
    BY <2>4, JoinLockWaitKeeps
  <2> QED BY <1>2, <2>1, <2>2, <2>3, <2>4 DEF Lock
<1>3. ASSUME NEW n \in Node, NEW t \in Thread, Unlock(n, t)
      PROVE  JoinLocalInv'
  BY <1>3, JoinLocalMutex, JoinUnlockReplyKeeps DEF Unlock, M!Unlock
<1>4. ASSUME NEW n \in Node, JoinListen(n)
      PROVE  JoinLocalInv'
  BY <1>4, JoinListenGetKeeps, JoinHandleKeeps, JoinDropKeeps DEF JoinListen
<1>5. CASE UNCHANGED joinVars
  <2>1. /\ UNCHANGED <<chan, peers, dobjVars, mutexVars, getVars, history>>
        /\ UNCHANGED asked
    BY <1>5 DEF joinVars, history
  <2>2. JoinTypeOK'
    BY <2>1 DEF JoinLocalInv, JoinTypeOK, dobjVars, mutexVars, getVars, history
  <2>3. GetInOrder' /\ OthersOnly'
    BY <2>1 DEF JoinLocalInv, GetInOrder, OthersOnly, dobjVars, getVars
  <2>4. LockInv'
    BY <2>1, LockInvUnchanged DEF JoinLocalInv
  <2> QED BY <2>2, <2>3, <2>4 DEF JoinLocalInv
<1> QED BY <1>1, <1>2, <1>3, <1>4, <1>5 DEF JoinNext

\* With a third node a reply counts for nodes that it is not meant for: the REPLY of
\* edsm_mutex_unlock and of the handler goes to every peer (mutex.c:14-24).
AtMostTwoNodes == \A a, b, c \in Node : a = b \/ a = c \/ b = c

\* Every step keeps the pair, as long as i waits for the reply of j.
LEMMA JoinPairStep ==
  ASSUME AtMostTwoNodes, JoinInv, JoinLocalInv', [JoinNext]_joinVars,
         NEW i \in Node, NEW j \in Node, i # j, j \notin unawaited'[i]
  PROVE  SettledInv(i, j)'
<1>0. /\ JoinLocalInv /\ l_time[j] \in Nat /\ l_time'[j] \in Nat
      /\ \A n \in Node : n \in {i, j}
  BY ZenonT(60) DEF JoinInv, JoinLocalInv, JoinTypeOK, AtMostTwoNodes
<1>1. unawaited[i] \subseteq unawaited'[i]
  <2>1. \/ unawaited' = unawaited
        \/ \E n \in Node : \E S : unawaited' = [unawaited EXCEPT ![n] = @ \cup S]
    BY DEF JoinNext, MutexGet, MutexGetDobj, MutexGetTest, MutexGetInit, Lock,
           LockLocal, LockArm, LockSend, LockWait, Unlock, JoinListen, ListenGet,
           HandleObjMsg, DropObjMsg, joinVars, history
  <2> QED BY <1>0, <2>1, JoinTypes
<1>2. SettledInv(i, j)
  BY <1>1 DEF JoinInv
<1>3. ASSUME QuietOnChannels, UNCHANGED <<mutexVars, asked>>
      PROVE  SettledInv(i, j)'
  <2>1. /\ Fewer(chan'[i][j], chan[i][j], "REQUEST")
        /\ Fewer(chan'[j][i], chan[j][i], "REPLY")
    BY <1>3 DEF QuietOnChannels
  <2> QED BY <1>0, <1>2, <1>3, <2>1, PairQuiet DEF mutexVars
<1>4. ASSUME NEW n \in Node, NEW t \in GetThread[n], MutexGet(n, t)
      PROVE  SettledInv(i, j)'
  <2>1. t \in Thread
    BY GetThreadAssumption
  <2>2. QuietOnChannels
    BY <1>0, <1>4, <2>1, JoinGetKeeps, JoinInitKeeps DEF MutexGet
  <2> QED BY <1>3, <1>4, <2>2
      DEF MutexGet, MutexGetDobj, MutexGetTest, MutexGetInit, history
<1>5. ASSUME NEW n \in Node, NEW t \in Thread, Lock(n, t) \/ Unlock(n, t)
      PROVE  SettledInv(i, j)'
  BY <1>0, <1>2, <1>5, PairLocking
<1>6. ASSUME NEW n \in Node, ListenGet(n)
      PROVE  SettledInv(i, j)'
  BY <1>0, <1>3, <1>6, JoinListenGetKeeps DEF ListenGet, history
<1>7. ASSUME NEW n \in Node, NEW p \in Node, DropObjMsg(n, p)
      PROVE  SettledInv(i, j)'
  BY <1>0, <1>3, <1>7, JoinDropKeeps DEF DropObjMsg, history
<1>8. ASSUME NEW n \in Node, NEW p \in Node, HandleObjMsg(n, p)
      PROVE  SettledInv(i, j)'
  <2>1. chan[p][n] # << >> /\ M!Handle(n, p) /\ n # p
    BY <1>0, <1>8
    DEF HandleObjMsg, TakesObjMsg, JoinLocalInv, OthersOnly
  <2>2. UNCHANGED <<local_request, asked>>
    BY <1>8 DEF HandleObjMsg, M!Handle, M!HandleRequest, M!HandleReply, history
  <2>3. CASE n = j /\ M!HandleRequest(n, p)
    BY <1>0, <1>2, <1>8, <2>1, <2>3, PairHandleRequest
  <2>4. CASE n = i /\ M!HandleReply(n, p)
    BY <1>0, <1>2, <1>8, <2>1, <2>4, PairHandleReply
  <2>5. CASE n = i /\ M!HandleRequest(n, p)
    <3>1. p = j
      BY <1>0, <2>1, <2>5
    <3>2. /\ Fewer(chan'[i][j], chan[i][j], "REQUEST")
          /\ Fewer(chan'[j][i], chan[j][i], "REPLY")
          /\ requests'[j] = requests[j] /\ l_time'[j] = l_time[j]
      BY <1>0, <1>8, <2>5, <3>1, PairAnswers
    <3>3. lock_wait_on' = lock_wait_on
      BY <2>5 DEF M!HandleRequest
    <3> QED BY <1>0, <1>2, <2>2, <3>2, <3>3, PairQuiet
  <2>6. CASE n = j /\ M!HandleReply(n, p)
    <3>1. p = i
      BY <1>0, <2>1, <2>6
    <3>2. /\ l_time' = [l_time EXCEPT ![j] = M!Clock(j, Message(i, j).l_time)]
          /\ chan' = Received(i, j)
          /\ lock_wait_on' = [lock_wait_on EXCEPT ![j] = @ \ {i}]
          /\ requests' = requests
          /\ Message(i, j).type = "REPLY"
      BY <2>6, <3>1 DEF M!HandleReply, M!Received, Received, M!Message, Message
    <3>3. QuietOnChannels
      BY <1>0, <2>1, <2>6, <3>1, <3>2, QuietReceived DEF JoinLocalInv
    <3>4. /\ Fewer(chan'[i][j], chan[i][j], "REQUEST")
          /\ Fewer(chan'[j][i], chan[j][i], "REPLY")
      BY <3>3 DEF QuietOnChannels
    <3>5. /\ M!Clock(j, Message(i, j).l_time) \in Nat
          /\ M!Clock(j, Message(i, j).l_time) > l_time[j]
      BY <1>0, <2>1, <2>6, <3>1, <3>2, JoinTaken
    <3>6. l_time'[j] >= l_time[j] /\ lock_wait_on'[i] = lock_wait_on[i]
      BY <1>0, <3>2, <3>5, JoinTypes
    <3> QED BY <1>0, <1>2, <2>2, <3>2, <3>4, <3>6, PairQuiet
  <2> QED BY <1>0, <2>1, <2>3, <2>4, <2>5, <2>6 DEF M!Handle
<1>9. CASE UNCHANGED joinVars
  BY <1>3, <1>9, QuietUnchanged DEF joinVars, history
<1> QED BY <1>4, <1>5, <1>6, <1>7, <1>8, <1>9 DEF JoinNext, JoinListen

\* At first there is no message, no request and no get.
LEMMA JoinStart == JoinInit => JoinInv
<1> SUFFICES ASSUME JoinInit PROVE JoinInv
  OBVIOUS
<1>1. /\ \A a, b \in Node : chan[a][b] = << >>
      /\ local_request = [n \in Node |-> 0]
      /\ requests = [n \in Node |-> << >>]
      /\ lock_wait_on = [n \in Node |-> {}]
      /\ lock_pc = [n \in Node |-> [t \in Thread |-> "idle"]]
  BY DEF JoinInit, Init, M!MutexInit, M!NoRequest
<1>2. JoinTypeOK
  BY DEF JoinInit, Init, M!MutexInit, M!NoRequest, JoinTypeOK
<1>3. GetInOrder /\ OthersOnly
  BY <1>1 DEF JoinInit, Init, GetInOrder, OthersOnly
<1>4. LockInv
  BY <1>1 DEF LockInv, MP!OwnerInside, MP!RequestWhileEngaged, MP!Engaged,
              MP!NoRequest, ArmedAwaits
<1>5. ASSUME NEW i \in Node, NEW j \in Node
      PROVE  SettledInv(i, j)
  <2>1. DOMAIN chan[i][j] = {} /\ DOMAIN chan[j][i] = {}
    BY <1>1
  <2>2. ~ MP!Pending(i, j) /\ ~ MP!Deferred(j) /\ ~ MP!Answered(i, j)
    BY <1>1, <2>1, CarriesDef DEF MP!Pending, MP!Deferred, MP!Answered, Range
  <2>3. OneRequest(i, j)
    BY <2>1 DEF OneRequest, MP!AtMostOne, Range
  <2> QED BY <1>1, <2>2, <2>3
      DEF SettledInv, InPlace, MP!Kept, GrantAhead, GrantedTo
<1> QED BY <1>2, <1>3, <1>4, <1>5 DEF JoinInv, JoinLocalInv

\* Every variable of the join has its type, whatever the number of nodes.
THEOREM JoinTypeCorrect == JoinSpec => []JoinTypeOK
<1>1. JoinInit => JoinLocalInv
  BY JoinStart DEF JoinInv
<1>2. JoinLocalInv /\ [JoinNext]_joinVars => JoinLocalInv'
  BY JoinLocalStep
<1>3. JoinLocalInv => JoinTypeOK
  BY DEF JoinLocalInv
<1> QED BY <1>1, <1>2, <1>3, PTL DEF JoinSpec

\* The invariant of two nodes.
LEMMA JoinInvariant == ASSUME AtMostTwoNodes PROVE JoinSpec => []JoinInv
<1>1. JoinInv /\ [JoinNext]_joinVars => JoinInv'
  <2> SUFFICES ASSUME JoinInv, [JoinNext]_joinVars PROVE JoinInv'
    OBVIOUS
  <2>1. JoinLocalInv'
    BY JoinLocalStep DEF JoinInv
  <2>2. ASSUME NEW i \in Node, NEW j \in Node, i # j, j \notin unawaited'[i]
        PROVE  SettledInv(i, j)'
    BY <2>1, <2>2, JoinPairStep
  <2> QED BY <2>1, <2>2 DEF JoinInv
<1> QED BY <1>1, JoinStart, PTL DEF JoinSpec

\* Two nodes exclude each other from the first lock on that each of them waits for
\* the other with, however the mutex was made and whoever locked it before; unless
\* a node has sent the other a REQUEST whose reply it did not wait for.
THEOREM SettledNodesExclude ==
  ASSUME AtMostTwoNodes
  PROVE  JoinSpec => []SettledExclusion
<1>1. ASSUME JoinInv, NEW m \in Node, NEW n \in Node,
             NEW s \in Thread, NEW t \in Thread,
             m # n, lock_pc[m][s] = "held", lock_pc[n][t] = "held",
             m \in asked[n] \ unawaited[n], n \in asked[m] \ unawaited[m]
      PROVE  FALSE
  <2>1. JoinLocalInv /\ SettledInv(m, n) /\ SettledInv(n, m)
    BY <1>1 DEF JoinInv
  <2>2. ~ Awaits(m, n) /\ ~ Awaits(n, m)
    BY <1>1, <2>1, IdleAwaitsNothing
  <2>3. local_request[m] # 0 /\ local_request[n] # 0
    BY <1>1, <2>1
    DEF JoinLocalInv, LockInv, MP!RequestWhileEngaged, MP!Engaged, MP!NoRequest
  <2>4. GrantedTo(m, n) /\ GrantedTo(n, m)
    BY <1>1, <2>2, <2>3 DEF GrantedTo, Awaits
  <2>5. /\ MP!Precedes(MP!LocalRequest(m), MP!LocalRequest(n))
        /\ MP!Precedes(MP!LocalRequest(n), MP!LocalRequest(m))
    BY <2>1, <2>3, <2>4 DEF SettledInv, GrantAhead
  <2> QED BY <1>1, <2>1, <2>5, JoinTypes, NodeAssumption
      DEF MP!Precedes, MP!LocalRequest
<1>2. JoinInv => SettledExclusion
  BY <1>1 DEF SettledExclusion
<1> QED BY <1>2, JoinInvariant, PTL
=============================================================================

------------------------- MODULE LockedMemoryProofs -------------------------
(***************************************************************************)
(* Theorems about LockedMemory: between two nodes the holder of the mutex  *)
(* reads the newest value of what the mutex protects, wherever it was      *)
(* written.                                                                *)
(*                                                                         *)
(* As in ObjectIdsProofs the mutex is not proved again: MP is MutexProofs  *)
(* on the connections that the two modules share, with the diffs as what   *)
(* is foreign to the mutex.                                                *)
(***************************************************************************)
EXTENDS LockedMemory, FiniteSetTheorems, SequenceTheorems, TLAPS

MP == INSTANCE MutexProofs WITH Foreign <- Mem!Diff

----------------------------------------------------------------------------
(***************************************************************************)
(* The inductive invariant                                                 *)
(***************************************************************************)

\* The changes of a diff that brings the value v of the counter.
OneByte(v) == [offset |-> 0, length |-> 1, bytes |-> <<v>>]
Changed(v) == [pg \in {Counter} |-> {OneByte(v)}]

\* A diff has one section, and brings a value.
IsUpdate(m) == \E v \in Mem!Value : m.pages = Changed(v)
Brought(m)  == Mem!Brought(m, Counter, 0)

\* The values that the connection s carries.
Updates(s) == {Brought(m) : m \in {x \in Range(s) : x.type = "DIFF"}}

\* Diffs arrive in the order of their values, and ahead of the reply with which
\* their sender gives up the mutex.
InOrder(s) ==
  \A k, l \in DOMAIN s :
    s[k].type = "DIFF" /\ s[l].type = "DIFF" /\ k < l
    => Brought(s[k]) < Brought(s[l])

AheadOfReply(s) ==
  \A k, l \in DOMAIN s : s[k].type = "REPLY" /\ s[l].type = "DIFF" => l < k

AllUpdates(s) == \A m \in Range(s) : m.type = "DIFF" => IsUpdate(m)

\* The value that n has, or will have when it is done with the diff it applies.
Seen(n) == Mem!Applied(n, Counter)[0]

\* What a thread does to the region fits where it is in lock and unlock.
WritesUnderLock ==
  \A n \in Node, t \in Thread :
    /\ stage[n][t] # "in" => pc[n][t] = "held"
    /\ faulting[n][t] # {} => pc[n][t] = "held" /\ stage[n][t] = "in"
    /\ unsent[n][t] # {} => stage[n][t] = "ending"
    /\ t \in diffing[n] => unsent[n][t] # {}

\* A thread in diff_region that has not compared the page yet.
Comparing(n, t) == t \in diffing[n] /\ Counter \in Mem!Twinned(n)

\* There is a twin only for a holder that has not made its diff yet, and then the
\* page differs from it exactly when the holder has stored.
TwinsOfHolder ==
  \A n \in Node :
    /\ writable[n] = Mem!Twinned(n) \ halfway[n]
    /\ halfway[n] \subseteq Mem!Twinned(n)
    /\ diffing[n] = {} => halfway[n] = {}
    /\ Mem!Twinned(n) # {} => \E t \in Thread :
         pc[n][t] = "held" /\ (stage[n][t] \in {"in", "stored"} \/ t \in diffing[n])
    /\ \A t \in Thread :
         /\ pc[n][t] = "held" /\ stage[n][t] = "in" /\ Counter \in Mem!Twinned(n)
            => twins[n][Counter] = memory[n][Counter]
         /\ stage[n][t] = "stored" => Counter \in Mem!Twinned(n)
         /\ stage[n][t] = "stored" \/ Comparing(n, t)
            => twins[n][Counter][0] # memory[n][Counter][0]

\* The diff that is made and not sent brings the value of the page, from the
\* comparison on.
UnsentBrings ==
  \A n \in Node, t \in Thread :
    /\ \A d \in unsent[n][t] :
         IF Comparing(n, t) THEN d.pages = Mem!NoChanges
                            ELSE IsUpdate(d) /\ Brought(d) = Value(n)
    /\ \A d, e \in unsent[n][t] : d = e

\* n has incremented the counter and has not told anyone.
Untold(n) ==
  \E t \in Thread : stage[n][t] = "stored" \/ unsent[n][t] # {}

CopiesTrail == \A n \in Node : Seen(n) <= count

\* What is on the way is news to the receiver.
DiffsAreNews(p, n) ==
  /\ InOrder(chan[p][n]) /\ AheadOfReply(chan[p][n]) /\ AllUpdates(chan[p][n])
  /\ \A v \in Updates(chan[p][n]) : v \in Nat /\ Seen(n) < v /\ v <= count

\* Nobody has seen the value that a holder is about to send.
UntoldIsNewest(p, n) ==
  Untold(p) =>
    /\ Seen(p) = count
    /\ Seen(n) < count
    /\ count \notin Updates(chan[p][n])

\* A copy that is behind has the newest value on its way, or not yet sent.
Catching(p, n) ==
  Seen(n) = count \/ Untold(p) \/ count \in Updates(chan[p][n])

\* Once the reply of p has been received no diff of p is on the way, and none is
\* being applied.
Heard(p, n) ==
  local_request[n] # 0 /\ p \notin wait_on[n]
  => Updates(chan[p][n]) = {} /\ applying[n] = Mem!NoChanges

TwinsTypeOK ==
  /\ twins = [n \in Node |-> twins[n]]
  /\ \A n \in Node : /\ Mem!Twinned(n) \subseteq {Counter}
                     /\ twins[n] \in [Mem!Twinned(n) -> Mem!Content]

ApplyingTypeOK ==
  /\ applying \in [Node -> [{Counter} -> SUBSET Mem!Section]]
  /\ \A n \in Node : applying[n] = Mem!NoChanges
                     \/ \E v \in Mem!Value : applying[n] = Changed(v)

MemoryTypeOK ==
  /\ memory \in [Node -> [{Counter} -> Mem!Content]]
  /\ TwinsTypeOK /\ ApplyingTypeOK
  /\ writable \in [Node -> SUBSET {Counter}]
  /\ timestamp \in [Node -> Nat]
  /\ faulting \in [Node -> [Thread -> SUBSET {Counter}]]
  /\ unsent \in [Node -> [Thread -> SUBSET Mem!Diff]]
  /\ diffing \in [Node -> SUBSET Thread]
  /\ halfway \in [Node -> SUBSET {Counter}]
  /\ stage \in [Node -> [Thread -> {"in", "stored", "ending"}]]
  /\ count \in Nat

LockedPairInv(p, n) ==
  DiffsAreNews(p, n) /\ UntoldIsNewest(p, n) /\ Catching(p, n) /\ Heard(p, n)

\* A node that is alone gets no diff.
AloneInv ==
  \A n \in Node : (\A p \in Node : p = n)
    => Seen(n) = count /\ applying[n] = Mem!NoChanges

LocalInv == WritesUnderLock /\ TwinsOfHolder /\ UnsentBrings

CopiesInv ==
  /\ CopiesTrail /\ AloneInv
  /\ \A p, n \in Node : p # n => LockedPairInv(p, n)

LockedInv == MP!TwoInv /\ MemoryTypeOK /\ LocalInv /\ CopiesInv

----------------------------------------------------------------------------
(***************************************************************************)
(* Lemmas about what a connection carries                                  *)
(***************************************************************************)
Messages == MP!AnyMessage

LEMMA ForeignDiffs ==
  \A m \in Mem!Diff : m.type \notin {"REQUEST", "REPLY"}
BY DEF Mem!Diff

\* The handler finds the byte in the section, and nothing else.
LEMMA ChangedReads ==
  ASSUME NEW v
  PROVE  /\ Mem!Put(Changed(v)[Counter]) = {0}
         /\ Mem!NewByte(Changed(v)[Counter], 0) = v
         /\ Changed(v)[Counter] # {} /\ Changed(v) # Mem!NoChanges
<1>1. Changed(v)[Counter] = {OneByte(v)}
  BY DEF Changed
<1>2. Mem!Covers(OneByte(v), 0) /\ OneByte(v).offset = 0
      /\ OneByte(v).bytes[1] = v
  BY DEF OneByte, Mem!Covers
<1>3. (CHOOSE x \in {OneByte(v)} : Mem!Covers(x, 0)) = OneByte(v)
  BY <1>2
<1>4. Mem!NewByte(Changed(v)[Counter], 0) = v
  BY <1>1, <1>2, <1>3 DEF Mem!NewByte
<1>5. Mem!Put(Changed(v)[Counter]) = {0}
  BY <1>1, <1>2 DEF Mem!Put, Mem!Byte
<1>6. Mem!NoChanges[Counter] = {}
  BY DEF Mem!NoChanges
<1> QED BY <1>1, <1>4, <1>5, <1>6

LEMMA UpdateBrings ==
  ASSUME NEW m, IsUpdate(m)
  PROVE  /\ Brought(m) \in Mem!Value /\ Brought(m) \in Nat
         /\ m.pages = Changed(Brought(m))
<1>1. PICK v \in Mem!Value : m.pages = Changed(v)
  BY DEF IsUpdate
<1>2. Brought(m) = v
  BY <1>1, ChangedReads DEF Brought, Mem!Brought
<1> QED BY <1>1, <1>2, BoundAssumption DEF Mem!Value

LEMMA UpdateTypes ==
  ASSUME NEW s \in Seq(Messages), AllUpdates(s)
  PROVE  /\ \A k \in DOMAIN s : s[k].type = "DIFF" => Brought(s[k]) \in Nat
         /\ Updates(s) \subseteq Nat
<1>1. \A m \in Range(s) : m.type = "DIFF" => Brought(m) \in Nat
  BY UpdateBrings DEF AllUpdates
<1> QED BY <1>1 DEF Updates, Range

LEMMA UpdatesIn ==
  ASSUME NEW s
  PROVE  \A v : v \in Updates(s) <=>
                 \E k \in DOMAIN s : s[k].type = "DIFF" /\ Brought(s[k]) = v
BY DEF Updates, Range

LEMMA OrderedTail ==
  ASSUME NEW s \in Seq(Messages), s # << >>, InOrder(s), AheadOfReply(s)
  PROVE  /\ Tail(s) \in Seq(Messages)
         /\ InOrder(Tail(s)) /\ AheadOfReply(Tail(s))
         /\ AllUpdates(s) => AllUpdates(Tail(s))
         /\ Updates(Tail(s)) \subseteq Updates(s)
         /\ Head(s).type # "DIFF" => Updates(Tail(s)) = Updates(s)
         /\ Head(s).type = "DIFF" =>
              /\ Updates(s) = Updates(Tail(s)) \cup {Brought(Head(s))}
              /\ \A v \in Updates(Tail(s)) : Brought(Head(s)) < v
         /\ Head(s).type = "REPLY" => Updates(Tail(s)) = {}
<1> DEFINE t == Tail(s)
<1>1. /\ t \in Seq(Messages)
      /\ Len(t) = Len(s) - 1
      /\ \A k \in 1 .. Len(t) : t[k] = s[k + 1]
  BY HeadTailProperties
<1>2. /\ Len(s) \in Nat \ {0} /\ Head(s) = s[1]
      /\ DOMAIN s = 1 .. Len(s) /\ DOMAIN t = 1 .. Len(t)
  BY <1>1, EmptySeq, LenProperties
<1> HIDE DEF t
<1>3. \A k \in DOMAIN t : k \in Nat \ {0} /\ k + 1 \in DOMAIN s /\ t[k] = s[k + 1]
  BY <1>1, <1>2
<1>4. \A k \in DOMAIN s : k = 1 \/ (k - 1 \in DOMAIN t /\ s[k] = t[k - 1])
  BY <1>1, <1>2
<1>5. 1 \in DOMAIN s
  BY <1>2
<1>6. InOrder(t)
  <2> SUFFICES ASSUME NEW k \in DOMAIN t, NEW l \in DOMAIN t, k < l,
                      t[k].type = "DIFF", t[l].type = "DIFF"
               PROVE  Brought(t[k]) < Brought(t[l])
    BY DEF InOrder
  <2>1. k + 1 < l + 1
    BY <1>3
  <2> QED BY <1>3, <2>1 DEF InOrder
<1>7. AheadOfReply(t)
  <2> SUFFICES ASSUME NEW k \in DOMAIN t, NEW l \in DOMAIN t,
                      t[k].type = "REPLY", t[l].type = "DIFF"
               PROVE  l < k
    BY DEF AheadOfReply
  <2>1. l + 1 < k + 1 /\ l \in Nat /\ k \in Nat
    BY <1>3 DEF AheadOfReply
  <2> QED BY <2>1
<1>8. Range(s) = {Head(s)} \cup Range(t)
  BY <1>2, <1>3, <1>4, <1>5, SMTT(30) DEF Range
<1>9. ASSUME Head(s).type = "DIFF", NEW v \in Updates(t)
      PROVE  Brought(Head(s)) < v
  <2>1. PICK k \in DOMAIN t : t[k].type = "DIFF" /\ Brought(t[k]) = v
    BY <1>1, UpdatesIn
  <2>2. k + 1 \in DOMAIN s /\ 1 < k + 1 /\ s[k + 1].type = "DIFF"
        /\ Brought(s[k + 1]) = v
    BY <1>3, <2>1
  <2> QED BY <1>2, <1>5, <1>9, <2>2 DEF InOrder
<1>10. ASSUME Head(s).type = "REPLY", NEW v \in Updates(t)
       PROVE  FALSE
  <2>1. PICK k \in DOMAIN t : t[k].type = "DIFF" /\ Brought(t[k]) = v
    BY <1>1, UpdatesIn
  <2>2. k + 1 \in DOMAIN s /\ k \in Nat \ {0} /\ s[k + 1].type = "DIFF"
    BY <1>3, <2>1
  <2>3. k + 1 < 1
    BY <1>2, <1>5, <1>10, <2>2 DEF AheadOfReply
  <2> QED BY <2>2, <2>3
<1>11. /\ AllUpdates(s) => AllUpdates(t)
       /\ Updates(t) \subseteq Updates(s)
       /\ Head(s).type # "DIFF" => Updates(t) = Updates(s)
       /\ Head(s).type = "DIFF" => Updates(s) = Updates(t) \cup {Brought(Head(s))}
  BY <1>8 DEF Updates, AllUpdates
<1> QED BY <1>1, <1>6, <1>7, <1>9, <1>10, <1>11 DEF t

\* Messages of the mutex behind it do not disturb a connection.
LEMMA OrderedAppend ==
  ASSUME NEW s \in Seq(Messages), NEW ms \in Seq(Messages),
         \A m \in Range(ms) : m.type # "DIFF",
         InOrder(s), AheadOfReply(s)
  PROVE  /\ InOrder(s \o ms) /\ AheadOfReply(s \o ms)
         /\ AllUpdates(s) => AllUpdates(s \o ms)
         /\ Updates(s \o ms) = Updates(s)
<1> DEFINE t == s \o ms
<1>1. /\ t \in Seq(Messages)
      /\ Len(t) = Len(s) + Len(ms)
      /\ \A k \in 1 .. Len(s) + Len(ms) :
           t[k] = IF k <= Len(s) THEN s[k] ELSE ms[k - Len(s)]
  BY ConcatProperties
<1>2. /\ Len(s) \in Nat /\ Len(ms) \in Nat
      /\ DOMAIN s = 1 .. Len(s) /\ DOMAIN ms = 1 .. Len(ms)
      /\ DOMAIN t = 1 .. Len(t)
  BY <1>1, LenProperties
<1>3. Range(t) = Range(s) \cup Range(ms)
  BY RangeConcatenation
<1> HIDE DEF t
<1>4. ASSUME NEW k \in DOMAIN t
      PROVE  \/ k \in DOMAIN s /\ t[k] = s[k]
             \/ k \in Nat /\ k > Len(s) /\ t[k].type # "DIFF"
  <2>1. CASE k <= Len(s)
    BY <1>1, <1>2, <2>1
  <2>2. CASE k > Len(s)
    <3>1. k - Len(s) \in DOMAIN ms /\ t[k] = ms[k - Len(s)]
      BY <1>1, <1>2, <2>2
    <3>2. t[k] \in Range(ms)
      BY <3>1 DEF Range
    <3> QED BY <1>1, <1>2, <2>2, <3>2
  <2> QED BY <1>1, <1>2, <2>1, <2>2
<1>5. InOrder(t)
  BY <1>4 DEF InOrder
<1>6. AheadOfReply(t)
  <2> SUFFICES ASSUME NEW k \in DOMAIN t, NEW l \in DOMAIN t,
                      t[k].type = "REPLY", t[l].type = "DIFF"
               PROVE  l < k
    BY DEF AheadOfReply
  <2>1. l \in DOMAIN s /\ t[l] = s[l]
    BY <1>4
  <2>2. CASE k \in DOMAIN s /\ t[k] = s[k]
    BY <2>1, <2>2 DEF AheadOfReply
  <2>3. CASE k \in Nat /\ k > Len(s)
    BY <1>2, <2>1, <2>3
  <2> QED BY <1>4, <2>2, <2>3
<1>7. Updates(t) = Updates(s) /\ (AllUpdates(s) => AllUpdates(t))
  BY <1>3 DEF Updates, AllUpdates
<1> QED BY <1>5, <1>6, <1>7 DEF t

\* Nor does a diff with a value above those before it, if no reply precedes it.
LEMMA OrderedDiff ==
  ASSUME NEW s \in Seq(Messages), NEW c \in Mem!Diff, IsUpdate(c),
         InOrder(s), AllUpdates(s), \A m \in Range(s) : m.type # "REPLY",
         \A k \in Updates(s) : k < Brought(c)
  PROVE  /\ Append(s, c) \in Seq(Messages)
         /\ InOrder(Append(s, c))
         /\ AheadOfReply(Append(s, c)) /\ AllUpdates(Append(s, c))
         /\ Updates(Append(s, c)) = Updates(s) \cup {Brought(c)}
<1> DEFINE t == Append(s, c)
<1>1. c \in Messages /\ c.type = "DIFF"
  BY DEF Messages, MP!AnyMessage, Mem!Diff
<1>2. /\ t \in Seq(Messages)
      /\ Len(t) = Len(s) + 1
      /\ \A k \in 1 .. Len(s) : t[k] = s[k]
      /\ t[Len(s) + 1] = c
  BY <1>1, AppendProperties
<1>3. /\ Len(s) \in Nat /\ DOMAIN s = 1 .. Len(s)
      /\ DOMAIN t = 1 .. Len(s) + 1
  BY <1>2, LenProperties
<1> HIDE DEF t
<1>4. ASSUME NEW k \in DOMAIN t
      PROVE  \/ k \in DOMAIN s /\ t[k] = s[k]
             \/ k = Len(s) + 1 /\ t[k] = c
  BY <1>2, <1>3
<1>r. Range(t) = Range(s) \cup {c}
  BY <1>2, <1>3, <1>4 DEF Range
<1>5. InOrder(t)
  <2> SUFFICES ASSUME NEW k \in DOMAIN t, NEW l \in DOMAIN t, k < l,
                      t[k].type = "DIFF", t[l].type = "DIFF"
               PROVE  Brought(t[k]) < Brought(t[l])
    BY DEF InOrder
  <2>1. k \in DOMAIN s /\ t[k] = s[k]
    BY <1>3, <1>4
  <2>2. CASE l \in DOMAIN s /\ t[l] = s[l]
    BY <2>1, <2>2 DEF InOrder
  <2>3. CASE t[l] = c
    <3>1. Brought(s[k]) \in Updates(s)
      BY <2>1, UpdatesIn
    <3> QED BY <2>1, <2>3, <3>1
  <2> QED BY <1>4, <2>2, <2>3
<1>6. AheadOfReply(t)
  <2> SUFFICES ASSUME NEW k \in DOMAIN t, t[k].type = "REPLY"
               PROVE  FALSE
    BY DEF AheadOfReply
  <2>1. t[k] \in Range(t)
    BY DEF Range
  <2> QED BY <1>1, <1>r, <2>1
<1>7. Updates(t) = Updates(s) \cup {Brought(c)} /\ AllUpdates(t)
  BY <1>1, <1>r DEF Updates, AllUpdates
<1> QED BY <1>2, <1>5, <1>6, <1>7 DEF t

----------------------------------------------------------------------------
(***************************************************************************)
(* The mutex under the counter                                             *)
(***************************************************************************)

\* M and MP are two instances of one module on the same state.
LEMMA SameMutex ==
  /\ \A n \in Node, t \in Thread :
       /\ M!Lock(n, t) => MP!Lock(n, t)
       /\ M!UnlockReply(n, t) \/ M!UnlockLocal(n, t) => MP!Unlock(n, t)
  /\ \A n, p \in Node : M!Handle(n, p) => MP!Handle(n, p)
<1>1. ASSUME NEW n \in Node, NEW t \in Thread
      PROVE  M!Lock(n, t) => MP!Lock(n, t)
  BY DEF M!Lock, MP!Lock, M!LockLocal, MP!LockLocal, M!LockRequest,
         MP!LockRequest, M!LockWait, MP!LockWait, M!Goto, MP!Goto, M!Awaited,
         MP!Awaited, M!Sent, MP!Sent, M!RequestMsg, MP!RequestMsg
<1>2. ASSUME NEW n \in Node, NEW t \in Thread
      PROVE  M!UnlockReply(n, t) \/ M!UnlockLocal(n, t) => MP!Unlock(n, t)
  BY DEF MP!Unlock, M!UnlockReply, MP!UnlockReply, M!UnlockLocal,
         MP!UnlockLocal, M!Goto, MP!Goto, M!Replies, MP!Replies, M!Sent,
         MP!Sent, M!ReplyMsg, MP!ReplyMsg, M!NoRequest, MP!NoRequest
<1>3. ASSUME NEW n \in Node, NEW p \in Node
      PROVE  M!Handle(n, p) => MP!Handle(n, p)
  <2>1. /\ M!Message(p, n) = MP!Message(p, n)
        /\ M!Other(p, n) = MP!Other(p, n)
        /\ M!Received(p, n) = MP!Received(p, n)
        /\ \A t : M!Clock(n, t) = MP!Clock(n, t)
        /\ \A t : M!ReplyMsg(t) = MP!ReplyMsg(t)
        /\ \A c, ms : M!Sent(c, n, ms) = MP!Sent(c, n, ms)
    BY DEF M!Message, MP!Message, M!Other, MP!Other, M!Received, MP!Received,
           M!Clock, MP!Clock, M!ReplyMsg, MP!ReplyMsg, M!Sent, MP!Sent
  <2>2. \A a, b : M!Precedes(a, b) <=> MP!Precedes(a, b)
    BY DEF M!Precedes, MP!Precedes
  <2>3. \A e : M!ReplyAtOnce(n, e) <=> MP!ReplyAtOnce(n, e)
    BY <2>2 DEF M!ReplyAtOnce, MP!ReplyAtOnce, M!LocalRequest,
                MP!LocalRequest, M!NoRequest, MP!NoRequest
  <2>4. ASSUME NEW q, NEW e
        PROVE  M!Insert(q, e) = MP!Insert(q, e)
    <3>1. {k \in DOMAIN q : ~ M!Precedes(e, q[k])}
            = {k \in DOMAIN q : ~ MP!Precedes(e, q[k])}
      BY <2>2
    <3>2. \A S : M!Cardinality(S) = MP!Cardinality(S)
      BY Zenon DEF M!Cardinality, MP!Cardinality
    <3> QED BY <3>1, <3>2, Zenon DEF M!Insert, MP!Insert
  <2>5. M!HandleRequest(n, p) => MP!HandleRequest(n, p)
    BY <2>1, <2>3, <2>4, Zenon DEF M!HandleRequest, MP!HandleRequest
  <2>6. M!HandleReply(n, p) => MP!HandleReply(n, p)
    BY <2>1, Zenon DEF M!HandleReply, MP!HandleReply
  <2> QED BY <2>5, <2>6 DEF M!Handle, MP!Handle
<1> QED BY <1>1, <1>2, <1>3

\* A step of the threads or listeners that is one of the mutex.
OnMutex(n) ==
  \/ \E t \in Thread : Lock(n, t) \/ UnlockReply(n, t) \/ UnlockLocal(n, t)
  \/ \E p \in Node : HandleMutexMsg(n, p)

LEMMA MutexMoves ==
  ASSUME NEW n \in Node, OnMutex(n)
  PROVE  MP!Next /\ UNCHANGED <<memoryVars, count>>
BY SameMutex
DEF OnMutex, Lock, UnlockReply, UnlockLocal, HandleMutexMsg, MP!Next

LEMMA LockedTypes ==
  ASSUME LockedInv
  PROVE  /\ MP!TwoInv /\ MP!LocalInv
         /\ chan \in [Node -> [Node -> Seq(Messages)]]
         /\ \A a, b \in Node : chan[a][b] \in Seq(Messages)
         /\ \A a \in Node : chan[a][a] = << >>
         /\ pc \in [Node -> [Thread -> {"idle", "locking", "waiting", "held",
                                        "unlocking"}]]
<1>1. MP!TwoInv /\ MP!LocalInv /\ MP!TypeOK /\ MP!NothingToSelf
  BY DEF LockedInv, MP!TwoInv, MP!AnswerInv, MP!LocalInv
<1>2. chan \in [Node -> [Node -> Seq(Messages)]]
  BY <1>1 DEF MP!TypeOK, Messages
<1> QED BY <1>1, <1>2 DEF MP!TypeOK, MP!NothingToSelf

\* The byte of a page c to which the listener applies the changes a.
LEMMA AppliedValue ==
  ASSUME NEW c \in Mem!Content, NEW a
  PROVE  /\ a = Mem!NoChanges => Mem!Written(c, a[Counter])[0] = c[0]
         /\ \A v \in Mem!Value : a = Changed(v) =>
              /\ Mem!Written(c, a[Counter]) \in Mem!Content
              /\ Mem!Written(c, a[Counter])[0] = v
<1>1. Mem!Byte = {0}
  BY DEF Mem!Byte
<1>2. ASSUME a = Mem!NoChanges
      PROVE  Mem!Written(c, a[Counter])[0] = c[0]
  <2>1. Mem!Put(a[Counter]) = {}
    BY <1>2 DEF Mem!NoChanges, Mem!Put
  <2> QED BY <1>1, <2>1 DEF Mem!Written
<1>3. ASSUME NEW v \in Mem!Value, a = Changed(v)
      PROVE  Mem!Written(c, a[Counter]) = [b \in {0} |-> v]
  BY <1>1, <1>3, ChangedReads DEF Mem!Written
<1> QED BY <1>1, <1>2, <1>3 DEF Mem!Content

LEMMA CounterTypes ==
  ASSUME MemoryTypeOK, NEW n \in Node
  PROVE  /\ memory[n][Counter] \in Mem!Content
         /\ Value(n) \in Mem!Value /\ Value(n) \in Nat
         /\ Seen(n) \in Nat
         /\ applying[n] = Mem!NoChanges => Seen(n) = Value(n)
         /\ \A v \in Mem!Value : applying[n] = Changed(v) => Seen(n) = v
<1>1. /\ memory[n][Counter] \in Mem!Content
      /\ applying[n] = Mem!NoChanges
         \/ \E v \in Mem!Value : applying[n] = Changed(v)
  BY DEF MemoryTypeOK, ApplyingTypeOK
<1>2. Value(n) \in Mem!Value /\ Mem!Value \subseteq Nat
  BY <1>1, BoundAssumption DEF Mem!Content, Mem!Byte, Mem!Value, Value
<1>3. /\ applying[n] = Mem!NoChanges => Seen(n) = Value(n)
      /\ \A v \in Mem!Value : applying[n] = Changed(v) => Seen(n) = v
  BY <1>1, AppliedValue DEF Seen, Mem!Applied, Value
<1> QED BY <1>1, <1>2, <1>3

LEMMA DiffSent ==
  ASSUME LockedInv, NEW n \in Node, NEW t \in Thread, Mem!SendDiff(n, t)
  PROVE  \E d \in unsent[n][t] :
           /\ d \in Mem!Diff
           /\ chan' \in [Node -> [Node -> Seq(Messages)]]
           /\ \A a, b \in Node :
                chan'[a][b] = IF a = n /\ b # n THEN Append(chan[a][b], d)
                                                ELSE chan[a][b]
<1>1. PICK d \in unsent[n][t] :
        chan' = [chan EXCEPT ![n] = [p \in Node |-> IF p = n THEN @[p]
                                                    ELSE Append(@[p], d)]]
  BY DEF Mem!SendDiff
<1>2. d \in Mem!Diff /\ d \in Messages
  BY DEF LockedInv, MemoryTypeOK, Messages, MP!AnyMessage
<1>3. \A b \in Node : Append(chan[n][b], d) \in Seq(Messages)
  BY <1>2, LockedTypes, AppendProperties
<1>4. /\ chan' \in [Node -> [Node -> Seq(Messages)]]
      /\ \A a, b \in Node :
           chan'[a][b] = IF a = n /\ b # n THEN Append(chan[a][b], d)
                                           ELSE chan[a][b]
  BY <1>1, <1>3, LockedTypes
<1> QED BY <1>2, <1>4

LEMMA DiffTaken ==
  ASSUME LockedInv, NEW n \in Node, NEW p \in Node, chan[p][n] # << >>,
         M!Message(p, n).type = "DIFF", Mem!ReadDiff(n, p)
  PROVE  /\ p # n
         /\ Head(chan[p][n]).type = "DIFF"
         /\ IsUpdate(Head(chan[p][n]))
         /\ Brought(Head(chan[p][n])) \in Mem!Value
         /\ applying[n] = Mem!NoChanges
         /\ applying' = [applying EXCEPT
                           ![n] = Changed(Brought(Head(chan[p][n])))]
         /\ Head(chan[p][n]) \in Mem!Diff
         /\ chan' \in [Node -> [Node -> Seq(Messages)]]
         /\ \A a, b \in Node :
              chan'[a][b] = IF a = p /\ b = n THEN Tail(chan[p][n])
                                              ELSE chan[a][b]
<1> DEFINE m == Head(chan[p][n])
<1>1. /\ m.type = "DIFF" /\ applying[n] = Mem!NoChanges
      /\ applying' = [applying EXCEPT ![n] = m.pages]
      /\ chan' = [chan EXCEPT ![p][n] = Tail(@)]
  BY DEF Mem!ReadDiff, M!Message
<1>2. p # n
  BY LockedTypes
<1>3. m \in Messages /\ Tail(chan[p][n]) \in Seq(Messages) /\ m \in Range(chan[p][n])
  <2>1. chan[p][n] \in Seq(Messages)
    BY LockedTypes
  <2>2. /\ Len(chan[p][n]) \in Nat /\ 1 <= Len(chan[p][n])
        /\ DOMAIN chan[p][n] = 1 .. Len(chan[p][n]) /\ m = chan[p][n][1]
    BY <2>1, LenProperties, EmptySeq, HeadTailProperties
  <2>3. 1 \in DOMAIN chan[p][n]
    BY <2>2
  <2> QED BY <2>1, <2>2, <2>3, HeadTailProperties DEF Range
<1>4. m \in Mem!Diff
  BY <1>1, <1>3 DEF Messages, MP!AnyMessage, MP!MutexMessage
<1>5. IsUpdate(m)
  BY <1>1, <1>2, <1>3
  DEF LockedInv, CopiesInv, LockedPairInv, DiffsAreNews, AllUpdates
<1>6. /\ chan' \in [Node -> [Node -> Seq(Messages)]]
      /\ \A a, b \in Node :
           chan'[a][b] = IF a = p /\ b = n THEN Tail(chan[p][n])
                                           ELSE chan[a][b]
  BY <1>1, <1>3, LockedTypes
<1> HIDE DEF m
<1>7. m.pages = Changed(Brought(m)) /\ Brought(m) \in Mem!Value
  BY <1>5, UpdateBrings
<1> QED BY <1>1, <1>2, <1>4, <1>5, <1>6, <1>7 DEF m

\* Whatever the holders write, the mutex is as it would be alone.
LEMMA MutexUndisturbed ==
  ASSUME MP!AtMostTwoNodes, LockedInv, [Next]_vars
  PROVE  MP!TwoInv'
<1>1. MP!TwoInv
  BY DEF LockedInv
<1>2. ASSUME NEW n \in Node, OnMutex(n)
      PROVE  MP!TwoInv'
  <2>1. MP!Next
    BY <1>2, MutexMoves
  <2> QED
    BY <1>1, <2>1, MP!PairStep, NodeAssumption, ThreadAssumption,
       MaxTimeAssumption, ForeignDiffs
<1>3. CASE UNCHANGED <<chan, mutexVars>>
  <2>1. UNCHANGED MP!vars
    BY <1>3 DEF mutexVars, MP!vars, MP!mutexVars
  <2> QED
    BY <1>1, <2>1, MP!PairStep, NodeAssumption, ThreadAssumption,
       MaxTimeAssumption, ForeignDiffs
<1>4. ASSUME chan' \in [Node -> [Node -> Seq(Messages)]],
             UNCHANGED mutexVars,
             \A a, b \in Node : MP!ForeignAt(chan[a][b], chan'[a][b], a # b)
      PROVE  MP!TwoInv'
  <2>1. UNCHANGED <<peers, MP!mutexVars>>
    BY <1>4 DEF mutexVars, MP!mutexVars
  <2>2. chan' \in [Node -> [Node -> Seq(MP!AnyMessage)]]
    BY <1>4 DEF Messages
  <2> QED
    BY <1>1, <1>4, <2>1, <2>2, MP!ForeignStep, NodeAssumption,
       ThreadAssumption, MaxTimeAssumption, ForeignDiffs
<1>5. ASSUME NEW n \in Node, NEW t \in Thread, Mem!SendDiff(n, t),
             UNCHANGED mutexVars
      PROVE  MP!TwoInv'
  <2>1. PICK d \in unsent[n][t] :
          /\ d \in Mem!Diff
          /\ chan' \in [Node -> [Node -> Seq(Messages)]]
          /\ \A a, b \in Node :
               chan'[a][b] = IF a = n /\ b # n THEN Append(chan[a][b], d)
                                               ELSE chan[a][b]
    BY <1>5, DiffSent
  <2>2. d \in Messages
    BY <2>1 DEF Messages, MP!AnyMessage
  <2>3. ASSUME NEW a \in Node, NEW b \in Node
        PROVE  MP!ForeignAt(chan[a][b], chan'[a][b], a # b)
    <3>1. CASE a = n /\ b # n
      <4>1. chan'[a][b] = chan[a][b] \o <<d>>
        <5>1. chan[a][b] \in Seq(Messages) /\ chan'[a][b] = Append(chan[a][b], d)
          BY <2>1, <3>1, LockedTypes
        <5> QED BY <2>2, <5>1, AppendIsConcat
      <4> QED BY <2>1, <3>1, <4>1 DEF MP!ForeignAt
    <3>2. CASE ~ (a = n /\ b # n)
      <4>1. chan'[a][b] = chan[a][b]
        BY <2>1, <3>2
      <4> QED BY <4>1 DEF MP!ForeignAt
    <3> QED BY <3>1, <3>2
  <2> QED BY <1>4, <1>5, <2>1, <2>3
<1>6. ASSUME NEW n \in Node, NEW p \in Node, chan[p][n] # << >>,
             M!Message(p, n).type = "DIFF", Mem!ReadDiff(n, p),
             UNCHANGED mutexVars
      PROVE  MP!TwoInv'
  <2>1. /\ Head(chan[p][n]).type = "DIFF"
        /\ chan' \in [Node -> [Node -> Seq(Messages)]]
        /\ \A a, b \in Node :
             chan'[a][b] = IF a = p /\ b = n THEN Tail(chan[p][n])
                                             ELSE chan[a][b]
    BY <1>6, DiffTaken
  <2>2. ASSUME NEW a \in Node, NEW b \in Node
        PROVE  MP!ForeignAt(chan[a][b], chan'[a][b], a # b)
    <3>1. CASE a = p /\ b = n
      BY <1>6, <2>1, <3>1 DEF MP!ForeignAt
    <3>2. CASE ~ (a = p /\ b = n)
      <4>1. chan'[a][b] = chan[a][b]
        BY <2>1, <3>2
      <4> QED BY <4>1 DEF MP!ForeignAt
    <3> QED BY <3>1, <3>2
  <2> QED BY <1>4, <1>6, <2>1, <2>2
<1>7. ASSUME NEW n \in Node, NEW t \in Thread,
             Touch(n, t) \/ Increment(n, t) \/ UnlockTxEnd(n, t)
      PROVE  MP!TwoInv'
  BY <1>3, <1>5, <1>7
  DEF Touch, Increment, UnlockTxEnd, Mem!Fault, Mem!TxBegin, Mem!Store,
      Mem!DiffBegin, Mem!DiffPage, Mem!PageStep, Mem!Protect, Mem!Compare,
      Mem!DiffEnd
<1>8. ASSUME NEW n \in Node, NEW p \in Node, HandleDiff(n, p)
      PROVE  MP!TwoInv'
  BY <1>3, <1>6, <1>8 DEF HandleDiff, Mem!ApplyPage
<1>9. CASE UNCHANGED vars
  BY <1>3, <1>9 DEF vars
<1> QED BY <1>2, <1>7, <1>8, <1>9 DEF Next, Work, Listen, OnMutex

----------------------------------------------------------------------------
(***************************************************************************)
(* The holder                                                              *)
(***************************************************************************)

\* Only one thread holds the mutex, and it has heard from all the others.
LEMMA HolderHears ==
  ASSUME LockedInv, NEW n \in Node, NEW t \in Thread, pc[n][t] = "held"
  PROVE  /\ \A p \in Node, s \in Thread :
              (pc[p][s] = "held" \/ stage[p][s] # "in" \/ faulting[p][s] # {}
               \/ unsent[p][s] # {} \/ s \in diffing[p]) => p = n /\ s = t
         /\ \A s \in Thread : pc[n][s] # "idle" => s = t
         /\ \A p \in Node : Mem!Twinned(p) # {} => p = n
         /\ \A p \in Node : p # n =>
              /\ Updates(chan[p][n]) = {}
              /\ ~ Untold(p)
              /\ ~ MP!Carries(chan[n][p], "REPLY")
              /\ local_request[p] # 0 => n \in wait_on[p]
         /\ applying[n] = Mem!NoChanges
<1>1. MP!TwoInv /\ MP!LocalInv
  BY LockedTypes
<1>2. \A p \in Node : p # n =>
        /\ ~ MP!Carries(chan[n][p], "REPLY")
        /\ local_request[p] # 0 => n \in wait_on[p]
  BY <1>1, MP!HolderKeepsReply, NodeAssumption, ThreadAssumption,
     MaxTimeAssumption, ForeignDiffs DEF MP!NoRequest
<1>3. \A p \in Node, s \in Thread : pc[p][s] = "held" => p = n /\ s = t
  <2>1. MP!MutualExclusion
    BY <1>1, MP!PairExclusion, NodeAssumption, ThreadAssumption,
       MaxTimeAssumption, ForeignDiffs
  <2> QED BY <2>1 DEF MP!MutualExclusion
<1>4. WritesUnderLock /\ TwinsOfHolder /\ CopiesInv
  BY DEF LockedInv, LocalInv
<1>5. \A p \in Node, s \in Thread :
        (stage[p][s] # "in" \/ faulting[p][s] # {} \/ unsent[p][s] # {}
         \/ s \in diffing[p]) => pc[p][s] = "held"
  BY <1>4 DEF WritesUnderLock
<1>6. \A s \in Thread : pc[n][s] # "idle" => s = t
  BY <1>1, MP!OneInside, NodeAssumption, ThreadAssumption,
     MaxTimeAssumption, ForeignDiffs
<1>7. local_request[n] # 0 /\ wait_on[n] = {}
  <2>1. MP!RequestWhileEngaged /\ MP!AwaitedWhileWaiting
    BY <1>1 DEF MP!LocalInv
  <2>2. local_request[n] # 0
    BY <2>1 DEF MP!RequestWhileEngaged, MP!Engaged, MP!NoRequest
  <2> QED BY <1>6, <2>1, <2>2 DEF MP!AwaitedWhileWaiting
<1>8. \A p \in Node : p # n => Updates(chan[p][n]) = {}
  BY <1>4, <1>7 DEF CopiesInv, LockedPairInv, Heard
<1>9. applying[n] = Mem!NoChanges
  BY <1>4, <1>7 DEF CopiesInv, LockedPairInv, Heard, AloneInv
<1>10. \A p \in Node : p # n => ~ Untold(p)
  BY <1>3, <1>5 DEF Untold
<1>11. \A p \in Node : Mem!Twinned(p) # {} => p = n
  BY <1>3, <1>4 DEF TwinsOfHolder
<1> QED BY <1>2, <1>3, <1>5, <1>6, <1>8, <1>9, <1>10, <1>11

\* The mutex and the diffs agree: a holder that has not stored yet has the newest
\* value.
LEMMA UpToDate ==
  ASSUME LockedInv, NEW n \in Node, NEW t \in Thread,
         pc[n][t] = "held", stage[n][t] = "in"
  PROVE  /\ Seen(n) = count /\ Value(n) = count
         /\ \A p \in Node : ~ Untold(p)
<1>1. \A p \in Node : ~ Untold(p)
  <2>1. \A s \in Thread : unsent[n][s] # {} => stage[n][s] = "ending"
    BY DEF LockedInv, LocalInv, WritesUnderLock
  <2> QED BY <2>1, HolderHears DEF Untold
<1>2. Seen(n) = count
  <2>1. CASE \A p \in Node : p = n
    BY <2>1 DEF LockedInv, CopiesInv, AloneInv
  <2>2. ASSUME NEW p \in Node, p # n
        PROVE  Seen(n) = count
    <3>1. Updates(chan[p][n]) = {}
      BY <2>2, HolderHears
    <3>2. Catching(p, n)
      BY <2>2 DEF LockedInv, CopiesInv, LockedPairInv
    <3> QED BY <1>1, <3>1, <3>2 DEF Catching
  <2> QED BY <2>1, <2>2
<1> QED BY <1>1, <1>2, HolderHears, CounterTypes DEF LockedInv

----------------------------------------------------------------------------
(***************************************************************************)
(* The region of one node: twins, faults and the diff to send              *)
(***************************************************************************)
RegionInv == MemoryTypeOK /\ LocalInv

LEMMA Exclusion == MP!TwoInv => MP!MutualExclusion
BY MP!PairExclusion, NodeAssumption, ThreadAssumption, MaxTimeAssumption,
   ForeignDiffs

LEMMA TypesKept ==
  ASSUME MemoryTypeOK
  PROVE  /\ UNCHANGED twins => TwinsTypeOK'
         /\ UNCHANGED applying => ApplyingTypeOK'
BY DEF MemoryTypeOK, TwinsTypeOK, ApplyingTypeOK, Mem!Twinned

\* A step of the mutex leaves the region alone.
LEMMA RegionMutex ==
  ASSUME LockedInv, NEW n \in Node, OnMutex(n), MP!TwoInv'
  PROVE  RegionInv'
<1>1. RegionInv /\ UNCHANGED memoryVars /\ UNCHANGED count
  BY MutexMoves DEF LockedInv, RegionInv
<1>2. MemoryTypeOK'
  <2>1. TwinsTypeOK' /\ ApplyingTypeOK'
    BY <1>1, TypesKept DEF RegionInv, memoryVars
  <2>2. UNCHANGED stage \/ \E t \in Thread : Goto(n, t, "ending", "in")
    BY DEF OnMutex, Lock, UnlockReply, UnlockLocal, HandleMutexMsg
  <2>3. stage' \in [Node -> [Thread -> {"in", "stored", "ending"}]]
    <3>1. stage \in [Node -> [Thread -> {"in", "stored", "ending"}]]
      BY <1>1 DEF RegionInv, MemoryTypeOK
    <3>2. CASE UNCHANGED stage
      BY <3>1, <3>2
    <3>3. ASSUME NEW t \in Thread, Goto(n, t, "ending", "in")
          PROVE  stage' \in [Node -> [Thread -> {"in", "stored", "ending"}]]
      BY <3>1, <3>3 DEF Goto
    <3> QED BY <2>2, <3>2, <3>3
  <2> QED BY <1>1, <2>1, <2>3 DEF RegionInv, MemoryTypeOK, memoryVars
<1>3. UnsentBrings'
  BY <1>1
  DEF RegionInv, LocalInv, UnsentBrings, memoryVars, Value, Comparing, Mem!Twinned
<1>4. CASE UNCHANGED <<pc, stage>>
  BY <1>1, <1>2, <1>3, <1>4
  DEF RegionInv, LocalInv, WritesUnderLock, TwinsOfHolder, memoryVars, Comparing,
      Mem!Twinned
<1>5. ASSUME NEW t \in Thread, NEW to, pc' = [pc EXCEPT ![n][t] = to],
             pc[n][t] # "held", UNCHANGED stage
      PROVE  RegionInv'
  <2>1. \A m \in Node, s \in Thread :
          pc'[m][s] = IF m = n /\ s = t THEN to ELSE pc[m][s]
    BY <1>5, LockedTypes
  <2>2. WritesUnderLock'
    BY <1>1, <1>5, <2>1 DEF RegionInv, LocalInv, WritesUnderLock, memoryVars
  <2>3. \A m \in Node, s \in Thread : pc[m][s] = "held" => pc'[m][s] = "held"
    BY <1>5, <2>1
  <2>4. ASSUME NEW s \in Thread, pc[n][s] = "held", pc'[n][t] = "held"
        PROVE  FALSE
    <3>1. MP!MutualExclusion'
      BY Exclusion, PTL
    <3>2. pc'[n][s] = "held" /\ s # t
      BY <1>5, <2>3, <2>4
    <3> QED BY <2>4, <3>1, <3>2 DEF MP!MutualExclusion
  <2>5. TwinsOfHolder'
    <3>1. TwinsOfHolder
      BY <1>1 DEF RegionInv, LocalInv
    <3>2. ASSUME NEW m \in Node
          PROVE  Mem!Twinned(m) # {} => \E s \in Thread :
                   /\ pc'[m][s] = "held"
                   /\ stage[m][s] \in {"in", "stored"} \/ s \in diffing[m]
      BY <2>3, <3>1 DEF TwinsOfHolder
    <3>3. ASSUME NEW m \in Node, NEW s \in Thread, pc'[m][s] = "held",
                 stage[m][s] = "in", Counter \in Mem!Twinned(m)
          PROVE  twins[m][Counter] = memory[m][Counter]
      <4>1. pc[m][s] = "held"
        <5>1. CASE m = n /\ s = t
          <6>1. PICK u \in Thread : pc[n][u] = "held"
            BY <3>1, <3>3, <5>1 DEF TwinsOfHolder
          <6> QED BY <2>4, <3>3, <5>1, <6>1
        <5>2. CASE ~ (m = n /\ s = t)
          BY <2>1, <3>3, <5>2
        <5> QED BY <5>1, <5>2
      <4> QED BY <3>1, <3>3, <4>1 DEF TwinsOfHolder
    <3> QED
      BY <1>1, <1>5, <3>1, <3>2, <3>3
      DEF TwinsOfHolder, memoryVars, Comparing, Mem!Twinned
  <2> QED BY <1>2, <1>3, <2>2, <2>5 DEF RegionInv, LocalInv
<1>6. ASSUME NEW t \in Thread, UnlockReply(n, t)
      PROVE  RegionInv'
  <2>1. /\ stage[n][t] = "ending" /\ pc[n][t] = "held" /\ unsent[n][t] = {}
        /\ pc' = [pc EXCEPT ![n][t] = "unlocking"]
        /\ stage' = [stage EXCEPT ![n][t] = "in"]
    BY <1>6 DEF UnlockReply, TxEnded, Goto, M!UnlockReply, M!Goto
  <2>2. \A m \in Node, s \in Thread :
          /\ pc'[m][s] = IF m = n /\ s = t THEN "unlocking" ELSE pc[m][s]
          /\ stage'[m][s] = IF m = n /\ s = t THEN "in" ELSE stage[m][s]
    BY <1>1, <2>1, LockedTypes DEF RegionInv, MemoryTypeOK
  <2>3. faulting[n][t] = {}
    BY <1>1, <2>1 DEF RegionInv, LocalInv, WritesUnderLock
  <2>4. WritesUnderLock'
    BY <1>1, <2>1, <2>2, <2>3
    DEF RegionInv, LocalInv, WritesUnderLock, memoryVars
  <2>5. \A m \in Node : Mem!Twinned(m) = {}
    <3>1. t \notin diffing[n]
      BY <1>1, <2>1 DEF RegionInv, LocalInv, WritesUnderLock
    <3> QED BY <1>1, <2>1, <3>1, HolderHears DEF RegionInv, LocalInv, TwinsOfHolder
  <2>6. \A m \in Node, s \in Thread : stage'[m][s] = "in"
    BY <2>1, <2>2, HolderHears
  <2>7. TwinsOfHolder'
    BY <1>1, <2>5, <2>6
    DEF RegionInv, LocalInv, TwinsOfHolder, memoryVars, Comparing, Mem!Twinned
  <2> QED BY <1>2, <1>3, <2>4, <2>7 DEF RegionInv, LocalInv
<1> QED
  BY <1>4, <1>5, <1>6
  DEF OnMutex, Lock, UnlockLocal, HandleMutexMsg, M!Lock, M!LockLocal,
      M!LockRequest, M!LockWait, M!UnlockLocal, M!Goto, M!Handle,
      M!HandleRequest, M!HandleReply

\* The fault of a holder, and the twin that its handler makes.
LEMMA RegionTouch ==
  ASSUME LockedInv, NEW n \in Node, NEW t \in Thread, Touch(n, t)
  PROVE  RegionInv'
<1>1. /\ MemoryTypeOK /\ WritesUnderLock /\ TwinsOfHolder /\ UnsentBrings
      /\ pc[n][t] = "held" /\ stage[n][t] = "in"
      /\ UNCHANGED <<pc, stage, count, memory, timestamp, unsent, diffing, halfway,
                     applying>>
  BY DEF LockedInv, LocalInv, Touch, mutexVars, Mem!Fault, Mem!TxBegin
<1>2. CASE Mem!Fault(n, t, Counter)
  <2>1. /\ faulting' = [faulting EXCEPT ![n][t] = {Counter}]
        /\ UNCHANGED <<twins, writable>>
    BY <1>2 DEF Mem!Fault
  <2>2. /\ faulting' \in [Node -> [Thread -> SUBSET {Counter}]]
        /\ \A m \in Node, s \in Thread :
             faulting'[m][s] = IF m = n /\ s = t THEN {Counter} ELSE faulting[m][s]
    BY <1>1, <2>1 DEF MemoryTypeOK
  <2>3. MemoryTypeOK'
    BY <1>1, <2>1, <2>2, TypesKept DEF MemoryTypeOK
  <2>4. WritesUnderLock'
    BY <1>1, <2>2 DEF WritesUnderLock
  <2>5. TwinsOfHolder' /\ UnsentBrings'
    BY <1>1, <2>1 DEF TwinsOfHolder, UnsentBrings, Comparing, Mem!Twinned, Value
  <2> QED BY <2>3, <2>4, <2>5 DEF RegionInv, LocalInv
<1>3. CASE Mem!TxBegin(n, t)
  <2>0. /\ diffing[n] = {} /\ halfway[n] = {}
        /\ \A s \in Thread : ~ Comparing(n, s)
    BY <1>1, <1>3 DEF Mem!TxBegin, Mem!RegionFree, TwinsOfHolder, Comparing
  <2>1. /\ Counter \in faulting[n][t]
        /\ twins' = [twins EXCEPT ![n] = Mem!TwinOnce(n, Counter)]
        /\ writable' = [writable EXCEPT ![n] = @ \cup {Counter}]
        /\ faulting' = [faulting EXCEPT ![n][t] = {}]
    <3>1. faulting[n][t] \subseteq {Counter}
      BY <1>1 DEF MemoryTypeOK
    <3> QED BY <1>3, <3>1 DEF Mem!TxBegin
  <2> DEFINE tw == Mem!TwinOnce(n, Counter)
  <2>2. tw \in [{Counter} -> Mem!Content] /\ tw[Counter] = memory[n][Counter]
    <3>1. CASE Counter \in Mem!Twinned(n)
      <4>1. tw = twins[n]
        BY <3>1 DEF Mem!TwinOnce
      <4>2. twins[n][Counter] = memory[n][Counter]
        BY <1>1, <3>1 DEF TwinsOfHolder
      <4>3. Mem!Twinned(n) = {Counter} /\ twins[n] \in [{Counter} -> Mem!Content]
        <5>1. /\ Mem!Twinned(n) \subseteq {Counter}
              /\ twins[n] \in [Mem!Twinned(n) -> Mem!Content]
          BY <1>1 DEF MemoryTypeOK, TwinsTypeOK
        <5>2. Mem!Twinned(n) = {Counter}
          BY <3>1, <5>1
        <5> QED BY <5>1, <5>2
      <4> QED BY <4>1, <4>2, <4>3
    <3>2. CASE Counter \notin Mem!Twinned(n)
      <4>1. DOMAIN twins[n] = {}
        BY <1>1, <3>2 DEF MemoryTypeOK, TwinsTypeOK, Mem!Twinned
      <4>2. tw = [x \in {Counter} |-> memory[n][Counter]]
        BY <3>2, <4>1 DEF Mem!TwinOnce, Mem!With
      <4> QED BY <1>1, <4>2 DEF MemoryTypeOK
    <3> QED BY <3>1, <3>2
  <2> HIDE DEF tw
  <2>3. /\ twins' = [m \in Node |-> twins'[m]]
        /\ \A m \in Node : twins'[m] = IF m = n THEN tw ELSE twins[m]
        /\ \A m \in Node : writable'[m] = IF m = n THEN {Counter} ELSE writable[m]
        /\ writable' \in [Node -> SUBSET {Counter}]
        /\ faulting' \in [Node -> [Thread -> SUBSET {Counter}]]
        /\ \A m \in Node, s \in Thread :
             faulting'[m][s] = IF m = n /\ s = t THEN {} ELSE faulting[m][s]
    BY <1>1, <2>1 DEF MemoryTypeOK, TwinsTypeOK, tw
  <2>4. \A m \in Node :
          Mem!Twinned(m)' = IF m = n THEN {Counter} ELSE Mem!Twinned(m)
    BY <2>2, <2>3 DEF Mem!Twinned
  <2>5. MemoryTypeOK'
    <3>1. \A m \in Node : /\ Mem!Twinned(m)' \subseteq {Counter}
                          /\ twins'[m] \in [Mem!Twinned(m)' -> Mem!Content]
      BY <1>1, <2>2, <2>3, <2>4 DEF MemoryTypeOK, TwinsTypeOK
    <3>2. TwinsTypeOK' /\ ApplyingTypeOK'
      BY <1>1, <2>3, <3>1, TypesKept DEF TwinsTypeOK
    <3> QED BY <1>1, <2>3, <3>2 DEF MemoryTypeOK
  <2>6. WritesUnderLock' /\ UnsentBrings'
    <3>1. \A m \in Node, s \in Thread : Comparing(m, s)' <=> Comparing(m, s)
      BY <1>1, <2>0, <2>4 DEF Comparing
    <3>2. WritesUnderLock'
      BY <1>1, <1>3, <2>3 DEF Mem!TxBegin, WritesUnderLock
    <3>3. \A m \in Node : Value(m)' = Value(m)
      BY <1>3 DEF Mem!TxBegin, Value
    <3>4. UnsentBrings'
      BY <1>1, <1>3, <3>1, <3>3 DEF Mem!TxBegin, UnsentBrings
    <3> QED BY <3>2, <3>4
  <2>7. \A s \in Thread : stage[n][s] # "stored"
    BY <1>1, HolderHears
  <2>8. TwinsOfHolder'
    <3> SUFFICES ASSUME NEW m \in Node
                 PROVE  /\ writable'[m] = Mem!Twinned(m)' \ halfway[m]
                        /\ halfway[m] \subseteq Mem!Twinned(m)'
                        /\ Mem!Twinned(m)' # {} => \E s \in Thread :
                             /\ pc[m][s] = "held"
                             /\ stage[m][s] \in {"in", "stored"} \/ s \in diffing[m]
                        /\ \A s \in Thread :
                             /\ pc[m][s] = "held" /\ stage[m][s] = "in"
                                /\ Counter \in Mem!Twinned(m)'
                                => twins'[m][Counter] = memory[m][Counter]
                             /\ stage[m][s] = "stored" => Counter \in Mem!Twinned(m)'
                             /\ stage[m][s] = "stored"
                                \/ (s \in diffing[m] /\ Counter \in Mem!Twinned(m)')
                                => twins'[m][Counter][0] # memory[m][Counter][0]
      BY <1>1 DEF TwinsOfHolder, Comparing
    <3>1. CASE m = n
      BY <1>1, <2>0, <2>2, <2>3, <2>4, <2>7, <3>1
    <3>2. CASE m # n
      <4>1. twins'[m] = twins[m] /\ writable'[m] = writable[m]
            /\ Mem!Twinned(m)' = Mem!Twinned(m)
        BY <2>3, <2>4, <3>2
      <4> QED BY <1>1, <4>1 DEF TwinsOfHolder, Comparing
    <3> QED BY <3>1, <3>2
  <2> QED BY <2>5, <2>6, <2>8 DEF RegionInv, LocalInv
<1> QED BY <1>2, <1>3 DEF Touch

\* The store: from now on the page differs from its twin.
LEMMA StoreStep ==
  ASSUME LockedInv, NEW n \in Node, NEW t \in Thread, Increment(n, t)
  PROVE  /\ pc[n][t] = "held" /\ stage[n][t] = "in" /\ Counter \in Mem!Twinned(n)
         /\ count' = count + 1 /\ UNCHANGED <<chan, mutexVars>>
         /\ UNCHANGED <<twins, writable, timestamp, faulting, unsent, diffing, halfway,
                        applying>>
         /\ memory' \in [Node -> [{Counter} -> Mem!Content]]
         /\ \A m \in Node : Value(m)' = IF m = n THEN Value(n) + 1 ELSE Value(m)
         /\ \A m \in Node : m # n => memory'[m] = memory[m]
         /\ stage' \in [Node -> [Thread -> {"in", "stored", "ending"}]]
         /\ \A m \in Node, s \in Thread :
              stage'[m][s] = IF m = n /\ s = t THEN "stored" ELSE stage[m][s]
<1>1. /\ MemoryTypeOK /\ TwinsOfHolder
      /\ Value(n) \in Mem!Value /\ Value(n) < MaxValue
      /\ Mem!Content = [{0} -> Mem!Value]
  BY CounterTypes
  DEF LockedInv, LocalInv, Increment, Mem!Store, Value, Mem!Content, Mem!Byte
<1>2. /\ memory' = [memory EXCEPT ![n][Counter][0] = @ + 1]
      /\ Counter \in writable[n]
      /\ stage' = [stage EXCEPT ![n][t] = "stored"]
  BY DEF Increment, Mem!Store, Goto
<1>3. /\ memory' \in [Node -> [{Counter} -> Mem!Content]]
      /\ \A m \in Node : Value(m)' = IF m = n THEN Value(n) + 1 ELSE Value(m)
      /\ \A m \in Node : m # n => memory'[m] = memory[m]
  <2> DEFINE c == [memory[n][Counter] EXCEPT ![0] = @ + 1]
  <2>0. memory \in [Node -> [{Counter} -> Mem!Content]]
    BY <1>1 DEF MemoryTypeOK
  <2>1. Value(n) + 1 \in Mem!Value
    BY <1>1, BoundAssumption DEF Mem!Value
  <2>2. c \in Mem!Content /\ c[0] = Value(n) + 1
    <3>1. memory[n][Counter] \in [{0} -> Mem!Value]
      BY <1>1, <2>0
    <3> QED BY <1>1, <2>1, <3>1 DEF Value
  <2>3. memory' = [memory EXCEPT ![n] = [memory[n] EXCEPT ![Counter] = c]]
    BY <1>2
  <2> HIDE DEF c
  <2>4. [memory[n] EXCEPT ![Counter] = c] \in [{Counter} -> Mem!Content]
        /\ [memory[n] EXCEPT ![Counter] = c][Counter] = c
    BY <2>0, <2>2
  <2> QED BY <2>0, <2>2, <2>3, <2>4 DEF Value
<1>4. /\ stage' \in [Node -> [Thread -> {"in", "stored", "ending"}]]
      /\ \A m \in Node, s \in Thread :
           stage'[m][s] = IF m = n /\ s = t THEN "stored" ELSE stage[m][s]
  BY <1>1, <1>2 DEF MemoryTypeOK
<1> QED
  BY <1>1, <1>2, <1>3, <1>4
  DEF TwinsOfHolder, Increment, Goto, Mem!Store

LEMMA RegionIncrement ==
  ASSUME LockedInv, NEW n \in Node, NEW t \in Thread, Increment(n, t)
  PROVE  RegionInv'
<1>1. MemoryTypeOK /\ WritesUnderLock /\ TwinsOfHolder /\ UnsentBrings
  BY DEF LockedInv, LocalInv
<1>2. /\ pc[n][t] = "held" /\ stage[n][t] = "in" /\ Counter \in Mem!Twinned(n)
      /\ count' = count + 1 /\ UNCHANGED pc
      /\ UNCHANGED <<twins, writable, timestamp, faulting, unsent, diffing, halfway,
                     applying>>
      /\ memory' \in [Node -> [{Counter} -> Mem!Content]]
      /\ \A m \in Node : Value(m)' = IF m = n THEN Value(n) + 1 ELSE Value(m)
      /\ \A m \in Node : m # n => memory'[m] = memory[m]
      /\ stage' \in [Node -> [Thread -> {"in", "stored", "ending"}]]
      /\ \A m \in Node, s \in Thread :
           stage'[m][s] = IF m = n /\ s = t THEN "stored" ELSE stage[m][s]
  BY StoreStep DEF mutexVars
<1>3. /\ \A m \in Node, s \in Thread : pc[m][s] = "held" => m = n /\ s = t
      /\ \A m \in Node, s \in Thread : unsent[m][s] # {} => m = n /\ s = t
      /\ unsent[n][t] = {} /\ faulting[n][t] = {}
  BY <1>1, <1>2, HolderHears
  DEF WritesUnderLock, Increment, Mem!Store, Mem!Runs
<1>4. MemoryTypeOK'
  <2>1. TwinsTypeOK' /\ ApplyingTypeOK'
    BY <1>1, <1>2, TypesKept
  <2>2. count' \in Nat
    BY <1>1, <1>2 DEF MemoryTypeOK
  <2> QED BY <1>1, <1>2, <2>1, <2>2 DEF MemoryTypeOK
<1>c. \A m \in Node, s \in Thread : ~ Comparing(m, s)
  BY <1>1, <1>3 DEF WritesUnderLock, Comparing
<1>5. WritesUnderLock'
  BY <1>1, <1>2, <1>3 DEF WritesUnderLock
<1>6. UnsentBrings'
  BY <1>2, <1>3 DEF UnsentBrings
<1>7. TwinsOfHolder'
  <2>1. twins[n][Counter][0] = Value(n) /\ Value(n) \in Nat
    BY <1>1, <1>2, CounterTypes DEF TwinsOfHolder, Value
  <2>2. memory'[n][Counter][0] = Value(n) + 1
    BY <1>2 DEF Value
  <2>3. twins[n][Counter][0] # memory'[n][Counter][0]
    BY <2>1, <2>2
  <2>4. \A m \in Node, s \in Thread : stage[m][s] = "stored" => FALSE
    BY <1>2, HolderHears
  <2>5. \A m \in Node, s \in Thread : ~ Comparing(m, s)'
    BY <1>2, <1>c DEF Comparing, Mem!Twinned
  <2>6. \A m \in Node, s \in Thread :
          /\ stage'[m][s] = "stored" => m = n /\ s = t
          /\ pc[m][s] = "held" => stage'[m][s] = "stored"
    BY <1>2, <1>3, <2>4
  <2> QED
    BY <1>1, <1>2, <1>3, <2>3, <2>5, <2>6 DEF TwinsOfHolder, Mem!Twinned
<1> QED BY <1>4, <1>5, <1>6, <1>7 DEF RegionInv, LocalInv

\* diff_region finds the one run there can be.
LEMMA ChangesOfCounter ==
  ASSUME NEW page \in Mem!Content, NEW twin \in Mem!Content, page[0] # twin[0]
  PROVE  /\ Mem!Changes(page, twin) = {OneByte(page[0])}
         /\ OneByte(page[0]) \in Mem!Section
<1>1. Mem!Byte = {0} /\ page[0] \in Mem!Value /\ twin[0] \in Mem!Value
  BY DEF Mem!Byte, Mem!Content
<1>2. Mem!Differ(page, twin) = {0}
  BY <1>1 DEF Mem!Differ
<1>3. Mem!IsRun(page, twin, 0, 1)
  BY <1>2 DEF Mem!IsRun
<1>4. Mem!DifferentRuns(page, twin) = {<<0, 1>>}
  <2> DEFINE R == Mem!DifferentRuns(page, twin)
  <2>1. R = {r \in {0} \X {1} : Mem!IsRun(page, twin, r[1], r[2])}
    BY <1>1 DEF Mem!DifferentRuns
  <2>2. <<0, 1>> \in R
    BY <1>3, <2>1
  <2>3. \A r \in R : r = <<0, 1>>
    BY <2>1
  <2> QED BY <2>2, <2>3
<1>5. Mem!SectionOf(page, 0, 1) = OneByte(page[0])
  <2>1. Mem!RunLength(0, 1) = 1
    <3>1. \A W \in Nat : 1 < W => 1 % W = 1
      OBVIOUS
    <3>2. 2 ^ 16 \in Nat /\ 1 < 2 ^ 16
      OBVIOUS
    <3> QED BY <3>1, <3>2 DEF Mem!RunLength
  <2>2. [k \in 1 .. 1 |-> page[0 + k - 1]] = <<page[0]>>
    OBVIOUS
  <2> QED BY <2>1, <2>2 DEF Mem!SectionOf, OneByte
<1>6. Mem!Changes(page, twin) = {Mem!SectionOf(page, 0, 1)}
  BY <1>4 DEF Mem!Changes
<1>7. OneByte(page[0]) \in Mem!Section
  <2>1. 1 \in 0 .. 2 ^ 16 - 1
    OBVIOUS
  <2>2. <<page[0]>> \in Seq(Mem!Value)
    BY <1>1
  <2> QED BY <1>1, <2>1, <2>2 DEF Mem!Section, OneByte
<1> QED BY <1>5, <1>6, <1>7

\* The holder that ends its transaction, while it is in diff_region.
Making(n, t) ==
  \/ Goto(n, t, "stored", "ending") /\ Mem!DiffBegin(n, t)
  \/ /\ Goto(n, t, "ending", "ending")
     /\ Mem!DiffPage(n, t) \/ Mem!DiffEnd(n, t)

\* Whoever else there is has nothing to do with the region.
LEMMA OnlyTheHolder ==
  ASSUME LockedInv, NEW n \in Node, NEW t \in Thread, pc[n][t] = "held"
  PROVE  /\ MemoryTypeOK /\ WritesUnderLock /\ TwinsOfHolder /\ UnsentBrings
         /\ faulting[n][t] # {} => stage[n][t] = "in"
         /\ \A m \in Node, s \in Thread : m # n \/ s # t =>
              /\ stage[m][s] = "in" /\ pc[m][s] # "held"
              /\ unsent[m][s] = {} /\ faulting[m][s] = {} /\ s \notin diffing[m]
         /\ \A m \in Node : m # n => Mem!Twinned(m) = {}
BY HolderHears DEF LockedInv, LocalInv, WritesUnderLock

LEMMA RegionDiffBegin ==
  ASSUME LockedInv, NEW n \in Node, NEW t \in Thread, UNCHANGED pc, UNCHANGED count,
         Goto(n, t, "stored", "ending"), Mem!DiffBegin(n, t)
  PROVE  RegionInv' /\ unsent'[n][t] # {}
<1>1. /\ stage[n][t] = "stored" /\ stage' = [stage EXCEPT ![n][t] = "ending"]
      /\ pc[n][t] = "held"
  BY DEF LockedInv, LocalInv, Goto, WritesUnderLock
<1>2. /\ MemoryTypeOK /\ WritesUnderLock /\ TwinsOfHolder /\ UnsentBrings
      /\ \A m \in Node, s \in Thread : m # n \/ s # t =>
           /\ stage[m][s] = "in" /\ pc[m][s] # "held"
           /\ unsent[m][s] = {} /\ faulting[m][s] = {} /\ s \notin diffing[m]
      /\ faulting[n][t] = {}
  BY <1>1, OnlyTheHolder
<1>3. /\ Counter \in Mem!Twinned(n)
      /\ twins[n][Counter][0] # memory[n][Counter][0]
  BY <1>1, <1>2 DEF TwinsOfHolder
<1>4. /\ diffing[n] = {} /\ halfway[n] = {}
      /\ timestamp' = [timestamp EXCEPT ![n] = @ + 1]
      /\ unsent' = [unsent EXCEPT ![n][t] =
           {[type |-> "DIFF", lamport_timestamp |-> timestamp[n] + 1,
             pages |-> Mem!NoChanges]}]
      /\ diffing' = [diffing EXCEPT ![n] = {t}]
      /\ UNCHANGED <<chan, memory, twins, writable, faulting, halfway, applying>>
  BY <1>2, <1>3 DEF Mem!DiffBegin, Mem!RegionFree, TwinsOfHolder
<1> DEFINE d == [type |-> "DIFF", lamport_timestamp |-> timestamp[n] + 1,
                 pages |-> Mem!NoChanges]
<1>5. d \in Mem!Diff /\ d.pages = Mem!NoChanges
  <2>1. timestamp[n] + 1 \in Nat
    BY <1>2 DEF MemoryTypeOK
  <2>2. Mem!NoChanges \in [{Counter} -> SUBSET Mem!Section]
    BY DEF Mem!NoChanges
  <2> QED BY <2>1, <2>2 DEF Mem!Diff
<1>6. unsent' = [unsent EXCEPT ![n][t] = {d}]
  BY <1>4
<1> HIDE DEF d
<1>7. /\ unsent' \in [Node -> [Thread -> SUBSET Mem!Diff]]
      /\ \A m \in Node, s \in Thread :
           unsent'[m][s] = IF m = n /\ s = t THEN {d} ELSE {}
  <2>1. unsent \in [Node -> [Thread -> SUBSET Mem!Diff]] /\ {d} \subseteq Mem!Diff
    BY <1>2, <1>5 DEF MemoryTypeOK
  <2>2. /\ unsent' \in [Node -> [Thread -> SUBSET Mem!Diff]]
        /\ \A m \in Node, s \in Thread :
             unsent'[m][s] = IF m = n /\ s = t THEN {d} ELSE unsent[m][s]
    BY <1>6, <2>1
  <2>3. \A m \in Node, s \in Thread : m # n \/ s # t => unsent[m][s] = {}
    BY <1>2
  <2> QED BY <2>2, <2>3
<1>8. /\ diffing' \in [Node -> SUBSET Thread] /\ timestamp' \in [Node -> Nat]
      /\ \A m \in Node : diffing'[m] = IF m = n THEN {t} ELSE diffing[m]
  BY <1>2, <1>4 DEF MemoryTypeOK
<1>9. /\ stage' \in [Node -> [Thread -> {"in", "stored", "ending"}]]
      /\ \A m \in Node, s \in Thread :
           stage'[m][s] = IF m = n /\ s = t THEN "ending" ELSE "in"
  BY <1>1, <1>2 DEF MemoryTypeOK
<1>10. MemoryTypeOK'
  BY <1>2, <1>4, <1>7, <1>8, <1>9, TypesKept DEF MemoryTypeOK
<1>11. WritesUnderLock'
  BY <1>1, <1>2, <1>4, <1>7, <1>8, <1>9 DEF WritesUnderLock
<1>12. \A m \in Node, s \in Thread : Comparing(m, s)' <=> m = n /\ s = t
  BY <1>2, <1>3, <1>4, <1>8 DEF Comparing, Mem!Twinned
<1>13. UnsentBrings'
  BY <1>5, <1>7, <1>12 DEF UnsentBrings
<1>14. TwinsOfHolder'
  BY <1>1, <1>2, <1>3, <1>4, <1>8, <1>9, <1>12, OnlyTheHolder
  DEF TwinsOfHolder, Mem!Twinned
<1> QED BY <1>7, <1>10, <1>11, <1>13, <1>14 DEF RegionInv, LocalInv

LEMMA RegionProtect ==
  ASSUME LockedInv, NEW n \in Node, NEW t \in Thread, UNCHANGED <<pc, count, stage>>,
         t \in diffing[n], halfway[n] = {}, Counter \in Mem!Twinned(n),
         halfway' = [halfway EXCEPT ![n] = {Counter}],
         writable' = [writable EXCEPT ![n] = writable[n] \ {Counter}],
         UNCHANGED <<memory, timestamp, faulting, diffing, applying, twins, unsent>>
  PROVE  RegionInv'
<1>1. MemoryTypeOK /\ WritesUnderLock /\ TwinsOfHolder /\ UnsentBrings
  BY DEF LockedInv, LocalInv
<1>2. /\ writable' \in [Node -> SUBSET {Counter}]
      /\ halfway' \in [Node -> SUBSET {Counter}]
      /\ \A m \in Node :
           /\ writable'[m] = IF m = n THEN {} ELSE writable[m]
           /\ halfway'[m] = IF m = n THEN {Counter} ELSE halfway[m]
      /\ Mem!Twinned(n) = {Counter}
  BY <1>1 DEF MemoryTypeOK, TwinsTypeOK
<1>3. MemoryTypeOK'
  BY <1>1, <1>2, TypesKept DEF MemoryTypeOK
<1>4. WritesUnderLock' /\ UnsentBrings'
  BY <1>1 DEF WritesUnderLock, UnsentBrings, Comparing, Mem!Twinned, Value
<1>5. TwinsOfHolder'
  BY <1>1, <1>2 DEF TwinsOfHolder, Comparing, Mem!Twinned
<1> QED BY <1>3, <1>4, <1>5 DEF RegionInv, LocalInv

LEMMA RegionCompare ==
  ASSUME LockedInv, NEW n \in Node, NEW t \in Thread, UNCHANGED <<pc, count, stage>>,
         t \in diffing[n], Counter \in halfway[n],
         halfway' = [halfway EXCEPT ![n] = {}], Mem!Compare(n, t, Counter),
         UNCHANGED <<memory, timestamp, faulting, diffing, applying>>
  PROVE  RegionInv' /\ unsent'[n][t] # {}
<1>1. /\ MemoryTypeOK /\ WritesUnderLock /\ TwinsOfHolder /\ UnsentBrings
      /\ unsent[n][t] # {} /\ stage[n][t] = "ending" /\ pc[n][t] = "held"
      /\ Comparing(n, t)
  BY DEF LockedInv, LocalInv, WritesUnderLock, TwinsOfHolder, Comparing
<1>2. /\ Mem!Twinned(n) = {Counter}
      /\ twins[n][Counter] \in Mem!Content /\ memory[n][Counter] \in Mem!Content
      /\ twins[n][Counter][0] # memory[n][Counter][0]
      /\ writable[n] = {}
  <2>1. /\ Mem!Twinned(n) \subseteq {Counter}
        /\ twins[n] \in [Mem!Twinned(n) -> Mem!Content]
        /\ memory[n][Counter] \in Mem!Content
    BY <1>1 DEF MemoryTypeOK, TwinsTypeOK
  <2>2. /\ Counter \in Mem!Twinned(n)
        /\ twins[n][Counter][0] # memory[n][Counter][0]
        /\ writable[n] = Mem!Twinned(n) \ halfway[n]
    BY <1>1 DEF TwinsOfHolder, Comparing
  <2> QED BY <2>1, <2>2
<1>3. /\ unsent' = [unsent EXCEPT
                      ![n][t] = {Mem!WithChanges(d, n, Counter) : d \in unsent[n][t]}]
      /\ twins' = [twins EXCEPT ![n] = Mem!Without(twins[n], Counter)]
      /\ UNCHANGED writable
  BY DEF Mem!Compare
<1>4. PICK d \in unsent[n][t] : unsent[n][t] = {d} /\ d.pages = Mem!NoChanges
  BY <1>1 DEF UnsentBrings
<1> DEFINE e == Mem!WithChanges(d, n, Counter)
<1>5. e \in Mem!Diff /\ e.pages = Changed(Value(n)) /\ IsUpdate(e)
  <2>1. /\ Mem!Changes(memory[n][Counter], twins[n][Counter]) = {OneByte(Value(n))}
        /\ OneByte(Value(n)) \in Mem!Section
    BY <1>2, ChangesOfCounter DEF Value
  <2>2. d \in Mem!Diff /\ Value(n) \in Mem!Value
    <3>1. unsent[n][t] \subseteq Mem!Diff
      BY <1>1 DEF MemoryTypeOK
    <3> QED BY <1>1, <3>1, CounterTypes
  <2>3. e = [d EXCEPT !.pages = [d.pages EXCEPT ![Counter] = {OneByte(Value(n))}]]
    BY <2>1 DEF Mem!WithChanges
  <2>4. [d.pages EXCEPT ![Counter] = {OneByte(Value(n))}] = Changed(Value(n))
    BY <1>4 DEF Mem!NoChanges, Changed
  <2>5. Changed(Value(n)) \in [{Counter} -> SUBSET Mem!Section]
    BY <2>1 DEF Changed
  <2> HIDE DEF e
  <2>6. e = [d EXCEPT !.pages = Changed(Value(n))]
    BY <2>3, <2>4
  <2> QED BY <2>2, <2>5, <2>6 DEF Mem!Diff, IsUpdate
<1>6. unsent' = [unsent EXCEPT ![n][t] = {e}]
  BY <1>3, <1>4
<1> HIDE DEF e
<1>7. Brought(e) = Value(n)
  BY <1>5, ChangedReads DEF Brought, Mem!Brought
<1>8. /\ unsent' \in [Node -> [Thread -> SUBSET Mem!Diff]]
      /\ \A m \in Node, s \in Thread :
           unsent'[m][s] = IF m = n /\ s = t THEN {e} ELSE unsent[m][s]
  <2>1. unsent \in [Node -> [Thread -> SUBSET Mem!Diff]] /\ {e} \subseteq Mem!Diff
    BY <1>1, <1>5 DEF MemoryTypeOK
  <2> QED BY <1>6, <2>1
<1>9. /\ twins' = [m \in Node |-> twins'[m]]
      /\ \A m \in Node :
           /\ Mem!Twinned(m)' = IF m = n THEN {} ELSE Mem!Twinned(m)
           /\ m # n => twins'[m] = twins[m]
           /\ twins'[m] \in [Mem!Twinned(m)' -> Mem!Content]
  <2>1. /\ twins' = [m \in Node |-> twins'[m]]
        /\ \A m \in Node : twins'[m] =
             IF m = n THEN Mem!Without(twins[n], Counter) ELSE twins[m]
    BY <1>1, <1>3 DEF MemoryTypeOK, TwinsTypeOK
  <2>2. Mem!Without(twins[n], Counter) \in [{} -> Mem!Content]
    BY <1>2 DEF Mem!Without, Mem!Twinned
  <2>3. \A m \in Node : twins[m] \in [Mem!Twinned(m) -> Mem!Content]
    BY <1>1 DEF MemoryTypeOK, TwinsTypeOK
  <2>4. \A m \in Node : Mem!Twinned(m)' = IF m = n THEN {} ELSE Mem!Twinned(m)
    BY <2>1, <2>2 DEF Mem!Twinned
  <2> QED BY <2>1, <2>2, <2>3, <2>4
<1>10. /\ halfway' \in [Node -> SUBSET {Counter}]
       /\ \A m \in Node : halfway'[m] = IF m = n THEN {} ELSE halfway[m]
  BY <1>1 DEF MemoryTypeOK
<1>11. MemoryTypeOK'
  <2>1. TwinsTypeOK'
    <3>1. \A m \in Node : Mem!Twinned(m)' \subseteq {Counter}
      BY <1>1, <1>9 DEF MemoryTypeOK, TwinsTypeOK
    <3> QED BY <1>9, <3>1 DEF TwinsTypeOK
  <2> QED BY <1>1, <1>3, <1>8, <1>10, <2>1, TypesKept DEF MemoryTypeOK
<1>12. WritesUnderLock'
  <2>1. \A m \in Node, s \in Thread : unsent'[m][s] # {} <=> unsent[m][s] # {}
    <3>1. {e} # {}
      OBVIOUS
    <3> QED BY <1>1, <1>8, <3>1
  <2> QED BY <1>1, <2>1 DEF WritesUnderLock
<1>13. \A m \in Node, s \in Thread :
         m # n \/ s # t => unsent[m][s] = {} /\ stage[m][s] = "in" /\ s \notin diffing[m]
  BY <1>1, OnlyTheHolder
<1>14. \A m \in Node, s \in Thread : ~ Comparing(m, s)'
  BY <1>9, <1>13 DEF Comparing
<1>15. UnsentBrings'
  BY <1>5, <1>7, <1>8, <1>13, <1>14 DEF UnsentBrings, Value
<1>16. TwinsOfHolder'
  BY <1>1, <1>2, <1>3, <1>9, <1>10, <1>13, <1>14 DEF TwinsOfHolder
<1> QED BY <1>8, <1>11, <1>12, <1>15, <1>16 DEF RegionInv, LocalInv

LEMMA RegionDiffEnd ==
  ASSUME LockedInv, NEW n \in Node, NEW t \in Thread, UNCHANGED <<pc, count, stage>>,
         Mem!DiffEnd(n, t)
  PROVE  RegionInv'
<1>1. MemoryTypeOK /\ WritesUnderLock /\ TwinsOfHolder /\ UnsentBrings
  BY DEF LockedInv, LocalInv
<1>2. /\ halfway[n] = {} /\ Mem!Twinned(n) = {}
      /\ diffing' = [diffing EXCEPT ![n] = {}]
      /\ UNCHANGED <<memory, twins, writable, timestamp, faulting, unsent, halfway,
                     applying>>
  BY DEF Mem!DiffEnd
<1>3. /\ diffing' \in [Node -> SUBSET Thread]
      /\ \A m \in Node : diffing'[m] = IF m = n THEN {} ELSE diffing[m]
  BY <1>1, <1>2 DEF MemoryTypeOK
<1>4. MemoryTypeOK'
  BY <1>1, <1>2, <1>3, TypesKept DEF MemoryTypeOK
<1>5. \A m \in Node, s \in Thread : Comparing(m, s)' <=> Comparing(m, s)
  BY <1>2, <1>3 DEF Comparing, Mem!Twinned
<1>6. WritesUnderLock' /\ UnsentBrings'
  BY <1>1, <1>2, <1>3, <1>5 DEF WritesUnderLock, UnsentBrings, Value
<1>7. TwinsOfHolder'
  BY <1>1, <1>2, <1>3, <1>5 DEF TwinsOfHolder, Mem!Twinned
<1> QED BY <1>4, <1>6, <1>7 DEF RegionInv, LocalInv

\* The making of the diff, step by step.
LEMMA RegionMaking ==
  ASSUME LockedInv, NEW n \in Node, NEW t \in Thread, UNCHANGED <<pc, count>>,
         Making(n, t)
  PROVE  RegionInv' /\ unsent'[n][t] # {}
<1>1. CASE Goto(n, t, "stored", "ending") /\ Mem!DiffBegin(n, t)
  BY <1>1, RegionDiffBegin
<1>2. ASSUME Goto(n, t, "ending", "ending"), Mem!DiffPage(n, t) \/ Mem!DiffEnd(n, t)
      PROVE  RegionInv' /\ unsent'[n][t] # {}
  <2>1. UNCHANGED stage
    BY <1>2 DEF Goto, LockedInv, MemoryTypeOK
  <2>2. t \in diffing[n] /\ unsent[n][t] # {}
    BY <1>2 DEF Mem!DiffPage, Mem!DiffEnd, LockedInv, LocalInv, WritesUnderLock
  <2>3. CASE Mem!DiffEnd(n, t)
    BY <2>1, <2>2, <2>3, RegionDiffEnd DEF Mem!DiffEnd
  <2>4. CASE Mem!DiffPage(n, t)
    <3>1. CASE halfway[n] = {}
      <4>1. /\ Counter \in Mem!Twinned(n) /\ Mem!Protect(n, t, Counter)
            /\ halfway' = [halfway EXCEPT ![n] = {Counter}]
            /\ UNCHANGED <<memory, timestamp, faulting, diffing, applying>>
        BY <2>4, <3>1 DEF Mem!DiffPage, Mem!PageStep
      <4> QED
        BY <2>1, <2>2, <3>1, <4>1, RegionProtect DEF Mem!Protect, Mem!StillWritable
    <3>2. CASE halfway[n] # {}
      <4>1. /\ Counter \in halfway[n] /\ Mem!Compare(n, t, Counter)
            /\ halfway' = [halfway EXCEPT ![n] = {}]
            /\ UNCHANGED <<memory, timestamp, faulting, diffing, applying>>
        BY <2>4, <3>2 DEF Mem!DiffPage, Mem!PageStep
      <4> QED BY <2>1, <2>2, <4>1, RegionCompare
    <3> QED BY <3>1, <3>2
  <2> QED BY <1>2, <2>3, <2>4
<1> QED BY <1>1, <1>2 DEF Making

LEMMA RegionUnlockTxEnd ==
  ASSUME LockedInv, NEW n \in Node, NEW t \in Thread, UnlockTxEnd(n, t)
  PROVE  RegionInv'
<1>1. /\ MemoryTypeOK /\ WritesUnderLock /\ TwinsOfHolder /\ UnsentBrings
      /\ UNCHANGED <<pc, count>>
  BY DEF LockedInv, LocalInv, UnlockTxEnd, mutexVars
<1>2. CASE Making(n, t)
  BY <1>1, <1>2, RegionMaking
<1>3. CASE Goto(n, t, "ending", "ending") /\ Mem!SendDiff(n, t)
  <2>1. /\ unsent' = [unsent EXCEPT ![n][t] = {}] /\ t \notin diffing[n]
        /\ stage' = [stage EXCEPT ![n][t] = "ending"] /\ stage[n][t] = "ending"
        /\ UNCHANGED <<memory, twins, writable, timestamp, faulting, diffing, halfway,
                       applying>>
    BY <1>3 DEF Goto, Mem!SendDiff
  <2>2. /\ unsent' \in [Node -> [Thread -> SUBSET Mem!Diff]]
        /\ \A m \in Node, s \in Thread :
             unsent'[m][s] = IF m = n /\ s = t THEN {} ELSE unsent[m][s]
        /\ stage' = stage
    BY <1>1, <2>1 DEF MemoryTypeOK
  <2>3. MemoryTypeOK'
    BY <1>1, <2>1, <2>2, TypesKept DEF MemoryTypeOK
  <2>4. WritesUnderLock' /\ UnsentBrings'
    BY <1>1, <2>1, <2>2
    DEF WritesUnderLock, UnsentBrings, Comparing, Mem!Twinned, Value
  <2>5. TwinsOfHolder'
    BY <1>1, <2>1, <2>2 DEF TwinsOfHolder, Comparing, Mem!Twinned
  <2> QED BY <2>3, <2>4, <2>5 DEF RegionInv, LocalInv
<1> QED BY <1>2, <1>3 DEF UnlockTxEnd, Making

\* The page that is applied: nobody holds the mutex here, and there is no twin.
LEMMA ApplyStep ==
  ASSUME LockedInv, NEW n \in Node, Mem!ApplyPage(n)
  PROVE  /\ \A t \in Thread : pc[n][t] # "held"
         /\ UNCHANGED <<chan, timestamp, faulting, unsent, diffing, halfway, twins,
                        writable>>
         /\ memory' \in [Node -> [{Counter} -> Mem!Content]]
         /\ \A m \in Node : Value(m)' = IF m = n THEN Seen(n) ELSE Value(m)
         /\ \A m \in Node : m # n => memory'[m] = memory[m]
         /\ \A m \in Node :
              applying'[m] = IF m = n THEN Mem!NoChanges ELSE applying[m]
         /\ applying' \in [Node -> [{Counter} -> SUBSET Mem!Section]]
<1> DEFINE s == applying[n][Counter]
<1>1. MemoryTypeOK /\ TwinsOfHolder
  BY DEF LockedInv, LocalInv
<1>2. /\ s # {}
      /\ applying' = [applying EXCEPT ![n][Counter] = {}]
      /\ memory' = [memory EXCEPT ![n][Counter] = Mem!Written(@, s)]
      /\ twins' = [twins EXCEPT ![n] = Mem!TwinsWith(n, Counter, s)]
      /\ writable' = IF Counter \notin Mem!Twinned(n)
                     THEN [writable EXCEPT ![n] = @ \ {Counter}]
                     ELSE writable
      /\ UNCHANGED <<chan, timestamp, faulting, unsent, diffing, halfway>>
  BY DEF Mem!ApplyPage
<1>3. applying[n] # Mem!NoChanges
  BY <1>2 DEF Mem!NoChanges
<1>4. PICK v \in Mem!Value : applying[n] = Changed(v)
  BY <1>1, <1>3 DEF MemoryTypeOK, ApplyingTypeOK
<1>5. \A t \in Thread : pc[n][t] # "held"
  BY <1>3, HolderHears
<1>6. Mem!Twinned(n) = {} /\ writable[n] = {}
  BY <1>1, <1>5 DEF TwinsOfHolder
<1>7. UNCHANGED <<twins, writable>>
  <2>1. Mem!TwinsWith(n, Counter, s) = twins[n]
    BY <1>6 DEF Mem!TwinsWith
  <2>2. writable \in [Node -> SUBSET {Counter}]
    BY <1>1 DEF MemoryTypeOK
  <2>3. writable' = writable
    BY <1>2, <1>6, <2>2
  <2>4. twins' = [twins EXCEPT ![n] = twins[n]]
    BY <1>2, <2>1
  <2>5. twins' = twins
    <3>1. twins = [m \in Node |-> twins[m]]
      BY <1>1 DEF MemoryTypeOK, TwinsTypeOK
    <3> QED BY <2>4, <3>1
  <2> QED BY <2>3, <2>5
<1>8. /\ Mem!Written(memory[n][Counter], s) \in Mem!Content
      /\ Mem!Written(memory[n][Counter], s)[0] = Seen(n)
  BY <1>1, <1>4, AppliedValue DEF MemoryTypeOK, Seen, Mem!Applied
<1>9. memory \in [Node -> [{Counter} -> Mem!Content]]
      /\ applying \in [Node -> [{Counter} -> SUBSET Mem!Section]]
  BY <1>1 DEF MemoryTypeOK, ApplyingTypeOK
<1>10. /\ memory' \in [Node -> [{Counter} -> Mem!Content]]
       /\ \A m \in Node : Value(m)' = IF m = n THEN Seen(n) ELSE Value(m)
       /\ \A m \in Node : m # n => memory'[m] = memory[m]
  <2> DEFINE c == Mem!Written(memory[n][Counter], s)
  <2>1. memory' = [memory EXCEPT ![n][Counter] = c]
    BY <1>2
  <2>2. c \in Mem!Content /\ c[0] = Seen(n)
    BY <1>8
  <2> HIDE DEF c
  <2> QED BY <1>9, <2>1, <2>2 DEF Value
<1>11. /\ applying' \in [Node -> [{Counter} -> SUBSET Mem!Section]]
       /\ \A m \in Node : applying'[m] = IF m = n THEN Mem!NoChanges ELSE applying[m]
  <2>1. [applying[n] EXCEPT ![Counter] = {}] = Mem!NoChanges
    BY <1>9 DEF Mem!NoChanges
  <2>2. applying' = [applying EXCEPT ![n] = [applying[n] EXCEPT ![Counter] = {}]]
    BY <1>2
  <2>3. Mem!NoChanges \in [{Counter} -> SUBSET Mem!Section]
    BY DEF Mem!NoChanges
  <2> QED BY <1>9, <2>1, <2>2, <2>3
<1> QED BY <1>2, <1>5, <1>7, <1>10, <1>11

LEMMA RegionHandleDiff ==
  ASSUME LockedInv, NEW n \in Node, NEW p \in Node, HandleDiff(n, p)
  PROVE  RegionInv'
<1>1. /\ MemoryTypeOK /\ WritesUnderLock /\ TwinsOfHolder /\ UnsentBrings
      /\ UNCHANGED <<pc, count, stage>>
  BY DEF LockedInv, LocalInv, HandleDiff, mutexVars
<1>2. CASE /\ chan[p][n] # << >> /\ M!Message(p, n).type = "DIFF"
           /\ Mem!ReadDiff(n, p)
  <2> DEFINE m == Head(chan[p][n])
  <2>1. /\ Brought(m) \in Mem!Value /\ m \in Mem!Diff
        /\ applying' = [applying EXCEPT ![n] = Changed(Brought(m))]
    BY <1>2, DiffTaken
  <2>2. /\ UNCHANGED <<memory, twins, writable, faulting, unsent, diffing, halfway>>
        /\ timestamp' = [timestamp EXCEPT ![n] =
                           Mem!CaughtUp(n, m.lamport_timestamp)]
    BY <1>2 DEF Mem!ReadDiff
  <2>3. m.lamport_timestamp \in Nat /\ m.pages \in [{Counter} -> SUBSET Mem!Section]
    BY <2>1 DEF Mem!Diff
  <2>4. Changed(Brought(m)) \in [{Counter} -> SUBSET Mem!Section]
    BY <1>2, <2>3, DiffTaken, UpdateBrings
  <2> HIDE DEF m
  <2>5. timestamp' \in [Node -> Nat]
    BY <1>1, <2>2, <2>3 DEF MemoryTypeOK, Mem!CaughtUp
  <2>6. ApplyingTypeOK'
    BY <1>1, <2>1, <2>4 DEF MemoryTypeOK, ApplyingTypeOK
  <2>7. MemoryTypeOK'
    BY <1>1, <2>2, <2>5, <2>6, TypesKept DEF MemoryTypeOK
  <2>8. WritesUnderLock' /\ TwinsOfHolder' /\ UnsentBrings'
    BY <1>1, <2>2
    DEF WritesUnderLock, TwinsOfHolder, UnsentBrings, Comparing, Mem!Twinned, Value
  <2> QED BY <2>7, <2>8 DEF RegionInv, LocalInv
<1>3. CASE Mem!ApplyPage(n)
  <2>1. /\ \A t \in Thread : pc[n][t] # "held"
        /\ UNCHANGED <<chan, timestamp, faulting, unsent, diffing, halfway, twins,
                       writable>>
        /\ memory' \in [Node -> [{Counter} -> Mem!Content]]
        /\ \A m \in Node : Value(m)' = IF m = n THEN Seen(n) ELSE Value(m)
        /\ \A m \in Node : m # n => memory'[m] = memory[m]
        /\ \A m \in Node :
             applying'[m] = IF m = n THEN Mem!NoChanges ELSE applying[m]
        /\ applying' \in [Node -> [{Counter} -> SUBSET Mem!Section]]
    BY <1>3, ApplyStep
  <2>2. ApplyingTypeOK'
    BY <1>1, <2>1 DEF MemoryTypeOK, ApplyingTypeOK
  <2>3. MemoryTypeOK'
    BY <1>1, <2>1, <2>2, TypesKept DEF MemoryTypeOK
  <2>4. WritesUnderLock'
    BY <1>1, <2>1 DEF WritesUnderLock
  <2>5. \A t \in Thread : unsent[n][t] = {} /\ stage[n][t] = "in"
    BY <1>1, <2>1 DEF WritesUnderLock
  <2>6. UnsentBrings'
    BY <1>1, <2>1, <2>5 DEF UnsentBrings, Comparing, Mem!Twinned
  <2>7. TwinsOfHolder'
    <3>1. \A t \in Thread : t \notin diffing[n]
      BY <1>1, <2>5 DEF WritesUnderLock
    <3> QED BY <1>1, <2>1, <2>5, <3>1 DEF TwinsOfHolder, Comparing, Mem!Twinned
  <2> QED BY <2>3, <2>4, <2>6, <2>7 DEF RegionInv, LocalInv
<1> QED BY <1>2, <1>3 DEF HandleDiff

LEMMA RegionStep ==
  ASSUME MP!AtMostTwoNodes, LockedInv, [Next]_vars
  PROVE  RegionInv'
<1>1. MP!TwoInv'
  BY MutexUndisturbed
<1>2. ASSUME NEW n \in Node, OnMutex(n)
      PROVE  RegionInv'
  BY <1>1, <1>2, RegionMutex
<1>3. CASE UNCHANGED vars
  <2>1. MemoryTypeOK /\ LocalInv
    BY DEF LockedInv
  <2>2. TwinsTypeOK' /\ ApplyingTypeOK'
    BY <1>3, <2>1, TypesKept DEF vars, memoryVars
  <2>3. MemoryTypeOK'
    BY <1>3, <2>1, <2>2 DEF vars, memoryVars, MemoryTypeOK
  <2>4. LocalInv'
    BY <1>3, <2>1
    DEF vars, mutexVars, memoryVars, LocalInv, WritesUnderLock, TwinsOfHolder,
        UnsentBrings, Comparing, Mem!Twinned, Value
  <2> QED BY <2>3, <2>4 DEF RegionInv
<1> QED
  BY <1>2, <1>3, RegionTouch, RegionIncrement, RegionUnlockTxEnd,
     RegionHandleDiff
  DEF Next, Work, Listen, OnMutex

----------------------------------------------------------------------------
(***************************************************************************)
(* The copies: what each step does to the values on the way from p to n.   *)
(***************************************************************************)

LEMMA CopiesKept ==
  ASSUME CopiesInv, UNCHANGED <<chan, local_request, wait_on, applying, count>>,
         \A n \in Node : Seen(n)' = Seen(n) /\ Untold(n)' = Untold(n)
  PROVE  CopiesInv'
<1>1. ASSUME NEW p \in Node, NEW n \in Node, p # n
      PROVE  LockedPairInv(p, n)'
  <2>1. LockedPairInv(p, n)
    BY <1>1 DEF CopiesInv
  <2> QED
    BY <2>1 DEF LockedPairInv, DiffsAreNews, UntoldIsNewest, Catching, Heard
<1>2. CopiesTrail' /\ AloneInv'
  BY DEF CopiesInv, CopiesTrail, AloneInv
<1> QED BY <1>1, <1>2 DEF CopiesInv

\* The listener hears of a reply only when it has applied the diffs before it.
LEMMA HeardWhenIdle ==
  ASSUME LockedInv, NEW m \in Node, OnMutex(m), NEW p \in Node, NEW n \in Node,
         p # n, local_request'[n] # 0, p \notin wait_on'[n]
  PROVE  \/ local_request[n] # 0 /\ p \notin wait_on[n]
         \/ applying[n] = Mem!NoChanges
<1>1. /\ local_request \in [Node -> Nat] /\ wait_on \in [Node -> SUBSET Node]
      /\ peers = [a \in Node |-> Node \ {a}]
  BY LockedTypes DEF MP!LocalInv, MP!TypeOK, MP!PeersKnown
<1>2. ASSUME NEW t \in Thread, M!LockRequest(m, t)
      PROVE  local_request[n] # 0 /\ p \notin wait_on[n]
  <2>1. m # n
    BY <1>1, <1>2 DEF M!LockRequest, M!Awaited
  <2> QED BY <1>1, <1>2, <2>1 DEF M!LockRequest
<1>3. ASSUME NEW t \in Thread, M!UnlockReply(m, t)
      PROVE  local_request[n] # 0 /\ p \notin wait_on[n]
  BY <1>1, <1>3 DEF M!UnlockReply, M!NoRequest
<1>4. ASSUME NEW o \in Node, HandleMutexMsg(m, o)
      PROVE  \/ local_request[n] # 0 /\ p \notin wait_on[n]
             \/ applying[n] = Mem!NoChanges
  <2>1. CASE m = n
    BY <1>4, <2>1 DEF HandleMutexMsg
  <2>2. CASE m # n
    BY <1>1, <1>4, <2>2
    DEF HandleMutexMsg, M!Handle, M!HandleRequest, M!HandleReply
  <2> QED BY <2>1, <2>2
<1>5. CASE UNCHANGED <<local_request, wait_on>>
  BY <1>5
<1> QED
  BY <1>2, <1>3, <1>4, <1>5
  DEF OnMutex, Lock, UnlockReply, UnlockLocal, M!Lock, M!LockLocal, M!LockWait,
      M!UnlockLocal

\* A step of the mutex moves no diff, and lets nobody hear a reply too early.
LEMMA CopiesMutex ==
  ASSUME LockedInv, NEW m \in Node, OnMutex(m)
  PROVE  CopiesInv'
<1>1. /\ UNCHANGED <<memory, unsent, applying, count>> /\ [MP!Next]_MP!vars
      /\ CopiesInv /\ MemoryTypeOK
  BY MutexMoves DEF memoryVars, LockedInv
<1>2. \A n \in Node : Untold(n)' = Untold(n) /\ Seen(n)' = Seen(n)
  <2>1. CASE UNCHANGED stage
    BY <1>1, <2>1 DEF Untold, Seen, Mem!Applied
  <2>2. ASSUME NEW t \in Thread, UnlockReply(m, t)
        PROVE  \A n \in Node : Untold(n)' = Untold(n)
    <3>1. stage[m][t] = "ending" /\ stage' = [stage EXCEPT ![m][t] = "in"]
      BY <2>2 DEF UnlockReply, TxEnded, Goto
    <3>2. \A n \in Node, s \in Thread :
            stage'[n][s] = IF n = m /\ s = t THEN "in" ELSE stage[n][s]
      BY <1>1, <3>1 DEF MemoryTypeOK
    <3> QED BY <1>1, <3>1, <3>2 DEF Untold
  <2>3. \A n \in Node : Seen(n)' = Seen(n)
    BY <1>1 DEF Seen, Mem!Applied
  <2>4. UNCHANGED stage \/ \E t \in Thread : UnlockReply(m, t)
    BY DEF OnMutex, Lock, UnlockLocal, HandleMutexMsg
  <2> QED BY <2>1, <2>2, <2>3, <2>4
<1>3. ASSUME NEW p \in Node, NEW n \in Node, p # n
      PROVE  LockedPairInv(p, n)'
  <2> DEFINE s == chan[p][n]
             t == chan'[p][n]
  <2>0. LockedPairInv(p, n)
    BY <1>1, <1>3 DEF CopiesInv
  <2>1. /\ s \in Seq(Messages) /\ InOrder(s) /\ AheadOfReply(s)
        /\ AllUpdates(s)
    BY <2>0, LockedTypes DEF LockedPairInv, DiffsAreNews
  <2>2. MP!MutexAt(s, t)
    BY <1>1, LockedTypes, MP!ConnectionStep, NodeAssumption, ThreadAssumption,
       MaxTimeAssumption, ForeignDiffs
  <2>3. ASSUME local_request'[n] # 0, p \notin wait_on'[n]
        PROVE  \/ local_request[n] # 0 /\ p \notin wait_on[n]
               \/ s # << >> /\ Head(s).type = "REPLY" /\ t = Tail(s)
    BY <1>1, <1>3, <2>3, LockedTypes, MP!HeardStep, NodeAssumption,
       ThreadAssumption, MaxTimeAssumption, ForeignDiffs DEF MP!NoRequest
  <2>4. ASSUME local_request'[n] # 0, p \notin wait_on'[n]
        PROVE  \/ local_request[n] # 0 /\ p \notin wait_on[n]
               \/ applying[n] = Mem!NoChanges
    BY <1>3, <2>4, HeardWhenIdle
  <2> HIDE DEF s, t
  <2>5. /\ InOrder(t) /\ AheadOfReply(t) /\ AllUpdates(t)
        /\ Updates(t) = Updates(s)
    <3>1. CASE t = s
      BY <2>1, <3>1
    <3>2. ASSUME NEW ms \in Seq(MP!MutexMessage), t = s \o ms
          PROVE  /\ InOrder(t) /\ AheadOfReply(t) /\ AllUpdates(t)
                 /\ Updates(t) = Updates(s)
      <4>1. \A x \in Range(ms) : x.type # "DIFF"
        <5>1. Range(ms) \subseteq MP!MutexMessage
          BY RangeOfSeq
        <5> QED BY <5>1 DEF MP!MutexMessage
      <4>2. ms \in Seq(Messages)
        <5>1. \A k \in 1 .. Len(ms) : ms[k] \in Messages
          BY ElementOfSeq DEF Messages, MP!AnyMessage
        <5> QED BY <5>1
      <4> QED BY <2>1, <3>2, <4>1, <4>2, OrderedAppend
    <3>3. CASE s # << >> /\ Head(s).type \in {"REQUEST", "REPLY"} /\ t = Tail(s)
      BY <2>1, <3>3, OrderedTail
    <3> QED BY <2>2, <3>1, <3>2, <3>3 DEF MP!MutexAt
  <2>6. Heard(p, n)'
    <3> SUFFICES ASSUME local_request'[n] # 0, p \notin wait_on'[n]
                 PROVE  Updates(t) = {} /\ applying[n] = Mem!NoChanges
      BY <1>1 DEF Heard, t
    <3>1. CASE local_request[n] # 0 /\ p \notin wait_on[n]
      BY <2>0, <2>5, <3>1 DEF LockedPairInv, Heard, s
    <3>2. CASE /\ s # << >> /\ Head(s).type = "REPLY" /\ t = Tail(s)
               /\ applying[n] = Mem!NoChanges
      BY <2>1, <3>2, OrderedTail
    <3> QED BY <2>3, <2>4, <3>1, <3>2
  <2> QED
    BY <1>1, <1>2, <1>3, <2>0, <2>5, <2>6
    DEF LockedPairInv, DiffsAreNews, UntoldIsNewest, Catching, s, t
<1>4. CopiesTrail' /\ AloneInv'
  BY <1>1, <1>2 DEF CopiesInv, CopiesTrail, AloneInv
<1> QED BY <1>3, <1>4 DEF CopiesInv

LEMMA CopiesTouch ==
  ASSUME LockedInv, NEW n \in Node, NEW t \in Thread, Touch(n, t)
  PROVE  CopiesInv'
<1>1. UNCHANGED <<chan, local_request, wait_on, applying, count, memory, unsent,
                  stage>>
  BY DEF Touch, mutexVars, Mem!Fault, Mem!TxBegin
<1>2. CopiesInv
  BY DEF LockedInv
<1> QED BY <1>1, <1>2, CopiesKept DEF Seen, Mem!Applied, Untold

LEMMA CopiesIncrement ==
  ASSUME MP!AtMostTwoNodes, LockedInv, NEW h \in Node, NEW t \in Thread,
         Increment(h, t)
  PROVE  CopiesInv'
<1>1. /\ pc[h][t] = "held" /\ stage[h][t] = "in"
      /\ count' = count + 1 /\ UNCHANGED <<chan, local_request, wait_on>>
      /\ UNCHANGED <<unsent, applying>>
      /\ memory' \in [Node -> [{Counter} -> Mem!Content]]
      /\ \A m \in Node : Value(m)' = IF m = h THEN Value(h) + 1 ELSE Value(m)
      /\ \A m \in Node : m # h => memory'[m] = memory[m]
      /\ \A m \in Node, s \in Thread :
           stage'[m][s] = IF m = h /\ s = t THEN "stored" ELSE stage[m][s]
  BY StoreStep DEF mutexVars
<1>2. /\ Seen(h) = count /\ Value(h) = count
      /\ \A p \in Node : ~ Untold(p)
      /\ \A p \in Node : p # h => Updates(chan[p][h]) = {}
      /\ applying[h] = Mem!NoChanges
  <2>1. Seen(h) = count /\ Value(h) = count /\ \A p \in Node : ~ Untold(p)
    BY <1>1, UpToDate
  <2>2. /\ \A p \in Node : p # h => Updates(chan[p][h]) = {}
        /\ applying[h] = Mem!NoChanges
    BY <1>1, HolderHears
  <2> QED BY <2>1, <2>2
<1>3. /\ MemoryTypeOK /\ CopiesInv /\ count \in Nat
  BY DEF LockedInv, MemoryTypeOK
<1>4. /\ Seen(h)' = count'
      /\ \A n \in Node : n # h => Seen(n)' = Seen(n)
      /\ \A n \in Node : Seen(n) \in Nat /\ Seen(n) <= count
  <2>1. memory'[h][Counter] \in Mem!Content /\ Value(h)' = count'
    BY <1>1, <1>2
  <2>2. Seen(h)' = Value(h)'
    BY <1>1, <1>2, <2>1, AppliedValue DEF Seen, Mem!Applied, Value
  <2>3. \A n \in Node : n # h => Seen(n)' = Seen(n)
    BY <1>1 DEF Seen, Mem!Applied
  <2>4. \A n \in Node : Seen(n) \in Nat /\ Seen(n) <= count
    BY <1>3, CounterTypes DEF CopiesInv, CopiesTrail
  <2> QED BY <2>1, <2>2, <2>3, <2>4
<1>5. /\ Untold(h)'
      /\ \A p \in Node : p # h => ~ Untold(p)'
  BY <1>1, <1>2 DEF Untold
<1>6. ASSUME NEW p \in Node, NEW n \in Node, p # n
      PROVE  LockedPairInv(p, n)'
  <2>1. LockedPairInv(p, n)
    BY <1>3, <1>6 DEF CopiesInv
  <2>2. CASE p = h
    <3>1. \A v \in Updates(chan[p][n]) : v \in Nat /\ Seen(n) < v /\ v <= count
      BY <2>1 DEF LockedPairInv, DiffsAreNews
    <3>2. Seen(n)' = Seen(n)
      BY <1>4, <1>6, <2>2
    <3>3. DiffsAreNews(p, n)'
      BY <1>1, <1>3, <2>1, <3>1, <3>2 DEF LockedPairInv, DiffsAreNews
    <3>4. UntoldIsNewest(p, n)'
      BY <1>1, <1>3, <1>4, <2>2, <3>1, <3>2 DEF UntoldIsNewest
    <3>5. Catching(p, n)' /\ Heard(p, n)'
      BY <1>1, <1>5, <2>1, <2>2 DEF Catching, LockedPairInv, Heard
    <3> QED BY <3>3, <3>4, <3>5 DEF LockedPairInv
  <2>3. CASE n = h
    <3>1. Updates(chan'[p][n]) = {}
      BY <1>1, <1>2, <1>6, <2>3
    <3>2. ~ Untold(p)'
      BY <1>5, <1>6, <2>3
    <3>3. Catching(p, n)'
      BY <1>4, <2>3 DEF Catching
    <3> QED
      BY <1>1, <2>1, <2>3, <3>1, <3>2, <3>3
      DEF LockedPairInv, DiffsAreNews, UntoldIsNewest, Heard
  <2> QED BY <1>6, <2>2, <2>3 DEF MP!AtMostTwoNodes
<1>7. CopiesTrail'
  <2> SUFFICES ASSUME NEW n \in Node PROVE Seen(n)' <= count'
    BY DEF CopiesTrail
  <2> QED BY <1>1, <1>3, <1>4
<1>8. AloneInv'
  BY <1>1, <1>2, <1>3, <1>4 DEF AloneInv, CopiesInv
<1> QED BY <1>6, <1>7, <1>8 DEF CopiesInv

LEMMA CopiesUnlockTxEnd ==
  ASSUME MP!AtMostTwoNodes, LockedInv, NEW h \in Node, NEW t \in Thread,
         UnlockTxEnd(h, t)
  PROVE  CopiesInv'
<1>1. /\ UNCHANGED <<local_request, wait_on, count>>
      /\ MemoryTypeOK /\ WritesUnderLock /\ UnsentBrings /\ CopiesInv
      /\ pc[h][t] = "held"
  BY DEF UnlockTxEnd, mutexVars, LockedInv, LocalInv
<1>2. CASE Making(h, t)
  <2>1. /\ UNCHANGED <<chan, memory, applying>> /\ Untold(h)
        /\ \A m \in Node, s \in Thread : m # h \/ s # t =>
             unsent'[m][s] = unsent[m][s] /\ stage'[m][s] = stage[m][s]
    <3>1. UNCHANGED <<chan, memory, applying>>
      BY <1>2
      DEF Making, Mem!DiffBegin, Mem!DiffPage, Mem!DiffEnd, Mem!PageStep
    <3>2. Untold(h)
      BY <1>1, <1>2
      DEF Making, Goto, Mem!DiffPage, Mem!DiffEnd, WritesUnderLock, Untold
    <3>3. \A m \in Node, s \in Thread : m # h \/ s # t => stage'[m][s] = stage[m][s]
      BY <1>1, <1>2 DEF Making, Goto, MemoryTypeOK
    <3>4. \A m \in Node, s \in Thread : m # h \/ s # t => unsent'[m][s] = unsent[m][s]
      BY <1>1, <1>2
      DEF Making, Mem!DiffBegin, Mem!DiffPage, Mem!DiffEnd, Mem!PageStep, Mem!Protect,
          Mem!Compare, MemoryTypeOK
    <3> QED BY <3>1, <3>2, <3>3, <3>4
  <2>2. Untold(h)'
    <3>1. unsent'[h][t] # {}
      BY <1>1, <1>2, RegionMaking DEF UnlockTxEnd, mutexVars
    <3> QED BY <3>1 DEF Untold
  <2>3. \A p \in Node : p # h => ~ Untold(p) /\ ~ Untold(p)'
    <3>1. \A p \in Node : p # h => ~ Untold(p)
      BY <1>1, HolderHears
    <3> QED BY <2>1, <3>1 DEF Untold
  <2>4. \A n \in Node : Seen(n)' = Seen(n) /\ Untold(n)' = Untold(n)
    <3>1. \A n \in Node : Untold(n)' <=> Untold(n)
      BY <2>1, <2>2, <2>3
    <3>2. \A n \in Node : Seen(n)' = Seen(n)
      BY <2>1 DEF Seen, Mem!Applied
    <3>3. \A n \in Node : Untold(n)' = Untold(n)
      BY <3>1, Zenon DEF Untold
    <3> QED BY <3>2, <3>3
  <2> QED BY <1>1, <2>1, <2>4, CopiesKept
<1>3. CASE Goto(h, t, "ending", "ending") /\ Mem!SendDiff(h, t)
  <2>1. PICK d \in unsent[h][t] :
          /\ d \in Mem!Diff
          /\ chan' \in [Node -> [Node -> Seq(Messages)]]
          /\ \A a, b \in Node :
               chan'[a][b] = IF a = h /\ b # h THEN Append(chan[a][b], d)
                                               ELSE chan[a][b]
    BY <1>3, DiffSent
  <2>2. /\ stage[h][t] = "ending" /\ UNCHANGED <<memory, applying>>
        /\ unsent' = [unsent EXCEPT ![h][t] = {}]
        /\ stage' = [stage EXCEPT ![h][t] = "ending"]
    BY <1>3 DEF Goto, Mem!SendDiff
  <2>3. /\ \A m \in Node, s \in Thread :
             unsent'[m][s] = IF m = h /\ s = t THEN {} ELSE unsent[m][s]
        /\ stage' = stage
    BY <1>1, <2>2 DEF MemoryTypeOK
  <2>4. Untold(h) /\ ~ Untold(h)'
    <3>1. Untold(h)
      BY <2>1 DEF Untold
    <3>2. \A s \in Thread : s # t => unsent[h][s] = {} /\ stage[h][s] = "in"
      BY <1>1, HolderHears
    <3> QED BY <2>2, <2>3, <3>1, <3>2 DEF Untold
  <2>5. \A p \in Node : p # h => ~ Untold(p) /\ ~ Untold(p)'
    <3>1. \A p \in Node : p # h => ~ Untold(p)
      BY <1>1, HolderHears
    <3> QED BY <2>2, <2>3, <3>1 DEF Untold
  <2>6. \A n \in Node : Seen(n)' = Seen(n) /\ Seen(n) \in Nat
    BY <1>1, <2>2, CounterTypes DEF Seen, Mem!Applied
  <2>7. IsUpdate(d) /\ Brought(d) = Seen(h)
    <3>1. IsUpdate(d) /\ Brought(d) = Value(h)
      BY <1>1, <1>3, <2>1 DEF UnsentBrings, Comparing, Mem!SendDiff
    <3> QED BY <1>1, <3>1, HolderHears, CounterTypes
  <2>8. ASSUME NEW p \in Node, NEW n \in Node, p # n
        PROVE  LockedPairInv(p, n)'
    <3>1. LockedPairInv(p, n)
      BY <1>1, <2>8 DEF CopiesInv
    <3>2. CASE p = h
      <4> DEFINE s == chan[h][n]
      <4>1. Seen(h) = count /\ Seen(n) < count /\ count \notin Updates(s)
        BY <2>4, <3>1, <3>2 DEF LockedPairInv, UntoldIsNewest
      <4>2. /\ s \in Seq(Messages) /\ InOrder(s) /\ AllUpdates(s)
            /\ \A v \in Updates(s) : v \in Nat /\ Seen(n) < v /\ v <= count
        BY <3>1, <3>2, LockedTypes DEF LockedPairInv, DiffsAreNews
      <4>3. \A m \in Range(s) : m.type # "REPLY"
        <5>1. ~ MP!Carries(s, "REPLY")
          BY <1>1, <2>8, <3>2, HolderHears
        <5> QED BY <5>1 DEF MP!Carries, MP!Range, Range
      <4>4. chan'[h][n] = Append(s, d)
        BY <2>1, <2>8, <3>2
      <4>5. count \in Nat
        BY <1>1 DEF MemoryTypeOK
      <4> HIDE DEF s
      <4>6. \A v \in Updates(s) : v < Brought(d)
        BY <2>7, <4>1, <4>2, <4>5
      <4>7. /\ InOrder(chan'[h][n]) /\ AheadOfReply(chan'[h][n])
            /\ AllUpdates(chan'[h][n])
            /\ Updates(chan'[h][n]) = Updates(s) \cup {count}
        BY <2>1, <2>7, <4>1, <4>2, <4>3, <4>4, <4>6, OrderedDiff, ZenonT(60)
      <4>8. DiffsAreNews(h, n)'
        BY <1>1, <2>6, <4>1, <4>2, <4>5, <4>7 DEF DiffsAreNews
      <4>9. UntoldIsNewest(h, n)'
        BY <2>4 DEF UntoldIsNewest
      <4>10. Catching(h, n)'
        BY <1>1, <4>7 DEF Catching
      <4>11. Heard(h, n)'
        BY <1>1, <2>8, <3>2, HolderHears DEF Heard
      <4> QED BY <3>2, <4>8, <4>9, <4>10, <4>11 DEF LockedPairInv
    <3>3. CASE p # h
      <4>1. chan'[p][n] = chan[p][n] /\ Untold(p)' = Untold(p)
        <5>1. chan'[p][n] = chan[p][n]
          BY <2>1, <3>3
        <5>2. Untold(p)' <=> Untold(p)
          BY <2>5, <2>8, <3>3
        <5>3. Untold(p)' = Untold(p)
          BY <5>2, Zenon DEF Untold
        <5> QED BY <5>1, <5>3
      <4> QED
        BY <1>1, <2>2, <2>5, <2>6, <3>1, <3>3, <4>1
        DEF LockedPairInv, DiffsAreNews, UntoldIsNewest, Catching, Heard
    <3> QED BY <3>2, <3>3
  <2>9. CopiesTrail' /\ AloneInv'
    BY <1>1, <2>2, <2>6 DEF CopiesInv, CopiesTrail, AloneInv
  <2> QED BY <2>8, <2>9 DEF CopiesInv
<1> QED BY <1>2, <1>3 DEF UnlockTxEnd, Making

LEMMA CopiesHandleDiff ==
  ASSUME MP!AtMostTwoNodes, LockedInv, NEW r \in Node, NEW s \in Node,
         HandleDiff(r, s)
  PROVE  CopiesInv'
<1>1. /\ UNCHANGED <<local_request, wait_on, count, stage, unsent>>
      /\ MemoryTypeOK /\ CopiesInv /\ count \in Nat
  BY DEF HandleDiff, mutexVars, LockedInv, MemoryTypeOK, Mem!ReadDiff,
         Mem!ApplyPage
<1>2. \A p \in Node : Untold(p)' = Untold(p)
  BY <1>1 DEF Untold
<1>3. CASE Mem!ApplyPage(r)
  <2>1. /\ memory' \in [Node -> [{Counter} -> Mem!Content]] /\ UNCHANGED chan
        /\ \A m \in Node : Value(m)' = IF m = r THEN Seen(r) ELSE Value(m)
        /\ \A m \in Node : m # r => memory'[m] = memory[m]
        /\ \A m \in Node :
             applying'[m] = IF m = r THEN Mem!NoChanges ELSE applying[m]
    BY <1>3, ApplyStep
  <2>2. Seen(r)' = Seen(r)
    <3>1. memory'[r][Counter] \in Mem!Content
      BY <2>1
    <3> QED BY <2>1, <3>1, AppliedValue DEF Seen, Mem!Applied, Value
  <2>3. \A n \in Node : Seen(n)' = Seen(n)
    BY <2>1, <2>2 DEF Seen, Mem!Applied
  <2>4. ASSUME NEW p \in Node, NEW n \in Node, p # n
        PROVE  LockedPairInv(p, n)'
    <3>1. LockedPairInv(p, n)
      BY <1>1, <2>4 DEF CopiesInv
    <3> QED
      BY <1>1, <1>2, <2>1, <2>3, <3>1
      DEF LockedPairInv, DiffsAreNews, UntoldIsNewest, Catching, Heard
  <2>5. CopiesTrail' /\ AloneInv'
    BY <1>1, <2>1, <2>3 DEF CopiesInv, CopiesTrail, AloneInv
  <2> QED BY <2>4, <2>5 DEF CopiesInv
<1>4. CASE /\ chan[s][r] # << >> /\ M!Message(s, r).type = "DIFF"
           /\ Mem!ReadDiff(r, s)
  <2> DEFINE q == chan[s][r]
             v == Brought(Head(q))
  <2>1. /\ s # r /\ q # << >> /\ Head(q).type = "DIFF" /\ v \in Mem!Value
        /\ applying[r] = Mem!NoChanges
        /\ applying' = [applying EXCEPT ![r] = Changed(v)]
        /\ \A a, b \in Node :
             chan'[a][b] = IF a = s /\ b = r THEN Tail(q) ELSE chan[a][b]
    BY <1>4, DiffTaken
  <2>2. memory' = memory
    BY <1>4 DEF Mem!ReadDiff
  <2>3. LockedPairInv(s, r) /\ LockedPairInv(r, s)
    BY <1>1, <2>1 DEF CopiesInv
  <2>4. /\ q \in Seq(Messages) /\ InOrder(q) /\ AheadOfReply(q) /\ AllUpdates(q)
        /\ \A k \in Updates(q) : k \in Nat /\ Seen(r) < k /\ k <= count
    BY <2>3, LockedTypes DEF LockedPairInv, DiffsAreNews
  <2> HIDE DEF q
  <2>5. /\ InOrder(Tail(q)) /\ AheadOfReply(Tail(q)) /\ AllUpdates(Tail(q))
        /\ Updates(q) = Updates(Tail(q)) \cup {v}
        /\ \A k \in Updates(Tail(q)) : v < k
    BY <2>1, <2>4, OrderedTail
  <2> HIDE DEF v
  <2>6. v \in Nat /\ Seen(r) < v /\ v <= count /\ Seen(r) \in Nat
    BY <1>1, <2>4, <2>5, CounterTypes
  <2>7. /\ Seen(r)' = v
        /\ \A n \in Node : n # r => /\ Seen(n)' = Seen(n)
                                     /\ applying'[n] = applying[n]
    <3>1. applying \in [Node -> [{Counter} -> SUBSET Mem!Section]]
      BY <1>1 DEF MemoryTypeOK, ApplyingTypeOK
    <3>2. /\ applying'[r] = Changed(v)
          /\ \A n \in Node : n # r => applying'[n] = applying[n]
      BY <2>1, <3>1
    <3>3. memory[r][Counter] \in Mem!Content
      BY <1>1, CounterTypes
    <3> QED BY <2>1, <2>2, <3>2, <3>3, AppliedValue DEF Seen, Mem!Applied
  <2>8. LockedPairInv(s, r)'
    <3>1. chan'[s][r] = Tail(q)
      BY <2>1
    <3>2. DiffsAreNews(s, r)'
      BY <1>1, <2>4, <2>5, <2>7, <3>1 DEF DiffsAreNews
    <3>3. UntoldIsNewest(s, r)'
      <4> SUFFICES ASSUME Untold(s)
                   PROVE  /\ Seen(s) = count /\ v < count
                          /\ count \notin Updates(Tail(q))
        BY <1>1, <1>2, <2>1, <2>7, <3>1 DEF UntoldIsNewest
      <4>1. Seen(s) = count /\ count \notin Updates(q)
        BY <2>3 DEF LockedPairInv, UntoldIsNewest, q
      <4> QED BY <1>1, <2>5, <2>6, <4>1
    <3>4. Catching(s, r)'
      <4>1. Seen(r) = count \/ Untold(s) \/ count \in Updates(q)
        BY <2>3 DEF LockedPairInv, Catching, q
      <4>2. Seen(r) # count
        BY <1>1, <2>6
      <4> QED BY <1>1, <1>2, <2>1, <2>5, <2>7, <3>1, <4>1, <4>2 DEF Catching
    <3>5. Heard(s, r)'
      <4>1. v \in Updates(q)
        BY <2>5
      <4> QED BY <1>1, <2>3, <4>1 DEF LockedPairInv, Heard, q
    <3> QED BY <3>2, <3>3, <3>4, <3>5 DEF LockedPairInv
  <2>9. LockedPairInv(r, s)'
    <3>1. ~ Untold(r)
      <4>1. Seen(r) # count
        BY <1>1, <2>6
      <4> QED BY <2>3, <4>1 DEF LockedPairInv, UntoldIsNewest
    <3>2. chan'[r][s] = chan[r][s] /\ Seen(s)' = Seen(s)
          /\ applying'[s] = applying[s]
      BY <2>1, <2>7
    <3> QED
      BY <1>1, <1>2, <2>3, <3>1, <3>2
      DEF LockedPairInv, DiffsAreNews, UntoldIsNewest, Catching, Heard
  <2>10. \A p, n \in Node : p # n => LockedPairInv(p, n)'
    BY <2>1, <2>8, <2>9 DEF MP!AtMostTwoNodes
  <2>11. CopiesTrail' /\ AloneInv'
    BY <1>1, <2>1, <2>6, <2>7 DEF CopiesInv, CopiesTrail, AloneInv
  <2> QED BY <2>10, <2>11 DEF CopiesInv
<1> QED BY <1>3, <1>4 DEF HandleDiff

LEMMA CopiesStep ==
  ASSUME MP!AtMostTwoNodes, LockedInv, [Next]_vars
  PROVE  CopiesInv'
<1>1. CASE UNCHANGED vars
  <2>1. CopiesInv
    BY DEF LockedInv
  <2> QED
    BY <1>1, <2>1, CopiesKept
    DEF vars, mutexVars, memoryVars, Seen, Mem!Applied, Untold
<1> QED
  BY <1>1, CopiesMutex, CopiesTouch, CopiesIncrement, CopiesUnlockTxEnd,
     CopiesHandleDiff
  DEF Next, Work, Listen, OnMutex

----------------------------------------------------------------------------
(***************************************************************************)
(* Theorems                                                                *)
(***************************************************************************)

LEMMA LockedInvInit ==
  ASSUME LockedInit
  PROVE  LockedInv
<1>1. MP!TwoInv
  <2>1. M!Init => MP!Init
    BY DEF M!Init, MP!Init, M!MutexInit, MP!MutexInit, M!NoRequest, MP!NoRequest
  <2> QED
    BY <2>1, MP!PairInit, NodeAssumption, ThreadAssumption, MaxTimeAssumption,
       ForeignDiffs DEF LockedInit
<1>2. /\ chan = [p \in Node |-> [n \in Node |-> << >>]]
      /\ local_request = [n \in Node |-> 0]
      /\ pc = [n \in Node |-> [t \in Thread |-> "idle"]]
      /\ memory = [n \in Node |-> [pg \in {Counter} |-> [b \in {0} |-> 0]]]
      /\ twins = [n \in Node |-> Mem!NoTwins]
      /\ writable = [n \in Node |-> {}]
      /\ timestamp = [n \in Node |-> 0]
      /\ faulting = [n \in Node |-> [t \in Thread |-> {}]]
      /\ unsent = [n \in Node |-> [t \in Thread |-> {}]]
      /\ diffing = [n \in Node |-> {}]
      /\ halfway = [n \in Node |-> {}]
      /\ applying = [n \in Node |-> Mem!NoChanges]
      /\ stage = [n \in Node |-> [t \in Thread |-> "in"]]
      /\ count = 0
  BY DEF LockedInit, M!Init, M!MutexInit, M!NoRequest, Mem!Init, Mem!Byte
<1>3. \A n \in Node : Mem!Twinned(n) = {} /\ twins[n] \in [{} -> Mem!Content]
  BY <1>2 DEF Mem!Twinned, Mem!NoTwins
<1>4. MemoryTypeOK
  <2>1. [b \in {0} |-> 0] \in Mem!Content
    BY BoundAssumption DEF Mem!Content, Mem!Byte, Mem!Value
  <2>2. TwinsTypeOK
    BY <1>2, <1>3 DEF TwinsTypeOK
  <2>3. ApplyingTypeOK
    BY <1>2 DEF ApplyingTypeOK, Mem!NoChanges
  <2> QED BY <1>2, <2>1, <2>2, <2>3 DEF MemoryTypeOK
<1>5. LocalInv
  BY <1>2, <1>3 DEF LocalInv, WritesUnderLock, TwinsOfHolder, UnsentBrings, Comparing
<1>6. \A n \in Node : Seen(n) = 0 /\ ~ Untold(n)
  BY <1>2, <1>4, CounterTypes DEF Value, Untold
<1>7. ASSUME NEW p \in Node, NEW n \in Node
      PROVE  LockedPairInv(p, n)
  <2>1. chan[p][n] = << >>
    BY <1>2
  <2>2. /\ Updates(chan[p][n]) = {}
        /\ InOrder(chan[p][n]) /\ AheadOfReply(chan[p][n])
        /\ AllUpdates(chan[p][n])
    BY <2>1 DEF Updates, Range, InOrder, AheadOfReply, AllUpdates
  <2> QED
    BY <1>2, <1>6, <2>2
    DEF LockedPairInv, DiffsAreNews, UntoldIsNewest, Catching, Heard
<1>8. CopiesTrail /\ AloneInv
  BY <1>2, <1>6 DEF CopiesTrail, AloneInv
<1> QED BY <1>1, <1>4, <1>5, <1>7, <1>8 DEF LockedInv, CopiesInv

LEMMA LockedInvariant ==
  ASSUME MP!AtMostTwoNodes
  PROVE  Spec => []LockedInv
<1>1. LockedInit => LockedInv
  BY LockedInvInit
<1>2. LockedInv /\ [Next]_vars => LockedInv'
  BY MutexUndisturbed, RegionStep, CopiesStep DEF LockedInv, RegionInv
<1> QED BY <1>1, <1>2, PTL DEF Spec

\* Between two nodes no update of the counter is lost: the thread that gets the
\* mutex reads what the last holder wrote, on whichever node that was, because the
\* diff goes ahead of the reply and is applied before the reply is heard.
THEOREM HolderHasNewest ==
  ASSUME MP!AtMostTwoNodes
  PROVE  Spec => []HolderReadsLatest
<1>1. LockedInv => HolderReadsLatest
  BY UpToDate DEF HolderReadsLatest
<1> QED BY <1>1, LockedInvariant, PTL

\* Between two nodes the copies are equal whenever the mutex is free and nothing
\* is on the way.
THEOREM CopiesAgreeWhenQuiet ==
  ASSUME MP!AtMostTwoNodes
  PROVE  Spec => []QuietCopiesAgree
<1>1. ASSUME LockedInv,
             \A n, p \in Node : chan[n][p] = << >> /\ applying[n] = Mem!NoChanges,
             \A n \in Node, t \in Thread : pc[n][t] # "held" /\ unsent[n][t] = {},
             NEW n \in Node
      PROVE  Value(n) = count
  <2>1. \A p \in Node : ~ Untold(p)
    BY <1>1 DEF LockedInv, LocalInv, WritesUnderLock, Untold
  <2>2. \A p \in Node : Updates(chan[p][n]) = {}
    BY <1>1 DEF Updates, Range
  <2>3. Seen(n) = count
    <3>1. CASE \A p \in Node : p = n
      BY <1>1, <3>1 DEF LockedInv, CopiesInv, AloneInv
    <3>2. ASSUME NEW p \in Node, p # n
          PROVE  Seen(n) = count
      BY <1>1, <2>1, <2>2, <3>2
      DEF LockedInv, CopiesInv, LockedPairInv, Catching
    <3> QED BY <3>1, <3>2
  <2> QED BY <1>1, <2>3, CounterTypes DEF LockedInv
<1>2. LockedInv => QuietCopiesAgree
  BY <1>1 DEF QuietCopiesAgree
<1> QED BY <1>2, LockedInvariant, PTL
=============================================================================

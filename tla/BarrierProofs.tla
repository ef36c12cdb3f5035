--------------------------- MODULE BarrierProofs ---------------------------
(***************************************************************************)
(* Theorems about Barrier, for any set of nodes, any number of threads on  *)
(* each and any number of runs: every notification is counted once and in  *)
(* its phase, the two phases of a run never overlap, and the coordinator   *)
(* reads the results of every task.                                        *)
(*                                                                         *)
(* The argument is one of counting, node by node: where the tasks of a     *)
(* node are, what they have sent and what the two barriers have left to    *)
(* hear from them add up at every stage of run_simulation.                 *)
(* The results are followed from the task that writes them, through the    *)
(* diff in the hands of whichever thread has taken them, to every copy.    *)
(***************************************************************************)
EXTENDS Barrier, FiniteSetTheorems, SequenceTheorems, TLAPS

----------------------------------------------------------------------------
(***************************************************************************)
(* The inductive invariants                                                *)
(***************************************************************************)

\* Where run_simulation is: the tasks compute, the client barrier is closed, it
\* is open, there is no run that anything is awaited from.
First  == main \in {"tasking", "waiting1", "asleep1"}
Closed == First \/ main \in {"rearm", "notify", "ending", "ended"}
Opened == main \in {"notify_local", "waiting2", "asleep2"}
Idle   == main \in {"reading", "out"}

\* Only the coordinator sends tasks and opens the client barrier.
MessagesFit ==
  /\ \A n \in Node : chan[n][n] = << >>
  /\ \A p, n \in Node : \A k \in DOMAIN chan[p][n] :
       chan[p][n][k] \in {TaskMsg, NotifyMsg("client")} => p = Coordinator

\* The notifications on the way to the coordinator, and from it.
Completions(n) == InFlight(n, Coordinator, NotifyMsg("completion"))
Openings(n)    == InFlight(Coordinator, n, NotifyMsg("client"))

ClientEntry(n) == wait_on["client"][n][Coordinator]

\* How many tasks n has in the stages that run_simulation leaves it.
TasksCounted(n) ==
  /\ Closed => /\ ToCompute(n) + Computed(n) = ThreadsPerNode
               /\ Writing(n) = 0
  /\ ~ First => /\ ToCompute(n) = 0 /\ Notifying(n) = 0
                /\ n = Coordinator => tasks[n].notified = 0
  /\ Idle => Computed(n) = 0 /\ Writing(n) = 0
  /\ ~ Opened /\ n = Coordinator => tasks[n].finishing = 0

\* The completion barrier, where NotificationsMatch says nothing as well.
EntriesMatch(n) ==
  IF main = "rearm" \/ Idle
  THEN Completions(n) = 0
  ELSE wait_on["completion"][Coordinator][n] = ToNotify(n)

\* No task of n has passed the client barrier.
Shut(n) ==
  /\ ClientEntry(n) = 1
  /\ Computed(n) = ThreadsPerNode
  /\ Writing(n) = 0

\* The client barrier of n opens once in a run, when the coordinator says so.
ClientBarrier(n) ==
  /\ \A p \in Node : p # Coordinator => wait_on["client"][n][p] = 0
  /\ Closed \/ Idle => Openings(n) = 0
  /\ Closed /\ tasks[n].computing + Computed(n) > 0 => ClientEntry(n) = 1
  /\ Opened /\ n # Coordinator =>
       \/ Openings(n) = 1 /\ Shut(n)
       \/ Openings(n) = 0 /\ ClientEntry(n) = 0
  /\ Opened /\ n = Coordinator =>
       IF main = "notify_local" THEN Shut(n) ELSE ClientEntry(n) = 0

CountInv ==
  /\ TypeOK
  /\ MessagesFit
  /\ \A n \in Node : TasksCounted(n) /\ EntriesMatch(n) /\ ClientBarrier(n)

----------------------------------------------------------------------------
(***************************************************************************)
(* Counting the messages of a connection                                   *)
(***************************************************************************)
Occurrences(s, m) == {k \in DOMAIN s : s[k] = m}

\* How often a message is in a sequence is a number.
LEMMA OccurrencesFinite ==
  ASSUME NEW S, NEW s \in Seq(S), NEW m
  PROVE  /\ IsFiniteSet(Occurrences(s, m))
         /\ Cardinality(Occurrences(s, m)) \in Nat
         /\ Cardinality(Occurrences(s, m)) = 0 <=> Occurrences(s, m) = {}
<1>1. DOMAIN s = 1 .. Len(s) /\ Len(s) \in Nat
  OBVIOUS
<1>2. IsFiniteSet(1 .. Len(s))
  BY <1>1, FS_Interval
<1>3. IsFiniteSet(Occurrences(s, m))
  BY <1>1, <1>2, FS_Subset DEF Occurrences
<1> QED BY <1>3, FS_CardinalityType, FS_EmptySet

\* One more message counts as one more if it is the one that is counted.
LEMMA OccurrencesAppend ==
  ASSUME NEW S, NEW s \in Seq(S), NEW e \in S, NEW m
  PROVE  Cardinality(Occurrences(Append(s, e), m))
           = Cardinality(Occurrences(s, m)) + IF e = m THEN 1 ELSE 0
<1> DEFINE t == Append(s, e)
<1>1. /\ DOMAIN s = 1 .. Len(s) /\ DOMAIN t = 1 .. Len(s) + 1 /\ Len(s) \in Nat
      /\ \A k \in 1 .. Len(s) : t[k] = s[k]
      /\ t[Len(s) + 1] = e
  OBVIOUS
<1>2. Occurrences(t, m)
        = Occurrences(s, m) \cup (IF e = m THEN {Len(s) + 1} ELSE {})
  BY <1>1 DEF Occurrences
<1>3. Len(s) + 1 \notin Occurrences(s, m)
  BY <1>1 DEF Occurrences
<1>4. IsFiniteSet(Occurrences(s, m)) /\ Cardinality(Occurrences(s, m)) \in Nat
  BY OccurrencesFinite
<1>5. CASE e = m
  <2>1. Occurrences(t, m) = Occurrences(s, m) \cup {Len(s) + 1}
    BY <1>2, <1>5
  <2>2. Cardinality(Occurrences(t, m)) = Cardinality(Occurrences(s, m)) + 1
    BY <2>1, <1>3, <1>4, FS_AddElement
  <2> QED BY <2>2, <1>5
<1>6. CASE e # m
  <2>1. Occurrences(t, m) = Occurrences(s, m)
    BY <1>2, <1>6
  <2> QED BY <2>1, <1>4, <1>6
<1> QED BY <1>5, <1>6

\* The message that is received is counted no more.
LEMMA OccurrencesTail ==
  ASSUME NEW S, NEW s \in Seq(S), NEW m, s # << >>
  PROVE  Cardinality(Occurrences(s, m))
           = Cardinality(Occurrences(Tail(s), m)) + IF Head(s) = m THEN 1 ELSE 0
<1> DEFINE t == Tail(s)
           A == Occurrences(t, m)
           B == Occurrences(s, m) \ {1}
           up == [k \in A |-> k + 1]
<1>1. /\ DOMAIN s = 1 .. Len(s) /\ Len(s) \in Nat \ {0}
      /\ t \in Seq(S) /\ DOMAIN t = 1 .. Len(s) - 1
      /\ \A k \in 1 .. Len(s) - 1 : t[k] = s[k + 1]
      /\ Head(s) = s[1]
  OBVIOUS
<1>2. up \in Bijection(A, B)
  <2>1. up \in [A -> B]
    BY <1>1 DEF Occurrences
  <2>2. \A k, l \in A : up[k] = up[l] => k = l
    BY <1>1 DEF Occurrences
  <2>3. \A l \in B : \E k \in A : up[k] = l
    <3> SUFFICES ASSUME NEW l \in B PROVE l - 1 \in A /\ up[l - 1] = l
      OBVIOUS
    <3> QED BY <1>1 DEF Occurrences
  <2> QED BY <2>1, <2>2, <2>3 DEF Bijection, Injection, Surjection, IsInjective
<1>3. /\ IsFiniteSet(A) /\ Cardinality(A) \in Nat
      /\ IsFiniteSet(Occurrences(s, m)) /\ Cardinality(Occurrences(s, m)) \in Nat
  BY <1>1, OccurrencesFinite
<1>4. IsFiniteSet(B) /\ Cardinality(B) = Cardinality(A)
  BY <1>2, <1>3, FS_Bijection DEF ExistsBijection
<1>5. Head(s) = m <=> 1 \in Occurrences(s, m)
  BY <1>1 DEF Occurrences
<1> HIDE DEF A, B, up
<1>6. CASE Head(s) = m
  <2>1. Cardinality(B) = Cardinality(Occurrences(s, m)) - 1
    BY <1>3, <1>5, <1>6, FS_RemoveElement DEF B
  <2> QED BY <2>1, <1>3, <1>4, <1>6 DEF A
<1>7. CASE Head(s) # m
  <2>1. B = Occurrences(s, m)
    BY <1>5, <1>7 DEF B
  <2>2. Cardinality(Occurrences(s, m)) = Cardinality(A)
    BY <2>1, <1>4
  <2> QED BY <2>2, <1>3, <1>7 DEF A
<1> QED BY <1>6, <1>7

----------------------------------------------------------------------------
(***************************************************************************)
(* The connections                                                         *)
(***************************************************************************)
Counted == {TaskMsg, NotifyMsg("completion"), NotifyMsg("client")}

\* The messages that are counted, TASK and NOTIFY, are messages and differ.
LEMMA CountedMessages ==
  /\ Counted \subseteq Message
  /\ TaskMsg # NotifyMsg("completion") /\ TaskMsg # NotifyMsg("client")
  /\ NotifyMsg("completion") # NotifyMsg("client")
  /\ \A v \in SUBSET Nat : DiffMsg(v) \in Message /\ DiffMsg(v) \notin Counted
  /\ \A m \in Message : m.type = "TASK" => m = TaskMsg
  /\ \A m \in Message : m.type = "NOTIFY" =>
       m.barrier \in Barriers /\ m = NotifyMsg(m.barrier)
  /\ \A m \in Message : m.type = "DIFF" => m.results \in SUBSET Nat
  /\ \A m \in Counted : m.type # "DIFF"
  /\ \A v \in SUBSET Nat : DiffMsg(v).type = "DIFF" /\ DiffMsg(v).results = v
<1>1. /\ TaskMsg.type = "TASK"
      /\ \A v \in SUBSET Nat : DiffMsg(v).type = "DIFF" /\ DiffMsg(v).results = v
  BY DEF TaskMsg, DiffMsg
<1>2. \A b \in Barriers : NotifyMsg(b).type = "NOTIFY" /\ NotifyMsg(b).barrier = b
  BY DEF NotifyMsg
<1>3. \A m \in Message : m.type = "TASK" => m = TaskMsg
  BY DEF Message, TaskMsg
<1>4. \A m \in Message : m.type = "NOTIFY" =>
        m.barrier \in Barriers /\ m = NotifyMsg(m.barrier)
  BY DEF Message, NotifyMsg
<1>5. \A m \in Message : m.type = "DIFF" => m.results \in SUBSET Nat
  BY DEF Message
<1>6. \A v \in SUBSET Nat : DiffMsg(v) \in Message
  BY DEF Message, DiffMsg
<1>7. Counted \subseteq Message
  BY DEF Counted, Message, TaskMsg, NotifyMsg, Barriers
<1> QED BY <1>1, <1>2, <1>3, <1>4, <1>5, <1>6, <1>7 DEF Counted, Barriers

\* InFlight counts the occurrences of a message on one connection.
LEMMA InFlightOccurrences ==
  ASSUME NEW p, NEW n, NEW m
  PROVE  /\ InFlight(p, n, m) = Cardinality(Occurrences(chan[p][n], m))
         /\ InFlight(p, n, m)' = Cardinality(Occurrences(chan'[p][n], m))
  BY DEF InFlight, Occurrences

\* None is in flight exactly if the message is at no place of the connection.
LEMMA InFlightCount ==
  ASSUME TypeOK, NEW p \in Node, NEW n \in Node, NEW m
  PROVE  /\ InFlight(p, n, m) \in Nat
         /\ InFlight(p, n, m) = 0 <=> \A k \in DOMAIN chan[p][n] : chan[p][n][k] # m
<1>1. chan[p][n] \in Seq(Message)
  BY DEF TypeOK
<1>2. /\ Cardinality(Occurrences(chan[p][n], m)) \in Nat
      /\ Cardinality(Occurrences(chan[p][n], m)) = 0
           <=> Occurrences(chan[p][n], m) = {}
  BY <1>1, OccurrencesFinite
<1>3. Occurrences(chan[p][n], m) = {}
        <=> \A k \in DOMAIN chan[p][n] : chan[p][n][k] # m
  BY DEF Occurrences
<1> QED BY <1>2, <1>3, InFlightOccurrences

\* What is in flight before and after a step is a number.
LEMMA InFlightCounts ==
  ASSUME chan \in [Node -> [Node -> Seq(Message)]],
         chan' \in [Node -> [Node -> Seq(Message)]]
  PROVE  \A p, n \in Node : \A m \in Counted :
           InFlight(p, n, m) \in Nat /\ InFlight(p, n, m)' \in Nat
<1> SUFFICES ASSUME NEW p \in Node, NEW n \in Node, NEW m \in Counted
             PROVE  InFlight(p, n, m) \in Nat /\ InFlight(p, n, m)' \in Nat
  OBVIOUS
<1>1. chan[p][n] \in Seq(Message) /\ chan'[p][n] \in Seq(Message)
  OBVIOUS
<1>2. /\ Cardinality(Occurrences(chan[p][n], m)) \in Nat
      /\ Cardinality(Occurrences(chan'[p][n], m)) \in Nat
  BY <1>1, OccurrencesFinite
<1> QED BY <1>2, InFlightOccurrences

\* What edsm_dobj_send does to the connections.
LEMMA MessageSent ==
  ASSUME TypeOK, NEW n \in Node, NEW msg \in Message, chan' = Sent(n, msg)
  PROVE  /\ chan' \in [Node -> [Node -> Seq(Message)]]
         /\ \A p, q \in Node : p # n \/ q = n => chan'[p][q] = chan[p][q]
         /\ \A q \in Node : q # n => chan'[n][q] = Append(chan[n][q], msg)
         /\ \A p, q \in Node : \A m \in Counted :
              InFlight(p, q, m)' = InFlight(p, q, m)
                + IF p = n /\ q # n /\ m = msg THEN 1 ELSE 0
<1>1. chan \in [Node -> [Node -> Seq(Message)]]
  BY DEF TypeOK
<1>2. /\ \A p, q \in Node : p # n \/ q = n => chan'[p][q] = chan[p][q]
      /\ \A q \in Node : q # n => chan'[n][q] = Append(chan[n][q], msg)
      /\ chan' \in [Node -> [Node -> Seq(Message)]]
  <2>1. \A q \in Node : Append(chan[n][q], msg) \in Seq(Message)
    BY <1>1
  <2> QED BY <2>1, <1>1 DEF Sent
<1>3. ASSUME NEW p \in Node, NEW q \in Node, NEW m \in Counted
      PROVE  InFlight(p, q, m)' = InFlight(p, q, m)
               + IF p = n /\ q # n /\ m = msg THEN 1 ELSE 0
  <2>1. chan[p][q] \in Seq(Message) /\ Cardinality(Occurrences(chan[p][q], m)) \in Nat
    <3>1. chan[p][q] \in Seq(Message)
      BY <1>1
    <3> QED BY <3>1, OccurrencesFinite
  <2>2. CASE p # n \/ q = n
    BY <2>1, <2>2, <1>2, InFlightOccurrences
  <2>3. CASE p = n /\ q # n
    <3>1. Cardinality(Occurrences(Append(chan[p][q], msg), m))
            = Cardinality(Occurrences(chan[p][q], m)) + IF msg = m THEN 1 ELSE 0
      BY <2>1, OccurrencesAppend
    <3>2. chan'[p][q] = Append(chan[p][q], msg)
      BY <1>2, <2>3
    <3>3. /\ InFlight(p, q, m) = Cardinality(Occurrences(chan[p][q], m))
          /\ InFlight(p, q, m)' = Cardinality(Occurrences(chan'[p][q], m))
      BY InFlightOccurrences
    <3> QED BY <3>1, <3>2, <3>3, <2>3
  <2> QED BY <2>2, <2>3
<1> QED BY <1>2, <1>3

\* What edsm_task_send_up_call does to the connections.
LEMMA TaskSent ==
  ASSUME TypeOK, NEW n \in Node, n # Coordinator,
         chan' = [chan EXCEPT ![Coordinator][n] = Append(@, TaskMsg)]
  PROVE  /\ chan' \in [Node -> [Node -> Seq(Message)]]
         /\ \A p, q \in Node : p # Coordinator \/ q # n => chan'[p][q] = chan[p][q]
         /\ chan'[Coordinator][n] = Append(chan[Coordinator][n], TaskMsg)
         /\ \A p, q \in Node : \A m \in Counted :
              InFlight(p, q, m)' = InFlight(p, q, m)
                + IF p = Coordinator /\ q = n /\ m = TaskMsg THEN 1 ELSE 0
<1>1. TaskMsg \in Message /\ Coordinator \in Node
  BY CountedMessages, CoordinatorAssumption DEF Counted
<1>2. /\ chan' \in [Node -> [Node -> Seq(Message)]]
      /\ \A p, q \in Node : p # Coordinator \/ q # n => chan'[p][q] = chan[p][q]
      /\ chan'[Coordinator][n] = Append(chan[Coordinator][n], TaskMsg)
      /\ chan \in [Node -> [Node -> Seq(Message)]]
  BY <1>1 DEF TypeOK
<1>3. ASSUME NEW p \in Node, NEW q \in Node, NEW m \in Counted
      PROVE  InFlight(p, q, m)' = InFlight(p, q, m)
               + IF p = Coordinator /\ q = n /\ m = TaskMsg THEN 1 ELSE 0
  <2>1. Cardinality(Occurrences(chan[p][q], m)) \in Nat
    <3>1. chan[p][q] \in Seq(Message)
      BY <1>2
    <3> QED BY <3>1, OccurrencesFinite
  <2>2. CASE p # Coordinator \/ q # n
    <3>1. chan'[p][q] = chan[p][q]
      BY <2>2, <1>2
    <3>2. InFlight(p, q, m)' = InFlight(p, q, m) /\ InFlight(p, q, m) \in Nat
      BY <2>1, <3>1, InFlightOccurrences
    <3> QED BY <2>2, <3>2
  <2>3. CASE p = Coordinator /\ q = n
    <3>1. Cardinality(Occurrences(Append(chan[p][q], TaskMsg), m))
            = Cardinality(Occurrences(chan[p][q], m)) + IF TaskMsg = m THEN 1 ELSE 0
      <4>1. chan[p][q] \in Seq(Message)
        BY <1>2
      <4> QED BY <1>1, <4>1, OccurrencesAppend
    <3> QED BY <3>1, <1>2, <2>3, InFlightOccurrences
  <2> QED BY <2>2, <2>3
<1> QED BY <1>2, <1>3

\* What a handler does to the connections.
LEMMA MessageTaken ==
  ASSUME TypeOK, NEW n \in Node, NEW p \in Node, chan[p][n] # << >>,
         chan' = Received(p, n)
  PROVE  /\ chan' \in [Node -> [Node -> Seq(Message)]]
         /\ \A q, r \in Node : q # p \/ r # n => chan'[q][r] = chan[q][r]
         /\ chan'[p][n] = Tail(chan[p][n])
         /\ Head(chan[p][n]) \in Message
         /\ \A q, r \in Node : \A m \in Counted :
              InFlight(q, r, m)' = IF q = p /\ r = n /\ m = Head(chan[p][n])
                                   THEN InFlight(q, r, m) - 1 ELSE InFlight(q, r, m)
<1>1. /\ chan[p][n] \in Seq(Message) /\ Tail(chan[p][n]) \in Seq(Message)
      /\ Head(chan[p][n]) \in Message
      /\ chan \in [Node -> [Node -> Seq(Message)]]
  BY HeadTailProperties DEF TypeOK
<1>2. /\ chan' \in [Node -> [Node -> Seq(Message)]]
      /\ \A q, r \in Node : q # p \/ r # n => chan'[q][r] = chan[q][r]
      /\ chan'[p][n] = Tail(chan[p][n])
  BY <1>1 DEF Received
<1>3. ASSUME NEW q \in Node, NEW r \in Node, NEW m \in Counted
      PROVE  InFlight(q, r, m)' = IF q = p /\ r = n /\ m = Head(chan[p][n])
                                  THEN InFlight(q, r, m) - 1 ELSE InFlight(q, r, m)
  <2>1. Cardinality(Occurrences(chan[q][r], m)) \in Nat
    <3>1. chan[q][r] \in Seq(Message)
      BY <1>1
    <3> QED BY <3>1, OccurrencesFinite
  <2>2. CASE q # p \/ r # n
    <3>1. chan'[q][r] = chan[q][r]
      BY <2>2, <1>2
    <3>2. InFlight(q, r, m)' = InFlight(q, r, m)
      BY <3>1, InFlightOccurrences
    <3> QED BY <2>2, <3>2
  <2>3. CASE q = p /\ r = n
    <3>1. Cardinality(Occurrences(chan[p][n], m))
            = Cardinality(Occurrences(Tail(chan[p][n]), m))
              + IF Head(chan[p][n]) = m THEN 1 ELSE 0
      BY <1>1, OccurrencesTail
    <3>2. Cardinality(Occurrences(Tail(chan[p][n]), m)) \in Nat
      BY <1>1, OccurrencesFinite
    <3>3. /\ InFlight(q, r, m) = Cardinality(Occurrences(chan[p][n], m))
          /\ InFlight(q, r, m)' = Cardinality(Occurrences(Tail(chan[p][n]), m))
      BY <1>2, <2>3, InFlightOccurrences
    <3> QED BY <3>1, <3>2, <3>3, <2>3
  <2> QED BY <2>2, <2>3
<1> QED BY <1>1, <1>2, <1>3
----------------------------------------------------------------------------
(***************************************************************************)
(* The waiters and the stages of the tasks                                 *)
(***************************************************************************)

\* add_reply changes one entry of one list.
LEMMA RepliedProperties ==
  ASSUME TypeOK, NEW b \in Barriers, NEW n \in Node, NEW p \in Node,
         wait_on' = Replied(b, n, p)
  PROVE  /\ wait_on' \in [Barriers -> [Node -> [Node -> Nat]]]
         /\ wait_on'[b][n][p] = IF wait_on[b][n][p] > 0 THEN wait_on[b][n][p] - 1
                                                        ELSE wait_on[b][n][p]
         /\ \A c \in Barriers : \A m, q \in Node :
              c # b \/ m # n \/ q # p => wait_on'[c][m][q] = wait_on[c][m][q]
<1>1. wait_on \in [Barriers -> [Node -> [Node -> Nat]]]
  BY DEF TypeOK
<1> DEFINE list == wait_on[b][n]
<1>2. /\ Without(list, p) \in [Node -> Nat]
      /\ Without(list, p)[p] = IF list[p] > 0 THEN list[p] - 1 ELSE list[p]
      /\ \A q \in Node : q # p => Without(list, p)[q] = list[q]
  BY <1>1 DEF Without
<1>3. /\ wait_on'[b][n] = Without(list, p)
      /\ \A c \in Barriers : \A m \in Node :
           c # b \/ m # n => wait_on'[c][m] = wait_on[c][m]
      /\ wait_on' \in [Barriers -> [Node -> [Node -> Nat]]]
  BY <1>1, <1>2 DEF Replied
<1> QED BY <1>2, <1>3

\* arm replaces one list.
LEMMA ArmedProperties ==
  ASSUME TypeOK, NEW b \in Barriers, NEW n \in Node, NEW list \in [Node -> Nat],
         wait_on' = Armed(b, n, list)
  PROVE  /\ wait_on' \in [Barriers -> [Node -> [Node -> Nat]]]
         /\ wait_on'[b][n] = list
         /\ \A c \in Barriers : \A m \in Node :
              c # b \/ m # n => wait_on'[c][m] = wait_on[c][m]
  BY DEF TypeOK, Armed

\* One count of one node is replaced.
LEMMA StageChanged ==
  ASSUME TypeOK, NEW n \in Node, NEW s \in Stage, NEW v \in Nat,
         tasks' = [tasks EXCEPT ![n][s] = v]
  PROVE  /\ tasks' \in [Node -> [Stage -> Nat]]
         /\ tasks'[n][s] = v
         /\ \A x \in Stage : x # s => tasks'[n][x] = tasks[n][x]
         /\ \A p \in Node : p # n => tasks'[p] = tasks[p]
<1>1. tasks \in [Node -> [Stage -> Nat]]
  BY DEF TypeOK
<1> QED BY <1>1

\* A task leaves one stage and enters another one.
LEMMA MovedProperties ==
  ASSUME TypeOK, NEW n \in Node, NEW s \in Stage, NEW t \in Stage, s # t,
         tasks[n][s] > 0, tasks' = Moved(n, s, t)
  PROVE  /\ tasks' \in [Node -> [Stage -> Nat]]
         /\ tasks'[n][s] = tasks[n][s] - 1 /\ tasks'[n][t] = tasks[n][t] + 1
         /\ \A x \in Stage : x # s /\ x # t => tasks'[n][x] = tasks[n][x]
         /\ \A p \in Node : p # n => tasks'[p] = tasks[p]
<1>1. tasks \in [Node -> [Stage -> Nat]]
  BY DEF TypeOK
<1> DEFINE once == [tasks EXCEPT ![n][s] = @ - 1]
<1>2. tasks[n][s] - 1 \in Nat
  BY <1>1
<1>3. once \in [Node -> [Stage -> Nat]] /\ once[n][s] = tasks[n][s] - 1
      /\ (\A x \in Stage : x # s => once[n][x] = tasks[n][x])
      /\ \A p \in Node : p # n => once[p] = tasks[p]
  BY <1>1, <1>2
<1>4. tasks' = [once EXCEPT ![n][t] = @ + 1]
  BY <1>1 DEF Moved
<1> HIDE DEF once
<1>5. /\ tasks' \in [Node -> [Stage -> Nat]] /\ tasks'[n][t] = once[n][t] + 1
      /\ \A x \in Stage : x # t => tasks'[n][x] = once[n][x]
      /\ \A p \in Node : p # n => tasks'[p] = once[p]
  BY <1>3, <1>4
<1> QED BY <1>3, <1>5

\* A broadcast moves sleepers back to waiting.
LEMMA WokenProperties ==
  ASSUME TypeOK, NEW b \in Barriers, NEW n \in Node,
         tasks' = Woken(b, n, tasks)
  PROVE  /\ tasks' \in [Node -> [Stage -> Nat]]
         /\ \A p \in Node : p # n => tasks'[p] = tasks[p]
         /\ b = "completion" => tasks' = tasks
         /\ tasks'[n].waiting + tasks'[n].asleep = tasks[n].waiting + tasks[n].asleep
         /\ \A x \in Stage : x \notin {"waiting", "asleep"} =>
              tasks'[n][x] = tasks[n][x]
<1>1. tasks \in [Node -> [Stage -> Nat]] /\ {"waiting", "asleep"} \subseteq Stage
  BY DEF TypeOK, Stage
<1>2. tasks[n].waiting \in Nat /\ tasks[n].asleep \in Nat
  BY <1>1
<1>3. CASE b = "completion"
  BY <1>1, <1>3 DEF Woken
<1>4. CASE b = "client"
  <2> DEFINE up == [tasks EXCEPT ![n].waiting = @ + tasks[n].asleep]
  <2>1. /\ up \in [Node -> [Stage -> Nat]]
        /\ up[n].waiting = tasks[n].waiting + tasks[n].asleep
        /\ \A x \in Stage : x # "waiting" => up[n][x] = tasks[n][x]
        /\ \A p \in Node : p # n => up[p] = tasks[p]
    BY <1>1, <1>2
  <2>2. tasks' = [up EXCEPT ![n].asleep = 0]
    BY <1>1, <1>4 DEF Woken
  <2> HIDE DEF up
  <2>3. /\ tasks' \in [Node -> [Stage -> Nat]] /\ tasks'[n].asleep = 0
        /\ \A x \in Stage : x # "asleep" => tasks'[n][x] = up[n][x]
        /\ \A p \in Node : p # n => tasks'[p] = up[p]
    BY <2>1, <2>2, <1>1
  <2> QED BY <2>1, <2>3, <1>1, <1>2, <1>4
<1> QED BY <1>3, <1>4 DEF Barriers

\* The stages of run_simulation that the invariants tell apart.
MainValues == {"out", "tasking", "waiting1", "asleep1", "rearm", "notify", "ending",
               "ended", "notify_local", "waiting2", "asleep2", "reading"}

SameStage ==
  /\ main' \in MainValues
  /\ First' <=> First
  /\ Closed' <=> Closed
  /\ Opened' <=> Opened
  /\ Idle' <=> Idle
  /\ main' = "rearm" <=> main = "rearm"
  /\ main' = "notify_local" <=> main = "notify_local"

\* A broadcast leaves run_simulation in the stage where it was.
LEMMA MainKept ==
  ASSUME TypeOK,
         main' = main \/ \E b \in Barriers, n \in Node : main' = MainWoken(b, n)
  PROVE  SameStage
<1>1. main \in MainValues
  BY DEF TypeOK, MainValues
<1>2. \/ main' = main
      \/ main = "asleep1" /\ main' = "waiting1"
      \/ main = "asleep2" /\ main' = "waiting2"
  BY DEF MainWoken
<1> QED BY <1>1, <1>2 DEF SameStage, First, Closed, Opened, Idle, MainValues

NodeInv(n) == TasksCounted(n) /\ EntriesMatch(n) /\ ClientBarrier(n)

\* What the invariant says of a node depends on these only.
LEMMA NodeUntouched ==
  ASSUME SameStage, NEW p \in Node, NodeInv(p),
         tasks'[p] = tasks[p], unsent'[p] = unsent[p],
         InFlight(Coordinator, p, TaskMsg)' = InFlight(Coordinator, p, TaskMsg),
         Completions(p)' = Completions(p), Openings(p)' = Openings(p),
         wait_on'["completion"][Coordinator][p] = wait_on["completion"][Coordinator][p],
         \A q \in Node : wait_on'["client"][p][q] = wait_on["client"][p][q]
  PROVE  NodeInv(p)'
<1>1. /\ Notifying(p)' = Notifying(p) /\ Writing(p)' = Writing(p)
      /\ ToCompute(p)' = ToCompute(p) /\ Computed(p)' = Computed(p)
      /\ ClientEntry(p)' = ClientEntry(p)
  BY CoordinatorAssumption DEF Notifying, Writing, ToCompute, Computed, ClientEntry
<1>2. ToNotify(p)' = ToNotify(p)
  BY <1>1 DEF ToNotify, SameStage, First, Completions
<1>3. TasksCounted(p)'
  BY <1>1 DEF NodeInv, TasksCounted, SameStage
<1>4. EntriesMatch(p)'
  BY <1>1, <1>2 DEF NodeInv, EntriesMatch, SameStage
<1>5. ClientBarrier(p)'
  BY <1>1 DEF NodeInv, ClientBarrier, Shut, SameStage
<1> QED BY <1>3, <1>4, <1>5 DEF NodeInv

\* All the counts of a node are numbers.
LEMMA NodeNumbers ==
  ASSUME TypeOK, NEW p \in Node
  PROVE  /\ tasks[p] \in [Stage -> Nat] /\ unsent[p] \in Nat
         /\ tasks[p].started \in Nat /\ tasks[p].computing \in Nat
         /\ tasks[p].computed \in Nat /\ tasks[p].ending \in Nat
         /\ tasks[p].ended \in Nat /\ tasks[p].notified \in Nat
         /\ tasks[p].waiting \in Nat /\ tasks[p].asleep \in Nat
         /\ tasks[p].writing \in Nat /\ tasks[p].written \in Nat
         /\ tasks[p].ending_last \in Nat /\ tasks[p].ended_last \in Nat
         /\ tasks[p].finishing \in Nat
         /\ InFlight(Coordinator, p, TaskMsg) \in Nat
         /\ Completions(p) \in Nat /\ Openings(p) \in Nat
         /\ \A b \in Barriers : \A n \in Node : wait_on[b][n][p] \in Nat
         /\ Notifying(p) \in Nat /\ Writing(p) \in Nat
         /\ ToCompute(p) \in Nat /\ Computed(p) \in Nat
<1>1. /\ tasks[p] \in [Stage -> Nat] /\ unsent[p] \in Nat
      /\ \A b \in Barriers : \A n \in Node : wait_on[b][n][p] \in Nat
  BY DEF TypeOK
<1>2. /\ tasks[p].started \in Nat /\ tasks[p].computing \in Nat
      /\ tasks[p].computed \in Nat /\ tasks[p].ending \in Nat
      /\ tasks[p].ended \in Nat /\ tasks[p].notified \in Nat
      /\ tasks[p].waiting \in Nat /\ tasks[p].asleep \in Nat
      /\ tasks[p].writing \in Nat /\ tasks[p].written \in Nat
      /\ tasks[p].ending_last \in Nat /\ tasks[p].ended_last \in Nat
      /\ tasks[p].finishing \in Nat
  BY <1>1 DEF Stage
<1>3. /\ InFlight(Coordinator, p, TaskMsg) \in Nat
      /\ Completions(p) \in Nat /\ Openings(p) \in Nat
  BY InFlightCount, CoordinatorAssumption DEF Completions, Openings
<1>4. Notifying(p) \in Nat /\ Writing(p) \in Nat
  BY <1>2 DEF Notifying, Writing
<1>5. ToCompute(p) \in Nat /\ Computed(p) \in Nat
  BY <1>1, <1>2, <1>3, <1>4 DEF ToCompute, Computed
<1> QED BY <1>1, <1>2, <1>3, <1>4, <1>5

\* The two forms of ToNotify, in the step before and in the one after.
LEMMA ToNotifyIs ==
  ASSUME NEW n \in Node, First' <=> First
  PROVE  /\ First =>
              /\ ToNotify(n) = Completions(n) + (ToCompute(n) + Notifying(n)
                   + (IF n = Coordinator THEN tasks[n].notified ELSE 0))
              /\ ToNotify(n)' = Completions(n)' + (ToCompute(n)' + Notifying(n)'
                   + (IF n = Coordinator THEN tasks'[n].notified ELSE 0))
         /\ ~ First =>
              /\ ToNotify(n) = Completions(n) + (tasks[n].waiting + tasks[n].asleep
                   + Writing(n)
                   + (IF n = Coordinator THEN tasks[n].finishing ELSE tasks[n].notified))
              /\ ToNotify(n)' = Completions(n)' + (tasks'[n].waiting + tasks'[n].asleep
                   + Writing(n)'
                   + (IF n = Coordinator THEN tasks'[n].finishing ELSE tasks'[n].notified))
  BY DEF ToNotify, First, Completions

\* Nothing changes on the connections.
LEMMA ChannelsKept ==
  ASSUME MessagesFit, chan' = chan
  PROVE  /\ MessagesFit'
         /\ \A p, q, m : InFlight(p, q, m)' = InFlight(p, q, m)
  BY DEF MessagesFit, InFlight

\* A message sent keeps the connections fit.
LEMMA FitSent ==
  ASSUME TypeOK, MessagesFit, NEW n \in Node, NEW msg \in Message,
         msg \in {TaskMsg, NotifyMsg("client")} => n = Coordinator,
         chan' = Sent(n, msg)
  PROVE  MessagesFit'
<1>1. /\ \A p, q \in Node : p # n \/ q = n => chan'[p][q] = chan[p][q]
      /\ \A q \in Node : q # n => chan'[n][q] = Append(chan[n][q], msg)
  BY MessageSent
<1>2. \A p \in Node : chan'[p][p] = << >>
  BY <1>1 DEF MessagesFit
<1>3. ASSUME NEW p \in Node, NEW q \in Node, NEW k \in DOMAIN chan'[p][q],
             chan'[p][q][k] \in {TaskMsg, NotifyMsg("client")}
      PROVE  p = Coordinator
  <2>1. CASE p # n \/ q = n
    BY <2>1, <1>1, <1>3 DEF MessagesFit
  <2>2. CASE p = n /\ q # n
    <3>1. chan[p][q] \in Seq(Message)
      BY DEF TypeOK
    <3>2. k \in DOMAIN Append(chan[p][q], msg) /\ chan'[p][q] = Append(chan[p][q], msg)
      BY <1>1, <1>3, <2>2
    <3>3. \/ chan'[p][q][k] = msg
          \/ k \in DOMAIN chan[p][q] /\ chan'[p][q][k] = chan[p][q][k]
      BY <3>1, <3>2
    <3> QED BY <3>3, <2>2, <1>3 DEF MessagesFit
  <2> QED BY <2>1, <2>2
<1> QED BY <1>2, <1>3 DEF MessagesFit

\* Taking a message keeps the connections fit.
LEMMA FitTaken ==
  ASSUME TypeOK, MessagesFit, NEW n \in Node, NEW p \in Node, chan[p][n] # << >>,
         chan' = Received(p, n)
  PROVE  /\ MessagesFit' /\ p # n
         /\ Head(chan[p][n]) \in {TaskMsg, NotifyMsg("client")} => p = Coordinator
<1>1. /\ \A q, r \in Node : q # p \/ r # n => chan'[q][r] = chan[q][r]
      /\ chan'[p][n] = Tail(chan[p][n])
  BY MessageTaken
<1>2. p # n
  BY DEF MessagesFit
<1>3. /\ chan[p][n] \in Seq(Message) /\ 1 \in DOMAIN chan[p][n]
      /\ Head(chan[p][n]) = chan[p][n][1]
      /\ \A k \in DOMAIN Tail(chan[p][n]) :
           k + 1 \in DOMAIN chan[p][n] /\ Tail(chan[p][n])[k] = chan[p][n][k + 1]
  BY DEF TypeOK
<1>4. Head(chan[p][n]) \in {TaskMsg, NotifyMsg("client")} => p = Coordinator
  BY <1>3 DEF MessagesFit
<1>5. \A q \in Node : chan'[q][q] = << >>
  BY <1>1, <1>2 DEF MessagesFit
<1>6. ASSUME NEW q \in Node, NEW r \in Node, NEW k \in DOMAIN chan'[q][r],
             chan'[q][r][k] \in {TaskMsg, NotifyMsg("client")}
      PROVE  q = Coordinator
  <2>1. CASE q # p \/ r # n
    BY <2>1, <1>1, <1>6 DEF MessagesFit
  <2>2. CASE q = p /\ r = n
    BY <2>2, <1>1, <1>3, <1>6 DEF MessagesFit
  <2> QED BY <2>1, <2>2
<1> QED BY <1>2, <1>4, <1>5, <1>6 DEF MessagesFit

\* A diff counts for nothing.
LEMMA DiffSent ==
  ASSUME TypeOK, MessagesFit, NEW n \in Node, NEW some \in SUBSET Nat,
         chan' = Sent(n, DiffMsg(some))
  PROVE  /\ chan' \in [Node -> [Node -> Seq(Message)]]
         /\ MessagesFit'
         /\ \A p, q \in Node : \A m \in Counted :
              InFlight(p, q, m)' = InFlight(p, q, m)
<1> DEFINE msg == DiffMsg(some)
<1>1. /\ msg \in Message /\ msg \notin Counted /\ chan' = Sent(n, msg)
      /\ chan \in [Node -> [Node -> Seq(Message)]]
  BY CountedMessages DEF TypeOK
<1> HIDE DEF msg
<1>2. /\ chan' \in [Node -> [Node -> Seq(Message)]]
      /\ \A p, q \in Node : \A m \in Counted :
           InFlight(p, q, m)' = InFlight(p, q, m)
             + IF p = n /\ q # n /\ m = msg THEN 1 ELSE 0
  BY <1>1, MessageSent
<1>3. MessagesFit'
  BY <1>1, FitSent DEF Counted
<1>4. \A p, q \in Node : \A m \in Counted : InFlight(p, q, m) \in Nat
  BY <1>1, <1>2, InFlightCounts
<1>5. \A m \in Counted : m # msg
  BY <1>1
<1>6. ASSUME NEW p \in Node, NEW q \in Node, NEW m \in Counted
      PROVE  InFlight(p, q, m)' = InFlight(p, q, m)
  <2>1. InFlight(p, q, m)' = InFlight(p, q, m) + 0
    BY <1>2, <1>5
  <2> QED BY <2>1, <1>4
<1> QED BY <1>2, <1>3, <1>6

\* What the invariant says of a node depends on these sums only.
LEMMA SumsKept ==
  ASSUME SameStage, NEW p \in Node, NodeInv(p),
         ToCompute(p)' = ToCompute(p), Computed(p)' = Computed(p),
         ToNotify(p)' = ToNotify(p),
         tasks'[p].computing = tasks[p].computing,
         Notifying(p)' = Notifying(p), tasks'[p].notified = tasks[p].notified,
         Writing(p)' = Writing(p),
         tasks'[p].finishing = tasks[p].finishing,
         Completions(p)' = Completions(p), Openings(p)' = Openings(p),
         wait_on' = wait_on
  PROVE  NodeInv(p)'
<1>1. TasksCounted(p)'
  BY DEF NodeInv, TasksCounted, SameStage
<1>2. EntriesMatch(p)'
  BY DEF NodeInv, EntriesMatch, SameStage
<1>3. ClientBarrier(p)'
  BY DEF NodeInv, ClientBarrier, ClientEntry, Shut, SameStage
<1> QED BY <1>1, <1>2, <1>3 DEF NodeInv

\* A sum of numbers is zero only if all are.
LEMMA ZeroSum ==
  ASSUME NEW a \in Nat, NEW b \in Nat, NEW c \in Nat, NEW d \in Nat, a + b + c + d = 0
  PROVE  a = 0 /\ b = 0 /\ c = 0 /\ d = 0
  OBVIOUS

\* Within a class of stages the threads stay as many.
LEMMA NotifyingWithin ==
  ASSUME TypeOK, NEW n \in Node, NEW s \in Stage, NEW t \in Stage, s # t,
         {s, t} \subseteq {"computed", "ending", "ended"},
         tasks[n][s] > 0, tasks' = Moved(n, s, t)
  PROVE  Notifying(n)' = Notifying(n)
<1>1. /\ tasks[n].computed \in Nat /\ tasks[n].ending \in Nat
      /\ tasks[n].ended \in Nat
  BY NodeNumbers
<1> DEFINE d(x) == IF x = s THEN -1 ELSE IF x = t THEN 1 ELSE 0
<1>2. /\ tasks'[n][s] = tasks[n][s] - 1 /\ tasks'[n][t] = tasks[n][t] + 1
      /\ \A x \in Stage : x # s /\ x # t => tasks'[n][x] = tasks[n][x]
  BY MovedProperties
<1>3. ASSUME NEW x \in {"computed", "ending", "ended"}
      PROVE  tasks'[n][x] = tasks[n][x] + d(x) /\ d(x) \in Int
  BY <1>1, <1>2 DEF Stage
<1>4. d("computed") + d("ending") + d("ended") = 0
  OBVIOUS
<1> HIDE DEF d
<1>5. /\ tasks'[n].computed = tasks[n].computed + d("computed") /\ d("computed") \in Int
      /\ tasks'[n].ending = tasks[n].ending + d("ending") /\ d("ending") \in Int
      /\ tasks'[n].ended = tasks[n].ended + d("ended") /\ d("ended") \in Int
  BY <1>3
<1> QED BY <1>1, <1>4, <1>5 DEF Notifying

LEMMA WritingWithin ==
  ASSUME TypeOK, NEW n \in Node, NEW s \in Stage, NEW t \in Stage, s # t,
         {s, t} \subseteq {"writing", "written", "ending_last", "ended_last"},
         tasks[n][s] > 0, tasks' = Moved(n, s, t)
  PROVE  Writing(n)' = Writing(n)
<1>1. /\ tasks[n].writing \in Nat /\ tasks[n].written \in Nat
      /\ tasks[n].ending_last \in Nat /\ tasks[n].ended_last \in Nat
  BY NodeNumbers
<1> DEFINE d(x) == IF x = s THEN -1 ELSE IF x = t THEN 1 ELSE 0
<1>2. /\ tasks'[n][s] = tasks[n][s] - 1 /\ tasks'[n][t] = tasks[n][t] + 1
      /\ \A x \in Stage : x # s /\ x # t => tasks'[n][x] = tasks[n][x]
  BY MovedProperties
<1>3. ASSUME NEW x \in {"writing", "written", "ending_last", "ended_last"}
      PROVE  tasks'[n][x] = tasks[n][x] + d(x) /\ d(x) \in Int
  BY <1>1, <1>2 DEF Stage
<1>4. d("writing") + d("written") + d("ending_last") + d("ended_last") = 0
  OBVIOUS
<1> HIDE DEF d
<1>5. /\ tasks'[n].writing = tasks[n].writing + d("writing") /\ d("writing") \in Int
      /\ tasks'[n].written = tasks[n].written + d("written") /\ d("written") \in Int
      /\ tasks'[n].ending_last = tasks[n].ending_last + d("ending_last") /\ d("ending_last") \in Int
      /\ tasks'[n].ended_last = tasks[n].ended_last + d("ended_last") /\ d("ended_last") \in Int
  BY <1>3
<1> QED BY <1>1, <1>4, <1>5 DEF Writing

\* Nobody writes if nobody has still to notify of it.
LEMMA WritingZero ==
  ASSUME TypeOK, NEW n \in Node, Writing(n) = 0
  PROVE  /\ tasks[n].writing = 0 /\ tasks[n].written = 0
         /\ tasks[n].ending_last = 0 /\ tasks[n].ended_last = 0
<1>1. /\ tasks[n].writing \in Nat /\ tasks[n].written \in Nat
      /\ tasks[n].ending_last \in Nat /\ tasks[n].ended_last \in Nat
  BY NodeNumbers
<1>2. tasks[n].writing + tasks[n].written + tasks[n].ending_last
        + tasks[n].ended_last = 0
  BY DEF Writing
<1> DEFINE a == tasks[n].writing
           b == tasks[n].written
           c == tasks[n].ending_last
           d == tasks[n].ended_last
<1>3. a \in Nat /\ b \in Nat /\ c \in Nat /\ d \in Nat /\ a + b + c + d = 0
  BY <1>1, <1>2
<1> HIDE DEF a, b, c, d
<1>4. a = 0 /\ b = 0 /\ c = 0 /\ d = 0
  BY <1>3
<1> QED BY <1>4 DEF a, b, c, d

\* A step of a task that the sums do not tell.
LEMMA CountWithin ==
  ASSUME CountInv, NEW n \in Node, NEW s \in Stage, NEW t \in Stage, s # t,
         \/ {s, t} \subseteq {"computed", "ending", "ended"}
         \/ {s, t} \subseteq {"writing", "written", "ending_last", "ended_last"},
         tasks[n][s] > 0, tasks' = Moved(n, s, t),
         UNCHANGED <<wait_on, main, unsent>>,
         TypeOK', MessagesFit',
         \A p, q \in Node : \A m \in Counted : InFlight(p, q, m)' = InFlight(p, q, m)
  PROVE  CountInv'
<1>1. TypeOK /\ \A p \in Node : NodeInv(p)
  BY DEF CountInv, NodeInv
<1>2. SameStage
  BY <1>1, MainKept
<1>3. /\ tasks'[n][s] = tasks[n][s] - 1 /\ tasks'[n][t] = tasks[n][t] + 1
      /\ \A x \in Stage : x # s /\ x # t => tasks'[n][x] = tasks[n][x]
      /\ \A p \in Node : p # n => tasks'[p] = tasks[p]
  BY <1>1, MovedProperties
<1>4. ASSUME NEW p \in Node
      PROVE  /\ InFlight(Coordinator, p, TaskMsg)' = InFlight(Coordinator, p, TaskMsg)
             /\ Completions(p)' = Completions(p) /\ Openings(p)' = Openings(p)
  BY CoordinatorAssumption DEF Counted, Completions, Openings
<1>5. ASSUME NEW p \in Node, p # n PROVE NodeInv(p)'
  BY <1>1, <1>2, <1>3, <1>4, <1>5, NodeUntouched
<1>6. NodeInv(n)'
  <2>1. /\ tasks'[n].started = tasks[n].started
        /\ tasks'[n].computing = tasks[n].computing
        /\ tasks'[n].notified = tasks[n].notified
        /\ tasks'[n].waiting = tasks[n].waiting /\ tasks'[n].asleep = tasks[n].asleep
        /\ tasks'[n].finishing = tasks[n].finishing
    BY <1>3 DEF Stage
  <2>2. Notifying(n)' = Notifying(n) /\ Writing(n)' = Writing(n)
    <3>1. CASE {s, t} \subseteq {"computed", "ending", "ended"}
      <4>1. Writing(n)' = Writing(n)
        BY <1>3, <3>1 DEF Stage, Writing
      <4>2. Notifying(n)' = Notifying(n)
        BY <1>1, <3>1, NotifyingWithin
      <4> QED BY <4>1, <4>2
    <3>2. CASE {s, t} \subseteq {"writing", "written", "ending_last", "ended_last"}
      <4>1. Notifying(n)' = Notifying(n)
        BY <1>3, <3>2 DEF Stage, Notifying
      <4>2. Writing(n)' = Writing(n)
        BY <1>1, <3>2, WritingWithin
      <4> QED BY <4>1, <4>2
    <3> QED BY <3>1, <3>2
  <2>3. ToCompute(n)' = ToCompute(n) /\ Computed(n)' = Computed(n)
    BY <1>4, <2>1, <2>2 DEF ToCompute, Computed
  <2>4. ToNotify(n)' = ToNotify(n)
    BY <1>2, <1>4, <2>1, <2>2, <2>3, ToNotifyIs DEF SameStage
  <2> QED BY <1>1, <1>2, <1>4, <2>1, <2>2, <2>3, <2>4, SumsKept
<1> QED BY <1>5, <1>6 DEF CountInv, NodeInv

\* What diff_region takes leaves the memory typed.
LEMMA TookTypes ==
  ASSUME TypeOK, NEW n \in Node, NEW by \in {"ending", "ending_last", "main"},
         Took(n, by)
  PROVE  /\ dirty' \in [Node -> SUBSET Nat] /\ taken' \in [Node -> SUBSET Diff]
         /\ results' = results /\ seen' = seen
<1>1. dirty \in [Node -> SUBSET Nat] /\ taken \in [Node -> SUBSET Diff]
  BY DEF TypeOK
<1>2. [by |-> by, results |-> dirty[n]] \in Diff
  BY <1>1 DEF Diff
<1> QED BY <1>1, <1>2 DEF Took

----------------------------------------------------------------------------
(***************************************************************************)
(* The steps of a task                                                     *)
(***************************************************************************)
\* Arming the client barrier puts in the one entry that the run will take out.
LEMMA CountTaskArm ==
  ASSUME CountInv, NEW n \in Node, TaskArm(n)
  PROVE  CountInv'
<1>1. /\ TypeOK /\ MessagesFit /\ NodeInv(n) /\ \A p \in Node : NodeInv(p)
      /\ tasks[n].started > 0 /\ tasks' = Moved(n, "started", "computing")
      /\ wait_on' = Armed("client", n, [NoEntry EXCEPT ![Coordinator] = 1])
      /\ UNCHANGED <<chan, main, unsent, runs, results, dirty, taken, seen>>
  BY DEF CountInv, NodeInv, TaskArm, memoryVars
<1>2. /\ tasks' \in [Node -> [Stage -> Nat]]
      /\ tasks'[n].started = tasks[n].started - 1
      /\ tasks'[n].computing = tasks[n].computing + 1
      /\ \A x \in Stage : x \notin {"started", "computing"} => tasks'[n][x] = tasks[n][x]
      /\ \A p \in Node : p # n => tasks'[p] = tasks[p]
  <2>1. "started" \in Stage /\ "computing" \in Stage /\ "started" # "computing"
    BY DEF Stage
  <2>2. TypeOK /\ tasks[n]["started"] > 0 /\ tasks' = Moved(n, "started", "computing")
    BY <1>1
  <2> QED BY <2>1, <2>2, MovedProperties
<1>3. /\ wait_on' \in [Barriers -> [Node -> [Node -> Nat]]]
      /\ wait_on'["client"][n] = [NoEntry EXCEPT ![Coordinator] = 1]
      /\ \A c \in Barriers : \A m \in Node :
           c # "client" \/ m # n => wait_on'[c][m] = wait_on[c][m]
  <2> DEFINE list == [NoEntry EXCEPT ![Coordinator] = 1]
  <2>1. list \in [Node -> Nat] /\ "client" \in Barriers
    BY CoordinatorAssumption DEF NoEntry, Barriers
  <2> HIDE DEF list
  <2>2. wait_on' = Armed("client", n, list)
    BY <1>1 DEF list
  <2> QED BY <2>1, <2>2, <1>1, ArmedProperties DEF list
<1>4. TypeOK'
  BY <1>1, <1>2, <1>3 DEF TypeOK
<1>5. MessagesFit' /\ \A p, q, m : InFlight(p, q, m)' = InFlight(p, q, m)
  BY <1>1, ChannelsKept
<1>6. SameStage
  BY <1>1, MainKept
<1>7. ASSUME NEW p \in Node, p # n PROVE NodeInv(p)'
  BY <1>7, <1>1, <1>2, <1>3, <1>5, <1>6, NodeUntouched, CoordinatorAssumption
     DEF Barriers, Completions, Openings
<1>8. /\ First /\ First' /\ Closed /\ Closed' /\ ~ Idle /\ ~ Idle'
      /\ ~ Opened /\ ~ Opened' /\ main' # "rearm"
  <2>1. First
    BY <1>1, NodeNumbers DEF NodeInv, TasksCounted, ToCompute
  <2> QED BY <2>1, <1>1 DEF First, Closed, Opened, Idle
<1>9. /\ Notifying(n)' = Notifying(n) /\ tasks'[n].notified = tasks[n].notified
      /\ tasks'[n].waiting = tasks[n].waiting /\ tasks'[n].asleep = tasks[n].asleep
      /\ Writing(n)' = Writing(n)
      /\ tasks'[n].finishing = tasks[n].finishing
  BY <1>2 DEF Stage, Notifying, Writing
<1>10. ToCompute(n)' = ToCompute(n) /\ Computed(n)' = Computed(n)
  <2>1. tasks[n].started \in Nat /\ tasks[n].computing \in Nat /\ unsent[n] \in Nat
        /\ InFlight(Coordinator, n, TaskMsg) \in Nat
    BY <1>1, NodeNumbers
  <2>2. unsent'[n] = unsent[n]
        /\ InFlight(Coordinator, n, TaskMsg)' = InFlight(Coordinator, n, TaskMsg)
    BY <1>1, <1>5
  <2>3. ToCompute(n)' = ToCompute(n)
    BY <2>1, <2>2, <1>2 DEF ToCompute
  <2>4. Computed(n)' = Computed(n)
    BY <1>9 DEF Computed
  <2> QED BY <2>3, <2>4
<1>11. NodeInv(n)'
  <2>1. TasksCounted(n)'
    BY <1>1, <1>8, <1>9, <1>10 DEF NodeInv, TasksCounted
  <2>2. EntriesMatch(n)'
    BY <1>1, <1>3, <1>5, <1>8, <1>9, <1>10, CoordinatorAssumption
       DEF NodeInv, EntriesMatch, ToNotify, First, Idle, Barriers
  <2>3. ClientBarrier(n)'
    BY <1>1, <1>3, <1>5, <1>8, CoordinatorAssumption
       DEF NodeInv, ClientBarrier, ClientEntry, NoEntry, Openings
  <2> QED BY <2>1, <2>2, <2>3 DEF NodeInv
<1> QED BY <1>4, <1>5, <1>7, <1>11 DEF CountInv, NodeInv

\* Computing moves a task from those still to compute to those that have.
LEMMA CountTaskCompute ==
  ASSUME CountInv, NEW n \in Node, TaskCompute(n)
  PROVE  CountInv'
<1>1. /\ TypeOK /\ MessagesFit /\ NodeInv(n) /\ \A p \in Node : NodeInv(p)
      /\ tasks[n].computing > 0 /\ tasks' = Moved(n, "computing", "computed")
      /\ UNCHANGED <<chan, wait_on, main, unsent, runs, results, dirty, taken, seen>>
  BY DEF CountInv, NodeInv, TaskCompute, memoryVars
<1>2. /\ tasks' \in [Node -> [Stage -> Nat]]
      /\ tasks'[n].computing = tasks[n].computing - 1
      /\ tasks'[n].computed = tasks[n].computed + 1
      /\ \A x \in Stage : x \notin {"computing", "computed"} => tasks'[n][x] = tasks[n][x]
      /\ \A p \in Node : p # n => tasks'[p] = tasks[p]
  <2>1. "computing" \in Stage /\ "computed" \in Stage /\ "computing" # "computed"
    BY DEF Stage
  <2>2. TypeOK /\ tasks[n]["computing"] > 0 /\ tasks' = Moved(n, "computing", "computed")
    BY <1>1
  <2> QED BY <2>1, <2>2, MovedProperties
<1>3. SameStage
  BY <1>1, MainKept DEF Barriers
<1>5. TypeOK'
  BY <1>1, <1>2 DEF TypeOK
<1>6. /\ MessagesFit'
      /\ \A p \in Node :
           /\ InFlight(Coordinator, p, TaskMsg)' = InFlight(Coordinator, p, TaskMsg)
           /\ Openings(p)' = Openings(p)
           /\ Completions(p)' = Completions(p)
  BY <1>1, ChannelsKept DEF Completions, Openings
<1>7. ASSUME NEW p \in Node, p # n PROVE NodeInv(p)'
  BY <1>7, <1>1, <1>2, <1>3, <1>6, NodeUntouched, CoordinatorAssumption DEF Barriers
<1>8. /\ tasks[n].started \in Nat /\ tasks[n].computing \in Nat
      /\ Notifying(n) \in Nat /\ tasks[n].notified \in Nat
      /\ tasks[n].waiting \in Nat /\ tasks[n].asleep \in Nat
      /\ Writing(n) \in Nat
      /\ tasks[n].finishing \in Nat /\ unsent[n] \in Nat
      /\ InFlight(Coordinator, n, TaskMsg) \in Nat
      /\ Completions(n) \in Nat /\ Openings(n) \in Nat
      /\ wait_on["completion"][Coordinator][n] \in Nat
  BY <1>1, NodeNumbers, CoordinatorAssumption DEF Barriers
<1>9. /\ tasks'[n].started = tasks[n].started /\ tasks'[n].notified = tasks[n].notified
      /\ tasks'[n].waiting = tasks[n].waiting /\ tasks'[n].asleep = tasks[n].asleep
      /\ Writing(n)' = Writing(n)
      /\ tasks'[n].finishing = tasks[n].finishing
      /\ tasks'[n].computing = tasks[n].computing - 1 /\ Notifying(n)' = Notifying(n) + 1
      /\ unsent'[n] = unsent[n] /\ tasks[n].computing > 0
      /\ Completions(n)' = Completions(n)
  BY <1>1, <1>2, <1>6, NodeNumbers DEF Stage, Notifying, Writing
<1>10. /\ ToCompute(n)' = ToCompute(n) - 1 /\ Computed(n)' = Computed(n) + 1
       /\ ToCompute(n) \in Nat /\ Computed(n) \in Nat
       /\ ToCompute(n) > 0
  <2>1. ToCompute(n) \in Nat /\ Computed(n) \in Nat
    BY <1>8 DEF ToCompute, Computed
  <2>2. ToCompute(n)' = ToCompute(n) - 1
    BY <1>2, <1>6, <1>8, <1>9 DEF ToCompute
  <2>3. Computed(n)' = Computed(n) + 1
    BY <1>2, <1>8, <1>9, SMTT(30) DEF Computed
  <2>4. ToCompute(n) > 0
    BY <1>8, <1>9 DEF ToCompute, Computed
  <2> QED BY <2>1, <2>2, <2>3, <2>4
<1>11. TasksCounted(n) /\ EntriesMatch(n) /\ ClientBarrier(n)
  BY <1>1 DEF NodeInv
<1>12. /\ main \in MainValues
       /\ wait_on' = wait_on
  BY <1>1, CoordinatorAssumption DEF TypeOK, MainValues, Barriers
<1>13. First /\ Closed /\ ~ Idle /\ ~ Opened /\ main # "rearm"
  BY <1>11, <1>9, <1>10 DEF TasksCounted, First, Closed, Idle, Opened
<1>14. TasksCounted(n)'
  BY <1>2, <1>3, <1>8, <1>9, <1>10, <1>13, <1>11 DEF TasksCounted, SameStage
<1>15. EntriesMatch(n)'
  <2>1. /\ main # "rearm" /\ ~ Idle => wait_on["completion"][Coordinator][n] = ToNotify(n)
        /\ main = "rearm" \/ Idle => Completions(n) = 0
        /\ ~ First => Notifying(n) = 0 /\ (n = Coordinator => tasks[n].notified = 0)
        /\ Closed => Writing(n) = 0
        /\ ~ Opened /\ n = Coordinator => tasks[n].finishing = 0
    BY <1>11 DEF EntriesMatch, TasksCounted
  <2>2. /\ First =>
             /\ ToNotify(n) = Completions(n) + (ToCompute(n) + Notifying(n)
                  + (IF n = Coordinator THEN tasks[n].notified ELSE 0))
             /\ ToNotify(n)' = Completions(n)' + (ToCompute(n)' + Notifying(n)'
                  + (IF n = Coordinator THEN tasks'[n].notified ELSE 0))
        /\ ~ First =>
             /\ ToNotify(n) = Completions(n) + (tasks[n].waiting + tasks[n].asleep
                  + Writing(n)
                  + (IF n = Coordinator THEN tasks[n].finishing ELSE tasks[n].notified))
             /\ ToNotify(n)' = Completions(n)' + (tasks'[n].waiting + tasks'[n].asleep
                  + Writing(n)'
                  + (IF n = Coordinator THEN tasks'[n].finishing ELSE tasks'[n].notified))
    BY <1>3, ToNotifyIs DEF SameStage
  <2>3. ToNotify(n)' = ToNotify(n)
    <3>1. CASE First
      BY <3>1, <2>1, <2>2, <1>8, <1>9, <1>10, <1>13
    <3>2. CASE ~ First /\ n = Coordinator
      BY <3>2, <2>1, <2>2, <1>8, <1>9, <1>10, <1>13
    <3>3. CASE ~ First /\ n # Coordinator
      BY <3>3, <2>1, <2>2, <1>8, <1>9, <1>10, <1>13
    <3> QED BY <3>1, <3>2, <3>3
  <2>4. ToNotify(n) \in Nat
    BY <1>8, <1>10, <2>2
  <2>5. main # "rearm" /\ ~ Idle => wait_on'["completion"][Coordinator][n] = ToNotify(n)'
    BY <2>1, <2>3, <2>4, <1>12, <1>8
  <2>6. main = "rearm" \/ Idle => Completions(n)' = 0
    BY <2>1, <1>6, <1>13, <1>9, <1>8, <1>10
  <2> QED BY <2>5, <2>6, <1>3 DEF EntriesMatch, SameStage
<1>16. ClientBarrier(n)'
  BY <1>11, <1>12, <1>2, <1>3, <1>6, <1>8, <1>9, <1>10, <1>13, CoordinatorAssumption,
     ThreadsAssumption
     DEF TasksCounted, ClientBarrier, Shut, ClientEntry, SameStage, Barriers
<1> QED BY <1>5, <1>6, <1>7, <1>14, <1>15, <1>16 DEF CountInv, NodeInv

\* A task that ends the transaction has still to notify.
LEMMA CountTaskTxEnd ==
  ASSUME CountInv, NEW n \in Node, TaskTxEnd(n) \/ TaskTxEndLast(n)
  PROVE  CountInv'
<1>1. PICK s \in {"computed", "written"}, t \in {"ending", "ended", "ending_last", "ended_last"},
           by \in {"ending", "ending_last"} :
        /\ s = "computed" => t \in {"ending", "ended"}
        /\ s = "written" => t \in {"ending_last", "ended_last"}
        /\ tasks[n][s] > 0 /\ tasks' = Moved(n, s, t) /\ Took(n, by)
        /\ UNCHANGED <<chan, wait_on, main, unsent, runs>>
  BY DEF TaskTxEnd, TaskTxEndLast, ToSend
<1>2. TypeOK /\ MessagesFit
  BY DEF CountInv
<1>3. s \in Stage /\ t \in Stage /\ s # t
  BY <1>1 DEF Stage
<1>4. tasks' \in [Node -> [Stage -> Nat]]
  BY <1>1, <1>2, <1>3, MovedProperties
<1>5. TypeOK'
  BY <1>1, <1>2, <1>4, TookTypes DEF TypeOK
<1>6. MessagesFit' /\ \A p, q, m : InFlight(p, q, m)' = InFlight(p, q, m)
  BY <1>1, <1>2, ChannelsKept
<1> QED BY <1>1, <1>3, <1>5, <1>6, CountWithin

\* A notification leaves the tasks still to notify for the connections.
LEMMA CountTaskNotify ==
  ASSUME CountInv, NEW n \in Node, TaskNotify(n)
  PROVE  CountInv'
<1>1. /\ TypeOK /\ MessagesFit /\ NodeInv(n) /\ \A p \in Node : NodeInv(p)
      /\ tasks[n].ended > 0 /\ tasks' = Moved(n, "ended", "notified")
      /\ chan' = Sent(n, NotifyMsg("completion"))
      /\ UNCHANGED <<wait_on, main, unsent, runs, results, dirty, taken, seen>>
  BY DEF CountInv, NodeInv, TaskNotify, memoryVars
<1>2. /\ tasks' \in [Node -> [Stage -> Nat]]
      /\ tasks'[n].ended = tasks[n].ended - 1
      /\ tasks'[n].notified = tasks[n].notified + 1
      /\ \A x \in Stage : x \notin {"ended", "notified"} => tasks'[n][x] = tasks[n][x]
      /\ \A p \in Node : p # n => tasks'[p] = tasks[p]
  <2>1. "ended" \in Stage /\ "notified" \in Stage /\ "ended" # "notified"
    BY DEF Stage
  <2>2. TypeOK /\ tasks[n]["ended"] > 0 /\ tasks' = Moved(n, "ended", "notified")
    BY <1>1
  <2> QED BY <2>1, <2>2, MovedProperties
<1>3. SameStage
  BY <1>1, MainKept DEF Barriers
<1>4. /\ chan' \in [Node -> [Node -> Seq(Message)]]
      /\ \A p, q \in Node : \A m \in Counted :
           InFlight(p, q, m)' = InFlight(p, q, m)
             + IF p = n /\ q # n /\ m = NotifyMsg("completion") THEN 1 ELSE 0
  BY <1>1, CountedMessages, MessageSent DEF Counted
<1>5. TypeOK'
  BY <1>1, <1>2, <1>4 DEF TypeOK
<1>6. /\ MessagesFit'
      /\ \A p \in Node :
           /\ InFlight(Coordinator, p, TaskMsg)' = InFlight(Coordinator, p, TaskMsg)
           /\ Openings(p)' = Openings(p)
           /\ Completions(p)' = IF p = n /\ n # Coordinator THEN Completions(p) + 1
                                                           ELSE Completions(p)
  <2>1. MessagesFit'
    BY <1>1, CountedMessages, FitSent DEF Counted
  <2>2. \A p, q \in Node : \A m \in Counted :
           InFlight(p, q, m) \in Nat
           /\ InFlight(p, q, m)' = InFlight(p, q, m)
                + IF p = n /\ q # n /\ m = NotifyMsg("completion") THEN 1 ELSE 0
    BY <1>1, <1>4, InFlightCount
  <2>3. /\ TaskMsg \in Counted /\ TaskMsg # NotifyMsg("completion")
        /\ NotifyMsg("client") \in Counted /\ NotifyMsg("client") # NotifyMsg("completion")
        /\ NotifyMsg("completion") \in Counted
    BY CountedMessages DEF Counted
  <2>4. ASSUME NEW p \in Node
        PROVE  /\ InFlight(Coordinator, p, TaskMsg)' = InFlight(Coordinator, p, TaskMsg)
               /\ InFlight(Coordinator, p, NotifyMsg("client"))'
                    = InFlight(Coordinator, p, NotifyMsg("client"))
               /\ InFlight(p, Coordinator, NotifyMsg("completion"))'
                    = IF p = n /\ n # Coordinator
                      THEN InFlight(p, Coordinator, NotifyMsg("completion")) + 1
                      ELSE InFlight(p, Coordinator, NotifyMsg("completion"))
    BY <2>2, <2>3, CoordinatorAssumption
  <2> QED BY <2>1, <2>4 DEF Completions, Openings
<1>7. ASSUME NEW p \in Node, p # n PROVE NodeInv(p)'
  BY <1>7, <1>1, <1>2, <1>3, <1>6, NodeUntouched, CoordinatorAssumption DEF Barriers
<1>8. /\ tasks[n].started \in Nat /\ tasks[n].computing \in Nat
      /\ Notifying(n) \in Nat /\ tasks[n].notified \in Nat
      /\ tasks[n].waiting \in Nat /\ tasks[n].asleep \in Nat
      /\ Writing(n) \in Nat
      /\ tasks[n].finishing \in Nat /\ unsent[n] \in Nat
      /\ InFlight(Coordinator, n, TaskMsg) \in Nat
      /\ Completions(n) \in Nat /\ Openings(n) \in Nat
      /\ wait_on["completion"][Coordinator][n] \in Nat
  BY <1>1, NodeNumbers, CoordinatorAssumption DEF Barriers
<1>9. /\ tasks'[n].started = tasks[n].started /\ tasks'[n].computing = tasks[n].computing
      /\ tasks'[n].waiting = tasks[n].waiting /\ tasks'[n].asleep = tasks[n].asleep
      /\ Writing(n)' = Writing(n)
      /\ tasks'[n].finishing = tasks[n].finishing
      /\ Notifying(n)' = Notifying(n) - 1 /\ tasks'[n].notified = tasks[n].notified + 1
      /\ unsent'[n] = unsent[n] /\ Notifying(n) > 0
      /\ Completions(n)' = IF n # Coordinator THEN Completions(n) + 1 ELSE Completions(n)
  BY <1>1, <1>2, <1>6, NodeNumbers DEF Stage, Notifying, Writing
<1>10. /\ ToCompute(n)' = ToCompute(n) /\ Computed(n)' = Computed(n)
       /\ ToCompute(n) \in Nat /\ Computed(n) \in Nat
       /\ Computed(n) > 0
  <2>1. ToCompute(n) \in Nat /\ Computed(n) \in Nat
    BY <1>8 DEF ToCompute, Computed
  <2>2. ToCompute(n)' = ToCompute(n)
    BY <1>2, <1>6, <1>8, <1>9 DEF ToCompute
  <2>3. Computed(n)' = Computed(n)
    BY <1>2, <1>8, <1>9, SMTT(30) DEF Computed
  <2>4. Computed(n) > 0
    BY <1>8, <1>9 DEF ToCompute, Computed
  <2> QED BY <2>1, <2>2, <2>3, <2>4
<1>11. TasksCounted(n) /\ EntriesMatch(n) /\ ClientBarrier(n)
  BY <1>1 DEF NodeInv
<1>12. /\ main \in MainValues
       /\ wait_on' = wait_on
  BY <1>1, CoordinatorAssumption DEF TypeOK, MainValues, Barriers
<1>13. First /\ Closed /\ ~ Idle /\ ~ Opened /\ main # "rearm"
  BY <1>11, <1>9, <1>10 DEF TasksCounted, First, Closed, Idle, Opened
<1>14. TasksCounted(n)'
  BY <1>2, <1>3, <1>8, <1>9, <1>10, <1>13, <1>11 DEF TasksCounted, SameStage
<1>15. EntriesMatch(n)'
  <2>1. /\ main # "rearm" /\ ~ Idle => wait_on["completion"][Coordinator][n] = ToNotify(n)
        /\ main = "rearm" \/ Idle => Completions(n) = 0
        /\ ~ First => Notifying(n) = 0 /\ (n = Coordinator => tasks[n].notified = 0)
        /\ Closed => Writing(n) = 0
        /\ ~ Opened /\ n = Coordinator => tasks[n].finishing = 0
    BY <1>11 DEF EntriesMatch, TasksCounted
  <2>2. /\ First =>
             /\ ToNotify(n) = Completions(n) + (ToCompute(n) + Notifying(n)
                  + (IF n = Coordinator THEN tasks[n].notified ELSE 0))
             /\ ToNotify(n)' = Completions(n)' + (ToCompute(n)' + Notifying(n)'
                  + (IF n = Coordinator THEN tasks'[n].notified ELSE 0))
        /\ ~ First =>
             /\ ToNotify(n) = Completions(n) + (tasks[n].waiting + tasks[n].asleep
                  + Writing(n)
                  + (IF n = Coordinator THEN tasks[n].finishing ELSE tasks[n].notified))
             /\ ToNotify(n)' = Completions(n)' + (tasks'[n].waiting + tasks'[n].asleep
                  + Writing(n)'
                  + (IF n = Coordinator THEN tasks'[n].finishing ELSE tasks'[n].notified))
    BY <1>3, ToNotifyIs DEF SameStage
  <2>3. ToNotify(n)' = ToNotify(n)
    <3>1. CASE First
      BY <3>1, <2>1, <2>2, <1>8, <1>9, <1>10, <1>13
    <3>2. CASE ~ First /\ n = Coordinator
      BY <3>2, <2>1, <2>2, <1>8, <1>9, <1>10, <1>13
    <3>3. CASE ~ First /\ n # Coordinator
      BY <3>3, <2>1, <2>2, <1>8, <1>9, <1>10, <1>13
    <3> QED BY <3>1, <3>2, <3>3
  <2>4. ToNotify(n) \in Nat
    BY <1>8, <1>10, <2>2
  <2>5. main # "rearm" /\ ~ Idle => wait_on'["completion"][Coordinator][n] = ToNotify(n)'
    BY <2>1, <2>3, <2>4, <1>12, <1>8
  <2>6. main = "rearm" \/ Idle => Completions(n)' = 0
    BY <2>1, <1>6, <1>13, <1>9, <1>8, <1>10
  <2> QED BY <2>5, <2>6, <1>3 DEF EntriesMatch, SameStage
<1>16. ClientBarrier(n)'
  BY <1>11, <1>12, <1>2, <1>3, <1>6, <1>8, <1>9, <1>10, <1>13, CoordinatorAssumption,
     ThreadsAssumption
     DEF TasksCounted, ClientBarrier, Shut, ClientEntry, SameStage, Barriers
<1> QED BY <1>5, <1>6, <1>7, <1>14, <1>15, <1>16 DEF CountInv, NodeInv

\* The coordinator's own task takes an entry out of the list itself.
LEMMA CountTaskNotifyLocal ==
  ASSUME CountInv, NEW n \in Node, TaskNotifyLocal(n)
  PROVE  CountInv'
<1>1. /\ TypeOK /\ MessagesFit /\ NodeInv(n) /\ \A p \in Node : NodeInv(p)
      /\ tasks[n].notified > 0 /\ tasks' = Moved(n, "notified", "waiting")
      /\ wait_on' = Replied("completion", n, n)
      /\ main' = MainWoken("completion", n)
      /\ UNCHANGED <<chan, unsent, runs, results, dirty, taken, seen>>
  BY DEF CountInv, NodeInv, TaskNotifyLocal, memoryVars
<1>2. /\ tasks' \in [Node -> [Stage -> Nat]]
      /\ tasks'[n].notified = tasks[n].notified - 1
      /\ tasks'[n].waiting = tasks[n].waiting + 1
      /\ \A x \in Stage : x \notin {"notified", "waiting"} => tasks'[n][x] = tasks[n][x]
      /\ \A p \in Node : p # n => tasks'[p] = tasks[p]
  <2>1. "notified" \in Stage /\ "waiting" \in Stage /\ "notified" # "waiting"
    BY DEF Stage
  <2>2. TypeOK /\ tasks[n]["notified"] > 0 /\ tasks' = Moved(n, "notified", "waiting")
    BY <1>1
  <2> QED BY <2>1, <2>2, MovedProperties
<1>3. SameStage
  BY <1>1, MainKept DEF Barriers
<1>4. /\ wait_on' \in [Barriers -> [Node -> [Node -> Nat]]]
      /\ wait_on'["completion"][n][n] = IF wait_on["completion"][n][n] > 0
                                        THEN wait_on["completion"][n][n] - 1
                                        ELSE wait_on["completion"][n][n]
      /\ \A c \in Barriers : \A m, q \in Node :
           c # "completion" \/ m # n \/ q # n => wait_on'[c][m][q] = wait_on[c][m][q]
  BY <1>1, RepliedProperties DEF Barriers
<1>5. TypeOK'
  BY <1>1, <1>2, <1>3, <1>4 DEF TypeOK, SameStage, MainValues
<1>6. /\ MessagesFit'
      /\ \A p \in Node :
           /\ InFlight(Coordinator, p, TaskMsg)' = InFlight(Coordinator, p, TaskMsg)
           /\ Openings(p)' = Openings(p)
           /\ Completions(p)' = Completions(p)
  BY <1>1, ChannelsKept DEF Completions, Openings
<1>7. ASSUME NEW p \in Node, p # n PROVE NodeInv(p)'
  BY <1>7, <1>1, <1>2, <1>3, <1>4, <1>6, NodeUntouched, CoordinatorAssumption DEF Barriers
<1>8. /\ tasks[n].started \in Nat /\ tasks[n].computing \in Nat
      /\ Notifying(n) \in Nat /\ tasks[n].notified \in Nat
      /\ tasks[n].waiting \in Nat /\ tasks[n].asleep \in Nat
      /\ Writing(n) \in Nat
      /\ tasks[n].finishing \in Nat /\ unsent[n] \in Nat
      /\ InFlight(Coordinator, n, TaskMsg) \in Nat
      /\ Completions(n) \in Nat /\ Openings(n) \in Nat
      /\ wait_on["completion"][Coordinator][n] \in Nat
  BY <1>1, NodeNumbers, CoordinatorAssumption DEF Barriers
<1>9. /\ tasks'[n].started = tasks[n].started /\ tasks'[n].computing = tasks[n].computing
      /\ Notifying(n)' = Notifying(n) /\ tasks'[n].asleep = tasks[n].asleep
      /\ Writing(n)' = Writing(n)
      /\ tasks'[n].finishing = tasks[n].finishing
      /\ tasks'[n].notified = tasks[n].notified - 1 /\ tasks'[n].waiting = tasks[n].waiting + 1
      /\ unsent'[n] = unsent[n] /\ tasks[n].notified > 0
      /\ Completions(n)' = Completions(n)
  BY <1>1, <1>2, <1>6, NodeNumbers DEF Stage, Notifying, Writing
<1>10. /\ ToCompute(n)' = ToCompute(n) /\ Computed(n)' = Computed(n)
       /\ ToCompute(n) \in Nat /\ Computed(n) \in Nat
       /\ Computed(n) > 0
  <2>1. ToCompute(n) \in Nat /\ Computed(n) \in Nat
    BY <1>8 DEF ToCompute, Computed
  <2>2. ToCompute(n)' = ToCompute(n)
    BY <1>2, <1>6, <1>8, <1>9 DEF ToCompute
  <2>3. Computed(n)' = Computed(n)
    BY <1>2, <1>8, <1>9, SMTT(30) DEF Computed
  <2>4. Computed(n) > 0
    BY <1>8, <1>9 DEF ToCompute, Computed
  <2> QED BY <2>1, <2>2, <2>3, <2>4
<1>11. TasksCounted(n) /\ EntriesMatch(n) /\ ClientBarrier(n)
  BY <1>1 DEF NodeInv
<1>12. /\ main \in MainValues
       /\ \A q \in Node : wait_on'["client"][n][q] = wait_on["client"][n][q]
       /\ wait_on'["completion"][Coordinator][n] =
            IF n = Coordinator /\ wait_on["completion"][Coordinator][n] > 0
            THEN wait_on["completion"][Coordinator][n] - 1
            ELSE wait_on["completion"][Coordinator][n]
  BY <1>1, <1>4, CoordinatorAssumption DEF TypeOK, MainValues, Barriers
<1>13. ~ Idle /\ (First => Closed) /\ (main = "rearm" => Closed /\ ~ First)
       /\ (First => ~ Opened /\ main # "rearm") /\ (Closed => ~ Opened)
       /\ (Closed \/ Opened) /\ (main = "notify_local" => Opened)
  <2>1. ~ Idle /\ main \in MainValues
    BY <1>11, <1>12, <1>10 DEF TasksCounted
  <2> QED BY <2>1 DEF First, Closed, Idle, Opened, MainValues
<1>14. TasksCounted(n)'
  BY <1>2, <1>3, <1>8, <1>9, <1>10, <1>13, <1>11 DEF TasksCounted, SameStage
<1>15. EntriesMatch(n)'
  <2>1. /\ main # "rearm" /\ ~ Idle => wait_on["completion"][Coordinator][n] = ToNotify(n)
        /\ main = "rearm" \/ Idle => Completions(n) = 0
        /\ ~ First => Notifying(n) = 0 /\ (n = Coordinator => tasks[n].notified = 0)
        /\ Closed => Writing(n) = 0
        /\ ~ Opened /\ n = Coordinator => tasks[n].finishing = 0
    BY <1>11 DEF EntriesMatch, TasksCounted
  <2>2. /\ First =>
             /\ ToNotify(n) = Completions(n) + (ToCompute(n) + Notifying(n)
                  + (IF n = Coordinator THEN tasks[n].notified ELSE 0))
             /\ ToNotify(n)' = Completions(n)' + (ToCompute(n)' + Notifying(n)'
                  + (IF n = Coordinator THEN tasks'[n].notified ELSE 0))
        /\ ~ First =>
             /\ ToNotify(n) = Completions(n) + (tasks[n].waiting + tasks[n].asleep
                  + Writing(n)
                  + (IF n = Coordinator THEN tasks[n].finishing ELSE tasks[n].notified))
             /\ ToNotify(n)' = Completions(n)' + (tasks'[n].waiting + tasks'[n].asleep
                  + Writing(n)'
                  + (IF n = Coordinator THEN tasks'[n].finishing ELSE tasks'[n].notified))
    BY <1>3, ToNotifyIs DEF SameStage
  <2>3. /\ n = Coordinator /\ main # "rearm" /\ ~ Idle
          => First /\ ToNotify(n)' = ToNotify(n) - 1 /\ ToNotify(n) > 0
        /\ n # Coordinator => ToNotify(n)' = ToNotify(n)
    <3>1. CASE First
      BY <3>1, <2>1, <2>2, <1>8, <1>9, <1>10, <1>13
    <3>2. CASE ~ First /\ n = Coordinator
      BY <3>2, <2>1, <2>2, <1>8, <1>9, <1>10, <1>13
    <3>3. CASE ~ First /\ n # Coordinator
      BY <3>3, <2>1, <2>2, <1>8, <1>9, <1>10, <1>13
    <3> QED BY <3>1, <3>2, <3>3
  <2>4. ToNotify(n) \in Nat
    BY <1>8, <1>10, <2>2
  <2>5. main # "rearm" /\ ~ Idle => wait_on'["completion"][Coordinator][n] = ToNotify(n)'
    BY <2>1, <2>3, <2>4, <1>12, <1>8
  <2>6. main = "rearm" \/ Idle => Completions(n)' = 0
    BY <2>1, <1>6, <1>13, <1>9, <1>8, <1>10
  <2> QED BY <2>5, <2>6, <1>3 DEF EntriesMatch, SameStage
<1>16. ClientBarrier(n)'
  BY <1>11, <1>12, <1>2, <1>3, <1>6, <1>8, <1>9, <1>10, <1>13, CoordinatorAssumption,
     ThreadsAssumption
     DEF TasksCounted, ClientBarrier, Shut, ClientEntry, SameStage, Barriers
<1> QED BY <1>5, <1>6, <1>7, <1>14, <1>15, <1>16 DEF CountInv, NodeInv

\* A task goes through the client barrier only after the coordinator opened it.
LEMMA CountWaitThrough ==
  ASSUME CountInv, NEW n \in Node, TaskWait(n), Complete("client", n)
  PROVE  CountInv'
<1>1. /\ TypeOK /\ MessagesFit /\ NodeInv(n) /\ \A p \in Node : NodeInv(p)
      /\ tasks[n].waiting > 0 /\ tasks' = Moved(n, "waiting", "writing")
      /\ UNCHANGED <<chan, wait_on, main, unsent, runs, results, dirty, taken, seen>>
  BY DEF CountInv, NodeInv, TaskWait, memoryVars
<1>2. /\ tasks' \in [Node -> [Stage -> Nat]]
      /\ tasks'[n].waiting = tasks[n].waiting - 1
      /\ tasks'[n].writing = tasks[n].writing + 1
      /\ \A x \in Stage : x \notin {"waiting", "writing"} => tasks'[n][x] = tasks[n][x]
      /\ \A p \in Node : p # n => tasks'[p] = tasks[p]
  <2>1. "waiting" \in Stage /\ "writing" \in Stage /\ "waiting" # "writing"
    BY DEF Stage
  <2>2. TypeOK /\ tasks[n]["waiting"] > 0 /\ tasks' = Moved(n, "waiting", "writing")
    BY <1>1
  <2> QED BY <2>1, <2>2, MovedProperties
<1>3. SameStage
  BY <1>1, MainKept DEF Barriers
<1>5. TypeOK'
  BY <1>1, <1>2 DEF TypeOK
<1>6. /\ MessagesFit'
      /\ \A p \in Node :
           /\ InFlight(Coordinator, p, TaskMsg)' = InFlight(Coordinator, p, TaskMsg)
           /\ Openings(p)' = Openings(p)
           /\ Completions(p)' = Completions(p)
  BY <1>1, ChannelsKept DEF Completions, Openings
<1>7. ASSUME NEW p \in Node, p # n PROVE NodeInv(p)'
  BY <1>7, <1>1, <1>2, <1>3, <1>6, NodeUntouched, CoordinatorAssumption DEF Barriers
<1>8. /\ tasks[n].started \in Nat /\ tasks[n].computing \in Nat
      /\ Notifying(n) \in Nat /\ tasks[n].notified \in Nat
      /\ tasks[n].waiting \in Nat /\ tasks[n].asleep \in Nat
      /\ Writing(n) \in Nat
      /\ tasks[n].finishing \in Nat /\ unsent[n] \in Nat
      /\ InFlight(Coordinator, n, TaskMsg) \in Nat
      /\ Completions(n) \in Nat /\ Openings(n) \in Nat
      /\ wait_on["completion"][Coordinator][n] \in Nat
  BY <1>1, NodeNumbers, CoordinatorAssumption DEF Barriers
<1>9. /\ tasks'[n].started = tasks[n].started /\ tasks'[n].computing = tasks[n].computing
      /\ Notifying(n)' = Notifying(n) /\ tasks'[n].notified = tasks[n].notified
      /\ tasks'[n].asleep = tasks[n].asleep
      /\ tasks'[n].finishing = tasks[n].finishing
      /\ tasks'[n].waiting = tasks[n].waiting - 1 /\ Writing(n)' = Writing(n) + 1
      /\ unsent'[n] = unsent[n] /\ tasks[n].waiting > 0
      /\ Completions(n)' = Completions(n)
  BY <1>1, <1>2, <1>6, NodeNumbers DEF Stage, Notifying, Writing
<1>10. /\ ToCompute(n)' = ToCompute(n) /\ Computed(n)' = Computed(n) - 1
       /\ ToCompute(n) \in Nat /\ Computed(n) \in Nat
       /\ Computed(n) > 0
  <2>1. ToCompute(n) \in Nat /\ Computed(n) \in Nat
    BY <1>8 DEF ToCompute, Computed
  <2>2. ToCompute(n)' = ToCompute(n)
    BY <1>2, <1>6, <1>8, <1>9 DEF ToCompute
  <2>3. Computed(n)' = Computed(n) - 1
    BY <1>2, <1>8, <1>9, SMTT(30) DEF Computed
  <2>4. Computed(n) > 0
    BY <1>8, <1>9 DEF ToCompute, Computed
  <2> QED BY <2>1, <2>2, <2>3, <2>4
<1>11. TasksCounted(n) /\ EntriesMatch(n) /\ ClientBarrier(n)
  BY <1>1 DEF NodeInv
<1>12. /\ main \in MainValues
       /\ wait_on' = wait_on
  BY <1>1, CoordinatorAssumption DEF TypeOK, MainValues, Barriers
<1>13. Opened /\ ~ First /\ ~ Closed /\ ~ Idle /\ main # "rearm"
       /\ ClientEntry(n) = 0 /\ ~ Shut(n)
  <2>1. ClientEntry(n) = 0
    BY CoordinatorAssumption DEF Complete, NoEntry, ClientEntry
  <2>2. ~ Closed /\ ~ Idle
    BY <1>11, <1>8, <1>9, <1>10, <2>1 DEF TasksCounted, ClientBarrier
  <2>3. Opened /\ ~ First /\ main # "rearm"
    BY <2>2, <1>12 DEF First, Closed, Idle, Opened, MainValues
  <2> QED BY <2>1, <2>2, <2>3 DEF Shut
<1>14. TasksCounted(n)'
  BY <1>2, <1>3, <1>8, <1>9, <1>10, <1>13, <1>11 DEF TasksCounted, SameStage
<1>15. EntriesMatch(n)'
  <2>1. /\ main # "rearm" /\ ~ Idle => wait_on["completion"][Coordinator][n] = ToNotify(n)
        /\ main = "rearm" \/ Idle => Completions(n) = 0
        /\ ~ First => Notifying(n) = 0 /\ (n = Coordinator => tasks[n].notified = 0)
        /\ Closed => Writing(n) = 0
        /\ ~ Opened /\ n = Coordinator => tasks[n].finishing = 0
    BY <1>11 DEF EntriesMatch, TasksCounted
  <2>2. /\ First =>
             /\ ToNotify(n) = Completions(n) + (ToCompute(n) + Notifying(n)
                  + (IF n = Coordinator THEN tasks[n].notified ELSE 0))
             /\ ToNotify(n)' = Completions(n)' + (ToCompute(n)' + Notifying(n)'
                  + (IF n = Coordinator THEN tasks'[n].notified ELSE 0))
        /\ ~ First =>
             /\ ToNotify(n) = Completions(n) + (tasks[n].waiting + tasks[n].asleep
                  + Writing(n)
                  + (IF n = Coordinator THEN tasks[n].finishing ELSE tasks[n].notified))
             /\ ToNotify(n)' = Completions(n)' + (tasks'[n].waiting + tasks'[n].asleep
                  + Writing(n)'
                  + (IF n = Coordinator THEN tasks'[n].finishing ELSE tasks'[n].notified))
    BY <1>3, ToNotifyIs DEF SameStage
  <2>3. ToNotify(n)' = ToNotify(n)
    <3>1. CASE First
      BY <3>1, <2>1, <2>2, <1>8, <1>9, <1>10, <1>13
    <3>2. CASE ~ First /\ n = Coordinator
      BY <3>2, <2>1, <2>2, <1>8, <1>9, <1>10, <1>13
    <3>3. CASE ~ First /\ n # Coordinator
      BY <3>3, <2>1, <2>2, <1>8, <1>9, <1>10, <1>13
    <3> QED BY <3>1, <3>2, <3>3
  <2>4. ToNotify(n) \in Nat
    BY <1>8, <1>10, <2>2
  <2>5. main # "rearm" /\ ~ Idle => wait_on'["completion"][Coordinator][n] = ToNotify(n)'
    BY <2>1, <2>3, <2>4, <1>12, <1>8
  <2>6. main = "rearm" \/ Idle => Completions(n)' = 0
    BY <2>1, <1>6, <1>13, <1>9, <1>8, <1>10
  <2> QED BY <2>5, <2>6, <1>3 DEF EntriesMatch, SameStage
<1>16. ClientBarrier(n)'
  BY <1>11, <1>12, <1>2, <1>3, <1>6, <1>8, <1>9, <1>10, <1>13, CoordinatorAssumption,
     ThreadsAssumption
     DEF TasksCounted, ClientBarrier, Shut, ClientEntry, SameStage, Barriers
<1> QED BY <1>5, <1>6, <1>7, <1>14, <1>15, <1>16 DEF CountInv, NodeInv

\* One that does not finds it open when it is woken, and stays counted.
LEMMA CountWaitAsleep ==
  ASSUME CountInv, NEW n \in Node, TaskWait(n), ~ Complete("client", n)
  PROVE  CountInv'
<1>1. /\ TypeOK /\ MessagesFit /\ NodeInv(n) /\ \A p \in Node : NodeInv(p)
      /\ tasks[n].waiting > 0 /\ tasks' = Moved(n, "waiting", "asleep")
      /\ UNCHANGED <<chan, wait_on, main, unsent, runs, results, dirty, taken, seen>>
  BY DEF CountInv, NodeInv, TaskWait, memoryVars
<1>2. /\ tasks' \in [Node -> [Stage -> Nat]]
      /\ tasks'[n].waiting = tasks[n].waiting - 1
      /\ tasks'[n].asleep = tasks[n].asleep + 1
      /\ \A x \in Stage : x \notin {"waiting", "asleep"} => tasks'[n][x] = tasks[n][x]
      /\ \A p \in Node : p # n => tasks'[p] = tasks[p]
  <2>1. "waiting" \in Stage /\ "asleep" \in Stage /\ "waiting" # "asleep"
    BY DEF Stage
  <2>2. TypeOK /\ tasks[n]["waiting"] > 0 /\ tasks' = Moved(n, "waiting", "asleep")
    BY <1>1
  <2> QED BY <2>1, <2>2, MovedProperties
<1>3. SameStage
  BY <1>1, MainKept DEF Barriers
<1>5. TypeOK'
  BY <1>1, <1>2 DEF TypeOK
<1>6. /\ MessagesFit'
      /\ \A p \in Node :
           /\ InFlight(Coordinator, p, TaskMsg)' = InFlight(Coordinator, p, TaskMsg)
           /\ Openings(p)' = Openings(p)
           /\ Completions(p)' = Completions(p)
  BY <1>1, ChannelsKept DEF Completions, Openings
<1>7. ASSUME NEW p \in Node, p # n PROVE NodeInv(p)'
  BY <1>7, <1>1, <1>2, <1>3, <1>6, NodeUntouched, CoordinatorAssumption DEF Barriers
<1>8. /\ tasks[n].started \in Nat /\ tasks[n].computing \in Nat
      /\ Notifying(n) \in Nat /\ tasks[n].notified \in Nat
      /\ tasks[n].waiting \in Nat /\ tasks[n].asleep \in Nat
      /\ Writing(n) \in Nat
      /\ tasks[n].finishing \in Nat /\ unsent[n] \in Nat
      /\ InFlight(Coordinator, n, TaskMsg) \in Nat
      /\ Completions(n) \in Nat /\ Openings(n) \in Nat
      /\ wait_on["completion"][Coordinator][n] \in Nat
  BY <1>1, NodeNumbers, CoordinatorAssumption DEF Barriers
<1>9. /\ tasks'[n].started = tasks[n].started /\ tasks'[n].computing = tasks[n].computing
      /\ Notifying(n)' = Notifying(n) /\ tasks'[n].notified = tasks[n].notified
      /\ Writing(n)' = Writing(n)
      /\ tasks'[n].finishing = tasks[n].finishing
      /\ tasks'[n].waiting = tasks[n].waiting - 1 /\ tasks'[n].asleep = tasks[n].asleep + 1
      /\ unsent'[n] = unsent[n] /\ tasks[n].waiting > 0
      /\ Completions(n)' = Completions(n)
  BY <1>1, <1>2, <1>6, NodeNumbers DEF Stage, Notifying, Writing
<1>10. /\ ToCompute(n)' = ToCompute(n) /\ Computed(n)' = Computed(n)
       /\ ToCompute(n) \in Nat /\ Computed(n) \in Nat
       /\ Computed(n) > 0
  <2>1. ToCompute(n) \in Nat /\ Computed(n) \in Nat
    BY <1>8 DEF ToCompute, Computed
  <2>2. ToCompute(n)' = ToCompute(n)
    BY <1>2, <1>6, <1>8, <1>9 DEF ToCompute
  <2>3. Computed(n)' = Computed(n)
    <3>1. Computed(n)' = Notifying(n)' + tasks'[n].notified + tasks'[n].waiting
                           + tasks'[n].asleep
      BY DEF Computed
    <3>2. Computed(n)' = Notifying(n) + tasks[n].notified + (tasks[n].waiting - 1)
                           + (tasks[n].asleep + 1)
      BY <3>1, <1>9
    <3> QED BY <3>2, <1>8 DEF Computed
  <2>4. Computed(n) > 0
    BY <1>8, <1>9 DEF ToCompute, Computed
  <2> QED BY <2>1, <2>2, <2>3, <2>4
<1>11. TasksCounted(n) /\ EntriesMatch(n) /\ ClientBarrier(n)
  BY <1>1 DEF NodeInv
<1>12. /\ main \in MainValues
       /\ wait_on' = wait_on
  BY <1>1, CoordinatorAssumption DEF TypeOK, MainValues, Barriers
<1>13. ~ Idle /\ (First => Closed) /\ (main = "rearm" => Closed /\ ~ First)
       /\ (First => ~ Opened /\ main # "rearm") /\ (Closed => ~ Opened)
       /\ (Closed \/ Opened) /\ (main = "notify_local" => Opened)
  <2>1. ~ Idle /\ main \in MainValues
    BY <1>11, <1>12, <1>10 DEF TasksCounted
  <2> QED BY <2>1 DEF First, Closed, Idle, Opened, MainValues
<1>14. TasksCounted(n)'
  BY <1>2, <1>3, <1>8, <1>9, <1>10, <1>13, <1>11 DEF TasksCounted, SameStage
<1>15. EntriesMatch(n)'
  <2>1. /\ main # "rearm" /\ ~ Idle => wait_on["completion"][Coordinator][n] = ToNotify(n)
        /\ main = "rearm" \/ Idle => Completions(n) = 0
        /\ ~ First => Notifying(n) = 0 /\ (n = Coordinator => tasks[n].notified = 0)
        /\ Closed => Writing(n) = 0
        /\ ~ Opened /\ n = Coordinator => tasks[n].finishing = 0
    BY <1>11 DEF EntriesMatch, TasksCounted
  <2>2. /\ First =>
             /\ ToNotify(n) = Completions(n) + (ToCompute(n) + Notifying(n)
                  + (IF n = Coordinator THEN tasks[n].notified ELSE 0))
             /\ ToNotify(n)' = Completions(n)' + (ToCompute(n)' + Notifying(n)'
                  + (IF n = Coordinator THEN tasks'[n].notified ELSE 0))
        /\ ~ First =>
             /\ ToNotify(n) = Completions(n) + (tasks[n].waiting + tasks[n].asleep
                  + Writing(n)
                  + (IF n = Coordinator THEN tasks[n].finishing ELSE tasks[n].notified))
             /\ ToNotify(n)' = Completions(n)' + (tasks'[n].waiting + tasks'[n].asleep
                  + Writing(n)'
                  + (IF n = Coordinator THEN tasks'[n].finishing ELSE tasks'[n].notified))
    BY <1>3, ToNotifyIs DEF SameStage
  <2>3. ToNotify(n)' = ToNotify(n)
    <3>1. CASE First
      BY <3>1, <2>1, <2>2, <1>8, <1>9, <1>10, <1>13
    <3>2. CASE ~ First /\ n = Coordinator
      BY <3>2, <2>1, <2>2, <1>8, <1>9, <1>10, <1>13
    <3>3. CASE ~ First /\ n # Coordinator
      BY <3>3, <2>1, <2>2, <1>8, <1>9, <1>10, <1>13
    <3> QED BY <3>1, <3>2, <3>3
  <2>4. ToNotify(n) \in Nat
    BY <1>8, <1>10, <2>2
  <2>5. main # "rearm" /\ ~ Idle => wait_on'["completion"][Coordinator][n] = ToNotify(n)'
    BY <2>1, <2>3, <2>4, <1>12, <1>8
  <2>6. main = "rearm" \/ Idle => Completions(n)' = 0
    BY <2>1, <1>6, <1>13, <1>9, <1>8, <1>10
  <2> QED BY <2>5, <2>6, <1>3 DEF EntriesMatch, SameStage
<1>16. ClientBarrier(n)'
  BY <1>11, <1>12, <1>2, <1>3, <1>6, <1>8, <1>9, <1>10, <1>13, CoordinatorAssumption,
     ThreadsAssumption
     DEF TasksCounted, ClientBarrier, Shut, ClientEntry, SameStage, Barriers
<1> QED BY <1>5, <1>6, <1>7, <1>14, <1>15, <1>16 DEF CountInv, NodeInv

\* A task that writes has still to notify.
LEMMA CountTaskWrite ==
  ASSUME CountInv, NEW n \in Node, TaskWrite(n)
  PROVE  CountInv'
<1>1. /\ TypeOK /\ MessagesFit
      /\ tasks[n].writing > 0 /\ tasks' = Moved(n, "writing", "written")
      /\ results' = [results EXCEPT ![n] = @ + 1]
      /\ dirty' = [dirty EXCEPT ![n] = @ \cup {results[n] + 1}]
      /\ UNCHANGED <<chan, wait_on, main, unsent, runs, taken, seen>>
  BY DEF CountInv, TaskWrite
<1>4. "writing" \in Stage /\ "written" \in Stage /\ "writing" # "written"
  BY DEF Stage
<1>5. tasks' \in [Node -> [Stage -> Nat]]
  BY <1>1, <1>4, MovedProperties
<1>6. results' \in [Node -> Nat] /\ dirty' \in [Node -> SUBSET Nat]
  BY <1>1 DEF TypeOK
<1>7. TypeOK'
  BY <1>1, <1>5, <1>6 DEF TypeOK
<1>8. MessagesFit' /\ \A p, q, m : InFlight(p, q, m)' = InFlight(p, q, m)
  BY <1>1, ChannelsKept
<1> QED BY <1>1, <1>4, <1>7, <1>8, CountWithin

\* The second notification of a task is counted as the first one was.
LEMMA CountTaskNotifyLast ==
  ASSUME CountInv, NEW n \in Node, TaskNotifyLast(n)
  PROVE  CountInv'
<1>1. /\ TypeOK /\ MessagesFit /\ NodeInv(n) /\ \A p \in Node : NodeInv(p)
      /\ tasks[n].ended_last > 0 /\ tasks' = Moved(n, "ended_last", "finishing")
      /\ chan' = Sent(n, NotifyMsg("completion"))
      /\ UNCHANGED <<wait_on, main, unsent, runs, results, dirty, taken, seen>>
  BY DEF CountInv, NodeInv, TaskNotifyLast, memoryVars
<1>2. /\ tasks' \in [Node -> [Stage -> Nat]]
      /\ tasks'[n].ended_last = tasks[n].ended_last - 1
      /\ tasks'[n].finishing = tasks[n].finishing + 1
      /\ \A x \in Stage : x \notin {"ended_last", "finishing"} => tasks'[n][x] = tasks[n][x]
      /\ \A p \in Node : p # n => tasks'[p] = tasks[p]
  <2>1. "ended_last" \in Stage /\ "finishing" \in Stage /\ "ended_last" # "finishing"
    BY DEF Stage
  <2>2. TypeOK /\ tasks[n]["ended_last"] > 0 /\ tasks' = Moved(n, "ended_last", "finishing")
    BY <1>1
  <2> QED BY <2>1, <2>2, MovedProperties
<1>3. SameStage
  BY <1>1, MainKept DEF Barriers
<1>4. /\ chan' \in [Node -> [Node -> Seq(Message)]]
      /\ \A p, q \in Node : \A m \in Counted :
           InFlight(p, q, m)' = InFlight(p, q, m)
             + IF p = n /\ q # n /\ m = NotifyMsg("completion") THEN 1 ELSE 0
  BY <1>1, CountedMessages, MessageSent DEF Counted
<1>5. TypeOK'
  BY <1>1, <1>2, <1>4 DEF TypeOK
<1>6. /\ MessagesFit'
      /\ \A p \in Node :
           /\ InFlight(Coordinator, p, TaskMsg)' = InFlight(Coordinator, p, TaskMsg)
           /\ Openings(p)' = Openings(p)
           /\ Completions(p)' = IF p = n /\ n # Coordinator THEN Completions(p) + 1
                                                           ELSE Completions(p)
  <2>1. MessagesFit'
    BY <1>1, CountedMessages, FitSent DEF Counted
  <2>2. \A p, q \in Node : \A m \in Counted :
           InFlight(p, q, m) \in Nat
           /\ InFlight(p, q, m)' = InFlight(p, q, m)
                + IF p = n /\ q # n /\ m = NotifyMsg("completion") THEN 1 ELSE 0
    BY <1>1, <1>4, InFlightCount
  <2>3. /\ TaskMsg \in Counted /\ TaskMsg # NotifyMsg("completion")
        /\ NotifyMsg("client") \in Counted /\ NotifyMsg("client") # NotifyMsg("completion")
        /\ NotifyMsg("completion") \in Counted
    BY CountedMessages DEF Counted
  <2>4. ASSUME NEW p \in Node
        PROVE  /\ InFlight(Coordinator, p, TaskMsg)' = InFlight(Coordinator, p, TaskMsg)
               /\ InFlight(Coordinator, p, NotifyMsg("client"))'
                    = InFlight(Coordinator, p, NotifyMsg("client"))
               /\ InFlight(p, Coordinator, NotifyMsg("completion"))'
                    = IF p = n /\ n # Coordinator
                      THEN InFlight(p, Coordinator, NotifyMsg("completion")) + 1
                      ELSE InFlight(p, Coordinator, NotifyMsg("completion"))
    BY <2>2, <2>3, CoordinatorAssumption
  <2> QED BY <2>1, <2>4 DEF Completions, Openings
<1>7. ASSUME NEW p \in Node, p # n PROVE NodeInv(p)'
  BY <1>7, <1>1, <1>2, <1>3, <1>6, NodeUntouched, CoordinatorAssumption DEF Barriers
<1>8. /\ tasks[n].started \in Nat /\ tasks[n].computing \in Nat
      /\ Notifying(n) \in Nat /\ tasks[n].notified \in Nat
      /\ tasks[n].waiting \in Nat /\ tasks[n].asleep \in Nat
      /\ Writing(n) \in Nat
      /\ tasks[n].finishing \in Nat /\ unsent[n] \in Nat
      /\ InFlight(Coordinator, n, TaskMsg) \in Nat
      /\ Completions(n) \in Nat /\ Openings(n) \in Nat
      /\ wait_on["completion"][Coordinator][n] \in Nat
  BY <1>1, NodeNumbers, CoordinatorAssumption DEF Barriers
<1>9. /\ tasks'[n].started = tasks[n].started /\ tasks'[n].computing = tasks[n].computing
      /\ Notifying(n)' = Notifying(n) /\ tasks'[n].notified = tasks[n].notified
      /\ tasks'[n].waiting = tasks[n].waiting /\ tasks'[n].asleep = tasks[n].asleep
      /\ Writing(n)' = Writing(n) - 1 /\ Writing(n) > 0
      /\ tasks'[n].finishing = tasks[n].finishing + 1
      /\ unsent'[n] = unsent[n] /\ tasks[n].ended_last > 0
      /\ Completions(n)' = IF n # Coordinator THEN Completions(n) + 1 ELSE Completions(n)
  BY <1>1, <1>2, <1>6, NodeNumbers DEF Stage, Notifying, Writing
<1>10. /\ ToCompute(n)' = ToCompute(n) /\ Computed(n)' = Computed(n)
       /\ ToCompute(n) \in Nat /\ Computed(n) \in Nat
       /\ tasks[n].ended_last > 0
  <2>1. ToCompute(n) \in Nat /\ Computed(n) \in Nat
    BY <1>8 DEF ToCompute, Computed
  <2>2. ToCompute(n)' = ToCompute(n)
    BY <1>2, <1>6, <1>8, <1>9 DEF ToCompute
  <2>3. Computed(n)' = Computed(n)
    BY <1>2, <1>8, <1>9, SMTT(30) DEF Computed
  <2>4. tasks[n].ended_last > 0
    BY <1>8, <1>9 DEF ToCompute, Computed
  <2> QED BY <2>1, <2>2, <2>3, <2>4
<1>11. TasksCounted(n) /\ EntriesMatch(n) /\ ClientBarrier(n)
  BY <1>1 DEF NodeInv
<1>12. /\ main \in MainValues
       /\ wait_on' = wait_on
  BY <1>1, CoordinatorAssumption DEF TypeOK, MainValues, Barriers
<1>13. Opened /\ ~ First /\ ~ Closed /\ ~ Idle /\ main # "rearm"
  <2>1. ~ Closed /\ ~ Idle /\ main \in MainValues
    BY <1>11, <1>12, <1>8, <1>9 DEF TasksCounted
  <2> QED BY <2>1 DEF First, Closed, Idle, Opened, MainValues
<1>14. TasksCounted(n)'
  BY <1>2, <1>3, <1>8, <1>9, <1>10, <1>13, <1>11 DEF TasksCounted, SameStage
<1>15. EntriesMatch(n)'
  <2>1. /\ main # "rearm" /\ ~ Idle => wait_on["completion"][Coordinator][n] = ToNotify(n)
        /\ main = "rearm" \/ Idle => Completions(n) = 0
        /\ ~ First => Notifying(n) = 0 /\ (n = Coordinator => tasks[n].notified = 0)
        /\ Closed => Writing(n) = 0
        /\ ~ Opened /\ n = Coordinator => tasks[n].finishing = 0
    BY <1>11 DEF EntriesMatch, TasksCounted
  <2>2. /\ First =>
             /\ ToNotify(n) = Completions(n) + (ToCompute(n) + Notifying(n)
                  + (IF n = Coordinator THEN tasks[n].notified ELSE 0))
             /\ ToNotify(n)' = Completions(n)' + (ToCompute(n)' + Notifying(n)'
                  + (IF n = Coordinator THEN tasks'[n].notified ELSE 0))
        /\ ~ First =>
             /\ ToNotify(n) = Completions(n) + (tasks[n].waiting + tasks[n].asleep
                  + Writing(n)
                  + (IF n = Coordinator THEN tasks[n].finishing ELSE tasks[n].notified))
             /\ ToNotify(n)' = Completions(n)' + (tasks'[n].waiting + tasks'[n].asleep
                  + Writing(n)'
                  + (IF n = Coordinator THEN tasks'[n].finishing ELSE tasks'[n].notified))
    BY <1>3, ToNotifyIs DEF SameStage
  <2>3. ToNotify(n)' = ToNotify(n)
    <3>1. CASE First
      BY <3>1, <2>1, <2>2, <1>8, <1>9, <1>10, <1>13
    <3>2. CASE ~ First /\ n = Coordinator
      BY <3>2, <2>1, <2>2, <1>8, <1>9, <1>10, <1>13
    <3>3. CASE ~ First /\ n # Coordinator
      <4> DEFINE a == tasks[n].waiting
                 b == tasks[n].asleep
                 c == tasks[n].notified
                 w == Writing(n)
                 k == Completions(n)
      <4>1. ToNotify(n) = k + (a + b + w + c)
        BY <3>3, <2>2
      <4>2. ToNotify(n)' = (k + 1) + (a + b + (w - 1) + c)
        <5>1. /\ Completions(n)' = k + 1 /\ Writing(n)' = w - 1 /\ tasks'[n].waiting = a
              /\ tasks'[n].asleep = b /\ tasks'[n].notified = c
          BY <3>3, <1>9
        <5>2. ToNotify(n)' = Completions(n)' + (tasks'[n].waiting + tasks'[n].asleep
                               + Writing(n)' + tasks'[n].notified)
          BY <3>3, <2>2
        <5> QED BY <5>1, <5>2
      <4>3. a \in Nat /\ b \in Nat /\ c \in Nat /\ w \in Nat /\ k \in Nat
        BY <1>8
      <4> HIDE DEF a, b, c, w, k
      <4> QED BY <4>1, <4>2, <4>3
    <3> QED BY <3>1, <3>2, <3>3
  <2>4. ToNotify(n) \in Nat
    BY <1>8, <1>10, <2>2
  <2>5. main # "rearm" /\ ~ Idle => wait_on'["completion"][Coordinator][n] = ToNotify(n)'
    BY <2>1, <2>3, <2>4, <1>12, <1>8
  <2>6. main = "rearm" \/ Idle => Completions(n)' = 0
    BY <2>1, <1>6, <1>13, <1>9, <1>8, <1>10
  <2> QED BY <2>5, <2>6, <1>3 DEF EntriesMatch, SameStage
<1>16. ClientBarrier(n)'
  BY <1>11, <1>12, <1>2, <1>3, <1>6, <1>8, <1>9, <1>10, <1>13, CoordinatorAssumption,
     ThreadsAssumption
     DEF TasksCounted, ClientBarrier, Shut, ClientEntry, SameStage, Barriers
<1> QED BY <1>5, <1>6, <1>7, <1>14, <1>15, <1>16 DEF CountInv, NodeInv

\* The last reply of the coordinator's own task, after which it is not counted.
LEMMA CountTaskEnd ==
  ASSUME CountInv, NEW n \in Node, TaskEnd(n)
  PROVE  CountInv'
<1>1. /\ TypeOK /\ MessagesFit /\ NodeInv(n) /\ \A p \in Node : NodeInv(p)
      /\ tasks[n].finishing > 0 /\ tasks' = Ended(n, "finishing")
      /\ wait_on' = Replied("completion", n, n)
      /\ main' = MainWoken("completion", n)
      /\ UNCHANGED <<chan, unsent, runs, results, dirty, taken, seen>>
  BY DEF CountInv, NodeInv, TaskEnd, memoryVars
<1>2. /\ tasks' \in [Node -> [Stage -> Nat]]
      /\ tasks'[n].finishing = tasks[n].finishing - 1
      /\ \A x \in Stage : x # "finishing" => tasks'[n][x] = tasks[n][x]
      /\ \A p \in Node : p # n => tasks'[p] = tasks[p]
  <2>1. "finishing" \in Stage /\ tasks[n].finishing - 1 \in Nat
    BY <1>1, NodeNumbers DEF Stage
  <2>2. tasks' = [tasks EXCEPT ![n]["finishing"] = tasks[n].finishing - 1]
    BY <1>1 DEF Ended
  <2> QED BY <2>1, <2>2, <1>1, StageChanged
<1>3. SameStage
  BY <1>1, MainKept DEF Barriers
<1>4. /\ wait_on' \in [Barriers -> [Node -> [Node -> Nat]]]
      /\ wait_on'["completion"][n][n] = IF wait_on["completion"][n][n] > 0
                                        THEN wait_on["completion"][n][n] - 1
                                        ELSE wait_on["completion"][n][n]
      /\ \A c \in Barriers : \A m, q \in Node :
           c # "completion" \/ m # n \/ q # n => wait_on'[c][m][q] = wait_on[c][m][q]
  BY <1>1, RepliedProperties DEF Barriers
<1>5. TypeOK'
  BY <1>1, <1>2, <1>3, <1>4 DEF TypeOK, SameStage, MainValues
<1>6. /\ MessagesFit'
      /\ \A p \in Node :
           /\ InFlight(Coordinator, p, TaskMsg)' = InFlight(Coordinator, p, TaskMsg)
           /\ Openings(p)' = Openings(p)
           /\ Completions(p)' = Completions(p)
  BY <1>1, ChannelsKept DEF Completions, Openings
<1>7. ASSUME NEW p \in Node, p # n PROVE NodeInv(p)'
  BY <1>7, <1>1, <1>2, <1>3, <1>4, <1>6, NodeUntouched, CoordinatorAssumption DEF Barriers
<1>8. /\ tasks[n].started \in Nat /\ tasks[n].computing \in Nat
      /\ Notifying(n) \in Nat /\ tasks[n].notified \in Nat
      /\ tasks[n].waiting \in Nat /\ tasks[n].asleep \in Nat
      /\ Writing(n) \in Nat
      /\ tasks[n].finishing \in Nat /\ unsent[n] \in Nat
      /\ InFlight(Coordinator, n, TaskMsg) \in Nat
      /\ Completions(n) \in Nat /\ Openings(n) \in Nat
      /\ wait_on["completion"][Coordinator][n] \in Nat
  BY <1>1, NodeNumbers, CoordinatorAssumption DEF Barriers
<1>9. /\ tasks'[n].started = tasks[n].started /\ tasks'[n].computing = tasks[n].computing
      /\ Notifying(n)' = Notifying(n) /\ tasks'[n].asleep = tasks[n].asleep
      /\ Writing(n)' = Writing(n)
      /\ tasks'[n].notified = tasks[n].notified /\ tasks'[n].waiting = tasks[n].waiting
      /\ tasks'[n].finishing = tasks[n].finishing - 1
      /\ unsent'[n] = unsent[n] /\ tasks[n].finishing > 0
      /\ Completions(n)' = Completions(n)
  BY <1>1, <1>2, <1>6, NodeNumbers DEF Stage, Notifying, Writing
<1>10. /\ ToCompute(n)' = ToCompute(n) /\ Computed(n)' = Computed(n)
       /\ ToCompute(n) \in Nat /\ Computed(n) \in Nat
  <2>1. ToCompute(n) \in Nat /\ Computed(n) \in Nat
    BY <1>8 DEF ToCompute, Computed
  <2>2. ToCompute(n)' = ToCompute(n)
    BY <1>2, <1>6, <1>8, <1>9 DEF ToCompute
  <2>3. Computed(n)' = Computed(n)
    BY <1>2, <1>8, <1>9, SMTT(30) DEF Computed
  <2> QED BY <2>1, <2>2, <2>3
<1>11. TasksCounted(n) /\ EntriesMatch(n) /\ ClientBarrier(n)
  BY <1>1 DEF NodeInv
<1>12. /\ main \in MainValues
       /\ \A q \in Node : wait_on'["client"][n][q] = wait_on["client"][n][q]
       /\ wait_on'["completion"][Coordinator][n] =
            IF n = Coordinator /\ wait_on["completion"][Coordinator][n] > 0
            THEN wait_on["completion"][Coordinator][n] - 1
            ELSE wait_on["completion"][Coordinator][n]
  BY <1>1, <1>4, CoordinatorAssumption DEF TypeOK, MainValues, Barriers
<1>13. /\ (First => Closed) /\ (main = "rearm" => Closed /\ ~ First)
       /\ (First => ~ Opened /\ main # "rearm") /\ (Closed => ~ Opened /\ ~ Idle)
       /\ (Closed \/ Opened \/ Idle) /\ (main = "notify_local" => Opened)
       /\ (Idle => ~ Opened /\ ~ First /\ main # "rearm")
  BY <1>12 DEF First, Closed, Idle, Opened, MainValues
<1>14. TasksCounted(n)'
  BY <1>2, <1>3, <1>8, <1>9, <1>10, <1>13, <1>11 DEF TasksCounted, SameStage
<1>15. EntriesMatch(n)'
  <2>1. /\ main # "rearm" /\ ~ Idle => wait_on["completion"][Coordinator][n] = ToNotify(n)
        /\ main = "rearm" \/ Idle => Completions(n) = 0
        /\ ~ First => Notifying(n) = 0 /\ (n = Coordinator => tasks[n].notified = 0)
        /\ Closed => Writing(n) = 0
        /\ ~ Opened /\ n = Coordinator => tasks[n].finishing = 0
    BY <1>11 DEF EntriesMatch, TasksCounted
  <2>2. /\ First =>
             /\ ToNotify(n) = Completions(n) + (ToCompute(n) + Notifying(n)
                  + (IF n = Coordinator THEN tasks[n].notified ELSE 0))
             /\ ToNotify(n)' = Completions(n)' + (ToCompute(n)' + Notifying(n)'
                  + (IF n = Coordinator THEN tasks'[n].notified ELSE 0))
        /\ ~ First =>
             /\ ToNotify(n) = Completions(n) + (tasks[n].waiting + tasks[n].asleep
                  + Writing(n)
                  + (IF n = Coordinator THEN tasks[n].finishing ELSE tasks[n].notified))
             /\ ToNotify(n)' = Completions(n)' + (tasks'[n].waiting + tasks'[n].asleep
                  + Writing(n)'
                  + (IF n = Coordinator THEN tasks'[n].finishing ELSE tasks'[n].notified))
    BY <1>3, ToNotifyIs DEF SameStage
  <2>3. /\ n = Coordinator /\ main # "rearm" /\ ~ Idle
          => ToNotify(n)' = ToNotify(n) - 1 /\ ToNotify(n) > 0
        /\ n # Coordinator => ToNotify(n)' = ToNotify(n)
    <3>1. CASE First
      BY <3>1, <2>1, <2>2, <1>8, <1>9, <1>10, <1>13
    <3>2. CASE ~ First /\ n = Coordinator
      BY <3>2, <2>1, <2>2, <1>8, <1>9, <1>10, <1>13
    <3>3. CASE ~ First /\ n # Coordinator
      BY <3>3, <2>1, <2>2, <1>8, <1>9, <1>10, <1>13
    <3> QED BY <3>1, <3>2, <3>3
  <2>4. ToNotify(n) \in Nat
    BY <1>8, <1>10, <2>2
  <2>5. main # "rearm" /\ ~ Idle => wait_on'["completion"][Coordinator][n] = ToNotify(n)'
    BY <2>1, <2>3, <2>4, <1>12, <1>8
  <2>6. main = "rearm" \/ Idle => Completions(n)' = 0
    BY <2>1, <1>6, <1>13, <1>9, <1>8, <1>10
  <2> QED BY <2>5, <2>6, <1>3 DEF EntriesMatch, SameStage
<1>16. ClientBarrier(n)'
  BY <1>11, <1>12, <1>2, <1>3, <1>6, <1>8, <1>9, <1>10, <1>13, CoordinatorAssumption,
     ThreadsAssumption, SMTT(30)
     DEF TasksCounted, ClientBarrier, Shut, ClientEntry, SameStage, Barriers
<1> QED BY <1>5, <1>6, <1>7, <1>14, <1>15, <1>16 DEF CountInv, NodeInv

----------------------------------------------------------------------------
(***************************************************************************)
(* The steps of a listener                                                 *)
(***************************************************************************)

\* A task message becomes a started task.
LEMMA CountHandleTask ==
  ASSUME CountInv, NEW n \in Node, NEW p \in Node, HandleTask(n, p)
  PROVE  CountInv'
<1>1. /\ TypeOK /\ MessagesFit /\ \A q \in Node : NodeInv(q)
      /\ chan[p][n] # << >> /\ Head(chan[p][n]).type = "TASK"
      /\ chan' = Received(p, n)
      /\ tasks' = [tasks EXCEPT ![n].started = @ + 1]
      /\ UNCHANGED <<wait_on, main, unsent, runs, results, dirty, taken, seen>>
  BY DEF CountInv, NodeInv, HandleTask, memoryVars
<1>2. /\ chan' \in [Node -> [Node -> Seq(Message)]]
      /\ Head(chan[p][n]) \in Message
      /\ \A q, r \in Node : \A m \in Counted :
           InFlight(q, r, m)' = IF q = p /\ r = n /\ m = Head(chan[p][n])
                                THEN InFlight(q, r, m) - 1 ELSE InFlight(q, r, m)
  BY <1>1, MessageTaken
<1>3. Head(chan[p][n]) = TaskMsg
  BY <1>1, <1>2, CountedMessages
<1>4. MessagesFit' /\ p = Coordinator /\ p # n
  BY <1>1, <1>3, FitTaken
<1>5. /\ tasks' \in [Node -> [Stage -> Nat]]
      /\ tasks'[n].started = tasks[n].started + 1
      /\ \A x \in Stage : x # "started" => tasks'[n][x] = tasks[n][x]
      /\ \A q \in Node : q # n => tasks'[q] = tasks[q]
  <2>1. "started" \in Stage /\ tasks[n].started + 1 \in Nat
    <3>1. tasks[n].started \in Nat
      BY <1>1, NodeNumbers
    <3> QED BY <3>1 DEF Stage
  <2>2. tasks' = [tasks EXCEPT ![n]["started"] = tasks[n].started + 1]
    BY <1>1
  <2> QED BY <2>1, <2>2, <1>1, StageChanged
<1>6. TypeOK'
  BY <1>1, <1>2, <1>5 DEF TypeOK
<1>7. SameStage
  BY <1>1, MainKept
<1>8. \A q, r \in Node : \A m \in Counted :
        InFlight(q, r, m) \in Nat /\ InFlight(q, r, m)' \in Nat
  BY <1>1, <1>2, InFlightCounts DEF TypeOK
<1>9. /\ TaskMsg \in Counted /\ TaskMsg # NotifyMsg("completion")
      /\ NotifyMsg("client") \in Counted /\ NotifyMsg("client") # TaskMsg
      /\ NotifyMsg("completion") \in Counted
  BY CountedMessages DEF Counted
<1>10. ASSUME NEW q \in Node
       PROVE  /\ q # n => InFlight(Coordinator, q, TaskMsg)' = InFlight(Coordinator, q, TaskMsg)
              /\ InFlight(Coordinator, n, TaskMsg)' = InFlight(Coordinator, n, TaskMsg) - 1
              /\ InFlight(Coordinator, q, NotifyMsg("client"))'
                   = InFlight(Coordinator, q, NotifyMsg("client"))
              /\ InFlight(q, Coordinator, NotifyMsg("completion"))'
                   = InFlight(q, Coordinator, NotifyMsg("completion"))
  BY <1>2, <1>3, <1>4, <1>8, <1>9, CoordinatorAssumption
<1>11. ASSUME NEW q \in Node, q # n PROVE NodeInv(q)'
  BY <1>11, <1>1, <1>5, <1>7, <1>10, NodeUntouched DEF Completions, Openings
<1>12. NodeInv(n)'
  <2>1. /\ tasks'[n].computing = tasks[n].computing /\ Notifying(n)' = Notifying(n)
        /\ tasks'[n].notified = tasks[n].notified /\ tasks'[n].waiting = tasks[n].waiting
        /\ tasks'[n].asleep = tasks[n].asleep /\ Writing(n)' = Writing(n)
        /\ tasks'[n].finishing = tasks[n].finishing
        /\ unsent'[n] = unsent[n]
    BY <1>1, <1>5 DEF Stage, Notifying, Writing
  <2>2. /\ tasks[n].started \in Nat /\ tasks[n].computing \in Nat /\ unsent[n] \in Nat
        /\ InFlight(Coordinator, n, TaskMsg) \in Nat
    BY <1>1, NodeNumbers
  <2>3. InFlight(Coordinator, n, TaskMsg)' = InFlight(Coordinator, n, TaskMsg) - 1
    BY <1>10
  <2>4. ToCompute(n)' = ToCompute(n)
    <3>1. tasks'[n].started = tasks[n].started + 1
      BY <1>5
    <3> QED BY <3>1, <2>1, <2>2, <2>3 DEF ToCompute
  <2>5. Computed(n)' = Computed(n)
    BY <2>1 DEF Computed
  <2>6. Completions(n)' = Completions(n) /\ Openings(n)' = Openings(n)
    BY <1>10 DEF Completions, Openings
  <2>7. ToNotify(n)' = ToNotify(n)
    BY <2>1, <2>4, <2>6, <1>7, ToNotifyIs DEF SameStage
  <2> QED BY <2>1, <2>4, <2>5, <2>6, <2>7, <1>1, <1>7, SumsKept
<1> QED BY <1>4, <1>6, <1>11, <1>12 DEF CountInv, NodeInv

\* A diff counts for nothing.
LEMMA CountHandleDiff ==
  ASSUME CountInv, NEW n \in Node, NEW p \in Node, HandleDiff(n, p)
  PROVE  CountInv'
<1>1. /\ TypeOK /\ MessagesFit /\ \A q \in Node : NodeInv(q)
      /\ chan[p][n] # << >> /\ Head(chan[p][n]).type = "DIFF"
      /\ chan' = Received(p, n)
      /\ seen' = [seen EXCEPT ![n][p] = Applied(@, Head(chan[p][n]).results)]
      /\ UNCHANGED <<wait_on, tasks, main, unsent, runs, results, dirty, taken>>
  BY DEF CountInv, NodeInv, HandleDiff
<1>2. /\ chan' \in [Node -> [Node -> Seq(Message)]]
      /\ Head(chan[p][n]) \in Message
      /\ \A q, r \in Node : \A m \in Counted :
           InFlight(q, r, m)' = IF q = p /\ r = n /\ m = Head(chan[p][n])
                                THEN InFlight(q, r, m) - 1 ELSE InFlight(q, r, m)
  BY <1>1, MessageTaken
<1>3. Head(chan[p][n]) \notin Counted /\ Head(chan[p][n]).results \in SUBSET Nat
  BY <1>1, <1>2, CountedMessages
<1>4. MessagesFit'
  BY <1>1, FitTaken
<1>5. TypeOK'
  BY <1>1, <1>2, <1>3 DEF TypeOK, Applied
<1>6. SameStage
  BY <1>1, MainKept
<1>7. \A q, r \in Node : \A m \in Counted :
        InFlight(q, r, m) \in Nat /\ InFlight(q, r, m)' \in Nat
  BY <1>1, <1>2, InFlightCounts DEF TypeOK
<1>8. \A q, r \in Node : \A m \in Counted : InFlight(q, r, m)' = InFlight(q, r, m)
  BY <1>2, <1>3, <1>7
<1>9. ASSUME NEW q \in Node PROVE NodeInv(q)'
  <2>1. /\ InFlight(Coordinator, q, TaskMsg)' = InFlight(Coordinator, q, TaskMsg)
        /\ Completions(q)' = Completions(q) /\ Openings(q)' = Openings(q)
    BY <1>8, CoordinatorAssumption DEF Completions, Openings, Counted
  <2> QED BY <2>1, <1>1, <1>6, NodeUntouched
<1> QED BY <1>4, <1>5, <1>9 DEF CountInv, NodeInv

\* The classes of stages, one against the other.
LEMMA StageClasses ==
  ASSUME main \in MainValues
  PROVE  /\ First \/ main \in {"rearm", "notify", "ending", "ended"} \/ Opened \/ Idle
         /\ Closed <=> First \/ main \in {"rearm", "notify", "ending", "ended"}
         /\ First => ~ Opened /\ ~ Idle /\ main \notin {"rearm", "notify", "ending", "ended"}
         /\ Opened => ~ Idle /\ ~ Closed
         /\ Idle => ~ Closed
         /\ main = "notify_local" => Opened
  BY DEF MainValues, First, Closed, Opened, Idle

\* A notification taken by the coordinator takes an entry out of its list.
LEMMA CountNotifyCompletion ==
  ASSUME CountInv, NEW n \in Node, NEW p \in Node, HandleNotify(n, p),
         Head(chan[p][n]).barrier = "completion"
  PROVE  CountInv'
<1>1. /\ TypeOK /\ MessagesFit /\ \A q \in Node : NodeInv(q)
      /\ chan[p][n] # << >> /\ Head(chan[p][n]).type = "NOTIFY"
      /\ chan' = Received(p, n)
      /\ wait_on' = Replied("completion", n, p)
      /\ tasks' = Woken("completion", n, tasks)
      /\ main' = MainWoken("completion", n)
      /\ UNCHANGED <<unsent, runs, results, dirty, taken, seen>>
  BY DEF CountInv, NodeInv, HandleNotify, memoryVars
<1>2. /\ chan' \in [Node -> [Node -> Seq(Message)]]
      /\ Head(chan[p][n]) \in Message
      /\ \A q, r \in Node : \A m \in Counted :
           InFlight(q, r, m)' = IF q = p /\ r = n /\ m = Head(chan[p][n])
                                THEN InFlight(q, r, m) - 1 ELSE InFlight(q, r, m)
  BY <1>1, MessageTaken
<1>3. Head(chan[p][n]) = NotifyMsg("completion")
  BY <1>1, <1>2, CountedMessages
<1>4. MessagesFit'
  BY <1>1, FitTaken
<1>5. tasks' = tasks
  BY <1>1, WokenProperties DEF Barriers
<1>6. /\ wait_on' \in [Barriers -> [Node -> [Node -> Nat]]]
      /\ wait_on'["completion"][n][p] = IF wait_on["completion"][n][p] > 0
                                        THEN wait_on["completion"][n][p] - 1
                                        ELSE wait_on["completion"][n][p]
      /\ \A c \in Barriers : \A m, q \in Node :
           c # "completion" \/ m # n \/ q # p => wait_on'[c][m][q] = wait_on[c][m][q]
  BY <1>1, RepliedProperties DEF Barriers
<1>7. SameStage
  BY <1>1, MainKept DEF Barriers
<1>8. TypeOK'
  BY <1>1, <1>2, <1>5, <1>6, <1>7 DEF TypeOK, SameStage, MainValues
<1>9. /\ TaskMsg \in Counted /\ TaskMsg # NotifyMsg("completion")
      /\ NotifyMsg("client") \in Counted /\ NotifyMsg("client") # NotifyMsg("completion")
      /\ NotifyMsg("completion") \in Counted
  BY CountedMessages DEF Counted
<1>10. ASSUME NEW q \in Node
       PROVE  /\ InFlight(Coordinator, q, TaskMsg)' = InFlight(Coordinator, q, TaskMsg)
              /\ Openings(q)' = Openings(q)
              /\ Completions(q)' = IF q = p /\ n = Coordinator THEN Completions(q) - 1
                                                               ELSE Completions(q)
  <2>1. /\ InFlight(Coordinator, q, TaskMsg)' = InFlight(Coordinator, q, TaskMsg)
        /\ InFlight(Coordinator, q, NotifyMsg("client"))'
             = InFlight(Coordinator, q, NotifyMsg("client"))
        /\ InFlight(q, Coordinator, NotifyMsg("completion"))'
             = IF q = p /\ n = Coordinator
               THEN InFlight(q, Coordinator, NotifyMsg("completion")) - 1
               ELSE InFlight(q, Coordinator, NotifyMsg("completion"))
    BY <1>2, <1>3, <1>9, CoordinatorAssumption
  <2> QED BY <2>1 DEF Openings, Completions
<1>11. ASSUME NEW q \in Node, q # p \/ n # Coordinator
       PROVE  NodeInv(q)'
  BY <1>11, <1>1, <1>5, <1>6, <1>7, <1>10, NodeUntouched, CoordinatorAssumption
     DEF Barriers
<1>12. CASE n = Coordinator
  <2>1. /\ TasksCounted(p) /\ EntriesMatch(p) /\ ClientBarrier(p)
    BY <1>1 DEF NodeInv
  <2>2. /\ Completions(p)' = Completions(p) - 1 /\ Openings(p)' = Openings(p)
        /\ Notifying(p)' = Notifying(p) /\ Writing(p)' = Writing(p)
        /\ ToCompute(p)' = ToCompute(p) /\ Computed(p)' = Computed(p)
    BY <1>1, <1>5, <1>10, <1>12 DEF Notifying, Writing, ToCompute, Computed
  <2>3. Completions(p) \in Nat /\ Completions(p)' \in Nat
    BY <1>1, <1>2, <1>9, InFlightCounts, CoordinatorAssumption DEF Completions, TypeOK
  <2>4. main # "rearm" /\ ~ Idle /\ wait_on["completion"][n][p] = ToNotify(p)
    BY <2>1, <2>2, <2>3, <1>12 DEF EntriesMatch
  <2>5. /\ tasks[p].started \in Nat /\ tasks[p].computing \in Nat
        /\ Notifying(p) \in Nat /\ tasks[p].notified \in Nat
        /\ tasks[p].waiting \in Nat /\ tasks[p].asleep \in Nat
        /\ Writing(p) \in Nat
        /\ tasks[p].finishing \in Nat /\ ToCompute(p) \in Nat
    BY <1>1, NodeNumbers
  <2>6. ToNotify(p)' = ToNotify(p) - 1 /\ ToNotify(p) > 0
    <3>1. CASE First
      BY <3>1, <2>2, <2>3, <2>5, <1>5, <1>7, ToNotifyIs DEF SameStage
    <3>2. CASE ~ First
      BY <3>2, <2>2, <2>3, <2>5, <1>5, <1>7, ToNotifyIs DEF SameStage
    <3> QED BY <3>1, <3>2
  <2>7. TasksCounted(p)'
    BY <2>1, <2>2, <1>5, <1>7 DEF TasksCounted, SameStage
  <2>8. EntriesMatch(p)'
    BY <2>4, <2>6, <1>6, <1>7, <1>12 DEF EntriesMatch, SameStage
  <2>9. ClientBarrier(p)'
    BY <2>1, <2>2, <1>5, <1>6, <1>7, CoordinatorAssumption
       DEF ClientBarrier, ClientEntry, Shut, SameStage, Barriers
  <2>10. NodeInv(p)'
    BY <2>7, <2>8, <2>9 DEF NodeInv
  <2> QED BY <2>10, <1>4, <1>8, <1>11 DEF CountInv, NodeInv
<1>13. CASE n # Coordinator
  BY <1>13, <1>4, <1>8, <1>11 DEF CountInv, NodeInv
<1> QED BY <1>12, <1>13

\* One taken from the coordinator opens the client barrier of the node.
LEMMA CountNotifyClient ==
  ASSUME CountInv, NEW n \in Node, NEW p \in Node, HandleNotify(n, p),
         Head(chan[p][n]).barrier = "client"
  PROVE  CountInv'
<1>1. /\ TypeOK /\ MessagesFit /\ \A q \in Node : NodeInv(q)
      /\ chan[p][n] # << >> /\ Head(chan[p][n]).type = "NOTIFY"
      /\ chan' = Received(p, n)
      /\ wait_on' = Replied("client", n, p)
      /\ tasks' = Woken("client", n, tasks)
      /\ main' = MainWoken("client", n)
      /\ UNCHANGED <<unsent, runs, results, dirty, taken, seen>>
  BY DEF CountInv, NodeInv, HandleNotify, memoryVars
<1>2. /\ chan' \in [Node -> [Node -> Seq(Message)]]
      /\ Head(chan[p][n]) \in Message
      /\ \A q, r \in Node : \A m \in Counted :
           InFlight(q, r, m)' = IF q = p /\ r = n /\ m = Head(chan[p][n])
                                THEN InFlight(q, r, m) - 1 ELSE InFlight(q, r, m)
  BY <1>1, MessageTaken
<1>3. Head(chan[p][n]) = NotifyMsg("client")
  BY <1>1, <1>2, CountedMessages
<1>4. MessagesFit' /\ p = Coordinator /\ n # Coordinator
  BY <1>1, <1>3, FitTaken
<1>5. /\ tasks' \in [Node -> [Stage -> Nat]]
      /\ \A q \in Node : q # n => tasks'[q] = tasks[q]
      /\ tasks'[n].waiting + tasks'[n].asleep = tasks[n].waiting + tasks[n].asleep
      /\ \A x \in Stage : x \notin {"waiting", "asleep"} =>
           tasks'[n][x] = tasks[n][x]
  BY <1>1, WokenProperties DEF Barriers
<1>6. /\ wait_on' \in [Barriers -> [Node -> [Node -> Nat]]]
      /\ wait_on'["client"][n][p] = IF wait_on["client"][n][p] > 0
                                    THEN wait_on["client"][n][p] - 1
                                    ELSE wait_on["client"][n][p]
      /\ \A c \in Barriers : \A m, q \in Node :
           c # "client" \/ m # n \/ q # p => wait_on'[c][m][q] = wait_on[c][m][q]
  BY <1>1, RepliedProperties DEF Barriers
<1>7. SameStage
  BY <1>1, MainKept DEF Barriers
<1>8. TypeOK'
  BY <1>1, <1>2, <1>5, <1>6, <1>7 DEF TypeOK, SameStage, MainValues
<1>9. /\ TaskMsg \in Counted /\ TaskMsg # NotifyMsg("client")
      /\ NotifyMsg("client") \in Counted /\ NotifyMsg("client") # NotifyMsg("completion")
      /\ NotifyMsg("completion") \in Counted
  BY CountedMessages DEF Counted
<1>10. ASSUME NEW q \in Node
       PROVE  /\ InFlight(Coordinator, q, TaskMsg)' = InFlight(Coordinator, q, TaskMsg)
              /\ Openings(q)' = IF q = n THEN Openings(q) - 1 ELSE Openings(q)
              /\ Completions(q)' = Completions(q)
  <2>1. /\ InFlight(Coordinator, q, TaskMsg)' = InFlight(Coordinator, q, TaskMsg)
        /\ InFlight(Coordinator, q, NotifyMsg("client"))'
             = IF q = n THEN InFlight(Coordinator, q, NotifyMsg("client")) - 1
                        ELSE InFlight(Coordinator, q, NotifyMsg("client"))
        /\ InFlight(q, Coordinator, NotifyMsg("completion"))'
             = InFlight(q, Coordinator, NotifyMsg("completion"))
    BY <1>2, <1>3, <1>4, <1>9, CoordinatorAssumption
  <2> QED BY <2>1 DEF Openings, Completions
<1>11. ASSUME NEW q \in Node, q # n
       PROVE  NodeInv(q)'
  BY <1>11, <1>1, <1>5, <1>6, <1>7, <1>10, NodeUntouched, CoordinatorAssumption
     DEF Barriers
<1>12. /\ TasksCounted(n) /\ EntriesMatch(n) /\ ClientBarrier(n) /\ main \in MainValues
  BY <1>1 DEF NodeInv, TypeOK, MainValues
<1>13. Openings(n) \in Nat /\ Openings(n)' \in Nat /\ Openings(n)' = Openings(n) - 1
  BY <1>1, <1>2, <1>9, <1>10, InFlightCounts, CoordinatorAssumption DEF Openings, TypeOK
<1>14. Opened /\ ~ First /\ ~ Closed /\ ~ Idle /\ main # "rearm"
  <2>1. ~ Closed /\ ~ Idle
    BY <1>12, <1>13 DEF ClientBarrier
  <2> QED BY <2>1, <1>12, StageClasses
<1>15. Openings(n) = 1 /\ Shut(n)
  BY <1>4, <1>12, <1>13, <1>14 DEF ClientBarrier
<1>16. /\ tasks'[n].started = tasks[n].started /\ tasks'[n].computing = tasks[n].computing
       /\ Notifying(n)' = Notifying(n) /\ tasks'[n].notified = tasks[n].notified
       /\ Writing(n)' = Writing(n)
       /\ tasks'[n].finishing = tasks[n].finishing /\ unsent'[n] = unsent[n]
  BY <1>1, <1>5 DEF Stage, Notifying, Writing
<1>17. /\ Notifying(n) \in Nat /\ tasks[n].notified \in Nat
       /\ tasks[n].waiting \in Nat /\ tasks[n].asleep \in Nat
       /\ tasks'[n].waiting \in Nat /\ tasks'[n].asleep \in Nat
       /\ Writing(n) \in Nat
       /\ tasks[n].finishing \in Nat /\ Completions(n) \in Nat
  BY <1>1, <1>5, NodeNumbers DEF Stage
<1>18. ToCompute(n)' = ToCompute(n)
  BY <1>10, <1>16 DEF ToCompute
<1>19. Computed(n)' = Computed(n)
  <2>1. /\ tasks'[n].waiting + tasks'[n].asleep = tasks[n].waiting + tasks[n].asleep
        /\ Computed(n)' = Notifying(n)' + tasks'[n].notified + tasks'[n].waiting
                            + tasks'[n].asleep
    BY <1>5 DEF Computed
  <2> QED BY <2>1, <1>16, <1>17 DEF Computed
<1>20. ToNotify(n)' = ToNotify(n)
  <2>1. Completions(n)' = Completions(n)
    BY <1>10
  <2> QED BY <2>1, <1>4, <1>5, <1>7, <1>14, <1>16, <1>17, ToNotifyIs DEF SameStage
<1>21. TasksCounted(n)'
  BY <1>7, <1>12, <1>16, <1>18, <1>19 DEF TasksCounted, SameStage
<1>22. EntriesMatch(n)'
  BY <1>6, <1>7, <1>12, <1>14, <1>20, CoordinatorAssumption
     DEF EntriesMatch, SameStage, Barriers
<1>23. ClientBarrier(n)'
  <2>1. ClientEntry(n)' = 0
    BY <1>4, <1>6, <1>15 DEF Shut, ClientEntry
  <2>2. \A q \in Node : q # Coordinator => wait_on'["client"][n][q] = 0
    BY <1>4, <1>6, <1>12 DEF ClientBarrier, Barriers
  <2>3. Openings(n)' = 0
    BY <1>13, <1>15
  <2> QED BY <2>1, <2>2, <2>3, <1>4, <1>7, <1>14 DEF ClientBarrier, SameStage
<1> QED BY <1>4, <1>8, <1>11, <1>21, <1>22, <1>23 DEF CountInv, NodeInv
----------------------------------------------------------------------------
(***************************************************************************)
(* The steps of run_simulation                                             *)
(***************************************************************************)

\* The two forms of ToNotify, when run_simulation goes from one stage to another.
LEMMA NotifySums ==
  ASSUME NEW n \in Node
  PROVE  /\ First => ToNotify(n) = Completions(n) + (ToCompute(n) + Notifying(n)
                       + (IF n = Coordinator THEN tasks[n].notified ELSE 0))
         /\ First' => ToNotify(n)' = Completions(n)' + (ToCompute(n)' + Notifying(n)'
                        + (IF n = Coordinator THEN tasks'[n].notified ELSE 0))
         /\ ~ First =>
              ToNotify(n) = Completions(n) + (tasks[n].waiting + tasks[n].asleep
                + Writing(n)
                + (IF n = Coordinator THEN tasks[n].finishing ELSE tasks[n].notified))
         /\ ~ First' =>
              ToNotify(n)' = Completions(n)' + (tasks'[n].waiting + tasks'[n].asleep
                + Writing(n)'
                + (IF n = Coordinator THEN tasks'[n].finishing ELSE tasks'[n].notified))
  BY DEF ToNotify, First, Completions

\* Arming puts in as many entries as tasks are to be sent.
LEMMA CountMainArm ==
  ASSUME CountInv, MainArm
  PROVE  CountInv'
<1>1. /\ TypeOK /\ MessagesFit /\ \A q \in Node : NodeInv(q)
      /\ main = "out" /\ main' = "tasking" /\ runs < MaxRuns /\ runs' = runs + 1
      /\ wait_on' = Armed("completion", Coordinator, RunOn)
      /\ unsent' = [p \in Node |-> ThreadsPerNode]
      /\ UNCHANGED <<chan, tasks, results, dirty, taken, seen>>
  BY DEF CountInv, NodeInv, MainArm, MainGoto, memoryVars
<1>2. /\ wait_on' \in [Barriers -> [Node -> [Node -> Nat]]]
      /\ wait_on'["completion"][Coordinator] = RunOn
      /\ \A c \in Barriers : \A m \in Node :
           c # "completion" \/ m # Coordinator => wait_on'[c][m] = wait_on[c][m]
  <2>1. RunOn \in [Node -> Nat]
    BY ThreadsAssumption DEF RunOn
  <2> QED BY <2>1, <1>1, ArmedProperties, CoordinatorAssumption DEF Barriers
<1>3. runs' \in 0 .. MaxRuns
  BY <1>1, MaxRunsAssumption DEF TypeOK
<1>4. TypeOK'
  BY <1>1, <1>2, <1>3, ThreadsAssumption DEF TypeOK
<1>5. MessagesFit' /\ \A p, q, m : InFlight(p, q, m)' = InFlight(p, q, m)
  BY <1>1, ChannelsKept
<1>6. /\ Idle /\ ~ First /\ ~ Opened /\ ~ Closed
      /\ First' /\ Closed' /\ ~ Opened' /\ ~ Idle' /\ main' # "rearm"
  BY <1>1 DEF Idle, First, Opened, Closed
<1>7. ASSUME NEW n \in Node PROVE NodeInv(n)'
  <2>1. TasksCounted(n) /\ EntriesMatch(n) /\ ClientBarrier(n)
    BY <1>1 DEF NodeInv
  <2>2. /\ ToCompute(n) = 0 /\ Computed(n) = 0 /\ Completions(n) = 0 /\ Openings(n) = 0
        /\ Writing(n) = 0
        /\ n = Coordinator => tasks[n].finishing = 0
    BY <2>1, <1>6 DEF TasksCounted, EntriesMatch, ClientBarrier
  <2>3. /\ unsent[n] \in Nat /\ InFlight(Coordinator, n, TaskMsg) \in Nat
        /\ tasks[n].started \in Nat /\ tasks[n].computing \in Nat
        /\ Notifying(n) \in Nat /\ tasks[n].notified \in Nat
        /\ tasks[n].waiting \in Nat /\ tasks[n].asleep \in Nat
    BY <1>1, NodeNumbers
  <2>4. /\ InFlight(Coordinator, n, TaskMsg) = 0
        /\ tasks[n].started = 0 /\ tasks[n].computing = 0
    <3>1. unsent[n] + InFlight(Coordinator, n, TaskMsg)
            + tasks[n].started + tasks[n].computing = 0
      BY <2>2 DEF ToCompute
    <3> QED BY <3>1, <2>3, ZeroSum
  <2>5. Notifying(n) = 0 /\ tasks[n].notified = 0
    <3>1. Notifying(n) + tasks[n].notified + tasks[n].waiting + tasks[n].asleep = 0
      BY <2>2 DEF Computed
    <3> QED BY <3>1, <2>3, ZeroSum
  <2>6. /\ unsent'[n] = ThreadsPerNode /\ tasks'[n] = tasks[n]
        /\ InFlight(Coordinator, n, TaskMsg)' = 0
        /\ Completions(n)' = 0 /\ Openings(n)' = 0
        /\ Notifying(n)' = Notifying(n) /\ Writing(n)' = Writing(n)
    BY <1>1, <1>5, <2>2, <2>4 DEF Completions, Openings, Notifying, Writing
  <2>7. ToCompute(n)' = ThreadsPerNode
    BY <2>4, <2>6, ThreadsAssumption DEF ToCompute
  <2>8. Computed(n)' = 0
    BY <2>2, <2>6 DEF Computed
  <2>9. wait_on'["completion"][Coordinator][n] = ThreadsPerNode
    BY <1>2 DEF RunOn
  <2>10. ToNotify(n)' = ThreadsPerNode
    BY <2>5, <2>6, <2>7, <1>6, NotifySums, ThreadsAssumption
  <2>11. TasksCounted(n)'
    BY <2>2, <2>6, <2>7, <2>8, <1>6, ThreadsAssumption DEF TasksCounted
  <2>12. EntriesMatch(n)'
    BY <2>9, <2>10, <1>6 DEF EntriesMatch
  <2>13. \A p \in Node : p # Coordinator => wait_on'["client"][n][p] = 0
    BY <2>1, <1>2 DEF ClientBarrier, Barriers
  <2>14. ClientBarrier(n)'
    BY <2>4, <2>6, <2>8, <2>13, <1>6 DEF ClientBarrier
  <2> QED BY <2>11, <2>12, <2>14 DEF NodeInv
<1> QED BY <1>4, <1>5, <1>7 DEF CountInv, NodeInv

\* A task sent is one that was still to be sent.
LEMMA CountMainSendTask ==
  ASSUME CountInv, NEW p \in Node, MainSendTask(p)
  PROVE  CountInv'
<1>1. /\ TypeOK /\ MessagesFit /\ \A q \in Node : NodeInv(q)
      /\ main = "tasking" /\ unsent[p] > 0
      /\ unsent' = [unsent EXCEPT ![p] = @ - 1]
      /\ UNCHANGED <<wait_on, main, runs, results, dirty, taken, seen>>
  BY DEF CountInv, NodeInv, MainSendTask, memoryVars
<1>2. SameStage
  BY <1>1, MainKept
<1>3. /\ unsent' \in [Node -> Nat] /\ unsent'[p] = unsent[p] - 1
      /\ \A q \in Node : q # p => unsent'[q] = unsent[q]
  <2>1. unsent[p] - 1 \in Nat
    BY <1>1 DEF TypeOK
  <2> QED BY <2>1, <1>1 DEF TypeOK
<1>4. /\ TaskMsg \in Counted /\ TaskMsg # NotifyMsg("completion")
      /\ NotifyMsg("client") \in Counted /\ NotifyMsg("client") # TaskMsg
      /\ NotifyMsg("completion") \in Counted
  BY CountedMessages DEF Counted
<1>5. /\ tasks[p].started \in Nat /\ tasks[p].computing \in Nat /\ unsent[p] \in Nat
      /\ InFlight(Coordinator, p, TaskMsg) \in Nat
  BY <1>1, NodeNumbers
<1>6. CASE p = Coordinator
  <2>1. tasks' = [tasks EXCEPT ![p].started = @ + 1] /\ chan' = chan
    BY <1>6 DEF MainSendTask
  <2>2. "started" \in Stage /\ tasks[p].started + 1 \in Nat
    BY <1>5 DEF Stage
  <2>3. tasks' = [tasks EXCEPT ![p]["started"] = tasks[p].started + 1]
    BY <2>1
  <2>4. /\ tasks' \in [Node -> [Stage -> Nat]]
        /\ tasks'[p].started = tasks[p].started + 1
        /\ \A x \in Stage : x # "started" => tasks'[p][x] = tasks[p][x]
        /\ \A q \in Node : q # p => tasks'[q] = tasks[q]
    BY <2>2, <2>3, <1>1, StageChanged
  <2>5. TypeOK'
    BY <1>1, <1>3, <2>1, <2>4 DEF TypeOK
  <2>6. MessagesFit' /\ \A q, r, m : InFlight(q, r, m)' = InFlight(q, r, m)
    BY <1>1, <2>1, ChannelsKept
  <2>7. \A q \in Node : Completions(q)' = Completions(q) /\ Openings(q)' = Openings(q)
    BY <2>6 DEF Completions, Openings
  <2>8. ASSUME NEW q \in Node, q # p PROVE NodeInv(q)'
    BY <2>8, <1>1, <1>2, <1>3, <2>4, <2>6, <2>7, NodeUntouched
  <2>9. /\ tasks'[p].computing = tasks[p].computing /\ Notifying(p)' = Notifying(p)
        /\ tasks'[p].notified = tasks[p].notified /\ tasks'[p].waiting = tasks[p].waiting
        /\ tasks'[p].asleep = tasks[p].asleep /\ Writing(p)' = Writing(p)
        /\ tasks'[p].finishing = tasks[p].finishing
    BY <2>4 DEF Stage, Notifying, Writing
  <2>10. ToCompute(p)' = ToCompute(p)
    <3>1. InFlight(Coordinator, p, TaskMsg)' = InFlight(Coordinator, p, TaskMsg)
      BY <2>6
    <3> QED BY <3>1, <2>9, <2>4, <1>3, <1>5 DEF ToCompute
  <2>11. Computed(p)' = Computed(p)
    BY <2>9 DEF Computed
  <2>12. ToNotify(p)' = ToNotify(p)
    BY <2>7, <2>9, <2>10, <1>2, ToNotifyIs DEF SameStage
  <2>13. NodeInv(p)'
    BY <2>7, <2>9, <2>10, <2>11, <2>12, <1>1, <1>2, SumsKept
  <2> QED BY <2>5, <2>6, <2>8, <2>13 DEF CountInv, NodeInv
<1>7. CASE p # Coordinator
  <2>1. chan' = [chan EXCEPT ![Coordinator][p] = Append(@, TaskMsg)] /\ tasks' = tasks
    BY <1>7 DEF MainSendTask
  <2>2. /\ chan' \in [Node -> [Node -> Seq(Message)]]
        /\ \A q, r \in Node : q # Coordinator \/ r # p => chan'[q][r] = chan[q][r]
        /\ chan'[Coordinator][p] = Append(chan[Coordinator][p], TaskMsg)
        /\ \A q, r \in Node : \A m \in Counted :
             InFlight(q, r, m)' = InFlight(q, r, m)
               + IF q = Coordinator /\ r = p /\ m = TaskMsg THEN 1 ELSE 0
    BY <2>1, <1>1, <1>7, TaskSent
  <2>3. TypeOK'
    BY <1>1, <1>3, <2>1, <2>2 DEF TypeOK
  <2>4. MessagesFit'
    <3>1. \A n \in Node : chan'[n][n] = << >>
      BY <1>1, <1>7, <2>2 DEF MessagesFit
    <3>2. ASSUME NEW q \in Node, NEW r \in Node, NEW k \in DOMAIN chan'[q][r],
                 chan'[q][r][k] \in {TaskMsg, NotifyMsg("client")}
          PROVE  q = Coordinator
      <4>1. CASE q # Coordinator \/ r # p
        <5>1. chan'[q][r] = chan[q][r]
          BY <4>1, <2>2
        <5> QED BY <5>1, <3>2, <1>1 DEF MessagesFit
      <4> QED BY <4>1
    <3> QED BY <3>1, <3>2 DEF MessagesFit
  <2>5. \A q, r \in Node : \A m \in Counted :
          InFlight(q, r, m) \in Nat /\ InFlight(q, r, m)' \in Nat
    BY <1>1, <2>2, InFlightCounts DEF TypeOK
  <2>6. ASSUME NEW q \in Node
        PROVE  /\ q # p => InFlight(Coordinator, q, TaskMsg)' = InFlight(Coordinator, q, TaskMsg)
               /\ InFlight(Coordinator, p, TaskMsg)' = InFlight(Coordinator, p, TaskMsg) + 1
               /\ Completions(q)' = Completions(q) /\ Openings(q)' = Openings(q)
    <3>1. /\ InFlight(Coordinator, q, NotifyMsg("client"))'
               = InFlight(Coordinator, q, NotifyMsg("client"))
          /\ InFlight(q, Coordinator, NotifyMsg("completion"))'
               = InFlight(q, Coordinator, NotifyMsg("completion"))
      <4>1. /\ InFlight(Coordinator, q, NotifyMsg("client")) \in Nat
            /\ InFlight(q, Coordinator, NotifyMsg("completion")) \in Nat
        BY <2>5, <1>4, CoordinatorAssumption
      <4>2. /\ InFlight(Coordinator, q, NotifyMsg("client"))'
                 = InFlight(Coordinator, q, NotifyMsg("client")) + 0
            /\ InFlight(q, Coordinator, NotifyMsg("completion"))'
                 = InFlight(q, Coordinator, NotifyMsg("completion")) + 0
        BY <2>2, <1>4, CoordinatorAssumption
      <4> QED BY <4>1, <4>2
    <3>2. /\ q # p => InFlight(Coordinator, q, TaskMsg)' = InFlight(Coordinator, q, TaskMsg)
          /\ InFlight(Coordinator, p, TaskMsg)' = InFlight(Coordinator, p, TaskMsg) + 1
      <4>1. \A r \in Node : InFlight(Coordinator, r, TaskMsg)'
              = InFlight(Coordinator, r, TaskMsg) + IF r = p THEN 1 ELSE 0
        BY <2>2, <1>4, CoordinatorAssumption
      <4>2. InFlight(Coordinator, q, TaskMsg) \in Nat
        BY <2>5, <1>4, CoordinatorAssumption
      <4> QED BY <4>1, <4>2
    <3> QED BY <3>1, <3>2 DEF Completions, Openings
  <2>7. ASSUME NEW q \in Node, q # p PROVE NodeInv(q)'
    BY <2>7, <1>1, <1>2, <1>3, <2>1, <2>6, NodeUntouched
  <2>8. ToCompute(p)' = ToCompute(p)
    <3>1. InFlight(Coordinator, p, TaskMsg)' = InFlight(Coordinator, p, TaskMsg) + 1
      BY <2>6
    <3>2. /\ tasks'[p].started = tasks[p].started
          /\ tasks'[p].computing = tasks[p].computing
      BY <2>1
    <3>3. unsent'[p] = unsent[p] - 1
      BY <1>3
    <3> QED BY <3>1, <3>2, <3>3, <1>5 DEF ToCompute
  <2>9. /\ Notifying(p)' = Notifying(p) /\ Writing(p)' = Writing(p)
        /\ Computed(p)' = Computed(p)
    BY <2>1 DEF Notifying, Writing, Computed
  <2>10. Completions(p)' = Completions(p) /\ Openings(p)' = Openings(p)
    BY <2>6
  <2>11. ToNotify(p)' = ToNotify(p)
    BY <2>1, <2>8, <2>9, <2>10, <1>2, ToNotifyIs DEF SameStage
  <2>12. NodeInv(p)'
    BY <2>1, <2>8, <2>9, <2>10, <2>11, <1>1, <1>2, SumsKept
  <2> QED BY <2>3, <2>4, <2>7, <2>12 DEF CountInv, NodeInv
<1> QED BY <1>6, <1>7

\* Only run_simulation moves on.
LEMMA SumsOfKept ==
  ASSUME MessagesFit, chan' = chan, tasks' = tasks, unsent' = unsent
  PROVE  /\ MessagesFit'
         /\ \A n \in Node :
              /\ InFlight(Coordinator, n, TaskMsg)' = InFlight(Coordinator, n, TaskMsg)
              /\ Notifying(n)' = Notifying(n) /\ Writing(n)' = Writing(n)
              /\ ToCompute(n)' = ToCompute(n) /\ Computed(n)' = Computed(n)
              /\ Completions(n)' = Completions(n) /\ Openings(n)' = Openings(n)
<1>1. MessagesFit' /\ \A p, q, m : InFlight(p, q, m)' = InFlight(p, q, m)
  BY ChannelsKept
<1>2. ASSUME NEW n \in Node
      PROVE  /\ InFlight(Coordinator, n, TaskMsg)' = InFlight(Coordinator, n, TaskMsg)
             /\ Notifying(n)' = Notifying(n) /\ Writing(n)' = Writing(n)
             /\ ToCompute(n)' = ToCompute(n) /\ Computed(n)' = Computed(n)
             /\ Completions(n)' = Completions(n) /\ Openings(n)' = Openings(n)
  BY <1>1 DEF Notifying, Writing, ToCompute, Computed, Completions, Openings
<1> QED BY <1>1, <1>2

\* A step within the stages that the invariants do not tell apart.
LEMMA CountMainKept ==
  ASSUME CountInv, SameStage, TypeOK', UNCHANGED <<chan, wait_on, tasks, unsent>>
  PROVE  CountInv'
<1>1. TypeOK /\ MessagesFit /\ \A q \in Node : NodeInv(q)
  BY DEF CountInv, NodeInv
<1>3. MessagesFit'
  BY <1>1, SumsOfKept
<1>4. ASSUME NEW n \in Node PROVE NodeInv(n)'
  <2>1. /\ InFlight(Coordinator, n, TaskMsg)' = InFlight(Coordinator, n, TaskMsg)
        /\ Completions(n)' = Completions(n) /\ Openings(n)' = Openings(n)
    BY <1>1, SumsOfKept
  <2>2. /\ tasks'[n] = tasks[n] /\ unsent'[n] = unsent[n] /\ wait_on' = wait_on
    OBVIOUS
  <2>3. /\ wait_on'["completion"][Coordinator][n] = wait_on["completion"][Coordinator][n]
        /\ \A q \in Node : wait_on'["client"][n][q] = wait_on["client"][n][q]
    BY <2>2
  <2> QED BY <2>1, <2>2, <2>3, <1>1, NodeUntouched
<1> QED BY <1>3, <1>4 DEF CountInv, NodeInv

\* Likewise if nothing else changes at all.
LEMMA CountStageKept ==
  ASSUME CountInv, SameStage,
         UNCHANGED <<chan, wait_on, tasks, unsent, runs, results, dirty, taken, seen>>
  PROVE  CountInv'
<1>1. TypeOK'
  BY DEF CountInv, TypeOK, SameStage, MainValues
<1> QED BY <1>1, CountMainKept

\* Then there are none left.
LEMMA CountMainTasksSent ==
  ASSUME CountInv, MainTasksSent
  PROVE  CountInv'
<1>1. SameStage
  BY DEF MainTasksSent, MainGoto, SameStage, First, Closed, Opened, Idle, MainValues
<1> QED BY <1>1, CountStageKept DEF MainTasksSent, memoryVars

\* Nothing is awaited when run_simulation returns.
LEMMA CountMainReturn ==
  ASSUME CountInv, MainReturn
  PROVE  CountInv'
<1>1. SameStage
  BY DEF MainReturn, MainGoto, SameStage, First, Closed, Opened, Idle, MainValues
<1> QED BY <1>1, CountStageKept DEF MainReturn, memoryVars

\* The first wait is over: all tasks have computed, and have said so.
LEMMA CountFirstWait ==
  ASSUME CountInv, MainGoto("waiting1", "rearm"), Complete("completion", Coordinator),
         UNCHANGED <<chan, wait_on, tasks, unsent, runs, results, dirty, taken, seen>>
  PROVE  CountInv'
<1>1. /\ TypeOK /\ MessagesFit /\ \A q \in Node : NodeInv(q)
      /\ main = "waiting1" /\ main' = "rearm"
      /\ wait_on["completion"][Coordinator] = NoEntry
  BY DEF CountInv, NodeInv, MainGoto, Complete
<1>2. /\ First /\ Closed /\ ~ Opened /\ ~ Idle /\ main # "rearm"
      /\ ~ First' /\ Closed' /\ ~ Opened' /\ ~ Idle'
  BY <1>1 DEF First, Closed, Opened, Idle
<1>3. TypeOK' /\ MessagesFit'
  <2>1. MessagesFit'
    BY <1>1, SumsOfKept
  <2> QED BY <2>1, <1>1 DEF TypeOK
<1>4. ASSUME NEW n \in Node PROVE NodeInv(n)'
  <2>1. TasksCounted(n) /\ EntriesMatch(n) /\ ClientBarrier(n)
    BY <1>1 DEF NodeInv
  <2>2. /\ Notifying(n)' = Notifying(n) /\ Writing(n)' = Writing(n)
        /\ ToCompute(n)' = ToCompute(n) /\ Computed(n)' = Computed(n)
        /\ Completions(n)' = Completions(n) /\ Openings(n)' = Openings(n)
        /\ tasks' = tasks /\ wait_on' = wait_on
    BY <1>1, SumsOfKept
  <2>3. /\ Notifying(n) \in Nat /\ tasks[n].notified \in Nat
        /\ Completions(n) \in Nat /\ ToCompute(n) \in Nat
    BY <1>1, NodeNumbers
  <2>4. ToNotify(n) = 0
    BY <2>1, <1>1, <1>2 DEF EntriesMatch, NoEntry
  <2>5. /\ Completions(n) = 0 /\ ToCompute(n) = 0 /\ Notifying(n) = 0
        /\ n = Coordinator => tasks[n].notified = 0
    <3>1. Completions(n) + (ToCompute(n) + Notifying(n)
            + (IF n = Coordinator THEN tasks[n].notified ELSE 0)) = 0
      BY <2>4, <1>2, NotifySums
    <3>2. CASE n = Coordinator
      <4>1. Completions(n) + ToCompute(n) + Notifying(n) + tasks[n].notified = 0
        BY <3>1, <3>2, <2>3
      <4> QED BY <4>1, <2>3, ZeroSum
    <3>3. CASE n # Coordinator
      <4>1. Completions(n) + ToCompute(n) + Notifying(n) + 0 = 0
        BY <3>1, <3>3, <2>3
      <4> QED BY <4>1, <3>3, <2>3, ZeroSum
    <3> QED BY <3>2, <3>3
  <2>6. TasksCounted(n)'
    BY <2>1, <2>2, <2>5, <1>2 DEF TasksCounted
  <2>7. EntriesMatch(n)'
    BY <1>1, <2>2, <2>5 DEF EntriesMatch
  <2>8. ClientBarrier(n)'
    BY <2>1, <2>2, <1>2 DEF ClientBarrier, ClientEntry
  <2> QED BY <2>6, <2>7, <2>8 DEF NodeInv
<1> QED BY <1>3, <1>4 DEF CountInv, NodeInv

\* The second wait is over: all tasks have written, and have said so.
LEMMA CountSecondWait ==
  ASSUME CountInv, MainGoto("waiting2", "reading"), Complete("completion", Coordinator),
         UNCHANGED <<chan, wait_on, tasks, unsent, runs, results, dirty, taken, seen>>
  PROVE  CountInv'
<1>1. /\ TypeOK /\ MessagesFit /\ \A q \in Node : NodeInv(q)
      /\ main = "waiting2" /\ main' = "reading"
      /\ wait_on["completion"][Coordinator] = NoEntry
  BY DEF CountInv, NodeInv, MainGoto, Complete
<1>2. /\ ~ First /\ ~ Closed /\ Opened /\ ~ Idle /\ main # "rearm" /\ main # "notify_local"
      /\ ~ First' /\ ~ Closed' /\ ~ Opened' /\ Idle'
  BY <1>1 DEF First, Closed, Opened, Idle
<1>3. TypeOK' /\ MessagesFit'
  <2>1. MessagesFit'
    BY <1>1, SumsOfKept
  <2> QED BY <2>1, <1>1 DEF TypeOK
<1>4. ASSUME NEW n \in Node PROVE NodeInv(n)'
  <2>1. TasksCounted(n) /\ EntriesMatch(n) /\ ClientBarrier(n)
    BY <1>1 DEF NodeInv
  <2>2. /\ Notifying(n)' = Notifying(n) /\ Writing(n)' = Writing(n)
        /\ ToCompute(n)' = ToCompute(n) /\ Computed(n)' = Computed(n)
        /\ Completions(n)' = Completions(n) /\ Openings(n)' = Openings(n)
        /\ tasks' = tasks /\ wait_on' = wait_on
    BY <1>1, SumsOfKept
  <2>3. /\ tasks[n].notified \in Nat /\ tasks[n].waiting \in Nat
        /\ tasks[n].asleep \in Nat /\ Writing(n) \in Nat
        /\ tasks[n].finishing \in Nat
        /\ Completions(n) \in Nat
    BY <1>1, NodeNumbers
  <2>4. ToNotify(n) = 0
    BY <2>1, <1>1, <1>2 DEF EntriesMatch, NoEntry
  <2>5. /\ Completions(n) = 0 /\ tasks[n].waiting = 0 /\ tasks[n].asleep = 0
        /\ Writing(n) = 0
        /\ IF n = Coordinator THEN tasks[n].finishing = 0 ELSE tasks[n].notified = 0
    <3>1. Completions(n) + (tasks[n].waiting + tasks[n].asleep
            + Writing(n)
            + (IF n = Coordinator THEN tasks[n].finishing ELSE tasks[n].notified)) = 0
      BY <2>4, <1>2, NotifySums
    <3> DEFINE own == IF n = Coordinator THEN tasks[n].finishing ELSE tasks[n].notified
               most == tasks[n].waiting + tasks[n].asleep + Writing(n)
    <3>2. own \in Nat /\ most \in Nat
      BY <2>3
    <3>3. Completions(n) + (most + own) = 0
      BY <3>1
    <3> HIDE DEF own, most
    <3>4. Completions(n) = 0 /\ most = 0 /\ own = 0
      BY <3>2, <3>3, <2>3
    <3>5. /\ tasks[n].waiting = 0 /\ tasks[n].asleep = 0
          /\ Writing(n) = 0
      <4>1. tasks[n].waiting + tasks[n].asleep + Writing(n) = 0
        BY <3>4 DEF most
      <4> QED BY <4>1, <2>3
    <3> QED BY <3>4, <3>5 DEF own
  <2>6. ToCompute(n) = 0 /\ Notifying(n) = 0 /\ tasks[n].notified = 0
    BY <2>1, <2>5, <1>2 DEF TasksCounted
  <2>7. Computed(n) = 0
    BY <2>5, <2>6 DEF Computed
  <2>8. TasksCounted(n)'
    BY <2>2, <2>5, <2>6, <2>7, <1>2 DEF TasksCounted
  <2>9. EntriesMatch(n)'
    BY <1>2, <2>2, <2>5 DEF EntriesMatch
  <2>10. Openings(n) = 0
    <3>1. CASE n = Coordinator
      <4>1. chan[Coordinator][n] = << >>
        BY <3>1, <1>1 DEF MessagesFit
      <4> QED BY <4>1, <1>1, InFlightCount, CoordinatorAssumption DEF Openings
    <3>2. CASE n # Coordinator
      <4>1. ~ Shut(n)
        BY <2>7, ThreadsAssumption DEF Shut
      <4> QED BY <4>1, <3>2, <2>1, <1>2 DEF ClientBarrier
    <3> QED BY <3>1, <3>2
  <2>11. ClientBarrier(n)'
    BY <2>1, <2>2, <2>10, <1>2 DEF ClientBarrier
  <2> QED BY <2>8, <2>9, <2>11 DEF NodeInv
<1> QED BY <1>3, <1>4 DEF CountInv, NodeInv

\* run_simulation goes on only when nothing of the phase is to come.
LEMMA CountMainWait ==
  ASSUME CountInv, MainWait
  PROVE  CountInv'
<1>1. UNCHANGED <<chan, wait_on, tasks, unsent, runs, results, dirty, taken, seen>>
  BY DEF MainWait, memoryVars
<1>2. CASE MainGoto("waiting1", "rearm") /\ Complete("completion", Coordinator)
  BY <1>1, <1>2, CountFirstWait
<1>3. CASE MainGoto("waiting2", "reading") /\ Complete("completion", Coordinator)
  BY <1>1, <1>3, CountSecondWait
<1>4. CASE MainGoto("waiting1", "asleep1") \/ MainGoto("waiting2", "asleep2")
  <2>1. SameStage
    BY <1>4 DEF MainGoto, SameStage, First, Closed, Opened, Idle, MainValues
  <2> QED BY <2>1, <1>1, CountStageKept
<1>5. \/ MainGoto("waiting1", "rearm") /\ Complete("completion", Coordinator)
      \/ MainGoto("waiting2", "reading") /\ Complete("completion", Coordinator)
      \/ MainGoto("waiting1", "asleep1") \/ MainGoto("waiting2", "asleep2")
  BY DEF MainWait, MainGoto
<1> QED BY <1>2, <1>3, <1>4, <1>5

\* All tasks are at or before the client barrier when the list is armed again.
LEMMA CountMainRearm ==
  ASSUME CountInv, MainRearm
  PROVE  CountInv'
<1>1. /\ TypeOK /\ MessagesFit /\ \A q \in Node : NodeInv(q)
      /\ main = "rearm" /\ main' = "notify"
      /\ wait_on' = Armed("completion", Coordinator, RunOn)
      /\ UNCHANGED <<chan, tasks, unsent, runs, results, dirty, taken, seen>>
  BY DEF CountInv, NodeInv, MainRearm, MainGoto, memoryVars
<1>2. /\ wait_on' \in [Barriers -> [Node -> [Node -> Nat]]]
      /\ wait_on'["completion"][Coordinator] = RunOn
      /\ \A c \in Barriers : \A m \in Node :
           c # "completion" \/ m # Coordinator => wait_on'[c][m] = wait_on[c][m]
  <2>1. RunOn \in [Node -> Nat]
    BY ThreadsAssumption DEF RunOn
  <2> QED BY <2>1, <1>1, ArmedProperties, CoordinatorAssumption DEF Barriers
<1>3. /\ ~ First /\ Closed /\ ~ Opened /\ ~ Idle
      /\ ~ First' /\ Closed' /\ ~ Opened' /\ ~ Idle' /\ main' # "rearm"
  BY <1>1 DEF First, Closed, Opened, Idle
<1>4. TypeOK' /\ MessagesFit'
  <2>1. MessagesFit'
    BY <1>1, SumsOfKept
  <2> QED BY <2>1, <1>1, <1>2 DEF TypeOK
<1>5. ASSUME NEW n \in Node PROVE NodeInv(n)'
  <2>1. TasksCounted(n) /\ EntriesMatch(n) /\ ClientBarrier(n)
    BY <1>1 DEF NodeInv
  <2>2. /\ Notifying(n)' = Notifying(n) /\ Writing(n)' = Writing(n)
        /\ ToCompute(n)' = ToCompute(n) /\ Computed(n)' = Computed(n)
        /\ Completions(n)' = Completions(n) /\ Openings(n)' = Openings(n)
        /\ tasks' = tasks
    BY <1>1, SumsOfKept
  <2>3. wait_on'["client"][n] = wait_on["client"][n]
    BY <1>2 DEF Barriers
  <2>4. /\ ToCompute(n) = 0 /\ ToCompute(n) + Computed(n) = ThreadsPerNode
        /\ Notifying(n) = 0 /\ Writing(n) = 0
        /\ n = Coordinator => tasks[n].notified = 0 /\ tasks[n].finishing = 0
        /\ Completions(n) = 0
    BY <2>1, <1>1, <1>3 DEF TasksCounted, EntriesMatch
  <2>5. /\ tasks[n].notified \in Nat /\ tasks[n].waiting \in Nat
        /\ tasks[n].asleep \in Nat /\ Computed(n) \in Nat
    BY <1>1, NodeNumbers
  <2>6. Computed(n) = ThreadsPerNode
    BY <2>4, <2>5
  <2>7. tasks[n].notified + tasks[n].waiting + tasks[n].asleep = ThreadsPerNode
    BY <2>4, <2>5, <2>6 DEF Computed
  <2>8. ToNotify(n)' = ThreadsPerNode
    <3>1. ToNotify(n)' = Completions(n)' + (tasks'[n].waiting + tasks'[n].asleep
            + Writing(n)'
            + (IF n = Coordinator THEN tasks'[n].finishing ELSE tasks'[n].notified))
      BY <1>3, NotifySums
    <3>2. ToNotify(n)' = 0 + (tasks[n].waiting + tasks[n].asleep + 0
            + (IF n = Coordinator THEN 0 ELSE tasks[n].notified))
      BY <3>1, <2>2, <2>4
    <3>3. n = Coordinator => tasks[n].notified = 0
      BY <2>4
    <3> QED BY <3>2, <3>3, <2>5, <2>7
  <2>9. TasksCounted(n)'
    BY <2>1, <2>2, <1>3 DEF TasksCounted
  <2>10. EntriesMatch(n)'
    BY <2>8, <1>2, <1>3 DEF EntriesMatch, RunOn
  <2>11. ClientBarrier(n)'
    BY <2>1, <2>2, <2>3, <1>3 DEF ClientBarrier, ClientEntry
  <2> QED BY <2>9, <2>10, <2>11 DEF NodeInv
<1> QED BY <1>4, <1>5 DEF CountInv, NodeInv

\* run_simulation ends the transaction with the client barrier still closed.
LEMMA CountMainTxEnd ==
  ASSUME CountInv, MainTxEnd
  PROVE  CountInv'
<1>1. /\ TypeOK /\ SameStage /\ Took(Coordinator, "main")
      /\ UNCHANGED <<chan, wait_on, tasks, unsent, runs>>
  BY DEF CountInv, MainTxEnd, MainGoto, ToSend, SameStage, First, Closed, Opened, Idle,
         MainValues
<1>2. TypeOK'
  BY <1>1, TookTypes, CoordinatorAssumption DEF TypeOK, SameStage, MainValues
<1> QED BY <1>1, <1>2, CountMainKept

\* The diff of a thread is sent; what the thread has to notify is still to come.
LEMMA CountSendDiff ==
  ASSUME CountInv, NEW n \in Node, SendDiff(n)
  PROVE  CountInv'
<1>1. PICK diff \in taken[n] :
        /\ chan' = Sent(n, DiffMsg(diff.results))
        /\ taken' = [taken EXCEPT ![n] = @ \ {diff}]
        /\ IF diff.by = "main"
           THEN MainGoto("ending", "ended") /\ UNCHANGED tasks
           ELSE /\ tasks[n][diff.by] > 0
                /\ tasks' = Moved(n, diff.by,
                                  IF diff.by = "ending" THEN "ended" ELSE "ended_last")
                /\ UNCHANGED main
        /\ UNCHANGED <<wait_on, unsent, runs, results, dirty, seen>>
  BY DEF SendDiff
<1>2. /\ TypeOK /\ MessagesFit /\ \A p \in Node : NodeInv(p)
      /\ taken \in [Node -> SUBSET Diff]
  BY DEF CountInv, NodeInv, TypeOK
<1>3. diff.by \in {"ending", "ending_last", "main"} /\ diff.results \in SUBSET Nat
  BY <1>2 DEF Diff
<1>4. /\ chan' \in [Node -> [Node -> Seq(Message)]] /\ MessagesFit'
      /\ \A p, q \in Node : \A m \in Counted : InFlight(p, q, m)' = InFlight(p, q, m)
  BY <1>1, <1>2, <1>3, DiffSent
<1>5. taken' \in [Node -> SUBSET Diff]
  BY <1>1, <1>2
<1>6. CASE diff.by = "main"
  <2>1. /\ main = "ending" /\ main' = "ended" /\ tasks' = tasks
        /\ wait_on' = wait_on /\ unsent' = unsent
    BY <1>1, <1>6 DEF MainGoto
  <2>2. SameStage
    BY <2>1 DEF SameStage, First, Closed, Opened, Idle, MainValues
  <2>3. TypeOK'
    BY <1>1, <1>2, <1>4, <1>5, <2>1 DEF TypeOK
  <2>4. ASSUME NEW p \in Node PROVE NodeInv(p)'
    <3>1. /\ InFlight(Coordinator, p, TaskMsg)' = InFlight(Coordinator, p, TaskMsg)
          /\ Completions(p)' = Completions(p) /\ Openings(p)' = Openings(p)
      BY <1>4, CoordinatorAssumption DEF Counted, Completions, Openings
    <3> QED BY <3>1, <2>1, <2>2, <1>2, NodeUntouched
  <2> QED BY <1>4, <2>3, <2>4 DEF CountInv, NodeInv
<1>7. CASE diff.by # "main"
  <2> DEFINE s == diff.by
             t == IF diff.by = "ending" THEN "ended" ELSE "ended_last"
  <2>1. /\ s \in Stage /\ t \in Stage /\ s # t
        /\ \/ {s, t} \subseteq {"computed", "ending", "ended"}
           \/ {s, t} \subseteq {"writing", "written", "ending_last", "ended_last"}
    BY <1>3, <1>7 DEF Stage
  <2>2. /\ tasks[n][s] > 0 /\ tasks' = Moved(n, s, t)
        /\ main' = main /\ wait_on' = wait_on /\ unsent' = unsent
    BY <1>1, <1>7
  <2> HIDE DEF s, t
  <2>3. tasks' \in [Node -> [Stage -> Nat]]
    BY <1>2, <2>1, <2>2, MovedProperties
  <2>4. TypeOK'
    BY <1>1, <1>2, <1>4, <1>5, <2>2, <2>3 DEF TypeOK
  <2> QED BY <1>4, <2>1, <2>2, <2>4, CountWithin
<1> QED BY <1>6, <1>7

\* The client barrier of every other node has its one notification to come.
LEMMA CountMainNotify ==
  ASSUME CountInv, MainNotify
  PROVE  CountInv'
<1>1. /\ TypeOK /\ MessagesFit /\ \A q \in Node : NodeInv(q)
      /\ main = "ended" /\ main' = "notify_local"
      /\ chan' = Sent(Coordinator, NotifyMsg("client"))
      /\ UNCHANGED <<wait_on, tasks, unsent, runs, results, dirty, taken, seen>>
  BY DEF CountInv, NodeInv, MainNotify, MainGoto, memoryVars
<1>2. /\ chan' \in [Node -> [Node -> Seq(Message)]]
      /\ \A p, q \in Node : \A m \in Counted :
           InFlight(p, q, m)' = InFlight(p, q, m)
             + IF p = Coordinator /\ q # Coordinator /\ m = NotifyMsg("client")
               THEN 1 ELSE 0
  BY <1>1, CountedMessages, MessageSent, CoordinatorAssumption DEF Counted
<1>3. /\ ~ First /\ Closed /\ ~ Opened /\ ~ Idle /\ main # "rearm"
      /\ ~ First' /\ ~ Closed' /\ Opened' /\ ~ Idle' /\ main' # "rearm"
  BY <1>1 DEF First, Closed, Opened, Idle
<1>4. MessagesFit'
  BY <1>1, CountedMessages, FitSent, CoordinatorAssumption DEF Counted
<1>5. TypeOK'
  BY <1>1, <1>2 DEF TypeOK
<1>6. /\ TaskMsg \in Counted /\ TaskMsg # NotifyMsg("client")
      /\ NotifyMsg("client") \in Counted /\ NotifyMsg("client") # NotifyMsg("completion")
      /\ NotifyMsg("completion") \in Counted
  BY CountedMessages DEF Counted
<1>7. \A q, r \in Node : \A m \in Counted :
        InFlight(q, r, m) \in Nat /\ InFlight(q, r, m)' \in Nat
  BY <1>1, <1>2, InFlightCounts DEF TypeOK
<1>8. ASSUME NEW n \in Node PROVE NodeInv(n)'
  <2>1. TasksCounted(n) /\ EntriesMatch(n) /\ ClientBarrier(n)
    BY <1>1 DEF NodeInv
  <2>2. /\ InFlight(Coordinator, n, TaskMsg) \in Nat
        /\ InFlight(Coordinator, n, NotifyMsg("client")) \in Nat
        /\ InFlight(n, Coordinator, NotifyMsg("completion")) \in Nat
    BY <1>6, <1>7, CoordinatorAssumption
  <2>3. /\ InFlight(Coordinator, n, TaskMsg)' = InFlight(Coordinator, n, TaskMsg) + 0
        /\ InFlight(Coordinator, n, NotifyMsg("client"))'
             = InFlight(Coordinator, n, NotifyMsg("client"))
                 + IF n = Coordinator THEN 0 ELSE 1
        /\ InFlight(n, Coordinator, NotifyMsg("completion"))'
             = InFlight(n, Coordinator, NotifyMsg("completion")) + 0
    BY <1>2, <1>6, CoordinatorAssumption
  <2>4. /\ InFlight(Coordinator, n, TaskMsg)' = InFlight(Coordinator, n, TaskMsg)
        /\ Completions(n)' = Completions(n)
        /\ n # Coordinator => Openings(n)' = Openings(n) + 1
    BY <2>2, <2>3 DEF Completions, Openings
  <2>5. /\ Notifying(n)' = Notifying(n) /\ Writing(n)' = Writing(n)
        /\ ToCompute(n)' = ToCompute(n) /\ Computed(n)' = Computed(n)
    BY <1>1, <2>4 DEF Notifying, Writing, ToCompute, Computed
  <2>6. /\ ToCompute(n) = 0 /\ ToCompute(n) + Computed(n) = ThreadsPerNode
        /\ Notifying(n) = 0 /\ Writing(n) = 0
        /\ n = Coordinator => tasks[n].notified = 0
        /\ Openings(n) = 0
        /\ wait_on["completion"][Coordinator][n] = ToNotify(n)
    BY <2>1, <1>1, <1>3 DEF TasksCounted, EntriesMatch, ClientBarrier
  <2>7. Computed(n) = ThreadsPerNode /\ tasks[n].computing + Computed(n) > 0
    <3>1. Computed(n) \in Nat /\ tasks[n].computing \in Nat
      BY <1>1, NodeNumbers
    <3> QED BY <3>1, <2>6, ThreadsAssumption
  <2>8. ClientEntry(n) = 1
    BY <2>1, <2>7, <1>3 DEF ClientBarrier
  <2>9. Shut(n) /\ Shut(n)'
    BY <2>5, <2>6, <2>7, <2>8, <1>1 DEF Shut, ClientEntry
  <2>10. ToNotify(n)' = ToNotify(n)
    BY <2>4, <2>5, <1>1, <1>3, NotifySums
  <2>11. TasksCounted(n)'
    BY <2>5, <2>6, <1>1, <1>3 DEF TasksCounted
  <2>12. EntriesMatch(n)'
    BY <2>6, <2>10, <1>1, <1>3 DEF EntriesMatch
  <2>13. ClientBarrier(n)'
    <3>1. \A p \in Node : p # Coordinator => wait_on'["client"][n][p] = 0
      BY <2>1, <1>1 DEF ClientBarrier
    <3>2. n # Coordinator => Openings(n)' = 1
      BY <2>4, <2>6
    <3> QED BY <3>1, <3>2, <2>9, <1>1, <1>3 DEF ClientBarrier
  <2> QED BY <2>11, <2>12, <2>13 DEF NodeInv
<1> QED BY <1>4, <1>5, <1>8 DEF CountInv, NodeInv

\* The coordinator opens its own client barrier.
LEMMA CountMainNotifyLocal ==
  ASSUME CountInv, MainNotifyLocal
  PROVE  CountInv'
<1> DEFINE n == Coordinator
<1>1. /\ TypeOK /\ MessagesFit /\ \A q \in Node : NodeInv(q)
      /\ main = "notify_local" /\ main' = "waiting2"
      /\ wait_on' = Replied("client", n, n)
      /\ tasks' = Woken("client", n, tasks)
      /\ UNCHANGED <<chan, unsent, runs, results, dirty, taken, seen>>
  BY DEF CountInv, NodeInv, MainNotifyLocal, MainGoto, memoryVars
<1>2. n \in Node
  BY CoordinatorAssumption
<1> HIDE DEF n
<1>3. /\ tasks' \in [Node -> [Stage -> Nat]]
      /\ \A q \in Node : q # n => tasks'[q] = tasks[q]
      /\ tasks'[n].waiting + tasks'[n].asleep = tasks[n].waiting + tasks[n].asleep
      /\ \A x \in Stage : x \notin {"waiting", "asleep"} =>
           tasks'[n][x] = tasks[n][x]
  BY <1>1, <1>2, WokenProperties DEF Barriers
<1>4. /\ wait_on' \in [Barriers -> [Node -> [Node -> Nat]]]
      /\ wait_on'["client"][n][n] = IF wait_on["client"][n][n] > 0
                                    THEN wait_on["client"][n][n] - 1
                                    ELSE wait_on["client"][n][n]
      /\ \A c \in Barriers : \A m, q \in Node :
           c # "client" \/ m # n \/ q # n => wait_on'[c][m][q] = wait_on[c][m][q]
  BY <1>1, <1>2, RepliedProperties DEF Barriers
<1>5. /\ ~ First /\ ~ Closed /\ Opened /\ ~ Idle /\ main # "rearm"
      /\ ~ First' /\ ~ Closed' /\ Opened' /\ ~ Idle' /\ main' # "rearm"
  BY <1>1 DEF First, Closed, Opened, Idle
<1>6. TypeOK'
  BY <1>1, <1>3, <1>4 DEF TypeOK
<1>7. MessagesFit' /\ \A p, q, m : InFlight(p, q, m)' = InFlight(p, q, m)
  BY <1>1, ChannelsKept
<1>8. \A q \in Node : Completions(q)' = Completions(q) /\ Openings(q)' = Openings(q)
  BY <1>7 DEF Completions, Openings
<1>9. ASSUME NEW q \in Node, q # n PROVE NodeInv(q)'
  <2>1. TasksCounted(q) /\ EntriesMatch(q) /\ ClientBarrier(q) /\ q # Coordinator
    BY <1>1, <1>9 DEF NodeInv, n
  <2>2. /\ tasks'[q] = tasks[q] /\ unsent'[q] = unsent[q]
        /\ Notifying(q)' = Notifying(q) /\ Writing(q)' = Writing(q)
    BY <1>1, <1>3, <1>9 DEF Notifying, Writing
  <2>3. ToCompute(q)' = ToCompute(q) /\ Computed(q)' = Computed(q)
    BY <1>7, <2>2 DEF ToCompute, Computed
  <2>4. /\ wait_on'["completion"][Coordinator][q] = wait_on["completion"][Coordinator][q]
        /\ \A r \in Node : wait_on'["client"][q][r] = wait_on["client"][q][r]
    BY <1>4, <1>9, CoordinatorAssumption DEF Barriers
  <2>5. ClientEntry(q)' = ClientEntry(q)
    BY <2>4, CoordinatorAssumption DEF ClientEntry
  <2>6. ToNotify(q)' = ToNotify(q)
    BY <2>2, <1>5, <1>8, NotifySums
  <2>7. TasksCounted(q)'
    BY <2>1, <2>2, <2>3, <1>5 DEF TasksCounted
  <2>8. EntriesMatch(q)'
    BY <2>1, <2>4, <2>6, <1>5 DEF EntriesMatch
  <2>9. ClientBarrier(q)'
    BY <2>1, <2>2, <2>3, <2>4, <2>5, <1>5, <1>8 DEF ClientBarrier, Shut
  <2> QED BY <2>7, <2>8, <2>9 DEF NodeInv
<1>10. NodeInv(n)'
  <2>1. TasksCounted(n) /\ EntriesMatch(n) /\ ClientBarrier(n)
    BY <1>1, <1>2 DEF NodeInv
  <2>2. /\ tasks'[n].started = tasks[n].started /\ tasks'[n].computing = tasks[n].computing
        /\ Notifying(n)' = Notifying(n) /\ tasks'[n].notified = tasks[n].notified
        /\ Writing(n)' = Writing(n)
        /\ tasks'[n].finishing = tasks[n].finishing /\ unsent'[n] = unsent[n]
    BY <1>1, <1>3 DEF Stage, Notifying, Writing
  <2>3. /\ Notifying(n) \in Nat /\ tasks[n].notified \in Nat
        /\ tasks[n].waiting \in Nat /\ tasks[n].asleep \in Nat
        /\ tasks'[n].waiting \in Nat /\ tasks'[n].asleep \in Nat
        /\ Writing(n) \in Nat
        /\ tasks[n].finishing \in Nat /\ Completions(n) \in Nat
    BY <1>1, <1>2, <1>3, NodeNumbers DEF Stage
  <2>4. ToCompute(n)' = ToCompute(n)
    BY <1>7, <2>2 DEF ToCompute
  <2>5. Computed(n)' = Computed(n)
    <3>1. Computed(n)' = Notifying(n)' + tasks'[n].notified + tasks'[n].waiting
                           + tasks'[n].asleep
      BY DEF Computed
    <3>2. Computed(n)' = Notifying(n) + tasks[n].notified + tasks'[n].waiting
                           + tasks'[n].asleep
      BY <3>1, <2>2
    <3>3. tasks'[n].waiting + tasks'[n].asleep = tasks[n].waiting + tasks[n].asleep
      BY <1>3
    <3> QED BY <3>2, <3>3, <2>3 DEF Computed
  <2>6. ToNotify(n)' = ToNotify(n)
    <3>1. /\ ToNotify(n) = Completions(n) + (tasks[n].waiting + tasks[n].asleep
               + Writing(n) + tasks[n].finishing)
          /\ ToNotify(n)' = Completions(n)' + (tasks'[n].waiting + tasks'[n].asleep
               + Writing(n)' + tasks'[n].finishing)
      BY <1>2, <1>5, NotifySums DEF n
    <3>2. Completions(n)' = Completions(n)
      BY <1>2, <1>8
    <3> QED BY <3>1, <3>2, <2>2, <2>3, <1>3
  <2>7. TasksCounted(n)'
    BY <2>1, <2>2, <2>4, <2>5, <1>5 DEF TasksCounted
  <2>8. EntriesMatch(n)'
    <3>1. wait_on'["completion"][Coordinator][n] = wait_on["completion"][Coordinator][n]
      BY <1>2, <1>4, CoordinatorAssumption DEF Barriers
    <3> QED BY <3>1, <2>1, <2>6, <1>5 DEF EntriesMatch
  <2>9. ClientBarrier(n)'
    <3>1. Shut(n)
      BY <2>1, <1>1, <1>5 DEF ClientBarrier, n
    <3>2. ClientEntry(n)' = 0
      BY <3>1, <1>4 DEF Shut, ClientEntry, n
    <3>3. \A q \in Node : q # Coordinator => wait_on'["client"][n][q] = 0
      BY <2>1, <1>2, <1>4 DEF ClientBarrier, Barriers, n
    <3> QED BY <3>2, <3>3, <1>1, <1>5 DEF ClientBarrier, n
  <2> QED BY <2>7, <2>8, <2>9 DEF NodeInv
<1> QED BY <1>6, <1>7, <1>9, <1>10 DEF CountInv, NodeInv

----------------------------------------------------------------------------
(***************************************************************************)
(* The counts are right in every reachable state                           *)
(***************************************************************************)
\* Before the first run there is nothing to count.
LEMMA CountInit == Init => CountInv
<1> SUFFICES ASSUME Init PROVE CountInv
  OBVIOUS
<1>1. TypeOK
  BY MaxRunsAssumption DEF TypeOK, Init, NoEntry
<1>2. MessagesFit
  BY DEF MessagesFit, Init
<1>3. Idle /\ ~ First /\ ~ Closed /\ ~ Opened
  BY DEF Init, Idle, First, Closed, Opened
<1>4. ASSUME NEW n \in Node PROVE NodeInv(n)
  <2>1. /\ InFlight(Coordinator, n, TaskMsg) = 0
        /\ Completions(n) = 0 /\ Openings(n) = 0
    <3>1. chan[Coordinator][n] = << >> /\ chan[n][Coordinator] = << >>
      BY CoordinatorAssumption DEF Init
    <3> QED BY <3>1, <1>1, InFlightCount, CoordinatorAssumption DEF Completions, Openings
  <2>2. /\ tasks[n].started = 0 /\ tasks[n].computing = 0 /\ Notifying(n) = 0
        /\ tasks[n].notified = 0 /\ tasks[n].waiting = 0 /\ tasks[n].asleep = 0
        /\ Writing(n) = 0 /\ tasks[n].finishing = 0
        /\ unsent[n] = 0
    BY DEF Init, Stage, NoEntry, Notifying, Writing
  <2>3. ToCompute(n) = 0 /\ Computed(n) = 0
    BY <2>1, <2>2 DEF ToCompute, Computed
  <2>4. \A p \in Node : wait_on["client"][n][p] = 0
    BY DEF Init, Barriers, NoEntry
  <2>5. TasksCounted(n)
    BY <2>2, <2>3, <1>3 DEF TasksCounted
  <2>6. EntriesMatch(n)
    BY <2>1, <1>3 DEF EntriesMatch
  <2>7. ClientBarrier(n)
    BY <2>1, <2>4, <1>3 DEF ClientBarrier
  <2> QED BY <2>5, <2>6, <2>7 DEF NodeInv
<1> QED BY <1>1, <1>2, <1>4 DEF CountInv, NodeInv

\* The steps of a task keep the counts.
LEMMA CountTask ==
  ASSUME CountInv, NEW n \in Node, Task(n)
  PROVE  CountInv'
<1>1. CASE TaskWait(n)
  BY <1>1, CountWaitThrough, CountWaitAsleep
<1> QED BY <1>1, CountTaskArm, CountTaskCompute, CountTaskTxEnd, CountTaskNotify, CountTaskNotifyLocal,
           CountTaskWrite, CountTaskNotifyLast, CountTaskEnd DEF Task

\* The steps of a listener keep the counts.
LEMMA CountHandle ==
  ASSUME CountInv, NEW n \in Node, NEW p \in Node, Handle(n, p)
  PROVE  CountInv'
<1>1. CASE HandleNotify(n, p)
  <2>1. /\ chan[p][n] # << >> /\ Head(chan[p][n]).type = "NOTIFY"
        /\ TypeOK /\ chan' = Received(p, n)
    BY <1>1 DEF HandleNotify, CountInv
  <2>2. Head(chan[p][n]) \in Message
    BY <2>1, MessageTaken
  <2>3. Head(chan[p][n]).barrier \in Barriers
    BY <2>1, <2>2, CountedMessages
  <2> QED BY <1>1, <2>3, CountNotifyCompletion, CountNotifyClient DEF Barriers
<1> QED BY <1>1, CountHandleTask, CountHandleDiff DEF Handle

\* All steps keep the counts.
LEMMA CountNext ==
  ASSUME CountInv, [Next]_vars
  PROVE  CountInv'
<1>1. CASE MainArm
  BY <1>1, CountMainArm
<1>2. CASE Run
  BY <1>2, CountMainSendTask, CountMainTasksSent, CountMainWait, CountMainRearm,
     CountMainTxEnd, CountMainNotify, CountMainNotifyLocal, CountMainReturn DEF Run
<1>3. ASSUME NEW n \in Node, Task(n) \/ SendDiff(n) PROVE CountInv'
  BY <1>3, CountTask, CountSendDiff
<1>4. ASSUME NEW n \in Node, NEW p \in Node, Handle(n, p) PROVE CountInv'
  BY <1>4, CountHandle
<1>5. CASE UNCHANGED vars
  <2>1. main \in MainValues
    BY DEF CountInv, TypeOK, MainValues
  <2>2. /\ UNCHANGED <<chan, wait_on, tasks, unsent, runs, results, dirty, taken, seen>>
        /\ main' = main
    BY <1>5 DEF vars, memoryVars
  <2>3. SameStage
    BY <2>1, <2>2 DEF SameStage, First, Closed, Opened, Idle
  <2> QED BY <2>2, <2>3, CountStageKept
<1> QED BY <1>1, <1>2, <1>3, <1>4, <1>5 DEF Next

\* The counting invariant holds in every reachable state.
THEOREM CountsHold == Spec => []CountInv
<1>1. Init => CountInv
  BY CountInit
<1>2. CountInv /\ [Next]_vars => CountInv'
  BY CountNext
<1> QED BY <1>1, <1>2, PTL DEF Spec

\* The lists of the reply waiters and the numbers of tasks stay natural numbers:
\* no entry is counted off a list that has none, no stage is left by a task that
\* is not there.
THEOREM BarrierTypeCorrect == Spec => []TypeOK
<1>1. CountInv => TypeOK
  BY DEF CountInv
<1> QED BY <1>1, CountsHold, PTL

\* Whenever run_simulation waits, its list has for every node as many entries as
\* notifications of the phase are to come from the node.
THEOREM NotificationsCounted == Spec => []NotificationsMatch
<1>1. CountInv => NotificationsMatch
  BY DEF CountInv, NotificationsMatch, EntriesMatch, Idle
<1> QED BY <1>1, CountsHold, PTL

----------------------------------------------------------------------------
(***************************************************************************)
(* The two phases of a run                                                 *)
(***************************************************************************)

\* Neither the phase of the run nor what its tasks have still to do has changed.
SamePhase ==
  /\ main \in MainValues /\ main' \in MainValues
  /\ First' <=> First
  /\ main' = "reading" <=> main = "reading"
  /\ main' = "out" <=> main = "out"

Written(n) ==
  /\ ToWrite(n)' = ToWrite(n) - 1
  /\ \A q \in Node : q # n => ToWrite(q)' = ToWrite(q)

WritingKept == \A n \in Node : ToWrite(n)' = ToWrite(n)

SameSums ==
  \A n \in Node : ToCompute(n)' = ToCompute(n) /\ ToWrite(n)' = ToWrite(n)

\* A broadcast does not change the phase of the run.
LEMMA PhaseKept ==
  ASSUME TypeOK,
         main' = main \/ \E b \in Barriers, n \in Node : main' = MainWoken(b, n)
  PROVE  SamePhase
<1>1. main \in MainValues
  BY DEF TypeOK, MainValues
<1>2. \/ main' = main
      \/ main = "asleep1" /\ main' = "waiting1"
      \/ main = "asleep2" /\ main' = "waiting2"
  BY DEF MainWoken
<1> QED BY <1>1, <1>2 DEF SamePhase, First, MainValues

\* Such a step is no step of the computation.
LEMMA Stuttering ==
  ASSUME SamePhase, SameSums
  PROVE  UNCHANGED Computation!vars
<1>1. /\ [n \in Node |-> ToCompute(n)]' = [n \in Node |-> ToCompute(n)]
      /\ [n \in Node |-> ToWrite(n)]' = [n \in Node |-> ToWrite(n)]
  BY DEF SameSums
<1> QED BY <1>1 DEF Computation!vars, SamePhase, First, MainValues

\* A task that goes on within what it has still to do.
LEMMA SumsMoved ==
  ASSUME TypeOK, NEW n \in Node, NEW s \in Stage, NEW t \in Stage,
         s # t, tasks[n][s] > 0, tasks' = Moved(n, s, t), unsent' = unsent,
         \A q \in Node :
           InFlight(Coordinator, q, TaskMsg)' = InFlight(Coordinator, q, TaskMsg),
         \/ <<s, t>> \in {<<"started", "computing">>, <<"ended", "notified">>,
                          <<"notified", "waiting">>, <<"waiting", "asleep">>,
                          <<"waiting", "writing">>}
         \/ {s, t} \subseteq {"computed", "ending", "ended"}
         \/ {s, t} \subseteq {"written", "ending_last", "ended_last", "finishing"}
  PROVE  SameSums
<1>1. /\ tasks' \in [Node -> [Stage -> Nat]]
      /\ tasks'[n][s] = tasks[n][s] - 1 /\ tasks'[n][t] = tasks[n][t] + 1
      /\ \A x \in Stage : x # s /\ x # t => tasks'[n][x] = tasks[n][x]
      /\ \A p \in Node : p # n => tasks'[p] = tasks[p]
  BY MovedProperties
<1>2. ASSUME NEW q \in Node, q # n
      PROVE  ToCompute(q)' = ToCompute(q) /\ ToWrite(q)' = ToWrite(q)
  <2>1. tasks'[q] = tasks[q] /\ unsent'[q] = unsent[q]
    BY <1>1, <1>2
  <2>2. ToCompute(q)' = ToCompute(q) /\ Computed(q)' = Computed(q)
    BY <2>1 DEF ToCompute, Computed, Notifying
  <2> QED BY <2>1, <2>2 DEF ToWrite
<1>3. /\ tasks[n].started \in Nat /\ tasks[n].computing \in Nat
      /\ tasks[n].computed \in Nat /\ tasks[n].ending \in Nat
      /\ tasks[n].ended \in Nat /\ Notifying(n) \in Nat /\ tasks[n].notified \in Nat
      /\ tasks[n].waiting \in Nat /\ tasks[n].asleep \in Nat
      /\ tasks[n].writing \in Nat /\ unsent[n] \in Nat
      /\ InFlight(Coordinator, n, TaskMsg) \in Nat
  BY NodeNumbers
<1>4. unsent'[n] = unsent[n]
      /\ InFlight(Coordinator, n, TaskMsg)' = InFlight(Coordinator, n, TaskMsg)
  OBVIOUS
<1>5. ToCompute(n)' = ToCompute(n)
  <2>1. CASE s = "started" /\ t = "computing"
    <3>1. /\ tasks'[n].started = tasks[n].started - 1
          /\ tasks'[n].computing = tasks[n].computing + 1
      BY <1>1, <2>1
    <3> QED BY <3>1, <1>3, <1>4 DEF ToCompute
  <2>2. CASE s # "started" /\ t # "computing"
    <3>1. /\ tasks'[n].started = tasks[n].started
          /\ tasks'[n].computing = tasks[n].computing
      BY <1>1, <2>2 DEF Stage
    <3> QED BY <3>1, <1>4 DEF ToCompute
  <2> QED BY <2>1, <2>2
<1>6. Computed(n)' + tasks'[n].writing = Computed(n) + tasks[n].writing
  <2>1. CASE \/ s = "started" /\ t = "computing"
             \/ {s, t} \subseteq {"written", "ending_last", "ended_last", "finishing"}
    <3>1. /\ Notifying(n)' = Notifying(n) /\ tasks'[n].notified = tasks[n].notified
          /\ tasks'[n].waiting = tasks[n].waiting /\ tasks'[n].asleep = tasks[n].asleep
          /\ tasks'[n].writing = tasks[n].writing
      BY <1>1, <2>1 DEF Stage, Notifying
    <3> QED BY <3>1 DEF Computed
  <2>2. CASE s = "ended" /\ t = "notified"
    <3>1. /\ tasks'[n].computed = tasks[n].computed /\ tasks'[n].ending = tasks[n].ending
          /\ tasks'[n].ended = tasks[n].ended - 1
          /\ tasks'[n].notified = tasks[n].notified + 1
          /\ tasks'[n].waiting = tasks[n].waiting /\ tasks'[n].asleep = tasks[n].asleep
          /\ tasks'[n].writing = tasks[n].writing
      BY <1>1, <2>2 DEF Stage
    <3> QED BY <3>1, <1>3 DEF Notifying, Computed
  <2>3. CASE s = "notified" /\ t = "waiting"
    <3>1. /\ Notifying(n)' = Notifying(n)
          /\ tasks'[n].notified = tasks[n].notified - 1
          /\ tasks'[n].waiting = tasks[n].waiting + 1 /\ tasks'[n].asleep = tasks[n].asleep
          /\ tasks'[n].writing = tasks[n].writing
      BY <1>1, <2>3 DEF Stage, Notifying
    <3> QED BY <3>1, <1>3 DEF Computed
  <2>4. CASE s = "waiting" /\ t = "asleep"
    <3>1. /\ Notifying(n)' = Notifying(n) /\ tasks'[n].notified = tasks[n].notified
          /\ tasks'[n].waiting = tasks[n].waiting - 1
          /\ tasks'[n].asleep = tasks[n].asleep + 1
          /\ tasks'[n].writing = tasks[n].writing
      BY <1>1, <2>4 DEF Stage, Notifying
    <3> QED BY <3>1, <1>3 DEF Computed
  <2>5. CASE s = "waiting" /\ t = "writing"
    <3>1. /\ Notifying(n)' = Notifying(n) /\ tasks'[n].notified = tasks[n].notified
          /\ tasks'[n].waiting = tasks[n].waiting - 1 /\ tasks'[n].asleep = tasks[n].asleep
          /\ tasks'[n].writing = tasks[n].writing + 1
      BY <1>1, <2>5 DEF Stage, Notifying
    <3>2. Computed(n)' = Notifying(n) + tasks[n].notified + (tasks[n].waiting - 1)
                           + tasks[n].asleep
      BY <3>1 DEF Computed
    <3>3. Computed(n) = Notifying(n) + tasks[n].notified + tasks[n].waiting
                          + tasks[n].asleep
      BY DEF Computed
    <3> QED BY <3>1, <3>2, <3>3, <1>3
  <2>6. CASE {s, t} \subseteq {"computed", "ending", "ended"}
    <3>1. /\ Notifying(n)' = Notifying(n) /\ tasks'[n].notified = tasks[n].notified
          /\ tasks'[n].waiting = tasks[n].waiting /\ tasks'[n].asleep = tasks[n].asleep
          /\ tasks'[n].writing = tasks[n].writing
      BY <1>1, <2>6, NotifyingWithin DEF Stage
    <3> QED BY <3>1 DEF Computed
  <2> QED BY <2>1, <2>2, <2>3, <2>4, <2>5, <2>6
<1>7. ToWrite(n)' = ToWrite(n)
  <2>1. /\ ToCompute(n) \in Nat /\ Computed(n) \in Nat
        /\ ToCompute(n)' \in Nat /\ Computed(n)' \in Int /\ tasks'[n].writing \in Int
    <3>1. tasks'[n] \in [Stage -> Nat]
      BY <1>1
    <3>2. /\ tasks'[n].computed \in Nat /\ tasks'[n].ending \in Nat
          /\ tasks'[n].ended \in Nat /\ tasks'[n].notified \in Nat
          /\ tasks'[n].waiting \in Nat /\ tasks'[n].asleep \in Nat
          /\ tasks'[n].writing \in Nat
      BY <3>1 DEF Stage
    <3>3. Computed(n)' \in Nat
      BY <3>2 DEF Computed, Notifying
    <3> QED BY <3>2, <3>3, <1>5, NodeNumbers
  <2> QED BY <2>1, <1>3, <1>5, <1>6 DEF ToWrite
<1> QED BY <1>2, <1>5, <1>7 DEF SameSums

\* Neither a notification nor a diff is a task.
LEMMA TasksInFlight ==
  ASSUME TypeOK
  PROVE  /\ chan' = chan => \A q \in Node :
              InFlight(Coordinator, q, TaskMsg)' = InFlight(Coordinator, q, TaskMsg)
         /\ \A n \in Node, m \in Message : m # TaskMsg /\ chan' = Sent(n, m) =>
              \A q \in Node :
                InFlight(Coordinator, q, TaskMsg)' = InFlight(Coordinator, q, TaskMsg)
         /\ \A n, p \in Node :
              chan[p][n] # << >> /\ Head(chan[p][n]).type # "TASK"
                /\ chan' = Received(p, n) =>
              \A q \in Node :
                InFlight(Coordinator, q, TaskMsg)' = InFlight(Coordinator, q, TaskMsg)
<1>1. TaskMsg \in Counted /\ TaskMsg.type = "TASK"
      /\ \A b \in Barriers : TaskMsg # NotifyMsg(b)
  BY CountedMessages DEF Counted, Barriers, TaskMsg
<1>2. \A q \in Node : InFlight(Coordinator, q, TaskMsg) \in Nat
  BY InFlightCount, CoordinatorAssumption
<1>3. ASSUME chan' = chan, NEW q \in Node
      PROVE  InFlight(Coordinator, q, TaskMsg)' = InFlight(Coordinator, q, TaskMsg)
  BY <1>3 DEF InFlight
<1>4. ASSUME NEW n \in Node, NEW m \in Message, m # TaskMsg, chan' = Sent(n, m),
             NEW q \in Node
      PROVE  InFlight(Coordinator, q, TaskMsg)' = InFlight(Coordinator, q, TaskMsg)
  <2>1. InFlight(Coordinator, q, TaskMsg)' = InFlight(Coordinator, q, TaskMsg)
          + IF Coordinator = n /\ q # n /\ m = TaskMsg THEN 1 ELSE 0
    BY <1>1, <1>4, MessageSent, CoordinatorAssumption
  <2>2. InFlight(Coordinator, q, TaskMsg)' = InFlight(Coordinator, q, TaskMsg) + 0
    BY <2>1, <1>4
  <2> QED BY <2>2, <1>2
<1>5. ASSUME NEW n \in Node, NEW p \in Node, chan[p][n] # << >>,
             Head(chan[p][n]).type # "TASK", chan' = Received(p, n), NEW q \in Node
      PROVE  InFlight(Coordinator, q, TaskMsg)' = InFlight(Coordinator, q, TaskMsg)
  <2>1. TaskMsg # Head(chan[p][n])
    BY <1>1, <1>5
  <2> QED BY <2>1, <1>1, <1>5, MessageTaken, CoordinatorAssumption
<1> QED BY <1>3, <1>4, <1>5

\* A broadcast wakes the waiting tasks: they have still to do what they had.
LEMMA SumsWoken ==
  ASSUME TypeOK, NEW b \in Barriers, NEW n \in Node,
         tasks' = Woken(b, n, tasks), unsent' = unsent,
         \A q \in Node :
           InFlight(Coordinator, q, TaskMsg)' = InFlight(Coordinator, q, TaskMsg)
  PROVE  SameSums
<1>1. /\ tasks' \in [Node -> [Stage -> Nat]]
      /\ \A p \in Node : p # n => tasks'[p] = tasks[p]
      /\ tasks'[n].waiting + tasks'[n].asleep = tasks[n].waiting + tasks[n].asleep
      /\ \A x \in Stage : x \notin {"waiting", "asleep"} => tasks'[n][x] = tasks[n][x]
  BY WokenProperties
<1>2. ASSUME NEW q \in Node
      PROVE  ToCompute(q)' = ToCompute(q) /\ ToWrite(q)' = ToWrite(q)
  <2>1. /\ tasks'[q].started = tasks[q].started /\ tasks'[q].computing = tasks[q].computing
        /\ Notifying(q)' = Notifying(q) /\ tasks'[q].notified = tasks[q].notified
        /\ tasks'[q].writing = tasks[q].writing
        /\ tasks'[q].waiting + tasks'[q].asleep = tasks[q].waiting + tasks[q].asleep
    BY <1>1 DEF Stage, Notifying
  <2>2. /\ Notifying(q) \in Nat /\ tasks[q].notified \in Nat
        /\ tasks[q].waiting \in Nat /\ tasks[q].asleep \in Nat
        /\ tasks'[q].waiting \in Nat /\ tasks'[q].asleep \in Nat
    BY <1>1, NodeNumbers DEF Stage
  <2>3. ToCompute(q)' = ToCompute(q)
    BY <2>1 DEF ToCompute
  <2>4. Computed(q)' = Computed(q)
    <3>1. Computed(q)' = Notifying(q)' + tasks'[q].notified + tasks'[q].waiting
                           + tasks'[q].asleep
      BY DEF Computed
    <3> QED BY <3>1, <2>1, <2>2 DEF Computed
  <2> QED BY <2>1, <2>3, <2>4 DEF ToWrite
<1> QED BY <1>2 DEF SameSums

\* A step of a task is a step of the computation, or none.
LEMMA PhaseTask ==
  ASSUME CountInv, CountInv', NEW n \in Node, Task(n)
  PROVE  /\ [Computation!Next]_(Computation!vars)
         /\ IF TaskWrite(n) THEN Written(n) ELSE WritingKept
<1>1. /\ TypeOK /\ \A q \in Node : NodeInv(q) /\ "started" \in Stage /\ "computing" \in Stage
      /\ "computed" \in Stage /\ "notified" \in Stage /\ "waiting" \in Stage
      /\ "asleep" \in Stage /\ "writing" \in Stage /\ "written" \in Stage
      /\ "finishing" \in Stage /\ "ending" \in Stage /\ "ended" \in Stage
      /\ "ending_last" \in Stage /\ "ended_last" \in Stage
  BY DEF CountInv, NodeInv, Stage
<1>2. TasksCounted(n) /\ main \in MainValues
  BY <1>1 DEF NodeInv, TypeOK, MainValues
<1>3. ASSUME TaskArm(n)
      PROVE  [Computation!Next]_(Computation!vars) /\ WritingKept
  <2>1. SamePhase
    BY <1>1, <1>3, PhaseKept DEF TaskArm
  <2>2. SameSums
    BY <1>1, <1>3, SumsMoved, TasksInFlight DEF TaskArm
  <2> QED BY <2>1, <2>2, Stuttering DEF SameSums, WritingKept
<1>4. ASSUME TaskCompute(n)
      PROVE  [Computation!Next]_(Computation!vars) /\ WritingKept
  <2>1. /\ tasks[n].computing > 0 /\ tasks' = Moved(n, "computing", "computed")
        /\ UNCHANGED <<chan, wait_on, main, unsent, runs, results, dirty, taken, seen>>
    BY <1>4 DEF TaskCompute, memoryVars
  <2>2. /\ tasks' \in [Node -> [Stage -> Nat]]
        /\ tasks'[n].computing = tasks[n].computing - 1
        /\ tasks'[n].computed = tasks[n].computed + 1
        /\ \A x \in Stage : x # "computing" /\ x # "computed" => tasks'[n][x] = tasks[n][x]
        /\ \A p \in Node : p # n => tasks'[p] = tasks[p]
    BY <1>1, <2>1, MovedProperties
  <2>3. /\ tasks[n].started \in Nat /\ tasks[n].computing \in Nat
        /\ Notifying(n) \in Nat /\ tasks[n].notified \in Nat
        /\ tasks[n].waiting \in Nat /\ tasks[n].asleep \in Nat
        /\ tasks[n].writing \in Nat /\ unsent[n] \in Nat
        /\ InFlight(Coordinator, n, TaskMsg) \in Nat
        /\ ToCompute(n) \in Nat /\ Computed(n) \in Nat
    BY <1>1, NodeNumbers
  <2>4. \A q \in Node : InFlight(Coordinator, q, TaskMsg)' = InFlight(Coordinator, q, TaskMsg)
    BY <1>1, <2>1, TasksInFlight
  <2>5. /\ Notifying(n)' = Notifying(n) + 1
        /\ tasks'[n].started = tasks[n].started /\ tasks'[n].notified = tasks[n].notified
        /\ tasks'[n].waiting = tasks[n].waiting /\ tasks'[n].asleep = tasks[n].asleep
        /\ tasks'[n].writing = tasks[n].writing
    BY <1>1, <2>2, NodeNumbers DEF Stage, Notifying
  <2>6. ToCompute(n)' = ToCompute(n) - 1
    <3>1. /\ unsent'[n] = unsent[n]
          /\ InFlight(Coordinator, n, TaskMsg)' = InFlight(Coordinator, n, TaskMsg)
      BY <2>1, <2>4
    <3> QED BY <3>1, <2>2, <2>3, <2>5 DEF ToCompute
  <2>7. Computed(n)' = Computed(n) + 1
    <3>1. Computed(n)' = Notifying(n)' + tasks'[n].notified + tasks'[n].waiting
                           + tasks'[n].asleep
      BY DEF Computed
    <3> QED BY <3>1, <2>3, <2>5 DEF Computed
  <2>8. ToWrite(n)' = ToWrite(n)
    BY <2>3, <2>5, <2>6, <2>7 DEF ToWrite
  <2>9. ASSUME NEW q \in Node, q # n
        PROVE  ToCompute(q)' = ToCompute(q) /\ ToWrite(q)' = ToWrite(q)
    <3>1. tasks'[q] = tasks[q] /\ unsent'[q] = unsent[q]
      BY <2>1, <2>2, <2>9
    <3>2. ToCompute(q)' = ToCompute(q) /\ Computed(q)' = Computed(q)
      BY <3>1, <2>4 DEF ToCompute, Computed, Notifying
    <3> QED BY <3>1, <3>2 DEF ToWrite
  <2>10. ToCompute(n) > 0
    BY <2>1, <2>3 DEF ToCompute
  <2>11. First /\ main' = main
    BY <1>2, <2>1, <2>10 DEF TasksCounted
  <2>12. [q \in Node |-> ToCompute(q)]'
           = [[q \in Node |-> ToCompute(q)] EXCEPT ![n] = @ - 1]
    BY <2>6, <2>9
  <2>13. [q \in Node |-> ToWrite(q)]' = [q \in Node |-> ToWrite(q)]
    BY <2>8, <2>9
  <2>14. Computation!Compute(n)
    BY <2>10, <2>11, <2>12, <2>13 DEF Computation!Compute, First
  <2>15. WritingKept
    BY <2>8, <2>9 DEF WritingKept
  <2> QED BY <2>14, <2>15 DEF Computation!Next
<1>5. ASSUME TaskNotify(n)
      PROVE  [Computation!Next]_(Computation!vars) /\ WritingKept
  <2>1. SamePhase
    BY <1>1, <1>5, PhaseKept DEF TaskNotify
  <2>2. SameSums
    BY <1>1, <1>5, SumsMoved, TasksInFlight, CountedMessages DEF TaskNotify, Counted
  <2> QED BY <2>1, <2>2, Stuttering DEF SameSums, WritingKept
<1>6. ASSUME TaskNotifyLocal(n)
      PROVE  [Computation!Next]_(Computation!vars) /\ WritingKept
  <2>1. SamePhase
    BY <1>1, <1>6, PhaseKept DEF TaskNotifyLocal, Barriers
  <2>2. SameSums
    BY <1>1, <1>6, SumsMoved, TasksInFlight DEF TaskNotifyLocal
  <2> QED BY <2>1, <2>2, Stuttering DEF SameSums, WritingKept
<1>7. ASSUME TaskWait(n)
      PROVE  [Computation!Next]_(Computation!vars) /\ WritingKept
  <2>1. SamePhase
    BY <1>1, <1>7, PhaseKept DEF TaskWait
  <2>2. \/ tasks' = Moved(n, "waiting", "writing")
        \/ tasks' = Moved(n, "waiting", "asleep")
    BY <1>7 DEF TaskWait
  <2>3. SameSums
    BY <1>1, <1>7, <2>2, SumsMoved, TasksInFlight DEF TaskWait
  <2> QED BY <2>1, <2>3, Stuttering DEF SameSums, WritingKept
<1>8. ASSUME TaskWrite(n)
      PROVE  [Computation!Next]_(Computation!vars) /\ Written(n)
  <2>1. /\ tasks[n].writing > 0 /\ tasks' = Moved(n, "writing", "written")
        /\ UNCHANGED <<chan, wait_on, main, unsent, runs>>
    BY <1>8 DEF TaskWrite
  <2>2. /\ tasks' \in [Node -> [Stage -> Nat]]
        /\ tasks'[n].writing = tasks[n].writing - 1
        /\ \A x \in Stage : x # "writing" /\ x # "written" => tasks'[n][x] = tasks[n][x]
        /\ \A p \in Node : p # n => tasks'[p] = tasks[p]
    BY <1>1, <2>1, MovedProperties
  <2>3. /\ tasks[n].writing \in Nat /\ ToCompute(n) \in Nat /\ Computed(n) \in Nat
    BY <1>1, NodeNumbers
  <2>4. \A q \in Node : InFlight(Coordinator, q, TaskMsg)' = InFlight(Coordinator, q, TaskMsg)
    BY <1>1, <2>1, TasksInFlight
  <2>5. ToCompute(n)' = ToCompute(n) /\ Computed(n)' = Computed(n)
    <3>1. /\ tasks'[n].started = tasks[n].started /\ tasks'[n].computing = tasks[n].computing
          /\ Notifying(n)' = Notifying(n) /\ tasks'[n].notified = tasks[n].notified
          /\ tasks'[n].waiting = tasks[n].waiting /\ tasks'[n].asleep = tasks[n].asleep
      BY <2>2 DEF Stage, Notifying
    <3> QED BY <3>1, <2>1, <2>4 DEF ToCompute, Computed, Notifying
  <2>6. ToWrite(n)' = ToWrite(n) - 1 /\ ToWrite(n) > 0
    BY <2>1, <2>2, <2>3, <2>5 DEF ToWrite
  <2>7. ASSUME NEW q \in Node, q # n
        PROVE  ToCompute(q)' = ToCompute(q) /\ ToWrite(q)' = ToWrite(q)
    <3>1. tasks'[q] = tasks[q] /\ unsent'[q] = unsent[q]
      BY <2>1, <2>2, <2>7
    <3>2. ToCompute(q)' = ToCompute(q) /\ Computed(q)' = Computed(q)
      BY <3>1, <2>4 DEF ToCompute, Computed, Notifying
    <3> QED BY <3>1, <3>2 DEF ToWrite
  <2>8. ~ Closed /\ ~ Idle /\ main' = main
    BY <1>1, <1>2, <2>1, WritingZero DEF TasksCounted
  <2>9. [q \in Node |-> ToWrite(q)]'
          = [[q \in Node |-> ToWrite(q)] EXCEPT ![n] = @ - 1]
    BY <2>6, <2>7
  <2>10. [q \in Node |-> ToCompute(q)]' = [q \in Node |-> ToCompute(q)]
    BY <2>5, <2>7
  <2>11. Computation!Write(n)
    BY <2>6, <2>8, <2>9, <2>10 DEF Computation!Write, First, Closed, Idle
  <2> QED BY <2>6, <2>7, <2>11, <1>8 DEF Computation!Next, Written
<1>9. ASSUME TaskNotifyLast(n)
      PROVE  [Computation!Next]_(Computation!vars) /\ WritingKept
  <2>1. SamePhase
    BY <1>1, <1>9, PhaseKept DEF TaskNotifyLast
  <2>2. SameSums
    BY <1>1, <1>9, SumsMoved, TasksInFlight, CountedMessages DEF TaskNotifyLast, Counted
  <2> QED BY <2>1, <2>2, Stuttering DEF SameSums, WritingKept
<1>10. ASSUME TaskEnd(n)
      PROVE  [Computation!Next]_(Computation!vars) /\ WritingKept
  <2>1. SamePhase
    BY <1>1, <1>10, PhaseKept DEF TaskEnd, Barriers
  <2>2. /\ tasks[n].finishing > 0 /\ tasks' = Ended(n, "finishing")
        /\ UNCHANGED <<chan, unsent>>
    BY <1>10 DEF TaskEnd
  <2>3. /\ \A x \in Stage : x # "finishing" => tasks'[n][x] = tasks[n][x]
        /\ \A p \in Node : p # n => tasks'[p] = tasks[p]
    <3>1. tasks[n].finishing - 1 \in Nat
      <4>1. tasks[n].finishing \in Nat
        BY <1>1, NodeNumbers
      <4> QED BY <4>1, <2>2
    <3>2. tasks' = [tasks EXCEPT ![n]["finishing"] = tasks[n].finishing - 1]
      BY <2>2 DEF Ended
    <3> QED BY <3>1, <3>2, <1>1, StageChanged
  <2>4. SameSums
    <3>1. ASSUME NEW q \in Node
          PROVE  ToCompute(q)' = ToCompute(q) /\ ToWrite(q)' = ToWrite(q)
      <4>1. /\ InFlight(Coordinator, q, TaskMsg)' = InFlight(Coordinator, q, TaskMsg)
            /\ unsent' = unsent
        BY <1>1, <2>2, TasksInFlight
      <4>2. /\ tasks'[q].started = tasks[q].started
            /\ tasks'[q].computing = tasks[q].computing
            /\ Notifying(q)' = Notifying(q)
            /\ tasks'[q].notified = tasks[q].notified
            /\ tasks'[q].waiting = tasks[q].waiting /\ tasks'[q].asleep = tasks[q].asleep
            /\ tasks'[q].writing = tasks[q].writing
        BY <2>3 DEF Stage, Notifying
      <4>3. ToCompute(q)' = ToCompute(q) /\ Computed(q)' = Computed(q)
        BY <4>1, <4>2 DEF ToCompute, Computed, Notifying
      <4> QED BY <4>2, <4>3 DEF ToWrite
    <3> QED BY <3>1 DEF SameSums
  <2> QED BY <2>1, <2>4, Stuttering DEF SameSums, WritingKept
<1>11. ASSUME TaskTxEnd(n) \/ TaskTxEndLast(n)
       PROVE  [Computation!Next]_(Computation!vars) /\ WritingKept
  <2>1. SamePhase
    BY <1>1, <1>11, PhaseKept DEF TaskTxEnd, TaskTxEndLast
  <2>2. PICK s \in {"computed", "written"},
             t \in {"ending", "ended", "ending_last", "ended_last"} :
          /\ s = "computed" => t \in {"ending", "ended"}
          /\ s = "written" => t \in {"ending_last", "ended_last"}
          /\ tasks[n][s] > 0 /\ tasks' = Moved(n, s, t) /\ UNCHANGED <<chan, unsent>>
    BY <1>11 DEF TaskTxEnd, TaskTxEndLast, ToSend
  <2>3. SameSums
    BY <1>1, <2>2, SumsMoved, TasksInFlight
  <2> QED BY <2>1, <2>3, Stuttering DEF SameSums, WritingKept
<1> QED BY <1>3, <1>4, <1>5, <1>6, <1>7, <1>8, <1>9, <1>10, <1>11 DEF Task

\* To send a diff is no step of it.
LEMMA PhaseSendDiff ==
  ASSUME CountInv, NEW n \in Node, SendDiff(n)
  PROVE  UNCHANGED Computation!vars /\ WritingKept
<1>1. PICK diff \in taken[n] :
        /\ chan' = Sent(n, DiffMsg(diff.results)) /\ unsent' = unsent
        /\ \/ diff.by = "main" /\ MainGoto("ending", "ended") /\ tasks' = tasks
           \/ /\ diff.by # "main" /\ tasks[n][diff.by] > 0 /\ main' = main
              /\ tasks' = Moved(n, diff.by,
                                IF diff.by = "ending" THEN "ended" ELSE "ended_last")
  BY DEF SendDiff
<1>2. TypeOK
  BY DEF CountInv
<1>3. diff.by \in {"ending", "ending_last", "main"} /\ diff.results \in SUBSET Nat
  BY <1>2 DEF TypeOK, Diff
<1>4. \A q \in Node : InFlight(Coordinator, q, TaskMsg)' = InFlight(Coordinator, q, TaskMsg)
  BY <1>1, <1>2, <1>3, TasksInFlight, CountedMessages DEF Counted
<1>5. SamePhase
  <2>1. CASE main' = main
    BY <1>2, <2>1, PhaseKept
  <2>2. CASE MainGoto("ending", "ended")
    BY <2>2 DEF MainGoto, SamePhase, First, MainValues
  <2> QED BY <1>1, <2>1, <2>2
<1>6. SameSums
  <2>1. CASE tasks' = tasks
    BY <1>1, <1>4, <2>1 DEF SameSums, ToWrite, ToCompute, Computed, Notifying
  <2>2. CASE diff.by # "main"
    <3> DEFINE s == diff.by
               t == IF diff.by = "ending" THEN "ended" ELSE "ended_last"
    <3>1. /\ s \in Stage /\ t \in Stage /\ s # t
          /\ \/ {s, t} \subseteq {"computed", "ending", "ended"}
             \/ {s, t} \subseteq {"written", "ending_last", "ended_last", "finishing"}
      BY <1>3, <2>2 DEF Stage
    <3>2. tasks[n][s] > 0 /\ tasks' = Moved(n, s, t) /\ unsent' = unsent
      BY <1>1, <2>2
    <3> HIDE DEF s, t
    <3> QED BY <1>2, <1>4, <3>1, <3>2, SumsMoved
  <2> QED BY <1>1, <2>1, <2>2
<1> QED BY <1>5, <1>6, Stuttering DEF SameSums, WritingKept

\* A step of run_simulation is a step of the computation, or none.
LEMMA PhaseRun ==
  ASSUME CountInv, CountInv', MainArm \/ Run
  PROVE  /\ [Computation!Next]_(Computation!vars)
         /\ \/ MainArm /\ \A q \in Node : ToWrite(q)' = ThreadsPerNode
            \/ WritingKept
<1>1. TypeOK /\ MessagesFit /\ main \in MainValues /\ main' \in MainValues
  BY DEF CountInv, TypeOK, MainValues
<1>2. \A q \in Node : TasksCounted(q) /\ TasksCounted(q)'
  BY DEF CountInv
<1>3. /\ chan' = chan /\ tasks' = tasks /\ unsent' = unsent => SameSums
      /\ \A q \in Node : /\ ToCompute(q) \in Nat /\ Computed(q) \in Nat
                         /\ tasks[q].writing \in Nat
  <2>1. ASSUME chan' = chan, tasks' = tasks, unsent' = unsent PROVE SameSums
    BY <1>1, <2>1, SumsOfKept DEF SameSums, ToWrite
  <2> QED BY <2>1, <1>1, NodeNumbers
<1>4. CASE MainArm
  <2>1. /\ main = "out" /\ main' = "tasking" /\ unsent' = [p \in Node |-> ThreadsPerNode]
        /\ chan' = chan /\ tasks' = tasks
    BY <1>4 DEF MainArm, MainGoto
  <2>2. Closed' /\ Idle /\ ~ First
    BY <2>1 DEF Closed, First, Idle
  <2>3. ASSUME NEW q \in Node
        PROVE  ToCompute(q)' = ThreadsPerNode /\ ToWrite(q)' = ThreadsPerNode
    <3>1. TasksCounted(q) /\ TasksCounted(q)'
      BY <1>2
    <3>2. /\ Computed(q) = 0 /\ tasks[q].writing = 0
          /\ ToCompute(q)' + Computed(q)' = ThreadsPerNode
      BY <3>1, <2>2, <1>1, WritingZero DEF TasksCounted
    <3>3. Computed(q)' = 0 /\ tasks'[q].writing = 0
      BY <3>2, <2>1 DEF Computed, Notifying
    <3>4. ToCompute(q)' \in Nat
      <4>1. /\ InFlight(Coordinator, q, TaskMsg)' \in Nat
            /\ unsent'[q] \in Nat /\ tasks'[q].started \in Nat
            /\ tasks'[q].computing \in Nat
        BY <1>1, <2>1, TasksInFlight, NodeNumbers, ThreadsAssumption
      <4> QED BY <4>1 DEF ToCompute
    <3> QED BY <3>2, <3>3, <3>4 DEF ToWrite
  <2>4. /\ [q \in Node |-> ToCompute(q)]' = [q \in Node |-> ThreadsPerNode]
        /\ [q \in Node |-> ToWrite(q)]' = [q \in Node |-> ThreadsPerNode]
    BY <2>3
  <2>5. Computation!Start
    BY <2>1, <2>4 DEF Computation!Start, Computation!All
  <2> QED BY <2>3, <2>5, <1>4 DEF Computation!Next
<1>5. CASE MainWait
  <2>1. SameSums
    BY <1>3, <1>5 DEF MainWait
  <2>2. /\ [q \in Node |-> ToCompute(q)]' = [q \in Node |-> ToCompute(q)]
        /\ [q \in Node |-> ToWrite(q)]' = [q \in Node |-> ToWrite(q)]
    BY <2>1 DEF SameSums
  <2>3. CASE MainGoto("waiting1", "rearm")
    <3>1. main = "waiting1" /\ main' = "rearm" /\ ~ First'
      BY <2>3 DEF MainGoto, First
    <3>2. \A q \in Node : ToCompute(q) = 0
      BY <3>1, <1>2, <2>1 DEF TasksCounted, SameSums
    <3>3. Computation!Turn
      BY <3>1, <3>2, <2>2 DEF Computation!Turn, Computation!None
    <3> QED BY <3>3, <2>1 DEF Computation!Next, SameSums, WritingKept
  <2>4. CASE MainGoto("waiting2", "reading")
    <3>1. main = "waiting2" /\ main' = "reading" /\ ~ First' /\ Idle' /\ ~ First
      BY <2>4 DEF MainGoto, First, Idle
    <3>2. ASSUME NEW q \in Node PROVE ToWrite(q) = 0
      <4>1. ToCompute(q)' = 0 /\ Computed(q)' = 0 /\ Writing(q)' = 0 /\ tasks' = tasks
        BY <3>1, <1>2, <1>5 DEF TasksCounted, MainWait
      <4>2. tasks'[q].writing = 0
        BY <4>1, <1>1, WritingZero DEF Writing
      <4>3. ToWrite(q)' = 0
        BY <4>1, <4>2 DEF ToWrite
      <4> QED BY <4>3, <2>1 DEF SameSums
    <3>3. Computation!Read
      BY <3>1, <3>2, <2>2 DEF Computation!Read, Computation!None
    <3> QED BY <3>3, <2>1 DEF Computation!Next, SameSums, WritingKept
  <2>5. CASE MainGoto("waiting1", "asleep1") \/ MainGoto("waiting2", "asleep2")
    <3>1. SamePhase
      BY <2>5, <1>1 DEF MainGoto, SamePhase, First
    <3> QED BY <3>1, <2>1, Stuttering DEF SameSums, WritingKept
  <2> QED BY <1>5, <2>3, <2>4, <2>5 DEF MainWait, MainGoto
<1>6. ASSUME NEW p \in Node, MainSendTask(p)
      PROVE  [Computation!Next]_(Computation!vars) /\ WritingKept
  <2>1. /\ main' = main /\ unsent[p] > 0 /\ unsent' = [unsent EXCEPT ![p] = @ - 1]
    BY <1>6 DEF MainSendTask
  <2>2. SamePhase
    BY <1>1, <2>1, PhaseKept
  <2>3. /\ unsent'[p] = unsent[p] - 1
        /\ \A q \in Node : q # p => unsent'[q] = unsent[q]
    BY <1>1, <2>1 DEF TypeOK
  <2>4. /\ tasks[p].started \in Nat /\ tasks[p].computing \in Nat /\ unsent[p] \in Nat
        /\ InFlight(Coordinator, p, TaskMsg) \in Nat
    BY <1>1, NodeNumbers
  <2>5. CASE p = Coordinator
    <3>1. tasks' = [tasks EXCEPT ![p].started = @ + 1] /\ chan' = chan
      BY <1>6, <2>5 DEF MainSendTask
    <3>2. "started" \in Stage /\ tasks[p].started + 1 \in Nat
      BY <2>4 DEF Stage
    <3>3. tasks' = [tasks EXCEPT ![p]["started"] = tasks[p].started + 1]
      BY <3>1
    <3>4. /\ tasks'[p].started = tasks[p].started + 1
          /\ \A x \in Stage : x # "started" => tasks'[p][x] = tasks[p][x]
          /\ \A q \in Node : q # p => tasks'[q] = tasks[q]
      BY <3>2, <3>3, <1>1, StageChanged, ZenonT(60)
    <3>5. \A q \in Node :
            InFlight(Coordinator, q, TaskMsg)' = InFlight(Coordinator, q, TaskMsg)
      BY <1>1, <3>1, TasksInFlight
    <3>6. /\ tasks'[p].computing = tasks[p].computing /\ Notifying(p)' = Notifying(p)
          /\ tasks'[p].notified = tasks[p].notified /\ tasks'[p].waiting = tasks[p].waiting
          /\ tasks'[p].asleep = tasks[p].asleep /\ tasks'[p].writing = tasks[p].writing
      BY <3>4 DEF Stage, Notifying
    <3>7. ToCompute(p)' = ToCompute(p)
      <4>1. InFlight(Coordinator, p, TaskMsg)' = InFlight(Coordinator, p, TaskMsg)
        BY <3>5
      <4> QED BY <4>1, <3>4, <3>6, <2>3, <2>4 DEF ToCompute
    <3>8. ToWrite(p)' = ToWrite(p)
      <4>1. Computed(p)' = Computed(p)
        BY <3>6 DEF Computed
      <4> QED BY <4>1, <3>6, <3>7 DEF ToWrite
    <3>9. ASSUME NEW q \in Node, q # p
          PROVE  ToCompute(q)' = ToCompute(q) /\ ToWrite(q)' = ToWrite(q)
      <4>1. tasks'[q] = tasks[q] /\ unsent'[q] = unsent[q]
        BY <2>3, <3>4, <3>9
      <4>2. ToCompute(q)' = ToCompute(q) /\ Computed(q)' = Computed(q)
        BY <4>1, <3>5 DEF ToCompute, Computed, Notifying
      <4> QED BY <4>1, <4>2 DEF ToWrite
    <3>10. SameSums
      BY <3>7, <3>8, <3>9 DEF SameSums
    <3> QED BY <3>10, <2>2, Stuttering DEF SameSums, WritingKept
  <2>6. CASE p # Coordinator
    <3>1. chan' = [chan EXCEPT ![Coordinator][p] = Append(@, TaskMsg)] /\ tasks' = tasks
      BY <1>6, <2>6 DEF MainSendTask
    <3>2. \A q, r \in Node : \A m \in Counted :
            InFlight(q, r, m)' = InFlight(q, r, m)
              + IF q = Coordinator /\ r = p /\ m = TaskMsg THEN 1 ELSE 0
      BY <3>1, <1>1, <2>6, TaskSent
    <3>3. \A r \in Node : InFlight(Coordinator, r, TaskMsg)'
            = InFlight(Coordinator, r, TaskMsg) + IF r = p THEN 1 ELSE 0
      BY <3>2, CoordinatorAssumption DEF Counted
    <3>4. ToCompute(p)' = ToCompute(p)
      <4>1. InFlight(Coordinator, p, TaskMsg)' = InFlight(Coordinator, p, TaskMsg) + 1
        BY <3>3
      <4>2. /\ tasks'[p].started = tasks[p].started
            /\ tasks'[p].computing = tasks[p].computing
        BY <3>1
      <4> QED BY <4>1, <4>2, <2>3, <2>4 DEF ToCompute
    <3>5. ASSUME NEW q \in Node, q # p PROVE ToCompute(q)' = ToCompute(q)
      <4>1. InFlight(Coordinator, q, TaskMsg)' = InFlight(Coordinator, q, TaskMsg)
        <5>1. InFlight(Coordinator, q, TaskMsg)' = InFlight(Coordinator, q, TaskMsg) + 0
          BY <3>3, <3>5
        <5> QED BY <5>1, <1>1, InFlightCount, CoordinatorAssumption
      <4> QED BY <4>1, <3>1, <2>3, <3>5 DEF ToCompute
    <3>6. SameSums
      <4>1. \A q \in Node : Computed(q)' = Computed(q)
        BY <3>1 DEF Computed, Notifying
      <4> QED BY <4>1, <3>1, <3>4, <3>5 DEF SameSums, ToWrite
    <3> QED BY <3>6, <2>2, Stuttering DEF SameSums, WritingKept
  <2> QED BY <2>5, <2>6
<1>7. CASE MainTasksSent
  <2>1. SamePhase /\ SameSums
    BY <1>1, <1>3, <1>7 DEF MainTasksSent, MainGoto, SamePhase, First
  <2> QED BY <2>1, Stuttering DEF SameSums, WritingKept
<1>8. CASE MainRearm
  <2>1. SamePhase /\ SameSums
    BY <1>1, <1>3, <1>8 DEF MainRearm, MainGoto, SamePhase, First
  <2> QED BY <2>1, Stuttering DEF SameSums, WritingKept
<1>9. CASE MainNotify
  <2>1. SamePhase
    BY <1>1, <1>9 DEF MainNotify, MainGoto, SamePhase, First
  <2>2. \A q \in Node : InFlight(Coordinator, q, TaskMsg)' = InFlight(Coordinator, q, TaskMsg)
    BY <1>1, <1>9, TasksInFlight, CountedMessages, CoordinatorAssumption
       DEF MainNotify, Counted
  <2>3. SameSums
    BY <2>2, <1>9 DEF MainNotify, SameSums, ToWrite, ToCompute, Computed, Notifying
  <2> QED BY <2>1, <2>3, Stuttering DEF SameSums, WritingKept
<1>10. CASE MainNotifyLocal
  <2>1. SamePhase
    BY <1>1, <1>10 DEF MainNotifyLocal, MainGoto, SamePhase, First
  <2>2. SameSums
    BY <1>1, <1>10, SumsWoken, TasksInFlight, CoordinatorAssumption
       DEF MainNotifyLocal, Barriers
  <2> QED BY <2>1, <2>2, Stuttering DEF SameSums, WritingKept
<1>11. CASE MainReturn
  <2>1. SameSums
    BY <1>3, <1>11 DEF MainReturn
  <2>2. Computation!Return
    BY <2>1, <1>11 DEF MainReturn, MainGoto, SameSums, Computation!Return
  <2> QED BY <2>1, <2>2 DEF Computation!Next, SameSums, WritingKept
<1>12. CASE MainTxEnd
  <2>1. SamePhase /\ SameSums
    BY <1>1, <1>3, <1>12 DEF MainTxEnd, MainGoto, ToSend, SamePhase, First
  <2> QED BY <2>1, Stuttering DEF SameSums, WritingKept
<1> QED BY <1>4, <1>5, <1>6, <1>7, <1>8, <1>9, <1>10, <1>11, <1>12 DEF Run

\* A listener takes no part in the computation.
LEMMA PhaseHandle ==
  ASSUME CountInv, NEW n \in Node, NEW p \in Node, Handle(n, p)
  PROVE  UNCHANGED Computation!vars /\ WritingKept
<1>1. TypeOK /\ chan[p][n] # << >> /\ chan' = Received(p, n) /\ unsent' = unsent
  BY DEF CountInv, Handle, HandleTask, HandleNotify, HandleDiff
<1>2. Head(chan[p][n]) \in Message
  BY <1>1, MessageTaken
<1>3. CASE HandleTask(n, p)
  <2>1. SamePhase
    BY <1>1, <1>3, PhaseKept DEF HandleTask
  <2>2. Head(chan[p][n]) = TaskMsg /\ p = Coordinator
    <3>1. Head(chan[p][n]) = TaskMsg
      BY <1>2, <1>3, CountedMessages DEF HandleTask
    <3> QED BY <3>1, <1>1, FitTaken DEF CountInv
  <2>3. \A q \in Node :
          InFlight(Coordinator, q, TaskMsg)'
            = IF q = n THEN InFlight(Coordinator, q, TaskMsg) - 1
                       ELSE InFlight(Coordinator, q, TaskMsg)
    BY <1>1, <2>2, MessageTaken, CoordinatorAssumption DEF Counted
  <2>4. /\ tasks[n].started \in Nat /\ tasks[n].computing \in Nat /\ unsent[n] \in Nat
        /\ InFlight(Coordinator, n, TaskMsg) \in Nat
    BY <1>1, NodeNumbers
  <2>5. /\ tasks'[n].started = tasks[n].started + 1
        /\ \A x \in Stage : x # "started" => tasks'[n][x] = tasks[n][x]
        /\ \A q \in Node : q # n => tasks'[q] = tasks[q]
    <3>1. "started" \in Stage /\ tasks[n].started + 1 \in Nat
      BY <2>4 DEF Stage
    <3>2. tasks' = [tasks EXCEPT ![n]["started"] = tasks[n].started + 1]
      BY <1>3 DEF HandleTask
    <3> QED BY <3>1, <3>2, <1>1, StageChanged, ZenonT(60)
  <2>6. /\ tasks'[n].computing = tasks[n].computing /\ Notifying(n)' = Notifying(n)
        /\ tasks'[n].notified = tasks[n].notified /\ tasks'[n].waiting = tasks[n].waiting
        /\ tasks'[n].asleep = tasks[n].asleep /\ tasks'[n].writing = tasks[n].writing
    BY <2>5 DEF Stage, Notifying
  <2>7. ToCompute(n)' = ToCompute(n)
    <3>1. InFlight(Coordinator, n, TaskMsg)' = InFlight(Coordinator, n, TaskMsg) - 1
      BY <2>3
    <3>2. /\ tasks'[n].started = tasks[n].started + 1 /\ unsent'[n] = unsent[n]
          /\ tasks'[n].computing = tasks[n].computing
      BY <2>5, <2>6, <1>1
    <3> QED BY <3>1, <3>2, <2>4 DEF ToCompute
  <2>8. ToWrite(n)' = ToWrite(n)
    <3>1. Computed(n)' = Computed(n)
      BY <2>6 DEF Computed
    <3> QED BY <3>1, <2>6, <2>7 DEF ToWrite
  <2>9. ASSUME NEW q \in Node, q # n
        PROVE  ToCompute(q)' = ToCompute(q) /\ ToWrite(q)' = ToWrite(q)
    <3>1. /\ tasks'[q] = tasks[q] /\ unsent' = unsent
          /\ InFlight(Coordinator, q, TaskMsg)' = InFlight(Coordinator, q, TaskMsg)
      BY <2>3, <2>5, <2>9, <1>1
    <3>2. ToCompute(q)' = ToCompute(q) /\ Computed(q)' = Computed(q)
      BY <3>1 DEF ToCompute, Computed, Notifying
    <3> QED BY <3>1, <3>2 DEF ToWrite
  <2>10. SameSums
    BY <2>7, <2>8, <2>9 DEF SameSums
  <2> QED BY <2>1, <2>10, Stuttering DEF SameSums, WritingKept
<1>4. CASE HandleNotify(n, p)
  <2> DEFINE b == Head(chan[p][n]).barrier
  <2>1. /\ b \in Barriers /\ Head(chan[p][n]).type # "TASK"
        /\ tasks' = Woken(b, n, tasks) /\ main' = MainWoken(b, n)
    BY <1>2, <1>4, CountedMessages DEF HandleNotify
  <2> HIDE DEF b
  <2>2. SamePhase
    BY <1>1, <2>1, PhaseKept
  <2>3. SameSums
    BY <1>1, <2>1, SumsWoken, TasksInFlight
  <2> QED BY <2>2, <2>3, Stuttering DEF SameSums, WritingKept
<1>5. CASE HandleDiff(n, p)
  <2>1. SamePhase
    BY <1>1, <1>5, PhaseKept DEF HandleDiff
  <2>2. \A q \in Node : InFlight(Coordinator, q, TaskMsg)' = InFlight(Coordinator, q, TaskMsg)
    BY <1>1, <1>5, TasksInFlight DEF HandleDiff
  <2>3. SameSums
    BY <2>2, <1>5 DEF HandleDiff, SameSums, ToWrite, ToCompute, Computed, Notifying
  <2> QED BY <2>1, <2>3, Stuttering DEF SameSums, WritingKept
<1> QED BY <1>3, <1>4, <1>5 DEF Handle

\* Before the first run the computation is idle.
LEMMA PhaseInit ==
  ASSUME Init
  PROVE  Computation!Init
<1>1. CountInv /\ TypeOK
  BY CountInit DEF CountInv
<1>2. main = "out" /\ Idle /\ ~ First
  BY DEF Init, Idle, First
<1>3. ASSUME NEW n \in Node PROVE ToCompute(n) = 0 /\ ToWrite(n) = 0
  <2>1. ToCompute(n) = 0 /\ Computed(n) = 0 /\ tasks[n].writing = 0
    BY <1>1, <1>2, WritingZero DEF CountInv, TasksCounted
  <2> QED BY <2>1 DEF ToWrite
<1> QED BY <1>2, <1>3 DEF Computation!Init, Computation!None

\* The two phases of a run never overlap: no task writes its result while another
\* one of any node has still to compute with the results of the run before, and
\* run_simulation returns no result before all are written.
THEOREM RunsInPhases == Spec => ImplementsPhases
<1>1. Init => Computation!Init
  BY PhaseInit
<1>2. CountInv /\ CountInv' /\ [Next]_vars => [Computation!Next]_(Computation!vars)
  <2> SUFFICES ASSUME CountInv, CountInv', [Next]_vars
               PROVE  [Computation!Next]_(Computation!vars)
    OBVIOUS
  <2>1. CASE UNCHANGED vars
    <3>1. /\ main' = main /\ chan' = chan /\ tasks' = tasks /\ unsent' = unsent
          /\ TypeOK /\ MessagesFit
      BY <2>1 DEF vars, CountInv
    <3>2. SamePhase
      BY <3>1, PhaseKept
    <3>3. SameSums
      BY <3>1, SumsOfKept DEF SameSums, ToWrite
    <3> QED BY <3>2, <3>3, Stuttering
  <2> QED BY <2>1, PhaseTask, PhaseSendDiff, PhaseRun, PhaseHandle DEF Next
<1> QED BY <1>1, <1>2, CountsHold, PTL DEF Spec, ImplementsPhases, Computation!Spec

----------------------------------------------------------------------------
(***************************************************************************)
(* Where the results are                                                   *)
(***************************************************************************)

\* The diffs on a connection, by their places, and what they carry.
DiffsOf(s) == {k \in DOMAIN s : s[k].type = "DIFF"}
Carried(s) == UNION {s[k].results : k \in DiffsOf(s)}

\* Every diff of s comes before a notification, or before all tasks.
BeforeNotify(s) ==
  \A k \in DiffsOf(s) : \E l \in DOMAIN s : l > k /\ s[l] = NotifyMsg("completion")

BeforeTasks(s) ==
  \A k \in DiffsOf(s) : \A l \in DOMAIN s : s[l] = TaskMsg => k < l

\* A node has the results of its own tasks of all runs.
OwnCount == \A n \in Node : results[n] = runs * ThreadsPerNode - ToWrite(n)

\* A task that has written has still to take up what is not taken yet.
DirtyWritten == \A n \in Node : dirty[n] # {} => tasks[n].written > 0

\* Every diff that is not sent is in the hands of a task that has still to notify.
DiffsInHand ==
  \A n \in Node :
    /\ IsFiniteSet(taken[n])
    /\ Cardinality(taken[n]) <= tasks[n].ending_last
    /\ \A diff \in taken[n] : diff.by = "ending_last"

\* What n has written and not sent.
Held(n) == dirty[n] \cup UNION {diff.results : diff \in taken[n]}

\* A result is with its node, on the connection, or in the copy.
NothingLost ==
  \A n, m \in Node :
    n # m => 1 .. results[n] \subseteq Held(n) \cup Carried(chan[n][m]) \cup seen[m][n]

\* A diff for the coordinator is followed by a notification, the diff of a task
\* that has sent nothing else yet by its own.
DiffBeforeNotify ==
  \A n \in Node : BeforeNotify(chan[n][Coordinator]) \/ tasks[n].ended_last > 0

\* While tasks compute, the coordinator has the results of the runs before.
DiffsTaken ==
  Closed \/ Idle => \A n \in Node : DiffsOf(chan[n][Coordinator]) = {}

\* Whoever has a task of the run has the coordinator's results of the runs before.
DiffBeforeTask ==
  \A n \in Node \ {Coordinator} :
    /\ BeforeTasks(chan[Coordinator][n])
    /\ tasks[n].started + tasks[n].computing > 0 => DiffsOf(chan[Coordinator][n]) = {}

DataInv ==
  /\ OwnCount /\ DirtyWritten /\ DiffsInHand /\ NothingLost
  /\ DiffBeforeNotify /\ DiffsTaken /\ DiffBeforeTask

----------------------------------------------------------------------------
(***************************************************************************)
(* The diffs on a connection                                               *)
(***************************************************************************)
\* Diffs have places on the connection.
LEMMA DiffsPlaces ==
  ASSUME NEW s \in Seq(Message)
  PROVE  /\ DOMAIN s = 1 .. Len(s) /\ Len(s) \in Nat
         /\ DiffsOf(s) \subseteq 1 .. Len(s)
  BY DEF DiffsOf

\* A message sent is a diff, or leaves the diffs as they were.
LEMMA DiffsAppend ==
  ASSUME NEW s \in Seq(Message), NEW e \in Message
  PROVE  /\ DOMAIN Append(s, e) = 1 .. Len(s) + 1
         /\ \A k \in 1 .. Len(s) : Append(s, e)[k] = s[k]
         /\ Append(s, e)[Len(s) + 1] = e
         /\ Append(s, e) \in Seq(Message)
         /\ e.type # "DIFF" => DiffsOf(Append(s, e)) = DiffsOf(s)
         /\ e.type = "DIFF" => DiffsOf(Append(s, e)) = DiffsOf(s) \cup {Len(s) + 1}
<1> DEFINE t == Append(s, e)
<1>1. /\ DOMAIN s = 1 .. Len(s) /\ DOMAIN t = 1 .. Len(s) + 1 /\ Len(s) \in Nat
      /\ \A k \in 1 .. Len(s) : t[k] = s[k]
      /\ t[Len(s) + 1] = e /\ t \in Seq(Message)
  OBVIOUS
<1> HIDE DEF t
<1>2. e.type # "DIFF" => DiffsOf(t) = DiffsOf(s)
  BY <1>1 DEF DiffsOf
<1>3. e.type = "DIFF" => DiffsOf(t) = DiffsOf(s) \cup {Len(s) + 1}
  BY <1>1 DEF DiffsOf
<1> QED BY <1>1, <1>2, <1>3 DEF t

\* A message taken moves all diffs by one place.
LEMMA DiffsTail ==
  ASSUME NEW s \in Seq(Message), s # << >>
  PROVE  /\ Tail(s) \in Seq(Message)
         /\ Len(s) \in Nat \ {0} /\ DOMAIN Tail(s) = 1 .. Len(s) - 1
         /\ \A k \in 1 .. Len(s) - 1 : Tail(s)[k] = s[k + 1]
         /\ DiffsOf(Tail(s)) = {k \in 1 .. Len(s) - 1 : k + 1 \in DiffsOf(s)}
         /\ 1 \in DiffsOf(s) <=> Head(s).type = "DIFF"
         /\ Head(s) = s[1]
<1> DEFINE t == Tail(s)
<1>1. /\ DOMAIN s = 1 .. Len(s) /\ Len(s) \in Nat \ {0}
      /\ t \in Seq(Message) /\ DOMAIN t = 1 .. Len(s) - 1
      /\ \A k \in 1 .. Len(s) - 1 : t[k] = s[k + 1]
      /\ Head(s) = s[1]
  OBVIOUS
<1> HIDE DEF t
<1>2. \A k \in 1 .. Len(s) - 1 : k + 1 \in 1 .. Len(s)
  BY <1>1
<1>3. DiffsOf(t) = {k \in 1 .. Len(s) - 1 : k + 1 \in DiffsOf(s)}
  BY <1>1, <1>2 DEF DiffsOf
<1>4. 1 \in DiffsOf(s) <=> Head(s).type = "DIFF"
  BY <1>1 DEF DiffsOf
<1> QED BY <1>1, <1>3, <1>4 DEF t

\* What a connection carries is not lost by sending, and what a diff carries is
\* added to it.
LEMMA CarriedAppend ==
  ASSUME NEW s \in Seq(Message), NEW e \in Message
  PROVE  /\ Carried(s) \subseteq Carried(Append(s, e))
         /\ e.type = "DIFF" => e.results \subseteq Carried(Append(s, e))
<1> DEFINE t == Append(s, e)
<1>1. /\ \A k \in 1 .. Len(s) : t[k] = s[k]
      /\ t[Len(s) + 1] = e /\ DiffsOf(s) \subseteq 1 .. Len(s)
      /\ e.type # "DIFF" => DiffsOf(t) = DiffsOf(s)
      /\ e.type = "DIFF" => DiffsOf(t) = DiffsOf(s) \cup {Len(s) + 1}
  BY DiffsAppend, DiffsPlaces
<1> HIDE DEF t
<1>2. \A k \in DiffsOf(s) : k \in DiffsOf(t) /\ t[k] = s[k]
  BY <1>1
<1>3. e.type = "DIFF" => Len(s) + 1 \in DiffsOf(t) /\ t[Len(s) + 1] = e
  BY <1>1
<1>4. /\ Carried(s) \subseteq Carried(t)
      /\ e.type = "DIFF" => e.results \subseteq Carried(t)
  BY <1>2, <1>3 DEF Carried
<1> QED BY <1>4 DEF t

\* What a connection carries is lost only by taking the diff that carries it.
LEMMA CarriedTail ==
  ASSUME NEW s \in Seq(Message), s # << >>
  PROVE  Carried(s) \subseteq Carried(Tail(s))
                     \cup (IF Head(s).type = "DIFF" THEN Head(s).results ELSE {})
<1> DEFINE t == Tail(s)
<1>1. /\ Len(s) \in Nat \ {0} /\ DiffsOf(s) \subseteq 1 .. Len(s)
      /\ \A k \in 1 .. Len(s) - 1 : t[k] = s[k + 1]
      /\ DiffsOf(t) = {k \in 1 .. Len(s) - 1 : k + 1 \in DiffsOf(s)}
      /\ 1 \in DiffsOf(s) <=> Head(s).type = "DIFF"
      /\ Head(s) = s[1]
  BY DiffsTail, DiffsPlaces
<1> HIDE DEF t
<1>2. ASSUME NEW k \in DiffsOf(s), k # 1
      PROVE  k - 1 \in DiffsOf(t) /\ t[k - 1] = s[k]
  <2>1. k - 1 \in 1 .. Len(s) - 1 /\ (k - 1) + 1 = k
    BY <1>1, <1>2
  <2> QED BY <2>1, <1>1
<1>3. ASSUME NEW k \in DiffsOf(s), NEW v \in s[k].results
      PROVE  \/ v \in Carried(t)
             \/ Head(s).type = "DIFF" /\ v \in Head(s).results
  <2>1. CASE k = 1
    BY <2>1, <1>1, <1>3
  <2>2. CASE k # 1
    BY <2>2, <1>2, <1>3 DEF Carried
  <2> QED BY <2>1, <2>2
<1>4. Carried(s) \subseteq Carried(t)
                     \cup (IF Head(s).type = "DIFF" THEN Head(s).results ELSE {})
  BY <1>3 DEF Carried
<1> QED BY <1>4 DEF t

\* A notification sent is behind every diff.
LEMMA NotifyAppend ==
  ASSUME NEW s \in Seq(Message)
  PROVE  BeforeNotify(Append(s, NotifyMsg("completion")))
<1> DEFINE e == NotifyMsg("completion")
           t == Append(s, e)
<1>1. e \in Message /\ e.type # "DIFF"
  BY CountedMessages DEF Counted
<1>2. /\ DOMAIN t = 1 .. Len(s) + 1 /\ t[Len(s) + 1] = e
      /\ DiffsOf(t) = DiffsOf(s) /\ DiffsOf(s) \subseteq 1 .. Len(s) /\ Len(s) \in Nat
  BY <1>1, DiffsAppend, DiffsPlaces
<1> HIDE DEF t, e
<1>3. \A k \in DiffsOf(t) : Len(s) + 1 \in DOMAIN t /\ Len(s) + 1 > k
  BY <1>2
<1>4. BeforeNotify(t)
  BY <1>2, <1>3 DEF BeforeNotify, e
<1> QED BY <1>4 DEF t, e

\* Taking a message does not take a notification from ahead of a diff.
LEMMA NotifyTail ==
  ASSUME NEW s \in Seq(Message), s # << >>, BeforeNotify(s)
  PROVE  BeforeNotify(Tail(s))
<1> DEFINE t == Tail(s)
<1>1. /\ Len(s) \in Nat \ {0} /\ DOMAIN t = 1 .. Len(s) - 1
      /\ \A k \in 1 .. Len(s) - 1 : t[k] = s[k + 1]
      /\ DiffsOf(t) = {k \in 1 .. Len(s) - 1 : k + 1 \in DiffsOf(s)}
      /\ DOMAIN s = 1 .. Len(s)
  BY DiffsTail, DiffsPlaces
<1> HIDE DEF t
<1>2. ASSUME NEW k \in DiffsOf(t)
      PROVE  \E l \in DOMAIN t : l > k /\ t[l] = NotifyMsg("completion")
  <2>1. k \in 1 .. Len(s) - 1 /\ k + 1 \in DiffsOf(s)
    BY <1>1
  <2>2. PICK l \in DOMAIN s : l > k + 1 /\ s[l] = NotifyMsg("completion")
    BY <2>1 DEF BeforeNotify
  <2>3. l - 1 \in DOMAIN t /\ l - 1 > k /\ t[l - 1] = s[(l - 1) + 1]
    BY <1>1, <2>1, <2>2
  <2>4. (l - 1) + 1 = l
    BY <1>1, <2>2
  <2> QED BY <2>2, <2>3, <2>4
<1>3. BeforeNotify(t)
  BY <1>2 DEF BeforeNotify
<1> QED BY <1>3 DEF t

\* What is no diff may be sent after one.
LEMMA TasksAppend ==
  ASSUME NEW s \in Seq(Message), NEW e \in Message, e.type # "DIFF", BeforeTasks(s)
  PROVE  BeforeTasks(Append(s, e))
<1> DEFINE t == Append(s, e)
<1>1. /\ DOMAIN t = 1 .. Len(s) + 1
      /\ \A k \in 1 .. Len(s) : t[k] = s[k]
      /\ DiffsOf(t) = DiffsOf(s) /\ DiffsOf(s) \subseteq 1 .. Len(s) /\ Len(s) \in Nat
      /\ DOMAIN s = 1 .. Len(s)
  BY DiffsAppend, DiffsPlaces
<1> HIDE DEF t
<1>2. ASSUME NEW k \in DiffsOf(t), NEW l \in DOMAIN t, t[l] = TaskMsg
      PROVE  k < l
  <2>1. CASE l = Len(s) + 1
    BY <2>1, <1>1
  <2>2. CASE l # Len(s) + 1
    <3>1. l \in DOMAIN s /\ s[l] = TaskMsg /\ k \in DiffsOf(s)
      BY <2>2, <1>1, <1>2
    <3> QED BY <3>1 DEF BeforeTasks
  <2> QED BY <2>1, <2>2
<1>3. BeforeTasks(t)
  BY <1>2 DEF BeforeTasks
<1> QED BY <1>3 DEF t

\* A diff may be sent where no task is on its way.
LEMMA TasksNone ==
  ASSUME NEW s \in Seq(Message), NEW e \in Message, e # TaskMsg,
         \A k \in DOMAIN s : s[k] # TaskMsg
  PROVE  /\ BeforeTasks(s)
         /\ \A k \in DOMAIN Append(s, e) : Append(s, e)[k] # TaskMsg
<1>1. /\ DOMAIN Append(s, e) = 1 .. Len(s) + 1
      /\ \A k \in 1 .. Len(s) : Append(s, e)[k] = s[k]
      /\ Append(s, e)[Len(s) + 1] = e /\ DOMAIN s = 1 .. Len(s) /\ Len(s) \in Nat
  BY DiffsAppend, DiffsPlaces
<1>2. \A k \in DOMAIN Append(s, e) : k = Len(s) + 1 \/ k \in DOMAIN s
  BY <1>1
<1> QED BY <1>1, <1>2 DEF BeforeTasks

\* When a task is taken, no diff is on the connection any more.
LEMMA TasksTail ==
  ASSUME NEW s \in Seq(Message), s # << >>, BeforeTasks(s)
  PROVE  /\ BeforeTasks(Tail(s))
         /\ Head(s) = TaskMsg => DiffsOf(Tail(s)) = {}
         /\ DiffsOf(s) = {} => DiffsOf(Tail(s)) = {}
<1> DEFINE t == Tail(s)
<1>1. /\ Len(s) \in Nat \ {0} /\ DOMAIN t = 1 .. Len(s) - 1
      /\ \A k \in 1 .. Len(s) - 1 : t[k] = s[k + 1]
      /\ DiffsOf(t) = {k \in 1 .. Len(s) - 1 : k + 1 \in DiffsOf(s)}
      /\ DOMAIN s = 1 .. Len(s) /\ Head(s) = s[1]
  BY DiffsTail, DiffsPlaces
<1> HIDE DEF t
<1>2. ASSUME NEW k \in DiffsOf(t), NEW l \in DOMAIN t, t[l] = TaskMsg PROVE k < l
  <2>1. k + 1 \in DiffsOf(s) /\ l + 1 \in DOMAIN s /\ s[l + 1] = TaskMsg
        /\ k \in Nat /\ l \in Nat
    BY <1>1, <1>2
  <2>2. k + 1 < l + 1
    BY <2>1 DEF BeforeTasks
  <2> QED BY <2>1, <2>2
<1>3. ASSUME Head(s) = TaskMsg PROVE DiffsOf(t) = {}
  <2>1. 1 \in DOMAIN s /\ s[1] = TaskMsg
    BY <1>1, <1>3
  <2>2. \A k \in DiffsOf(s) : k < 1
    BY <2>1 DEF BeforeTasks
  <2> QED BY <2>2, <1>1
<1>4. DiffsOf(s) = {} => DiffsOf(t) = {}
  BY <1>1
<1>5. BeforeTasks(t)
  BY <1>2 DEF BeforeTasks
<1> QED BY <1>3, <1>4, <1>5 DEF t

\* The results due grow by those of one run.
LEMMA OneMore ==
  ASSUME NEW r \in Nat, NEW t \in Nat
  PROVE  /\ r * t \in Nat /\ (r + 1) * t \in Nat
         /\ (r + 1) * t = r * t + t
  OBVIOUS

\* They were those of one run less before.
LEMMA OneLess ==
  ASSUME NEW r \in Nat, NEW t \in Nat
  PROVE  r * t - t = (r - 1) * t
  OBVIOUS

----------------------------------------------------------------------------
(***************************************************************************)
(* The steps, by what they do to the connections and the copies            *)
(***************************************************************************)
Quiet == UNCHANGED <<chan, seen>>

Notifies(w, b) ==
  /\ b = "client" => w = Coordinator
  /\ chan' = Sent(w, NotifyMsg(b)) /\ seen' = seen

SendsTask(p) ==
  /\ p # Coordinator
  /\ chan' = [chan EXCEPT ![Coordinator][p] = Append(@, TaskMsg)] /\ seen' = seen

Receives(r, p) ==
  /\ chan[p][r] # << >> /\ chan' = Received(p, r)
  /\ IF Head(chan[p][r]).type = "DIFF"
     THEN seen' = [seen EXCEPT ![r][p] = Applied(@, Head(chan[p][r]).results)]
     ELSE seen' = seen

\* Every step is of one of these kinds, or sends a diff.
LEMMA StepKinds ==
  ASSUME [Next]_vars
  PROVE  \/ Quiet
         \/ \E w \in Node, b \in Barriers : Notifies(w, b)
         \/ \E w \in Node : SendDiff(w)
         \/ \E p \in Node : SendsTask(p)
         \/ \E r, p \in Node : Receives(r, p)
<1>1. CASE UNCHANGED vars
  BY <1>1 DEF vars, memoryVars, Quiet
<1>2. CASE MainArm
  BY <1>2 DEF MainArm, memoryVars, Quiet
<1>3. CASE Run
  <2>1. ASSUME NEW p \in Node, MainSendTask(p) PROVE Quiet \/ SendsTask(p)
    BY <2>1 DEF MainSendTask, memoryVars, Quiet, SendsTask
  <2>2. CASE MainNotify
    BY <2>2, CoordinatorAssumption DEF MainNotify, memoryVars, Notifies, Barriers
  <2>3. CASE MainTasksSent \/ MainWait \/ MainRearm \/ MainTxEnd \/ MainNotifyLocal
             \/ MainReturn
    BY <2>3 DEF MainTasksSent, MainWait, MainRearm, MainTxEnd, Took, MainNotifyLocal,
                MainReturn, memoryVars, Quiet
  <2> QED BY <1>3, <2>1, <2>2, <2>3 DEF Run
<1>4. ASSUME NEW n \in Node, Task(n) PROVE Quiet \/ Notifies(n, "completion")
  <2>1. CASE TaskNotify(n) \/ TaskNotifyLast(n)
    BY <2>1 DEF TaskNotify, TaskNotifyLast, memoryVars, Notifies
  <2>2. CASE TaskTxEnd(n) \/ TaskTxEndLast(n) \/ TaskWrite(n)
    BY <2>2 DEF TaskTxEnd, TaskTxEndLast, Took, TaskWrite, Quiet
  <2>3. CASE TaskArm(n) \/ TaskCompute(n) \/ TaskNotifyLocal(n) \/ TaskWait(n) \/ TaskEnd(n)
    BY <2>3 DEF TaskArm, TaskCompute, TaskNotifyLocal, TaskWait, TaskEnd, memoryVars, Quiet
  <2> QED BY <1>4, <2>1, <2>2, <2>3 DEF Task
<1>5. ASSUME NEW r \in Node, NEW p \in Node, Handle(r, p) PROVE Receives(r, p)
  BY <1>5 DEF Handle, HandleTask, HandleNotify, HandleDiff, memoryVars, Receives
<1>6. "completion" \in Barriers
  BY DEF Barriers
<1> QED BY <1>1, <1>2, <1>3, <1>4, <1>5, <1>6 DEF Next

\* The connections after a notification.
LEMMA AfterNotifies ==
  ASSUME TypeOK, NEW w \in Node, NEW b \in Barriers, Notifies(w, b)
  PROVE  /\ \A p, q \in Node : p # w \/ q = w => chan'[p][q] = chan[p][q]
         /\ \A q \in Node : q # w => chan'[w][q] = Append(chan[w][q], NotifyMsg(b))
         /\ NotifyMsg(b) \in Message /\ NotifyMsg(b).type # "DIFF"
         /\ \A p, q \in Node : chan[p][q] \in Seq(Message)
<1>1. NotifyMsg(b) \in Message /\ NotifyMsg(b).type # "DIFF"
  BY CountedMessages DEF Counted, Barriers
<1>2. \A p, q \in Node : chan[p][q] \in Seq(Message)
  BY DEF TypeOK
<1> QED BY <1>1, <1>2, MessageSent DEF Notifies

\* The same after a diff.
LEMMA AfterSendDiff ==
  ASSUME TypeOK, NEW w \in Node, SendDiff(w)
  PROVE  \E diff \in taken[w] :
           /\ diff.results \in SUBSET Nat /\ taken' = [taken EXCEPT ![w] = @ \ {diff}]
           /\ \A p, q \in Node : p # w \/ q = w => chan'[p][q] = chan[p][q]
           /\ \A q \in Node : q # w => chan'[w][q] = Append(chan[w][q], DiffMsg(diff.results))
           /\ diff.by = "ending_last" =>
                /\ tasks[w].ending_last > 0
                /\ tasks' = Moved(w, "ending_last", "ended_last")
           /\ UNCHANGED <<unsent, runs, results, dirty, seen>>
<1>1. PICK diff \in taken[w] :
        /\ chan' = Sent(w, DiffMsg(diff.results))
        /\ taken' = [taken EXCEPT ![w] = @ \ {diff}]
        /\ diff.by = "ending_last" =>
             /\ tasks[w].ending_last > 0
             /\ tasks' = Moved(w, "ending_last", "ended_last")
        /\ UNCHANGED <<unsent, runs, results, dirty, seen>>
  BY DEF SendDiff
<1>2. diff.results \in SUBSET Nat
  BY DEF TypeOK, Diff
<1>3. DiffMsg(diff.results) \in Message
  BY <1>2, CountedMessages
<1> QED BY <1>1, <1>2, <1>3, MessageSent

\* The same after a task was sent.
LEMMA AfterSendsTask ==
  ASSUME TypeOK, NEW p \in Node, SendsTask(p)
  PROVE  /\ \A q, r \in Node : q # Coordinator \/ r # p => chan'[q][r] = chan[q][r]
         /\ chan'[Coordinator][p] = Append(chan[Coordinator][p], TaskMsg)
         /\ TaskMsg \in Message /\ TaskMsg.type # "DIFF"
         /\ \A q, r \in Node : chan[q][r] \in Seq(Message)
<1>1. TaskMsg \in Message /\ TaskMsg.type # "DIFF"
  BY CountedMessages DEF Counted
<1>2. \A q, r \in Node : chan[q][r] \in Seq(Message)
  BY DEF TypeOK
<1> QED BY <1>1, <1>2, TaskSent DEF SendsTask

\* The connections and the copies after a message was taken.
LEMMA AfterReceives ==
  ASSUME TypeOK, NEW r \in Node, NEW p \in Node, Receives(r, p)
  PROVE  /\ \A q, m \in Node : q # p \/ m # r => chan'[q][m] = chan[q][m]
         /\ chan[p][r] # << >> /\ chan'[p][r] = Tail(chan[p][r])
         /\ \A q, m \in Node : q # r \/ m # p => seen'[q][m] = seen[q][m]
         /\ seen'[r][p] = seen[r][p] \cup (IF Head(chan[p][r]).type = "DIFF"
                                           THEN Head(chan[p][r]).results ELSE {})
         /\ \A q, m \in Node : chan[q][m] \in Seq(Message)
<1>1. \A q, m \in Node : chan[q][m] \in Seq(Message)
  BY DEF TypeOK
<1>2. /\ \A q, m \in Node : q # r \/ m # p => seen'[q][m] = seen[q][m]
      /\ seen'[r][p] = seen[r][p] \cup (IF Head(chan[p][r]).type = "DIFF"
                                        THEN Head(chan[p][r]).results ELSE {})
  <2>1. seen \in [Node -> [Node -> SUBSET Nat]]
    BY DEF TypeOK
  <2>2. CASE Head(chan[p][r]).type = "DIFF"
    <3>1. seen' = [seen EXCEPT ![r][p] = @ \cup Head(chan[p][r]).results]
      BY <2>2 DEF Receives, Applied
    <3>2. /\ \A q, m \in Node : q # r \/ m # p => seen'[q][m] = seen[q][m]
          /\ seen'[r][p] = seen[r][p] \cup Head(chan[p][r]).results
      BY <2>1, <3>1
    <3> QED BY <3>2, <2>2
  <2>3. CASE Head(chan[p][r]).type # "DIFF"
    <3>1. seen' = seen
      BY <2>3 DEF Receives
    <3> QED BY <3>1, <2>3
  <2> QED BY <2>2, <2>3
<1>3. chan[p][r] # << >> /\ chan' = Received(p, r)
  BY DEF Receives
<1> QED BY <1>1, <1>2, <1>3, MessageTaken

\* No step loses what is on a connection or in a copy.
LEMMA ReachKept ==
  ASSUME TypeOK, [Next]_vars, NEW n \in Node, NEW m \in Node
  PROVE  Carried(chan[n][m]) \cup seen[m][n] \subseteq Carried(chan'[n][m]) \cup seen'[m][n]
<1>1. chan[n][m] \in Seq(Message)
  BY DEF TypeOK
<1>2. ASSUME NEW e \in Message, chan'[n][m] = Append(chan[n][m], e), seen'[m][n] = seen[m][n]
      PROVE  Carried(chan[n][m]) \cup seen[m][n]
               \subseteq Carried(chan'[n][m]) \cup seen'[m][n]
  <2>1. Carried(chan[n][m]) \subseteq Carried(chan'[n][m])
    BY <1>1, <1>2, CarriedAppend
  <2> QED BY <2>1, <1>2
<1>3. CASE Quiet
  BY <1>3 DEF Quiet
<1>4. ASSUME NEW w \in Node, NEW b \in Barriers, Notifies(w, b)
      PROVE  Carried(chan[n][m]) \cup seen[m][n]
               \subseteq Carried(chan'[n][m]) \cup seen'[m][n]
  <2>1. seen'[m][n] = seen[m][n]
    BY <1>4 DEF Notifies
  <2>2. \/ chan'[n][m] = chan[n][m]
        \/ NotifyMsg(b) \in Message /\ chan'[n][m] = Append(chan[n][m], NotifyMsg(b))
    BY <1>4, AfterNotifies
  <2> QED BY <2>1, <2>2, <1>2
<1>5. ASSUME NEW w \in Node, SendDiff(w)
      PROVE  Carried(chan[n][m]) \cup seen[m][n]
               \subseteq Carried(chan'[n][m]) \cup seen'[m][n]
  <2>1. PICK diff \in taken[w] :
          /\ diff.results \in SUBSET Nat /\ seen' = seen
          /\ \A p, q \in Node : p # w \/ q = w => chan'[p][q] = chan[p][q]
          /\ \A q \in Node : q # w => chan'[w][q] = Append(chan[w][q], DiffMsg(diff.results))
    BY <1>5, AfterSendDiff
  <2>2. DiffMsg(diff.results) \in Message /\ seen'[m][n] = seen[m][n]
    BY <2>1, CountedMessages
  <2>3. \/ chan'[n][m] = chan[n][m]
        \/ chan'[n][m] = Append(chan[n][m], DiffMsg(diff.results))
    BY <2>1
  <2> QED BY <2>2, <2>3, <1>2
<1>6. ASSUME NEW p \in Node, SendsTask(p)
      PROVE  Carried(chan[n][m]) \cup seen[m][n]
               \subseteq Carried(chan'[n][m]) \cup seen'[m][n]
  <2>1. seen'[m][n] = seen[m][n]
    BY <1>6 DEF SendsTask
  <2>2. \/ chan'[n][m] = chan[n][m]
        \/ TaskMsg \in Message /\ chan'[n][m] = Append(chan[n][m], TaskMsg)
    BY <1>6, AfterSendsTask
  <2> QED BY <2>1, <2>2, <1>2
<1>7. ASSUME NEW r \in Node, NEW p \in Node, Receives(r, p)
      PROVE  Carried(chan[n][m]) \cup seen[m][n]
               \subseteq Carried(chan'[n][m]) \cup seen'[m][n]
  <2>1. CASE n = p /\ m = r
    <3>1. /\ chan[n][m] # << >> /\ chan'[n][m] = Tail(chan[n][m])
          /\ seen'[m][n] = seen[m][n] \cup (IF Head(chan[n][m]).type = "DIFF"
                                            THEN Head(chan[n][m]).results ELSE {})
      BY <1>7, <2>1, AfterReceives
    <3>2. Carried(chan[n][m]) \subseteq Carried(chan'[n][m])
            \cup (IF Head(chan[n][m]).type = "DIFF" THEN Head(chan[n][m]).results ELSE {})
      BY <1>1, <3>1, CarriedTail
    <3> QED BY <3>1, <3>2
  <2>2. CASE n # p \/ m # r
    <3>1. chan'[n][m] = chan[n][m] /\ seen'[m][n] = seen[m][n]
      BY <1>7, <2>2, AfterReceives
    <3> QED BY <3>1
  <2> QED BY <2>1, <2>2
<1> QED BY <1>3, <1>4, <1>5, <1>6, <1>7, StepKinds

----------------------------------------------------------------------------
(***************************************************************************)
(* The steps, by what they do to the tasks and the results of a node       *)
(***************************************************************************)
MemoryKept(q) ==
  results'[q] = results[q] /\ dirty'[q] = dirty[q] /\ taken'[q] = taken[q]

LastStages == {"written", "ending_last", "ended_last"}

LastKept(q) == \A x \in LastStages : tasks'[q][x] = tasks[q][x]

StartsKept(q) ==
  tasks'[q].started = tasks[q].started /\ tasks'[q].computing = tasks[q].computing

\* A task that goes on changes the stages that it leaves and enters.
LEMMA StagesMoved ==
  ASSUME TypeOK, NEW n \in Node, NEW s \in Stage, NEW t \in Stage, s # t,
         tasks[n][s] > 0, tasks' = Moved(n, s, t), NEW q \in Node
  PROVE  /\ q # n \/ {s, t} \cap LastStages = {} => LastKept(q)
         /\ q # n \/ {s, t} \cap {"started", "computing"} = {} => StartsKept(q)
<1>1. /\ \A x \in Stage : x # s /\ x # t => tasks'[n][x] = tasks[n][x]
      /\ \A p \in Node : p # n => tasks'[p] = tasks[p]
  BY MovedProperties
<1>2. LastStages \subseteq Stage /\ {"started", "computing"} \subseteq Stage
  BY DEF LastStages, Stage
<1>3. q # n \/ {s, t} \cap LastStages = {} => LastKept(q)
  BY <1>1, <1>2 DEF LastKept
<1>4. q # n \/ {s, t} \cap {"started", "computing"} = {} => StartsKept(q)
  BY <1>1, <1>2 DEF StartsKept
<1> QED BY <1>3, <1>4

\* So does a task that is started.
LEMMA StagesStarted ==
  ASSUME TypeOK, NEW n \in Node, tasks' = [tasks EXCEPT ![n].started = @ + 1],
         NEW q \in Node
  PROVE  LastKept(q) /\ (q # n => StartsKept(q))
<1>1. "started" \in Stage /\ tasks[n].started + 1 \in Nat
  <2>1. tasks[n].started \in Nat
    BY NodeNumbers
  <2> QED BY <2>1 DEF Stage
<1>2. tasks' = [tasks EXCEPT ![n]["started"] = tasks[n].started + 1]
  OBVIOUS
<1>3. /\ tasks' \in [Node -> [Stage -> Nat]]
      /\ tasks'[n].started = tasks[n].started + 1
      /\ \A x \in Stage : x # "started" => tasks'[n][x] = tasks[n][x]
      /\ \A p \in Node : p # n => tasks'[p] = tasks[p]
  BY <1>1, <1>2, StageChanged
<1> QED BY <1>3 DEF LastKept, StartsKept, LastStages, Stage

\* A broadcast changes neither.
LEMMA StagesWoken ==
  ASSUME TypeOK, NEW b \in Barriers, NEW n \in Node, tasks' = Woken(b, n, tasks),
         NEW q \in Node
  PROVE  LastKept(q) /\ StartsKept(q)
<1>1. /\ \A p \in Node : p # n => tasks'[p] = tasks[p]
      /\ \A x \in Stage : x \notin {"waiting", "asleep"} => tasks'[n][x] = tasks[n][x]
  BY WokenProperties
<1> QED BY <1>1 DEF LastKept, StartsKept, LastStages, Stage

\* The transactions that end in the phase of computing have nothing to send: what
\* was written before is in the hands of those that have to notify of it.
LEMMA TakesNothing ==
  ASSUME CountInv, DirtyWritten, NEW n \in Node, TaskTxEnd(n) \/ MainTxEnd
  PROVE  memoryVars' = memoryVars
<1>1. ASSUME NEW m \in Node, Closed PROVE dirty[m] = {}
  <2>1. TasksCounted(m) /\ TypeOK
    BY DEF CountInv
  <2>2. tasks[m].written = 0
    BY <1>1, <2>1, WritingZero DEF TasksCounted
  <2> QED BY <2>2 DEF DirtyWritten
<1>2. CASE TaskTxEnd(n)
  <2>1. Notifying(n) > 0
    <3>1. /\ tasks[n].computed \in Nat /\ tasks[n].ending \in Nat
          /\ tasks[n].ended \in Nat
      BY NodeNumbers DEF CountInv
    <3> QED BY <3>1, <1>2 DEF TaskTxEnd, Notifying
  <2>2. First
    BY <2>1 DEF CountInv, TasksCounted
  <2>3. dirty[n] = {}
    BY <1>1, <2>2 DEF Closed
  <2>4. dirty' = [dirty EXCEPT ![n] = {}] /\ taken' = taken /\ results' = results
        /\ seen' = seen
    BY <1>2, <2>3 DEF TaskTxEnd, Took
  <2>5. dirty' = dirty
    BY <2>3, <2>4 DEF CountInv, TypeOK
  <2> QED BY <2>4, <2>5 DEF memoryVars
<1>3. CASE MainTxEnd
  <2>1. Closed
    BY <1>3 DEF MainTxEnd, MainGoto, Closed
  <2>2. dirty[Coordinator] = {}
    BY <1>1, <2>1, CoordinatorAssumption
  <2>3. dirty' = [dirty EXCEPT ![Coordinator] = {}] /\ taken' = taken
        /\ results' = results /\ seen' = seen
    BY <1>3, <2>2 DEF MainTxEnd, Took
  <2>4. dirty' = dirty
    BY <2>2, <2>3 DEF CountInv, TypeOK
  <2> QED BY <2>3, <2>4 DEF memoryVars
<1> QED BY <1>2, <1>3

\* What a node has written, taken and sent changes with the steps of its own tasks
\* that do so; tasks come to it by MainSendTask and HandleTask.
LEMMA NodeSteps ==
  ASSUME CountInv, DirtyWritten, [Next]_vars, NEW q \in Node
  PROVE  /\ \/ MemoryKept(q) /\ LastKept(q)
            \/ TaskWrite(q) \/ TaskTxEndLast(q) \/ SendDiff(q)
            \/ TaskNotifyLast(q) /\ MemoryKept(q)
         /\ \/ StartsKept(q) \/ TaskArm(q) \/ TaskCompute(q) \/ q = Coordinator
            \/ \E p \in Node : HandleTask(q, p)
<1>1. TypeOK
  BY DEF CountInv
<1>2. /\ "started" \in Stage /\ "computing" \in Stage /\ "computed" \in Stage
      /\ "notified" \in Stage /\ "waiting" \in Stage /\ "asleep" \in Stage
      /\ "writing" \in Stage /\ "written" \in Stage /\ "finishing" \in Stage
      /\ "ending" \in Stage /\ "ended" \in Stage
      /\ "ending_last" \in Stage /\ "ended_last" \in Stage
  BY DEF Stage
<1>3. memoryVars' = memoryVars => MemoryKept(q)
  BY DEF memoryVars, MemoryKept
<1>4. tasks' = tasks => LastKept(q) /\ StartsKept(q)
  BY DEF LastKept, StartsKept
<1>5. CASE UNCHANGED vars \/ MainArm
  BY <1>3, <1>4, <1>5 DEF vars, MainArm
<1>6. CASE Run
  <2>1. ASSUME NEW p \in Node, MainSendTask(p)
        PROVE  MemoryKept(q) /\ LastKept(q) /\ (q = Coordinator \/ StartsKept(q))
    <3>1. /\ memoryVars' = memoryVars
          /\ \/ tasks' = tasks
             \/ p = Coordinator /\ tasks' = [tasks EXCEPT ![p].started = @ + 1]
      BY <2>1 DEF MainSendTask
    <3> QED BY <3>1, <1>1, <1>3, <1>4, StagesStarted
  <2>2. CASE MainNotifyLocal
    BY <2>2, <1>1, <1>3, StagesWoken, CoordinatorAssumption DEF MainNotifyLocal, Barriers
  <2>3. CASE MainTxEnd
    <3>1. memoryVars' = memoryVars /\ tasks' = tasks
      BY <2>3, TakesNothing DEF MainTxEnd
    <3> QED BY <3>1, <1>3, <1>4
  <2>4. CASE MainTasksSent \/ MainWait \/ MainRearm \/ MainNotify \/ MainReturn
    BY <2>4, <1>3, <1>4 DEF MainTasksSent, MainWait, MainRearm, MainNotify, MainReturn
  <2> QED BY <1>6, <2>1, <2>2, <2>3, <2>4 DEF Run
<1>7. ASSUME NEW n \in Node, NEW s \in Stage, NEW t \in Stage, s # t,
             tasks[n][s] > 0, tasks' = Moved(n, s, t), memoryVars' = memoryVars,
             {s, t} \cap LastStages = {}
      PROVE  /\ MemoryKept(q) /\ LastKept(q)
             /\ q # n \/ {s, t} \cap {"started", "computing"} = {} => StartsKept(q)
  BY <1>1, <1>3, <1>7, StagesMoved
<1>8. ASSUME NEW n \in Node, Task(n)
      PROVE  /\ \/ MemoryKept(q) /\ LastKept(q)
                \/ TaskWrite(q) \/ TaskTxEndLast(q)
                \/ TaskNotifyLast(q) /\ MemoryKept(q)
             /\ StartsKept(q) \/ TaskArm(q) \/ TaskCompute(q)
  <2>1. CASE TaskArm(n)
    <3>1. /\ tasks[n].started > 0 /\ tasks' = Moved(n, "started", "computing")
          /\ memoryVars' = memoryVars
      BY <2>1 DEF TaskArm
    <3>2. {"started", "computing"} \cap LastStages = {}
      BY DEF LastStages
    <3> QED BY <3>1, <3>2, <1>2, <1>7, <2>1
  <2>2. CASE TaskCompute(n)
    <3>1. /\ tasks[n].computing > 0 /\ tasks' = Moved(n, "computing", "computed")
          /\ memoryVars' = memoryVars
      BY <2>2 DEF TaskCompute
    <3>2. {"computing", "computed"} \cap LastStages = {}
      BY DEF LastStages
    <3> QED BY <3>1, <3>2, <1>2, <1>7, <2>2
  <2>3. CASE TaskTxEnd(n)
    <3>1. PICK t \in {"ending", "ended"} :
            tasks[n].computed > 0 /\ tasks' = Moved(n, "computed", t)
      BY <2>3 DEF TaskTxEnd, ToSend
    <3>2. memoryVars' = memoryVars
      BY <2>3, TakesNothing
    <3>3. /\ {"computed", t} \cap LastStages = {}
          /\ {"computed", t} \cap {"started", "computing"} = {}
      BY DEF LastStages
    <3> QED BY <3>1, <3>2, <3>3, <1>2, <1>7
  <2>4. CASE TaskNotify(n)
    <3>1. /\ tasks[n].ended > 0 /\ tasks' = Moved(n, "ended", "notified")
          /\ memoryVars' = memoryVars
      BY <2>4 DEF TaskNotify
    <3>2. /\ {"ended", "notified"} \cap LastStages = {}
          /\ {"ended", "notified"} \cap {"started", "computing"} = {}
      BY DEF LastStages
    <3> QED BY <3>1, <3>2, <1>2, <1>7
  <2>5. CASE TaskNotifyLocal(n)
    <3>1. /\ tasks[n].notified > 0 /\ tasks' = Moved(n, "notified", "waiting")
          /\ memoryVars' = memoryVars
      BY <2>5 DEF TaskNotifyLocal
    <3>2. /\ {"notified", "waiting"} \cap LastStages = {}
          /\ {"notified", "waiting"} \cap {"started", "computing"} = {}
      BY DEF LastStages
    <3> QED BY <3>1, <3>2, <1>2, <1>7
  <2>6. CASE TaskWait(n)
    <3>1. PICK t \in {"writing", "asleep"} :
            /\ tasks[n].waiting > 0 /\ tasks' = Moved(n, "waiting", t)
            /\ memoryVars' = memoryVars
      BY <2>6 DEF TaskWait
    <3>2. /\ {"waiting", t} \cap LastStages = {}
          /\ {"waiting", t} \cap {"started", "computing"} = {}
      BY DEF LastStages
    <3> QED BY <3>1, <3>2, <1>2, <1>7
  <2>7. CASE TaskWrite(n)
    <3>1. /\ tasks[n].writing > 0 /\ tasks' = Moved(n, "writing", "written")
          /\ results' = [results EXCEPT ![n] = @ + 1]
          /\ dirty' = [dirty EXCEPT ![n] = @ \cup {results[n] + 1}] /\ taken' = taken
      BY <2>7 DEF TaskWrite
    <3>2. {"writing", "written"} \cap {"started", "computing"} = {}
      OBVIOUS
    <3>3. StartsKept(q) /\ (q # n => LastKept(q))
      BY <3>1, <3>2, <1>1, <1>2, StagesMoved
    <3>4. q # n => MemoryKept(q)
      BY <3>1, <1>1 DEF MemoryKept, TypeOK
    <3> QED BY <3>3, <3>4, <2>7
  <2>8. CASE TaskTxEndLast(n)
    <3>1. PICK t \in {"ending_last", "ended_last"} :
            tasks[n].written > 0 /\ tasks' = Moved(n, "written", t)
      BY <2>8 DEF TaskTxEndLast, ToSend
    <3>2. {"written", t} \cap {"started", "computing"} = {}
      OBVIOUS
    <3>3. StartsKept(q) /\ (q # n => LastKept(q))
      BY <3>1, <3>2, <1>1, <1>2, StagesMoved
    <3>4. q # n => MemoryKept(q)
      BY <2>8, <1>1 DEF TaskTxEndLast, Took, MemoryKept, TypeOK
    <3> QED BY <3>3, <3>4, <2>8
  <2>9. CASE TaskNotifyLast(n)
    <3>1. /\ tasks[n].ended_last > 0 /\ tasks' = Moved(n, "ended_last", "finishing")
          /\ memoryVars' = memoryVars
      BY <2>9 DEF TaskNotifyLast
    <3>2. {"ended_last", "finishing"} \cap {"started", "computing"} = {}
      OBVIOUS
    <3>3. StartsKept(q) /\ (q # n => LastKept(q))
      BY <3>1, <3>2, <1>1, <1>2, StagesMoved
    <3> QED BY <3>1, <3>3, <1>3, <2>9
  <2>10. CASE TaskEnd(n)
    <3>1. tasks[n].finishing > 0 /\ tasks' = Ended(n, "finishing") /\ memoryVars' = memoryVars
      BY <2>10 DEF TaskEnd
    <3>2. tasks[n].finishing - 1 \in Nat
      <4>1. tasks[n].finishing \in Nat
        BY <1>1, NodeNumbers
      <4> QED BY <4>1, <3>1
    <3>3. tasks' = [tasks EXCEPT ![n]["finishing"] = tasks[n].finishing - 1]
      BY <3>1 DEF Ended
    <3>4. /\ \A x \in Stage : x # "finishing" => tasks'[n][x] = tasks[n][x]
          /\ \A p \in Node : p # n => tasks'[p] = tasks[p]
      BY <1>1, <1>2, <3>2, <3>3, StageChanged
    <3>5. LastKept(q) /\ StartsKept(q)
      BY <3>4 DEF LastKept, StartsKept, LastStages, Stage
    <3> QED BY <3>1, <3>5, <1>3
  <2> QED BY <1>8, <2>1, <2>2, <2>3, <2>4, <2>5, <2>6, <2>7, <2>8, <2>9, <2>10 DEF Task
<1>9. ASSUME NEW n \in Node, SendDiff(n)
      PROVE  ((MemoryKept(q) /\ LastKept(q)) \/ SendDiff(q)) /\ StartsKept(q)
  <2>1. PICK diff \in taken[n] :
          /\ taken' = [taken EXCEPT ![n] = @ \ {diff}] /\ results' = results
          /\ dirty' = dirty
          /\ \/ tasks' = tasks
             \/ /\ diff.by # "main" /\ tasks[n][diff.by] > 0
                /\ tasks' = Moved(n, diff.by,
                                  IF diff.by = "ending" THEN "ended" ELSE "ended_last")
    BY <1>9 DEF SendDiff
  <2>2. diff.by \in {"ending", "ending_last", "main"}
    BY <1>1 DEF TypeOK, Diff
  <2>3. q # n => MemoryKept(q)
    BY <2>1, <1>1 DEF MemoryKept, TypeOK
  <2>4. StartsKept(q) /\ (q # n => LastKept(q))
    <3>1. CASE diff.by # "main" /\ tasks' # tasks
      <4> DEFINE s == diff.by
                 t == IF diff.by = "ending" THEN "ended" ELSE "ended_last"
      <4>1. /\ s \in Stage /\ t \in Stage /\ s # t
            /\ {s, t} \cap {"started", "computing"} = {}
        BY <2>2, <3>1, <1>2
      <4>2. tasks[n][s] > 0 /\ tasks' = Moved(n, s, t)
        BY <2>1, <3>1
      <4> HIDE DEF s, t
      <4> QED BY <4>1, <4>2, <1>1, StagesMoved
    <3> QED BY <3>1, <2>1, <1>4
  <2> QED BY <2>3, <2>4, <1>9
<1>10. ASSUME NEW n \in Node, NEW p \in Node, Handle(n, p)
       PROVE  MemoryKept(q) /\ LastKept(q) /\ (StartsKept(q) \/ HandleTask(q, p))
  <2>1. CASE HandleTask(n, p)
    <3>1. tasks' = [tasks EXCEPT ![n].started = @ + 1] /\ memoryVars' = memoryVars
      BY <2>1 DEF HandleTask
    <3> QED BY <3>1, <2>1, <1>1, <1>3, StagesStarted
  <2>2. CASE HandleNotify(n, p)
    <3> DEFINE b == Head(chan[p][n]).barrier
    <3>1. /\ chan[p][n] # << >> /\ Head(chan[p][n]).type = "NOTIFY"
          /\ chan' = Received(p, n) /\ memoryVars' = memoryVars
          /\ tasks' = Woken(b, n, tasks)
      BY <2>2 DEF HandleNotify
    <3>2. b \in Barriers
      BY <1>1, <3>1, MessageTaken, CountedMessages
    <3> HIDE DEF b
    <3> QED BY <1>1, <1>3, <3>1, <3>2, StagesWoken
  <2>3. CASE HandleDiff(n, p)
    BY <2>3, <1>4 DEF HandleDiff, MemoryKept
  <2> QED BY <1>10, <2>1, <2>2, <2>3 DEF Handle
<1> QED BY <1>5, <1>6, <1>8, <1>9, <1>10 DEF Next

\* The steps of NodeSteps in detail.
LEMMA NodeStepsDetail ==
  ASSUME CountInv, DiffsInHand, NEW q \in Node
  PROVE  /\ TaskWrite(q) =>
              /\ tasks'[q].written = tasks[q].written + 1
              /\ tasks'[q].ending_last = tasks[q].ending_last
              /\ tasks'[q].ended_last = tasks[q].ended_last
              /\ results'[q] = results[q] + 1
              /\ dirty'[q] = dirty[q] \cup {results[q] + 1}
              /\ taken'[q] = taken[q] /\ chan' = chan
         /\ TaskTxEndLast(q) =>
              /\ dirty'[q] = {} /\ results'[q] = results[q] /\ chan' = chan
              /\ IF dirty[q] = {}
                 THEN /\ taken'[q] = taken[q]
                      /\ tasks'[q].ending_last = tasks[q].ending_last
                      /\ tasks'[q].ended_last = tasks[q].ended_last + 1
                 ELSE /\ taken'[q] = taken[q]
                           \cup {[by |-> "ending_last", results |-> dirty[q]]}
                      /\ tasks'[q].ending_last = tasks[q].ending_last + 1
                      /\ tasks'[q].ended_last = tasks[q].ended_last
         /\ SendDiff(q) =>
              /\ tasks[q].ending_last > 0
              /\ tasks'[q].written = tasks[q].written
              /\ tasks'[q].ending_last = tasks[q].ending_last - 1
              /\ tasks'[q].ended_last = tasks[q].ended_last + 1
              /\ \A p \in Node : p # q => tasks'[p] = tasks[p]
         /\ TaskNotifyLast(q) =>
              /\ tasks'[q].written = tasks[q].written
              /\ tasks'[q].ending_last = tasks[q].ending_last
<1>1. TypeOK
  BY DEF CountInv
<1>2. /\ "writing" \in Stage /\ "written" \in Stage /\ "finishing" \in Stage
      /\ "ending_last" \in Stage /\ "ended_last" \in Stage
  BY DEF Stage
<1>3. ASSUME TaskWrite(q)
      PROVE  /\ tasks'[q].written = tasks[q].written + 1
             /\ tasks'[q].ending_last = tasks[q].ending_last
             /\ tasks'[q].ended_last = tasks[q].ended_last
             /\ results'[q] = results[q] + 1
             /\ dirty'[q] = dirty[q] \cup {results[q] + 1}
             /\ taken'[q] = taken[q] /\ chan' = chan
  <2>1. /\ tasks[q].writing > 0 /\ tasks' = Moved(q, "writing", "written")
        /\ results' = [results EXCEPT ![q] = @ + 1]
        /\ dirty' = [dirty EXCEPT ![q] = @ \cup {results[q] + 1}]
        /\ taken' = taken /\ chan' = chan
    BY <1>3 DEF TaskWrite
  <2>2. /\ tasks'[q].written = tasks[q].written + 1
        /\ tasks'[q].ending_last = tasks[q].ending_last
        /\ tasks'[q].ended_last = tasks[q].ended_last
    BY <2>1, <1>1, <1>2, MovedProperties
  <2>3. results'[q] = results[q] + 1 /\ dirty'[q] = dirty[q] \cup {results[q] + 1}
    BY <2>1, <1>1 DEF TypeOK
  <2> QED BY <2>1, <2>2, <2>3
<1>4. ASSUME TaskTxEndLast(q)
      PROVE  /\ dirty'[q] = {} /\ results'[q] = results[q] /\ chan' = chan
             /\ IF dirty[q] = {}
                THEN /\ taken'[q] = taken[q]
                     /\ tasks'[q].ending_last = tasks[q].ending_last
                     /\ tasks'[q].ended_last = tasks[q].ended_last + 1
                ELSE /\ taken'[q] = taken[q]
                          \cup {[by |-> "ending_last", results |-> dirty[q]]}
                     /\ tasks'[q].ending_last = tasks[q].ending_last + 1
                     /\ tasks'[q].ended_last = tasks[q].ended_last
  <2>1. /\ tasks[q].written > 0
        /\ tasks' = Moved(q, "written", IF dirty[q] = {} THEN "ended_last" ELSE "ending_last")
        /\ dirty' = [dirty EXCEPT ![q] = {}] /\ results' = results /\ chan' = chan
        /\ taken' = IF dirty[q] = {} THEN taken
                    ELSE [taken EXCEPT ![q] = @ \cup {[by |-> "ending_last",
                                                       results |-> dirty[q]]}]
    BY <1>4 DEF TaskTxEndLast, Took, ToSend
  <2>2. dirty'[q] = {} /\ results'[q] = results[q]
    BY <2>1, <1>1 DEF TypeOK
  <2>3. CASE dirty[q] = {}
    <3>1. tasks' = Moved(q, "written", "ended_last") /\ taken' = taken
      BY <2>1, <2>3
    <3>2. /\ tasks'[q].ending_last = tasks[q].ending_last
          /\ tasks'[q].ended_last = tasks[q].ended_last + 1
      BY <2>1, <3>1, <1>1, <1>2, MovedProperties
    <3> QED BY <2>1, <2>2, <2>3, <3>1, <3>2
  <2>4. CASE dirty[q] # {}
    <3>1. tasks' = Moved(q, "written", "ending_last")
      BY <2>1, <2>4
    <3>2. /\ tasks'[q].ended_last = tasks[q].ended_last
          /\ tasks'[q].ending_last = tasks[q].ending_last + 1
      BY <2>1, <3>1, <1>1, <1>2, MovedProperties
    <3>3. taken'[q] = taken[q] \cup {[by |-> "ending_last", results |-> dirty[q]]}
      BY <2>1, <2>4, <1>1 DEF TypeOK
    <3> QED BY <2>1, <2>2, <2>4, <3>2, <3>3
  <2> QED BY <2>3, <2>4
<1>5. ASSUME SendDiff(q)
      PROVE  /\ tasks[q].ending_last > 0
             /\ tasks'[q].written = tasks[q].written
             /\ tasks'[q].ending_last = tasks[q].ending_last - 1
             /\ tasks'[q].ended_last = tasks[q].ended_last + 1
             /\ \A p \in Node : p # q => tasks'[p] = tasks[p]
  <2>1. tasks[q].ending_last > 0 /\ tasks' = Moved(q, "ending_last", "ended_last")
    BY <1>1, <1>5, AfterSendDiff DEF DiffsInHand
  <2>2. /\ tasks'[q].written = tasks[q].written
        /\ tasks'[q].ending_last = tasks[q].ending_last - 1
        /\ tasks'[q].ended_last = tasks[q].ended_last + 1
        /\ \A p \in Node : p # q => tasks'[p] = tasks[p]
    BY <2>1, <1>1, <1>2, MovedProperties
  <2> QED BY <1>5, <2>1, <2>2
<1>6. ASSUME TaskNotifyLast(q)
      PROVE  /\ tasks'[q].written = tasks[q].written
             /\ tasks'[q].ending_last = tasks[q].ending_last
  <2>1. tasks[q].ended_last > 0 /\ tasks' = Moved(q, "ended_last", "finishing")
    BY <1>6 DEF TaskNotifyLast
  <2>2. /\ tasks'[q].written = tasks[q].written
        /\ tasks'[q].ending_last = tasks[q].ending_last
    BY <2>1, <1>1, <1>2, MovedProperties
  <2> QED BY <1>6, <2>2
<1> QED BY <1>3, <1>4, <1>5, <1>6

----------------------------------------------------------------------------
(***************************************************************************)
(* The parts of the invariant, one by one                                  *)
(***************************************************************************)
\* Results that are not taken belong to a task that has still to take them up.
LEMMA DirtyStep ==
  ASSUME CountInv, DirtyWritten, DiffsInHand, [Next]_vars
  PROVE  DirtyWritten'
<1> SUFFICES ASSUME NEW q \in Node, dirty'[q] # {}
             PROVE  tasks'[q].written > 0
  BY DEF DirtyWritten
<1>1. tasks[q].written \in Nat /\ (dirty[q] # {} => tasks[q].written > 0)
  BY NodeNumbers DEF CountInv, DirtyWritten
<1>2. CASE MemoryKept(q) /\ LastKept(q)
  BY <1>1, <1>2 DEF MemoryKept, LastKept, LastStages
<1>3. CASE TaskWrite(q)
  BY <1>1, <1>3, NodeStepsDetail
<1>4. CASE TaskTxEndLast(q)
  BY <1>4, NodeStepsDetail
<1>5. CASE SendDiff(q)
  <2>1. dirty' = dirty
    BY <1>5 DEF SendDiff
  <2> QED BY <2>1, <1>1, <1>5, NodeStepsDetail
<1>6. CASE TaskNotifyLast(q) /\ MemoryKept(q)
  BY <1>1, <1>6, NodeStepsDetail DEF MemoryKept
<1> QED BY <1>2, <1>3, <1>4, <1>5, <1>6, NodeSteps

\* A diff in hand is in the hands of a task of its own.
LEMMA InHandStep ==
  ASSUME CountInv, DirtyWritten, DiffsInHand, [Next]_vars
  PROVE  DiffsInHand'
<1> SUFFICES ASSUME NEW q \in Node
             PROVE  /\ IsFiniteSet(taken'[q])
                    /\ Cardinality(taken'[q]) <= tasks'[q].ending_last
                    /\ \A diff \in taken'[q] : diff.by = "ending_last"
  BY DEF DiffsInHand
<1>1. /\ IsFiniteSet(taken[q]) /\ Cardinality(taken[q]) <= tasks[q].ending_last
      /\ \A diff \in taken[q] : diff.by = "ending_last"
      /\ Cardinality(taken[q]) \in Nat /\ tasks[q].ending_last \in Nat
  <2>1. IsFiniteSet(taken[q]) /\ Cardinality(taken[q]) <= tasks[q].ending_last
        /\ \A diff \in taken[q] : diff.by = "ending_last"
    BY DEF DiffsInHand
  <2> QED BY <2>1, FS_CardinalityType, NodeNumbers DEF CountInv
<1>2. CASE MemoryKept(q) /\ LastKept(q)
  BY <1>1, <1>2 DEF MemoryKept, LastKept, LastStages
<1>3. CASE TaskWrite(q)
  BY <1>1, <1>3, NodeStepsDetail
<1>4. CASE TaskTxEndLast(q)
  <2> DEFINE diff == [by |-> "ending_last", results |-> dirty[q]]
  <2>1. CASE dirty[q] = {}
    BY <1>1, <1>4, <2>1, NodeStepsDetail
  <2>2. CASE dirty[q] # {}
    <3>1. /\ taken'[q] = taken[q] \cup {diff} /\ diff.by = "ending_last"
          /\ tasks'[q].ending_last = tasks[q].ending_last + 1
      BY <1>4, <2>2, NodeStepsDetail
    <3> HIDE DEF diff
    <3>2. /\ IsFiniteSet(taken[q] \cup {diff})
          /\ Cardinality(taken[q] \cup {diff}) \in
               {Cardinality(taken[q]), Cardinality(taken[q]) + 1}
      BY <1>1, FS_AddElement
    <3>3. Cardinality(taken[q] \cup {diff}) <= tasks[q].ending_last + 1
      BY <1>1, <3>2
    <3> QED BY <1>1, <3>1, <3>2, <3>3
  <2> QED BY <2>1, <2>2
<1>5. CASE SendDiff(q)
  <2>1. PICK diff \in taken[q] : taken' = [taken EXCEPT ![q] = @ \ {diff}]
    BY <1>5 DEF SendDiff
  <2>2. taken'[q] = taken[q] \ {diff}
    BY <2>1 DEF CountInv, TypeOK
  <2>3. /\ IsFiniteSet(taken[q] \ {diff})
        /\ Cardinality(taken[q] \ {diff}) = Cardinality(taken[q]) - 1
    BY <1>1, FS_RemoveElement
  <2>4. tasks'[q].ending_last = tasks[q].ending_last - 1
    BY <1>5, NodeStepsDetail
  <2> QED BY <1>1, <2>2, <2>3, <2>4
<1>6. CASE TaskNotifyLast(q) /\ MemoryKept(q)
  BY <1>1, <1>6, NodeStepsDetail DEF MemoryKept
<1> QED BY <1>2, <1>3, <1>4, <1>5, <1>6, NodeSteps

\* A result that leaves a node goes to all the others.
LEMMA LostStep ==
  ASSUME CountInv, DirtyWritten, DiffsInHand, NothingLost, [Next]_vars
  PROVE  NothingLost'
<1> SUFFICES ASSUME NEW n \in Node, NEW m \in Node, n # m, NEW k \in 1 .. results'[n]
             PROVE  k \in Held(n)' \cup Carried(chan'[n][m]) \cup seen'[m][n]
  BY DEF NothingLost
<1> DEFINE reach == Carried(chan[n][m]) \cup seen[m][n]
           after == Carried(chan'[n][m]) \cup seen'[m][n]
<1>1. TypeOK /\ results[n] \in Nat /\ chan[n][m] \in Seq(Message)
  BY DEF CountInv, TypeOK
<1>2. reach \subseteq after
  BY <1>1, ReachKept
<1>3. k \in 1 .. results[n] => k \in Held(n) \cup reach
  BY DEF NothingLost
<1> HIDE DEF reach
<1>4. CASE MemoryKept(n)
  BY <1>2, <1>3, <1>4 DEF MemoryKept, Held
<1>5. CASE TaskWrite(n)
  <2>1. /\ results'[n] = results[n] + 1 /\ taken'[n] = taken[n]
        /\ dirty'[n] = dirty[n] \cup {results[n] + 1}
    BY <1>5, NodeStepsDetail
  <2>2. CASE k = results[n] + 1
    BY <2>1, <2>2 DEF Held
  <2>3. CASE k # results[n] + 1
    <3>1. k \in 1 .. results[n]
      BY <1>1, <2>1, <2>3
    <3>2. Held(n) \subseteq Held(n)'
      BY <2>1 DEF Held
    <3> QED BY <3>1, <3>2, <1>2, <1>3
  <2> QED BY <2>2, <2>3
<1>6. CASE TaskTxEndLast(n)
  <2>1. results'[n] = results[n]
    BY <1>6, NodeStepsDetail
  <2>2. Held(n) \subseteq Held(n)'
    <3>1. CASE dirty[n] = {}
      <4>1. taken'[n] = taken[n]
        BY <1>6, <3>1, NodeStepsDetail
      <4> QED BY <3>1, <4>1 DEF Held
    <3>2. CASE dirty[n] # {}
      <4> DEFINE diff == [by |-> "ending_last", results |-> dirty[n]]
      <4>1. taken'[n] = taken[n] \cup {diff} /\ diff.results = dirty[n]
        BY <1>6, <3>2, NodeStepsDetail
      <4> HIDE DEF diff
      <4> QED BY <4>1 DEF Held
    <3> QED BY <3>1, <3>2
  <2> QED BY <2>1, <2>2, <1>2, <1>3
<1>7. CASE SendDiff(n)
  <2>1. PICK diff \in taken[n] :
          /\ diff.results \in SUBSET Nat /\ taken' = [taken EXCEPT ![n] = @ \ {diff}]
          /\ chan'[n][m] = Append(chan[n][m], DiffMsg(diff.results))
          /\ results' = results /\ dirty' = dirty
    BY <1>1, <1>7, AfterSendDiff
  <2>2. taken'[n] = taken[n] \ {diff}
    BY <2>1, <1>1 DEF TypeOK
  <2>3. diff.results \subseteq Carried(chan'[n][m])
    <3>1. /\ DiffMsg(diff.results) \in Message /\ DiffMsg(diff.results).type = "DIFF"
          /\ DiffMsg(diff.results).results = diff.results
      BY <2>1, CountedMessages
    <3> QED BY <3>1, <2>1, <1>1, CarriedAppend
  <2>4. Held(n) \subseteq Held(n)' \cup diff.results
    BY <2>1, <2>2 DEF Held
  <2> QED BY <2>1, <2>3, <2>4, <1>2, <1>3
<1> QED BY <1>4, <1>5, <1>6, <1>7, NodeSteps

\* A node counts a result when it writes it.
LEMMA OwnStep ==
  ASSUME CountInv, CountInv', DirtyWritten, DiffsInHand, OwnCount, [Next]_vars
  PROVE  OwnCount'
<1>1. /\ TypeOK /\ MessagesFit /\ \A q \in Node : TasksCounted(q)
      /\ runs \in Nat /\ ThreadsPerNode \in Nat /\ runs * ThreadsPerNode \in Nat
      /\ \A q \in Node : results[q] \in Nat
  <2>1. runs \in Nat /\ ThreadsPerNode \in Nat
    BY ThreadsAssumption DEF CountInv, TypeOK
  <2>2. runs * ThreadsPerNode \in Nat
    BY <2>1, OneMore
  <2> QED BY <2>1, <2>2 DEF CountInv, TypeOK
<1>2. \A q \in Node : ToCompute(q) \in Nat /\ Computed(q) \in Nat
                      /\ tasks[q].writing \in Nat /\ ToWrite(q) \in Nat
  <2>1. ASSUME NEW q \in Node
        PROVE  ToCompute(q) \in Nat /\ Computed(q) \in Nat /\ tasks[q].writing \in Nat
    BY <1>1, NodeNumbers
  <2> QED BY <2>1 DEF ToWrite
<1>3. ASSUME NEW q \in Node PROVE results[q] = runs * ThreadsPerNode - ToWrite(q)
  BY DEF OwnCount
<1>4. CASE MainArm
  <2>1. Idle /\ ~ First /\ runs' = runs + 1 /\ results' = results
    BY <1>4 DEF MainArm, MainGoto, Idle, First, memoryVars
  <2>2. ASSUME NEW q \in Node
        PROVE  results'[q] = runs' * ThreadsPerNode - ToWrite(q)'
    <3>1. ToWrite(q) = 0
      <4>1. ToCompute(q) = 0 /\ Computed(q) = 0 /\ tasks[q].writing = 0
        BY <1>1, <2>1, WritingZero DEF TasksCounted
      <4> QED BY <4>1 DEF ToWrite
    <3>2. ToWrite(q)' = ThreadsPerNode
      <4>1. TasksCounted(q)' /\ Closed' /\ tasks' = tasks
        BY <1>4 DEF CountInv, MainArm, MainGoto, Closed, First
      <4>2. ToCompute(q)' + Computed(q)' = ThreadsPerNode
        BY <4>1 DEF TasksCounted
      <4>3. tasks'[q].writing = 0
        BY <1>1, <2>1, <4>1, WritingZero DEF TasksCounted
      <4> QED BY <4>2, <4>3, <1>1 DEF ToWrite
    <3>3. results[q] = runs * ThreadsPerNode
      BY <1>1, <1>3, <3>1
    <3>4. (runs + 1) * ThreadsPerNode - ThreadsPerNode = runs * ThreadsPerNode
      <4> DEFINE product == runs * ThreadsPerNode
      <4>1. product \in Nat
        BY <1>1
      <4>2. (runs + 1) * ThreadsPerNode = product + ThreadsPerNode
        BY <1>1, OneMore
      <4> HIDE DEF product
      <4>3. (runs + 1) * ThreadsPerNode - ThreadsPerNode = product
        BY <4>1, <4>2, <1>1
      <4> QED BY <4>3 DEF product
    <3> QED BY <2>1, <3>2, <3>3, <3>4
  <2> QED BY <2>2 DEF OwnCount
<1>5. ASSUME NEW n \in Node, TaskWrite(n), Written(n) PROVE OwnCount'
  <2>1. runs' = runs /\ results' = [results EXCEPT ![n] = @ + 1]
    BY <1>5 DEF TaskWrite
  <2>2. ASSUME NEW q \in Node
        PROVE  results'[q] = runs' * ThreadsPerNode - ToWrite(q)'
    <3> DEFINE product == runs * ThreadsPerNode
    <3>1. product \in Nat /\ results[q] = product - ToWrite(q)
      BY <1>1, <1>3
    <3> HIDE DEF product
    <3>2. results'[q] = product - ToWrite(q)'
      <4>1. CASE q = n
        <5>1. ToWrite(q)' = ToWrite(q) - 1
          BY <1>5, <4>1 DEF Written
        <5>2. results'[q] = results[q] + 1
          BY <1>1, <2>1, <4>1 DEF TypeOK
        <5>3. results[q] \in Nat /\ ToWrite(q) \in Nat
          BY <1>1, <1>2
        <5> QED BY <5>1, <5>2, <5>3, <3>1
      <4>2. CASE q # n
        <5>1. ToWrite(q)' = ToWrite(q)
          BY <1>5, <4>2 DEF Written
        <5>2. results'[q] = results[q]
          BY <1>1, <2>1, <4>2 DEF TypeOK
        <5> QED BY <5>1, <5>2, <3>1
      <4> QED BY <4>1, <4>2
    <3> QED BY <3>2, <2>1 DEF product
  <2> QED BY <2>2 DEF OwnCount
<1>6. ASSUME WritingKept, runs' = runs, results' = results
      PROVE  OwnCount'
  <2>1. ASSUME NEW q \in Node
        PROVE  results'[q] = runs' * ThreadsPerNode - ToWrite(q)'
    <3>1. ToWrite(q)' = ToWrite(q) /\ results'[q] = results[q] /\ runs' = runs
      BY <1>6 DEF WritingKept
    <3> QED BY <3>1, <1>3
  <2> QED BY <2>1 DEF OwnCount
<1>7. CASE UNCHANGED vars
  <2>1. /\ chan' = chan /\ tasks' = tasks /\ unsent' = unsent /\ runs' = runs
        /\ results' = results
    BY <1>7 DEF vars, memoryVars
  <2>2. WritingKept
    BY <1>1, <2>1, SumsOfKept DEF WritingKept, ToWrite
  <2> QED BY <2>1, <2>2, <1>6
<1>8. CASE Run
  <2>1. runs' = runs /\ results' = results /\ main # "out"
    BY <1>8 DEF Run, MainSendTask, MainTasksSent, MainWait, MainRearm, MainTxEnd, Took,
                MainNotify, MainNotifyLocal, MainReturn, MainGoto, memoryVars
  <2>2. WritingKept
    BY <1>8, <2>1, PhaseRun DEF MainArm, MainGoto
  <2> QED BY <2>1, <2>2, <1>6
<1>9. ASSUME NEW n \in Node, Task(n) PROVE OwnCount'
  <2>1. CASE TaskWrite(n)
    <3>1. Written(n)
      BY <1>9, <2>1, PhaseTask
    <3> QED BY <2>1, <3>1, <1>5
  <2>2. CASE ~ TaskWrite(n)
    <3>1. WritingKept
      BY <1>9, <2>2, PhaseTask
    <3>2. runs' = runs /\ results' = results
      BY <1>9, <2>2 DEF Task, TaskArm, TaskCompute, TaskTxEnd, TaskNotify, TaskNotifyLocal,
                        TaskWait, TaskTxEndLast, Took, TaskNotifyLast, TaskEnd, memoryVars
    <3> QED BY <3>1, <3>2, <1>6
  <2> QED BY <2>1, <2>2
<1>10. ASSUME NEW n \in Node, SendDiff(n) PROVE OwnCount'
  <2>1. WritingKept
    BY <1>10, PhaseSendDiff
  <2>2. runs' = runs /\ results' = results
    BY <1>10 DEF SendDiff
  <2> QED BY <2>1, <2>2, <1>6
<1>11. ASSUME NEW n \in Node, NEW p \in Node, Handle(n, p) PROVE OwnCount'
  <2>1. WritingKept
    BY <1>11, PhaseHandle
  <2>2. runs' = runs /\ results' = results
    BY <1>11 DEF Handle, HandleTask, HandleNotify, HandleDiff, memoryVars
  <2> QED BY <2>1, <2>2, <1>6
<1> QED BY <1>4, <1>7, <1>8, <1>9, <1>10, <1>11 DEF Next

\* A task that has sent a diff has still to notify; the notification comes after.
LEMMA NotifyStep ==
  ASSUME CountInv, CountInv', DirtyWritten, DiffsInHand, DiffBeforeNotify, [Next]_vars
  PROVE  DiffBeforeNotify'
<1>1. TypeOK /\ MessagesFit' /\ Coordinator \in Node
  BY CoordinatorAssumption DEF CountInv
<1> SUFFICES ASSUME NEW q \in Node
             PROVE  BeforeNotify(chan'[q][Coordinator]) \/ tasks'[q].ended_last > 0
  BY DEF DiffBeforeNotify
<1> DEFINE c == chan[q][Coordinator]
           d == chan'[q][Coordinator]
<1>2. /\ c \in Seq(Message) /\ tasks[q].ended_last \in Nat
      /\ BeforeNotify(c) \/ tasks[q].ended_last > 0
  <2>1. c \in Seq(Message)
    BY <1>1 DEF TypeOK
  <2>2. tasks[q].ended_last \in Nat
    BY <1>1, NodeNumbers
  <2> QED BY <2>1, <2>2 DEF DiffBeforeNotify
<1>3. CASE q = Coordinator
  <2>1. d = << >>
    BY <1>1, <1>3 DEF MessagesFit
  <2> QED BY <2>1 DEF BeforeNotify, DiffsOf
<1>4. CASE TaskNotifyLast(q) /\ q # Coordinator
  <2>1. d = Append(c, NotifyMsg("completion"))
    <3>1. /\ chan' = Sent(q, NotifyMsg("completion"))
          /\ NotifyMsg("completion") \in Message
      BY <1>4, CountedMessages DEF TaskNotifyLast, Counted
    <3> QED BY <3>1, <1>1, <1>4, MessageSent
  <2>2. BeforeNotify(d)
    <3> HIDE DEF c, d
    <3> QED BY <2>1, <1>2, NotifyAppend
  <2> QED BY <2>2
<1>5. CASE SendDiff(q)
  BY <1>2, <1>5, NodeStepsDetail
<1>6. CASE TaskWrite(q) \/ TaskTxEndLast(q)
  <2>1. /\ chan' = chan
        /\ tasks'[q].ended_last \in {tasks[q].ended_last, tasks[q].ended_last + 1}
    BY <1>6, NodeStepsDetail
  <2> QED BY <2>1, <1>2
<1>7. CASE LastKept(q) /\ ~ SendDiff(q) /\ q # Coordinator
  <2>1. tasks'[q].ended_last = tasks[q].ended_last
    BY <1>7 DEF LastKept, LastStages
  <2>2. ASSUME BeforeNotify(c) PROVE BeforeNotify(d)
    <3>1. CASE Quiet
      BY <2>2, <3>1 DEF Quiet
    <3>2. ASSUME NEW w \in Node, NEW b \in Barriers, Notifies(w, b) PROVE BeforeNotify(d)
      <4>1. CASE w # q
        BY <1>1, <2>2, <3>2, <4>1, AfterNotifies
      <4>2. CASE w = q
        <5>1. b = "completion"
          BY <1>7, <3>2, <4>2 DEF Notifies, Barriers
        <5>2. d = Append(c, NotifyMsg("completion"))
          BY <1>1, <1>7, <3>2, <4>2, <5>1, AfterNotifies
        <5> HIDE DEF c, d
        <5> QED BY <5>2, <1>2, NotifyAppend
      <4> QED BY <4>1, <4>2
    <3>3. ASSUME NEW w \in Node, SendDiff(w) PROVE BeforeNotify(d)
      <4>1. w # q
        BY <1>7, <3>3
      <4>2. d = c
        BY <1>1, <3>3, <4>1, AfterSendDiff
      <4> QED BY <4>2, <2>2
    <3>4. ASSUME NEW p \in Node, SendsTask(p) PROVE BeforeNotify(d)
      BY <1>1, <1>7, <2>2, <3>4, AfterSendsTask
    <3>5. ASSUME NEW r \in Node, NEW p \in Node, Receives(r, p) PROVE BeforeNotify(d)
      <4>1. CASE q = p /\ r = Coordinator
        <5>1. c # << >> /\ d = Tail(c)
          BY <1>1, <3>5, <4>1, AfterReceives
        <5> HIDE DEF c, d
        <5> QED BY <5>1, <1>2, <2>2, NotifyTail
      <4>2. CASE q # p \/ r # Coordinator
        BY <1>1, <2>2, <3>5, <4>2, AfterReceives
      <4> QED BY <4>1, <4>2
    <3> HIDE DEF c, d
    <3> QED BY <3>1, <3>2, <3>3, <3>4, <3>5, StepKinds
  <2> QED BY <2>1, <2>2, <1>2
<1> QED BY <1>3, <1>4, <1>5, <1>6, <1>7, NodeSteps

\* How run_simulation comes to a stage of a class.
LEMMA StageMoves ==
  ASSUME CountInv, [Next]_vars
  PROVE  Closed' \/ Idle' => Closed \/ Idle \/ main' = "reading"
<1>1. TypeOK /\ main \in MainValues
  BY DEF CountInv, TypeOK, MainValues
<1>2. CASE MainArm
  BY <1>2 DEF MainArm, MainGoto, Idle
<1>3. CASE SameStage
  BY <1>3 DEF SameStage
<1>4. CASE Run
  <2>1. ASSUME NEW p \in Node, MainSendTask(p) PROVE SameStage
    BY <1>1, <2>1, MainKept DEF MainSendTask
  <2>2. CASE MainTasksSent \/ MainWait \/ MainRearm \/ MainTxEnd \/ MainNotify
             \/ MainNotifyLocal \/ MainReturn
    BY <2>2 DEF MainTasksSent, MainWait, MainRearm, MainTxEnd, MainNotify,
                MainNotifyLocal, MainReturn, MainGoto, First, Closed, Idle
  <2> QED BY <1>3, <1>4, <2>1, <2>2 DEF Run
<1>5. ASSUME NEW n \in Node, Task(n) PROVE SameStage
  <2>1. main' = main \/ main' = MainWoken("completion", n)
    BY <1>5 DEF Task, TaskArm, TaskCompute, TaskTxEnd, TaskNotify, TaskNotifyLocal,
                TaskWait, TaskWrite, TaskTxEndLast, TaskNotifyLast, TaskEnd
  <2> QED BY <1>1, <2>1, MainKept DEF Barriers
<1>6. ASSUME NEW n \in Node, SendDiff(n) PROVE Closed' \/ Idle' => Closed \/ Idle
  BY <1>6 DEF SendDiff, MainGoto, Closed, First, Idle
<1>7. ASSUME NEW n \in Node, NEW p \in Node, Handle(n, p) PROVE SameStage
  <2>1. CASE HandleNotify(n, p)
    <3>1. /\ chan[p][n] # << >> /\ Head(chan[p][n]).type = "NOTIFY"
          /\ chan' = Received(p, n) /\ main' = MainWoken(Head(chan[p][n]).barrier, n)
      BY <2>1 DEF HandleNotify
    <3>2. Head(chan[p][n]).barrier \in Barriers
      BY <1>1, <3>1, MessageTaken, CountedMessages
    <3> QED BY <1>1, <3>1, <3>2, MainKept
  <2>2. CASE HandleTask(n, p) \/ HandleDiff(n, p)
    BY <1>1, <2>2, MainKept DEF HandleTask, HandleDiff
  <2> QED BY <1>7, <2>1, <2>2 DEF Handle
<1>8. CASE UNCHANGED vars
  BY <1>1, <1>3, <1>8, MainKept DEF vars
<1> QED BY <1>2, <1>3, <1>4, <1>5, <1>6, <1>7, <1>8 DEF Next

\* A node sends a diff while run_simulation awaits its last notifications only.
LEMMA SendsWhenOpened ==
  ASSUME CountInv, DiffsInHand, NEW q \in Node, SendDiff(q)
  PROVE  ~ Closed /\ ~ Idle /\ ~ First
<1>1. TypeOK /\ TasksCounted(q)
  BY DEF CountInv
<1>2. tasks[q].ending_last > 0
  BY NodeStepsDetail
<1>3. Writing(q) # 0
  BY <1>1, <1>2, WritingZero
<1> QED BY <1>1, <1>3 DEF TasksCounted, Closed

\* When all notifications have been counted, all diffs have been taken.
LEMMA TakenStep ==
  ASSUME CountInv, CountInv', DirtyWritten, DiffsInHand, DiffBeforeNotify', DiffsTaken,
         [Next]_vars
  PROVE  DiffsTaken'
<1>1. TypeOK /\ Coordinator \in Node
  BY CoordinatorAssumption DEF CountInv
<1> SUFFICES ASSUME Closed' \/ Idle', NEW q \in Node
             PROVE  DiffsOf(chan'[q][Coordinator]) = {}
  BY DEF DiffsTaken
<1>2. CASE main' = "reading"
  <2>1. EntriesMatch(q)' /\ TasksCounted(q)' /\ Idle'
    BY <1>2 DEF CountInv, Idle
  <2>2. Completions(q)' = 0 /\ Writing(q)' = 0
    BY <2>1 DEF EntriesMatch, TasksCounted
  <2>3. /\ chan'[q][Coordinator] \in Seq(Message)
        /\ tasks'[q].writing \in Nat /\ tasks'[q].written \in Nat
        /\ tasks'[q].ending_last \in Nat /\ tasks'[q].ended_last \in Nat
    <3>1. /\ chan' \in [Node -> [Node -> Seq(Message)]]
          /\ tasks' \in [Node -> [Stage -> Nat]]
      BY DEF CountInv, TypeOK
    <3>2. /\ "writing" \in Stage /\ "written" \in Stage
          /\ "ending_last" \in Stage /\ "ended_last" \in Stage
      BY DEF Stage
    <3> QED BY <3>1, <3>2, <1>1
  <2>4. Occurrences(chan'[q][Coordinator], NotifyMsg("completion")) = {}
    BY <2>2, <2>3, OccurrencesFinite, InFlightOccurrences DEF Completions
  <2>5. tasks'[q].writing + tasks'[q].written + tasks'[q].ending_last
          + tasks'[q].ended_last = 0
    BY <2>2 DEF Writing
  <2>6. tasks'[q].ended_last = 0
    BY <2>3, <2>5, ZeroSum
  <2>7. BeforeNotify(chan'[q][Coordinator])
    BY <2>6 DEF DiffBeforeNotify
  <2> QED BY <2>4, <2>7 DEF Occurrences, BeforeNotify
<1>3. CASE Closed \/ Idle
  <2>1. DiffsOf(chan[q][Coordinator]) = {} /\ chan[q][Coordinator] \in Seq(Message)
    BY <1>1, <1>3 DEF DiffsTaken, TypeOK
  <2>2. ASSUME NEW e \in Message, e.type # "DIFF",
               chan'[q][Coordinator] = Append(chan[q][Coordinator], e)
        PROVE  DiffsOf(chan'[q][Coordinator]) = {}
    BY <2>1, <2>2, DiffsAppend
  <2>3. CASE Quiet
    BY <2>1, <2>3 DEF Quiet
  <2>4. ASSUME NEW w \in Node, NEW b \in Barriers, Notifies(w, b)
        PROVE  DiffsOf(chan'[q][Coordinator]) = {}
    <3>1. \/ chan'[q][Coordinator] = chan[q][Coordinator]
          \/ /\ chan'[q][Coordinator] = Append(chan[q][Coordinator], NotifyMsg(b))
             /\ NotifyMsg(b) \in Message /\ NotifyMsg(b).type # "DIFF"
      BY <1>1, <2>4, AfterNotifies
    <3> QED BY <3>1, <2>1, <2>2
  <2>5. ASSUME NEW w \in Node, SendDiff(w) PROVE FALSE
    BY <1>3, <2>5, SendsWhenOpened
  <2>6. ASSUME NEW p \in Node, SendsTask(p) PROVE DiffsOf(chan'[q][Coordinator]) = {}
    <3>1. \/ chan'[q][Coordinator] = chan[q][Coordinator]
          \/ /\ chan'[q][Coordinator] = Append(chan[q][Coordinator], TaskMsg)
             /\ TaskMsg \in Message /\ TaskMsg.type # "DIFF"
      BY <1>1, <2>6, AfterSendsTask
    <3> QED BY <3>1, <2>1, <2>2
  <2>7. ASSUME NEW r \in Node, NEW p \in Node, Receives(r, p)
        PROVE  DiffsOf(chan'[q][Coordinator]) = {}
    <3>1. CASE q = p /\ r = Coordinator
      <4>1. /\ chan[q][Coordinator] # << >>
            /\ chan'[q][Coordinator] = Tail(chan[q][Coordinator])
        BY <1>1, <2>7, <3>1, AfterReceives
      <4> QED BY <4>1, <2>1, DiffsTail
    <3>2. CASE q # p \/ r # Coordinator
      BY <1>1, <2>1, <2>7, <3>2, AfterReceives
    <3> QED BY <3>1, <3>2
  <2> QED BY <2>3, <2>4, <2>5, <2>6, <2>7, StepKinds
<1> QED BY <1>2, <1>3, StageMoves

\* Where tasks are neither on the way nor started, a diff may be sent to q.
LEMMA NoTaskLeft ==
  ASSUME CountInv, ~ First, NEW q \in Node
  PROVE  /\ tasks[q].started = 0 /\ tasks[q].computing = 0
         /\ \A k \in DOMAIN chan[Coordinator][q] : chan[Coordinator][q][k] # TaskMsg
<1>1. TypeOK /\ Coordinator \in Node /\ TasksCounted(q)
  BY CoordinatorAssumption DEF CountInv
<1>2. ToCompute(q) = 0
  BY <1>1 DEF TasksCounted
<1>3. /\ unsent[q] \in Nat /\ InFlight(Coordinator, q, TaskMsg) \in Nat
      /\ tasks[q].started \in Nat /\ tasks[q].computing \in Nat
  BY <1>1, NodeNumbers
<1>4. unsent[q] + InFlight(Coordinator, q, TaskMsg)
        + tasks[q].started + tasks[q].computing = 0
  BY <1>2 DEF ToCompute
<1>5. /\ InFlight(Coordinator, q, TaskMsg) = 0
      /\ tasks[q].started = 0 /\ tasks[q].computing = 0
  BY <1>3, <1>4, ZeroSum
<1> QED BY <1>1, <1>5, InFlightCount

\* A task comes to a node other than the coordinator by its message only.
LEMMA TasksReach ==
  ASSUME CountInv, DirtyWritten, [Next]_vars, NEW q \in Node, q # Coordinator,
         tasks'[q].started + tasks'[q].computing > 0
  PROVE  tasks[q].started + tasks[q].computing > 0 \/ \E p \in Node : HandleTask(q, p)
<1>1. TypeOK /\ tasks[q].started \in Nat /\ tasks[q].computing \in Nat
  BY NodeNumbers DEF CountInv
<1>2. CASE StartsKept(q)
  BY <1>2 DEF StartsKept
<1>3. CASE TaskArm(q) \/ TaskCompute(q)
  BY <1>1, <1>3 DEF TaskArm, TaskCompute
<1> QED BY <1>2, <1>3, NodeSteps

\* The coordinator sends its results of the run before ahead of the tasks.
LEMMA OrderStep ==
  ASSUME CountInv, DirtyWritten, DiffsInHand, DiffBeforeTask, [Next]_vars
  PROVE  DiffBeforeTask'
<1>1. TypeOK /\ MessagesFit /\ Coordinator \in Node
  BY CoordinatorAssumption DEF CountInv
<1> SUFFICES ASSUME NEW q \in Node \ {Coordinator}
             PROVE  /\ BeforeTasks(chan'[Coordinator][q])
                    /\ tasks'[q].started + tasks'[q].computing > 0
                         => DiffsOf(chan'[Coordinator][q]) = {}
  BY DEF DiffBeforeTask
<1> DEFINE c == chan[Coordinator][q]
           d == chan'[Coordinator][q]
<1>2. /\ BeforeTasks(c) /\ c \in Seq(Message)
      /\ tasks[q].started + tasks[q].computing > 0 => DiffsOf(c) = {}
  <2>1. c \in Seq(Message)
    BY <1>1 DEF TypeOK
  <2> QED BY <2>1 DEF DiffBeforeTask
<1>3. ASSUME SendDiff(Coordinator)
      PROVE  BeforeTasks(d) /\ ~ tasks'[q].started + tasks'[q].computing > 0
  <2>1. PICK diff \in taken[Coordinator] :
          /\ diff.results \in SUBSET Nat /\ d = Append(c, DiffMsg(diff.results))
    BY <1>1, <1>3, AfterSendDiff
  <2>2. DiffMsg(diff.results) \in Message /\ DiffMsg(diff.results) # TaskMsg
    BY <2>1, CountedMessages DEF Counted
  <2>3. /\ tasks[q].started = 0 /\ tasks[q].computing = 0
        /\ \A k \in DOMAIN c : c[k] # TaskMsg
    BY <1>1, <1>3, SendsWhenOpened, NoTaskLeft
  <2>4. tasks'[q] = tasks[q]
    BY <1>1, <1>3, NodeStepsDetail
  <2>5. BeforeTasks(d)
    <3> HIDE DEF c, d
    <3>1. \A k \in DOMAIN d : d[k] # TaskMsg
      BY <1>2, <2>1, <2>2, <2>3, TasksNone
    <3> QED BY <3>1 DEF BeforeTasks
  <2> QED BY <2>3, <2>4, <2>5
<1>4. ASSUME NEW e \in Message, e.type # "DIFF", d = Append(c, e)
      PROVE  BeforeTasks(d) /\ (DiffsOf(c) = {} => DiffsOf(d) = {})
  <2> HIDE DEF c, d
  <2> QED BY <1>2, <1>4, TasksAppend, DiffsAppend
<1>5. ASSUME NEW w \in Node, NEW b \in Barriers, Notifies(w, b)
      PROVE  BeforeTasks(d) /\ (DiffsOf(c) = {} => DiffsOf(d) = {})
  <2>1. \/ d = c
        \/ /\ d = Append(c, NotifyMsg(b))
           /\ NotifyMsg(b) \in Message /\ NotifyMsg(b).type # "DIFF"
    BY <1>1, <1>5, AfterNotifies
  <2> HIDE DEF c, d
  <2> QED BY <2>1, <1>2, <1>4
<1>6. ASSUME NEW p \in Node, SendsTask(p)
      PROVE  BeforeTasks(d) /\ (DiffsOf(c) = {} => DiffsOf(d) = {})
  <2>1. \/ d = c
        \/ d = Append(c, TaskMsg) /\ TaskMsg \in Message /\ TaskMsg.type # "DIFF"
    BY <1>1, <1>6, AfterSendsTask
  <2> HIDE DEF c, d
  <2> QED BY <2>1, <1>2, <1>4
<1>7. ASSUME NEW r \in Node, NEW p \in Node, Receives(r, p)
      PROVE  BeforeTasks(d) /\ (DiffsOf(c) = {} => DiffsOf(d) = {})
  <2>1. d = c \/ (c # << >> /\ d = Tail(c))
    <3>1. CASE p = Coordinator /\ r = q
      BY <1>1, <1>7, <3>1, AfterReceives
    <3>2. CASE p # Coordinator \/ r # q
      BY <1>1, <1>7, <3>2, AfterReceives
    <3> QED BY <3>1, <3>2
  <2> HIDE DEF c, d
  <2> QED BY <2>1, <1>2, TasksTail
<1>8. ASSUME NEW w \in Node \ {Coordinator}, SendDiff(w) PROVE d = c
  BY <1>1, <1>8, AfterSendDiff
<1>9. \/ SendDiff(Coordinator)
      \/ BeforeTasks(d) /\ (DiffsOf(c) = {} => DiffsOf(d) = {})
  <2>1. Quiet => d = c
    BY DEF Quiet
  <2> HIDE DEF c, d
  <2> QED BY <2>1, <1>2, <1>5, <1>6, <1>7, <1>8, StepKinds
<1>10. ASSUME NEW p \in Node, HandleTask(q, p) PROVE DiffsOf(d) = {}
  <2>1. /\ chan[p][q] # << >> /\ chan' = Received(p, q) /\ Head(chan[p][q]).type = "TASK"
    BY <1>10 DEF HandleTask
  <2>2. Head(chan[p][q]) = TaskMsg
    BY <1>1, <2>1, MessageTaken, CountedMessages
  <2>3. p = Coordinator
    BY <1>1, <2>1, <2>2, FitTaken
  <2>4. d = Tail(c) /\ c # << >> /\ Head(c) = TaskMsg
    BY <1>1, <2>1, <2>2, <2>3, MessageTaken
  <2> HIDE DEF c, d
  <2> QED BY <2>4, <1>2, TasksTail
<1>11. ASSUME ~ SendDiff(Coordinator), tasks'[q].started + tasks'[q].computing > 0
      PROVE  DiffsOf(d) = {}
  <2>1. CASE tasks[q].started + tasks[q].computing > 0
    BY <1>2, <1>9, <1>11, <2>1
  <2> QED BY <1>10, <1>11, <2>1, TasksReach
<1> QED BY <1>3, <1>9, <1>11

----------------------------------------------------------------------------
(***************************************************************************)
(* The results are where they are needed                                   *)
(***************************************************************************)
\* Before the first run there are no results.
LEMMA DataInit ==
  ASSUME Init
  PROVE  DataInv
<1>1. /\ CountInv /\ TypeOK /\ Idle /\ ~ First /\ runs = 0
      /\ \A p, q \in Node : chan[p][q] = << >>
      /\ \A p \in Node : results[p] = 0 /\ dirty[p] = {} /\ taken[p] = {}
  BY CountInit DEF Init, Idle, First, NoEntry, CountInv
<1>2. \A p, q \in Node : DiffsOf(chan[p][q]) = {}
  BY <1>1 DEF DiffsOf
<1>3. OwnCount
  <2>1. 0 * ThreadsPerNode = 0
    BY ThreadsAssumption
  <2>2. ASSUME NEW n \in Node PROVE ToWrite(n) = 0
    <3>1. ToCompute(n) = 0 /\ Computed(n) = 0 /\ tasks[n].writing = 0
      BY <1>1, WritingZero DEF CountInv, TasksCounted
    <3> QED BY <3>1 DEF ToWrite
  <2>3. runs * ThreadsPerNode = 0
    BY <1>1, <2>1
  <2> QED BY <1>1, <2>2, <2>3 DEF OwnCount
<1>4. DirtyWritten
  BY <1>1 DEF DirtyWritten
<1>5. DiffsInHand
  <2>1. IsFiniteSet({}) /\ Cardinality({}) = 0
    BY FS_EmptySet
  <2>2. ASSUME NEW n \in Node
        PROVE  /\ IsFiniteSet(taken[n]) /\ taken[n] = {}
               /\ Cardinality(taken[n]) <= tasks[n].ending_last
    <3>1. tasks[n].ending_last \in Nat /\ taken[n] = {}
      BY <1>1, NodeNumbers
    <3> QED BY <2>1, <3>1
  <2> QED BY <2>2 DEF DiffsInHand
<1>6. NothingLost
  <2>1. \A k \in Nat : k \notin 1 .. 0
    OBVIOUS
  <2> QED BY <1>1, <2>1 DEF NothingLost
<1>7. DiffBeforeNotify /\ DiffsTaken /\ DiffBeforeTask
  BY <1>2, CoordinatorAssumption
     DEF DiffBeforeNotify, BeforeNotify, DiffsTaken, DiffBeforeTask, BeforeTasks
<1> QED BY <1>3, <1>4, <1>5, <1>6, <1>7 DEF DataInv

\* Every step keeps where the results are.
LEMMA DataNext ==
  ASSUME CountInv, CountInv', DataInv, [Next]_vars
  PROVE  DataInv'
<1>1. /\ OwnCount /\ DirtyWritten /\ DiffsInHand /\ NothingLost
      /\ DiffBeforeNotify /\ DiffsTaken /\ DiffBeforeTask
  BY DEF DataInv
<1>2. OwnCount'
  BY <1>1, OwnStep
<1>3. DirtyWritten'
  BY <1>1, DirtyStep
<1>4. DiffsInHand'
  BY <1>1, InHandStep
<1>5. NothingLost'
  BY <1>1, LostStep
<1>6. DiffBeforeNotify'
  BY <1>1, NotifyStep
<1>7. DiffsTaken'
  BY <1>1, <1>6, TakenStep
<1>8. DiffBeforeTask'
  BY <1>1, OrderStep
<1> QED BY <1>2, <1>3, <1>4, <1>5, <1>6, <1>7, <1>8 DEF DataInv

\* In every reachable state a result of a task is in its own node's hands, on its
\* way to each other node, or there, and a diff for the coordinator is followed by
\* a notification of its sender.
THEOREM ResultsOnTheirWay == Spec => []DataInv
<1>1. Init => DataInv
  BY DataInit
<1>2. CountInv /\ CountInv' /\ DataInv /\ [Next]_vars => DataInv'
  BY DataNext
<1> QED BY <1>1, <1>2, CountsHold, PTL DEF Spec

\* What a node has written when it holds nothing back has left it.
LEMMA AllSent ==
  ASSUME CountInv, DataInv, NEW n \in Node, Writing(n) = 0
  PROVE  /\ results[n] = runs * ThreadsPerNode - ToWrite(n)
         /\ \A m \in Node : n # m =>
              1 .. results[n] \subseteq OnTheWay(n, m) \cup seen[m][n]
<1>1. TypeOK /\ tasks[n].written = 0 /\ tasks[n].ending_last = 0
  BY WritingZero DEF CountInv
<1>2. dirty[n] = {}
  BY <1>1 DEF DataInv, DirtyWritten
<1>3. taken[n] = {}
  <2>1. IsFiniteSet(taken[n]) /\ Cardinality(taken[n]) <= 0
    BY <1>1 DEF DataInv, DiffsInHand
  <2> QED BY <2>1, FS_CardinalityType, FS_EmptySet
<1>4. Held(n) = {}
  BY <1>2, <1>3 DEF Held
<1>5. \A m \in Node : OnTheWay(n, m) = Carried(chan[n][m])
  BY DEF OnTheWay, Carried, DiffsOf
<1> QED BY <1>4, <1>5 DEF DataInv, OwnCount, NothingLost

\* The results that run_simulation returns are those of every task of every run,
\* of all nodes, and of this run too, although a task may notify while its result
\* is in the diff that another thread of its node has not sent yet.
THEOREM AllResultsRead == Spec => []ReadsLatest
<1>1. ASSUME CountInv, DataInv PROVE ReadsLatest
  <2> SUFFICES ASSUME main = "reading", NEW m \in Node
               PROVE  1 .. runs * ThreadsPerNode \subseteq Copy(Coordinator, m)
    BY DEF ReadsLatest
  <2>1. TypeOK /\ Idle /\ ~ First /\ Coordinator \in Node
    BY <1>1, CoordinatorAssumption DEF CountInv, Idle, First
  <2>2. ToCompute(m) = 0 /\ Computed(m) = 0 /\ Writing(m) = 0
    BY <1>1, <2>1 DEF CountInv, TasksCounted
  <2>3. ToWrite(m) = 0
    BY <2>1, <2>2, WritingZero DEF ToWrite
  <2>4. results[m] = runs * ThreadsPerNode
    <3>1. runs * ThreadsPerNode \in Nat
      BY <2>1, ThreadsAssumption, OneMore DEF TypeOK
    <3>2. results[m] = runs * ThreadsPerNode - 0
      BY <1>1, <2>2, <2>3, AllSent
    <3> QED BY <3>1, <3>2
  <2>5. OnTheWay(m, Coordinator) = {}
    <3>1. DiffsOf(chan[m][Coordinator]) = {}
      BY <1>1, <2>1 DEF DataInv, DiffsTaken
    <3> QED BY <3>1 DEF OnTheWay, DiffsOf
  <2>6. m # Coordinator => 1 .. results[m] \subseteq seen[Coordinator][m]
    BY <1>1, <2>1, <2>2, <2>5, AllSent
  <2> QED BY <2>4, <2>6 DEF Copy
<1> QED BY <1>1, CountsHold, ResultsOnTheirWay, PTL

\* A task computes with all results of the earlier runs of its own node and of the
\* coordinator, the coordinator's tasks with those of all nodes; those of another
\* worker have been sent to it.  This for any number of nodes: with three of them
\* the results of one worker may still be on the way to another one.
THEOREM ComputesOnResultsSent == Spec => []ComputesOnSent
<1>1. ASSUME CountInv, DataInv PROVE ComputesOnSent
  <2> SUFFICES ASSUME NEW n \in Node, NEW m \in Node, tasks[n].computing > 0
               PROVE  1 .. (runs - 1) * ThreadsPerNode
                        \subseteq Copy(n, m) \cup (IF n = m \/ Coordinator \in {n, m}
                                                   THEN {} ELSE OnTheWay(m, n))
    BY DEF ComputesOnSent
  <2>1. TypeOK /\ TasksCounted(n) /\ TasksCounted(m) /\ Coordinator \in Node
    BY <1>1, CoordinatorAssumption DEF CountInv
  <2>2. First /\ Closed /\ tasks[n].started + tasks[n].computing > 0
    <3>1. tasks[n].started \in Nat /\ tasks[n].computing \in Nat
      BY <2>1, NodeNumbers
    <3> QED BY <3>1, <1>1, NoTaskLeft DEF Closed
  <2>3. ToCompute(m) + Computed(m) = ThreadsPerNode /\ Writing(m) = 0
    BY <2>1, <2>2 DEF TasksCounted
  <2>4. ToWrite(m) = ThreadsPerNode
    BY <2>1, <2>3, WritingZero, ThreadsAssumption DEF ToWrite
  <2>5. results[m] = (runs - 1) * ThreadsPerNode
    <3>1. runs \in Nat /\ ThreadsPerNode \in Nat
      BY <2>1, ThreadsAssumption DEF TypeOK
    <3>2. results[m] = runs * ThreadsPerNode - ThreadsPerNode
      BY <1>1, <2>3, <2>4, AllSent
    <3> QED BY <3>1, <3>2, OneLess
  <2>6. n # m => 1 .. results[m] \subseteq OnTheWay(m, n) \cup seen[n][m]
    BY <1>1, <2>3, AllSent
  <2>7. n # m /\ Coordinator \in {n, m} => OnTheWay(m, n) = {}
    <3>1. CASE n = Coordinator
      <4>1. DiffsOf(chan[m][n]) = {}
        BY <1>1, <2>2, <3>1 DEF DataInv, DiffsTaken
      <4> QED BY <4>1 DEF OnTheWay, DiffsOf
    <3>2. CASE m = Coordinator /\ n # m
      <4>1. DiffsOf(chan[m][n]) = {}
        BY <1>1, <2>2, <3>2 DEF DataInv, DiffBeforeTask
      <4> QED BY <4>1 DEF OnTheWay, DiffsOf
    <3> QED BY <3>1, <3>2
  <2> QED BY <2>5, <2>6, <2>7 DEF Copy
<1> QED BY <1>1, CountsHold, ResultsOnTheirWay, PTL
============================================================================

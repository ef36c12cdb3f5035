------------------------------ MODULE MutexJoin ------------------------------
(***************************************************************************)
(* A mutex in the course of its creation: modules Mutex and Dobj composed, *)
(* with what edsm_mutex_get adds to edsm_dobj_get and with the way         *)
(* edsm_dobj_handle_message passes an object message on.                   *)
(*                                                                         *)
(* Nodes get the mutex while others lock it already.  This is module Dobj  *)
(* for the object of the mutex, extended with an instance M of Mutex that  *)
(* shares the connections and dobj->peers, which the GET handlers enlarge  *)
(* without holding mutex->lock; the snapshot of the peers that a lock      *)
(* waits for and the sending of its REQUEST are therefore two steps here.  *)
(* A message for an object that is not in the hash or not inited is        *)
(* dropped.                                                                *)
(***************************************************************************)
EXTENDS Dobj

CONSTANTS
  NoThread,  \* as in Mutex
  MaxTime

ASSUME ThreadAssumption == NoThread \notin Thread
ASSUME MaxTimeAssumption == MaxTime \in [Node -> Nat]

VARIABLES
  l_time, local_request, requests, local_mutex,  \* of Mutex
  lock_wait_on,  \* wait_on of Mutex: of mutex->waiter
  lock_pc,       \* pc of Mutex: where each thread is in lock and unlock
  inited,        \* the nodes whose dobj->inited is set
  made,          \* the nodes whose mutex->waiter exists
  get_init,      \* where each thread is in the rest of edsm_mutex_get
  asked,         \* history: the peers that the last lock of a node waits for
  unawaited      \* history: the peers that were sent a REQUEST without a wait

M == INSTANCE Mutex WITH Foreign <- DobjMessage,
                         wait_on <- lock_wait_on, pc <- lock_pc

dobjVars  == <<hashed, wait_on, ref_count, looked_up, pc>>
mutexVars == <<l_time, local_request, requests, lock_wait_on, local_mutex, lock_pc>>
getVars   == <<inited, made, get_init>>
history   == <<asked, unawaited>>
joinVars  == <<chan, peers, dobjVars, mutexVars, getVars, history>>

JoinInit ==
  /\ Init
  /\ M!MutexInit
  /\ inited   = {}
  /\ made     = {}
  /\ get_init = [n \in Node |-> [t \in Thread |-> "dobj"]]
  /\ asked = [n \in Node |-> {}]
  /\ unawaited = [n \in Node |-> {}]

----------------------------------------------------------------------------
(***************************************************************************)
(* edsm_mutex_get                                                          *)
(***************************************************************************)
MutexGetDobj(n, t) ==
  /\ Get(n, t)
  /\ UNCHANGED <<mutexVars, getVars, history>>

GotoInit(n, t, from, to) ==
  /\ get_init[n][t] = from
  /\ get_init' = [get_init EXCEPT ![n][t] = to]

\* edsm_dobj_test_and_init: the thread that finds `inited' unset goes on to
\* initialise the mutex, every other one returns.
MutexGetTest(n, t) ==
  /\ pc[n][t] = "got"
  /\ IF n \in inited THEN GotoInit(n, t, "dobj", "ready")
                     ELSE GotoInit(n, t, "dobj", "init")
  /\ inited' = inited \cup {n}
  /\ UNCHANGED <<chan, peers, dobjVars, mutexVars, made, history>>

MutexGetInit(n, t) ==
  /\ GotoInit(n, t, "init", "ready")
  /\ made' = made \cup {n}
  /\ UNCHANGED <<chan, peers, dobjVars, mutexVars, inited, history>>

----------------------------------------------------------------------------
(***************************************************************************)
(* edsm_mutex_lock and edsm_mutex_unlock, by threads that have the mutex.  *)
(***************************************************************************)
LockLocal(n, t) ==
  /\ get_init[n][t] = "ready"
  /\ M!LockLocal(n, t)
  /\ UNCHANGED <<dobjVars, getVars, history>>

\* A slip of edsm_mutex_lock: nobody is awaited.
LockAskedNobody(n) == {}

\* edsm_dobj_get_peers: the snapshot that the waiter is armed with.
LockAsked(n) == peers[n]

\* mutex->lock is held from here until LockSend.  A thread whose get returned
\* while another one still makes the mutex finds no waiter here and crashes; what
\* follows the crash is left out.
LockArm(n, t) ==
  /\ n \in made
  /\ M!Goto(n, t, "locking", "arming")
  /\ l_time' = [l_time EXCEPT ![n] = @ + 1]
  /\ lock_wait_on' = [lock_wait_on EXCEPT ![n] = LockAsked(n)]
  /\ asked' = [asked EXCEPT ![n] = peers[n]]
  /\ UNCHANGED <<chan, peers, dobjVars, local_request, requests, local_mutex,
                 getVars, unawaited>>

LockSend(n, t) ==
  /\ M!Goto(n, t, "arming", "waiting")
  /\ chan' = M!Sent(chan, n, <<M!RequestMsg(l_time[n])>>)
  /\ local_request' = [local_request EXCEPT ![n] = l_time[n]]
  /\ unawaited' = [unawaited EXCEPT ![n] = @ \cup (peers[n] \ asked[n])]
  /\ UNCHANGED <<peers, dobjVars, l_time, requests, lock_wait_on, local_mutex,
                 getVars, asked>>

LockWait(n, t) ==
  M!LockWait(n, t) /\ UNCHANGED <<dobjVars, getVars, history>>

Unlock(n, t) ==
  M!Unlock(n, t) /\ UNCHANGED <<dobjVars, getVars, history>>

----------------------------------------------------------------------------
(***************************************************************************)
(* The listener thread                                                     *)
(***************************************************************************)
ListenGet(n) ==
  /\ Listen(n)
  /\ UNCHANGED <<mutexVars, getVars, history>>

\* The listener takes an object message from p to n.
TakesObjMsg(n, p) ==
  /\ looked_up[n] = {}
  /\ chan[p][n] # << >>
  /\ M!Message(p, n).type \in {"REQUEST", "REPLY"}

\* The guard of edsm_dobj_handle_message.
Handles(n) == n \in hashed /\ n \in inited

HandleObjMsg(n, p) ==
  /\ TakesObjMsg(n, p)
  /\ Handles(n)
  /\ \A t \in Thread : lock_pc[n][t] # "arming"
  /\ M!Handle(n, p)
  /\ UNCHANGED <<dobjVars, getVars, history>>

DropObjMsg(n, p) ==
  /\ TakesObjMsg(n, p)
  /\ ~ Handles(n)
  /\ chan' = M!Received(p, n)
  /\ UNCHANGED <<peers, dobjVars, mutexVars, getVars, history>>

----------------------------------------------------------------------------
MutexGet(n, t) ==
  MutexGetDobj(n, t) \/ MutexGetTest(n, t) \/ MutexGetInit(n, t)

Lock(n, t) ==
  LockLocal(n, t) \/ LockArm(n, t) \/ LockSend(n, t) \/ LockWait(n, t)

JoinListen(n) ==
  \/ ListenGet(n)
  \/ \E p \in Node : HandleObjMsg(n, p) \/ DropObjMsg(n, p)

JoinNext ==
  \/ \E n \in Node : \E t \in GetThread[n] : MutexGet(n, t)
  \/ \E n \in Node, t \in Thread : Lock(n, t) \/ Unlock(n, t)
  \/ \E n \in Node : JoinListen(n)

JoinSpec == JoinInit /\ [][JoinNext]_joinVars

\* As in Dobj and Mutex.  A thread may put off its get, but it finishes one that
\* it has begun, and it unlocks what it has locked.
JoinFairness ==
  /\ \A n \in Node : WF_joinVars(JoinListen(n))
  /\ \A n \in Node : \A t \in GetThread[n] :
       WF_joinVars(pc[n][t] # "out" /\ MutexGet(n, t))
  /\ \A n \in Node, t \in Thread :
       WF_joinVars(lock_pc[n][t] # "idle" /\ (Lock(n, t) \/ Unlock(n, t)))

JoinFairSpec == JoinSpec /\ JoinFairness

----------------------------------------------------------------------------
(***************************************************************************)
(* Properties                                                              *)
(***************************************************************************)

\* Every variable has its type.
JoinTypeOK ==
  /\ chan \in [Node -> [Node -> Seq(M!AnyMessage)]]
  /\ peers \in [Node -> SUBSET Node]
  /\ hashed \in SUBSET Node
  /\ inited \in SUBSET hashed
  /\ made \in SUBSET inited
  /\ wait_on \in [Node -> SUBSET Node]
  /\ ref_count \in [Node -> Nat]
  /\ looked_up \in [Node -> SUBSET [peer_id : Node, found : BOOLEAN]]
  /\ pc \in [Node -> [Thread -> {"out", "added", "armed", "asking", "got"}]]
  /\ lock_wait_on \in [Node -> SUBSET Node]
  /\ asked \in [Node -> SUBSET Node]
  /\ unawaited \in [Node -> SUBSET Node]
  /\ l_time \in [Node -> Nat]
  /\ local_request \in [Node -> Nat]
  /\ requests \in [Node -> Seq(M!RequestEntry)]
  /\ local_mutex \in [Node -> Thread \cup {NoThread}]
  /\ get_init \in [Node -> [Thread -> {"dobj", "init", "ready"}]]
  /\ lock_pc \in [Node -> [Thread -> {"idle", "locking", "arming", "waiting",
                                      "held", "unlocking"}]]

\* What a user of the mutex expects at any time: at most one thread holds it.
MutualExclusion == M!MutualExclusion

\* Two locks that each wait for a reply of the other's node exclude each other.
AwaitedExclusion ==
  \A m, n \in Node : \A s, t \in Thread :
    lock_pc[m][s] = "held" /\ lock_pc[n][t] = "held"
    => m \notin asked[n] \/ n \notin asked[m]

\* The breaches that a join can cause are these only: one of the two holders
\* locked before it knew the other, or once sent it a REQUEST whose reply it did
\* not wait for.  Nodes that have settled exclude each other.
SettledExclusion ==
  \A m, n \in Node : \A s, t \in Thread :
    m # n /\ lock_pc[m][s] = "held" /\ lock_pc[n][t] = "held"
    => m \notin asked[n] \ unawaited[n] \/ n \notin asked[m] \ unawaited[m]

\* Every lock that has sent its request returns.
LockReturns ==
  \A n \in Node, t \in Thread : lock_pc[n][t] = "waiting" ~> lock_pc[n][t] = "held"
============================================================================

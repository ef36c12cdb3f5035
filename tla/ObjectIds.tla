------------------------------ MODULE ObjectIds ------------------------------
(***************************************************************************)
(* How edsm_dobj_create hands out object ids.                              *)
(*                                                                         *)
(* Every node keeps its own _max_obj_id.  A creator takes object_lock, the *)
(* mutex with id 0, increments its copy, broadcasts it in a CREATE message *)
(* and unlocks; a node that receives the CREATE overwrites its copy.       *)
(* Nothing but the order of messages on a connection makes the CREATE      *)
(* arrive before the next holder of the lock goes on: module Mutex is      *)
(* composed with this one on the same connections.                         *)
(*                                                                         *)
(* edsm_dobj_create reads the id that it returns after it has unlocked.    *)
(***************************************************************************)
EXTENDS Integers, Sequences, FiniteSets, SequencesExt

CONSTANTS
  Node, Thread, NoThread, MaxTime,   \* of the mutex object_lock
  MaxObjId   \* _max_obj_id of each node to begin with: 0 on a fresh node

ASSUME NodeAssumption == Node \subseteq Nat \ {0}
ASSUME ThreadAssumption == NoThread \notin Thread
ASSUME MaxTimeAssumption == MaxTime \in [Node -> Nat]
ASSUME MaxObjIdAssumption == MaxObjId \in [Node -> Nat]

VARIABLES
  peers, chan, l_time, local_request, requests, wait_on, local_mutex, pc,
  max_obj_id,  \* _max_obj_id of each node
  creating,    \* where each thread is in edsm_dobj_create besides the lock
  assigned,    \* history: the ids assigned under the lock, in their order
  returned     \* history: the ids returned, in their order

lockVars == <<peers, l_time, local_request, requests, wait_on, local_mutex, pc>>
idVars   == <<max_obj_id, creating, assigned, returned>>
vars     == <<chan, lockVars, idVars>>

CreateMsg(id) == [type |-> "CREATE", id |-> id]
CreateMessage == [type : {"CREATE"}, id : Nat]

M == INSTANCE Mutex WITH Foreign <- CreateMessage

IdsInit ==
  /\ M!Init
  /\ max_obj_id = MaxObjId
  /\ creating   = [n \in Node |-> [t \in Thread |-> "out"]]
  /\ assigned   = [k \in 1 .. Max({MaxObjId[n] : n \in Node}) |-> k]
  /\ returned   = << >>

Goto(n, t, from, to) ==
  /\ creating[n][t] = from
  /\ creating' = [creating EXCEPT ![n][t] = to]

----------------------------------------------------------------------------
(***************************************************************************)
(* edsm_dobj_create                                                        *)
(***************************************************************************)
LockObject(n, t) ==
  /\ creating[n][t] = "out"
  /\ M!Lock(n, t)
  /\ UNCHANGED idVars

Increment(n, t) ==
  /\ pc[n][t] = "held"
  /\ Goto(n, t, "out", "incremented")
  /\ max_obj_id' = [max_obj_id EXCEPT ![n] = @ + 1]
  /\ assigned' = Append(assigned, max_obj_id[n] + 1)
  /\ UNCHANGED <<chan, lockVars, returned>>

\* A slip of edsm_proto_send: the broadcast goes to no one but the sender.
CreateSentTo(n) == {n}

\* edsm_proto_send to id 0: every node that n is connected to.
BroadcastTo(n) == Node \ {n}

SendCreate(n, t) ==
  /\ Goto(n, t, "incremented", "sent")
  /\ chan' = [chan EXCEPT ![n] =
                [p \in Node |-> IF p \in BroadcastTo(n)
                                THEN Append(@[p], CreateMsg(max_obj_id[n]))
                                ELSE @[p]]]
  /\ UNCHANGED <<lockVars, max_obj_id, assigned, returned>>

UnlockObject(n, t) ==
  /\ creating[n][t] = "sent"
  /\ M!Unlock(n, t)
  /\ UNCHANGED idVars

\* return _max_obj_id: whatever it is by now.
Return(n, t) ==
  /\ pc[n][t] = "idle"
  /\ Goto(n, t, "sent", "out")
  /\ returned' = Append(returned, max_obj_id[n])
  /\ UNCHANGED <<chan, lockVars, max_obj_id, assigned>>

----------------------------------------------------------------------------
(***************************************************************************)
(* The listener thread                                                     *)
(***************************************************************************)
HandleLock(n, p) ==
  /\ chan[p][n] # << >>
  /\ M!Message(p, n).type # "CREATE"
  /\ M!Handle(n, p)
  /\ UNCHANGED idVars

\* A slip of the handler: it stores the next free id.
NextFreeId(id) == id + 1

\* What edsm_dobj_handle_create stores.
ReadId(id) == id

HandleCreate(n, p) ==
  /\ chan[p][n] # << >>
  /\ M!Message(p, n).type = "CREATE"
  /\ chan' = M!Received(p, n)
  /\ max_obj_id' = [max_obj_id EXCEPT ![n] = ReadId(M!Message(p, n).id)]
  /\ UNCHANGED <<lockVars, creating, assigned, returned>>

----------------------------------------------------------------------------
Create(n, t) ==
  \/ LockObject(n, t) \/ Increment(n, t) \/ SendCreate(n, t)
  \/ UnlockObject(n, t) \/ Return(n, t)

Handle(n, p) == HandleLock(n, p) \/ HandleCreate(n, p)

Next ==
  \/ \E n \in Node, t \in Thread : Create(n, t)
  \/ \E n, p \in Node : Handle(n, p)

Spec == IdsInit /\ [][Next]_vars

\* As in Mutex; a thread that has begun a create goes on with it.
Fairness ==
  /\ \A n, p \in Node : WF_vars(Handle(n, p))
  /\ \A n \in Node, t \in Thread :
       WF_vars((pc[n][t] # "idle" \/ creating[n][t] # "out") /\ Create(n, t))

FairSpec == Spec /\ Fairness

----------------------------------------------------------------------------
(***************************************************************************)
(* Properties                                                              *)
(***************************************************************************)

\* Every variable has its type.
TypeOK ==
  /\ chan \in [Node -> [Node -> Seq(M!AnyMessage)]]
  /\ wait_on \in [Node -> SUBSET Node]
  /\ max_obj_id \in [Node -> Nat]
  /\ creating \in [Node -> [Thread -> {"out", "incremented", "sent"}]]
  /\ assigned \in Seq(Nat)
  /\ returned \in Seq(Nat)

\* No id is assigned twice, on whichever nodes and in whichever order objects
\* are created.
AssignedUnique == IsInjective(assigned)

\* Whoever has object_lock and is about to increment has seen the CREATE of every
\* earlier creator: the lock and the broadcast agree without an acknowledgement.
HolderUpToDate ==
  \A n \in Node, t \in Thread :
    pc[n][t] = "held" /\ creating[n][t] = "out"
    => max_obj_id[n] = Len(assigned)

\* No CREATE in flight takes back an id: a copy only grows.
CopyGrows == [][\A n \in Node : max_obj_id'[n] >= max_obj_id[n]]_vars

\* Two calls of edsm_dobj_create return different ids.
ReturnedUnique == IsInjective(returned)

\* In the end every node has seen the last id.
CopiesConverge ==
  \A n \in Node : []<>(max_obj_id[n] = Len(assigned))
============================================================================

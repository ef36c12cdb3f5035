-------------------------------- MODULE Wire --------------------------------
(***************************************************************************)
(* A message on its way: edsm_proto_send, fd_send_message,                 *)
(* read_message_from_socket and handle_message, with the encodings of      *)
(* src/task.c and src/dobj/dobj.c.                                         *)
(*                                                                         *)
(* A connection is a stream of cells that holds Capacity of them in each   *)
(* direction.  Application threads and the listener of a node write to it  *)
(* under the send lock of the peer, and block while it is full; only the   *)
(* listener reads, one message at a time, and while it handles one it may  *)
(* itself write a reply.                                                   *)
(*                                                                         *)
(* A self-send calls the handler in the sending thread and uses no         *)
(* connection.                                                             *)
(***************************************************************************)
EXTENDS MessageBuffer, FiniteSetsExt, SequencesExt

CONSTANTS
  Node,      \* the processes, each with its listener and its threads
  Thread,    \* the application threads of a node
  Listener,  \* the listener thread
  NoActor,   \* the holder of a send lock that is free
  Capacity,  \* cells that a connection holds in one direction
  TaskRoom,  \* the tail room that edsm_task_send_up_call begins with
  Content,   \* what the threads send
  MaxCalls   \* bound: sends of one thread

ASSUME NodeAssumption == IsFiniteSet(Node)
ASSUME ActorAssumption == Listener \notin Thread /\ NoActor \notin Thread \cup {Listener}
ASSUME CapacityAssumption == Capacity \in Nat \ {0} /\ TaskRoom \in Nat

\* Strings and the data of messages are sequences of cells.
ASSUME ContentAssumption ==
  Content \subseteq
    [kind : {"task"}, name : Seq(Nat), event : Nat, data : Seq(Nat)]
    \cup [kind : {"create", "get"}, id : Nat]
    \cup [kind : {"get_reply"}, id : Nat, have : Nat]
    \cup [kind : {"obj_msg"}, id : Nat, data : Seq(Nat)]

VARIABLES
  calls,      \* how many sends each thread has begun
  outbox,     \* the sends that each thread has still to make, in order
  rest,       \* what it has not written yet of the first of them
  send_lock,  \* the holder of the send lock of each peer
  pipe,       \* the cells on the connection from one node to another
  reading,    \* the message that a listener is reading
  chan,       \* history: the messages written to each connection, not yet handled
  handled     \* history: the last message from each node that has been handled

vars == <<calls, outbox, rest, send_lock, pipe, reading, chan, handled>>

Actor == Thread \cup {Listener}

\* At most k cells from the front of xs, and the others.
UpTo(xs, k) == SubSeq(xs, 1, Min({k, Len(xs)}))
Behind(xs, k) == SubSeq(xs, k + 1, Len(xs))

Init ==
  /\ calls     = [n \in Node |-> [t \in Thread |-> 0]]
  /\ outbox    = [n \in Node |-> [a \in Actor |-> << >>]]
  /\ rest      = [n \in Node |-> [a \in Actor |-> << >>]]
  /\ send_lock = [n \in Node |-> [p \in Node |-> NoActor]]
  /\ pipe      = [p \in Node |-> [n \in Node |-> << >>]]
  /\ reading   = [n \in Node |-> {}]
  /\ chan      = [p \in Node |-> [n \in Node |-> << >>]]
  /\ handled   = [p \in Node |-> [n \in Node |-> << >>]]

----------------------------------------------------------------------------
(***************************************************************************)
(* Encodings                                                               *)
(***************************************************************************)

MSG_TYPE_TASK == 2
MSG_TYPE_DOBJ == 3

DOBJ_MSG_TYPE_CREATE    == 1
DOBJ_MSG_TYPE_GET       == 2
DOBJ_MSG_TYPE_GET_REPLY == 3
DOBJ_MSG_TYPE_OBJ_MSG   == 4

TypeOf(c) == IF c.kind = "task" THEN MSG_TYPE_TASK ELSE MSG_TYPE_DOBJ

\* A message with such data, or NULL.
Submessage(xs) == IF xs = << >> THEN NoMessage ELSE Holding(xs)

Contents(sub) == IF sub = NoMessage THEN << >> ELSE Data(sub)

\* edsm_task_send_up_call
UpCallMessage(c) ==
  WriteMessage(Write(WriteString(Create(0, TaskRoom), c.name), <<c.event>>),
               Submessage(c.data))

\* edsm_dobj_create, edsm_dobj_send_get, edsm_dobj_send_get_reply; the last one
\* writes more than it has made room for.
CreateMessage(c) == Write(Write(Create(0, 2), <<DOBJ_MSG_TYPE_CREATE>>), <<c.id>>)

GetMessage(c) == Write(Write(Create(0, 2), <<DOBJ_MSG_TYPE_GET>>), <<c.id>>)

GetReplyMessage(c) ==
  Write(Write(Write(Create(0, 2), <<DOBJ_MSG_TYPE_GET_REPLY>>), <<c.id>>),
        <<c.have>>)

\* edsm_dobj_send
ObjMsgMessage(c) ==
  WriteMessage(Write(Write(Create(0, 2 + Len(c.data)), <<DOBJ_MSG_TYPE_OBJ_MSG>>),
                     <<c.id>>),
               Submessage(c.data))

Encoded(c) ==
  CASE c.kind = "task"      -> UpCallMessage(c)
    [] c.kind = "create"    -> CreateMessage(c)
    [] c.kind = "get"       -> GetMessage(c)
    [] c.kind = "get_reply" -> GetReplyMessage(c)
    [] c.kind = "obj_msg"   -> ObjMsgMessage(c)

\* The answer to a GET.
GetReply(c) == [kind |-> "get_reply", id |-> c.id, have |-> 1]

Message == Content \cup {GetReply(c) : c \in {c \in Content : c.kind = "get"}}

\* What fd_send_message writes: the size, the type, the data.
Frame ==
  [c \in Message |->
     LET msg == Encoded(c) IN <<msg.data_size + 1, TypeOf(c)>> \o Data(msg)]

\* A message that no handler can read.
Unreadable == [kind |-> "unreadable"]

\* edsm_task_handle_up_call
ReadUpCall(msg) ==
  LET name  == ReadString(msg)
      event == Read(name.msg, 1)
      data  == ReadMessage(event.msg)
  IN  IF name.ok /\ event.ok /\ data.ok
      THEN [kind |-> "task", name |-> name.out, event |-> event.out[1],
            data |-> Contents(data.out)]
      ELSE Unreadable

\* edsm_dobj_handle_message up to the handler of the object.
ReadDobj(msg) ==
  LET type == Read(msg, 1)
      id   == Read(type.msg, 1)
      have == Read(id.msg, 1)
      data == ReadMessage(id.msg)
      Is(code, read) == type.out = <<code>> /\ read.ok
  IN  CASE Is(DOBJ_MSG_TYPE_CREATE, id) -> [kind |-> "create", id |-> id.out[1]]
        [] Is(DOBJ_MSG_TYPE_GET, id) -> [kind |-> "get", id |-> id.out[1]]
        [] Is(DOBJ_MSG_TYPE_GET_REPLY, have) ->
             [kind |-> "get_reply", id |-> id.out[1], have |-> have.out[1]]
        [] Is(DOBJ_MSG_TYPE_OBJ_MSG, data) ->
             [kind |-> "obj_msg", id |-> id.out[1], data |-> Contents(data.out)]
        [] OTHER -> Unreadable

\* handle_message
Handled(type, msg) ==
  CASE type = MSG_TYPE_TASK -> ReadUpCall(msg)
    [] type = MSG_TYPE_DOBJ -> ReadDobj(msg)
    [] OTHER -> Unreadable

Bodies == {Tail(Frame[c]) : c \in Message}

\* What listen_thread reads from the cells of a message.
Received ==
  [xs \in Bodies |->
     LET type == Read(Holding(xs), 1) IN Handled(type.out[1], type.msg)]

----------------------------------------------------------------------------
(***************************************************************************)
(* Sending                                                                 *)
(***************************************************************************)

\* edsm_proto_send by an application thread to one peer or, to 0, all of them.
Send(n, t, c, targets) ==
  /\ outbox[n][t] = << >>
  /\ calls[n][t] < MaxCalls
  /\ calls' = [calls EXCEPT ![n][t] = @ + 1]
  /\ outbox' = [outbox EXCEPT ![n][t] =
                  [i \in DOMAIN targets |-> [to |-> targets[i], content |-> c]]]
  /\ UNCHANGED <<rest, send_lock, pipe, reading, chan, handled>>

SendOne(n, t) ==
  \E c \in Content, p \in Node \ {n} : Send(n, t, c, <<p>>)

Broadcast(n, t) ==
  \E c \in Content : \E order \in SetToSeqs(Node \ {n}) : Send(n, t, c, order)

\* edsm_proto_send of an up-call to the node itself: the handler runs on a clone.
SendSelf(n, t) ==
  /\ outbox[n][t] = << >>
  /\ calls[n][t] < MaxCalls
  /\ calls' = [calls EXCEPT ![n][t] = @ + 1]
  /\ \E c \in {c \in Content : c.kind = "task"} :
       LET got == Handled(TypeOf(c), Clone(Encoded(c)))
       IN  handled' = [handled EXCEPT ![n][n] = <<got>>]
  /\ UNCHANGED <<outbox, rest, send_lock, pipe, reading, chan>>

\* A slip of edsm_proto_send: it writes without the send lock.
LockNobody(n, a) ==
  /\ outbox[n][a] # << >>
  /\ rest[n][a] = << >>
  /\ rest' = [rest EXCEPT ![n][a] = Frame[Head(outbox[n][a]).content]]
  /\ UNCHANGED <<calls, outbox, send_lock, pipe, reading, chan, handled>>

\* The send lock of the next peer is taken.
LockPeer(n, a) ==
  /\ outbox[n][a] # << >>
  /\ rest[n][a] = << >>
  /\ LET next == Head(outbox[n][a])
     IN  /\ send_lock[n][next.to] = NoActor
         /\ send_lock' = [send_lock EXCEPT ![n][next.to] = a]
         /\ rest' = [rest EXCEPT ![n][a] = Frame[next.content]]
  /\ UNCHANGED <<calls, outbox, pipe, reading, chan, handled>>

\* A slip of edsm_proto_send: it returns with the lock held.
StillLocked(n, p) == send_lock

Unlocked(n, p) == [send_lock EXCEPT ![n][p] = NoActor]

\* The writes of fd_send_message fill the connection as far as there is room;
\* with the last cell the lock is released.
WriteCells(n, a) ==
  /\ rest[n][a] # << >>
  /\ LET next == Head(outbox[n][a])
         p    == next.to
         room == Capacity - Len(pipe[n][p])
         left == Behind(rest[n][a], room)
     IN  /\ room > 0
         /\ pipe' = [pipe EXCEPT ![n][p] = @ \o UpTo(rest[n][a], room)]
         /\ rest' = [rest EXCEPT ![n][a] = left]
         /\ IF left = << >>
            THEN /\ chan' = [chan EXCEPT ![n][p] = Append(@, next.content)]
                 /\ outbox' = [outbox EXCEPT ![n][a] = Tail(@)]
                 /\ send_lock' = Unlocked(n, p)
            ELSE UNCHANGED <<chan, outbox, send_lock>>
  /\ UNCHANGED <<calls, reading, handled>>

----------------------------------------------------------------------------
(***************************************************************************)
(* The listener                                                            *)
(***************************************************************************)

\* It is in its loop and neither reads nor handles a message.
Polling(n) == reading[n] = {} /\ outbox[n][Listener] = << >>

\* read_message_from_socket reads the size ...
ReadSize(n, p) ==
  /\ Polling(n)
  /\ pipe[p][n] # << >>
  /\ reading' = [reading EXCEPT ![n] =
       {[from |-> p, want |-> Head(pipe[p][n]), data |-> << >>]}]
  /\ pipe' = [pipe EXCEPT ![p][n] = Tail(@)]
  /\ UNCHANGED <<calls, outbox, rest, send_lock, chan, handled>>

\* ... and edsm_socket_read what is there of the rest, again and again.
ReadCells(n) ==
  /\ \E r \in reading[n] :
       LET p   == r.from
           got == UpTo(pipe[p][n], r.want - Len(r.data))
       IN  /\ got # << >>
           /\ reading' = [reading EXCEPT ![n] = {[r EXCEPT !.data = @ \o got]}]
           /\ pipe' = [pipe EXCEPT ![p][n] = Behind(@, Len(got))]
  /\ UNCHANGED <<calls, outbox, rest, send_lock, chan, handled>>

\* The message that the handler sends: a GET is answered.
Reply(c, p) ==
  IF c.kind = "get" THEN <<[to |-> p, content |-> GetReply(c)]>> ELSE << >>

\* listen_thread and handle_message when the message is complete.
Handle(n) ==
  /\ \E r \in reading[n] :
       LET c == IF r.data \in Bodies THEN Received[r.data] ELSE Unreadable
       IN  /\ Len(r.data) >= r.want
           /\ chan' = [chan EXCEPT ![r.from][n] = Behind(@, 1)]
           /\ handled' = [handled EXCEPT ![r.from][n] = <<c>>]
           /\ outbox' = [outbox EXCEPT ![n][Listener] = Reply(c, r.from)]
  /\ reading' = [reading EXCEPT ![n] = {}]
  /\ UNCHANGED <<calls, rest, send_lock, pipe>>

----------------------------------------------------------------------------
WriteOn(n, a) == LockPeer(n, a) \/ WriteCells(n, a)

Listen(n) == \/ \E p \in Node \ {n} : ReadSize(n, p)
             \/ ReadCells(n)
             \/ Handle(n)

Next ==
  \E n \in Node :
    \/ \E t \in Thread : SendOne(n, t) \/ Broadcast(n, t) \/ SendSelf(n, t)
    \/ \E a \in Actor : WriteOn(n, a)
    \/ Listen(n)

Spec == Init /\ [][Next]_vars

\* Who has begun to send or to read goes on while it can; nobody has to send.
Fairness ==
  \A n \in Node : WF_vars(Listen(n)) /\ \A a \in Actor : WF_vars(WriteOn(n, a))

FairSpec == Spec /\ Fairness

----------------------------------------------------------------------------
(***************************************************************************)
(* Properties                                                              *)
(***************************************************************************)

\* Reliable and in order: what a handler is given is what was sent next.  The
\* other modules take their connections to be like this.
Abstract == INSTANCE Connections

ImplementsConnections == Abstract!Spec

\* The listener of n has a reply for m, and the connection is full.
Waits(n, m) ==
  /\ outbox[n][Listener] # << >>
  /\ Head(outbox[n][Listener]).to = m
  /\ Len(pipe[n][m]) = Capacity

\* Some listeners wait for each other to read.
Stuck == \E S \in SUBSET Node \ {{}} : \A n \in S : \E m \in S : Waits(n, m)

\* Every message that is being sent is written and handled, unless listeners wait
\* for each other: then nobody reads the full connections any more.
DeliveredOrStuck ==
  /\ \A n \in Node, a \in Actor :
       outbox[n][a] # << >> ~> outbox[n][a] = << >> \/ Stuck
  /\ \A n, p \in Node :
       chan[p][n] # << >> ~> chan[p][n] = << >> \/ Stuck

\* No listeners wait for each other.
NeverStuck == ~ Stuck
============================================================================

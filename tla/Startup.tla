------------------------------- MODULE Startup -------------------------------
(***************************************************************************)
(* The life of a daemon: main and shutdown_handler of src/edsmd.c, the     *)
(* loop of listen_thread, and what the loss of a peer does.                *)
(*                                                                         *)
(* main starts the listener, joins the group (Group), registers the        *)
(* handlers, gets object 0 (one GET to each peer, answered by a REPLY),    *)
(* sets running and sleeps until it is 0.  The listener drops a GET that   *)
(* comes before the handlers are registered.  When it reads the end of a   *)
(* connection it sets running to 0 and stops; the process then ends, and   *)
(* with it its connections.                                                *)
(*                                                                         *)
(* After the listener has stopped, the peers in the hash are freed memory: *)
(* their use may end the process.  So may writing to a process that has    *)
(* ended, which raises SIGPIPE.                                            *)
(***************************************************************************)
EXTENDS Group, Sequences

CONSTANTS
  MaxSignals,  \* bound: how many running processes have had SIGINT or SIGTERM
  SignalStage  \* bound: where main is when they do

ASSUME MaxSignalsAssumption == MaxSignals \in Nat

VARIABLES
  stage,      \* where main is outside the join
  listener,   \* where the listener thread is
  listening,  \* the listening socket is open
  running,    \* the variable of this name that both threads write
  sig,        \* where the signal handler is, which interrupts main
  chan,       \* messages about object 0 on each connection
  wait_on,    \* the waiter of object 0
  dropped     \* history: a GET of the node has been dropped

life == <<stage, listener, listening, running, sig>>

object == <<chan, wait_on, dropped>>

allVars == <<vars, life, object>>

StartInit ==
  /\ Init
  /\ stage     = [n \in Node |-> "off"]
  /\ listener  = [n \in Node |-> "none"]
  /\ listening = [n \in Node |-> FALSE]
  /\ running   = [n \in Node |-> 0]
  /\ sig       = [n \in Node |-> "none"]
  /\ chan      = [p \in Node |-> [n \in Node |-> << >>]]
  /\ wait_on   = [n \in Node |-> {}]
  /\ dropped   = [n \in Node |-> FALSE]

Gone(n) == pc[n] = "down"

PeerNodes(n) == {peer.node : peer \in {peer \in peers[n] : peer.connected}}

\* The process of n ends, and its state with it.  What it has sent can still be
\* read.
End(n) ==
  /\ pc'        = [pc EXCEPT ![n] = "down"]
  /\ stage'     = [stage EXCEPT ![n] = "down"]
  /\ listener'  = [listener EXCEPT ![n] = "ended"]
  /\ listening' = [listening EXCEPT ![n] = FALSE]
  /\ running'   = [running EXCEPT ![n] = 0]
  /\ my_id'     = [my_id EXCEPT ![n] = 0]
  /\ peers'     = [peers EXCEPT ![n] = {}]
  /\ backlog'   = [backlog EXCEPT ![n] = {}]
  /\ accepted'  = [accepted EXCEPT ![n] = {}]
  /\ response'  = [response EXCEPT ![n] = {}]
  /\ target'    = [target EXCEPT ![n] = n]
  /\ chan'      = [p \in Node |-> [chan[p] EXCEPT ![n] = << >>]]
  /\ wait_on'   = [wait_on EXCEPT ![n] = {}]
  /\ dropped'   = [dropped EXCEPT ![n] = FALSE]
  /\ sig'       = [sig EXCEPT ![n] = "none"]

----------------------------------------------------------------------------
(***************************************************************************)
(* main                                                                    *)
(***************************************************************************)

\* main runs: it has not been interrupted by a handler that waits.
MainFree(n) == sig[n] # "joining"

\* edsm_proto_listener_init.  The founder has no group to join.
Start(n) ==
  /\ stage' = [stage EXCEPT ![n] = "started"]
  /\ listener' = [listener EXCEPT ![n] = "created"]
  /\ UNCHANGED <<listening, running, sig>>
  /\ UNCHANGED object

StartFounder ==
  /\ stage[Founder] = "off"
  /\ Start(Founder)
  /\ UNCHANGED vars

\* edsm_proto_group_join by one of the others connects to a listening socket ...
BeginJoin(n, m) ==
  /\ stage[n] = "off"
  /\ listening[m]
  /\ GroupJoin(n, m)
  /\ Start(n)

\* ... or connecting fails, and main exits.
JoinRefused(n) ==
  /\ MainFree(n)
  /\ pc[n] = "ready"
  /\ \E peer \in peers[n] : ~ peer.connected /\ ~ listening[peer.node]
  /\ End(n)

\* The rest of the join.
GoOnJoining(n) ==
  /\ MainFree(n)
  /\ \/ ConnectToPeer(n) /\ listening[target'[n]]
     \/ ReadResponse(n)
     \/ JoinReturn(n)
  /\ UNCHANGED <<life, object>>

\* peer_connect reads the end of the connection or, when its answer has been
\* taken, a message that is not INIT, or pieces of one; the join fails and main
\* exits.
ResponseLost(n) ==
  /\ pc[n] \in {"reading", "robbed", "garbled"} /\ MainFree(n)
  /\ response[n] = {}
  /\ \/ Gone(target[n])
     \/ pc[n] = "robbed" /\ chan[target[n]][n] # << >>
     \/ pc[n] = "garbled"
  /\ End(n)

\* edsm_memory_init, edsm_task_init and the registration in edsm_dobj_init.
Register(n) ==
  /\ stage[n] = "started" /\ MainFree(n)
  /\ pc[n] = "joined"
  /\ stage' = [stage EXCEPT ![n] = "registered"]
  /\ UNCHANGED <<listener, listening, running, sig>>
  /\ UNCHANGED <<vars, object>>

\* edsm_dobj_get(0): the waiter is armed with the peers, and a GET is sent to all
\* of them; a lost peer may end the broadcast.
SendGets(n) ==
  /\ stage[n] = "registered" /\ MainFree(n)
  /\ stage' = [stage EXCEPT ![n] = "waiting"]
  /\ wait_on' = [wait_on EXCEPT ![n] = PeerNodes(n)]
  /\ \E asked \in SUBSET PeerNodes(n) :
       /\ asked # PeerNodes(n) => \E m \in PeerNodes(n) : Gone(m)
       /\ chan' = [chan EXCEPT ![n] = [m \in Node |->
                     IF m \in asked /\ ~ Gone(m) THEN Append(@[m], "GET")
                                                 ELSE @[m]]]
  /\ UNCHANGED <<listener, listening, running, sig, dropped>>
  /\ UNCHANGED vars

\* edsm_reply_waiter_wait returns; the tasks are linked, and running is set.
GetReturn(n) ==
  /\ stage[n] = "waiting" /\ MainFree(n)
  /\ wait_on[n] = {}
  /\ stage' = [stage EXCEPT ![n] = "loop"]
  /\ running' = [running EXCEPT ![n] = 1]
  /\ UNCHANGED <<listener, listening, sig>>
  /\ UNCHANGED <<vars, object>>

\* A slip of edsmd.c: without volatile, running may be read only once.
MainSpins(n) == stage[n] = "loop" /\ UNCHANGED allVars

\* main returns from its loop, and the process ends.
MainReturn(n) ==
  /\ stage[n] = "loop" /\ MainFree(n)
  /\ running[n] = 0
  /\ End(n)

\* main uses a peer that has been freed, or writes to a process that has ended.
MainCrash(n) ==
  /\ MainFree(n)
  /\ \/ listener[n] = "ended" /\ (Joining(n) \/ stage[n] = "registered")
     \/ stage[n] = "registered" /\ \E m \in PeerNodes(n) : Gone(m)
  /\ End(n)

----------------------------------------------------------------------------
(***************************************************************************)
(* The signal handler                                                      *)
(***************************************************************************)

\* shutdown_handler up to pthread_join.
Signal(n) ==
  /\ stage[n] \in SignalStage \ {"off", "down"}
  /\ sig[n] = "none"
  /\ Cardinality({p \in Node : sig[p] # "none"}) < MaxSignals
  /\ sig' = [sig EXCEPT ![n] = "joining"]
  /\ running' = [running EXCEPT ![n] = 0]
  /\ UNCHANGED <<stage, listener, listening>>
  /\ UNCHANGED <<vars, object>>

\* Its rest: the listening socket is closed and main goes on where it was.
SignalReturn(n) ==
  /\ sig[n] = "joining"
  /\ listener[n] = "ended"
  /\ sig' = [sig EXCEPT ![n] = "done"]
  /\ listening' = [listening EXCEPT ![n] = FALSE]
  /\ running' = [running EXCEPT ![n] = 0]
  /\ UNCHANGED <<stage, listener>>
  /\ UNCHANGED <<vars, object>>

----------------------------------------------------------------------------
(***************************************************************************)
(* The listener                                                            *)
(***************************************************************************)

\* The listener is in its loop and between two messages.
Polling(n) == listener[n] = "loop" /\ accepted[n] = {}

\* edsm_socket_listen and the start of the loop.
ListenerStart(n) ==
  /\ listener[n] = "created"
  /\ listener' = [listener EXCEPT ![n] = "loop"]
  /\ listening' = [listening EXCEPT ![n] = TRUE]
  /\ running' = [running EXCEPT ![n] = 1]
  /\ UNCHANGED <<stage, sig>>
  /\ UNCHANGED <<vars, object>>

\* The end of the loop; the peers are freed, their sockets stay open.
ListenerStop(n) ==
  /\ Polling(n)
  /\ running[n] = 0
  /\ listener' = [listener EXCEPT ![n] = "ended"]
  /\ UNCHANGED <<stage, listening, running, sig>>
  /\ UNCHANGED <<vars, object>>

\* handle_new_connection.
AcceptNew(n) ==
  /\ listener[n] = "loop"
  /\ Accept(n)
  /\ UNCHANGED <<life, object>>

\* An answer that the main thread waits for is read and dropped.
TakeResponse(n) ==
  /\ Polling(n)
  /\ ListenerTakesResponse(n)
  /\ UNCHANGED <<life, object>>

\* handle_new_connection cannot answer a process that has ended ...
AcceptGone(n) ==
  /\ Polling(n)
  /\ \E init \in backlog[n] :
       /\ Gone(init.from)
       /\ backlog' = [backlog EXCEPT ![n] = @ \ {init}]
  /\ UNCHANGED <<my_id, peers, accepted, response, target, pc>>
  /\ UNCHANGED <<life, object>>

\* ... or the attempt raises SIGPIPE, as does a reply to it.
AnswerGone(n) ==
  /\ Polling(n)
  /\ \/ \E init \in backlog[n] : Gone(init.from)
     \/ \E p \in PeerNodes(n) : Gone(p) /\ chan[p][n] # << >> /\ Head(chan[p][n]) = "GET"
  /\ End(n)

\* edsm_dobj_init has registered its handler.
Registered(n) == stage[n] \notin {"off", "started"}

\* The message at the head of the connection from p is taken.
Taken(p, n) == [chan EXCEPT ![p][n] = Tail(@)]

\* A slip of handle_message: a GET is taken and not answered.
GetIgnored(n, p) ==
  /\ chan' = Taken(p, n)
  /\ UNCHANGED <<wait_on, dropped>>

\* handle_message for a GET.
HandleGet(n, p) ==
  IF Registered(n)
  THEN /\ chan' = IF Gone(p) THEN Taken(p, n)
                             ELSE [Taken(p, n) EXCEPT ![n][p] = Append(@, "REPLY")]
       /\ UNCHANGED <<wait_on, dropped>>
  ELSE /\ chan' = Taken(p, n)
       /\ dropped' = [dropped EXCEPT ![p] = TRUE]
       /\ UNCHANGED wait_on

\* handle_message for a REPLY.
HandleReply(n, p) ==
  /\ chan' = Taken(p, n)
  /\ wait_on' = [wait_on EXCEPT ![n] = @ \ {p}]
  /\ UNCHANGED dropped

HandleMessage(n) ==
  /\ Polling(n)
  /\ \E p \in PeerNodes(n) :
       /\ chan[p][n] # << >>
       /\ \/ Head(chan[p][n]) = "GET" /\ HandleGet(n, p)
          \/ Head(chan[p][n]) = "REPLY" /\ HandleReply(n, p)
  /\ UNCHANGED <<vars, life>>

\* A slip of listen_thread: the end of a connection is passed over.
PassOver(n) == running

Stopped(n) == [running EXCEPT ![n] = 0]

\* The end of a connection.
HandleEnd(n) ==
  /\ Polling(n)
  /\ \E p \in PeerNodes(n) : Gone(p) /\ chan[p][n] = << >>
  /\ running' = Stopped(n)
  /\ UNCHANGED <<stage, listener, listening, sig>>
  /\ UNCHANGED <<vars, object>>

----------------------------------------------------------------------------
MainStep(n) ==
  \/ GoOnJoining(n) \/ ResponseLost(n)
  \/ Register(n) \/ SendGets(n) \/ GetReturn(n)
  \/ MainReturn(n) \/ SignalReturn(n)

Crash(n) == JoinRefused(n) \/ MainCrash(n) \/ AnswerGone(n)

ListenerStep(n) ==
  \/ ListenerStart(n) \/ ListenerStop(n)
  \/ AcceptNew(n) \/ AcceptGone(n) \/ TakeResponse(n)
  \/ HandleMessage(n) \/ HandleEnd(n)

StartNext ==
  \/ StartFounder
  \/ \E n, m \in Node : BeginJoin(n, m)
  \/ \E n \in Node : Signal(n) \/ MainStep(n) \/ Crash(n) \/ ListenerStep(n)

StartSpec == StartInit /\ [][StartNext]_allVars

\* A thread that has read pieces may wait for ever for bytes that do not come.
Whole(n) == pc[n] # "garbled"

\* Both threads go on while they can, and the listener, which serves every
\* connection in each round, comes to its end and to every message.
StartFairness ==
  \A n \in Node :
    /\ WF_allVars(Whole(n) /\ (MainStep(n) \/ JoinRefused(n)))
    /\ WF_allVars(Whole(n) /\ ListenerStart(n))
    /\ WF_allVars(Whole(n) /\ ListenerStop(n))
    /\ WF_allVars(Whole(n) /\ (AcceptNew(n) \/ AcceptGone(n)))
    /\ WF_allVars(Whole(n) /\ HandleMessage(n))
    /\ WF_allVars(Whole(n) /\ HandleEnd(n))

StartFairSpec == StartSpec /\ StartFairness

----------------------------------------------------------------------------
(***************************************************************************)
(* Properties; those of Group hold in a group that loses members, too.     *)
(***************************************************************************)

\* Every variable has its type, and a process that has ended does nothing.
StartTypeOK ==
  /\ TypeOK
  /\ stage \in [Node -> {"off", "started", "registered", "waiting",
                         "loop", "down"}]
  /\ listener \in [Node -> {"none", "created", "loop", "ended"}]
  /\ listening \in [Node -> BOOLEAN]
  /\ running \in [Node -> 0 .. 1]
  /\ sig \in [Node -> {"none", "joining", "done"}]
  /\ wait_on \in [Node -> SUBSET Node]
  /\ dropped \in [Node -> BOOLEAN]
  /\ \A p, n \in Node :
       /\ Len(chan[p][n]) <= 2
       /\ \A i \in DOMAIN chan[p][n] : chan[p][n][i] \in {"GET", "REPLY"}
  /\ \A n \in Node : Gone(n) <=> stage[n] = "down"

\* The loop of a process whose listener has stopped, which main does not notice
\* because it has set running after the listener.
Deaf(n) == stage[n] = "loop" /\ listener[n] = "ended" /\ running[n] = 1

\* main of n is in its loop, or there is a known reason why it may never be: a peer
\* that had not registered its handlers has dropped its GET, its own listener has
\* taken an answer of the handshake, or some process has read pieces of one, has
\* ended or been told to.
Settled(n) ==
  \/ stage[n] \in {"off", "loop", "down"}
  \/ dropped[n] \/ pc[n] = "robbed"
  \/ \E m \in Node : ~ Whole(m) \/ Gone(m) \/ sig[m] # "none"

\* Every node that begins to join gets into its loop.
StartReturns == (\E n \in Node : ~ Settled(n)) ~> \A n \in Node : Settled(n)

\* n has noticed the loss of everybody it is connected to: its listener has
\* stopped, and main has ended, or is deaf or not yet in its loop.
Noticed(n) ==
  Whole(n) /\ (\E p \in PeerNodes(n) : Gone(p)) =>
    listener[n] = "ended" /\ (stage[n] = "loop" => Deaf(n))

\* The end of one process stops the listeners of all that are connected to it, and
\* ends those that are in their loops, but for deaf ones.  One that has read pieces
\* of an answer may wait for more.
LossSpreads == (\E n \in Node : ~ Noticed(n)) ~> \A n \in Node : Noticed(n)

\* The handler runs, main is in its loop, and the listener has set running before.
ShuttingDown(n) ==
  sig[n] = "joining" /\ running[n] = 0 /\ stage[n] = "loop"
                     /\ listener[n] # "created"

\* A signal ends a process whose start-up is over.
ShutdownEnds == \A n \in Node : ShuttingDown(n) ~> Gone(n)

\* What the exceptions above are about, each of which happens: a GET is dropped, a
\* process is deaf, and a signal that comes early never ends the process.
NeverDropped == \A n \in Node : ~ dropped[n]

NeverDeaf == \A n \in Node : ~ Deaf(n)

EverySignalEnds == \A n \in Node : sig[n] = "joining" ~> Gone(n)

\* AssertionsHold without its condition.  Of four processes one may fail in its
\* join when only some members have it in their hash; one of the others then gives
\* its id to the next.
NeverAborted == \A n \in Node : pc[n] # "aborted"
============================================================================

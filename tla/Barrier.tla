------------------------------- MODULE Barrier -------------------------------
(***************************************************************************)
(* The barriers of src/dobj/barrier.c and the reply waiter under them, in  *)
(* the use that src/test/nbody.c makes of them.                            *)
(*                                                                         *)
(* run_simulation, on the node Coordinator, arms the completion barrier    *)
(* with one entry for every task, starts the tasks on all nodes, waits for *)
(* their notifications, arms the barrier once more, notifies the client    *)
(* barrier and waits again.  A task (event 1 of up_call) arms the client   *)
(* barrier of its node, computes, notifies, waits, writes its result and   *)
(* notifies.  A notification goes to all peers of the barrier and to the   *)
(* waiter of the node itself; it takes ONE entry of the sender out of the  *)
(* waiter's list, which may hold a node once for each of its threads.      *)
(*                                                                         *)
(* All nodes know the completion barrier; what edsm_dobj_get does for the  *)
(* client barrier is in module Dobj.  notify ends the transaction first:   *)
(* diff_region takes what was written on the node so far, by whatever      *)
(* thread, under the lock of the region; the diff is sent, and then the    *)
(* notification, without it.  In between another thread may find nothing   *)
(* to send and notify at once, though its own result is in that diff.  How *)
(* a diff is made is in module Memory; here it is a set of results, those  *)
(* of a node being numbered as they are written.  The threads of a node    *)
(* are counted by stage.                                                   *)
(***************************************************************************)
EXTENDS Integers, Sequences, FiniteSets

CONSTANTS
  Node,
  Coordinator,     \* the node that runs the simulation
  ThreadsPerNode,  \* current_sim.threads_per_node
  MaxRuns          \* bound: run_simulation is called so often

ASSUME CoordinatorAssumption == Coordinator \in Node /\ IsFiniteSet(Node)
ASSUME ThreadsAssumption == ThreadsPerNode \in Nat \ {0}
ASSUME MaxRunsAssumption == MaxRuns \in Nat

VARIABLES
  chan,      \* chan[p][n]: the messages on the connection from p to n
  wait_on,   \* wait_on[b][n]: the list of n's waiter of barrier b, as a bag
  tasks,     \* tasks[n][s]: how many task threads of n are at stage s
  main,      \* where run_simulation is
  unsent,    \* the tasks of the run that are still to be started, by node
  runs,      \* how often run_simulation was called
  results,   \* results[n]: how many results the tasks of n have written
  dirty,     \* dirty[n]: the results of n that no diff has taken yet
  taken,     \* taken[n]: the diffs of n that are made and not sent yet
  seen       \* seen[n][m]: the results of m that diffs have put into n's copy

memoryVars == <<results, dirty, taken, seen>>
vars == <<chan, wait_on, tasks, main, unsent, runs, memoryVars>>

----------------------------------------------------------------------------
Barriers == {"completion", "client"}

\* A task that has reached the last stage ends, and is no longer counted.
\* Two of them are within edsm_memory_tx_end, with a diff in hand.
Stage == {"started", "computing", "computed", "ending", "ended", "notified",
          "waiting", "asleep", "writing", "written", "ending_last", "ended_last",
          "finishing"}

TaskMsg == [type |-> "TASK"]
NotifyMsg(b) == [type |-> "NOTIFY", barrier |-> b]
DiffMsg(some) == [type |-> "DIFF", results |-> some]

Message == [type : {"TASK"}] \cup [type : {"NOTIFY"}, barrier : Barriers]
           \cup [type : {"DIFF"}, results : SUBSET Nat]

\* A diff in the hands of a thread: of a task at that stage, or of run_simulation.
Diff == [by : {"ending", "ending_last", "main"}, results : SUBSET Nat]

NoEntry == [p \in Node |-> 0]

\* A slip of get_run_on: every node is listed once.
RunOnNodes == [p \in Node |-> 1]

\* A slip of get_run_on: edsm_proto_get_peer_ids finds nobody.
RunOnSelf == [p \in Node |-> IF p = Coordinator THEN ThreadsPerNode ELSE 0]

\* get_run_on: every node once for each of its threads.
RunOn == [p \in Node |-> ThreadsPerNode]

Init ==
  /\ chan    = [p \in Node |-> [n \in Node |-> << >>]]
  /\ wait_on = [b \in Barriers |-> [n \in Node |-> NoEntry]]
  /\ tasks   = [n \in Node |-> [s \in Stage |-> 0]]
  /\ main    = "out"
  /\ unsent  = NoEntry
  /\ runs    = 0
  /\ results = NoEntry
  /\ dirty   = [n \in Node |-> {}]
  /\ taken   = [n \in Node |-> {}]
  /\ seen    = [n \in Node |-> [m \in Node |-> {}]]

\* edsm_dobj_send: to each other node that has the object.
Sent(n, msg) ==
  [chan EXCEPT ![n] = [p \in Node |-> IF p = n THEN @[p] ELSE Append(@[p], msg)]]

Received(p, n) == [chan EXCEPT ![p][n] = Tail(@)]

----------------------------------------------------------------------------
(***************************************************************************)
(* The reply waiter                                                        *)
(***************************************************************************)

\* Slips of edsm_reply_waiter_add_reply: all entries of the peer are taken out,
\* or one is counted off whether there is one or not.
WithoutAll(list, p) == [list EXCEPT ![p] = 0]
WithoutCounted(list, p) == [list EXCEPT ![p] = @ - 1]

\* One entry of p is taken out of the list, if there is one.
Without(list, p) == [list EXCEPT ![p] = IF @ > 0 THEN @ - 1 ELSE @]

Replied(b, n, p) == [wait_on EXCEPT ![b][n] = Without(@, p)]

\* edsm_reply_waiter_set_wait_on wakes nobody.
Armed(b, n, list) == [wait_on EXCEPT ![b][n] = list]

Complete(b, n) == wait_on[b][n] = NoEntry

\* A slip of edsm_reply_waiter_add_reply: no broadcast.
NotWoken(b, n, stages) == stages

\* pthread_cond_broadcast: the threads asleep in the wait for barrier b of n look
\* at the list again.
Woken(b, n, stages) ==
  IF b = "client"
  THEN [stages EXCEPT ![n].waiting = @ + stages[n].asleep, ![n].asleep = 0]
  ELSE stages

MainWoken(b, n) ==
  IF b = "completion" /\ n = Coordinator
  THEN CASE main = "asleep1" -> "waiting1"
         [] main = "asleep2" -> "waiting2"
         [] OTHER -> main
  ELSE main

----------------------------------------------------------------------------
(***************************************************************************)
(* edsm_memory_tx_end                                                      *)
(***************************************************************************)

\* diff_region takes all there is for the thread that is by; the twins go.
Took(n, by) ==
  /\ dirty' = [dirty EXCEPT ![n] = {}]
  /\ taken' = IF dirty[n] = {} THEN taken
              ELSE [taken EXCEPT ![n] = @ \cup {[by |-> by, results |-> dirty[n]]}]
  /\ UNCHANGED <<results, seen>>

\* A slip of edsm_memory_tx_end: what diff_region has made is not sent.
NotSent(n, sending, sent) == sent

\* A thread goes on to send the diff, or past that if there is nothing in it.
ToSend(n, sending, sent) == IF dirty[n] = {} THEN sent ELSE sending

----------------------------------------------------------------------------
(***************************************************************************)
(* A task: event 1 of up_call                                              *)
(***************************************************************************)

\* The task threads after one of n has gone from stage s to stage t.
Moved(n, s, t) ==
  [tasks EXCEPT ![n][s] = @ - 1, ![n][t] = @ + 1]

Ended(n, s) == [tasks EXCEPT ![n][s] = @ - 1]

TaskArm(n) ==
  /\ tasks[n].started > 0
  /\ wait_on' = Armed("client", n, [NoEntry EXCEPT ![Coordinator] = 1])
  /\ tasks' = Moved(n, "started", "computing")
  /\ UNCHANGED <<chan, main, unsent, runs, memoryVars>>

TaskCompute(n) ==
  /\ tasks[n].computing > 0
  /\ tasks' = Moved(n, "computing", "computed")
  /\ UNCHANGED <<chan, wait_on, main, unsent, runs, memoryVars>>

\* edsm_barrier_notify: tx_end, then the peers, then the node's own waiter.
TaskTxEnd(n) ==
  /\ tasks[n].computed > 0
  /\ Took(n, "ending")
  /\ tasks' = Moved(n, "computed", ToSend(n, "ending", "ended"))
  /\ UNCHANGED <<chan, wait_on, main, unsent, runs>>

TaskNotify(n) ==
  /\ tasks[n].ended > 0
  /\ chan' = Sent(n, NotifyMsg("completion"))
  /\ tasks' = Moved(n, "ended", "notified")
  /\ UNCHANGED <<wait_on, main, unsent, runs, memoryVars>>

TaskNotifyLocal(n) ==
  /\ tasks[n].notified > 0
  /\ wait_on' = Replied("completion", n, n)
  /\ tasks' = Moved(n, "notified", "waiting")
  /\ main' = MainWoken("completion", n)
  /\ UNCHANGED <<chan, unsent, runs, memoryVars>>

TaskWait(n) ==
  /\ tasks[n].waiting > 0
  /\ tasks' = Moved(n, "waiting",
                    IF Complete("client", n) THEN "writing" ELSE "asleep")
  /\ UNCHANGED <<chan, wait_on, main, unsent, runs, memoryVars>>

TaskWrite(n) ==
  /\ tasks[n].writing > 0
  /\ tasks' = Moved(n, "writing", "written")
  /\ results' = [results EXCEPT ![n] = @ + 1]
  /\ dirty' = [dirty EXCEPT ![n] = @ \cup {results[n] + 1}]
  /\ UNCHANGED <<chan, wait_on, main, unsent, runs, taken, seen>>

TaskTxEndLast(n) ==
  /\ tasks[n].written > 0
  /\ Took(n, "ending_last")
  /\ tasks' = Moved(n, "written", ToSend(n, "ending_last", "ended_last"))
  /\ UNCHANGED <<chan, wait_on, main, unsent, runs>>

TaskNotifyLast(n) ==
  /\ tasks[n].ended_last > 0
  /\ chan' = Sent(n, NotifyMsg("completion"))
  /\ tasks' = Moved(n, "ended_last", "finishing")
  /\ UNCHANGED <<wait_on, main, unsent, runs, memoryVars>>

TaskEnd(n) ==
  /\ tasks[n].finishing > 0
  /\ wait_on' = Replied("completion", n, n)
  /\ tasks' = Ended(n, "finishing")
  /\ main' = MainWoken("completion", n)
  /\ UNCHANGED <<chan, unsent, runs, memoryVars>>

----------------------------------------------------------------------------
(***************************************************************************)
(* run_simulation                                                          *)
(***************************************************************************)
MainGoto(from, to) == main = from /\ main' = to

MainArm ==
  /\ runs < MaxRuns
  /\ MainGoto("out", "tasking")
  /\ wait_on' = Armed("completion", Coordinator, RunOn)
  /\ unsent' = [p \in Node |-> ThreadsPerNode]
  /\ runs' = runs + 1
  /\ UNCHANGED <<chan, tasks, memoryVars>>

\* edsm_task_send_up_call: a message to another node, a thread on this one.
MainSendTask(p) ==
  /\ main = "tasking"
  /\ unsent[p] > 0
  /\ unsent' = [unsent EXCEPT ![p] = @ - 1]
  /\ IF p = Coordinator
     THEN /\ tasks' = [tasks EXCEPT ![p].started = @ + 1]
          /\ UNCHANGED chan
     ELSE /\ chan' = [chan EXCEPT ![Coordinator][p] = Append(@, TaskMsg)]
          /\ UNCHANGED tasks
  /\ UNCHANGED <<wait_on, main, runs, memoryVars>>

MainTasksSent ==
  /\ unsent = NoEntry
  /\ MainGoto("tasking", "waiting1")
  /\ UNCHANGED <<chan, wait_on, tasks, unsent, runs, memoryVars>>

\* edsm_barrier_wait(completion_barrier), for the first and the second time.
MainWait ==
  /\ \/ MainGoto("waiting1",
                 IF Complete("completion", Coordinator) THEN "rearm" ELSE "asleep1")
     \/ MainGoto("waiting2",
                 IF Complete("completion", Coordinator) THEN "reading" ELSE "asleep2")
  /\ UNCHANGED <<chan, wait_on, tasks, unsent, runs, memoryVars>>

MainRearm ==
  /\ MainGoto("rearm", "notify")
  /\ wait_on' = Armed("completion", Coordinator, RunOn)
  /\ UNCHANGED <<chan, tasks, unsent, runs, memoryVars>>

MainTxEnd ==
  /\ MainGoto("notify", ToSend(Coordinator, "ending", "ended"))
  /\ Took(Coordinator, "main")
  /\ UNCHANGED <<chan, wait_on, tasks, unsent, runs>>

MainNotify ==
  /\ MainGoto("ended", "notify_local")
  /\ chan' = Sent(Coordinator, NotifyMsg("client"))
  /\ UNCHANGED <<wait_on, tasks, unsent, runs, memoryVars>>

MainNotifyLocal ==
  /\ MainGoto("notify_local", "waiting2")
  /\ wait_on' = Replied("client", Coordinator, Coordinator)
  /\ tasks' = Woken("client", Coordinator, tasks)
  /\ UNCHANGED <<chan, unsent, runs, memoryVars>>

MainReturn ==
  /\ MainGoto("reading", "out")
  /\ UNCHANGED <<chan, wait_on, tasks, unsent, runs, memoryVars>>

\* edsm_dobj_send of a diff, by the thread of n that has it in hand.
SendDiff(n) ==
  \E diff \in taken[n] :
    /\ chan' = Sent(n, DiffMsg(diff.results))
    /\ taken' = [taken EXCEPT ![n] = @ \ {diff}]
    /\ IF diff.by = "main"
       THEN MainGoto("ending", "ended") /\ UNCHANGED tasks
       ELSE /\ tasks[n][diff.by] > 0
            /\ tasks' = Moved(n, diff.by,
                              IF diff.by = "ending" THEN "ended" ELSE "ended_last")
            /\ UNCHANGED main
    /\ UNCHANGED <<wait_on, unsent, runs, results, dirty, seen>>

----------------------------------------------------------------------------
(***************************************************************************)
(* The listener thread of n, for the next message from p                   *)
(***************************************************************************)
HandleTask(n, p) ==
  /\ chan[p][n] # << >>
  /\ Head(chan[p][n]).type = "TASK"
  /\ chan' = Received(p, n)
  /\ tasks' = [tasks EXCEPT ![n].started = @ + 1]
  /\ UNCHANGED <<wait_on, main, unsent, runs, memoryVars>>

HandleNotify(n, p) ==
  /\ chan[p][n] # << >>
  /\ Head(chan[p][n]).type = "NOTIFY"
  /\ LET b == Head(chan[p][n]).barrier
     IN  /\ wait_on' = Replied(b, n, p)
         /\ tasks' = Woken(b, n, tasks)
         /\ main' = MainWoken(b, n)
  /\ chan' = Received(p, n)
  /\ UNCHANGED <<unsent, runs, memoryVars>>

\* The sections of the diff are put into the page; the rest of it stays.
Applied(copy, some) == copy \cup some

\* edsm_memory_handle_message
HandleDiff(n, p) ==
  /\ chan[p][n] # << >>
  /\ Head(chan[p][n]).type = "DIFF"
  /\ chan' = Received(p, n)
  /\ seen' = [seen EXCEPT ![n][p] = Applied(@, Head(chan[p][n]).results)]
  /\ UNCHANGED <<wait_on, tasks, main, unsent, runs, results, dirty, taken>>

----------------------------------------------------------------------------
Task(n) ==
  \/ TaskArm(n) \/ TaskCompute(n) \/ TaskTxEnd(n) \/ TaskNotify(n)
  \/ TaskNotifyLocal(n) \/ TaskWait(n) \/ TaskWrite(n) \/ TaskTxEndLast(n)
  \/ TaskNotifyLast(n) \/ TaskEnd(n)

Run ==
  \/ \E p \in Node : MainSendTask(p)
  \/ MainTasksSent \/ MainWait \/ MainRearm \/ MainTxEnd \/ MainNotify
  \/ MainNotifyLocal \/ MainReturn

Handle(n, p) == HandleTask(n, p) \/ HandleNotify(n, p) \/ HandleDiff(n, p)

Next ==
  \/ MainArm \/ Run
  \/ \E n \in Node : Task(n) \/ SendDiff(n)
  \/ \E n, p \in Node : Handle(n, p)

Spec == Init /\ [][Next]_vars

\* Threads run, and listeners serve every connection; nobody must start a run.
Fairness ==
  /\ WF_vars(Run)
  /\ \A n \in Node : WF_vars(Task(n)) /\ WF_vars(SendDiff(n))
  /\ \A n, p \in Node : WF_vars(Handle(n, p))

FairSpec == Spec /\ Fairness

----------------------------------------------------------------------------
(***************************************************************************)
(* Properties                                                              *)
(***************************************************************************)

\* Every variable has its type; the lists of the waiters are bags.
TypeOK ==
  /\ chan \in [Node -> [Node -> Seq(Message)]]
  /\ wait_on \in [Barriers -> [Node -> [Node -> Nat]]]
  /\ tasks \in [Node -> [Stage -> Nat]]
  /\ main \in {"out", "tasking", "waiting1", "asleep1", "rearm", "notify",
               "ending", "ended", "notify_local", "waiting2", "asleep2", "reading"}
  /\ unsent \in [Node -> Nat]
  /\ runs \in 0 .. MaxRuns
  /\ results \in [Node -> Nat]
  /\ dirty \in [Node -> SUBSET Nat]
  /\ taken \in [Node -> SUBSET Diff]
  /\ seen \in [Node -> [Node -> SUBSET Nat]]

\* How many messages msg are on the connection from p to n.
InFlight(p, n, msg) ==
  Cardinality({k \in DOMAIN chan[p][n] : chan[p][n][k] = msg})

\* The tasks of the run on n that have not computed yet, started or not.
ToCompute(n) ==
  unsent[n] + InFlight(Coordinator, n, TaskMsg)
  + tasks[n].started + tasks[n].computing

\* Those that have computed and have not notified the peers of it.
Notifying(n) == tasks[n].computed + tasks[n].ending + tasks[n].ended

\* Those that have computed, and wait for the client barrier or soon will.
Computed(n) ==
  Notifying(n) + tasks[n].notified + tasks[n].waiting + tasks[n].asleep

\* Those past the client barrier that have not notified the peers again.
Writing(n) ==
  tasks[n].writing + tasks[n].written + tasks[n].ending_last + tasks[n].ended_last

\* Those that have not written yet.
ToWrite(n) == ToCompute(n) + Computed(n) + tasks[n].writing

\* The notifications of tasks of n that the coordinator's waiter has still to
\* see in the phase: the coordinator's own tasks reply to it themselves.
ToNotify(n) ==
  InFlight(n, Coordinator, NotifyMsg("completion"))
  + (IF main \in {"tasking", "waiting1", "asleep1"}
     THEN ToCompute(n) + Notifying(n)
          + (IF n = Coordinator THEN tasks[n].notified ELSE 0)
     ELSE tasks[n].waiting + tasks[n].asleep + Writing(n)
          + (IF n = Coordinator THEN tasks[n].finishing ELSE tasks[n].notified))

\* No notification is lost, counted twice or counted for the wrong phase: the
\* entries of the coordinator's list and the notifications to come agree, node
\* by node, whenever the coordinator waits.
NotificationsMatch ==
  main \in {"tasking", "waiting1", "asleep1", "notify", "ending", "ended",
            "notify_local", "waiting2", "asleep2"} =>
    \A n \in Node : wait_on["completion"][Coordinator][n] = ToNotify(n)

\* No task writes its result while another one still computes with the old ones,
\* and no result is read before all are written.
Computation ==
  INSTANCE Phases WITH
    TaskCount <- ThreadsPerNode,
    phase     <- CASE main \in {"tasking", "waiting1", "asleep1"} -> "compute"
                   [] main = "reading" -> "read"
                   [] main = "out" -> "idle"
                   [] OTHER -> "write",
    computing <- [n \in Node |-> ToCompute(n)],
    writing   <- [n \in Node |-> ToWrite(n)]

ImplementsPhases == Computation!Spec

\* What n reads of the results of m.
Copy(n, m) == IF n = m THEN 1 .. results[n] ELSE seen[n][m]

\* The caller of run_simulation reads the results of every task of every run so
\* far, though a task may notify while another thread has its result in hand.
ReadsLatest ==
  main = "reading" =>
    \A m \in Node : 1 .. runs * ThreadsPerNode \subseteq Copy(Coordinator, m)

\* The results that the diffs on the connection from m to n carry.
OnTheWay(m, n) ==
  UNION {chan[m][n][k].results :
           k \in {i \in DOMAIN chan[m][n] : chan[m][n][i].type = "DIFF"}}

\* While a task computes, the results of the earlier runs have left the nodes that
\* wrote them, and it reads those of its own node and the coordinator's, on the
\* coordinator everybody's.  Those of two workers may be on the way to each other.
ComputesOnSent ==
  \A n, m \in Node :
    tasks[n].computing > 0 =>
      1 .. (runs - 1) * ThreadsPerNode
        \subseteq Copy(n, m) \cup (IF n = m \/ Coordinator \in {n, m} THEN {}
                                   ELSE OnTheWay(m, n))

\* A task computes with all the results of the runs before: not so with three
\* nodes, where another worker's result may come after the task.
ComputesOnLatest ==
  \A n, m \in Node :
    tasks[n].computing > 0 => 1 .. (runs - 1) * ThreadsPerNode \subseteq Copy(n, m)

\* Every run of the simulation returns its result.
RunReturns == main = "tasking" ~> main = "out"
=============================================================================

---------------------------- MODULE LockService ----------------------------
(***************************************************************************)
(* What edsm_mutex_lock and edsm_mutex_unlock promise to the threads that  *)
(* call them, with no node, message or clock: a client asks for the lock,  *)
(* gets it when nobody holds it, and gives it back.                        *)
(***************************************************************************)
CONSTANT Client

VARIABLES
  waiting,  \* the clients whose lock call has sent its request
  holders   \* the clients whose lock call has returned

serviceVars == <<waiting, holders>>

ServiceInit ==
  /\ waiting = {}
  /\ holders = {}

Request(c) ==
  /\ c \notin waiting \cup holders
  /\ waiting' = waiting \cup {c}
  /\ UNCHANGED holders

Acquire(c) ==
  /\ c \in waiting
  /\ holders = {}
  /\ waiting' = waiting \ {c}
  /\ holders' = {c}

Release(c) ==
  /\ c \in holders
  /\ holders' = holders \ {c}
  /\ UNCHANGED waiting

ServiceNext == \E c \in Client : Request(c) \/ Acquire(c) \/ Release(c)

ServiceSpec == ServiceInit /\ [][ServiceNext]_serviceVars
============================================================================

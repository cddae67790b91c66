------------------------------ MODULE Offload ------------------------------
(***************************************************************************)
(* What co_await pool.enqueue(f) promises: functions are started in the    *)
(* order in which they were enqueued, at most PoolSize at a time and each  *)
(* once, and its coroutine goes on once, after the function has ended.     *)
(***************************************************************************)
EXTENDS Naturals, Sequences, FiniteSets

CONSTANTS Jobs, PoolSize

VARIABLES
  queue,    \* enqueued and not started, in order
  active,   \* started and not ended
  finished, \* ended
  resumed   \* jobs whose coroutine has gone on

ovars == <<queue, active, finished, resumed>>

OInit == queue = <<>> /\ active = {} /\ finished = {} /\ resumed = {}

Enqueue(j) ==
  /\ j \notin active \cup finished /\ \A i \in DOMAIN queue : queue[i] # j
  /\ queue' = Append(queue, j)
  /\ UNCHANGED <<active, finished, resumed>>

Begin ==
  /\ queue # <<>> /\ Cardinality(active) < PoolSize
  /\ active' = active \cup {Head(queue)}
  /\ queue' = Tail(queue)
  /\ UNCHANGED <<finished, resumed>>

End(j) ==
  /\ j \in active
  /\ active' = active \ {j}
  /\ finished' = finished \cup {j}
  /\ UNCHANGED <<queue, resumed>>

GoOn(j) ==
  /\ j \in finished \ resumed
  /\ resumed' = resumed \cup {j}
  /\ UNCHANGED <<queue, active, finished>>

ONext == Begin \/ \E j \in Jobs : Enqueue(j) \/ End(j) \/ GoOn(j)

OSpec == OInit /\ [][ONext]_ovars
=============================================================================

----------------------------- MODULE EngineLoop -----------------------------
(***************************************************************************)
(* The event loop UringEngine::run, post_coroutine, drain_pending_posts,   *)
(* stop() and the signal handler (src/src/UringEngine/EngineCore.cpp).     *)
(* The operations are the ones a coroutine awaits; the module that         *)
(* composes the loop with the code it resumes says what a resumption does. *)
(*                                                                         *)
(* An operation is queued (pending_posts_), written to the submission      *)
(* queue, taken by the kernel, completed, and dispatched.  Completions     *)
(* come in any order.  io_uring_submit passes the whole submission queue   *)
(* to the kernel or, when it fails, leaves some of it there; its result is *)
(* ignored.                                                                *)
(*                                                                         *)
(* A submission is one step here: it is assumed that the loop thread and a *)
(* worker never meet in the submission queue.  sqe_mutex_ does not see to  *)
(* it, as only the posts take it; SubmissionQueue has the steps of a       *)
(* submission and shows that a meeting can lose one.                       *)
(***************************************************************************)
EXTENDS Integers, FiniteSets, Sequences, Functions

CONSTANTS
  Ops,            \* operations
  NoOp,           \* no operation
  SqSize,         \* entries of the submission queue
  SubmitMayFail   \* io_uring_submit can fail

ASSUME RingAssumption ==
  /\ IsFiniteSet(Ops) /\ NoOp \notin Ops
  /\ SqSize \in Nat \ {0}
  /\ SubmitMayFail \in BOOLEAN

VARIABLES
  lpc,       \* where run() is
  running,   \* UringEngine::running
  signalled, \* g_signal_received
  asked,     \* (history) stop() has been called
  pending,   \* pending_posts_, a queue
  sq,        \* submission queue entries the kernel has not taken
  kernel,    \* operations in the kernel
  cq,        \* completion queue
  current    \* the operation whose coroutine is being resumed

loopVars == <<lpc, running, signalled, asked>>
ringVars == <<pending, sq, kernel, cq, current>>

LoopPhases == {"start", "check", "drain", "wait", "dispatch", "stopped"}

\* init() has set running and started the coroutines; run() has not been called.
LoopInit(initialOps) ==
  /\ lpc = "start" /\ running = TRUE /\ signalled = FALSE /\ asked = FALSE
  /\ pending = <<>> /\ sq = {} /\ kernel = initialOps /\ cq = {} /\ current = NoOp

\* Where an operation can be between its submission and its resumption.
Queued(op) == op \in Range(pending) \cup sq \cup kernel \cup cq \/ op = current

-----------------------------------------------------------------------------
\* What io_uring_submit leaves in a submission queue that holds q.
Unsubmitted(q) ==
  {left \in SUBSET q : Cardinality(left) <= SqSize /\ (left = {} \/ SubmitMayFail)}

\* Write op to the submission queue and submit.
Submit(op) ==
  \E left \in Unsubmitted(sq \cup {op}) :
    /\ sq' = left
    /\ kernel' = kernel \cup ((sq \cup {op}) \ left)
    /\ UNCHANGED pending

\* post_coroutine: one critical section of sqe_mutex_, taken as one step also
\* with respect to the submissions of the loop thread, which do not take the
\* mutex.  (Faulty variant: a full queue drops the post.)
PostDroppingWhenFull(op) ==
  IF Cardinality(sq) >= SqSize THEN UNCHANGED <<pending, sq, kernel>> ELSE Submit(op)
Post(op) ==
  IF Cardinality(sq) >= SqSize
  THEN pending' = Append(pending, op) /\ UNCHANGED <<sq, kernel>>
  ELSE Submit(op)

\* run() is entered: both stop flags are reset.
Run ==
  /\ lpc = "start"
  /\ lpc' = "check" /\ running' = TRUE /\ signalled' = FALSE
  /\ UNCHANGED <<asked, ringVars>>

\* while (running && !g_signal_received)
Check ==
  /\ lpc = "check"
  /\ IF running /\ ~signalled
     THEN lpc' = "drain" /\ UNCHANGED running
     ELSE lpc' = "stopped" /\ running' = FALSE
  /\ UNCHANGED <<signalled, asked, ringVars>>

\* drain_pending_posts: move posts to the submission queue, submitting after
\* each, until none is left or the queue is full.  Without posts it submits
\* nothing.
Drain ==
  /\ lpc = "drain"
  /\ lpc' = "wait"
  /\ \E n \in 0..Len(pending) :
       LET moved == Range(SubSeq(pending, 1, n))
       IN  \E left \in Unsubmitted(sq \cup moved) :
             /\ IF n = 0 THEN left = sq
                ELSE Cardinality(sq) < SqSize /\ Cardinality(left \ {pending[n]}) < SqSize
             /\ n < Len(pending) => Cardinality(left) = SqSize
             /\ pending' = SubSeq(pending, n + 1, Len(pending))
             /\ sq' = left
             /\ kernel' = kernel \cup ((sq \cup moved) \ left)
  /\ UNCHANGED <<running, signalled, asked, cq, current>>

\* io_uring_wait_cqe returns a completion and the loop resumes its coroutine.
Take(op) ==
  /\ lpc = "wait" /\ op \in cq
  /\ lpc' = "dispatch" /\ current' = op /\ cq' = cq \ {op}
  /\ UNCHANGED <<running, signalled, asked, pending, sq, kernel>>

\* The coroutine has suspended or ended: io_uring_cqe_seen.
Seen ==
  /\ lpc' = "check" /\ current' = NoOp
  /\ UNCHANGED <<pending, sq, kernel, cq>>

\* The kernel completes an operation.
Complete(op) ==
  /\ op \in kernel
  /\ kernel' = kernel \ {op} /\ cq' = cq \cup {op}
  /\ UNCHANGED <<loopVars, pending, sq, current>>

\* A signal arrives.  It may interrupt a loop that sleeps in io_uring_wait_cqe;
\* when it comes just before the loop sleeps, or when a worker takes it, it only
\* sets the flag, and the loop sleeps until something completes.
Signal ==
  /\ lpc \notin {"start", "stopped"} /\ ~signalled
  /\ signalled' = TRUE
  /\ lpc' \in IF lpc = "wait" /\ cq = {} THEN {"check", "wait"} ELSE {lpc}
  /\ UNCHANGED <<running, asked, ringVars>>

\* stop(), from a coroutine or from a thread of the application.
Stop ==
  /\ lpc # "stopped" /\ ~asked
  /\ asked' = TRUE /\ running' = FALSE
  /\ UNCHANGED <<lpc, signalled, ringVars>>
=============================================================================

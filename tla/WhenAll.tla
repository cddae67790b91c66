------------------------------ MODULE WhenAll ------------------------------
(***************************************************************************)
(* when_all (src/include/servd/Task.hpp): one co_await of N tasks.  Each   *)
(* task is driven by a wrapper coroutine that counts itself down in its    *)
(* final_suspend; await_suspend starts the wrappers one after another,     *)
(* sets started, and decides whether to suspend.  The caller can thus be   *)
(* continued from two places: by the last wrapper, and by await_suspend    *)
(* returning false.  Continuing it runs await_resume, which destroys the   *)
(* wrappers and takes the values out of their slots.                       *)
(*                                                                         *)
(* A task runs to its end or to a suspension each time it is resumed.  On  *)
(* the event loop nothing else runs during await_suspend.                  *)
(***************************************************************************)
EXTENDS Integers, FiniteSets

CONSTANTS
  N  \* the number of tasks, 0 for an empty vector

ASSUME NAssumption == N \in Nat

VARIABLES
  launch,    \* await_suspend: "loop", "return" or "end"
  next,      \* the wrapper its loop resumes next
  wrapper,   \* each wrapper: "new", "suspended" or "done"
  slots,     \* the wrappers whose slot holds a value
  error,     \* the wrapper whose exception is stored, 0 for none
  remaining, \* WhenAllStateBase::remaining
  started,   \* WhenAllStateBase::started
  continues  \* how often the caller has been continued

vars == <<launch, next, wrapper, slots, error, remaining, started, continues>>

Wrappers == 1..N
Unfinished == {i \in Wrappers : wrapper[i] # "done"}

\* when_all has built the wrappers and is at its co_await.  (Faulty variants:
\* the count is one short; started is set before the wrappers run.)
InitShort ==
  /\ launch = "loop" /\ next = 1 /\ started = FALSE
  /\ wrapper = [i \in Wrappers |-> "new"]
  /\ slots = {} /\ error = 0
  /\ remaining = N - 1
  /\ continues = 0
InitStarted ==
  /\ launch = "loop" /\ next = 1 /\ started = TRUE
  /\ wrapper = [i \in Wrappers |-> "new"]
  /\ slots = {} /\ error = 0
  /\ remaining = N
  /\ continues = 0
Init ==
  /\ launch = "loop" /\ next = 1 /\ started = FALSE
  /\ wrapper = [i \in Wrappers |-> "new"]
  /\ slots = {} /\ error = 0
  /\ remaining = N
  /\ continues = 0

-----------------------------------------------------------------------------
\* FinalAwaiter::await_suspend
FinalSuspend ==
  /\ remaining' = remaining - 1
  /\ continues' = IF remaining = 1 /\ started THEN continues + 1 ELSE continues

Suspends(i) ==
  /\ wrapper' = [wrapper EXCEPT ![i] = "suspended"]
  /\ UNCHANGED <<slots, error, remaining, continues>>

\* The task's value is stored in its slot ...
Returns(i) ==
  /\ wrapper' = [wrapper EXCEPT ![i] = "done"]
  /\ slots' = slots \cup {i}
  /\ FinalSuspend
  /\ UNCHANGED error

\* ... or unhandled_exception replaces the stored error.  (Faulty variant: the
\* exception is swallowed.)
ThrowsSwallowed(i) ==
  /\ wrapper' = [wrapper EXCEPT ![i] = "done"]
  /\ FinalSuspend
  /\ UNCHANGED <<slots, error>>
Throws(i) ==
  /\ wrapper' = [wrapper EXCEPT ![i] = "done"]
  /\ error' = i
  /\ FinalSuspend
  /\ UNCHANGED slots

\* for (auto& w : wrapper_handles) w.resume();
Launch(i) ==
  /\ launch = "loop" /\ next = i
  /\ next' = i + 1
  /\ Suspends(i) \/ Returns(i) \/ Throws(i)
  /\ UNCHANGED <<launch, started>>

\* state->started = true;
SetStarted ==
  /\ launch = "loop" /\ next = N + 1
  /\ launch' = "return" /\ started' = TRUE
  /\ UNCHANGED <<next, wrapper, slots, error, remaining, continues>>

\* return state->remaining != 0;  (Faulty variant: return true;)
KeepsGoingNever == FALSE
KeepsGoing == remaining = 0
Return ==
  /\ launch = "return"
  /\ launch' = "end"
  /\ continues' = IF KeepsGoing THEN continues + 1 ELSE continues
  /\ UNCHANGED <<next, wrapper, slots, error, remaining, started>>

\* What the task was waiting for completes, and the event loop resumes it, after
\* await_suspend has returned to it; the task runs to its end.
Complete(i) ==
  /\ wrapper[i] = "suspended" /\ launch = "end"
  /\ Returns(i) \/ Throws(i)
  /\ UNCHANGED <<launch, next, started>>

Next ==
  \/ \E i \in Wrappers : Launch(i)
  \/ SetStarted
  \/ Return
  \/ \E i \in Wrappers : Complete(i)

Spec == Init /\ [][Next]_vars

\* await_suspend runs to its end, and what a task waits for completes.
FairSpec ==
  /\ Spec
  /\ WF_vars((\E i \in Wrappers : Launch(i)) \/ SetStarted \/ Return)
  /\ \A i \in Wrappers : WF_vars(Complete(i))

-----------------------------------------------------------------------------
(* Properties *)

\* Every variable holds a value of its type (type invariant).
TypeOK ==
  /\ launch \in {"loop", "return", "end"}
  /\ next \in 1..(N + 1)
  /\ wrapper \in [Wrappers -> {"new", "suspended", "done"}]
  /\ slots \subseteq Wrappers
  /\ error \in 0..N
  /\ remaining \in 0..N
  /\ started \in BOOLEAN
  /\ continues \in Nat

\* The caller is continued at most once, whichever tasks finish inside
\* await_suspend and whichever later, in whatever order.
ContinuedOnce == continues <= 1

\* The caller is continued only when every wrapper is done and await_suspend
\* is over: await_resume destroys no wrapper that could still be resumed.
AllDoneFirst == continues > 0 => Unfinished = {} /\ launch = "end"

\* The caller never finds an empty slot: every task has left a value, or some
\* task's exception is rethrown before the slots are read.
OutcomeComplete == continues > 0 => error # 0 \/ slots = Wrappers

\* The caller is continued in the end.
WhenAllReturns == <>(continues > 0)
=============================================================================

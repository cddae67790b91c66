--------------------------- MODULE WhenAllProofs ---------------------------
(***************************************************************************)
(* The properties of WhenAll, for every number of tasks, as long as tasks  *)
(* are resumed on the thread that runs await_suspend.                      *)
(*                                                                         *)
(* None of the properties is inductive: whether the caller has been        *)
(* continued follows from how far await_suspend is and from the count of   *)
(* unfinished wrappers, which IInv ties together.                          *)
(***************************************************************************)
EXTENDS WhenAll, FiniteSetTheorems, TLAPS

\* remaining counts the wrappers that are not done.
CountExact == remaining = Cardinality(Unfinished)

\* What is known at each stage of await_suspend.
Staged ==
  /\ launch = "loop" => /\ ~started /\ continues = 0
                        /\ \A i \in Wrappers : i >= next => wrapper[i] = "new"
                        /\ \A i \in Wrappers : i < next => wrapper[i] # "new"
  /\ launch # "loop" => started /\ \A i \in Wrappers : wrapper[i] # "new"
  /\ launch = "return" => continues = 0
  /\ launch = "end" => continues = IF remaining = 0 THEN 1 ELSE 0

\* A wrapper that is done has left a value or an error.
Accounted == \A i \in Wrappers : wrapper[i] = "done" => i \in slots \/ error # 0

IInv == TypeOK /\ CountExact /\ Staged /\ Accounted

\* when_all makes finitely many wrappers.
LEMMA WrappersFinite == IsFiniteSet(Wrappers) /\ Cardinality(Wrappers) = N
<1>1. Wrappers = 1..N
  BY DEF Wrappers
<1> QED
  BY <1>1, NAssumption, FS_Interval

\* A count of unfinished wrappers is a number from 0 to N, and 0 just when all
\* are done.
LEMMA UnfinishedCount ==
  /\ IsFiniteSet(Unfinished)
  /\ Cardinality(Unfinished) \in 0..N
  /\ Cardinality(Unfinished) = 0 <=> Unfinished = {}
<1>1. Unfinished \subseteq Wrappers
  BY DEF Unfinished
<1>2. IsFiniteSet(Unfinished) /\ Cardinality(Unfinished) <= N
  BY <1>1, WrappersFinite, FS_Subset
<1>3. Cardinality(Unfinished) \in Nat
  BY <1>2, FS_CardinalityType
<1>4. Cardinality(Unfinished) = 0 <=> Unfinished = {}
  BY <1>2, FS_EmptySet
<1> QED
  BY <1>2, <1>3, <1>4, NAssumption

\* A wrapper that runs to its end leaves the set of unfinished ones.
LEMMA FinishCounts ==
  ASSUME NEW i \in Wrappers, wrapper \in [Wrappers -> {"new", "suspended", "done"}],
         wrapper[i] # "done", CountExact, wrapper' = [wrapper EXCEPT ![i] = "done"],
         remaining' = remaining - 1
  PROVE  CountExact'
<1>1. i \in Unfinished
  BY DEF Unfinished
<1>2. Unfinished' = Unfinished \ {i}
  BY DEF Unfinished
<1>3. Cardinality(Unfinished \ {i}) = Cardinality(Unfinished) - 1
  BY <1>1, UnfinishedCount, FS_RemoveElement
<1> QED
  BY <1>2, <1>3 DEF CountExact

\* A wrapper that suspends stays in it.
LEMMA SuspendCounts ==
  ASSUME NEW i \in Wrappers, wrapper \in [Wrappers -> {"new", "suspended", "done"}],
         wrapper[i] # "done", CountExact, wrapper' = [wrapper EXCEPT ![i] = "suspended"],
         remaining' = remaining
  PROVE  CountExact'
<1>1. Unfinished' = Unfinished
  BY DEF Unfinished
<1> QED
  BY <1>1 DEF CountExact

\* A step that touches no wrapper keeps the count exact.
LEMMA SameCount ==
  ASSUME CountExact, UNCHANGED <<wrapper, remaining>>
  PROVE  CountExact'
BY DEF CountExact, Unfinished

-----------------------------------------------------------------------------
\* IInv holds when when_all reaches its co_await.
LEMMA InitIInv == Init => IInv
<1> SUFFICES ASSUME Init PROVE IInv
  OBVIOUS
<1>1. Unfinished = Wrappers
  BY DEF Init, Unfinished
<1>2. CountExact
  BY <1>1, WrappersFinite DEF Init, CountExact
<1>3. TypeOK
  <2>1. wrapper \in [Wrappers -> {"new", "suspended", "done"}] /\ slots \subseteq Wrappers
    BY DEF Init
  <2>2. next \in 1..(N + 1) /\ error \in 0..N /\ remaining \in 0..N /\ continues \in Nat
    BY NAssumption DEF Init
  <2>3. launch \in {"loop", "return", "end"} /\ started \in BOOLEAN
    BY DEF Init
  <2> QED
    BY <2>1, <2>2, <2>3 DEF TypeOK
<1>4. Staged /\ Accounted
  BY NAssumption DEF Init, Staged, Accounted, Wrappers
<1> QED
  BY <1>2, <1>3, <1>4 DEF IInv

\* The step of a wrapper, launched or resumed, as far as the count and the
\* types of what it changes go.
LEMMA OutcomeStep ==
  ASSUME IInv, NEW i \in Wrappers, wrapper[i] # "done",
         Suspends(i) \/ Returns(i) \/ Throws(i)
  PROVE  /\ CountExact'
         /\ wrapper' \in [Wrappers -> {"new", "suspended", "done"}]
         /\ slots' \subseteq Wrappers /\ error' \in 0..N /\ continues' \in Nat
         /\ remaining' \in 0..N
         /\ Accounted'
<1>1. CountExact'
  <2>1. CASE Suspends(i)
    BY <2>1, SuspendCounts DEF Suspends, IInv, TypeOK
  <2>2. CASE Returns(i) \/ Throws(i)
    BY <2>2, FinishCounts DEF Returns, Throws, FinalSuspend, IInv, TypeOK
  <2> QED
    BY <2>1, <2>2
<1>2. remaining > 0
  <2>1. Unfinished # {}
    BY DEF Unfinished
  <2> QED
    BY <2>1, UnfinishedCount, NAssumption DEF IInv, CountExact
<1>3. /\ wrapper' \in [Wrappers -> {"new", "suspended", "done"}]
      /\ slots' \subseteq Wrappers /\ error' \in 0..N /\ continues' \in Nat
      /\ remaining' \in 0..N
  <2>1. CASE Suspends(i)
    BY <2>1 DEF Suspends, IInv, TypeOK
  <2>2. i \in 0..N
    BY NAssumption DEF Wrappers
  <2>3. CASE Returns(i) \/ Throws(i)
    <3>1. remaining - 1 \in 0..N
      BY <1>2, NAssumption DEF IInv, TypeOK
    <3>2. continues + 1 \in Nat
      BY DEF IInv, TypeOK
    <3> QED
      BY <2>2, <2>3, <3>1, <3>2 DEF Returns, Throws, FinalSuspend, IInv, TypeOK
  <2> QED
    BY <2>1, <2>3
<1>4. Accounted'
  BY NAssumption DEF Suspends, Returns, Throws, IInv, TypeOK, Accounted, Wrappers
<1> QED
  BY <1>1, <1>3, <1>4

\* Every step of await_suspend and of a task keeps IInv.
LEMMA NextIInv == ASSUME IInv, [Next]_vars PROVE IInv'
<1>1. ASSUME NEW i \in Wrappers, Launch(i)
      PROVE  IInv'
  <2>1. wrapper[i] = "new" /\ launch = "loop" /\ next = i
    BY <1>1 DEF Launch, IInv, Staged, Wrappers
  <2>2. Suspends(i) \/ Returns(i) \/ Throws(i)
    BY <1>1 DEF Launch
  <2>3. TypeOK'
    BY <1>1, <2>1, <2>2, OutcomeStep, NAssumption DEF Launch, IInv, TypeOK, Wrappers
  <2>4. Staged'
    BY <1>1, <2>1, <2>2, NAssumption
       DEF Launch, Suspends, Returns, Throws, FinalSuspend, IInv, TypeOK, Staged, Wrappers
  <2> QED
    BY <2>1, <2>2, <2>3, <2>4, OutcomeStep DEF IInv
<1>2. ASSUME SetStarted
      PROVE  IInv'
  <2>1. CountExact' /\ Accounted'
    BY <1>2, SameCount DEF SetStarted, IInv, Accounted
  <2>2. TypeOK' /\ Staged'
    BY <1>2, NAssumption DEF SetStarted, IInv, TypeOK, Staged, Wrappers
  <2> QED
    BY <2>1, <2>2 DEF IInv
<1>3. ASSUME Return
      PROVE  IInv'
  <2>1. CountExact' /\ Accounted'
    BY <1>3, SameCount DEF Return, IInv, Accounted
  <2>2. TypeOK' /\ Staged'
    BY <1>3, NAssumption DEF Return, KeepsGoing, IInv, TypeOK, Staged, Wrappers
  <2> QED
    BY <2>1, <2>2 DEF IInv
<1>4. ASSUME NEW i \in Wrappers, Complete(i)
      PROVE  IInv'
  <2>1. wrapper[i] = "suspended" /\ launch = "end"
    BY <1>4 DEF Complete
  <2>2. Returns(i) \/ Throws(i)
    BY <1>4 DEF Complete
  <2>3. TypeOK'
    BY <1>4, <2>1, <2>2, OutcomeStep DEF Complete, IInv, TypeOK
  <2>4. remaining > 0
    <3>1. Unfinished # {}
      BY <2>1 DEF Unfinished
    <3> QED
      BY <3>1, UnfinishedCount, NAssumption DEF IInv, CountExact
  <2>5. Staged'
    BY <1>4, <2>1, <2>2, <2>4, NAssumption
       DEF Complete, Returns, Throws, FinalSuspend, IInv, TypeOK, Staged, Wrappers
  <2> QED
    BY <2>1, <2>2, <2>3, <2>5, OutcomeStep DEF IInv
<1>5. ASSUME UNCHANGED vars
      PROVE  IInv'
  BY <1>5, SameCount DEF vars, IInv, TypeOK, Staged, Accounted, Unfinished
<1> QED
  BY <1>1, <1>2, <1>3, <1>4, <1>5 DEF Next

\* What the inductive invariant gives.
LEMMA IInvImplies == IInv => ContinuedOnce /\ AllDoneFirst /\ OutcomeComplete
<1> SUFFICES ASSUME IInv PROVE ContinuedOnce /\ AllDoneFirst /\ OutcomeComplete
  OBVIOUS
<1>1. ContinuedOnce
  BY DEF IInv, TypeOK, Staged, ContinuedOnce
<1>2. AllDoneFirst
  BY UnfinishedCount, NAssumption DEF IInv, TypeOK, CountExact, Staged, AllDoneFirst
<1>3. OutcomeComplete
  BY <1>2 DEF IInv, TypeOK, Accounted, AllDoneFirst, Unfinished, OutcomeComplete
<1> QED
  BY <1>1, <1>2, <1>3

\* IInv holds throughout a co_await of when_all.
LEMMA InvariantHolds == Spec => []IInv
BY InitIInv, NextIInv, PTL DEF Spec

\* The variables of when_all keep their types.
THEOREM TypeCorrect == Spec => []TypeOK
<1>1. IInv => TypeOK
  BY DEF IInv
<1> QED
  BY <1>1, InvariantHolds, PTL

\* when_all continues its caller at most once, for any number of tasks.
THEOREM OnceCorrect == Spec => []ContinuedOnce
BY IInvImplies, InvariantHolds, PTL

\* when_all continues its caller only after the last task: no wrapper that is
\* still suspended is destroyed.
THEOREM AllDoneCorrect == Spec => []AllDoneFirst
BY IInvImplies, InvariantHolds, PTL

\* when_all never reads a slot that was not filled.
THEOREM OutcomeCorrect == Spec => []OutcomeComplete
BY IInvImplies, InvariantHolds, PTL
=============================================================================

--------------------------- MODULE ClientsProofs ---------------------------
(***************************************************************************)
(* Proofs about the connection life cycle, for any number of descriptors,  *)
(* any session ids and every configuration.                                *)
(***************************************************************************)
EXTENDS Clients, FiniteSetTheorems, TLAPS

\* What closing a descriptor leaves behind: current_sid belongs to the
\* coroutine, so a closed descriptor has none.
ClosedClean == \A fd \in Fds : st[fd] = "closed" => cur[fd] = NoSid

\* A step, as the choice of the connection that makes it: the form in which
\* the proofs below split Next.
StepOf(fd) ==
  \/ \E m \in Modes : Accept(fd, m)
  \/ \E sid \in FrameSids : Frame(fd, sid)
  \/ ServeDone(fd)
  \/ ServeFails(fd)
  \/ ServeEscapes(fd)
  \/ ServeStops(fd)
  \/ ReadFails(fd)
  \/ HandlerReturned(fd)
  \/ HandlerThrew(fd)
  \/ PeerCloses(fd)

\* Next is one connection's step, a rejection or a stop.
LEMMA NextSplit == Next => (\E fd \in Fds : StepOf(fd)) \/ Reject \/ Stop
  BY DEF Next, Step, StepOf

-----------------------------------------------------------------------------
\* Every reachable state has the types of TypeOK and closed descriptors
\* without a session (all of handle_client, text_handle_client and
\* start_accept_loop).
LEMMA TypeInit == Init => TypeOK /\ ClosedClean
  BY SidsAssumption, SwitchAssumption DEF Init, TypeOK, Phases, ClosedClean

\* A connection that has not been closed is counted.
LEMMA CountPositive ==
  ASSUME TypeOK, ActiveExact, NEW fd \in Fds, st[fd] # "closed"
  PROVE  active >= 1 /\ IsFiniteSet(Open)
<1>1. IsFiniteSet(Open)
  BY FS_Subset, FdsAssumption DEF Open
<1>2. fd \in Open
  BY DEF Open
<1>3. Cardinality(Open) # 0 /\ Cardinality(Open) \in Nat
  BY <1>1, <1>2, FS_EmptySet, FS_CardinalityType
<1> QED
  BY <1>1, <1>3 DEF ActiveExact

\* What the end of a connection does to Open: one descriptor fewer when it is
\* closed, none when it waits for its disconnect handler or leaks.
LEMMA CloseCounts ==
  ASSUME TypeOK, ActiveExact, NEW fd \in Fds, st[fd] # "closed", Close(fd)
  PROVE  ActiveExact'
<1>1. Open' = Open \ {fd}
  BY DEF Close, Open, TypeOK
<1>2. fd \in Open /\ IsFiniteSet(Open)
  BY CountPositive DEF Open
<1>3. Cardinality(Open \ {fd}) = Cardinality(Open) - 1
  BY <1>2, FS_RemoveElement
<1> QED
  BY <1>1, <1>3 DEF Close, ActiveExact

\* The end of a read loop keeps the types and the count.
LEMMA LeaveTypes ==
  ASSUME TypeOK, ActiveExact, ClosedClean, NEW fd \in Fds, Live(fd), Leave(fd)
  PROVE  /\ st' \in [Fds -> Phases]
         /\ mode' \in [Fds -> {"BINARY", "TEXT"}]
         /\ cur' \in [Fds -> Sids]
         /\ sessions' \in [Sids -> Fds \cup {NoFd}]
         /\ active' \in Nat
         /\ respond' \in BOOLEAN
         /\ discovery' \in BOOLEAN
         /\ eof' \subseteq Fds
         /\ ClosedClean'
         /\ ActiveExact'
<1>1. sessions' \in [Sids -> Fds \cup {NoFd}]
  BY DEF Leave, DropSession, Unregister, TypeOK
<1>2. active >= 1
  BY CountPositive DEF Live
<1>3. CASE ~Notifies(fd)
  <2>1. Close(fd)
    BY <1>3 DEF Leave
  <2>2. ActiveExact'
    BY <2>1, CloseCounts DEF Live
  <2> QED
    BY <1>1, <1>2, <2>1, <2>2, SidsAssumption DEF Close, TypeOK, Phases, ClosedClean
<1>4. CASE Notifies(fd)
  <2>1. /\ st' = [st EXCEPT ![fd] = IF PoolEnabled THEN "closing" ELSE "leaked"]
        /\ UNCHANGED <<mode, cur, active, respond, discovery, eof>>
    BY <1>4 DEF Leave
  <2>2. Open' = Open
    BY <2>1 DEF Open, TypeOK, Live
  <2> QED
    BY <1>1, <2>1, <2>2 DEF TypeOK, Phases, ClosedClean, ActiveExact
<1> QED
  BY <1>3, <1>4

\* Every step keeps the types and the count: ++ in Accept, -- in Close.
LEMMA StepTypes ==
  ASSUME TypeOK, ActiveExact, ClosedClean, [Next]_vars
  PROVE  (TypeOK /\ ClosedClean /\ ActiveExact)'
<1>c. contested' \subseteq Sids
  BY DEF Next, Contend, vars, TypeOK
<1> USE <1>c
<1>1. ASSUME NEW fd \in Fds, StepOf(fd)
      PROVE  (TypeOK /\ ClosedClean /\ ActiveExact)'
  <2>1. ASSUME NEW m \in Modes, Accept(fd, m)
        PROVE  (TypeOK /\ ClosedClean /\ ActiveExact)'
    <3>1. Open' = Open \cup {fd} /\ fd \notin Open
      BY <2>1 DEF Accept, Open, TypeOK
    <3>2. IsFiniteSet(Open)
      BY FS_Subset, FdsAssumption DEF Open
    <3>3. Cardinality(Open') = Cardinality(Open) + 1
      BY <3>1, <3>2, FS_AddElement
    <3> QED
      BY <2>1, <3>3, ModesAssumption DEF Accept, TypeOK, Phases, ClosedClean, ActiveExact
  <2>2. ASSUME NEW sid \in FrameSids, Frame(fd, sid)
        PROVE  (TypeOK /\ ClosedClean /\ ActiveExact)'
    <3>1. Open' = Open
      BY <2>2 DEF Frame, Open, TypeOK
    <3>2. sessions' \in [Sids -> Fds \cup {NoFd}]
      BY <2>2, SidsAssumption DEF Frame, SwitchSession, Register, Unregister, TypeOK
    <3> QED
      BY <2>2, <3>1, <3>2, SidsAssumption DEF Frame, TypeOK, Phases, ClosedClean, ActiveExact
  <2>3. CASE ServeDone(fd)
    <3>1. Open' = Open
      BY <2>3 DEF ServeDone, Open, TypeOK
    <3> QED
      BY <2>3, <3>1 DEF ServeDone, TypeOK, Phases, ClosedClean, ActiveExact
  <2>4. CASE ServeFails(fd) \/ ServeStops(fd) \/ ReadFails(fd)
    <3>1. Live(fd) /\ Leave(fd) /\ running' \in BOOLEAN
      BY <2>4 DEF ServeFails, ServeStops, ReadFails, Live, TypeOK
    <3> QED
      BY <3>1, LeaveTypes DEF TypeOK
  <2>5. CASE HandlerReturned(fd)
    <3>1. Close(fd) /\ st[fd] # "closed" /\ UNCHANGED <<running, sessions>>
      BY <2>5 DEF HandlerReturned
    <3>2. ActiveExact' /\ active >= 1
      BY <3>1, CloseCounts, CountPositive
    <3> QED
      BY <3>1, <3>2, SidsAssumption DEF Close, TypeOK, Phases, ClosedClean
  <2>6. CASE HandlerThrew(fd) \/ ServeEscapes(fd)
    <3>1. Open' = Open
      BY <2>6 DEF HandlerThrew, ServeEscapes, Open, TypeOK
    <3> QED
      BY <2>6, <3>1 DEF HandlerThrew, ServeEscapes, TypeOK, Phases, ClosedClean, ActiveExact
  <2>7. CASE PeerCloses(fd)
    <3>1. Open' = Open
      BY <2>7 DEF PeerCloses, Open
    <3> QED
      BY <2>7, <3>1 DEF PeerCloses, TypeOK, ClosedClean, ActiveExact
  <2> QED
    BY <1>1, <2>1, <2>2, <2>3, <2>4, <2>5, <2>6, <2>7 DEF StepOf
<1>2. CASE Reject \/ Stop \/ UNCHANGED vars
  <2>1. Open' = Open
    BY <1>2 DEF Reject, Stop, vars, Open
  <2> QED
    BY <1>2, <2>1 DEF Reject, Stop, vars, TypeOK, ClosedClean, ActiveExact
<1> QED
  BY <1>1, <1>2, NextSplit

\* The counting invariant needs the types and the types need it (active - 1
\* stays a natural number), so the two are proved together.
THEOREM BasicsInvariant == Spec => [](TypeOK /\ ClosedClean /\ ActiveExact)
<1>1. Init => TypeOK /\ ClosedClean /\ ActiveExact
  <2>1. ASSUME Init PROVE ActiveExact
    <3>1. Open = {}
      BY <2>1 DEF Init, Open
    <3> QED
      BY <2>1, <3>1, FS_EmptySet DEF Init, ActiveExact
  <2> QED
    BY <2>1, TypeInit
<1>2. TypeOK /\ ClosedClean /\ ActiveExact /\ [Next]_vars => (TypeOK /\ ClosedClean /\ ActiveExact)'
  BY StepTypes
<1> QED
  BY <1>1, <1>2, PTL DEF Spec

\* TypeOK is an invariant of the connection life cycle.
THEOREM TypeCorrect == Spec => []TypeOK
  BY BasicsInvariant, PTL

\* active_connections_ is exact in every reachable state: ++ on entry of a
\* client coroutine and -- after close() balance on every path between them.
THEOREM CountCorrect == Spec => []ActiveExact
  BY BasicsInvariant, PTL

-----------------------------------------------------------------------------
\* The limit and the discovery switch, on the count itself: the test in
\* start_accept_loop and the test after close() meet with no gap.
LimitInv ==
  /\ MaxClients > 0 => active <= MaxClients
  /\ SuspendedOnlyWhenFull

\* Every step keeps the limit: Accept tests it, and Close reopens discovery as
\* soon as a slot is free.
LEMMA StepLimit ==
  ASSUME TypeOK, ActiveExact, LimitInv, [Next]_vars
  PROVE  LimitInv'
<1> USE MaxClientsAssumption
<1>1. ASSUME NEW fd \in Fds, Close(fd)
      PROVE  LimitInv'
  <2>1. active' = active - 1 /\ (respond' <=> respond \/ Reopens(active - 1))
    BY <1>1 DEF Close
  <2>2. MaxClients > 0 => active' <= MaxClients
    BY <2>1 DEF LimitInv, TypeOK
  <2>3. RespondConfigured => respond'
    <3>1. ASSUME RespondConfigured, ~respond PROVE active - 1 < MaxClients /\ MaxClients > 0
      BY <3>1 DEF LimitInv, SuspendedOnlyWhenFull, TypeOK
    <3> QED
      BY <2>1, <3>1 DEF Reopens
  <2> QED
    BY <2>2, <2>3 DEF LimitInv, SuspendedOnlyWhenFull
<1>2. ASSUME active' = active, respond' = respond
      PROVE  LimitInv'
  BY <1>2 DEF LimitInv, SuspendedOnlyWhenFull
<1>3. ASSUME NEW fd \in Fds, StepOf(fd)
      PROVE  LimitInv'
  <2>1. ASSUME NEW m \in Modes, Accept(fd, m)
        PROVE  LimitInv'
    BY <2>1 DEF Accept, AtLimit, LimitInv, SuspendedOnlyWhenFull, TypeOK
  <2>2. CASE ServeFails(fd) \/ ServeStops(fd) \/ ReadFails(fd)
    <3>1. Leave(fd)
      BY <2>2 DEF ServeFails, ServeStops, ReadFails
    <3> QED
      BY <3>1, <1>1, <1>2 DEF Leave
  <2>3. CASE HandlerReturned(fd)
    BY <2>3, <1>1 DEF HandlerReturned
  <2> QED
    BY <1>3, <2>1, <2>2, <2>3, <1>2 DEF StepOf, Frame, ServeDone, ServeEscapes, HandlerThrew, PeerCloses
<1>4. CASE Reject
  BY <1>4 DEF Reject, AtLimit, LimitInv, SuspendedOnlyWhenFull, TypeOK
<1>5. CASE Stop \/ UNCHANGED vars
  BY <1>5, <1>2 DEF Stop, vars
<1> QED
  BY <1>3, <1>4, <1>5, NextSplit

\* The limit and the discovery switch agree in every reachable state.
LEMMA LimitInvariant == Spec => []LimitInv
<1>1. Init => LimitInv
  BY MaxClientsAssumption DEF Init, LimitInv, SuspendedOnlyWhenFull
<1>2. TypeOK /\ ActiveExact /\ LimitInv /\ [Next]_vars => LimitInv'
  BY StepLimit
<1> QED
  BY <1>1, <1>2, BasicsInvariant, PTL DEF Spec

\* At most max_clients_ descriptors are open at any time, counting the
\* connections still waiting for their disconnect handler.
THEOREM LimitCorrect == Spec => []ConnectionLimit
<1>1. ActiveExact /\ LimitInv => ConnectionLimit
  BY DEF ActiveExact, LimitInv, ConnectionLimit
<1> QED
  BY <1>1, BasicsInvariant, LimitInvariant, PTL

\* Discovery is only ever suspended while every slot is taken.
THEOREM SuspensionCorrect == Spec => []SuspendedOnlyWhenFull
<1>1. LimitInv => SuspendedOnlyWhenFull
  BY DEF LimitInv
<1> QED
  BY <1>1, LimitInvariant, PTL

-----------------------------------------------------------------------------
\* unregister_session after the read loop removes the entry of the session that
\* ends, so the remaining entries are those of other connections.
LEMMA LeaveRegistry ==
  ASSUME TypeOK, RegistryLive, NEW fd \in Fds, Live(fd), Leave(fd)
  PROVE  RegistryLive'
<1> SUFFICES ASSUME NEW sid \in Sids \ {ZeroSid, NoSid}, sessions'[sid] # NoFd
             PROVE  Bound(sessions[sid], sid)'
  BY DEF RegistryLive
<1>1. sessions'[sid] = sessions[sid] /\ sid # cur[fd]
  BY DEF Leave, DropSession, Unregister, TypeOK
<1>2. Bound(sessions[sid], sid) /\ sessions[sid] \in Fds
  BY <1>1 DEF RegistryLive, TypeOK
<1>3. sessions[sid] # fd
  BY <1>1, <1>2 DEF Bound
<1>4. st'[sessions[sid]] = st[sessions[sid]] /\ cur'[sessions[sid]] = cur[sessions[sid]]
  BY <1>2, <1>3 DEF Leave, Close, TypeOK
<1> QED
  BY <1>1, <1>2, <1>4 DEF Bound, Live, Abandoned

\* Every step keeps the registry's entries for ordinary sessions live.
LEMMA StepRegistry ==
  ASSUME TypeOK, RegistryLive, [Next]_vars
  PROVE  RegistryLive'
<1>1. ASSUME NEW fd \in Fds, StepOf(fd)
      PROVE  RegistryLive'
  <2>1. ASSUME NEW m \in Modes, Accept(fd, m)
        PROVE  RegistryLive'
    BY <2>1 DEF Accept, RegistryLive, Bound, Live, Abandoned, TypeOK
  <2>2. ASSUME NEW sid \in FrameSids, Frame(fd, sid)
        PROVE  RegistryLive'
    <3> SUFFICES ASSUME NEW s \in Sids \ {ZeroSid, NoSid}, sessions'[s] # NoFd
                 PROVE  Bound(sessions[s], s)'
      BY DEF RegistryLive
    <3>1. CASE s = sid /\ sid # cur[fd]
      BY <2>2, <3>1 DEF Frame, SwitchSession, Register, Unregister, Bound, Live, TypeOK
    <3>2. CASE s = sid /\ sid = cur[fd]
      BY <2>2, <3>2 DEF Frame, SwitchSession, Bound, Live, Abandoned, TypeOK, RegistryLive
    <3>3. CASE s # sid
      <4>1. sessions'[s] = sessions[s] /\ s # cur[fd]
        BY <2>2, <3>3, SidsAssumption DEF Frame, SwitchSession, Register, Unregister, TypeOK
      <4>2. Bound(sessions[s], s) /\ sessions[s] \in Fds
        BY <4>1 DEF RegistryLive, TypeOK
      <4> QED
        BY <2>2, <4>1, <4>2 DEF Frame, Bound, Live, Abandoned, TypeOK
    <3> QED
      BY <3>1, <3>2, <3>3
  <2>3. CASE ServeFails(fd) \/ ServeStops(fd) \/ ReadFails(fd)
    BY <2>3, LeaveRegistry DEF ServeFails, ServeStops, ReadFails, Live
  <2>4. CASE ServeDone(fd)
    BY <2>4 DEF ServeDone, RegistryLive, Bound, Live, Abandoned, TypeOK
  <2>5. CASE HandlerReturned(fd)
    BY <2>5 DEF HandlerReturned, Close, RegistryLive, Bound, Live, Abandoned, TypeOK
  <2>6. CASE HandlerThrew(fd) \/ ServeEscapes(fd)
    BY <2>6 DEF HandlerThrew, ServeEscapes, RegistryLive, Bound, Live, Abandoned, TypeOK
  <2>7. CASE PeerCloses(fd)
    BY <2>7 DEF PeerCloses, RegistryLive, Bound, Live, Abandoned
  <2> QED
    BY <1>1, <2>1, <2>2, <2>3, <2>4, <2>5, <2>6, <2>7 DEF StepOf
<1>2. CASE Reject \/ Stop \/ UNCHANGED vars
  BY <1>2 DEF Reject, Stop, vars, RegistryLive, Bound, Live, Abandoned
<1> QED
  BY <1>1, <1>2, NextSplit

\* For every session id but 0 and 2^64-1, sessions_ never leads to a closed
\* descriptor or to a connection of another session.
THEOREM RegistryCorrect == Spec => []RegistryLive
<1>1. Init => RegistryLive
  BY DEF Init, RegistryLive
<1>2. TypeOK /\ RegistryLive /\ [Next]_vars => RegistryLive'
  BY StepRegistry
<1> QED
  BY <1>1, <1>2, BasicsInvariant, PTL DEF Spec

-----------------------------------------------------------------------------
\* A session that is not contested after a step was not contested before it,
\* and has one live connection.
LEMMA ContendedAlone ==
  ASSUME Contend, NEW o \in Fds, Live(o)', cur'[o] \in Sids, cur'[o] \notin contested'
  PROVE  /\ cur'[o] \notin contested
         /\ \A b \in Fds \ {o} : Live(b)' => cur'[b] # cur'[o]
  BY DEF Contend

\* Two live connections on one session that is not contested would both be its
\* registered connection.
LEMMA ApartWhenUncontested ==
  ASSUME UncontestedReachable, NEW a \in Fds, NEW b \in Fds, a # b,
         Live(a), Live(b), cur[a] # NoSid, cur[a] \notin contested
  PROVE  cur[a] # cur[b]
  BY DEF UncontestedReachable

\* The end of one connection leaves the entries of the others alone, unless
\* they share its session.
LEMMA LeaveReachable ==
  ASSUME TypeOK, UncontestedReachable, Contend, NEW fd \in Fds, Live(fd), Leave(fd)
  PROVE  UncontestedReachable'
<1> SUFFICES ASSUME NEW o \in Fds, Live(o)', cur'[o] # NoSid, cur'[o] \notin contested'
             PROVE  sessions'[cur'[o]] = o
  BY DEF UncontestedReachable
<1>1. o # fd
  BY DEF Leave, Close, Live, TypeOK
<1>2. Live(o) /\ cur'[o] = cur[o]
  BY <1>1 DEF Leave, Close, Live, TypeOK
<1>3. cur[o] \notin contested
  BY <1>2, ContendedAlone DEF TypeOK
<1>4. sessions[cur[o]] = o /\ cur[o] # cur[fd]
  BY <1>1, <1>2, <1>3, ApartWhenUncontested DEF UncontestedReachable
<1> QED
  BY <1>2, <1>4 DEF Leave, DropSession, Unregister, TypeOK

\* A step that changes neither the registry nor the sessions in use.
LEMMA QuietReachable ==
  ASSUME TypeOK, UncontestedReachable, Contend, sessions' = sessions,
         \A o \in Fds : Live(o)' /\ cur'[o] # NoSid => Live(o) /\ cur'[o] = cur[o]
  PROVE  UncontestedReachable'
<1> SUFFICES ASSUME NEW o \in Fds, Live(o)', cur'[o] # NoSid, cur'[o] \notin contested'
             PROVE  sessions'[cur'[o]] = o
  BY DEF UncontestedReachable
<1>1. cur'[o] \notin contested
  BY ContendedAlone DEF TypeOK
<1> QED
  BY <1>1 DEF UncontestedReachable

\* Every step keeps uncontested connections reachable.
LEMMA StepReachable ==
  ASSUME TypeOK, ClosedClean, UncontestedReachable, [Next]_vars
  PROVE  UncontestedReachable'
<1>1. ASSUME NEW fd \in Fds, StepOf(fd), Contend
      PROVE  UncontestedReachable'
  <2>1. ASSUME NEW m \in Modes, Accept(fd, m)
        PROVE  UncontestedReachable'
    BY <1>1, <2>1, QuietReachable DEF Accept, ClosedClean, Live, TypeOK
  <2>2. ASSUME NEW sid \in FrameSids, Frame(fd, sid)
        PROVE  UncontestedReachable'
    <3> SUFFICES ASSUME NEW o \in Fds, Live(o)', cur'[o] # NoSid, cur'[o] \notin contested'
                 PROVE  sessions'[cur'[o]] = o
      BY DEF UncontestedReachable
    <3>1. Live(fd) /\ Live(fd)' /\ cur'[fd] = sid /\ sid \in Sids
      BY <2>2, SidsAssumption DEF Frame, Live, TypeOK
    <3>2. cur'[o] \in Sids
      BY <2>2, <3>1 DEF Frame, TypeOK
    <3>3. cur'[o] \notin contested /\ (o # fd => cur'[o] # sid)
      BY <1>1, <3>1, <3>2, ContendedAlone
    <3>4. CASE o = fd
      <4>1. sid = cur[fd] => sessions[sid] = fd
        BY <3>1, <3>3, <3>4 DEF UncontestedReachable
      <4> QED
        BY <2>2, <3>1, <3>4, <4>1 DEF Frame, SwitchSession, Register, Unregister, TypeOK
    <3>5. CASE o # fd
      <4>1. Live(o) /\ cur'[o] = cur[o] /\ cur[o] # sid
        BY <2>2, <3>3, <3>5 DEF Frame, Live, TypeOK
      <4>2. sessions[cur[o]] = o /\ cur[o] # cur[fd]
        BY <3>1, <3>3, <3>5, <4>1, ApartWhenUncontested DEF UncontestedReachable
      <4> QED
        BY <2>2, <3>1, <4>1, <4>2 DEF Frame, SwitchSession, Register, Unregister, TypeOK
    <3> QED
      BY <3>4, <3>5
  <2>3. CASE ServeFails(fd) \/ ServeStops(fd) \/ ReadFails(fd)
    BY <1>1, <2>3, LeaveReachable DEF ServeFails, ServeStops, ReadFails, Live
  <2>4. CASE ServeDone(fd)
    BY <1>1, <2>4, QuietReachable DEF ServeDone, Live, TypeOK
  <2>5. CASE HandlerReturned(fd)
    BY <1>1, <2>5, QuietReachable DEF HandlerReturned, Close, Live, TypeOK
  <2>6. CASE HandlerThrew(fd) \/ ServeEscapes(fd)
    BY <1>1, <2>6, QuietReachable DEF HandlerThrew, ServeEscapes, Live, TypeOK
  <2>7. CASE PeerCloses(fd)
    BY <1>1, <2>7, QuietReachable DEF PeerCloses, Live
  <2> QED
    BY <1>1, <2>1, <2>2, <2>3, <2>4, <2>5, <2>6, <2>7 DEF StepOf
<1>2. CASE (Reject \/ Stop) /\ Contend
  BY <1>2, QuietReachable DEF Reject, Stop, Live
<1>3. CASE UNCHANGED vars
  BY <1>3 DEF vars, UncontestedReachable, Live
<1> QED
  BY <1>1, <1>2, <1>3, NextSplit DEF Next

\* A connection that has sent a frame is found through sessions_, for every
\* number of descriptors and sessions, while nobody else came to share its
\* session (handle_client's switch and unregister_session keep each other's
\* entries apart).
THEOREM ReachableCorrect == Spec => []UncontestedReachable
<1>1. Init => UncontestedReachable
  BY DEF Init, UncontestedReachable, Live
<1>2. TypeOK /\ ClosedClean /\ UncontestedReachable /\ [Next]_vars => UncontestedReachable'
  BY StepReachable
<1> QED
  BY <1>1, <1>2, BasicsInvariant, PTL DEF Spec
=============================================================================

--------------------------- MODULE CompositionProofs ---------------------------
(***************************************************************************)
(* Proofs about what runs beside the connections: the messages of          *)
(* Messaging and the background loops of Server, each for any number of    *)
(* descriptors, sessions and callers and for every configuration.  Both    *)
(* rest on the invariants of ClientsProofs, since a step of either is a    *)
(* step of the connections or leaves them alone.                           *)
(***************************************************************************)
EXTENDS Messaging, Server, ClientsProofs

-----------------------------------------------------------------------------
(* Messages *)

\* A step of Messaging is a step of the connections or leaves them alone.
LEMMA MessagingSteps == [MNext]_mvars => [Next]_vars
  BY DEF MNext, mvars, ConnectionStep, SendTo, Broadcast, WriteDone, WriteFailsCaught,
         WriteFailsThrough, Next, Step

\* So the registry is as good under messages as without them.
LEMMA MessagingRegistry == MSpec => [](TypeOK /\ ClosedClean /\ RegistryLive)
<1>1. MInit => Init
  BY DEF MInit
<1>2. MSpec => Spec
  BY <1>1, MessagingSteps, PTL DEF MSpec, Spec
<1> QED
  BY <1>2, BasicsInvariant, RegistryCorrect, PTL

\* A caller that executes nothing has nothing to visit; the entries of a
\* snapshot are of different sessions, and the one being written to is no
\* longer among those to be visited.
SnapshotInv ==
  \A c \in Callers :
    /\ kind[c] = "none" => todo[c] = {} /\ target[c] = {}
    /\ \A p, q \in todo[c] \cup target[c] : p[1] = q[1] => p = q
    /\ todo[c] \cap target[c] = {}

\* The history of sessions covers the current one, and is forgotten with the
\* connection.
UsedInv ==
  \A fd \in Fds :
    /\ st[fd] = "closed" => used[fd] = {}
    /\ st[fd] # "closed" /\ cur[fd] # NoSid => cur[fd] \in used[fd]

\* A snapshot of the registry: one entry per session, and for an ordinary
\* session the descriptor of its connection.
LEMMA SnapshotFacts ==
  ASSUME TypeOK, RegistryLive
  PROVE  /\ Snapshot \subseteq Entries
         /\ \A p, q \in Snapshot : p[1] = q[1] => p = q
         /\ \A p \in Snapshot : p[1] \notin {ZeroSid, NoSid} =>
              p[2] \in Fds /\ Bound(p[2], p[1])
<1>1. \A p \in Snapshot : \E sid \in Sids : p = <<sid, sessions[sid]>> /\ sessions[sid] \in Fds
  BY DEF Snapshot, TypeOK
<1>2. ASSUME NEW p \in Snapshot
      PROVE  /\ p[1] \in Sids /\ p[2] = sessions[p[1]] /\ p[2] \in Fds
             /\ p = <<p[1], p[2]>> /\ p \in Entries
  BY <1>1, <1>2 DEF Entries
<1>3. \A p, q \in Snapshot : p[1] = q[1] => p = q
  BY <1>2
<1>4. ASSUME NEW p \in Snapshot, p[1] \notin {ZeroSid, NoSid}
      PROVE  p[2] \in Fds /\ Bound(p[2], p[1])
  BY <1>2, <1>4, FdsAssumption DEF RegistryLive
<1> QED
  BY <1>2, <1>3, <1>4

\* What the loop over a snapshot does to the state of its caller.
LEMMA ProceedFacts ==
  ASSUME MTypeOK, NEW c \in Callers, NEW k \in Kinds \ {"none"}, NEW rest \in SUBSET Entries,
         Proceed(c, k, rest)
  PROVE  /\ kind' \in [Callers -> Kinds]
         /\ todo' \in [Callers -> SUBSET Entries]
         /\ target' \in [Callers -> SUBSET Entries]
         /\ \A o \in Callers \ {c} :
              kind'[o] = kind[o] /\ todo'[o] = todo[o] /\ target'[o] = target[o]
         /\ todo'[c] \cup target'[c] \subseteq rest /\ todo'[c] \cap target'[c] = {}
         /\ kind'[c] \in {k, "none"}
         /\ kind'[c] = "none" => todo'[c] = {} /\ target'[c] = {}
<1>1. CASE Finish(c)
  BY <1>1 DEF Finish, MTypeOK, Kinds
<1>2. CASE ~Finish(c)
  <2>1. PICK p \in rest, skip \in SUBSET rest :
          /\ kind' = [kind EXCEPT ![c] = k]
          /\ todo' = [todo EXCEPT ![c] = rest \ (skip \cup {p})]
          /\ target' = [target EXCEPT ![c] = {p}]
    BY <1>2 DEF Proceed
  <2>2. rest \ (skip \cup {p}) \in SUBSET Entries /\ {p} \in SUBSET Entries
    OBVIOUS
  <2> QED
    BY <2>1, <2>2 DEF MTypeOK
<1> QED
  BY <1>1, <1>2

\* The history variables after a step.
LEMMA TrackFacts ==
  ASSUME TypeOK, TypeOK', MTypeOK, UsedInv, Track
  PROVE  /\ dead' \in [Callers -> SUBSET Fds] /\ used' \in [Fds -> SUBSET Sids]
         /\ UsedInv'
         /\ \A fd \in Fds : st'[fd] # "closed" => used[fd] \subseteq used'[fd]
         /\ \A c \in Callers : kind'[c] # "none" =>
              /\ dead[c] \subseteq dead'[c]
              /\ \A fd \in Fds : st[fd] # "closed" /\ st'[fd] = "closed" => fd \in dead'[c]
<1>1. /\ dead' \in [Callers -> SUBSET Fds]
      /\ \A c \in Callers : kind'[c] # "none" =>
              /\ dead[c] \subseteq dead'[c]
              /\ \A fd \in Fds : st[fd] # "closed" /\ st'[fd] = "closed" => fd \in dead'[c]
  BY DEF Track, MTypeOK
<1>2. /\ used' \in [Fds -> SUBSET Sids]
      /\ UsedInv'
      /\ \A fd \in Fds : st'[fd] # "closed" => used[fd] \subseteq used'[fd]
  BY DEF Track, MTypeOK, UsedInv, TypeOK
<1> QED
  BY <1>1, <1>2

MessagingInv == MTypeOK /\ SnapshotInv /\ UsedInv /\ AddressedToUser

\* An address that was right stays right or is among the expired ones.
LEMMA AddressesExpire ==
  ASSUME TypeOK, TypeOK', MessagingInv, Track, NEW c \in Callers, kind'[c] # "none",
         NEW p \in todo[c] \cup target[c], p[1] \notin {ZeroSid, NoSid}
  PROVE  p[2] \in dead'[c] \/ p[1] \in used'[p[2]]
<1>1. p \in Entries /\ p[2] \in Fds /\ p[1] \in Sids
  BY DEF MessagingInv, MTypeOK, Entries
<1>2. p[2] \in dead[c] \/ p[1] \in used[p[2]]
  BY DEF MessagingInv, AddressedToUser
<1>3. used[p[2]] # {} => st[p[2]] # "closed"
  BY <1>1 DEF MessagingInv, UsedInv
<1> QED
  BY <1>1, <1>2, <1>3, TrackFacts DEF MessagingInv

\* The step of a caller c that goes on with entries of its own snapshot, or
\* with entries of a new one.
LEMMA CallerStep ==
  ASSUME TypeOK, RegistryLive, MessagingInv, UNCHANGED vars, Track,
         NEW c \in Callers, NEW k \in Kinds \ {"none"}, NEW rest \in SUBSET Entries,
         Proceed(c, k, rest), rest \subseteq Snapshot \/ rest \subseteq todo[c]
  PROVE  MessagingInv'
<1>1. TypeOK'
  BY DEF TypeOK, vars
<1>2. MTypeOK' /\ UsedInv'
  BY <1>1, ProceedFacts, TrackFacts DEF MessagingInv, MTypeOK
<1>3. SnapshotInv'
  <2>1. \A p, q \in rest : p[1] = q[1] => p = q
    BY SnapshotFacts DEF MessagingInv, SnapshotInv
  <2> QED
    BY <2>1, ProceedFacts DEF MessagingInv, SnapshotInv
<1>4. ASSUME NEW o \in Callers, NEW p \in todo'[o] \cup target'[o], p[1] \notin {ZeroSid, NoSid}
      PROVE  p[2] \in dead'[o] \/ p[1] \in used'[p[2]]
  <2>1. kind'[o] # "none"
    BY <1>3, <1>4 DEF SnapshotInv
  <2>2. CASE p \in todo[o] \cup target[o]
    BY <1>1, <1>4, <2>1, <2>2, AddressesExpire
  <2>3. CASE p \notin todo[o] \cup target[o]
    <3>1. o = c /\ p \in rest
      BY <1>4, <2>3, ProceedFacts DEF MessagingInv
    <3>2. p \in Snapshot
      BY <2>3, <3>1
    <3>3. p[2] \in Fds /\ Bound(p[2], p[1])
      BY <1>4, <3>2, SnapshotFacts
    <3>4. p[1] \in used[p[2]]
      BY <1>4, <3>3 DEF Bound, Live, Abandoned, MessagingInv, UsedInv
    <3>5. st'[p[2]] # "closed"
      BY <3>3 DEF Bound, Live, Abandoned, vars
    <3> QED
      BY <1>1, <3>3, <3>4, <3>5, TrackFacts DEF MessagingInv
  <2> QED
    BY <2>2, <2>3
<1> QED
  BY <1>2, <1>3, <1>4 DEF MessagingInv, AddressedToUser

\* A step in which no caller takes up a new entry.
LEMMA QuietStep ==
  ASSUME TypeOK, TypeOK', MessagingInv, Track,
         \/ UNCHANGED <<kind, todo, target>>
         \/ \E c \in Callers : Finish(c)
  PROVE  MessagingInv'
<1>1. /\ kind' \in [Callers -> Kinds]
      /\ todo' \in [Callers -> SUBSET Entries]
      /\ target' \in [Callers -> SUBSET Entries]
      /\ SnapshotInv'
      /\ \A c \in Callers : todo'[c] \subseteq todo[c] /\ target'[c] \subseteq target[c]
  BY DEF MessagingInv, MTypeOK, SnapshotInv, Finish, Kinds
<1>2. MTypeOK' /\ UsedInv'
  BY <1>1, TrackFacts DEF MessagingInv, MTypeOK
<1>3. AddressedToUser'
  BY <1>1, AddressesExpire DEF SnapshotInv, AddressedToUser
<1> QED
  BY <1>1, <1>2, <1>3 DEF MessagingInv

LEMMA StepMessaging ==
  ASSUME TypeOK, TypeOK', RegistryLive, MessagingInv, [MNext]_mvars
  PROVE  MessagingInv'
<1>s. Snapshot \subseteq Entries
  BY SnapshotFacts
<1>1. CASE ConnectionStep
  BY <1>1, QuietStep DEF ConnectionStep
<1>2. ASSUME NEW c \in Callers, NEW sid \in FrameSids, SendTo(c, sid)
      PROVE  MessagingInv'
  BY <1>s, <1>2, CallerStep DEF SendTo, Kinds
<1>3. ASSUME NEW c \in Callers, NEW k \in {"all", "if"}, Broadcast(c, k)
      PROVE  MessagingInv'
  BY <1>s, <1>3, CallerStep DEF Broadcast, Kinds
<1>4. ASSUME NEW c \in Callers, WriteDone(c)
      PROVE  MessagingInv'
  <2>1. kind[c] \in Kinds \ {"none"} /\ todo[c] \in SUBSET Entries
    BY <1>4 DEF WriteDone, MessagingInv, MTypeOK
  <2> QED
    BY <1>4, <2>1, CallerStep DEF WriteDone
<1>5. ASSUME NEW c \in Callers, WriteFailsCaught(c)
      PROVE  MessagingInv'
  BY <1>5, QuietStep DEF WriteFailsCaught
<1>6. ASSUME NEW fd \in Fds \cap Callers, WriteFailsThrough(fd)
      PROVE  MessagingInv'
  BY <1>6, QuietStep DEF WriteFailsThrough
<1>7. CASE UNCHANGED mvars
  BY <1>7 DEF mvars, vars, MessagingInv, MTypeOK, SnapshotInv, UsedInv, AddressedToUser
<1> QED
  BY <1>1, <1>2, <1>3, <1>4, <1>5, <1>6, <1>7 DEF MNext

LEMMA MessagingInvariant == MSpec => []MessagingInv
<1>1. MInit => MessagingInv
  BY SidsAssumption DEF MInit, Init, MessagingInv, MTypeOK, SnapshotInv, UsedInv, AddressedToUser, Kinds
<1>2. /\ TypeOK /\ RegistryLive /\ TypeOK' /\ MessagingInv /\ [MNext]_mvars
      => MessagingInv'
  BY StepMessaging
<1> QED
  BY <1>1, <1>2, MessagingRegistry, PTL DEF MSpec

\* Every variable of the messaging operations keeps its type.
THEOREM MessagingTypes == MSpec => []MTypeOK
<1>1. MessagingInv => MTypeOK
  BY DEF MessagingInv
<1> QED
  BY <1>1, MessagingInvariant, PTL

\* No message of send_to, broadcast and broadcast_if goes to a connection that
\* never used its session, unless the descriptor was closed in the meantime.
THEOREM AddressesCorrect == MSpec => []AddressedToUser
<1>1. MessagingInv => AddressedToUser
  BY DEF MessagingInv
<1> QED
  BY <1>1, MessagingInvariant, PTL

\* A step that begins a send_to takes its entry from the registry as it is.
LEMMA StepFresh ==
  ASSUME TypeOK, RegistryLive, MessagingInv, [MNext]_mvars, NEW c \in Callers,
         kind[c] = "none", kind'[c] = "send",
         NEW p \in target'[c], p[1] \notin {ZeroSid, NoSid}
  PROVE  Bound(p[2], p[1])
<1>s. Snapshot \subseteq Entries
  BY SnapshotFacts
<1>1. ASSUME NEW d \in Callers, NEW sid \in FrameSids, SendTo(d, sid)
      PROVE  p \in Snapshot
  <2>1. d = c /\ target'[c] \subseteq {q \in Snapshot : q[1] = sid}
    BY <1>s, <1>1, ProceedFacts DEF SendTo, MessagingInv, Kinds
  <2> QED
    BY <2>1
<1>2. ASSUME NEW d \in Callers, NEW k \in {"all", "if"}, Broadcast(d, k)
      PROVE  FALSE
  BY <1>s, <1>2, ProceedFacts DEF Broadcast, MessagingInv, Kinds
<1>3. ASSUME NEW d \in Callers, WriteDone(d)
      PROVE  FALSE
  <2>1. kind[d] \in Kinds \ {"none"} /\ todo[d] \in SUBSET Entries /\ d # c
    BY <1>3 DEF WriteDone, MessagingInv, MTypeOK
  <2> QED
    BY <1>3, <2>1, ProceedFacts DEF WriteDone, MessagingInv
<1>4. ~ConnectionStep /\ ~UNCHANGED mvars
  BY DEF ConnectionStep, mvars
<1>5. ASSUME NEW d \in Callers, Finish(d)
      PROVE  FALSE
  BY <1>5 DEF Finish, MessagingInv, MTypeOK
<1>6. p \in Snapshot
  BY <1>1, <1>2, <1>3, <1>4, <1>5 DEF MNext, WriteFailsCaught, WriteFailsThrough
<1> QED
  BY <1>6, SnapshotFacts

\* send_to submits its frame to the connection of its session.
THEOREM SendToCorrect == MSpec => SendToIsFresh
<1>1. TypeOK /\ RegistryLive /\ MessagingInv /\ [MNext]_mvars =>
        [\A c \in Callers :
           kind[c] = "none" /\ kind'[c] = "send" =>
             \A p \in target'[c] : p[1] \notin {ZeroSid, NoSid} => Bound(p[2], p[1])]_mvars
  BY StepFresh
<1> QED
  BY <1>1, MessagingRegistry, MessagingInvariant, PTL DEF MSpec, SendToIsFresh

\* A step that goes on with a broadcast leaves the session it has just served.
LEMMA StepVisits ==
  ASSUME TypeOK, RegistryLive, MessagingInv, [MNext]_mvars, NEW c \in Callers,
         NEW p \in target[c], kind[c] # "none", kind'[c] # "none", target'[c] # target[c],
         NEW q \in todo'[c] \cup target'[c]
  PROVE  q[1] # p[1]
<1>s. Snapshot \subseteq Entries
  BY SnapshotFacts
<1>1. WriteDone(c)
  <2>1. ASSUME NEW d \in Callers, NEW sid \in FrameSids, SendTo(d, sid)
        PROVE  FALSE
    BY <1>s, <2>1, ProceedFacts DEF SendTo, CanCall, MessagingInv, Kinds
  <2>2. ASSUME NEW d \in Callers, NEW k \in {"all", "if"}, Broadcast(d, k)
        PROVE  FALSE
    BY <1>s, <2>2, ProceedFacts DEF Broadcast, CanCall, MessagingInv, Kinds
  <2>3. ASSUME NEW d \in Callers, d # c, WriteDone(d)
        PROVE  FALSE
    <3>1. kind[d] \in Kinds \ {"none"} /\ todo[d] \in SUBSET Entries
      BY <2>3 DEF WriteDone, MessagingInv, MTypeOK
    <3> QED
      BY <2>3, <3>1, ProceedFacts DEF WriteDone, MessagingInv
  <2>4. ASSUME NEW d \in Callers, Finish(d)
        PROVE  FALSE
    BY <2>4 DEF Finish, MessagingInv, MTypeOK
  <2> QED
    BY <2>1, <2>2, <2>3, <2>4 DEF MNext, mvars, ConnectionStep, WriteFailsCaught, WriteFailsThrough
<1>2. kind[c] \in Kinds \ {"none"} /\ todo[c] \in SUBSET Entries
  BY <1>1 DEF WriteDone, MessagingInv, MTypeOK
<1>3. q \in todo[c]
  BY <1>1, <1>2, ProceedFacts DEF WriteDone, MessagingInv
<1> QED
  BY <1>3 DEF MessagingInv, SnapshotInv

\* A broadcast visits no session twice.
THEOREM VisitsCorrect == MSpec => VisitsOnce
<1>1. TypeOK /\ RegistryLive /\ MessagingInv /\ [MNext]_mvars =>
        [\A c \in Callers : \A p \in target[c] :
           kind[c] # "none" /\ kind'[c] # "none" /\ target'[c] # target[c] =>
             \A q \in todo'[c] \cup target'[c] : q[1] # p[1]]_mvars
  BY StepVisits
<1> QED
  BY <1>1, MessagingRegistry, MessagingInvariant, PTL DEF MSpec, VisitsOnce
-----------------------------------------------------------------------------
(* Background loops *)

TaskStates == {"off", "waiting", "busy", "ended", "dead"}

\* Types of what the loops and the switches are made of; before run() no
\* coroutine has got beyond its first suspension.
LoopTypes ==
  /\ running \in BOOLEAN /\ respond \in BOOLEAN /\ discovery \in BOOLEAN
  /\ st \in [Fds -> Phases]
  /\ task \in [Loops -> TaskStates]
  /\ phase \in {"init", "failed", "ready"} => \A l \in Loops : task[l] \in {"off", "waiting"}

\* The switches and the histories: an "off" of the application is safe because
\* lookups are answered, nobody was turned away while they are, and they are
\* answered against the configuration only once a client has left.
SwitchInv ==
  /\ appOff = "off" => ~discovery /\ respond
  /\ turnedAway => ~respond
  /\ respond => RespondConfigured \/ left

ServerInv == LoopTypes /\ SwitchInv

\* What a step of the connections does to the switches: on with a close, off
\* with a rejection, and otherwise nothing; it starts no stopped server.
LEMMA SwitchSteps ==
  ASSUME LoopTypes, Next
  PROVE  /\ running' \in BOOLEAN /\ respond' \in BOOLEAN /\ discovery' \in BOOLEAN
         /\ st' \in [Fds -> Phases]
         /\ running' => running
         /\ \/ UNCHANGED <<respond, discovery>>
            \/ ~respond' /\ ~discovery'
            \/ \E fd \in Fds :
                 /\ st[fd] # "closed" /\ st'[fd] = "closed"
                 /\ respond => UNCHANGED <<respond, discovery>>
<1>1. ASSUME NEW fd \in Fds, Close(fd), st[fd] # "closed"
      PROVE  /\ respond' \in BOOLEAN /\ discovery' \in BOOLEAN /\ st' \in [Fds -> Phases]
             /\ st'[fd] = "closed"
             /\ respond => UNCHANGED <<respond, discovery>>
  <2>1. /\ respond' = (respond \/ Reopens(active - 1))
        /\ discovery' = (discovery \/ Reopens(active - 1))
        /\ st' = [st EXCEPT ![fd] = "closed"]
    BY <1>1 DEF Close
  <2>2. respond => ~Reopens(active - 1)
    BY DEF Reopens
  <2>3. respond => UNCHANGED <<respond, discovery>>
    BY <2>1, <2>2 DEF LoopTypes
  <2> QED
    BY <2>1, <2>3 DEF LoopTypes, Phases
<1>2. ASSUME NEW fd \in Fds, Leave(fd), Live(fd)
      PROVE  /\ respond' \in BOOLEAN /\ discovery' \in BOOLEAN /\ st' \in [Fds -> Phases]
             /\ \/ UNCHANGED <<respond, discovery>>
                \/ /\ st[fd] # "closed" /\ st'[fd] = "closed"
                   /\ respond => UNCHANGED <<respond, discovery>>
  <2>1. CASE Close(fd)
    BY <1>1, <1>2, <2>1 DEF Live
  <2>2. CASE ~Close(fd)
    BY <1>2, <2>2 DEF Leave, LoopTypes, Phases
  <2> QED
    BY <2>1, <2>2
<1>3. ASSUME NEW fd \in Fds, StepOf(fd)
      PROVE  /\ running' \in BOOLEAN /\ respond' \in BOOLEAN /\ discovery' \in BOOLEAN
             /\ st' \in [Fds -> Phases]
             /\ running' => running
             /\ \/ UNCHANGED <<respond, discovery>>
                \/ /\ st[fd] # "closed" /\ st'[fd] = "closed"
                   /\ respond => UNCHANGED <<respond, discovery>>
  <2>1. CASE (\E m \in Modes : Accept(fd, m)) \/ (\E sid \in FrameSids : Frame(fd, sid))
             \/ ServeDone(fd) \/ ServeEscapes(fd) \/ HandlerThrew(fd) \/ PeerCloses(fd)
    BY <2>1 DEF Accept, Frame, ServeDone, ServeEscapes, HandlerThrew, PeerCloses, LoopTypes, Phases
  <2>2. CASE ServeFails(fd) \/ ServeStops(fd) \/ ReadFails(fd)
    BY <1>2, <2>2 DEF ServeFails, ServeStops, ReadFails, Live, LoopTypes
  <2>3. CASE HandlerReturned(fd)
    BY <1>1, <2>3 DEF HandlerReturned, LoopTypes
  <2> QED
    BY <1>3, <2>1, <2>2, <2>3 DEF StepOf
<1>4. CASE Reject \/ Stop
  BY <1>4 DEF Reject, Stop, LoopTypes
<1> QED
  BY <1>3, <1>4, NextSplit

\* A completion that resumes a background loop.
LEMMA ResumeStep ==
  ASSUME ServerInv, NEW l \in Loops, NEW from, NEW to \in TaskStates, Resume(l, from, to)
  PROVE  ServerInv'
<1>1. LoopTypes'
  BY DEF ServerInv, LoopTypes, Resume, vars
<1>2. SwitchInv'
  BY DEF ServerInv, SwitchInv, Resume, vars
<1> QED
  BY <1>1, <1>2 DEF ServerInv

LEMMA StepServer ==
  ASSUME ServerInv, [SNext]_svars
  PROVE  ServerInv'
<1> USE DEF ServerInv
<1>l. {"accept", "timer", "bus", "udp", "discovery", "announce"} \subseteq Loops
  <2>1. /\ InitOrder[1] = "accept" /\ InitOrder[2] = "timer" /\ InitOrder[3] = "bus"
        /\ InitOrder[4] = "udp" /\ InitOrder[5] = "discovery" /\ InitOrder[6] = "announce"
        /\ DOMAIN InitOrder = 1..6
    BY DEF InitOrder
  <2> QED
    BY <2>1 DEF Loops
<1>a. Again \in TaskStates /\ \A l, at, ok : After(l, at, ok) \in TaskStates
  BY DEF Again, After, TaskStates
<1>1. CASE InitStep
  <2>1. \A l \in Loops : task'[l] \in {task[l], "off", "waiting"}
    BY <1>1 DEF InitStep, LoopTypes
  <2>2. task' \in [Loops -> TaskStates] /\ UNCHANGED <<vars, histVars>> /\ phase = "init"
    BY <1>1 DEF InitStep, LoopTypes, TaskStates
  <2> QED
    BY <2>1, <2>2 DEF LoopTypes, SwitchInv, vars, histVars
<1>2. CASE InitThrows \/ Signal \/ LastClientStep \/ UNCHANGED svars
  BY <1>2 DEF InitThrows, Signal, LastClientStep, InLoop, svars, bgVars, vars, histVars, LoopTypes, SwitchInv
<1>3. CASE Run
  BY <1>3 DEF Run, histVars, LoopTypes, SwitchInv
<1>4. CASE Check
  BY <1>4 DEF Check, histVars, LoopTypes, SwitchInv
<1>5. CASE StopCall
  BY <1>5 DEF StopCall, Stop, bgVars, histVars, LoopTypes, SwitchInv
<1>6. CASE ClientStep
  <2>1. Next /\ Record /\ task' = task /\ phase' = "check"
    BY <1>6 DEF ClientStep
  <2>2. LoopTypes'
    BY <2>1, SwitchSteps DEF LoopTypes
  <2>3. SwitchInv'
    <3>1. CASE UNCHANGED <<respond, discovery>>
      BY <2>1, <3>1 DEF Record, SwitchInv
    <3>2. CASE ~respond' /\ ~discovery'
      BY <2>1, <3>2 DEF Record, SwitchInv, LoopTypes
    <3>3. CASE \E fd \in Fds :
                 /\ st[fd] # "closed" /\ st'[fd] = "closed"
                 /\ respond => UNCHANGED <<respond, discovery>>
      <4>1. ~turnedAway' /\ left'
        BY <2>1, <3>3 DEF Record
      <4>2. appOff' = "off" => appOff = "off"
        BY <2>1 DEF Record
      <4>3. appOff' = "off" => ~discovery' /\ respond'
        BY <3>3, <4>2 DEF SwitchInv
      <4> QED
        BY <4>1, <4>3 DEF SwitchInv
    <3> QED
      BY <2>1, <3>1, <3>2, <3>3, SwitchSteps
  <2> QED
    BY <2>2, <2>3
<1>7. ASSUME NEW on \in BOOLEAN, AppSwitches(on)
      PROVE  ServerInv'
  BY <1>7 DEF AppSwitches, bgVars, LoopTypes, SwitchInv
<1>8. ASSUME NEW l \in Loops, Serve(l)
      PROVE  ServerInv'
  BY <1>8, ResumeStep DEF Serve, TaskStates
<1>9. ASSUME NEW l \in Loops, Pass(l)
      PROVE  ServerInv'
  BY <1>8, <1>9, <1>a, ResumeStep DEF Pass
<1>10. CASE Lookup
  BY <1>10, <1>a, <1>l, ResumeStep DEF Lookup, TaskStates
<1>11. CASE Announce
  BY <1>11, <1>a, <1>l, ResumeStep DEF Announce, TaskStates
<1>12. ASSUME NEW l \in Loops, NEW ok \in BOOLEAN, Done(l, ok)
       PROVE  ServerInv'
  BY <1>12, <1>a, ResumeStep DEF Done
<1>13. ASSUME NEW l \in Loops, OpFails(l)
       PROVE  ServerInv'
  BY <1>13, <1>a, ResumeStep DEF OpFails
<1>14. ASSUME NEW l \in Loops, Escapes(l)
       PROVE  ServerInv'
  BY <1>14, ResumeStep DEF Escapes, TaskStates
<1> QED
  BY <1>1, <1>2, <1>3, <1>4, <1>5, <1>6, <1>7, <1>8, <1>9, <1>10, <1>11, <1>12, <1>13, <1>14
  DEF SNext

LEMMA ServerInvariant == SSpec => []ServerInv
<1>1. SInit => ServerInv
  BY SwitchAssumption DEF SInit, Init, ServerInv, LoopTypes, SwitchInv, TaskStates, Phases
<1>2. ServerInv /\ [SNext]_svars => ServerInv'
  BY StepServer
<1> QED
  BY <1>1, <1>2, PTL DEF SSpec

\* disable_discovery() lasts, with lookups answered, until the application or a
\* rejection changes the switches.
THEOREM DisableCorrect == SSpec => []DisableHolds
<1>1. ServerInv => DisableHolds
  BY DEF ServerInv, SwitchInv, DisableHolds
<1> QED
  BY <1>1, ServerInvariant, PTL

\* The only step that starts an answer is a lookup with respond_to_clients on.
LEMMA StepSilent ==
  ASSUME ServerInv, [SNext]_svars, task["discovery"] = "waiting", task'["discovery"] = "busy"
  PROVE  ~turnedAway /\ (RespondConfigured \/ left)
<1>a. Again # "busy" /\ \A l, at, ok : After(l, at, ok) # "busy"
  BY DEF Again, After
<1>1. ASSUME NEW l \in Loops, NEW from, NEW to, Resume(l, from, to), to # "busy" \/ l # "discovery"
      PROVE  FALSE
  BY <1>1 DEF Resume, ServerInv, LoopTypes
<1>2. CASE Lookup
  <2>1. "discovery" \in Loops \/ task' = task
    BY <1>2 DEF Lookup, Resume, ServerInv, LoopTypes
  <2>2. Responds
    BY <1>1, <1>2, <1>a, <2>1 DEF Lookup
  <2> QED
    BY <2>2 DEF Responds, ServerInv, SwitchInv
<1>3. CASE InitStep
  BY <1>3 DEF InitStep, ServerInv, LoopTypes
<1>4. UNCHANGED task => FALSE
  OBVIOUS
<1>5. ASSUME NEW l \in Loops, NEW ok \in BOOLEAN,
             Serve(l) \/ Pass(l) \/ Done(l, ok) \/ OpFails(l) \/ Escapes(l)
      PROVE  FALSE
  <2>1. CASE Serve(l)
    BY <1>1, <2>1 DEF Serve
  <2>2. CASE Pass(l) \/ Done(l, ok) \/ OpFails(l) \/ Escapes(l)
    BY <1>1, <1>a, <2>2 DEF Pass, Done, OpFails, Escapes
  <2> QED
    BY <1>5, <2>1, <2>2
<1>6. CASE Announce
  BY <1>6 DEF Announce, Resume, ServerInv, LoopTypes
<1> QED
  BY <1>2, <1>3, <1>4, <1>5, <1>6 DEF SNext, svars, bgVars, InitThrows, Run, Check, StopCall,
     Signal, ClientStep, LastClientStep, AppSwitches

\* The server is silent after a rejection until a client has left, and, when it
\* was configured not to answer, until some client has left.
THEOREM SilenceCorrect == SSpec => SilentWhenTold
<1>1. ServerInv /\ [SNext]_svars =>
        [task["discovery"] = "waiting" /\ task'["discovery"] = "busy" =>
           ~turnedAway /\ (RespondConfigured \/ left)]_svars
  BY StepSilent
<1> QED
  BY <1>1, ServerInvariant, PTL DEF SSpec, SilentWhenTold
=============================================================================

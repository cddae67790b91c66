------------------------------- MODULE Server -------------------------------
(***************************************************************************)
(* The life of a Server: init() (src/src/serveur/ServerLifecycle.cpp),     *)
(* run(), stop() and signals, and the coroutines init() starts beside the  *)
(* accept loops: UDP loop, discovery loop and announcements, periodic      *)
(* tasks and D-Bus monitor (ClientHandlers.cpp), composed with the         *)
(* connections of Clients, which they share running, the connection count  *)
(* and the discovery switches with.                                        *)
(*                                                                         *)
(* A background coroutine is waiting for its operation, busy (it has got   *)
(* one and awaits another: a handler, a send), or has ended.  Which loop   *)
(* survives which error depends on where its try block is.                 *)
(***************************************************************************)
EXTENDS Clients, Sequences

CONSTANTS
  Setups   \* the sets of coroutines the application may configure

\* The order in which init() starts them; "accept" stands for the accept loops
\* of the TCP ports and the UNIX sockets.
InitOrder == <<"accept", "timer", "bus", "udp", "discovery", "announce">>
Loops == {InitOrder[i] : i \in DOMAIN InitOrder}

ASSUME SetupsAssumption ==
  \A s \in Setups : s \subseteq Loops /\ ("announce" \in s => "discovery" \in s)

VARIABLES
  setup,      \* what this application has configured
  phase,      \* "init", "failed", "ready", then run(): "check", "wait", "stopped"
  started,    \* how many elements of InitOrder init() has dealt with
  signalled,  \* g_signal_received
  task,       \* each coroutine: "off", "waiting", "busy", "ended" (it has left
              \* its while loop) or "dead" (an exception has left the coroutine)
  answered,   \* (history) a lookup was answered since the last rejection
  announced,  \* (history) the server announced itself since it was last idle
  turnedAway, \* (history) a client was rejected and no client has left since
  left,       \* (history) some client has left
  gone,       \* (history) coroutines ended by an exception the code lets escape
  appOff      \* (history) the application's last switch: "on", "off", or "weak",
              \* off but lookups are not answered, so a close undoes it

bgVars == <<setup, phase, started, signalled, task>>
histVars == <<answered, announced, turnedAway, left, gone, appOff>>
svars == <<vars, bgVars, histVars>>

SInit ==
  /\ Init  \* init_defaults() and running = true are done
  /\ setup \in Setups
  /\ phase = "init" /\ started = 0 /\ signalled = FALSE
  /\ task = [l \in Loops |-> "off"]
  /\ answered = FALSE /\ announced = FALSE
  /\ turnedAway = FALSE /\ left = FALSE /\ gone = {} /\ appOff = "on"

-----------------------------------------------------------------------------
(* init(), run(), stop() *)

\* The next coroutine of init(): it runs to its first suspension.
\* init_discovery returns at once when discovery is not enabled.
Configured(l) == l \in setup /\ (l \in {"discovery", "announce"} => discovery)
InitStep ==
  LET l == InitOrder[started + 1] IN
  /\ phase = "init"
  /\ started' = started + 1
  /\ task' = [task EXCEPT ![l] = IF Configured(l) THEN "waiting" ELSE "off"]
  /\ phase' = IF started + 1 = Len(InitOrder) THEN "ready" ELSE "init"
  /\ UNCHANGED <<vars, setup, signalled, histVars>>

\* socket(), bind() or listen() fails: init() throws, and the coroutines started
\* before are never resumed.
InitThrows ==
  /\ phase = "init" /\ Configured(InitOrder[started + 1])
  /\ InitOrder[started + 1] \in {"accept", "udp", "discovery"}
  /\ phase' = "failed"
  /\ UNCHANGED <<vars, setup, started, signalled, task, histVars>>

\* run() is entered: both flags are reset.
Run ==
  /\ phase = "ready"
  /\ phase' = "check" /\ running' = TRUE /\ signalled' = FALSE
  /\ UNCHANGED <<st, mode, cur, sessions, active, respond, discovery, eof, contested>>
  /\ UNCHANGED <<setup, started, task, histVars>>

\* run() has not returned.
InLoop == phase \in {"check", "wait"}

\* while (running && !g_signal_received).  (Faulty variant: only the signal is
\* looked at.)
GoesOnUnlessSignalled == ~signalled
GoesOn == running /\ ~signalled
Check ==
  /\ phase = "check"
  /\ phase' = IF GoesOn THEN "wait" ELSE "stopped"
  /\ running' = (running /\ GoesOn)
  /\ UNCHANGED <<st, mode, cur, sessions, active, respond, discovery, eof, contested>>
  /\ UNCHANGED <<setup, started, signalled, task, histVars>>

\* stop() from another thread, also before run().
StopCall ==
  /\ phase \in {"ready", "check", "wait"} /\ running
  /\ Stop /\ UNCHANGED contested
  /\ UNCHANGED <<bgVars, histVars>>

\* A signal interrupts the wait for a completion.  When it comes between the test
\* and io_uring_wait_cqe, or when a worker takes it, it only sets the flag.
Signal ==
  /\ InLoop /\ ~signalled
  /\ signalled' = TRUE /\ phase' \in {phase, "check"}
  /\ UNCHANGED <<vars, setup, started, task, histVars>>

-----------------------------------------------------------------------------
(* The connections, and the application's calls *)

\* History of a step of the connections.
Record ==
  LET closes == \E fd \in Fds : st[fd] # "closed" /\ st'[fd] = "closed"
      rejects == respond /\ ~respond'
  IN  /\ answered' = (answered /\ ~rejects)
      /\ announced' = (announced /\ active' = 0)
      /\ turnedAway' = (~closes /\ (turnedAway \/ rejects))
      /\ left' = (left \/ closes)
      /\ UNCHANGED gone
      /\ appOff' = IF rejects /\ appOff = "off" THEN "weak" ELSE appOff

\* A completion resumes a client coroutine or the accept loop.  (PeerCloses is
\* no step of the server: a closed peer is seen when a read fails.)
ClientStep ==
  /\ phase = "wait" /\ task["accept"] = "waiting"
  /\ Next /\ eof' \subseteq eof
  /\ phase' = "check"
  /\ Record
  /\ UNCHANGED <<setup, started, signalled, task>>

\* The one completion a client may still get after stop() was called in another
\* thread: what its coroutine does is not looked at, as it is resumed no more.
LastClientStep ==
  /\ phase = "wait" /\ ~running /\ Open # {}
  /\ phase' = "check"
  /\ UNCHANGED <<vars, setup, started, signalled, task, histVars>>

\* disable_discovery() and reenable_discovery(), called by the application.
AppSwitches(on) ==
  /\ phase \in {"ready", "wait"} /\ discovery # on
  /\ discovery' = on
  /\ appOff' = IF on THEN "on" ELSE IF respond THEN "off" ELSE "weak"
  /\ UNCHANGED <<running, st, mode, cur, sessions, active, respond, eof, contested>>
  /\ UNCHANGED <<bgVars, answered, announced, turnedAway, left, gone>>

-----------------------------------------------------------------------------
(* The background coroutines *)

\* A completion resumes l, which was in state from and is then in state to.
Resume(l, from, to) ==
  /\ phase = "wait" /\ task[l] = from
  /\ phase' = "check"
  /\ task' = [task EXCEPT ![l] = to]
  /\ UNCHANGED <<vars, setup, started, signalled, turnedAway, left, appOff>>

\* while (running)
Again == IF running THEN "waiting" ELSE "ended"

\* A datagram for the UDP loop, or a tick of a periodic task: its handler runs.
Serve(l) ==
  /\ l \in {"udp", "timer"} /\ Resume(l, "waiting", "busy")
  /\ UNCHANGED <<answered, announced, gone>>

\* A datagram too short for a header, a discovery packet that is short, of
\* another network or no lookup, or activity on the bus, processed at once.
Pass(l) ==
  /\ l \in {"udp", "discovery", "bus"} /\ Resume(l, "waiting", Again)
  /\ UNCHANGED <<answered, announced, gone>>

\* A lookup, answered only with respond_to_clients; a request callback that
\* throws is a send that fails.  (Faulty variant: with
\* discovery_enabled_.)
RespondsIfEnabled == discovery
Responds == respond
Lookup ==
  /\ Resume("discovery", "waiting", IF Responds THEN "busy" ELSE Again)
  /\ UNCHANGED <<answered, announced, gone>>

\* The announcing timer fires: nothing while a client is connected or discovery
\* is off, otherwise a broadcast.
Announce ==
  LET idle == active = 0 /\ discovery
  IN  /\ Resume("announce", "waiting", IF idle THEN "busy" ELSE Again)
      /\ announced' = (announced \/ idle)
      /\ UNCHANGED <<answered, gone>>

\* Where a std::exception is caught: in what a loop does with an operation, and
\* in the accept, UDP and discovery loop also when the operation itself fails; a
\* periodic task and the bus monitor await outside any try block.  (Faulty
\* variants: the receive of the UDP or of the discovery loop is outside its try
\* block.)
CatchesButUdp(l, at) == at = "busy" \/ l \in {"accept", "discovery"}
CatchesButDiscovery(l, at) == at = "busy" \/ l \in {"accept", "udp"}
Catches(l, at) == at = "busy" \/ l \in {"accept", "udp", "discovery"}
After(l, at, ok) == IF ok \/ Catches(l, at) THEN Again ELSE "dead"

\* What l awaited is over: the handler has returned or thrown, the send has
\* completed or failed.
Done(l, ok) ==
  /\ Resume(l, "busy", After(l, "busy", ok))
  /\ answered' = (answered \/ (l = "discovery" /\ ok))
  /\ UNCHANGED <<announced, gone>>

\* The operation l waited for fails; DetachedTask drops an exception that is not
\* caught.
OpFails(l) ==
  /\ Resume(l, "waiting", After(l, "waiting", FALSE))
  /\ gone' = gone \cup ({l} \cap {"timer", "announce", "bus"})
  /\ UNCHANGED <<answered, announced>>

\* A handler of the application, or its callback for lookups, throws something
\* that is no std::exception: no loop catches it.
Escapes(l) ==
  /\ HandlerMayThrow
  /\ l \in {"udp", "timer", "discovery"} /\ Resume(l, "busy", "dead")
  /\ gone' = gone \cup {l}
  /\ UNCHANGED <<answered, announced>>

SNext ==
  \/ InitStep
  \/ InitThrows
  \/ Run
  \/ Check
  \/ StopCall
  \/ Signal
  \/ ClientStep
  \/ LastClientStep
  \/ \E on \in BOOLEAN : AppSwitches(on)
  \/ \E l \in Loops : Serve(l)
  \/ \E l \in Loops : Pass(l)
  \/ Lookup
  \/ Announce
  \/ \E l \in Loops, ok \in BOOLEAN : Done(l, ok)
  \/ \E l \in Loops : OpFails(l)
  \/ \E l \in Loops : Escapes(l)

SSpec == SInit /\ [][SNext]_svars

\* The loop thread runs; the kernel completes timeouts and sends, and handlers
\* return; somebody keeps looking for the server and sending it datagrams, and
\* not every answer fails to be sent.  Completions are dispatched in the order
\* in which they come, so none waits for ever while the loop turns.
SFairness ==
  /\ WF_svars(Check)
  /\ SF_svars(Lookup) /\ SF_svars(Done("discovery", TRUE))
  /\ \A l \in {"udp", "timer"} : SF_svars(Serve(l))
  /\ SF_svars(Announce)
  /\ \A l \in {"udp", "timer", "announce"} : SF_svars(\E ok \in BOOLEAN : Done(l, ok))
SFairSpec == SSpec /\ SFairness

-----------------------------------------------------------------------------
(* Properties *)

\* Datagrams and ticks are served again and again, whatever receives, handlers
\* and sends have failed before, unless the server is stopped or the coroutine
\* has ended in an exception the code lets escape: one that is no
\* std::exception, or a failed timeout.
KeepsServing ==
  \A l \in {"udp", "timer"} :
    /\ (InLoop /\ l \in setup /\ task[l] # "busy")
         ~> (task[l] = "busy" \/ l \in gone \/ ~running)
    /\ task[l] = "busy" ~> (task[l] # "busy" \/ ~running)

\* Nobody is told of the server after a client was turned away and before one
\* has left, and, when the application has configured no answers, before some
\* client has left (a close switches them on all the same).
SilentWhenTold ==
  [][task["discovery"] = "waiting" /\ task'["discovery"] = "busy" =>
       ~turnedAway /\ (RespondConfigured \/ left)]_svars

\* Discovery switched off by the application stays off until it is switched on
\* again, unless lookups are not answered either (configured so, or after a
\* rejection): then the next close switches both on.
DisableHolds == appOff = "off" => ~discovery

\* A lookup is answered, again after each rejection, once there is room, unless
\* an exception of the application's callback has ended the discovery loop.
LookupAnswered ==
  (InLoop /\ task["discovery"] # "off" /\ (RespondConfigured \/ left) /\ ~AtLimit)
    ~> (answered \/ AtLimit \/ "discovery" \in gone \/ ~running)

\* A server that is idle announces itself, again whenever its last client has
\* gone, also after rejections, unless the application has switched it off or
\* the timer has died.
AnnouncedWhenIdle ==
  (InLoop /\ task["announce"] # "off" /\ active = 0)
    ~> (announced \/ active > 0 \/ appOff # "on" \/ "announce" \in gone \/ ~running)

\* A stop() during run(), from any thread, and a signal end the loop.  A loop
\* that sleeps may learn of either only from its next completion, at the latest
\* the next tick of a periodic task.
StopReturns ==
  (InLoop /\ (~running \/ signalled) /\ task["timer"] \in {"waiting", "busy"})
    ~> phase = "stopped"
=============================================================================

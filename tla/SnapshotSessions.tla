-------------------------- MODULE SnapshotSessions --------------------------
(***************************************************************************)
(* What the server promises about session state: a request looks at its    *)
(* session, and later replaces it by what it saw, changed by its own       *)
(* effect and by nothing else.  An endpoint that requires authentication   *)
(* acts only for a request that saw an authenticated session, and a key    *)
(* exchange changes the key alone.  A request acts once or not at all.     *)
(*                                                                         *)
(* When nobody else acts on the session in between, what it saw is what it *)
(* replaces and the request is atomic; when somebody does, the later one   *)
(* wins and the earlier one is lost.                                       *)
(***************************************************************************)
EXTENDS Endpoints

VARIABLES
  session,  \* session id -> Session
  views     \* session id -> what its open requests have seen

avars == <<session, views>>

AInit ==
  /\ session = [sid \in Sids |-> NewSession]
  /\ views = [sid \in Sids |-> {}]

Look(sid) ==
  /\ views' = [views EXCEPT ![sid] = @ \cup {session[sid]}]
  /\ UNCHANGED session

\* The request that saw s ends; other requests may have seen the same.
Ends(sid, s) == \E keep \in {{}, {s}} : views' = [views EXCEPT ![sid] = (@ \ {s}) \cup keep]

Forget(sid) == UNCHANGED session /\ \E s \in views[sid] : Ends(sid, s)

Execute(sid, cmd) ==
  \E s \in views[sid] :
    /\ cmd \in NeedsAuth => s.auth
    /\ session' = [session EXCEPT ![sid] = Apply(cmd, s)]
    /\ Ends(sid, s)

Rekey(sid) ==
  \E s \in views[sid] :
    /\ session' = [session EXCEPT ![sid] = [s EXCEPT !.key = session'[sid].key]]
    /\ session'[sid].key \in Nat \ {0, s.key}
    /\ Ends(sid, s)

ANext ==
  \E sid \in Sids :
    Look(sid) \/ Forget(sid) \/ Rekey(sid) \/ \E cmd \in Commands : Execute(sid, cmd)

ASpec == AInit /\ [][ANext]_avars
=============================================================================

----------------------------- MODULE Endpoints -----------------------------
(***************************************************************************)
(* The router's table and what a request can do to a session: Endpoint,    *)
(* Router::get and Session, as the request path uses them.                 *)
(***************************************************************************)
EXTENDS Integers

CONSTANTS
  Sids,       \* session ids
  Commands,   \* command ids with a registered endpoint
  NeedsAuth,  \* those whose endpoint was given require_auth()
  AllowedOn,  \* command -> allowed_transport (tcp_only, udp_only)
  Effect      \* command -> what its handler does to its session

ASSUME CommandsAssumption ==
  /\ NeedsAuth \subseteq Commands
  /\ AllowedOn \in [Commands -> {"ANY", "TCP", "UDP"}]
  /\ Effect \in [Commands -> {"keep", "login", "logout"}]

\* Session: authenticated_ and the AES key, 0 when has_aes_key_ is false.
Session == [auth : BOOLEAN, key : Nat]
NewSession == [auth |-> FALSE, key |-> 0]

\* The handler's calls of set_authenticated, on a session s.
Apply(cmd, s) ==
  CASE Effect[cmd] = "login"  -> [s EXCEPT !.auth = TRUE]
    [] Effect[cmd] = "logout" -> [s EXCEPT !.auth = FALSE]
    [] Effect[cmd] = "keep"   -> s

\* The endpoint lookup, the authentication and the transport check, for a
\* frame that comes in over transport t.  (Faulty variant: no authentication.)
RoutesWithoutAuth(t, s, cmd) ==
  cmd \in Commands /\ AllowedOn[cmd] \in {"ANY", t}
Routes(t, s, cmd) ==
  /\ cmd \in Commands
  /\ cmd \in NeedsAuth => s.auth
  /\ AllowedOn[cmd] \in {"ANY", t}
=============================================================================

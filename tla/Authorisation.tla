---------------------------- MODULE Authorisation ----------------------------
(***************************************************************************)
(* Who a request comes from and what it may do (app/security/auth.py), as  *)
(* functions of what is read at one moment.  The reads of one request      *)
(* happen at several moments: SocViews says at which.                      *)
(*                                                                         *)
(* A credential is a record: whether the client is on the loopback address *)
(* (local), the API key it presents ("none", "wrong" or the role it is     *)
(* for), its session cookie (empty if it has none), and whether it sends   *)
(* the session's CSRF token.  RoleOf gives the role of a session.          *)
(***************************************************************************)
EXTENDS Integers, Sequences

ROLE_HIERARCHY == [ADMIN |-> 3, ANALYST |-> 2, VIEWER |-> 1]
Role == DOMAIN ROLE_HIERARCHY

User(role, by) == [role |-> role, by |-> by]
Guest == User("VIEWER", "anonymous")
Refused == User("VIEWER", "refused")
IsGuest(u) == u.by = "anonymous"

\* Local operation without authentication: the loopback address alone counts.
LocalUser(cred) == IF cred.local THEN User("ADMIN", "local") ELSE Refused

\* validate_token; a key that is presented decides, also when it is wrong.
KeyUser(cred) == IF cred.key \in Role THEN User(cred.key, "api_key") ELSE Refused

\* A cookie whose session has ended leaves a guest.
SessionUser(cred, live, RoleOf) ==
  IF cred.cookie \in live THEN User(RoleOf[cred.cookie], "session") ELSE Guest

\* get_current_user
CurrentUser(cred, authEnabled, live, RoleOf) ==
  IF ~authEnabled THEN LocalUser(cred)
  ELSE IF cred.key # "none" THEN KeyUser(cred) ELSE SessionUser(cred, live, RoleOf)

\* verify_csrf: the cookie is looked up once more, and a session that is there wants its token.
CsrfVerified(user, cred, live) ==
  user.by = "session" /\ cred.cookie \in live => cred.csrf

\* Mutant: the level is compared the other way round.
RoleBelow(user, min) == ROLE_HIERARCHY[user.role] <= ROLE_HIERARCHY[min]

\* require_role, once the token has been verified.
RoleSuffices(user, min) ==
  (IsGuest(user) => min = "VIEWER") /\ ROLE_HIERARCHY[user.role] >= ROLE_HIERARCHY[min]

\* is_allowed_origin.  An origin is absent, or malformed, or has a scheme, a host, a port (empty
\* when it is the scheme's) and perhaps more than an origin may have.
Localhosts == {"127.0.0.1", "localhost", "::1"}
PortOf(o) == IF o.port # <<>> THEN o.port[1] ELSE IF o.scheme = "https" THEN 443 ELSE 80
AllowedOrigin(o, allowed) ==
  \/ o.form = "absent"
  \/ /\ o.form = "origin" /\ o.scheme \in {"http", "https"} /\ ~o.more
     /\ \/ \E a \in allowed : a.host = o.host /\ a.scheme = o.scheme /\ PortOf(a) = PortOf(o)
        \/ o.host \in Localhosts /\ PortOf(o) \in {80, 443, 8080} \cup 8000..8099

\* authenticate_websocket: a ticket admits whom it was issued to, else the cookie does, else a
\* demonstration admits guests.  A ticket that still admits is given as the user it is for.
SocketUser(origin, allowed, cred, ticket, authEnabled, demo, live, RoleOf) ==
  IF ~AllowedOrigin(origin, allowed) THEN Refused
  ELSE IF ~authEnabled THEN LocalUser(cred)
  ELSE IF ticket # <<>> THEN ticket[1]
  ELSE IF cred.cookie \in live THEN SessionUser(cred, live, RoleOf)
  ELSE IF demo THEN Guest ELSE Refused
=============================================================================

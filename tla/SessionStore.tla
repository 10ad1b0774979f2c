------------------------------ MODULE SessionStore ------------------------------
(***************************************************************************)
(* SessionManager (app/security/session.py): login sessions, WebSocket     *)
(* tickets, failed logins and lockouts, as the threads that serve the      *)
(* routes of app/api/routes.py use it.  Each of its methods is one section *)
(* under its lock; a route calls several, and others run in between.       *)
(*                                                                         *)
(* Time is what remains: a tick takes one from every lifetime that is      *)
(* running, so the clock itself has no bound.  A token or ticket is one of *)
(* a few identities, used again once nothing and nobody refers to it, as   *)
(* random ones never clash.                                                *)
(***************************************************************************)
EXTENDS Integers, Sequences, FiniteSets

CONSTANTS
  Handlers,        \* threads that serve requests
  Clients,         \* browsers, each at an address of its own
  Users,           \* the names API keys stand for
  Tokens,          \* identities for sessions
  Tickets,         \* identities for WebSocket tickets
  MaxSessions,     \* MAX_SESSIONS
  MaxTickets,      \* MAX_WS_TICKETS
  SessionLife,     \* SESSION_EXPIRY_SECONDS
  TicketLife,      \* WS_TICKET_EXPIRY_SECONDS
  MaxAttempts,     \* failures that lock an address out
  AttemptWindow,   \* for how long a failure counts
  Lockout,         \* for how long an address is locked out
  None             \* Python's None

ASSUME SessionConstantsOK ==
  /\ MaxSessions \in Nat \ {0} /\ MaxTickets \in Nat \ {0} /\ MaxAttempts \in Nat \ {0}
  /\ SessionLife \in Nat /\ TicketLife \in Nat
  /\ AttemptWindow \in Nat /\ Lockout \in Nat /\ AttemptWindow < Lockout
  /\ None \notin Tokens \cup Users \cup Clients
  /\ IsFiniteSet(Handlers)

VARIABLES
  sessions,        \* _sessions
  tickets,         \* _ws_tickets, by what remains of their lifetime
  attempts,        \* _login_attempts: how long ago the failures of each address were
  lockouts,        \* _lockouts: for how long each address is locked out
  cookie,          \* the session cookie of each browser
  handlers,        \* the requests being served
  admitted         \* history: how often each ticket in a client's hands opened a connection

vars == <<sessions, tickets, attempts, lockouts, cookie, handlers, admitted>>

\* A session; login is the token its login gave out, before any rotation.
SessionData == [user : Users, login : Tokens, left : -1 .. SessionLife, age : 0 .. SessionLife]

ASSUME NoneIsNoValue == None \notin SessionData /\ None \notin Int

\* Where the thread of a request is, between two methods of the store.
Request == [at : {"idle", "checked", "revoke", "create", "answer", "logout", "ticket"},
            client : Clients \cup {None}, user : Users \cup {None}, token : Tokens \cup {None}]

Idle == [at |-> "idle", client |-> None, user |-> None, token |-> None]

SessionTypeOK ==
  /\ sessions \in [Tokens -> SessionData \cup {None}]
  /\ tickets \in [Tickets -> -1 .. TicketLife \cup {None}]
  /\ \A c \in Clients : attempts[c] \in Seq(0 .. AttemptWindow + 1)
  /\ lockouts \in [Clients -> 0 .. Lockout]
  /\ cookie \in [Clients -> Tokens \cup {None}]
  /\ handlers \in [Handlers -> Request]
  /\ admitted \in [Tickets -> 0 .. 2 \cup {None}]

Init ==
  /\ sessions = [t \in Tokens |-> None]
  /\ tickets = [k \in Tickets |-> None]
  /\ attempts = [c \in Clients |-> <<>>]
  /\ lockouts = [c \in Clients |-> 0]
  /\ cookie = [c \in Clients |-> None]
  /\ handlers = [h \in Handlers |-> Idle]
  /\ admitted = [k \in Tickets |-> None]

-----------------------------------------------------------------------------
(* The store. *)

\* The entries of a store that are there.
Keys(store) == {k \in DOMAIN store : store[k] # None}

Live(t) == sessions[t] # None /\ sessions[t].left >= 0

\* _prune_expired_locked
Pruned == [t \in Tokens |-> IF Live(t) THEN sessions[t] ELSE None]

\* _prune_tickets_locked
PrunedTickets ==
  [k \in Tickets |-> IF tickets[k] # None /\ tickets[k] < 0 THEN None ELSE tickets[k]]

\* The failures that count: a list is in the order of time, so that those that do not come first.
Recent(s) ==
  LET stale == {i \in DOMAIN s : s[i] > AttemptWindow} IN SubSeq(s, Cardinality(stale) + 1, Len(s))

\* _prune_stale_attempts_and_lockouts_locked; a lockout that is over is one of zero.
PrunedAttempts == [c \in Clients |-> Recent(attempts[c])]

FreshToken(t) ==
  /\ sessions[t] = None
  /\ \A u \in Keys(sessions) : sessions[u].login # t
  /\ \A c \in Clients : cookie[c] # t
  /\ \A h \in Handlers : handlers[h].token # t

\* get_session, which deletes a session that has expired.
Got(t) == IF Live(t) THEN sessions ELSE [sessions EXCEPT ![t] = None]

\* Mutant: the youngest is evicted.
Youngest(store) ==
  CHOOSE t \in Keys(store) : \A u \in Keys(store) : store[t].age <= store[u].age

\* Whom a login evicts at capacity.
Oldest(store) ==
  CHOOSE t \in Keys(store) : \A u \in Keys(store) : store[u].age <= store[t].age

\* Mutant: a full store is found too late.
MakeRoomLate(store) ==
  IF Cardinality(Keys(store)) > MaxSessions THEN [store EXCEPT ![Oldest(store)] = None] ELSE store

\* Room for one more session.
MakeRoom(store) ==
  IF Cardinality(Keys(store)) >= MaxSessions THEN [store EXCEPT ![Oldest(store)] = None] ELSE store

-----------------------------------------------------------------------------
(* Logging in and out. *)

Goto(h, request) == handlers' = [handlers EXCEPT ![h] = request]

\* Mutant: nobody is found locked out.
NeverLocked(c) == FALSE

\* is_rate_limited
Locked(c) == lockouts[c] > 0

\* Mutant: whoever is turned away is locked out anew.
Renewed(c) == IF Locked(c) THEN [lockouts EXCEPT ![c] = Lockout] ELSE lockouts

\* The check changes no lockout that is in force.
AfterCheck(c) == lockouts

\* A lockout is counted from now.
LockoutFromNow(c) == Lockout

\* login_route begins, and ends at once for an address that is locked out.
BeginLogin(h, c) ==
  /\ handlers[h].at = "idle"
  /\ attempts' = PrunedAttempts
  /\ IF Locked(c) THEN UNCHANGED handlers
     ELSE Goto(h, [Idle EXCEPT !.at = "checked", !.client = c, !.token = cookie[c]])
  /\ lockouts' = AfterCheck(c)
  /\ UNCHANGED <<sessions, tickets, cookie, admitted>>

\* The key is wrong: record_login_attempt.
LoginFails(h) ==
  LET c      == handlers[h].client
      failed == Append(PrunedAttempts[c], 0)
  IN /\ handlers[h].at = "checked"
     /\ attempts' = [PrunedAttempts EXCEPT ![c] = failed]
     /\ lockouts' = [lockouts EXCEPT
                       ![c] = IF Len(failed) >= MaxAttempts THEN LockoutFromNow(c) ELSE @]
     /\ Goto(h, Idle)
     /\ UNCHANGED <<sessions, tickets, cookie, admitted>>

\* The key is right: record_login_attempt.
LoginSucceeds(h, u) ==
  LET c == handlers[h].client IN
  /\ handlers[h].at = "checked"
  /\ attempts' = [PrunedAttempts EXCEPT ![c] = <<>>]
  /\ lockouts' = [lockouts EXCEPT ![c] = 0]
  /\ Goto(h, [handlers[h] EXCEPT !.user = u,
                !.at = IF handlers[h].token = None THEN "create" ELSE "revoke"])
  /\ UNCHANGED <<sessions, tickets, cookie, admitted>>

\* revoke_session of the browser's previous session.
RevokePrevious(h) ==
  /\ handlers[h].at = "revoke"
  /\ sessions' = [sessions EXCEPT ![handlers[h].token] = None]
  /\ Goto(h, [handlers[h] EXCEPT !.at = "create", !.token = None])
  /\ UNCHANGED <<tickets, attempts, lockouts, cookie, admitted>>

\* create_session
CreateSession(h, t) ==
  /\ handlers[h].at = "create" /\ FreshToken(t)
  /\ sessions' = [MakeRoom(Pruned) EXCEPT
       ![t] = [user |-> handlers[h].user, login |-> t, left |-> SessionLife, age |-> 0]]
  /\ Goto(h, [handlers[h] EXCEPT !.at = "answer", !.token = t])
  /\ UNCHANGED <<tickets, attempts, lockouts, cookie, admitted>>

\* The answer sets the cookie, if it arrives.
AnswerLogin(h, arrives) ==
  /\ handlers[h].at = "answer"
  /\ cookie' = IF arrives THEN [cookie EXCEPT ![handlers[h].client] = handlers[h].token] ELSE cookie
  /\ Goto(h, Idle)
  /\ UNCHANGED <<sessions, tickets, attempts, lockouts, admitted>>

\* logout_route: without a live session there is only the cookie to delete.
BeginLogout(h, c) ==
  LET t == cookie[c] IN
  /\ handlers[h].at = "idle" /\ t # None
  /\ sessions' = Got(t)
  /\ IF Live(t)
     THEN Goto(h, [Idle EXCEPT !.at = "logout", !.client = c, !.token = t]) /\ UNCHANGED cookie
     ELSE cookie' = [cookie EXCEPT ![c] = None] /\ UNCHANGED handlers
  /\ UNCHANGED <<tickets, attempts, lockouts, admitted>>

\* revoke_session, and the answer that deletes the cookie.
Logout(h) ==
  /\ handlers[h].at = "logout"
  /\ sessions' = [sessions EXCEPT ![handlers[h].token] = None]
  /\ cookie' = [cookie EXCEPT ![handlers[h].client] = None]
  /\ Goto(h, Idle)
  /\ UNCHANGED <<tickets, attempts, lockouts, admitted>>

\* Mutant: the old session is read, not popped.
RotatedCopy(old, new) ==
  [Pruned EXCEPT ![new] = [sessions[old] EXCEPT !.age = 0]]

\* The store with the old session replaced.
Rotated(old, new) ==
  [Pruned EXCEPT ![old] = None, ![new] = [sessions[old] EXCEPT !.age = 0]]

\* rotate_session; an expired session is only removed.
RotateSession(old, new) ==
  /\ sessions[old] # None /\ FreshToken(new)
  /\ sessions' = IF Live(old) THEN Rotated(old, new) ELSE [sessions EXCEPT ![old] = None]
  /\ UNCHANGED <<tickets, attempts, lockouts, cookie, handlers, admitted>>

\* revoke_all_for_user
RevokeAll(u) ==
  /\ \E t \in Keys(sessions) : sessions[t].user = u
  /\ sessions' = [t \in Tokens |->
       IF sessions[t] # None /\ sessions[t].user = u THEN None ELSE sessions[t]]
  /\ UNCHANGED <<tickets, attempts, lockouts, cookie, handlers, admitted>>

-----------------------------------------------------------------------------
(* WebSocket tickets. *)

\* request_websocket_ticket resolves the user, by the session.
BeginTicket(h, c) ==
  LET t == cookie[c] IN
  /\ handlers[h].at = "idle" /\ t # None
  /\ sessions' = Got(t)
  /\ IF Live(t) THEN Goto(h, [Idle EXCEPT !.at = "ticket"]) ELSE UNCHANGED handlers
  /\ UNCHANGED <<tickets, attempts, lockouts, cookie, admitted>>

\* create_ws_ticket; at capacity the ticket that expires first goes.
CreateTicket(h, k) ==
  LET store == PrunedTickets
      first == CHOOSE j \in Keys(store) : \A i \in Keys(store) : store[j] <= store[i]
      room  == IF Cardinality(Keys(store)) >= MaxTickets
               THEN [store EXCEPT ![first] = None] ELSE store
  IN /\ handlers[h].at = "ticket" /\ admitted[k] = None
     /\ tickets' = [room EXCEPT ![k] = TicketLife]
     /\ admitted' = [admitted EXCEPT ![k] = 0]
     /\ Goto(h, Idle)
     /\ UNCHANGED <<sessions, attempts, lockouts, cookie>>

\* Mutant: a ticket is looked up, not popped.
Kept(k) == tickets

\* What is left of the store when a ticket has been presented.
Popped(k) == [tickets EXCEPT ![k] = None]

\* A client presents a ticket, perhaps again: consume_ws_ticket.
ConsumeTicket(k) ==
  /\ admitted[k] # None /\ admitted[k] < 2
  /\ tickets' = Popped(k)
  /\ admitted' = IF tickets[k] # None /\ tickets[k] >= 0
                 THEN [admitted EXCEPT ![k] = @ + 1] ELSE admitted
  /\ UNCHANGED <<sessions, attempts, lockouts, cookie, handlers>>

\* The client throws a ticket away that the store does not have any more.
ForgetTicket(k) ==
  /\ admitted[k] # None /\ tickets[k] = None
  /\ admitted' = [admitted EXCEPT ![k] = None]
  /\ UNCHANGED <<sessions, tickets, attempts, lockouts, cookie, handlers>>

-----------------------------------------------------------------------------

Less(n, least) == IF n > least THEN n - 1 ELSE n
More(n, most) == IF n < most THEN n + 1 ELSE n

Tick ==
  /\ sessions' = [t \in Tokens |-> IF sessions[t] = None THEN None
       ELSE [sessions[t] EXCEPT !.left = Less(@, -1), !.age = More(@, SessionLife)]]
  /\ tickets' = [k \in Tickets |-> IF tickets[k] = None THEN None ELSE Less(tickets[k], -1)]
  /\ attempts' = [c \in Clients |->
       [i \in DOMAIN attempts[c] |-> More(attempts[c][i], AttemptWindow + 1)]]
  /\ lockouts' = [c \in Clients |-> Less(lockouts[c], 0)]
  /\ UNCHANGED <<cookie, handlers, admitted>>

\* A request goes on; what it was asked is the client's choice.
Continue(h) ==
  \/ LoginFails(h) \/ RevokePrevious(h) \/ Logout(h)
  \/ \E u \in Users : LoginSucceeds(h, u)
  \/ \E t \in Tokens : CreateSession(h, t)
  \/ \E arrives \in BOOLEAN : AnswerLogin(h, arrives)
  \/ \E k \in Tickets : CreateTicket(h, k)

Next ==
  \/ Tick
  \/ \E h \in Handlers :
       Continue(h) \/ \E c \in Clients : BeginLogin(h, c) \/ BeginLogout(h, c) \/ BeginTicket(h, c)
  \/ \E old, new \in Tokens : RotateSession(old, new)
  \/ \E u \in Users : RevokeAll(u)
  \/ \E k \in Tickets : ConsumeTicket(k) \/ ForgetTicket(k)

\* Time passes, and a thread that serves a request goes on.
Spec == Init /\ [][Next]_vars /\ WF_vars(Tick) /\ \A h \in Handlers : WF_vars(Continue(h))

-----------------------------------------------------------------------------

\* MAX_SESSIONS and MAX_WS_TICKETS hold, though a rotation does not look at them.
StoreIsBounded ==
  Cardinality(Keys(sessions)) <= MaxSessions /\ Cardinality(Keys(tickets)) <= MaxTickets

\* "the old session is consumed and replaced in a single atomic step": however often and by
\* whomever it is rotated, a login has at most one session.
OneSessionPerLogin ==
  \A t, u \in Keys(sessions) : sessions[t].login = sessions[u].login => t = u

\* A login at capacity ends no session that is younger than one it spares, and none at all
\* while there is room once the expired ones are gone.
EvictionIsFair ==
  [][\A h \in Handlers :
       handlers[h].at = "create" /\ handlers'[h].at = "answer" =>
         \A t \in Tokens : Live(t) /\ sessions'[t] = None =>
           /\ Cardinality({u \in Tokens : Live(u)}) >= MaxSessions
           /\ \A u \in Tokens : Live(u) => sessions[u].age <= sessions[t].age]_vars

\* "single-use": a ticket opens one connection, however often it is presented.
TicketsAdmitOnce == \A k \in Tickets : admitted[k] # None => admitted[k] <= 1

\* The check for a lockout and the record of a failure are sections of their own: failures
\* that count at one time exceed the limit by the other requests under way, never by more.
FailuresAreBounded ==
  \A c \in Clients : Len(Recent(attempts[c])) < MaxAttempts + Cardinality(Handlers)

\* A lockout ends, although requests that were let in before it may prolong it.
LockoutsEnd == \A c \in Clients : lockouts[c] > 0 ~> lockouts[c] = 0
=============================================================================

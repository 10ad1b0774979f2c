-------------------------- MODULE SessionStoreProofs --------------------------
(***************************************************************************)
(* Proofs about SessionStore for any number of requests, browsers, tokens  *)
(* and tickets, and for every limit and lifetime: the bounds of the store, *)
(* its types, the order of evictions and the bound on recorded failures.   *)
(***************************************************************************)
EXTENDS SessionStore, FiniteSetTheorems, SequenceTheorems, WellFoundedInduction, TLAPS

-----------------------------------------------------------------------------
(* The least of some numbers. *)

LEMMA LeastBy ==
  ASSUME NEW T, T \subseteq Nat, T # {}, NEW R, IsWellFoundedOn(R, Nat),
         \A x, y \in Nat : x < y => <<x, y>> \in R
  PROVE  \E x \in T : \A y \in T : x <= y
<1>1. PICK x \in T : \A y \in T : ~ (<<y, x>> \in R)
  BY WFMin, ZenonT(60)
<1>2. ASSUME NEW y \in T PROVE x <= y
  <2>1. x \in Nat /\ y \in Nat
    OBVIOUS
  <2>2. ~ (y < x)
    BY <1>1, <2>1
  <2> QED
    BY <2>1, <2>2
<1> QED
  BY <1>2

LEMMA LeastNatural ==
  ASSUME NEW S, S \subseteq Nat, S # {}
  PROVE  \E x \in S : \A y \in S : x <= y
<1>1. IsWellFoundedOn(OpToRel(<, Nat), Nat)
  BY NatLessThanWellFounded
<1>2. \A x, y \in Nat : x < y => <<x, y>> \in OpToRel(<, Nat)
  BY DEF OpToRel
<1> QED
  BY <1>1, <1>2, LeastBy

\* Every full store has a session that is at least as old as all others.
LEMMA OldestExists ==
  ASSUME NEW store \in [Tokens -> SessionData \cup {None}], Keys(store) # {}
  PROVE  /\ Oldest(store) \in Keys(store)
         /\ \A u \in Keys(store) : store[u].age <= store[Oldest(store)].age
<1> DEFINE S == {SessionLife - store[u].age : u \in Keys(store)}
<1>1. SessionLife \in Nat
  BY SessionConstantsOK
<1>2. \A u \in Keys(store) : store[u] \in SessionData
  BY DEF Keys
<1>3. \A u \in Keys(store) : store[u].age \in 0 .. SessionLife
  BY <1>2 DEF SessionData
<1>4. S \subseteq Nat /\ S # {}
  <2>1. \A u \in Keys(store) : SessionLife - store[u].age \in Nat
    BY <1>1, <1>3
  <2> QED
    BY <2>1
<1>5. PICK x \in S : \A y \in S : x <= y
  BY <1>4, LeastNatural
<1>6. PICK t \in Keys(store) : x = SessionLife - store[t].age
  OBVIOUS
<1>7. ASSUME NEW u \in Keys(store) PROVE store[u].age <= store[t].age
  <2>1. SessionLife - store[t].age <= SessionLife - store[u].age
    BY <1>5, <1>6
  <2> QED
    BY <2>1, <1>1, <1>3
<1> QED
  BY <1>6, <1>7 DEF Oldest

-----------------------------------------------------------------------------
(* Room for one more. *)

LEMMA OneMore ==
  ASSUME NEW S, IsFiniteSet(S), NEW k, NEW S2, S2 \subseteq S \cup {k},
         NEW most \in Nat, Cardinality(S) < most
  PROVE  IsFiniteSet(S2) /\ Cardinality(S2) <= most
<1>1. /\ IsFiniteSet(S \cup {k})
      /\ Cardinality(S \cup {k}) <= Cardinality(S) + 1
  <2>1. Cardinality(S) \in Nat
    BY FS_CardinalityType
  <2>2. /\ IsFiniteSet(S \cup {k})
        /\ Cardinality(S \cup {k}) = IF k \in S THEN Cardinality(S) ELSE Cardinality(S) + 1
    BY FS_AddElement
  <2> QED
    BY <2>1, <2>2
<1>2. IsFiniteSet(S2) /\ Cardinality(S2) <= Cardinality(S \cup {k})
  BY <1>1, FS_Subset
<1>3. Cardinality(S) \in Nat /\ Cardinality(S2) \in Nat /\ Cardinality(S \cup {k}) \in Nat
  BY <1>1, <1>2, FS_CardinalityType
<1> QED
  BY <1>1, <1>2, <1>3

LEMMA OneForAnother ==
  ASSUME NEW S, IsFiniteSet(S), NEW x \in S, NEW k, NEW S2, S2 \subseteq (S \ {x}) \cup {k},
         NEW most \in Nat, Cardinality(S) <= most
  PROVE  IsFiniteSet(S2) /\ Cardinality(S2) <= most
<1>1. IsFiniteSet(S \ {x}) /\ Cardinality(S \ {x}) = Cardinality(S) - 1
  BY FS_RemoveElement
<1>2. Cardinality(S) \in Nat
  BY FS_CardinalityType
<1>3. Cardinality(S \ {x}) < most
  BY <1>1, <1>2
<1> QED
  BY <1>1, <1>3, OneMore

LEMMA NoMore ==
  ASSUME NEW S, IsFiniteSet(S), NEW S2, S2 \subseteq S,
         NEW most \in Nat, Cardinality(S) <= most
  PROVE  IsFiniteSet(S2) /\ Cardinality(S2) <= most
<1>1. IsFiniteSet(S2) /\ Cardinality(S2) <= Cardinality(S)
  BY FS_Subset
<1>2. Cardinality(S) \in Nat /\ Cardinality(S2) \in Nat
  BY <1>1, FS_CardinalityType
<1> QED
  BY <1>1, <1>2

-----------------------------------------------------------------------------
(* The inductive invariant.  A request that is to make a session is for a  *)
(* user, and the store has finitely many entries: without these a new      *)
(* session would be of no known shape, and a full store without an oldest. *)

RequestsInv ==
  /\ cookie \in [Clients -> Tokens \cup {None}]
  /\ handlers \in [Handlers -> Request]
  /\ \A h \in Handlers : handlers[h].at \in {"revoke", "create"} => handlers[h].user \in Users

SessionsInv ==
  /\ sessions \in [Tokens -> SessionData \cup {None}]
  /\ IsFiniteSet(Keys(sessions)) /\ Cardinality(Keys(sessions)) <= MaxSessions
  /\ OneSessionPerLogin

\* A ticket that has opened a connection is in the store no more.
TicketsInv ==
  /\ tickets \in [Tickets -> -1 .. TicketLife \cup {None}]
  /\ admitted \in [Tickets -> 0 .. 2 \cup {None}]
  /\ IsFiniteSet(Keys(tickets)) /\ Cardinality(Keys(tickets)) <= MaxTickets
  /\ \A k \in Tickets : admitted[k] # None => admitted[k] <= 1
  /\ \A k \in Tickets : admitted[k] = 1 => tickets[k] = None

StoreInv == RequestsInv /\ SessionsInv /\ TicketsInv

LEMMA InitStore == Init => StoreInv
<1> SUFFICES ASSUME Init PROVE StoreInv
  OBVIOUS
<1>1. MaxSessions \in Nat /\ MaxTickets \in Nat
  BY SessionConstantsOK
<1>2. Keys(sessions) = {} /\ Keys(tickets) = {}
  BY DEF Init, Keys
<1>3. /\ IsFiniteSet(Keys(sessions)) /\ Cardinality(Keys(sessions)) = 0
      /\ IsFiniteSet(Keys(tickets)) /\ Cardinality(Keys(tickets)) = 0
  BY <1>2, FS_EmptySet
<1>4. RequestsInv
  BY DEF Init, RequestsInv, Request, Idle
<1>5. SessionsInv
  BY <1>1, <1>2, <1>3 DEF Init, SessionsInv, OneSessionPerLogin
<1>6. TicketsInv
  <2>1. \A k \in Tickets : admitted[k] = None /\ tickets[k] = None
    BY DEF Init
  <2>2. admitted \in [Tickets -> 0 .. 2 \cup {None}]
    BY DEF Init
  <2>3. tickets \in [Tickets -> -1 .. TicketLife \cup {None}]
    BY DEF Init
  <2> QED
    BY <1>1, <1>3, <2>1, <2>2, <2>3 DEF TicketsInv
<1> QED
  BY <1>4, <1>5, <1>6 DEF StoreInv

-----------------------------------------------------------------------------
(* Requests. *)

LEMMA GotoType ==
  ASSUME RequestsInv, NEW h \in Handlers, NEW request \in Request, Goto(h, request),
         request.at \in {"revoke", "create"} => request.user \in Users,
         UNCHANGED cookie
  PROVE  RequestsInv'
BY DEF RequestsInv, Goto

LEMMA IdleType == Idle \in Request /\ Idle.at = "idle"
BY DEF Idle, Request

LEMMA RequestsStep == RequestsInv /\ [Next]_vars => RequestsInv'
<1> SUFFICES ASSUME RequestsInv, [Next]_vars PROVE RequestsInv'
  OBVIOUS
<1>1. CASE UNCHANGED <<handlers, cookie>>
  BY <1>1 DEF RequestsInv
<1>2. ASSUME NEW h \in Handlers, NEW c \in Clients, BeginLogin(h, c) PROVE RequestsInv'
  <2>1. CASE UNCHANGED <<handlers, cookie>>
    BY <2>1, <1>1
  <2>2. CASE Goto(h, [Idle EXCEPT !.at = "checked", !.client = c, !.token = cookie[c]])
    <3> DEFINE r == [Idle EXCEPT !.at = "checked", !.client = c, !.token = cookie[c]]
    <3>1. r \in Request /\ r.at = "checked"
      BY DEF RequestsInv, Request, Idle
    <3>2. UNCHANGED cookie
      BY <1>2 DEF BeginLogin
    <3> QED
      BY <2>2, <3>1, <3>2, GotoType
  <2> QED
    BY <1>2, <2>1, <2>2 DEF BeginLogin
<1>3. ASSUME NEW h \in Handlers, NEW c \in Clients, BeginLogout(h, c) PROVE RequestsInv'
  <2>1. CASE Live(cookie[c])
    <3> DEFINE r == [Idle EXCEPT !.at = "logout", !.client = c, !.token = cookie[c]]
    <3>1. r \in Request /\ r.at = "logout"
      BY DEF RequestsInv, Request, Idle
    <3>2. Goto(h, r) /\ UNCHANGED cookie
      BY <1>3, <2>1 DEF BeginLogout
    <3> QED
      BY <3>1, <3>2, GotoType
  <2>2. CASE ~ Live(cookie[c])
    BY <1>3, <2>2 DEF BeginLogout, RequestsInv
  <2> QED
    BY <2>1, <2>2
<1>4. ASSUME NEW h \in Handlers, NEW c \in Clients, BeginTicket(h, c) PROVE RequestsInv'
  <2>1. CASE UNCHANGED <<handlers, cookie>>
    BY <2>1, <1>1
  <2>2. CASE Goto(h, [Idle EXCEPT !.at = "ticket"])
    <3>1. [Idle EXCEPT !.at = "ticket"] \in Request /\ [Idle EXCEPT !.at = "ticket"].at = "ticket"
      BY DEF Request, Idle
    <3>2. UNCHANGED cookie
      BY <1>4 DEF BeginTicket
    <3> QED
      BY <2>2, <3>1, <3>2, GotoType
  <2> QED
    BY <1>4, <2>1, <2>2 DEF BeginTicket
<1>5. ASSUME NEW h \in Handlers, Continue(h) PROVE RequestsInv'
  <2>1. handlers[h] \in Request
    BY DEF RequestsInv
  <2>2. CASE Goto(h, Idle) /\ cookie' \in [Clients -> Tokens \cup {None}]
    <3>1. handlers' \in [Handlers -> Request]
      BY <2>2, IdleType DEF Goto, RequestsInv
    <3>2. \A g \in Handlers : handlers'[g] = IF g = h THEN Idle ELSE handlers[g]
      BY <2>2 DEF Goto, RequestsInv
    <3> QED
      BY <2>2, <3>1, <3>2, IdleType DEF RequestsInv
  <2>3. CASE LoginFails(h) \/ \E k \in Tickets : CreateTicket(h, k)
    BY <2>2, <2>3 DEF LoginFails, CreateTicket, RequestsInv
  <2>4. CASE Logout(h)
    BY <2>2, <2>4 DEF Logout, RequestsInv
  <2>5. CASE \E arrives \in BOOLEAN : AnswerLogin(h, arrives)
    <3>1. handlers[h].token \in Tokens \cup {None}
      BY <2>1 DEF Request
    <3>2. cookie' \in [Clients -> Tokens \cup {None}]
      BY <2>5, <3>1 DEF AnswerLogin, RequestsInv
    <3> QED
      BY <2>2, <2>5, <3>2 DEF AnswerLogin
  <2>6. ASSUME NEW u \in Users, LoginSucceeds(h, u) PROVE RequestsInv'
    <3> DEFINE r == [handlers[h] EXCEPT !.user = u,
                       !.at = IF handlers[h].token = None THEN "create" ELSE "revoke"]
    <3>1. r \in Request /\ r.user = u
      BY <2>1 DEF Request
    <3>2. Goto(h, r) /\ UNCHANGED cookie
      BY <2>6 DEF LoginSucceeds
    <3> QED
      BY <3>1, <3>2, GotoType
  <2>7. CASE RevokePrevious(h)
    <3> DEFINE r == [handlers[h] EXCEPT !.at = "create", !.token = None]
    <3>1. r \in Request /\ r.user = handlers[h].user
      BY <2>1 DEF Request
    <3>2. Goto(h, r) /\ UNCHANGED cookie /\ handlers[h].user \in Users
      BY <2>7 DEF RevokePrevious, RequestsInv
    <3> QED
      BY <3>1, <3>2, GotoType
  <2>8. ASSUME NEW t \in Tokens, CreateSession(h, t) PROVE RequestsInv'
    <3> DEFINE r == [handlers[h] EXCEPT !.at = "answer", !.token = t]
    <3>1. r \in Request /\ r.at = "answer"
      BY <2>1 DEF Request
    <3>2. Goto(h, r) /\ UNCHANGED cookie
      BY <2>8 DEF CreateSession
    <3> QED
      BY <3>1, <3>2, GotoType
  <2> QED
    BY <1>5, <2>3, <2>4, <2>5, <2>6, <2>7, <2>8 DEF Continue
<1>6. CASE Tick \/ UNCHANGED vars
  BY <1>1, <1>6 DEF Tick, vars
<1>7. CASE \E old, new \in Tokens : RotateSession(old, new)
  BY <1>1, <1>7 DEF RotateSession
<1>8. CASE \E u \in Users : RevokeAll(u)
  BY <1>1, <1>8 DEF RevokeAll
<1>9. CASE \E k \in Tickets : ConsumeTicket(k) \/ ForgetTicket(k)
  BY <1>1, <1>9 DEF ConsumeTicket, ForgetTicket
<1> QED
  BY <1>2, <1>3, <1>4, <1>5, <1>6, <1>7, <1>8, <1>9 DEF Next

-----------------------------------------------------------------------------
(* Sessions. *)

LEMMA KeysAre ==
  ASSUME NEW D, NEW store, DOMAIN store = D
  PROVE  \A k : k \in Keys(store) <=> k \in D /\ store[k] # None
BY DEF Keys

LEMMA NoneIsNoSession == \A s \in SessionData : s # None
BY NoneIsNoValue

\* Whatever ends sessions, and gives none away, keeps the store in order.
LEMMA FewerSessions ==
  ASSUME SessionsInv, sessions' \in [Tokens -> SessionData \cup {None}],
         \A t \in Tokens : sessions'[t] # None =>
           sessions[t] # None /\ sessions'[t].login = sessions[t].login
  PROVE  SessionsInv'
<1>1. Keys(sessions') \subseteq Keys(sessions)
  BY DEF Keys, SessionsInv
<1>2. MaxSessions \in Nat
  BY SessionConstantsOK
<1>3. IsFiniteSet(Keys(sessions')) /\ Cardinality(Keys(sessions')) <= MaxSessions
  BY <1>1, <1>2, NoMore DEF SessionsInv
<1>4. OneSessionPerLogin'
  <2> SUFFICES ASSUME NEW t \in Keys(sessions'), NEW u \in Keys(sessions'),
                      sessions'[t].login = sessions'[u].login
               PROVE  t = u
    BY DEF OneSessionPerLogin
  <2>1. t \in Tokens /\ u \in Tokens /\ sessions'[t] # None /\ sessions'[u] # None
    BY DEF Keys
  <2>2. t \in Keys(sessions) /\ u \in Keys(sessions)
    BY <1>1
  <2>3. sessions[t].login = sessions[u].login
    BY <2>1
  <2> QED
    BY <2>2, <2>3 DEF OneSessionPerLogin, SessionsInv
<1> QED
  BY <1>3, <1>4 DEF SessionsInv

LEMMA PrunedIs ==
  ASSUME SessionsInv
  PROVE  /\ Pruned \in [Tokens -> SessionData \cup {None}]
         /\ \A t \in Tokens : Pruned[t] # None <=> Live(t)
         /\ \A t \in Tokens : Live(t) => Pruned[t] = sessions[t] /\ t \in Keys(sessions)
         /\ Keys(Pruned) = {t \in Tokens : Live(t)}
         /\ IsFiniteSet(Keys(Pruned)) /\ Cardinality(Keys(Pruned)) <= MaxSessions
<1>1. Pruned \in [Tokens -> SessionData \cup {None}]
  BY DEF SessionsInv, Pruned
<1>2. \A t \in Tokens : Pruned[t] # None <=> Live(t)
  BY DEF Pruned, Live
<1>3. \A t \in Tokens : Live(t) => Pruned[t] = sessions[t] /\ t \in Keys(sessions)
  BY DEF Pruned, Live, Keys, SessionsInv
<1>4. Keys(Pruned) = {t \in Tokens : Live(t)}
  BY <1>1, <1>2 DEF Keys
<1>5. Keys(Pruned) \subseteq Keys(sessions)
  BY <1>3, <1>4
<1>6. MaxSessions \in Nat
  BY SessionConstantsOK
<1>7. IsFiniteSet(Keys(Pruned)) /\ Cardinality(Keys(Pruned)) <= MaxSessions
  BY <1>5, <1>6, NoMore DEF SessionsInv
<1> QED
  BY <1>1, <1>2, <1>3, <1>4, <1>7

\* A login makes room only if it must, and then at the cost of the oldest.
LEMMA RoomIs ==
  ASSUME SessionsInv, NEW t \in Tokens, NEW new \in SessionData,
         sessions' = [MakeRoom(Pruned) EXCEPT ![t] = new]
  PROVE  /\ sessions' \in [Tokens -> SessionData \cup {None}]
         /\ IsFiniteSet(Keys(sessions')) /\ Cardinality(Keys(sessions')) <= MaxSessions
         /\ sessions'[t] = new
         /\ \A u \in Tokens \ {t} : sessions'[u] # None => Live(u) /\ sessions'[u] = sessions[u]
         /\ \A u \in Tokens \ {t} : Live(u) /\ sessions'[u] = None =>
              /\ Cardinality({v \in Tokens : Live(v)}) >= MaxSessions
              /\ \A v \in Tokens : Live(v) => sessions[v].age <= sessions[u].age
<1> DEFINE store == Pruned
<1>1. /\ store \in [Tokens -> SessionData \cup {None}]
      /\ \A u \in Tokens : store[u] # None <=> Live(u)
      /\ \A u \in Tokens : Live(u) => store[u] = sessions[u] /\ u \in Keys(sessions)
      /\ Keys(store) = {u \in Tokens : Live(u)}
      /\ IsFiniteSet(Keys(store)) /\ Cardinality(Keys(store)) <= MaxSessions
  BY PrunedIs
<1>2. MaxSessions \in Nat /\ MaxSessions > 0
  BY SessionConstantsOK
<1>3. Cardinality(Keys(store)) \in Nat
  BY <1>1, FS_CardinalityType
<1>4. sessions' = [MakeRoom(store) EXCEPT ![t] = new]
  OBVIOUS
<1> HIDE DEF store
<1>5. CASE Cardinality(Keys(store)) >= MaxSessions
  <2>1. Keys(store) # {}
    BY <1>2, <1>3, <1>5, FS_EmptySet
  <2> DEFINE old == Oldest(store)
  <2>2. /\ old \in Keys(store)
        /\ \A u \in Keys(store) : store[u].age <= store[old].age
    BY <1>1, <2>1, OldestExists
  <2>3. old \in Tokens
    BY <1>1, <2>2
  <2>4. sessions' = [store EXCEPT ![old] = None, ![t] = new]
    BY <1>4, <1>5 DEF MakeRoom
  <2> HIDE DEF old
  <2>5. /\ sessions' \in [Tokens -> SessionData \cup {None}]
        /\ \A u \in Tokens : sessions'[u] = IF u = t THEN new ELSE IF u = old THEN None ELSE store[u]
    BY <1>1, <2>3, <2>4
  <2>6. Keys(sessions') \subseteq (Keys(store) \ {old}) \cup {t}
    BY <1>1, <2>5 DEF Keys
  <2>7. IsFiniteSet(Keys(sessions')) /\ Cardinality(Keys(sessions')) <= MaxSessions
    BY <1>1, <1>2, <2>2, <2>6, OneForAnother
  <2>8. \A u \in Tokens \ {t} : sessions'[u] # None => Live(u) /\ sessions'[u] = sessions[u]
    BY <1>1, <2>5
  <2>9. ASSUME NEW u \in Tokens \ {t}, Live(u), sessions'[u] = None
        PROVE  \A v \in Tokens : Live(v) => sessions[v].age <= sessions[u].age
    <3>1. u = old
      BY <1>1, <2>5, <2>9
    <3> QED
      BY <1>1, <2>2, <2>9, <3>1
  <2> QED
    BY <1>1, <1>5, <2>5, <2>7, <2>8, <2>9
<1>6. CASE ~ Cardinality(Keys(store)) >= MaxSessions
  <2>1. sessions' = [store EXCEPT ![t] = new]
    BY <1>4, <1>6 DEF MakeRoom
  <2>2. /\ sessions' \in [Tokens -> SessionData \cup {None}]
        /\ \A u \in Tokens : sessions'[u] = IF u = t THEN new ELSE store[u]
    BY <1>1, <2>1
  <2>3. Keys(sessions') \subseteq Keys(store) \cup {t}
    BY <1>1, <2>2 DEF Keys
  <2>4. Cardinality(Keys(store)) < MaxSessions
    BY <1>2, <1>3, <1>6
  <2>5. IsFiniteSet(Keys(sessions')) /\ Cardinality(Keys(sessions')) <= MaxSessions
    BY <1>1, <1>2, <2>3, <2>4, OneMore
  <2> QED
    BY <1>1, <2>2, <2>5
<1> QED
  BY <1>5, <1>6

LEMMA NewSessionType ==
  ASSUME NEW u \in Users, NEW t \in Tokens
  PROVE  [user |-> u, login |-> t, left |-> SessionLife, age |-> 0] \in SessionData
<1>1. SessionLife \in -1 .. SessionLife /\ 0 \in 0 .. SessionLife
  BY SessionConstantsOK
<1> QED
  BY <1>1 DEF SessionData

\* A store in which one entry is new is in order if no other is of the same login.
LEMMA OneNewSession ==
  ASSUME SessionsInv, sessions' \in [Tokens -> SessionData \cup {None}], NEW t \in Tokens,
         \A u \in Tokens \ {t} : sessions'[u] # None =>
           /\ sessions[u] # None /\ sessions'[u].login = sessions[u].login
           /\ sessions'[u].login # sessions'[t].login
  PROVE  OneSessionPerLogin'
<1> SUFFICES ASSUME NEW u \in Keys(sessions'), NEW v \in Keys(sessions'),
                    sessions'[u].login = sessions'[v].login
             PROVE  u = v
  BY DEF OneSessionPerLogin
<1>1. u \in Tokens /\ v \in Tokens /\ sessions'[u] # None /\ sessions'[v] # None
  BY DEF Keys
<1>2. CASE u = t \/ v = t
  BY <1>1, <1>2
<1>3. CASE u # t /\ v # t
  <2>1. /\ sessions[u] # None /\ sessions'[u].login = sessions[u].login
        /\ sessions[v] # None /\ sessions'[v].login = sessions[v].login
    BY <1>1, <1>3
  <2>2. u \in Keys(sessions) /\ v \in Keys(sessions)
    BY <1>1, <2>1 DEF Keys, SessionsInv
  <2> QED
    BY <2>1, <2>2 DEF OneSessionPerLogin, SessionsInv
<1> QED
  BY <1>2, <1>3

LEMMA CreateStep ==
  ASSUME RequestsInv, SessionsInv, NEW h \in Handlers, NEW t \in Tokens, CreateSession(h, t)
  PROVE  SessionsInv'
<1> DEFINE new == [user |-> handlers[h].user, login |-> t, left |-> SessionLife, age |-> 0]
<1>1. handlers[h].user \in Users
  BY DEF CreateSession, RequestsInv
<1>2. new \in SessionData
  BY <1>1, NewSessionType
<1>3. sessions' = [MakeRoom(Pruned) EXCEPT ![t] = new] /\ FreshToken(t)
  BY DEF CreateSession
<1>4. new.login = t
  OBVIOUS
<1> HIDE DEF new
<1>5. /\ sessions' \in [Tokens -> SessionData \cup {None}]
      /\ IsFiniteSet(Keys(sessions')) /\ Cardinality(Keys(sessions')) <= MaxSessions
      /\ sessions'[t] = new
      /\ \A u \in Tokens \ {t} : sessions'[u] # None => Live(u) /\ sessions'[u] = sessions[u]
  BY <1>2, <1>3, RoomIs
<1>6. \A u \in Tokens \ {t} : sessions'[u] # None =>
        /\ sessions[u] # None /\ sessions'[u].login = sessions[u].login
        /\ sessions'[u].login # sessions'[t].login
  <2> SUFFICES ASSUME NEW u \in Tokens \ {t}, sessions'[u] # None
               PROVE  /\ sessions[u] # None /\ sessions'[u].login = sessions[u].login
                      /\ sessions'[u].login # sessions'[t].login
    OBVIOUS
  <2>1. sessions[u] # None /\ sessions'[u] = sessions[u]
    BY <1>5 DEF Live
  <2>2. u \in Keys(sessions)
    BY <2>1 DEF Keys, SessionsInv
  <2>3. sessions[u].login # t
    BY <1>3, <2>2 DEF FreshToken
  <2> QED
    BY <1>4, <1>5, <2>1, <2>3
<1>7. OneSessionPerLogin'
  BY <1>5, <1>6, OneNewSession
<1> QED
  BY <1>5, <1>7 DEF SessionsInv

LEMMA RotateStep ==
  ASSUME SessionsInv, NEW old \in Tokens, NEW t \in Tokens, RotateSession(old, t)
  PROVE  SessionsInv'
<1>1. sessions[old] # None /\ sessions[t] = None /\ old # t
  BY DEF RotateSession, FreshToken
<1>2. CASE Live(old)
  <2> DEFINE new == [sessions[old] EXCEPT !.age = 0]
  <2>1. /\ Pruned \in [Tokens -> SessionData \cup {None}]
        /\ \A u \in Tokens : Pruned[u] # None <=> Live(u)
        /\ \A u \in Tokens : Live(u) => Pruned[u] = sessions[u] /\ u \in Keys(sessions)
        /\ Keys(Pruned) = {u \in Tokens : Live(u)}
        /\ IsFiniteSet(Keys(Pruned)) /\ Cardinality(Keys(Pruned)) <= MaxSessions
    BY PrunedIs
  <2>2. sessions[old] \in SessionData
    BY <1>1 DEF SessionsInv
  <2>3. new \in SessionData /\ new.login = sessions[old].login
    <3>1. 0 \in 0 .. SessionLife
      BY SessionConstantsOK
    <3> QED
      BY <2>2, <3>1 DEF SessionData
  <2>4. sessions' = [Pruned EXCEPT ![old] = None, ![t] = new]
    BY <1>2 DEF RotateSession, Rotated
  <2> HIDE DEF new
  <2>5. /\ sessions' \in [Tokens -> SessionData \cup {None}]
        /\ \A u \in Tokens : sessions'[u] = IF u = t THEN new ELSE IF u = old THEN None ELSE Pruned[u]
    BY <1>1, <2>1, <2>3, <2>4
  <2>6. Keys(sessions') \subseteq (Keys(Pruned) \ {old}) \cup {t}
    BY <2>1, <2>5 DEF Keys
  <2>7. old \in Keys(Pruned) /\ MaxSessions \in Nat
    BY <1>2, <2>1, SessionConstantsOK
  <2>8. IsFiniteSet(Keys(sessions')) /\ Cardinality(Keys(sessions')) <= MaxSessions
    BY <2>1, <2>6, <2>7, OneForAnother
  <2>9. \A u \in Tokens \ {t} : sessions'[u] # None =>
          /\ sessions[u] # None /\ sessions'[u].login = sessions[u].login
          /\ sessions'[u].login # sessions'[t].login
    <3> SUFFICES ASSUME NEW u \in Tokens \ {t}, sessions'[u] # None
                 PROVE  /\ sessions[u] # None /\ sessions'[u].login = sessions[u].login
                        /\ sessions'[u].login # sessions'[t].login
      OBVIOUS
    <3>1. u # old /\ Live(u) /\ sessions'[u] = sessions[u] /\ u \in Keys(sessions)
      BY <2>1, <2>5
    <3>2. old \in Keys(sessions)
      BY <1>2, <2>1
    <3>3. sessions[u].login # sessions[old].login
      BY <3>1, <3>2 DEF SessionsInv, OneSessionPerLogin
    <3>4. sessions'[t].login = sessions[old].login
      BY <2>3, <2>5
    <3> QED
      BY <3>1, <3>3, <3>4 DEF Live
  <2>10. OneSessionPerLogin'
    BY <2>5, <2>9, OneNewSession
  <2> QED
    BY <2>5, <2>8, <2>10 DEF SessionsInv
<1>3. CASE ~ Live(old)
  <2>1. sessions' = [sessions EXCEPT ![old] = None]
    BY <1>3 DEF RotateSession
  <2>2. sessions' \in [Tokens -> SessionData \cup {None}]
    BY <2>1 DEF SessionsInv
  <2>3. \A u \in Tokens : sessions'[u] # None =>
          sessions[u] # None /\ sessions'[u].login = sessions[u].login
    BY <2>1 DEF SessionsInv
  <2> QED
    BY <2>2, <2>3, FewerSessions
<1> QED
  BY <1>2, <1>3

LEMMA RemoveStep ==
  ASSUME SessionsInv, NEW t, sessions' = [sessions EXCEPT ![t] = None] \/ UNCHANGED sessions
  PROVE  SessionsInv'
<1>1. sessions' \in [Tokens -> SessionData \cup {None}]
  BY DEF SessionsInv
<1>2. \A u \in Tokens : sessions'[u] # None =>
        sessions[u] # None /\ sessions'[u].login = sessions[u].login
  BY DEF SessionsInv
<1> QED
  BY <1>1, <1>2, FewerSessions

LEMMA TickSessions ==
  ASSUME SessionsInv, Tick
  PROVE  SessionsInv'
<1>1. \A u \in Tokens : sessions'[u] = IF sessions[u] = None THEN None
        ELSE [sessions[u] EXCEPT !.left = Less(@, -1), !.age = More(@, SessionLife)]
  BY DEF Tick
<1>2. ASSUME NEW u \in Tokens, sessions[u] # None
      PROVE  sessions'[u] \in SessionData /\ sessions'[u].login = sessions[u].login
  <2>1. sessions[u] \in SessionData
    BY <1>2 DEF SessionsInv
  <2>2. sessions[u].left \in -1 .. SessionLife /\ sessions[u].age \in 0 .. SessionLife
    BY <2>1 DEF SessionData
  <2>3. Less(sessions[u].left, -1) \in -1 .. SessionLife
    BY <2>2, SessionConstantsOK DEF Less
  <2>4. More(sessions[u].age, SessionLife) \in 0 .. SessionLife
    BY <2>2, SessionConstantsOK DEF More
  <2>5. sessions'[u] = [sessions[u] EXCEPT !.left = Less(sessions[u].left, -1),
                                           !.age = More(sessions[u].age, SessionLife)]
    BY <1>1, <1>2
  <2> QED
    BY <2>1, <2>3, <2>4, <2>5 DEF SessionData
<1>3. sessions' \in [Tokens -> SessionData \cup {None}]
  <2>1. \A u \in Tokens : sessions'[u] \in SessionData \cup {None}
    BY <1>1, <1>2
  <2>2. sessions' = [u \in Tokens |-> sessions'[u]]
    BY DEF Tick
  <2> QED
    BY <2>1, <2>2
<1> QED
  BY <1>1, <1>2, <1>3, FewerSessions

LEMMA SessionsStep == RequestsInv /\ SessionsInv /\ [Next]_vars => SessionsInv'
<1> SUFFICES ASSUME RequestsInv, SessionsInv, [Next]_vars PROVE SessionsInv'
  OBVIOUS
<1>1. CASE UNCHANGED sessions
  BY <1>1, RemoveStep
<1>2. ASSUME NEW h \in Handlers, NEW c \in Clients,
             BeginLogin(h, c) \/ BeginLogout(h, c) \/ BeginTicket(h, c)
      PROVE  SessionsInv'
  <2>1. \E t : sessions' = [sessions EXCEPT ![t] = None] \/ UNCHANGED sessions
    BY <1>2 DEF BeginLogin, BeginLogout, BeginTicket, Got
  <2> QED
    BY <2>1, RemoveStep
<1>3. ASSUME NEW h \in Handlers, Continue(h) PROVE SessionsInv'
  <2>1. CASE RevokePrevious(h) \/ Logout(h)
    <3>1. sessions' = [sessions EXCEPT ![handlers[h].token] = None]
      BY <2>1 DEF RevokePrevious, Logout
    <3> QED
      BY <3>1, RemoveStep
  <2>2. CASE \E t \in Tokens : CreateSession(h, t)
    BY <2>2, CreateStep
  <2>3. CASE \/ LoginFails(h) \/ \E u \in Users : LoginSucceeds(h, u)
             \/ \E arrives \in BOOLEAN : AnswerLogin(h, arrives)
             \/ \E k \in Tickets : CreateTicket(h, k)
    BY <1>1, <2>3 DEF LoginFails, LoginSucceeds, AnswerLogin, CreateTicket
  <2> QED
    BY <1>3, <2>1, <2>2, <2>3 DEF Continue
<1>4. CASE Tick
  BY <1>4, TickSessions
<1>5. CASE \E old, new \in Tokens : RotateSession(old, new)
  BY <1>5, RotateStep
<1>6. CASE \E u \in Users : RevokeAll(u)
  <2>1. sessions' \in [Tokens -> SessionData \cup {None}]
    BY <1>6 DEF RevokeAll, SessionsInv
  <2>2. \A t \in Tokens : sessions'[t] # None =>
          sessions[t] # None /\ sessions'[t].login = sessions[t].login
    BY <1>6 DEF RevokeAll
  <2> QED
    BY <2>1, <2>2, FewerSessions
<1>7. CASE \E k \in Tickets : ConsumeTicket(k) \/ ForgetTicket(k)
  BY <1>1, <1>7 DEF ConsumeTicket, ForgetTicket
<1>8. CASE UNCHANGED vars
  BY <1>1, <1>8 DEF vars
<1> QED
  BY <1>2, <1>3, <1>4, <1>5, <1>6, <1>7, <1>8 DEF Next

-----------------------------------------------------------------------------
(* Evictions. *)

\* What a login at capacity may end.
FairEviction ==
  \A h \in Handlers :
    handlers[h].at = "create" /\ handlers'[h].at = "answer" =>
      \A t \in Tokens : Live(t) /\ sessions'[t] = None =>
        /\ Cardinality({u \in Tokens : Live(u)}) >= MaxSessions
        /\ \A u \in Tokens : Live(u) => sessions[u].age <= sessions[t].age

LEMMA OnlyCreateAnswers ==
  ASSUME RequestsInv, [Next]_vars, NEW h \in Handlers,
         handlers[h].at = "create", handlers'[h].at = "answer"
  PROVE  \E t \in Tokens : CreateSession(h, t)
<1>1. handlers'[h] # handlers[h]
  OBVIOUS
<1>2. \A g \in Handlers : \A request : Goto(g, request) => g = h
  BY <1>1 DEF Goto, RequestsInv
<1>3. ~ UNCHANGED handlers
  BY <1>1
<1>4. ~ \E g \in Handlers, c \in Clients : BeginLogin(g, c) \/ BeginLogout(g, c) \/ BeginTicket(g, c)
  BY <1>2, <1>3 DEF BeginLogin, BeginLogout, BeginTicket
<1>5. PICK g \in Handlers : Continue(g)
  BY <1>3, <1>4 DEF Next, Tick, RotateSession, RevokeAll, ConsumeTicket, ForgetTicket, vars
<1>6. g = h
  BY <1>2, <1>3, <1>5 DEF Continue, LoginFails, RevokePrevious, Logout, LoginSucceeds,
    CreateSession, AnswerLogin, CreateTicket
<1> QED
  BY <1>5, <1>6 DEF Continue, LoginFails, RevokePrevious, Logout, LoginSucceeds, AnswerLogin,
    CreateTicket

LEMMA EvictionStep == RequestsInv /\ SessionsInv /\ [Next]_vars => FairEviction
<1> SUFFICES ASSUME RequestsInv, SessionsInv, [Next]_vars, NEW h \in Handlers,
                    handlers[h].at = "create", handlers'[h].at = "answer",
                    NEW t \in Tokens, Live(t), sessions'[t] = None
             PROVE  /\ Cardinality({u \in Tokens : Live(u)}) >= MaxSessions
                    /\ \A u \in Tokens : Live(u) => sessions[u].age <= sessions[t].age
  BY DEF FairEviction
<1>1. PICK k \in Tokens : CreateSession(h, k)
  BY OnlyCreateAnswers
<1> DEFINE new == [user |-> handlers[h].user, login |-> k, left |-> SessionLife, age |-> 0]
<1>2. new \in SessionData
  <2>1. handlers[h].user \in Users
    BY DEF RequestsInv
  <2> QED
    BY <2>1, NewSessionType
<1>3. sessions' = [MakeRoom(Pruned) EXCEPT ![k] = new]
  BY <1>1 DEF CreateSession
<1> HIDE DEF new
<1>4. /\ sessions'[k] = new
      /\ \A u \in Tokens \ {k} : Live(u) /\ sessions'[u] = None =>
           /\ Cardinality({v \in Tokens : Live(v)}) >= MaxSessions
           /\ \A v \in Tokens : Live(v) => sessions[v].age <= sessions[u].age
  BY <1>2, <1>3, RoomIs
<1>5. t # k
  BY <1>2, <1>4, NoneIsNoSession
<1> QED
  BY <1>4, <1>5

-----------------------------------------------------------------------------
(* Tickets. *)

LEMMA NoneIsNoNumber == \A n \in Int : n # None
BY NoneIsNoValue

LEMMA SoonestExists ==
  ASSUME NEW store \in [Tickets -> -1 .. TicketLife \cup {None}], Keys(store) # {}
  PROVE  \E j \in Keys(store) : \A i \in Keys(store) : store[j] <= store[i]
<1> DEFINE S == {store[j] + 1 : j \in Keys(store)}
<1>1. \A j \in Keys(store) : store[j] \in -1 .. TicketLife
  BY DEF Keys
<1>2. TicketLife \in Nat
  BY SessionConstantsOK
<1>3. S \subseteq Nat /\ S # {}
  <2>1. \A j \in Keys(store) : store[j] + 1 \in Nat
    BY <1>1, <1>2
  <2> QED
    BY <2>1
<1>4. PICK x \in S : \A y \in S : x <= y
  BY <1>3, LeastNatural
<1>5. PICK j \in Keys(store) : x = store[j] + 1
  OBVIOUS
<1>6. ASSUME NEW i \in Keys(store) PROVE store[j] <= store[i]
  <2>1. store[j] + 1 <= store[i] + 1
    BY <1>4, <1>5
  <2> QED
    BY <2>1, <1>1, <1>2
<1> QED
  BY <1>6

LEMMA FewerTickets ==
  ASSUME TicketsInv, NEW store \in [Tickets -> -1 .. TicketLife \cup {None}],
         \A k \in Tickets : store[k] # None => tickets[k] # None
  PROVE  IsFiniteSet(Keys(store)) /\ Cardinality(Keys(store)) <= MaxTickets
<1>1. Keys(store) \subseteq Keys(tickets)
  BY DEF Keys, TicketsInv
<1>2. MaxTickets \in Nat
  BY SessionConstantsOK
<1> QED
  BY <1>1, <1>2, NoMore DEF TicketsInv

LEMMA CreateTicketStep ==
  ASSUME TicketsInv, NEW h \in Handlers, NEW k \in Tickets, CreateTicket(h, k)
  PROVE  TicketsInv'
<1> DEFINE store == PrunedTickets
           first == CHOOSE j \in Keys(store) : \A i \in Keys(store) : store[j] <= store[i]
<1>1. /\ store \in [Tickets -> -1 .. TicketLife \cup {None}]
      /\ \A j \in Tickets : store[j] # None => tickets[j] # None
  BY DEF PrunedTickets, TicketsInv
<1>2. IsFiniteSet(Keys(store)) /\ Cardinality(Keys(store)) <= MaxTickets
  BY <1>1, FewerTickets
<1>3. MaxTickets \in Nat /\ MaxTickets > 0 /\ TicketLife \in -1 .. TicketLife
  BY SessionConstantsOK
<1>4. Cardinality(Keys(store)) \in Nat
  BY <1>2, FS_CardinalityType
<1>5. tickets' = [IF Cardinality(Keys(store)) >= MaxTickets
                  THEN [store EXCEPT ![first] = None] ELSE store EXCEPT ![k] = TicketLife]
  BY DEF CreateTicket
<1>6. admitted[k] = None /\ admitted' = [admitted EXCEPT ![k] = 0]
  BY DEF CreateTicket
<1>7. Keys(store) # {} => first \in Keys(store)
  BY <1>1, SoonestExists
<1> HIDE DEF store, first
<1>8. /\ tickets' \in [Tickets -> -1 .. TicketLife \cup {None}]
      /\ \A j \in Tickets \ {k} : tickets'[j] # None => store[j] # None
  BY <1>1, <1>3, <1>5
<1>9. IsFiniteSet(Keys(tickets')) /\ Cardinality(Keys(tickets')) <= MaxTickets
  <2>1. CASE Cardinality(Keys(store)) >= MaxTickets
    <3>1. first \in Keys(store)
      BY <1>2, <1>3, <1>4, <1>7, <2>1, FS_EmptySet
    <3>2. tickets' = [store EXCEPT ![first] = None, ![k] = TicketLife]
      BY <1>5, <2>1
    <3>3. \A j \in Tickets : tickets'[j] # None => j = k \/ (store[j] # None /\ j # first)
      BY <1>1, <3>2
    <3>4. Keys(tickets') \subseteq (Keys(store) \ {first}) \cup {k}
      BY <1>1, <1>8, <3>3 DEF Keys
    <3> QED
      BY <1>2, <1>3, <3>1, <3>4, OneForAnother
  <2>2. CASE ~ Cardinality(Keys(store)) >= MaxTickets
    <3>1. Keys(tickets') \subseteq Keys(store) \cup {k}
      BY <1>1, <1>8 DEF Keys
    <3>2. Cardinality(Keys(store)) < MaxTickets
      BY <1>3, <1>4, <2>2
    <3> QED
      BY <1>2, <1>3, <3>1, <3>2, OneMore
  <2> QED
    BY <2>1, <2>2
<1>10. /\ admitted' \in [Tickets -> 0 .. 2 \cup {None}]
       /\ admitted'[k] = 0
       /\ \A j \in Tickets \ {k} : admitted'[j] = admitted[j]
  BY <1>6 DEF TicketsInv
<1>11. \A j \in Tickets : admitted'[j] # None => admitted'[j] <= 1
  BY <1>10 DEF TicketsInv
<1>12. \A j \in Tickets : admitted'[j] = 1 => tickets'[j] = None
  BY <1>1, <1>8, <1>10 DEF TicketsInv
<1> QED
  BY <1>8, <1>9, <1>10, <1>11, <1>12 DEF TicketsInv

\* Whatever takes tickets away, and opens no connection, keeps them in order.
LEMMA TakenTickets ==
  ASSUME TicketsInv, tickets' \in [Tickets -> -1 .. TicketLife \cup {None}],
         \A k \in Tickets : tickets'[k] # None => tickets[k] # None,
         admitted' \in [Tickets -> 0 .. 2 \cup {None}],
         \A k \in Tickets : admitted'[k] \in {admitted[k], None}
  PROVE  TicketsInv'
<1>1. IsFiniteSet(Keys(tickets')) /\ Cardinality(Keys(tickets')) <= MaxTickets
  BY FewerTickets
<1>2. \A k \in Tickets : admitted'[k] # None => admitted'[k] <= 1
  BY DEF TicketsInv
<1>3. \A k \in Tickets : admitted'[k] = 1 => tickets'[k] = None
  <2> SUFFICES ASSUME NEW k \in Tickets, admitted'[k] = 1 PROVE tickets'[k] = None
    OBVIOUS
  <2>1. admitted[k] = 1
    BY NoneIsNoNumber
  <2> QED
    BY <2>1 DEF TicketsInv
<1> QED
  BY <1>1, <1>2, <1>3 DEF TicketsInv

LEMMA ConsumeStep ==
  ASSUME TicketsInv, NEW k \in Tickets, ConsumeTicket(k)
  PROVE  TicketsInv'
<1>1. /\ admitted[k] # None /\ admitted[k] < 2
      /\ tickets' = [tickets EXCEPT ![k] = None]
      /\ admitted' = IF tickets[k] # None /\ tickets[k] >= 0
                     THEN [admitted EXCEPT ![k] = @ + 1] ELSE admitted
  BY DEF ConsumeTicket, Popped
<1>2. /\ tickets' \in [Tickets -> -1 .. TicketLife \cup {None}]
      /\ \A j \in Tickets : tickets'[j] # None => tickets[j] # None
      /\ tickets'[k] = None
  BY <1>1 DEF TicketsInv
<1>3. CASE tickets[k] # None /\ tickets[k] >= 0
  <2>1. admitted[k] = 0
    BY <1>1, <1>3 DEF TicketsInv
  <2>2. admitted' = [admitted EXCEPT ![k] = 1]
    BY <1>1, <1>3, <2>1
  <2>3. /\ admitted' \in [Tickets -> 0 .. 2 \cup {None}]
        /\ \A j \in Tickets : admitted'[j] = IF j = k THEN 1 ELSE admitted[j]
    BY <2>2 DEF TicketsInv
  <2>4. IsFiniteSet(Keys(tickets')) /\ Cardinality(Keys(tickets')) <= MaxTickets
    BY <1>2, FewerTickets
  <2>5. \A j \in Tickets : admitted'[j] # None => admitted'[j] <= 1
    BY <2>3 DEF TicketsInv
  <2>6. \A j \in Tickets : admitted'[j] = 1 => tickets'[j] = None
    BY <1>2, <2>3 DEF TicketsInv
  <2> QED
    BY <1>2, <2>3, <2>4, <2>5, <2>6 DEF TicketsInv
<1>4. CASE ~ (tickets[k] # None /\ tickets[k] >= 0)
  <2>1. admitted' = admitted /\ admitted' \in [Tickets -> 0 .. 2 \cup {None}]
    BY <1>1, <1>4 DEF TicketsInv
  <2> QED
    BY <1>2, <2>1, TakenTickets
<1> QED
  BY <1>3, <1>4

LEMMA TicketsStep == TicketsInv /\ [Next]_vars => TicketsInv'
<1> SUFFICES ASSUME TicketsInv, [Next]_vars PROVE TicketsInv'
  OBVIOUS
<1>1. CASE UNCHANGED <<tickets, admitted>>
  BY <1>1 DEF TicketsInv
<1>2. ASSUME NEW h \in Handlers, NEW c \in Clients,
             BeginLogin(h, c) \/ BeginLogout(h, c) \/ BeginTicket(h, c)
      PROVE  TicketsInv'
  BY <1>1, <1>2 DEF BeginLogin, BeginLogout, BeginTicket
<1>3. ASSUME NEW h \in Handlers, Continue(h) PROVE TicketsInv'
  <2>1. CASE \E k \in Tickets : CreateTicket(h, k)
    BY <2>1, CreateTicketStep
  <2>2. CASE ~ \E k \in Tickets : CreateTicket(h, k)
    BY <1>1, <1>3, <2>2 DEF Continue, LoginFails, RevokePrevious, Logout, LoginSucceeds,
      CreateSession, AnswerLogin
  <2> QED
    BY <2>1, <2>2
<1>4. CASE Tick
  <2>1. \A k \in Tickets : tickets'[k] = IF tickets[k] = None THEN None ELSE Less(tickets[k], -1)
    BY <1>4 DEF Tick
  <2>2. \A k \in Tickets : tickets[k] # None => Less(tickets[k], -1) \in -1 .. TicketLife
    BY SessionConstantsOK DEF TicketsInv, Less
  <2>3. tickets' \in [Tickets -> -1 .. TicketLife \cup {None}]
    <3>1. \A k \in Tickets : tickets'[k] \in -1 .. TicketLife \cup {None}
      BY <2>1, <2>2
    <3>2. tickets' = [k \in Tickets |-> tickets'[k]]
      BY <1>4 DEF Tick
    <3> QED
      BY <3>1, <3>2
  <2>4. admitted' = admitted /\ admitted' \in [Tickets -> 0 .. 2 \cup {None}]
    BY <1>4 DEF Tick, TicketsInv
  <2> QED
    BY <2>1, <2>3, <2>4, TakenTickets
<1>5. CASE \E k \in Tickets : ConsumeTicket(k)
  BY <1>5, ConsumeStep
<1>6. ASSUME NEW k \in Tickets, ForgetTicket(k) PROVE TicketsInv'
  <2>1. tickets' = tickets /\ tickets' \in [Tickets -> -1 .. TicketLife \cup {None}]
    BY <1>6 DEF ForgetTicket, TicketsInv
  <2>2. /\ admitted' \in [Tickets -> 0 .. 2 \cup {None}]
        /\ \A j \in Tickets : admitted'[j] \in {admitted[j], None}
    BY <1>6 DEF ForgetTicket, TicketsInv
  <2> QED
    BY <2>1, <2>2, TakenTickets
<1>7. CASE \/ \E old, new \in Tokens : RotateSession(old, new)
           \/ \E u \in Users : RevokeAll(u)
           \/ UNCHANGED vars
  BY <1>1, <1>7 DEF RotateSession, RevokeAll, vars
<1> QED
  BY <1>2, <1>3, <1>4, <1>5, <1>6, <1>7 DEF Next

-----------------------------------------------------------------------------
(* Failures and lockouts.  A lockout outlasts every failure of its address *)
(* that counts, so that an address with the most that may count is locked  *)
(* out; each request that was let in before that may record one more.      *)

Stale(s) == {i \in DOMAIN s : s[i] > AttemptWindow}

\* The requests whose key is being looked at for an address.
Checked(c) == {h \in Handlers : handlers[h].at = "checked" /\ handlers[h].client = c}

Outlasted(s, left) ==
  Len(Recent(s)) >= MaxAttempts => \A i \in DOMAIN s : left > AttemptWindow - s[i]

InOrder(s) == \A i, j \in DOMAIN s : i < j => s[j] <= s[i]

Fits(s, under) == Len(Recent(s)) + Cardinality(under) < MaxAttempts + Cardinality(Handlers)

AttemptsInv ==
  /\ attempts \in [Clients -> Seq(0 .. AttemptWindow + 1)]
  /\ lockouts \in [Clients -> 0 .. Lockout]
  /\ \A h \in Handlers : handlers[h].at = "checked" => handlers[h].client \in Clients
  /\ \A c \in Clients :
       /\ InOrder(attempts[c]) /\ Outlasted(attempts[c], lockouts[c])
       /\ Fits(attempts[c], Checked(c))

LEMMA Entries ==
  ASSUME NEW S, NEW s \in Seq(S)
  PROVE  Len(s) \in Nat /\ DOMAIN s = 1 .. Len(s) /\ \A i \in DOMAIN s : s[i] \in S
OBVIOUS

LEMMA StaleIsCounted ==
  ASSUME NEW s \in Seq(0 .. AttemptWindow + 1)
  PROVE  IsFiniteSet(Stale(s)) /\ Cardinality(Stale(s)) \in 0 .. Len(s)
<1>1. Len(s) \in Nat /\ DOMAIN s = 1 .. Len(s)
  OBVIOUS
<1>2. IsFiniteSet(1 .. Len(s)) /\ Cardinality(1 .. Len(s)) = Len(s)
  BY <1>1, FS_Interval
<1>3. Stale(s) \subseteq 1 .. Len(s)
  BY <1>1 DEF Stale
<1>4. IsFiniteSet(Stale(s)) /\ Cardinality(Stale(s)) <= Len(s)
  BY <1>2, <1>3, FS_Subset
<1>5. Cardinality(Stale(s)) \in Nat
  BY <1>4, FS_CardinalityType
<1> QED
  BY <1>1, <1>4, <1>5

\* Recent leaves a list without its first entries.
LEMMA RecentIs ==
  ASSUME NEW s \in Seq(0 .. AttemptWindow + 1)
  PROVE  /\ Recent(s) \in Seq(0 .. AttemptWindow + 1)
         /\ Len(Recent(s)) = Len(s) - Cardinality(Stale(s))
         /\ \A i \in DOMAIN Recent(s) :
              /\ Cardinality(Stale(s)) + i \in DOMAIN s
              /\ Recent(s)[i] = s[Cardinality(Stale(s)) + i]
<1> DEFINE k == Cardinality(Stale(s))
<1>1. k \in 0 .. Len(s) /\ Len(s) \in Nat
  BY StaleIsCounted
<1>2. Recent(s) = SubSeq(s, k + 1, Len(s))
  BY DEF Recent, Stale
<1> HIDE DEF k
<1>3. /\ SubSeq(s, k + 1, Len(s)) \in Seq(0 .. AttemptWindow + 1)
      /\ Len(SubSeq(s, k + 1, Len(s))) = Len(s) - k
      /\ DOMAIN SubSeq(s, k + 1, Len(s)) = 1 .. (Len(s) - k)
      /\ \A i \in 1 .. (Len(s) - k) : SubSeq(s, k + 1, Len(s))[i] = s[k + i]
  <2> DEFINE S == 0 .. AttemptWindow + 1
             n == Len(s)
  <2>1. k + 1 \in Int /\ n \in Int /\ \A i \in (k + 1) .. n : s[i] \in S
    <3>1. DOMAIN s = 1 .. n /\ \A i \in DOMAIN s : s[i] \in S
      BY Entries
    <3>2. n \in Nat /\ k \in 0 .. n
      BY <1>1
    <3> HIDE DEF S, n
    <3> QED
      BY <3>1, <3>2
  <2> HIDE DEF S, n
  <2>2. /\ SubSeq(s, k + 1, n) \in Seq(S)
        /\ Len(SubSeq(s, k + 1, n)) = IF k + 1 <= n THEN n - (k + 1) + 1 ELSE 0
        /\ \A i \in 1 .. n - (k + 1) + 1 : SubSeq(s, k + 1, n)[i] = s[(k + 1) + i - 1]
    BY <2>1, SubSeqProperties
  <2>3. k \in 0 .. n /\ n \in Nat
    BY <1>1 DEF n
  <2>4. n - (k + 1) + 1 = n - k /\ \A i \in 1 .. (n - k) : (k + 1) + i - 1 = k + i
    BY <2>3
  <2>5. Len(SubSeq(s, k + 1, n)) = n - k
    BY <2>2, <2>3
  <2>6. DOMAIN SubSeq(s, k + 1, n) = 1 .. (n - k)
    BY <2>2, <2>5
  <2> QED
    BY <2>2, <2>4, <2>5, <2>6 DEF S, n
<1>4. \A i \in 1 .. (Len(s) - k) : k + i \in DOMAIN s
  BY <1>1
<1> QED
  BY <1>2, <1>3, <1>4 DEF k

\* Of a list in the order of time, it leaves the failures that count.
LEMMA RecentCount ==
  ASSUME NEW s \in Seq(0 .. AttemptWindow + 1), InOrder(s)
  PROVE  \A i \in DOMAIN s : s[i] <= AttemptWindow <=> i > Cardinality(Stale(s))
<1> SUFFICES ASSUME NEW i \in DOMAIN s
             PROVE  s[i] <= AttemptWindow <=> i > Cardinality(Stale(s))
  OBVIOUS
<1>1. /\ IsFiniteSet(Stale(s)) /\ Cardinality(Stale(s)) \in Nat
      /\ AttemptWindow \in Nat /\ i \in Nat \ {0} /\ DOMAIN s = 1 .. Len(s) /\ Len(s) \in Nat
      /\ \A j \in DOMAIN s : s[j] \in Nat
  BY StaleIsCounted, SessionConstantsOK
<1>2. CASE s[i] <= AttemptWindow
  <2>1. \A j \in DOMAIN s : i <= j => s[j] <= AttemptWindow
    BY <1>1, <1>2 DEF InOrder
  <2>2. Stale(s) \subseteq 1 .. (i - 1)
    BY <1>1, <2>1 DEF Stale
  <2>3. IsFiniteSet(1 .. (i - 1)) /\ Cardinality(1 .. (i - 1)) = i - 1
    <3>1. i - 1 \in Nat
      BY <1>1
    <3> QED
      BY <3>1, FS_Interval
  <2>4. Cardinality(Stale(s)) <= i - 1
    BY <2>2, <2>3, FS_Subset
  <2> QED
    BY <1>1, <1>2, <2>4
<1>3. CASE ~ (s[i] <= AttemptWindow)
  <2>1. \A j \in DOMAIN s : j <= i => s[j] > AttemptWindow
    BY <1>1, <1>3 DEF InOrder
  <2>2. 1 .. i \subseteq Stale(s)
    BY <1>1, <2>1 DEF Stale
  <2>3. IsFiniteSet(1 .. i) /\ Cardinality(1 .. i) = i
    BY <1>1, FS_Interval
  <2>4. i <= Cardinality(Stale(s))
    BY <1>1, <2>2, <2>3, FS_Subset
  <2> QED
    BY <1>1, <1>3, <2>4
<1> QED
  BY <1>2, <1>3

\* What prunes a list a second time removes nothing that the proofs need.
LEMMA PruneAgain ==
  ASSUME NEW s \in Seq(0 .. AttemptWindow + 1), InOrder(s), NEW left \in Nat, Outlasted(s, left)
  PROVE  /\ Recent(s) \in Seq(0 .. AttemptWindow + 1) /\ InOrder(Recent(s))
         /\ Outlasted(Recent(s), left) /\ Len(Recent(Recent(s))) <= Len(Recent(s))
<1> DEFINE r == Recent(s)
           k == Cardinality(Stale(s))
<1>1. r \in Seq(0 .. AttemptWindow + 1) /\ \A i \in DOMAIN r : k + i \in DOMAIN s /\ r[i] = s[k + i]
  BY RecentIs
<1>2. k \in Nat /\ DOMAIN r \subseteq Nat /\ DOMAIN s \subseteq Nat
  BY <1>1, StaleIsCounted
<1>3. InOrder(r)
  <2> HIDE DEF r, k
  <2> QED
    BY <1>1, <1>2 DEF InOrder
<1>4. Len(Recent(r)) <= Len(r)
  BY <1>1, RecentIs, StaleIsCounted
<1>5. Outlasted(r, left)
  <2> SUFFICES ASSUME Len(Recent(r)) >= MaxAttempts, NEW i \in DOMAIN r
               PROVE  left > AttemptWindow - r[i]
    BY DEF Outlasted
  <2>1. Len(Recent(r)) \in Nat /\ Len(r) \in Nat /\ MaxAttempts \in Nat
    BY <1>1, RecentIs, SessionConstantsOK
  <2>2. Len(Recent(s)) >= MaxAttempts
    BY <1>4, <2>1
  <2> QED
    BY <1>1, <2>2 DEF Outlasted
<1> QED
  BY <1>1, <1>3, <1>4, <1>5

\* One more failure.
LEMMA OneMoreFailure ==
  ASSUME NEW s \in Seq(0 .. AttemptWindow + 1), InOrder(s)
  PROVE  /\ Append(s, 0) \in Seq(0 .. AttemptWindow + 1) /\ InOrder(Append(s, 0))
         /\ Len(Append(s, 0)) = Len(s) + 1 /\ Len(Recent(Append(s, 0))) <= Len(s) + 1
<1> DEFINE f == Append(s, 0)
<1>0. AttemptWindow \in Nat
  BY SessionConstantsOK
<1>1. /\ f \in Seq(0 .. AttemptWindow + 1) /\ Len(f) = Len(s) + 1 /\ Len(s) \in Nat
      /\ DOMAIN f = 1 .. Len(s) + 1 /\ DOMAIN s = 1 .. Len(s)
      /\ \A i \in 1 .. Len(s) : f[i] = s[i]
      /\ f[Len(s) + 1] = 0
  BY <1>0
<1>2. InOrder(f)
  <2>1. \A i \in DOMAIN s : s[i] \in Nat
    BY <1>0
  <2> HIDE DEF f
  <2> QED
    BY <1>1, <2>1 DEF InOrder
<1>3. Len(Recent(f)) <= Len(f)
  <2>1. f \in Seq(0 .. AttemptWindow + 1) /\ Len(f) \in Nat
    BY <1>1
  <2> HIDE DEF f
  <2> QED
    BY <2>1, RecentIs, StaleIsCounted
<1> QED
  BY <1>1, <1>2, <1>3

\* A moment later.
LEMMA LaterFailures ==
  ASSUME NEW s \in Seq(0 .. AttemptWindow + 1), InOrder(s), NEW left \in Nat, Outlasted(s, left),
         NEW t, t = [i \in DOMAIN s |-> More(s[i], AttemptWindow + 1)]
  PROVE  /\ t \in Seq(0 .. AttemptWindow + 1) /\ InOrder(t)
         /\ Outlasted(t, Less(left, 0)) /\ Len(Recent(t)) <= Len(Recent(s))
<1>0. /\ AttemptWindow \in Nat /\ MaxAttempts \in Nat /\ Len(s) \in Nat /\ DOMAIN s = 1 .. Len(s)
      /\ \A i \in DOMAIN s : s[i] \in 0 .. AttemptWindow + 1
  BY SessionConstantsOK
<1>1. \A n \in 0 .. AttemptWindow + 1 : More(n, AttemptWindow + 1) \in 0 .. AttemptWindow + 1
  BY <1>0 DEF More
<1>2. /\ t \in Seq(0 .. AttemptWindow + 1) /\ Len(t) = Len(s) /\ DOMAIN t = DOMAIN s
      /\ \A i \in DOMAIN s : t[i] = More(s[i], AttemptWindow + 1)
  BY <1>0, <1>1
<1>3. InOrder(t)
  BY <1>0, <1>2 DEF InOrder, More
<1>4. Stale(s) \subseteq Stale(t)
  BY <1>0, <1>2 DEF Stale, More
<1>5. Cardinality(Stale(s)) <= Cardinality(Stale(t))
  BY <1>2, <1>4, StaleIsCounted, FS_Subset
<1>6. Len(Recent(t)) <= Len(Recent(s)) /\ Len(Recent(t)) \in Nat /\ Len(Recent(s)) \in Nat
  <2>1. Len(Recent(s)) = Len(s) - Cardinality(Stale(s)) /\ Cardinality(Stale(s)) \in 0 .. Len(s)
    BY RecentIs, StaleIsCounted
  <2>2. Len(Recent(t)) = Len(t) - Cardinality(Stale(t)) /\ Cardinality(Stale(t)) \in 0 .. Len(t)
    BY <1>2, RecentIs, StaleIsCounted
  <2> QED
    BY <1>0, <1>2, <1>5, <2>1, <2>2
<1>7. Outlasted(t, Less(left, 0))
  <2> SUFFICES ASSUME Len(Recent(t)) >= MaxAttempts, NEW i \in DOMAIN t
               PROVE  Less(left, 0) > AttemptWindow - t[i]
    BY DEF Outlasted
  <2>1. left > AttemptWindow - s[i] /\ s[i] \in 0 .. AttemptWindow + 1
    BY <1>0, <1>2, <1>6 DEF Outlasted
  <2>2. t[i] = More(s[i], AttemptWindow + 1)
    BY <1>2
  <2> QED
    BY <1>0, <2>1, <2>2 DEF Less, More
<1> QED
  BY <1>2, <1>3, <1>6, <1>7


LEMMA CheckedIsCounted ==
  ASSUME NEW H, H \subseteq Handlers
  PROVE  /\ IsFiniteSet(Handlers) /\ Cardinality(Handlers) \in Nat
         /\ IsFiniteSet(H) /\ Cardinality(H) \in 0 .. Cardinality(Handlers)
<1>1. IsFiniteSet(Handlers) /\ Cardinality(Handlers) \in Nat
  BY SessionConstantsOK, FS_CardinalityType
<1>2. IsFiniteSet(H) /\ Cardinality(H) <= Cardinality(Handlers)
  BY <1>1, FS_Subset
<1> QED
  BY <1>1, <1>2, FS_CardinalityType

\* No more failures, no more requests.
LEMMA StillFits ==
  ASSUME NEW s \in Seq(0 .. AttemptWindow + 1), NEW t \in Seq(0 .. AttemptWindow + 1),
         NEW G, NEW H, G \subseteq H, H \subseteq Handlers,
         Fits(s, H), Len(Recent(t)) <= Len(Recent(s))
  PROVE  Fits(t, G)
<1>1. Len(Recent(s)) \in Nat /\ Len(Recent(t)) \in Nat /\ MaxAttempts \in Nat
  BY RecentIs, SessionConstantsOK
<1>2. Cardinality(G) <= Cardinality(H) /\ Cardinality(G) \in Nat /\ Cardinality(H) \in Nat
  BY CheckedIsCounted, FS_Subset
<1>3. Cardinality(Handlers) \in Nat
  BY CheckedIsCounted
<1> QED
  BY <1>1, <1>2, <1>3 DEF Fits

\* An address that is not locked out has room for all requests.
LEMMA UnlockedFits ==
  ASSUME NEW s \in Seq(0 .. AttemptWindow + 1), Outlasted(s, 0), NEW H, H \subseteq Handlers
  PROVE  Len(Recent(s)) < MaxAttempts /\ Fits(s, H)
<1>1. /\ Len(Recent(s)) = Len(s) - Cardinality(Stale(s)) /\ Cardinality(Stale(s)) \in 0 .. Len(s)
      /\ MaxAttempts \in Nat \ {0} /\ AttemptWindow \in Nat /\ Len(s) \in Nat
  BY RecentIs, StaleIsCounted, SessionConstantsOK
<1>2. Len(Recent(s)) < MaxAttempts
  <2> SUFFICES ASSUME Len(Recent(s)) >= MaxAttempts PROVE FALSE
    BY <1>1
  <2>1. \A i \in DOMAIN s : 0 > AttemptWindow - s[i] /\ s[i] \in Nat
    BY <1>1 DEF Outlasted
  <2>2. Stale(s) = 1 .. Len(s)
    BY <1>1, <2>1 DEF Stale
  <2>3. Cardinality(Stale(s)) = Len(s)
    BY <1>1, <2>2, FS_Interval
  <2> QED
    BY <1>1, <2>3
<1>3. Cardinality(H) \in 0 .. Cardinality(Handlers) /\ Cardinality(Handlers) \in Nat
  BY CheckedIsCounted
<1> QED
  BY <1>1, <1>2, <1>3 DEF Fits

\* A step that changes no failures and lets nobody in.
LEMMA SameFailures ==
  ASSUME AttemptsInv, UNCHANGED <<attempts, lockouts>>,
         \A h \in Handlers : handlers'[h].at = "checked" => handlers'[h] = handlers[h]
  PROVE  AttemptsInv'
<1>1. ASSUME NEW c \in Clients PROVE Fits(attempts[c], Checked(c)')
  <2>1. Checked(c)' \subseteq Checked(c) /\ Checked(c) \subseteq Handlers
    BY DEF Checked
  <2>2. attempts[c] \in Seq(0 .. AttemptWindow + 1) /\ Fits(attempts[c], Checked(c))
    BY DEF AttemptsInv
  <2>3. Len(Recent(attempts[c])) <= Len(Recent(attempts[c]))
    BY <2>2, RecentIs
  <2> QED
    BY <2>1, <2>2, <2>3, StillFits
<1> QED
  BY <1>1 DEF AttemptsInv

LEMMA PrunedAre ==
  ASSUME AttemptsInv
  PROVE  /\ PrunedAttempts \in [Clients -> Seq(0 .. AttemptWindow + 1)]
         /\ \A c \in Clients :
              /\ PrunedAttempts[c] = Recent(attempts[c])
              /\ InOrder(PrunedAttempts[c]) /\ Outlasted(PrunedAttempts[c], lockouts[c])
              /\ Len(Recent(PrunedAttempts[c])) <= Len(Recent(attempts[c]))
<1>1. \A c \in Clients : /\ attempts[c] \in Seq(0 .. AttemptWindow + 1) /\ InOrder(attempts[c])
                         /\ lockouts[c] \in Nat /\ Outlasted(attempts[c], lockouts[c])
  BY SessionConstantsOK DEF AttemptsInv
<1>2. \A c \in Clients : PrunedAttempts[c] = Recent(attempts[c])
  BY DEF PrunedAttempts
<1>3. \A c \in Clients : Recent(attempts[c]) \in Seq(0 .. AttemptWindow + 1)
  BY <1>1, PruneAgain
<1>4. PrunedAttempts \in [Clients -> Seq(0 .. AttemptWindow + 1)]
  BY <1>3 DEF PrunedAttempts
<1> QED
  BY <1>1, <1>2, <1>4, PruneAgain

\* An address whose failures are only pruned, and whose requests do not get more.
LEMMA PrunedStillFits ==
  ASSUME AttemptsInv, NEW c \in Clients, attempts'[c] = PrunedAttempts[c], lockouts'[c] = lockouts[c],
         Checked(c)' \subseteq Checked(c), Checked(c) \subseteq Handlers
  PROVE  /\ InOrder(attempts'[c]) /\ Outlasted(attempts'[c], lockouts'[c])
         /\ Fits(attempts'[c], Checked(c)')
<1>1. attempts[c] \in Seq(0 .. AttemptWindow + 1) /\ Fits(attempts[c], Checked(c))
  BY DEF AttemptsInv
<1>2. /\ PrunedAttempts[c] \in Seq(0 .. AttemptWindow + 1)
      /\ InOrder(PrunedAttempts[c]) /\ Outlasted(PrunedAttempts[c], lockouts[c])
      /\ Len(Recent(PrunedAttempts[c])) <= Len(Recent(attempts[c]))
  BY PrunedAre
<1>3. Fits(PrunedAttempts[c], Checked(c)')
  BY <1>1, <1>2, StillFits
<1> QED
  BY <1>2, <1>3

LEMMA BeginLoginFailures ==
  ASSUME RequestsInv, AttemptsInv, NEW h \in Handlers, NEW c \in Clients, BeginLogin(h, c)
  PROVE  AttemptsInv'
<1>1. attempts' = PrunedAttempts /\ lockouts' = lockouts /\ handlers[h].at = "idle"
  BY DEF BeginLogin, AfterCheck
<1>2. \A d \in Clients : Checked(d)' \subseteq Handlers /\ Checked(d) \subseteq Handlers
  BY DEF Checked
<1>3. ASSUME NEW d \in Clients, Checked(d)' \subseteq Checked(d)
      PROVE  Fits(attempts'[d], Checked(d)')
  BY <1>1, <1>2, <1>3, PrunedStillFits
<1>4. CASE Locked(c)
  <2>1. handlers' = handlers
    BY <1>4 DEF BeginLogin
  <2>2. \A d \in Clients : Checked(d)' = Checked(d)
    BY <2>1 DEF Checked
  <2> QED
    BY <1>1, <1>3, <2>1, <2>2, PrunedAre DEF AttemptsInv
<1>5. CASE ~ Locked(c)
  <2> DEFINE r == [Idle EXCEPT !.at = "checked", !.client = c, !.token = cookie[c]]
  <2>1. handlers' = [handlers EXCEPT ![h] = r] /\ r.at = "checked" /\ r.client = c
    BY <1>5 DEF BeginLogin, Goto, Idle
  <2>2. \A g \in Handlers : handlers'[g] = IF g = h THEN r ELSE handlers[g]
    BY <2>1 DEF RequestsInv
  <2>3. \A d \in Clients : d # c => Checked(d)' \subseteq Checked(d)
    BY <2>1, <2>2 DEF Checked
  <2>4. Fits(attempts'[c], Checked(c)')
    <3>1. lockouts[c] = 0
      BY <1>5, SessionConstantsOK DEF Locked, AttemptsInv
    <3>2. attempts'[c] \in Seq(0 .. AttemptWindow + 1) /\ Outlasted(attempts'[c], 0)
      BY <1>1, <3>1, PrunedAre
    <3> QED
      BY <1>2, <3>2, UnlockedFits
  <2>5. \A d \in Clients : Fits(attempts'[d], Checked(d)')
    BY <1>3, <2>3, <2>4
  <2>6. \A g \in Handlers : handlers'[g].at = "checked" => handlers'[g].client \in Clients
    BY <2>1, <2>2 DEF AttemptsInv
  <2> QED
    BY <1>1, <2>5, <2>6, PrunedAre DEF AttemptsInv
<1> QED
  BY <1>4, <1>5

\* A request that had passed the check is done with it.
LEMMA CheckIsOver ==
  ASSUME RequestsInv, NEW h \in Handlers, handlers[h].at = "checked", NEW r, r.at # "checked",
         Goto(h, r), NEW c, handlers[h].client = c
  PROVE  /\ \A g \in Handlers : handlers'[g].at = "checked" => handlers'[g] = handlers[g]
         /\ \A d \in Clients : Checked(d)' \subseteq Checked(d) /\ Checked(d) \subseteq Handlers
         /\ Checked(c)' \subseteq Checked(c) \ {h} /\ h \in Checked(c)
<1>1. \A g \in Handlers : handlers'[g] = IF g = h THEN r ELSE handlers[g]
  BY DEF Goto, RequestsInv
<1> QED
  BY <1>1 DEF Checked

LEMMA LoginFailsFailures ==
  ASSUME RequestsInv, AttemptsInv, NEW h \in Handlers, LoginFails(h),
         NEW c \in Clients, handlers[h].client = c
  PROVE  AttemptsInv'
<1> DEFINE p == PrunedAttempts[c]
           f == Append(p, 0)
<1>0. handlers[h].at = "checked"
  BY DEF LoginFails
<1>1. /\ attempts' = [PrunedAttempts EXCEPT ![c] = f]
      /\ lockouts' = [lockouts EXCEPT ![c] = IF Len(f) >= MaxAttempts THEN Lockout ELSE @]
      /\ Goto(h, Idle)
  BY DEF LoginFails, LockoutFromNow
<1>2. /\ \A g \in Handlers : handlers'[g].at = "checked" => handlers'[g] = handlers[g]
      /\ \A d \in Clients : Checked(d)' \subseteq Checked(d) /\ Checked(d) \subseteq Handlers
      /\ Checked(c)' \subseteq Checked(c) \ {h} /\ h \in Checked(c)
  <2>1. Idle.at # "checked"
    BY DEF Idle
  <2> QED
    BY <1>0, <1>1, <2>1, CheckIsOver
<1>3. /\ p \in Seq(0 .. AttemptWindow + 1) /\ InOrder(p) /\ p = Recent(attempts[c])
      /\ attempts[c] \in Seq(0 .. AttemptWindow + 1) /\ Fits(attempts[c], Checked(c))
  BY <1>0, PrunedAre DEF AttemptsInv
<1>4. /\ f \in Seq(0 .. AttemptWindow + 1) /\ InOrder(f) /\ Len(f) = Len(p) + 1
      /\ Len(Recent(f)) <= Len(p) + 1 /\ Len(p) \in Nat /\ Len(Recent(f)) \in Nat
  <2>1. f \in Seq(0 .. AttemptWindow + 1) /\ InOrder(f) /\ Len(f) = Len(p) + 1 /\ Len(Recent(f)) <= Len(p) + 1
    BY <1>3, OneMoreFailure
  <2> QED
    BY <1>3, <2>1, RecentIs
<1>5. \A d \in Clients : d # c => attempts'[d] = PrunedAttempts[d] /\ lockouts'[d] = lockouts[d]
  BY <1>1, PrunedAre DEF AttemptsInv
<1>6. attempts'[c] = f /\ lockouts'[c] = IF Len(f) >= MaxAttempts THEN Lockout ELSE lockouts[c]
  BY <1>0, <1>1, PrunedAre DEF AttemptsInv
<1>7. /\ attempts' \in [Clients -> Seq(0 .. AttemptWindow + 1)]
      /\ lockouts' \in [Clients -> 0 .. Lockout]
  <2> HIDE DEF f
  <2>1. Lockout \in 0 .. Lockout
    BY SessionConstantsOK
  <2> QED
    BY <1>1, <1>4, <2>1, PrunedAre DEF AttemptsInv
<1>8. Outlasted(f, lockouts'[c])
  <2> SUFFICES ASSUME Len(Recent(f)) >= MaxAttempts, NEW i \in DOMAIN f
               PROVE  lockouts'[c] > AttemptWindow - f[i]
    BY DEF Outlasted
  <2>1. f[i] \in Nat /\ AttemptWindow \in Nat /\ Lockout \in Nat /\ AttemptWindow < Lockout
    <3>1. f[i] \in 0 .. AttemptWindow + 1
      BY <1>4, Entries
    <3> QED
      BY <3>1, SessionConstantsOK
  <2>2. Len(f) >= MaxAttempts
    BY <1>4, SessionConstantsOK
  <2>3. lockouts'[c] = Lockout
    BY <1>6, <2>2
  <2> HIDE DEF f
  <2> QED
    BY <2>1, <2>3
<1>9. Fits(f, Checked(c)')
  <2>1. /\ Cardinality(Checked(c) \ {h}) = Cardinality(Checked(c)) - 1
        /\ Cardinality(Checked(c)) \in Nat /\ Cardinality(Checked(c) \ {h}) \in Nat
    <3>1. IsFiniteSet(Checked(c))
      BY <1>0, <1>2, CheckedIsCounted
    <3> QED
      BY <1>2, <3>1, FS_RemoveElement, FS_Subset, FS_CardinalityType
  <2>2. Cardinality(Checked(c)') <= Cardinality(Checked(c) \ {h}) /\ Cardinality(Checked(c)') \in Nat
    <3>1. Checked(c)' \subseteq Handlers /\ Checked(c) \ {h} \subseteq Handlers
      BY <1>0, <1>2
    <3> QED
      BY <1>2, <3>1, CheckedIsCounted, FS_Subset
  <2>3. Cardinality(Handlers) \in Nat /\ MaxAttempts \in Nat
    BY CheckedIsCounted, SessionConstantsOK
  <2>4. Len(p) + Cardinality(Checked(c)) < MaxAttempts + Cardinality(Handlers)
    BY <1>3, Zenon DEF Fits
  <2> HIDE DEF p, f
  <2> QED
    BY <1>4, <2>1, <2>2, <2>3, <2>4 DEF Fits
<1>10. ASSUME NEW d \in Clients, d # c
       PROVE  /\ InOrder(attempts'[d]) /\ Outlasted(attempts'[d], lockouts'[d])
              /\ Fits(attempts'[d], Checked(d)')
  BY <1>2, <1>5, <1>10, PrunedStillFits
<1>11. \A g \in Handlers : handlers'[g].at = "checked" => handlers'[g].client \in Clients
  BY <1>2 DEF AttemptsInv
<1>12. \A d \in Clients : /\ InOrder(attempts'[d]) /\ Outlasted(attempts'[d], lockouts'[d])
                          /\ Fits(attempts'[d], Checked(d)')
  BY <1>4, <1>6, <1>8, <1>9, <1>10
<1> QED
  BY <1>7, <1>11, <1>12 DEF AttemptsInv

LEMMA LoginSucceedsFailures ==
  ASSUME RequestsInv, AttemptsInv, NEW h \in Handlers, NEW u \in Users, LoginSucceeds(h, u),
         NEW c \in Clients, handlers[h].client = c
  PROVE  AttemptsInv'
<1> DEFINE r == [handlers[h] EXCEPT !.user = u,
                   !.at = IF handlers[h].token = None THEN "create" ELSE "revoke"]
<1>1. /\ attempts' = [PrunedAttempts EXCEPT ![c] = <<>>]
      /\ lockouts' = [lockouts EXCEPT ![c] = 0]
      /\ Goto(h, r) /\ handlers[h].at = "checked"
  BY DEF LoginSucceeds
<1>2. /\ \A g \in Handlers : handlers'[g].at = "checked" => handlers'[g] = handlers[g]
      /\ \A d \in Clients : Checked(d)' \subseteq Checked(d) /\ Checked(d) \subseteq Handlers
  <2>1. r.at # "checked"
    BY DEF RequestsInv, Request
  <2> HIDE DEF r
  <2> QED
    BY <1>1, <2>1, CheckIsOver
<1>3. <<>> \in Seq(0 .. AttemptWindow + 1) /\ InOrder(<<>>) /\ Outlasted(<<>>, 0) /\ 0 \in 0 .. Lockout
  <2>1. <<>> \in Seq(0 .. AttemptWindow + 1) /\ DOMAIN <<>> = {} /\ 0 \in 0 .. Lockout
    BY SessionConstantsOK
  <2> QED
    BY <2>1 DEF InOrder, Outlasted
<1>4. Fits(<<>>, Checked(c)')
  BY <1>2, <1>3, UnlockedFits
<1>5. attempts'[c] = <<>> /\ lockouts'[c] = 0
  BY <1>1, PrunedAre DEF AttemptsInv
<1>6. \A d \in Clients : d # c => attempts'[d] = PrunedAttempts[d] /\ lockouts'[d] = lockouts[d]
  BY <1>1, PrunedAre DEF AttemptsInv
<1>7. /\ attempts' \in [Clients -> Seq(0 .. AttemptWindow + 1)]
      /\ lockouts' \in [Clients -> 0 .. Lockout]
  BY <1>1, <1>3, PrunedAre DEF AttemptsInv
<1>8. ASSUME NEW d \in Clients, d # c
      PROVE  /\ InOrder(attempts'[d]) /\ Outlasted(attempts'[d], lockouts'[d])
             /\ Fits(attempts'[d], Checked(d)')
  BY <1>2, <1>6, <1>8, PrunedStillFits
<1>9. \A d \in Clients : /\ InOrder(attempts'[d]) /\ Outlasted(attempts'[d], lockouts'[d])
                         /\ Fits(attempts'[d], Checked(d)')
  BY <1>3, <1>4, <1>5, <1>8
<1>10. \A g \in Handlers : handlers'[g].at = "checked" => handlers'[g].client \in Clients
  BY <1>2 DEF AttemptsInv
<1> QED
  BY <1>7, <1>9, <1>10 DEF AttemptsInv

LEMMA TickFailures == AttemptsInv /\ Tick => AttemptsInv'
<1> SUFFICES ASSUME AttemptsInv, Tick PROVE AttemptsInv'
  OBVIOUS
<1>1. /\ \A c \in Clients : /\ attempts'[c] = [i \in DOMAIN attempts[c] |-> More(attempts[c][i], AttemptWindow + 1)]
                            /\ lockouts'[c] = Less(lockouts[c], 0)
      /\ attempts' = [c \in Clients |-> attempts'[c]] /\ lockouts' = [c \in Clients |-> lockouts'[c]]
      /\ handlers' = handlers
  BY DEF Tick
<1>2. ASSUME NEW c \in Clients
      PROVE  /\ attempts'[c] \in Seq(0 .. AttemptWindow + 1) /\ lockouts'[c] \in 0 .. Lockout
             /\ InOrder(attempts'[c]) /\ Outlasted(attempts'[c], lockouts'[c])
             /\ Fits(attempts'[c], Checked(c)')
  <2>1. /\ attempts[c] \in Seq(0 .. AttemptWindow + 1) /\ InOrder(attempts[c])
        /\ lockouts[c] \in 0 .. Lockout /\ Lockout \in Nat
        /\ Outlasted(attempts[c], lockouts[c]) /\ Fits(attempts[c], Checked(c))
    BY SessionConstantsOK DEF AttemptsInv
  <2>2. /\ attempts'[c] \in Seq(0 .. AttemptWindow + 1) /\ InOrder(attempts'[c])
        /\ Outlasted(attempts'[c], Less(lockouts[c], 0))
        /\ Len(Recent(attempts'[c])) <= Len(Recent(attempts[c]))
    BY <1>1, <2>1, LaterFailures
  <2>3. Less(lockouts[c], 0) \in 0 .. Lockout
    BY <2>1 DEF Less
  <2>4. Checked(c)' \subseteq Checked(c) /\ Checked(c) \subseteq Handlers
    BY <1>1 DEF Checked
  <2> QED
    BY <1>1, <2>1, <2>2, <2>3, <2>4, StillFits
<1>3. \A h \in Handlers : handlers'[h].at = "checked" => handlers'[h].client \in Clients
  BY <1>1 DEF AttemptsInv
<1>4. /\ attempts' \in [Clients -> Seq(0 .. AttemptWindow + 1)]
      /\ lockouts' \in [Clients -> 0 .. Lockout]
  BY <1>1, <1>2
<1> QED
  BY <1>2, <1>3, <1>4 DEF AttemptsInv

LEMMA AttemptsStep == RequestsInv /\ AttemptsInv /\ [Next]_vars => AttemptsInv'
<1> SUFFICES ASSUME RequestsInv, AttemptsInv, [Next]_vars PROVE AttemptsInv'
  OBVIOUS
<1>1. CASE UNCHANGED <<attempts, lockouts, handlers>>
  BY <1>1, SameFailures
<1>2. ASSUME NEW h \in Handlers, NEW r, Goto(h, r), r.at # "checked", UNCHANGED <<attempts, lockouts>>
      PROVE  AttemptsInv'
  <2>1. \A g \in Handlers : handlers'[g] = IF g = h THEN r ELSE handlers[g]
    BY <1>2 DEF Goto, RequestsInv
  <2> QED
    BY <1>2, <2>1, SameFailures
<1>3. ASSUME NEW h \in Handlers, NEW c \in Clients, BeginLogin(h, c) PROVE AttemptsInv'
  BY <1>3, BeginLoginFailures
<1>4. ASSUME NEW h \in Handlers, NEW c \in Clients, BeginLogout(h, c) PROVE AttemptsInv'
  <2> DEFINE r == [Idle EXCEPT !.at = "logout", !.client = c, !.token = cookie[c]]
  <2>1. r.at # "checked"
    BY DEF Idle
  <2>2. UNCHANGED <<attempts, lockouts>> /\ (Goto(h, r) \/ UNCHANGED handlers)
    BY <1>4 DEF BeginLogout
  <2> QED
    BY <1>1, <1>2, <2>1, <2>2
<1>5. ASSUME NEW h \in Handlers, NEW c \in Clients, BeginTicket(h, c) PROVE AttemptsInv'
  <2>1. [Idle EXCEPT !.at = "ticket"].at # "checked"
    BY DEF Idle
  <2>2. UNCHANGED <<attempts, lockouts>> /\ (Goto(h, [Idle EXCEPT !.at = "ticket"]) \/ UNCHANGED handlers)
    BY <1>5 DEF BeginTicket
  <2> QED
    BY <1>1, <1>2, <2>1, <2>2
<1>6. ASSUME NEW h \in Handlers, Continue(h) PROVE AttemptsInv'
  <2>0. handlers[h] \in Request /\ Idle.at # "checked"
    BY DEF RequestsInv, Idle
  <2>1. CASE LoginFails(h)
    BY <2>1, LoginFailsFailures DEF LoginFails, AttemptsInv
  <2>2. ASSUME NEW u \in Users, LoginSucceeds(h, u) PROVE AttemptsInv'
    BY <2>2, LoginSucceedsFailures DEF LoginSucceeds, AttemptsInv
  <2>3. CASE RevokePrevious(h)
    <3>1. [handlers[h] EXCEPT !.at = "create", !.token = None].at # "checked"
      BY <2>0 DEF Request
    <3> QED
      BY <1>2, <2>3, <3>1 DEF RevokePrevious
  <2>4. ASSUME NEW t \in Tokens, CreateSession(h, t) PROVE AttemptsInv'
    <3>1. [handlers[h] EXCEPT !.at = "answer", !.token = t].at # "checked"
      BY <2>0 DEF Request
    <3> QED
      BY <1>2, <2>4, <3>1 DEF CreateSession
  <2>5. CASE Logout(h) \/ \E arrives \in BOOLEAN : AnswerLogin(h, arrives)
    BY <1>2, <2>0, <2>5 DEF Logout, AnswerLogin
  <2>6. CASE \E k \in Tickets : CreateTicket(h, k)
    BY <1>2, <2>0, <2>6 DEF CreateTicket
  <2> QED
    BY <1>6, <2>1, <2>2, <2>3, <2>4, <2>5, <2>6 DEF Continue
<1>7. CASE Tick
  BY <1>7, TickFailures
<1>8. CASE \/ \E old, new \in Tokens : RotateSession(old, new)
           \/ \E u \in Users : RevokeAll(u)
           \/ \E k \in Tickets : ConsumeTicket(k) \/ ForgetTicket(k)
           \/ UNCHANGED vars
  BY <1>1, <1>8 DEF RotateSession, RevokeAll, ConsumeTicket, ForgetTicket, vars
<1> QED
  BY <1>3, <1>4, <1>5, <1>6, <1>7, <1>8 DEF Next

LEMMA InitAttempts == Init => AttemptsInv
<1> SUFFICES ASSUME Init PROVE AttemptsInv
  OBVIOUS
<1>1. <<>> \in Seq(0 .. AttemptWindow + 1) /\ InOrder(<<>>) /\ Outlasted(<<>>, 0) /\ 0 \in 0 .. Lockout
  <2>1. <<>> \in Seq(0 .. AttemptWindow + 1) /\ DOMAIN <<>> = {} /\ 0 \in 0 .. Lockout
    BY SessionConstantsOK
  <2> QED
    BY <2>1 DEF InOrder, Outlasted
<1>2. \A h \in Handlers : handlers[h].at # "checked"
  BY DEF Init, Idle
<1>3. \A c \in Clients : Fits(<<>>, Checked(c))
  <2> TAKE c \in Clients
  <2>1. Checked(c) \subseteq Handlers
    BY DEF Checked
  <2> QED
    BY <1>1, <2>1, UnlockedFits
<1>4. \A c \in Clients : attempts[c] = <<>> /\ lockouts[c] = 0
  BY DEF Init
<1>5. /\ attempts \in [Clients -> Seq(0 .. AttemptWindow + 1)]
      /\ lockouts \in [Clients -> 0 .. Lockout]
  BY <1>1 DEF Init
<1> QED
  BY <1>1, <1>2, <1>3, <1>4, <1>5 DEF AttemptsInv

-----------------------------------------------------------------------------
(* The theorems. *)

LEMMA StoreStep == StoreInv /\ AttemptsInv /\ [Next]_vars => StoreInv' /\ AttemptsInv'
BY RequestsStep, SessionsStep, TicketsStep, AttemptsStep DEF StoreInv

THEOREM StoreInvariant == Spec => [](StoreInv /\ AttemptsInv)
<1>1. Init => StoreInv /\ AttemptsInv
  BY InitStore, InitAttempts
<1>2. StoreInv /\ AttemptsInv /\ [Next]_vars => StoreInv' /\ AttemptsInv'
  BY StoreStep
<1> QED
  BY <1>1, <1>2, PTL DEF Spec

\* Sessions, tickets, lists of failures, lockouts and requests keep their shapes, and none outlives
\* the time it is given.
THEOREM SessionTypes == Spec => []SessionTypeOK
<1>1. StoreInv /\ AttemptsInv => SessionTypeOK
  BY DEF StoreInv, RequestsInv, SessionsInv, TicketsInv, AttemptsInv, SessionTypeOK
<1> QED
  BY <1>1, StoreInvariant, PTL

\* However the checks for a lockout and the records of failures of any number of requests and
\* addresses interleave, the failures that count exceed the limit by the requests under way at most.
THEOREM FailuresBounded == Spec => []FailuresAreBounded
<1>1. AttemptsInv => FailuresAreBounded
  <2> SUFFICES ASSUME AttemptsInv, NEW c \in Clients
               PROVE  Len(Recent(attempts[c])) < MaxAttempts + Cardinality(Handlers)
    BY DEF FailuresAreBounded
  <2>1. /\ Fits(attempts[c], Checked(c)) /\ attempts[c] \in Seq(0 .. AttemptWindow + 1)
        /\ Checked(c) \subseteq Handlers
    BY DEF AttemptsInv, Checked
  <2>2. Cardinality(Checked(c)) \in Nat /\ Cardinality(Handlers) \in Nat /\ MaxAttempts \in Nat
    BY <2>1, CheckedIsCounted, SessionConstantsOK
  <2>3. Len(Recent(attempts[c])) \in Nat
    BY <2>1, RecentIs
  <2> QED
    BY <2>1, <2>2, <2>3 DEF Fits
<1> QED
  BY <1>1, StoreInvariant, PTL

\* MAX_SESSIONS and MAX_WS_TICKETS hold, whatever logins, rotations and requests for tickets
\* run between one another.
THEOREM LimitsHold == Spec => []StoreIsBounded
<1>1. StoreInv => StoreIsBounded
  BY DEF StoreInv, SessionsInv, TicketsInv, StoreIsBounded
<1> QED
  BY <1>1, StoreInvariant, PTL

\* However often and by whomever its token is rotated, a login has at most one session.
THEOREM LoginsHaveOneSession == Spec => []OneSessionPerLogin
<1>1. StoreInv => OneSessionPerLogin
  BY DEF StoreInv, SessionsInv
<1> QED
  BY <1>1, StoreInvariant, PTL

\* A ticket opens at most one connection, however often it is presented.
THEOREM TicketsAreSingleUse == Spec => []TicketsAdmitOnce
<1>1. StoreInv => TicketsAdmitOnce
  BY DEF StoreInv, TicketsInv, TicketsAdmitOnce
<1> QED
  BY <1>1, StoreInvariant, PTL

\* A login ends another session only when the live ones alone fill the store, and then the
\* oldest of them.
THEOREM EvictionsAreFair == Spec => EvictionIsFair
<1>1. StoreInv /\ [Next]_vars => [FairEviction]_vars
  BY EvictionStep DEF StoreInv
<1>2. [][FairEviction]_vars <=> EvictionIsFair
  BY PTL DEF FairEviction, EvictionIsFair
<1> QED
  BY <1>1, <1>2, StoreInvariant, PTL DEF Spec

=============================================================================

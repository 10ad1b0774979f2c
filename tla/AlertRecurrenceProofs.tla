------------------------- MODULE AlertRecurrenceProofs -------------------------
(***************************************************************************)
(* Proofs about AlertRecurrence for any number of uploads, audits, alerts  *)
(* and events, every window and every batch.                               *)
(***************************************************************************)
EXTENDS AlertRecurrence, FiniteSetTheorems, SequenceTheorems, TLAPS

-----------------------------------------------------------------------------
(* The inductive invariant. *)

\* A row has seen some events, at these times.
Encloses(row, seen) == \A e \in seen : row.first <= TimeOf[e] /\ TimeOf[e] <= row.last

\* A row counts each event at most once, and all of them if nothing was overwritten.
Accounts(row, seen, over) ==
  /\ row.count <= Cardinality(seen)
  /\ ~over => row.count = Cardinality(seen) /\ Encloses(row, seen)

\* The committed rows are the draft until somebody writes, and a draft keeps them and their status.
Locking ==
  /\ writer = None => draft = db
  /\ writer # None => sess[writer].at # "idle"
  /\ \A a \in Alerts : db[a] # None => draft[a] # None /\ draft[a].open = db[a].open
  /\ \A s \in Sessions : sess[s].at = "idle" => sess[s] = Closed

\* An event is in one place: still to be ingested, put on alerts by one session, or committed.
Carried(me, a) == ToSet(me.todo) \cup me.mine[a]
EventsApart ==
  /\ \A s \in Sessions : IsInjective(sess[s].todo)
  /\ \A s \in Sessions, a \in Alerts :
       /\ Carried(sess[s], a) \subseteq used
       /\ Carried(sess[s], a) \cap share[a] = {}
       /\ ToSet(sess[s].todo) \cap sess[s].mine[a] = {}
  /\ \A s, t \in Sessions, a \in Alerts :
       s # t => Carried(sess[s], a) \cap Carried(sess[t], a) = {}
  /\ \A a \in Alerts : share[a] \subseteq used

\* An alert that no session and no row has yet.
Unknown(a) ==
  /\ db[a] = None /\ draft[a] = None
  /\ \A s \in Sessions : sess[s].object[a] = None /\ a \notin sess[s].closed /\ sess[s].mine[a] = {}

\* A session made the alert and has not committed it.
Made(s, a) == a \in sess[s].chunk \/ (writer = s /\ db[a] = None /\ draft[a] # None)

AlertsApart ==
  /\ \A a \in Alerts \ used : Unknown(a)
  /\ \A a \in Alerts : db[a] = None => share[a] = {}
  /\ \A s \in Sessions : \A a \in sess[s].chunk : db[a] = None /\ draft[a] = None
  /\ \A s, t \in Sessions, a \in Alerts :
       Made(s, a) => a \notin sess[t].closed /\ (s # t => sess[t].object[a] = None)

\* What a session has of an alert: new ones have no base.
ObjectsOf(me, a) ==
  /\ me.base[a] # None => me.object[a] # None
  /\ a \in me.chunk <=> me.object[a] # None /\ me.base[a] = None
  /\ me.object[a] # None => me.mine[a] # {}

\* Before its first flush: its events, on top of what it read.
Reads(me, a, row, seen) ==
  /\ me.mine[a] # {} => me.object[a] # None
  /\ me.object[a] # None => Encloses(me.object[a], me.mine[a])
  /\ me.object[a] # None /\ me.base[a] = None => me.object[a].count = Cardinality(me.mine[a])
  /\ me.base[a] # None =>
       /\ me.object[a].count = me.base[a].count + Cardinality(me.mine[a])
       /\ me.object[a].first <= me.base[a].first /\ me.base[a].last <= me.object[a].last
       /\ row # None => me.base[a].count <= Cardinality(seen)

\* From then on: nobody else changes the row.
Writes(me, a, row, seen, over) ==
  /\ me.mine[a] # {} /\ me.object[a] = None => row # None
  /\ me.base[a] # None =>
       /\ row # None /\ row.count = me.base[a].count
       /\ ~over => row.first = me.base[a].first /\ row.last = me.base[a].last
  /\ me.object[a] # None => Accounts(me.object[a], seen \cup me.mine[a], over)
  /\ me.object[a] = None /\ row # None => Accounts(row, seen \cup me.mine[a], over)

SessionsFollow ==
  \A s \in Sessions, a \in Alerts :
    /\ ObjectsOf(sess[s], a)
    /\ IF writer = s THEN Writes(sess[s], a, draft[a], share[a], overwrote)
       ELSE Reads(sess[s], a, db[a], share[a])

\* What is committed.
RowsAccount == \A a \in Rows : Accounts(db[a], share[a], overwrote)

\* A closed alert stays closed until it is reopened.
ClosedAreLeft ==
  \A s \in Sessions : \A a \in sess[s].closed :
    /\ sess[s].mine[a] = {}
    /\ db[a] # None => ~db[a].open
    /\ draft[a] # None => ~draft[a].open

IInv ==
  /\ RecurrenceTypeOK /\ Locking /\ EventsApart /\ AlertsApart /\ SessionsFollow /\ RowsAccount
  /\ ClosedAreLeft

-----------------------------------------------------------------------------
(* Rows and sequences. *)

LEMMA RowFields ==
  ASSUME NEW row \in Row
  PROVE  /\ row # None /\ row.key \in Keys /\ row.open \in BOOLEAN
         /\ row.count \in Nat \ {0} /\ row.first \in Nat /\ row.last \in Nat
BY NoneIsNoRow DEF Row

LEMMA TimesAre == \A e \in Events : TimeOf[e] \in Nat
BY RecurrenceConstantsOK

LEMMA NewRowIs ==
  ASSUME NEW e \in Events
  PROVE  /\ NewRow(e) \in Row /\ NewRow(e).open /\ NewRow(e).count = 1
         /\ NewRow(e).first = TimeOf[e] /\ NewRow(e).last = TimeOf[e]
<1>1. TimeOf[e] \in Nat /\ KeyOf[e] \in Keys
  BY TimesAre DEF Keys
<1> QED
  BY <1>1 DEF NewRow, Row

\* A recurrence counts one more and widens the row.
LEMMA RecurredIs ==
  ASSUME NEW row \in Row, NEW e \in Events
  PROVE  LET new == Recurred(row, e) IN
         /\ new \in Row /\ new.open = row.open /\ new.count = row.count + 1
         /\ new.first <= row.first /\ row.last <= new.last
         /\ new.first <= TimeOf[e] /\ TimeOf[e] <= new.last
<1> DEFINE f == IF TimeOf[e] < row.first THEN TimeOf[e] ELSE row.first
           l == IF TimeOf[e] > row.last THEN TimeOf[e] ELSE row.last
<1>1. /\ TimeOf[e] \in Nat /\ row.count \in Nat \ {0} /\ row.first \in Nat /\ row.last \in Nat
  BY TimesAre DEF Row
<1>2. Recurred(row, e) = [[[row EXCEPT !.count = row.count + 1] EXCEPT !.first = f] EXCEPT !.last = l]
  BY DEF Recurred, Row
<1>3. /\ f \in Nat /\ l \in Nat /\ row.count + 1 \in Nat \ {0}
      /\ f <= row.first /\ row.last <= l /\ f <= TimeOf[e] /\ TimeOf[e] <= l
  BY <1>1
<1> HIDE DEF f, l
<1> DEFINE new == [[[row EXCEPT !.count = row.count + 1] EXCEPT !.first = f] EXCEPT !.last = l]
<1>4. new \in Row /\ new.open = row.open /\ new.count = row.count + 1 /\ new.first = f /\ new.last = l
  BY <1>3 DEF Row
<1> QED
  BY <1>2, <1>3, <1>4

\* The events that remain when the first is taken.
LEMMA HeadAndTail ==
  ASSUME NEW todo \in Seq(Events), todo # <<>>, IsInjective(todo)
  PROVE  /\ Head(todo) \in Events /\ Tail(todo) \in Seq(Events) /\ IsInjective(Tail(todo))
         /\ ToSet(todo) = ToSet(Tail(todo)) \cup {Head(todo)}
         /\ Head(todo) \notin ToSet(Tail(todo))
<1> DEFINE t == Tail(todo)
           n == Len(todo)
<1>1. /\ n \in Nat \ {0} /\ DOMAIN todo = 1 .. n /\ Head(todo) = todo[1]
      /\ t \in Seq(Events) /\ Len(t) = n - 1 /\ DOMAIN t = 1 .. (n - 1)
      /\ \A i \in 1 .. (n - 1) : t[i] = todo[i + 1]
  BY HeadTailProperties
<1>2. Head(todo) \in Events
  BY <1>1
<1> HIDE DEF t, n
<1>3. IsInjective(t)
  <2> SUFFICES ASSUME NEW i \in DOMAIN t, NEW j \in DOMAIN t, t[i] = t[j] PROVE i = j
    BY DEF IsInjective
  <2>1. i \in 1 .. (n - 1) /\ j \in 1 .. (n - 1) /\ i + 1 \in DOMAIN todo /\ j + 1 \in DOMAIN todo
    BY <1>1
  <2>2. todo[i + 1] = todo[j + 1]
    BY <1>1, <2>1
  <2>3. i + 1 = j + 1
    BY <2>1, <2>2 DEF IsInjective
  <2> QED
    BY <2>1, <2>3
<1>4. ToSet(todo) = ToSet(t) \cup {todo[1]}
  <2>1. \A i \in 1 .. n : i = 1 \/ (i - 1 \in 1 .. (n - 1) /\ todo[i] = t[i - 1])
    BY <1>1
  <2>2. \A i \in 1 .. (n - 1) : i + 1 \in 1 .. n
    BY <1>1
  <2>3. 1 \in 1 .. n
    BY <1>1
  <2>4. ToSet(todo) \subseteq ToSet(t) \cup {todo[1]}
    BY <1>1, <2>1, SMTT(40) DEF ToSet
  <2>5. ToSet(t) \cup {todo[1]} \subseteq ToSet(todo)
    BY <1>1, <2>2, <2>3 DEF ToSet
  <2> QED
    BY <2>4, <2>5
<1>5. todo[1] \notin ToSet(t)
  <2> SUFFICES ASSUME NEW i \in DOMAIN t, t[i] = todo[1] PROVE FALSE
    BY DEF ToSet
  <2>1. i \in 1 .. (n - 1) /\ i + 1 \in DOMAIN todo /\ 1 \in DOMAIN todo /\ todo[i + 1] = todo[1]
    BY <1>1
  <2>2. i + 1 = 1
    BY <2>1 DEF IsInjective
  <2> QED
    BY <2>1, <2>2
<1> QED
  BY <1>1, <1>2, <1>3, <1>4, <1>5 DEF t

LEMMA InputsAre ==
  ASSUME NEW todo \in Inputs
  PROVE  todo \in Seq(Events) /\ IsInjective(todo)
<1>1. PICK n \in 1 .. MaxEvents : todo \in [1 .. n -> Events]
  BY DEF Inputs
<1>2. n \in Nat
  BY <1>1, RecurrenceConstantsOK
<1> QED
  BY <1>1, <1>2 DEF Inputs

LEMMA ToSetType ==
  ASSUME NEW S, NEW s \in Seq(S)
  PROVE  ToSet(s) \subseteq S
BY DEF ToSet

-----------------------------------------------------------------------------
(* How many events. *)

LEMMA EventsAreFinite ==
  ASSUME NEW E, E \subseteq Events
  PROVE  IsFiniteSet(E) /\ Cardinality(E) \in Nat
BY RecurrenceConstantsOK, FS_Subset, FS_CardinalityType

LEMMA OneMoreEvent ==
  ASSUME NEW E, E \subseteq Events, NEW e \in Events, e \notin E
  PROVE  Cardinality(E \cup {e}) = Cardinality(E) + 1
BY EventsAreFinite, FS_AddElement

LEMMA MoreEvents ==
  ASSUME NEW E, NEW F, E \subseteq F, F \subseteq Events
  PROVE  Cardinality(E) <= Cardinality(F)
BY EventsAreFinite, FS_Subset

LEMMA EventsOfBoth ==
  ASSUME NEW E, NEW F, E \subseteq Events, F \subseteq Events, E \cap F = {}
  PROVE  Cardinality(E \cup F) = Cardinality(E) + Cardinality(F)
<1>1. IsFiniteSet(E) /\ IsFiniteSet(F) /\ Cardinality(E) \in Nat /\ Cardinality(F) \in Nat
  BY EventsAreFinite
<1>2. Cardinality(E \cup F) = Cardinality(E) + Cardinality(F) - Cardinality(E \cap F)
  BY <1>1, FS_Union
<1>3. Cardinality(E \cap F) = 0
  BY FS_EmptySet
<1> QED
  BY <1>1, <1>2, <1>3

-----------------------------------------------------------------------------
(* Types. *)

\* What the fields of a session are.
LEMMA SessionFields ==
  ASSUME NEW me \in Session
  PROVE  /\ me.at \in {"idle", "next", "flush"} /\ me.todo \in Seq(Events)
         /\ me.object \in Table /\ me.base \in Table /\ me.index \in Seq(Alerts)
         /\ me.chunk \subseteq Alerts /\ me.mine \in [Alerts -> SUBSET Events] /\ me.closed \subseteq Alerts
         /\ \A a \in Alerts : /\ me.object[a] \in Row \cup {None} /\ me.base[a] \in Row \cup {None}
                              /\ me.mine[a] \subseteq Events
BY DEF Session, Table

LEMMA ClosedIs ==
  /\ Closed \in Session /\ Closed.at = "idle" /\ Closed.todo = <<>> /\ Closed.chunk = {} /\ Closed.closed = {}
  /\ \A a \in Alerts : Closed.object[a] = None /\ Closed.base[a] = None /\ Closed.mine[a] = {}
<1>1. NoRows \in Table /\ [a \in Alerts |-> {}] \in [Alerts -> SUBSET Events]
  BY DEF NoRows, Table
<1>2. <<>> \in Seq(Events) /\ <<>> \in Seq(Alerts)
  OBVIOUS
<1> QED
  BY <1>1, <1>2 DEF Closed, Session, NoRows

\* One session goes on, the others stay as they are.
LEMMA OneSession ==
  ASSUME RecurrenceTypeOK, NEW s \in Sessions, NEW me \in Session, sess' = [sess EXCEPT ![s] = me]
  PROVE  /\ sess' \in [Sessions -> Session] /\ sess'[s] = me
         /\ \A t \in Sessions : t # s => sess'[t] = sess[t]
BY DEF RecurrenceTypeOK

LEMMA ViewType ==
  ASSUME RecurrenceTypeOK, NEW s \in Sessions
  PROVE  View(s) \in Table /\ \A a \in Alerts : View(s)[a] \in Row \cup {None}
<1>1. db \in Table /\ draft \in Table
  BY DEF RecurrenceTypeOK
<1>2. View(s) \in Table
  BY <1>1 DEF View
<1> QED
  BY <1>2 DEF Table

-----------------------------------------------------------------------------
(* What the steps do. *)

LEMMA BeginDoes ==
  ASSUME RecurrenceTypeOK, NEW s \in Sessions, NEW todo \in Inputs, Begin(s, todo)
  PROVE  /\ sess[s].at = "idle" /\ ToSet(todo) \cap used = {} /\ used' = used \cup ToSet(todo)
         /\ sess' \in [Sessions -> Session] /\ \A t \in Sessions : t # s => sess'[t] = sess[t]
         /\ sess'[s].at = "next" /\ sess'[s].todo = todo /\ sess'[s].chunk = {}
         /\ \A a \in Alerts : sess'[s].object[a] = None /\ sess'[s].base[a] = None /\ sess'[s].mine[a] = {}
         /\ sess'[s].closed = {a \in Alerts : db[a] # None /\ ~db[a].open}
         /\ UNCHANGED <<db, writer, draft, share, overwrote>>
<1> DEFINE shut == {a \in Alerts : db[a] # None /\ ~db[a].open}
           me == [[[Closed EXCEPT !.at = "next"] EXCEPT !.todo = todo] EXCEPT !.closed = shut]
<1>1. sess' = [sess EXCEPT ![s] = me]
  BY DEF Begin
<1>2. todo \in Seq(Events) /\ shut \subseteq Alerts
  BY InputsAre
<1>3. me \in Session /\ me.at = "next" /\ me.todo = todo /\ me.chunk = Closed.chunk /\ me.closed = shut
      /\ me.object = Closed.object /\ me.base = Closed.base /\ me.mine = Closed.mine
  <2> HIDE DEF shut
  <2> QED
    BY <1>2, ClosedIs DEF Session
<1>4. sess' \in [Sessions -> Session] /\ sess'[s] = me /\ \A t \in Sessions : t # s => sess'[t] = sess[t]
  <2> HIDE DEF me
  <2> QED
    BY <1>1, <1>3, OneSession
<1> QED
  BY <1>3, <1>4, ClosedIs DEF Begin

LEMMA RecurDoes ==
  ASSUME RecurrenceTypeOK, EventsApart, NEW s \in Sessions, NEW a \in Alerts, Recur(s, a),
         NEW me, me = sess[s], NEW e, e = Head(me.todo),
         NEW r, r = IF me.object[a] # None THEN me.object[a] ELSE View(s)[a]
  PROVE  /\ me \in Session /\ e \in Events /\ r \in Row /\ me.at = "next"
         /\ me.object[a] # None \/ View(s)[a].open
         /\ IsInjective(me.todo) /\ IsInjective(sess'[s].todo)
         /\ ToSet(me.todo) = ToSet(sess'[s].todo) \cup {e} /\ e \notin ToSet(sess'[s].todo)
         /\ sess' \in [Sessions -> Session] /\ \A t \in Sessions : t # s => sess'[t] = sess[t]
         /\ sess'[s].at # "idle" /\ sess'[s].chunk = me.chunk /\ sess'[s].closed = me.closed
         /\ \A b \in Alerts \ {a} : /\ sess'[s].object[b] = me.object[b] /\ sess'[s].base[b] = me.base[b]
                                    /\ sess'[s].mine[b] = me.mine[b]
         /\ sess'[s].object[a] = Recurred(r, e) /\ sess'[s].mine[a] = me.mine[a] \cup {e}
         /\ sess'[s].base[a] = IF me.object[a] # None THEN me.base[a] ELSE r
         /\ UNCHANGED <<db, writer, draft, share, used, overwrote>>
<1>1. me \in Session /\ me.todo \in Seq(Events) /\ me.todo # <<>> /\ IsInjective(me.todo) /\ me.at = "next"
  BY SessionFields DEF RecurrenceTypeOK, EventsApart, Recur
<1>2. /\ e \in Events /\ Tail(me.todo) \in Seq(Events) /\ IsInjective(Tail(me.todo))
      /\ ToSet(me.todo) = ToSet(Tail(me.todo)) \cup {e} /\ e \notin ToSet(Tail(me.todo))
  BY <1>1, HeadAndTail
<1>3. r \in Row /\ (me.object[a] # None \/ View(s)[a].open)
  <2>1. a \in IF Candidates(s, e) # {} THEN Candidates(s, e)
              ELSE MostRecent(View(s), Recurring(View(s), e))
    BY DEF Recur
  <2>2. CASE a \in Candidates(s, e)
    <3>1. me.object[a] # None
      BY <2>2 DEF Candidates, Adjacent
    <3> QED
      BY <1>1, <3>1, SessionFields
  <2>3. CASE a \in MostRecent(View(s), Recurring(View(s), e))
    <3>1. View(s)[a] # None /\ View(s)[a].open
      BY <2>3 DEF MostRecent, Recurring, Adjacent
    <3> QED
      BY <1>1, <3>1, ViewType, SessionFields
  <2> QED
    BY <2>1, <2>2, <2>3
<1> DEFINE at == AfterEvent(s, me.chunk)
           object == [me.object EXCEPT ![a] = Recurred(r, e)]
           base == [me.base EXCEPT ![a] = IF me.object[a] # None THEN me.base[a] ELSE r]
           index == IF s \in Audits \/ Candidates(s, e) # {} THEN me.index ELSE Append(me.index, a)
           mine == [me.mine EXCEPT ![a] = me.mine[a] \cup {e}]
           new == [me EXCEPT !.at = at, !.todo = Tail(me.todo), !.object = object, !.base = base,
                             !.index = index, !.mine = mine]
<1>4. /\ at \in {"next", "flush"} /\ object \in Table /\ base \in Table /\ index \in Seq(Alerts)
      /\ mine \in [Alerts -> SUBSET Events]
  <2>1. at \in {"next", "flush"}
    BY DEF AfterEvent
  <2>2. Recurred(r, e) \in Row
    BY <1>2, <1>3, RecurredIs
  <2>3. object \in Table
    BY <1>1, <2>2, SessionFields DEF Table
  <2>4. base \in Table
    BY <1>1, <1>3, SessionFields DEF Table
  <2>5. index \in Seq(Alerts)
    BY <1>1, SessionFields
  <2>6. mine \in [Alerts -> SUBSET Events]
    BY <1>1, <1>2, SessionFields
  <2> QED
    BY <2>1, <2>3, <2>4, <2>5, <2>6
<1>5. sess' = [sess EXCEPT ![s] = new]
  <2>1. sess' = [sess EXCEPT ![s] =
          [me EXCEPT !.at = AfterEvent(s, me.chunk), !.todo = Tail(@),
                     !.object[a] = Recurred(IF me.object[a] # None THEN @ ELSE View(s)[a], e),
                     !.base[a] = IF me.object[a] # None THEN @ ELSE View(s)[a],
                     !.index = IF s \in Audits \/ Candidates(s, e) # {} THEN @ ELSE Append(@, a),
                     !.mine[a] = @ \cup {e}]]
    BY DEF Recur
  <2> QED
    BY <2>1
<1>6. /\ new \in Session /\ new.at = at /\ new.todo = Tail(me.todo) /\ new.object = object /\ new.base = base
      /\ new.mine = mine /\ new.chunk = me.chunk /\ new.closed = me.closed
  <2> HIDE DEF at, object, base, index, mine
  <2> QED
    BY <1>1, <1>2, <1>4 DEF Session
<1>7. sess' \in [Sessions -> Session] /\ sess'[s] = new /\ \A t \in Sessions : t # s => sess'[t] = sess[t]
  <2> HIDE DEF new
  <2> QED
    BY <1>5, <1>6, OneSession
<1>8. /\ \A b \in Alerts \ {a} : object[b] = me.object[b] /\ base[b] = me.base[b] /\ mine[b] = me.mine[b]
      /\ object[a] = Recurred(r, e) /\ mine[a] = me.mine[a] \cup {e}
      /\ base[a] = IF me.object[a] # None THEN me.base[a] ELSE r
  BY <1>1, SessionFields DEF Table
<1>9. UNCHANGED <<db, writer, draft, share, used, overwrote>>
  BY DEF Recur
<1> HIDE DEF object, base, mine, new
<1> QED
  BY <1>1, <1>2, <1>3, <1>4, <1>6, <1>7, <1>8, <1>9

LEMMA InsertDoes ==
  ASSUME RecurrenceTypeOK, EventsApart, NEW s \in Sessions, NEW a \in Alerts, Insert(s, a),
         NEW me, me = sess[s], NEW e, e = Head(me.todo)
  PROVE  /\ me \in Session /\ e \in Events /\ me.at = "next" /\ a \notin used /\ used' = used \cup {a}
         /\ IsInjective(me.todo) /\ IsInjective(sess'[s].todo)
         /\ ToSet(me.todo) = ToSet(sess'[s].todo) \cup {e} /\ e \notin ToSet(sess'[s].todo)
         /\ sess' \in [Sessions -> Session] /\ \A t \in Sessions : t # s => sess'[t] = sess[t]
         /\ sess'[s].at # "idle" /\ sess'[s].chunk = me.chunk \cup {a} /\ sess'[s].closed = me.closed
         /\ \A b \in Alerts : sess'[s].base[b] = me.base[b]
         /\ \A b \in Alerts \ {a} : sess'[s].object[b] = me.object[b] /\ sess'[s].mine[b] = me.mine[b]
         /\ sess'[s].object[a] = NewRow(e) /\ sess'[s].mine[a] = {e}
         /\ UNCHANGED <<db, writer, draft, share, overwrote>>
<1>1. me \in Session /\ me.todo \in Seq(Events) /\ me.todo # <<>> /\ IsInjective(me.todo) /\ me.at = "next"
  BY SessionFields DEF RecurrenceTypeOK, EventsApart, Insert
<1>2. /\ e \in Events /\ Tail(me.todo) \in Seq(Events) /\ IsInjective(Tail(me.todo))
      /\ ToSet(me.todo) = ToSet(Tail(me.todo)) \cup {e} /\ e \notin ToSet(Tail(me.todo))
  BY <1>1, HeadAndTail
<1> DEFINE at == AfterEvent(s, me.chunk \cup {a})
           object == [me.object EXCEPT ![a] = NewRow(e)]
           index == IF s \in Audits THEN me.index ELSE Append(me.index, a)
           chunk == me.chunk \cup {a}
           mine == [me.mine EXCEPT ![a] = {e}]
           new == [me EXCEPT !.at = at, !.todo = Tail(me.todo), !.object = object, !.chunk = chunk,
                             !.index = index, !.mine = mine]
<1>3. /\ at \in {"next", "flush"} /\ object \in Table /\ index \in Seq(Alerts) /\ chunk \subseteq Alerts
      /\ mine \in [Alerts -> SUBSET Events]
  <2>1. at \in {"next", "flush"}
    BY DEF AfterEvent
  <2>2. NewRow(e) \in Row
    BY <1>2, NewRowIs
  <2>3. object \in Table
    BY <1>1, <2>2, SessionFields DEF Table
  <2>4. index \in Seq(Alerts) /\ chunk \subseteq Alerts
    BY <1>1, SessionFields
  <2>5. mine \in [Alerts -> SUBSET Events]
    BY <1>1, <1>2, SessionFields
  <2> QED
    BY <2>1, <2>3, <2>4, <2>5
<1>4. sess' = [sess EXCEPT ![s] = new]
  <2>1. sess' = [sess EXCEPT ![s] =
          [me EXCEPT !.at = AfterEvent(s, me.chunk \cup {a}), !.todo = Tail(@),
                     !.object[a] = NewRow(e), !.chunk = @ \cup {a},
                     !.index = IF s \in Audits THEN @ ELSE Append(@, a),
                     !.mine[a] = {e}]]
    BY DEF Insert
  <2> QED
    BY <2>1
<1>5. /\ new \in Session /\ new.at = at /\ new.todo = Tail(me.todo) /\ new.object = object /\ new.base = me.base
      /\ new.mine = mine /\ new.chunk = chunk /\ new.closed = me.closed
  <2> HIDE DEF at, object, index, chunk, mine
  <2> QED
    BY <1>1, <1>2, <1>3 DEF Session
<1>6. sess' \in [Sessions -> Session] /\ sess'[s] = new /\ \A t \in Sessions : t # s => sess'[t] = sess[t]
  <2> HIDE DEF new
  <2> QED
    BY <1>4, <1>5, OneSession
<1>7. /\ \A b \in Alerts \ {a} : object[b] = me.object[b] /\ mine[b] = me.mine[b]
      /\ object[a] = NewRow(e) /\ mine[a] = {e}
  BY <1>1, SessionFields DEF Table
<1>8. a \notin used /\ used' = used \cup {a} /\ UNCHANGED <<db, writer, draft, share, overwrote>>
  BY DEF Insert
<1> HIDE DEF object, mine, new
<1> QED
  BY <1>1, <1>2, <1>3, <1>5, <1>6, <1>7, <1>8


\* The row after an UPDATE, which writes the attributes in which the object differs from its base.
Rewritten(view, new, old) ==
  [view EXCEPT !.count = new.count,
               !.first = IF new.first # old.first THEN new.first ELSE @,
               !.last  = IF new.last # old.last THEN new.last ELSE @]

\* It counts and encloses what the object does, unless the session writes over another's.
LEMMA RewrittenIs ==
  ASSUME NEW view \in Row, NEW new \in Row, NEW old \in Row, NEW row, row = Rewritten(view, new, old)
  PROVE  /\ row \in Row /\ row.open = view.open /\ row.count = new.count
         /\ [view EXCEPT !.open = TRUE] = [old EXCEPT !.open = TRUE] =>
              /\ row.first = new.first /\ row.last = new.last
              /\ view.count = old.count /\ view.first = old.first /\ view.last = old.last
<1> DEFINE f == IF new.first # old.first THEN new.first ELSE view.first
           l == IF new.last # old.last THEN new.last ELSE view.last
<1>1. /\ new.count \in Nat \ {0} /\ f \in Nat /\ l \in Nat
  BY DEF Row
<1>2. row = [view EXCEPT !.count = new.count, !.first = f, !.last = l]
  BY DEF Rewritten
<1>3. row \in Row /\ row.open = view.open /\ row.count = new.count /\ row.first = f /\ row.last = l
  <2> HIDE DEF f, l
  <2> QED
    BY <1>1, <1>2 DEF Row
<1>4. ASSUME [view EXCEPT !.open = TRUE] = [old EXCEPT !.open = TRUE]
      PROVE  view.count = old.count /\ view.first = old.first /\ view.last = old.last
  <2>1. /\ [view EXCEPT !.open = TRUE].count = view.count /\ [old EXCEPT !.open = TRUE].count = old.count
        /\ [view EXCEPT !.open = TRUE].first = view.first /\ [old EXCEPT !.open = TRUE].first = old.first
        /\ [view EXCEPT !.open = TRUE].last = view.last /\ [old EXCEPT !.open = TRUE].last = old.last
    BY DEF Row
  <2> QED
    BY <1>4, <2>1
<1> QED
  BY <1>3, <1>4

\* What the row of an alert is after a flush of s, beside what the session saw.
Written(s, a, row, over) ==
  /\ row \in Row \cup {None}
  /\ sess[s].object[a] # None =>
       /\ row # None /\ row.count = sess[s].object[a].count
       /\ ~over => row.first = sess[s].object[a].first /\ row.last = sess[s].object[a].last
  /\ row # None => Accounts(row, share[a] \cup sess[s].mine[a], over)
  /\ sess[s].mine[a] # {} => row # None
  /\ View(s)[a] # None => row # None /\ row.open = View(s)[a].open
  /\ row # None /\ View(s)[a] = None => a \in sess[s].chunk

LEMMA FlushMakes ==
  ASSUME IInv, NEW s \in Sessions, CanFlush(s), writer \in {None, s}, NEW a \in Alerts,
         NEW over, over = (overwrote \/ Overwrites(s))
  PROVE  Written(s, a, Flushed(s)[a], over)
<1> SUFFICES ASSUME NEW me, me = sess[s], NEW row, row = Flushed(s)[a], NEW view, view = View(s)[a],
                    NEW new, new = me.object[a], NEW old, old = me.base[a]
             PROVE  /\ row \in Row \cup {None}
                    /\ new # None => /\ row # None /\ row.count = new.count
                                     /\ ~over => row.first = new.first /\ row.last = new.last
                    /\ row # None => Accounts(row, share[a] \cup me.mine[a], over)
                    /\ me.mine[a] # {} => row # None
                    /\ view # None => row # None /\ row.open = view.open
                    /\ row # None /\ view = None => a \in me.chunk
  BY DEF Written
<1>1. /\ me \in Session /\ new \in Row \cup {None} /\ old \in Row \cup {None} /\ view \in Row \cup {None}
      /\ me.mine[a] \subseteq Events /\ share[a] \subseteq Events /\ overwrote \in BOOLEAN /\ over \in BOOLEAN
  <2>1. me \in Session /\ share[a] \subseteq Events /\ overwrote \in BOOLEAN
    BY DEF IInv, RecurrenceTypeOK
  <2>2. over \in BOOLEAN
    BY <2>1 DEF Overwrites
  <2> QED
    BY <2>1, <2>2, SessionFields, ViewType DEF IInv
<1>2. /\ old # None => new # None
      /\ a \in me.chunk <=> new # None /\ old = None
      /\ new # None => me.mine[a] # {}
  BY DEF IInv, SessionsFollow, ObjectsOf
<1>3. a \in Dirty(s) <=> new # old
  BY DEF Dirty
<1>4. row = IF new = old THEN view
            ELSE IF old = None THEN new
            ELSE Rewritten(view, new, old)
  BY <1>3 DEF Flushed, Rewritten
<1>5. new # old /\ old # None => view # None
  BY <1>2, <1>3 DEF CanFlush
<1>6. ASSUME new # old, old # None, ~over
      PROVE  ~overwrote /\ [view EXCEPT !.open = TRUE] = [old EXCEPT !.open = TRUE]
  BY <1>2, <1>3, <1>6 DEF Overwrites
<1>7. me.chunk \subseteq Alerts /\ (a \in me.chunk => db[a] = None /\ view = None /\ share[a] = {})
  BY <1>1, SessionFields DEF IInv, AlertsApart, View
<1>8. view # None => Accounts(view, share[a] \cup (IF writer = s /\ new = None THEN me.mine[a] ELSE {}), overwrote)
                     \/ (writer = s /\ new # None)
  <2>1. CASE writer = s
    BY <2>1 DEF IInv, SessionsFollow, Writes, View
  <2>2. CASE writer # s
    BY <2>2 DEF IInv, RowsAccount, Rows, View
  <2> QED
    BY <2>1, <2>2
<1>9. overwrote => over
  OBVIOUS
<1>10. CASE writer = s
  <2>1. Writes(me, a, view, share[a], overwrote)
    BY <1>10 DEF IInv, SessionsFollow, View
  <2>2. CASE new = old
    <3>1. row = view
      BY <1>4, <2>2
    <3>2. CASE new = None
      BY <1>1, <1>2, <2>1, <2>2, <3>1, <3>2, <1>9 DEF Writes, Accounts, Encloses
    <3>3. CASE new # None
      <4>1. /\ view # None /\ view.count = new.count
            /\ ~overwrote => view.first = new.first /\ view.last = new.last
            /\ Accounts(new, share[a] \cup me.mine[a], overwrote)
        BY <2>1, <2>2, <3>3 DEF Writes
      <4>2. Accounts(view, share[a] \cup me.mine[a], over)
        BY <4>1, <1>9 DEF Accounts, Encloses
      <4> QED
        BY <1>1, <3>1, <3>3, <4>1, <4>2
    <3> QED
      BY <3>2, <3>3
  <2>3. CASE new # old /\ old = None
    <3>1. row = new /\ new # None /\ a \in me.chunk /\ view = None
      BY <1>2, <1>4, <1>7, <2>3
    <3>2. Accounts(new, share[a] \cup me.mine[a], over)
      BY <2>1, <3>1, <1>9 DEF Writes, Accounts, Encloses
    <3> QED
      BY <1>1, <3>1, <3>2
  <2>4. CASE new # old /\ old # None
    <3>1. view # None /\ new # None /\ view \in Row /\ new \in Row /\ old \in Row
      BY <1>1, <1>2, <1>5, <2>4
    <3>2. /\ row \in Row /\ row # None /\ row.open = view.open /\ row.count = new.count
          /\ ~over => row.first = new.first /\ row.last = new.last
      <4>1. row = Rewritten(view, new, old)
        BY <1>4, <2>4
      <4>2. /\ row \in Row /\ row.open = view.open /\ row.count = new.count
            /\ [view EXCEPT !.open = TRUE] = [old EXCEPT !.open = TRUE] =>
                 /\ row.first = new.first /\ row.last = new.last
                 /\ view.count = old.count /\ view.first = old.first /\ view.last = old.last
        BY <3>1, <4>1, RewrittenIs
      <4> QED
        BY <1>6, <2>4, <4>2, RowFields
    <3>3. Accounts(row, share[a] \cup me.mine[a], over)
      BY <2>1, <3>1, <3>2, <1>9 DEF Writes, Accounts, Encloses
    <3> QED
      BY <3>1, <3>2, <3>3
  <2> QED
    BY <2>2, <2>3, <2>4
<1>11. CASE writer # s
  <2>1. Reads(me, a, db[a], share[a]) /\ view = db[a]
    BY <1>11 DEF IInv, SessionsFollow, View
  <2>2. CASE new = old
    <3>1. new = None
      <4> SUFFICES ASSUME new # None PROVE FALSE
        OBVIOUS
      <4>1. new \in Row /\ new.count \in Nat /\ new.count = new.count + Cardinality(me.mine[a])
        BY <1>1, <2>1, <2>2, RowFields DEF Reads
      <4>2. Cardinality(me.mine[a]) = 0 /\ IsFiniteSet(me.mine[a])
        BY <1>1, <4>1, EventsAreFinite
      <4>3. me.mine[a] = {}
        BY <4>2, FS_EmptySet
      <4> QED
        BY <1>2, <4>3
    <3>2. row = view /\ me.mine[a] = {}
      BY <1>4, <2>1, <2>2, <3>1 DEF Reads
    <3>3. view # None => Accounts(view, share[a] \cup me.mine[a], over)
      BY <1>8, <1>11, <3>2, <1>9 DEF Accounts, Encloses
    <3> QED
      BY <1>1, <3>1, <3>2, <3>3
  <2>3. CASE new # old /\ old = None
    <3>1. row = new /\ new # None /\ a \in me.chunk /\ view = None /\ share[a] = {}
      BY <1>2, <1>4, <1>7, <2>3
    <3>2. new.count = Cardinality(me.mine[a]) /\ Encloses(new, me.mine[a])
      BY <2>1, <2>3, <3>1 DEF Reads
    <3>3. Accounts(new, share[a] \cup me.mine[a], over)
      <4>1. share[a] \cup me.mine[a] = me.mine[a]
        BY <3>1
      <4>2. Accounts(new, me.mine[a], over)
        BY <1>1, <3>2, EventsAreFinite DEF Accounts
      <4> QED
        BY <4>1, <4>2, Zenon
    <3> QED
      BY <1>1, <3>1, <3>3
  <2>4. CASE new # old /\ old # None
    <3>1. view # None /\ new # None /\ view \in Row /\ new \in Row /\ old \in Row
      BY <1>1, <1>2, <1>5, <2>4
    <3>2. /\ row \in Row /\ row # None /\ row.open = view.open /\ row.count = new.count
          /\ ~over => /\ row.first = new.first /\ row.last = new.last
                      /\ view.count = old.count /\ view.first = old.first /\ view.last = old.last
      <4>1. row = Rewritten(view, new, old)
        BY <1>4, <2>4
      <4>2. /\ row \in Row /\ row.open = view.open /\ row.count = new.count
            /\ [view EXCEPT !.open = TRUE] = [old EXCEPT !.open = TRUE] =>
                 /\ row.first = new.first /\ row.last = new.last
                 /\ view.count = old.count /\ view.first = old.first /\ view.last = old.last
        BY <3>1, <4>1, RewrittenIs
      <4> QED
        BY <1>6, <2>4, <4>2, RowFields
    <3>3. /\ new.count = old.count + Cardinality(me.mine[a]) /\ old.count <= Cardinality(share[a])
          /\ new.first <= old.first /\ old.last <= new.last /\ Encloses(new, me.mine[a])
      BY <2>1, <2>4, <3>1 DEF Reads
    <3>4. /\ Cardinality(share[a] \cup me.mine[a]) = Cardinality(share[a]) + Cardinality(me.mine[a])
          /\ Cardinality(share[a]) \in Nat /\ Cardinality(me.mine[a]) \in Nat
      <4>1. me.mine[a] \cap share[a] = {}
        BY DEF IInv, EventsApart, Carried
      <4> QED
        BY <1>1, <4>1, EventsOfBoth, EventsAreFinite
    <3>5. row.count <= Cardinality(share[a] \cup me.mine[a])
      BY <3>1, <3>2, <3>3, <3>4, RowFields
    <3>6. ASSUME ~over
          PROVE  row.count = Cardinality(share[a] \cup me.mine[a]) /\ Encloses(row, share[a] \cup me.mine[a])
      <4>1. view.count = Cardinality(share[a]) /\ Encloses(view, share[a])
        BY <1>6, <1>8, <1>11, <2>4, <3>1, <3>6 DEF Accounts
      <4>2. row.count = Cardinality(share[a] \cup me.mine[a])
        BY <3>2, <3>3, <3>4, <3>6, <4>1
      <4>3. Encloses(row, share[a] \cup me.mine[a])
        <5> SUFFICES ASSUME NEW e \in share[a] \cup me.mine[a]
                     PROVE  row.first <= TimeOf[e] /\ TimeOf[e] <= row.last
          BY DEF Encloses
        <5>1. /\ TimeOf[e] \in Nat /\ row.first = new.first /\ row.last = new.last
              /\ new.first \in Nat /\ new.last \in Nat /\ view.first \in Nat /\ view.last \in Nat
              /\ new.first <= view.first /\ view.last <= new.last
          BY <1>1, <3>1, <3>2, <3>3, <3>6, TimesAre, RowFields
        <5>2. CASE e \in share[a]
          BY <4>1, <5>1, <5>2 DEF Encloses
        <5>3. CASE e \in me.mine[a]
          BY <3>3, <5>1, <5>3 DEF Encloses
        <5> QED
          BY <5>2, <5>3
      <4> QED
        BY <4>2, <4>3
    <3>7. Accounts(row, share[a] \cup me.mine[a], over)
      BY <3>5, <3>6 DEF Accounts
    <3> QED
      BY <3>1, <3>2, <3>7
  <2> QED
    BY <2>2, <2>3, <2>4
<1> QED
  BY <1>10, <1>11

-----------------------------------------------------------------------------
(* The invariant is kept: what a session does in memory. *)

LEMMA BeginKeeps ==
  ASSUME IInv, NEW s \in Sessions, NEW todo \in Inputs, Begin(s, todo)
  PROVE  IInv'
<1>1. /\ sess[s].at = "idle" /\ ToSet(todo) \cap used = {} /\ used' = used \cup ToSet(todo)
      /\ sess' \in [Sessions -> Session] /\ \A t \in Sessions : t # s => sess'[t] = sess[t]
      /\ sess'[s].at = "next" /\ sess'[s].todo = todo /\ sess'[s].chunk = {}
      /\ \A a \in Alerts : sess'[s].object[a] = None /\ sess'[s].base[a] = None /\ sess'[s].mine[a] = {}
      /\ sess'[s].closed = {a \in Alerts : db[a] # None /\ ~db[a].open}
      /\ UNCHANGED <<db, writer, draft, share, overwrote>>
  BY BeginDoes DEF IInv
<1>2. todo \in Seq(Events) /\ IsInjective(todo) /\ ToSet(todo) \subseteq Events
  BY InputsAre, ToSetType
<1>3. writer # s /\ None \notin Sessions
  BY <1>1, RecurrenceConstantsOK DEF IInv, Locking
<1>4. RecurrenceTypeOK'
  BY <1>1, <1>2 DEF IInv, RecurrenceTypeOK
<1>5. Locking'
  BY <1>1, <1>3 DEF IInv, Locking, RecurrenceTypeOK
<1>6. EventsApart'
  <2>1. \A a \in Alerts : Carried(sess'[s], a) = ToSet(todo)
    BY <1>1 DEF Carried
  <2>2. \A t \in Sessions, a \in Alerts : t # s => Carried(sess'[t], a) = Carried(sess[t], a)
    BY <1>1
  <2>3. \A t \in Sessions, a \in Alerts : Carried(sess[t], a) \subseteq used /\ share[a] \subseteq used
    BY DEF IInv, EventsApart
  <2>4. /\ \A t \in Sessions : IsInjective(sess'[t].todo)
        /\ \A t \in Sessions, a \in Alerts : ToSet(sess'[t].todo) \cap sess'[t].mine[a] = {}
    BY <1>1, <1>2 DEF IInv, EventsApart
  <2>5. \A t \in Sessions, a \in Alerts :
          Carried(sess'[t], a) \subseteq used' /\ Carried(sess'[t], a) \cap share'[a] = {} /\ share'[a] \subseteq used'
    BY <1>1, <2>1, <2>2, <2>3 DEF IInv, EventsApart
  <2>6. \A t, u \in Sessions, a \in Alerts : t # u => Carried(sess'[t], a) \cap Carried(sess'[u], a) = {}
    BY <1>1, <2>1, <2>2, <2>3, SMTT(40) DEF IInv, EventsApart
  <2> QED
    BY <2>4, <2>5, <2>6 DEF EventsApart
<1>7. AlertsApart'
  <2>1. \A a \in Alerts \ used' : Unknown(a)'
    BY <1>1 DEF IInv, AlertsApart, Unknown
  <2>2. \A t \in Sessions, a \in Alerts : Made(t, a)' => Made(t, a) /\ t # s /\ db[a] = None
    BY <1>1, <1>3 DEF IInv, AlertsApart, Made
  <2>3. \A t, u \in Sessions, a \in Alerts :
          Made(t, a)' => a \notin sess'[u].closed /\ (t # u => sess'[u].object[a] = None)
    BY <1>1, <2>2 DEF IInv, AlertsApart
  <2> QED
    BY <1>1, <2>1, <2>3 DEF IInv, AlertsApart
<1>8. SessionsFollow'
  <2> SUFFICES ASSUME NEW t \in Sessions, NEW a \in Alerts
               PROVE  (/\ ObjectsOf(sess[t], a)
                       /\ IF writer = t THEN Writes(sess[t], a, draft[a], share[a], overwrote)
                          ELSE Reads(sess[t], a, db[a], share[a]))'
    BY DEF SessionsFollow
  <2>1. CASE t # s
    BY <1>1, <2>1 DEF IInv, SessionsFollow
  <2>2. CASE t = s
    BY <1>1, <1>3, <2>2 DEF ObjectsOf, Reads
  <2> QED
    BY <2>1, <2>2
<1>9. RowsAccount'
  BY <1>1 DEF IInv, RowsAccount, Rows
<1>10. ClosedAreLeft'
  <2> SUFFICES ASSUME NEW t \in Sessions, NEW a \in sess'[t].closed
               PROVE  (sess[t].mine[a] = {} /\ (db[a] # None => ~db[a].open) /\ (draft[a] # None => ~draft[a].open))'
    BY DEF ClosedAreLeft
  <2>1. CASE t # s
    BY <1>1, <2>1 DEF IInv, ClosedAreLeft
  <2>2. CASE t = s
    BY <1>1, <2>2 DEF IInv, Locking
  <2> QED
    BY <2>1, <2>2
<1> QED
  BY <1>4, <1>5, <1>6, <1>7, <1>8, <1>9, <1>10 DEF IInv

LEMMA RecurKeeps ==
  ASSUME IInv, NEW s \in Sessions, NEW a \in Alerts, Recur(s, a)
  PROVE  IInv'
<1> SUFFICES ASSUME NEW me, me = sess[s], NEW e, e = Head(me.todo), NEW view, view = View(s)[a],
                    NEW r, r = IF me.object[a] # None THEN me.object[a] ELSE view
             PROVE  IInv'
  OBVIOUS
<1>1. /\ me \in Session /\ e \in Events /\ r \in Row /\ me.at = "next"
      /\ me.object[a] # None \/ view.open
      /\ IsInjective(me.todo) /\ IsInjective(sess'[s].todo)
      /\ ToSet(me.todo) = ToSet(sess'[s].todo) \cup {e} /\ e \notin ToSet(sess'[s].todo)
      /\ sess' \in [Sessions -> Session] /\ \A t \in Sessions : t # s => sess'[t] = sess[t]
      /\ sess'[s].at # "idle" /\ sess'[s].chunk = me.chunk /\ sess'[s].closed = me.closed
      /\ \A b \in Alerts \ {a} : /\ sess'[s].object[b] = me.object[b] /\ sess'[s].base[b] = me.base[b]
                                 /\ sess'[s].mine[b] = me.mine[b]
      /\ sess'[s].object[a] = Recurred(r, e) /\ sess'[s].mine[a] = me.mine[a] \cup {e}
      /\ sess'[s].base[a] = IF me.object[a] # None THEN me.base[a] ELSE r
      /\ UNCHANGED <<db, writer, draft, share, used, overwrote>>
  BY RecurDoes DEF IInv
<1>2. /\ r # None /\ r.count \in Nat \ {0} /\ r.first \in Nat /\ r.last \in Nat
      /\ Recurred(r, e) \in Row /\ Recurred(r, e) # None /\ Recurred(r, e).count = r.count + 1
      /\ Recurred(r, e).first \in Nat /\ Recurred(r, e).last \in Nat
      /\ Recurred(r, e).first <= r.first /\ r.last <= Recurred(r, e).last
      /\ Recurred(r, e).first <= TimeOf[e] /\ TimeOf[e] <= Recurred(r, e).last
  BY <1>1, RecurredIs, RowFields
<1>3. \A b \in Alerts : e \notin me.mine[b] /\ e \notin share[b]
  BY <1>1 DEF IInv, EventsApart, Carried
<1>4. /\ me.mine[a] \subseteq Events /\ share[a] \subseteq Events
      /\ Cardinality(me.mine[a]) \in Nat /\ Cardinality(share[a]) \in Nat
      /\ Cardinality(me.mine[a] \cup {e}) = Cardinality(me.mine[a]) + 1
      /\ Cardinality(share[a] \cup me.mine[a]) \in Nat
      /\ Cardinality(share[a] \cup (me.mine[a] \cup {e})) = Cardinality(share[a] \cup me.mine[a]) + 1
  <2>1. me.mine[a] \subseteq Events /\ share[a] \subseteq Events /\ share[a] \cup me.mine[a] \subseteq Events
    BY <1>1, SessionFields DEF IInv, RecurrenceTypeOK
  <2>2. share[a] \cup (me.mine[a] \cup {e}) = (share[a] \cup me.mine[a]) \cup {e}
    OBVIOUS
  <2>3. e \notin me.mine[a] /\ e \notin share[a] \cup me.mine[a]
    BY <1>3
  <2>4. /\ Cardinality(me.mine[a] \cup {e}) = Cardinality(me.mine[a]) + 1
        /\ Cardinality((share[a] \cup me.mine[a]) \cup {e}) = Cardinality(share[a] \cup me.mine[a]) + 1
    BY <1>1, <2>1, <2>3, OneMoreEvent
  <2>5. /\ Cardinality(me.mine[a]) \in Nat /\ Cardinality(share[a]) \in Nat
        /\ Cardinality(share[a] \cup me.mine[a]) \in Nat
    BY <2>1, EventsAreFinite
  <2> QED
    BY <2>1, <2>2, <2>4, <2>5
<1>5. a \notin me.closed
  <2> SUFFICES ASSUME a \in me.closed PROVE FALSE
    OBVIOUS
  <2>1. me.mine[a] = {} /\ (db[a] # None => ~db[a].open) /\ (draft[a] # None => ~draft[a].open)
    BY DEF IInv, ClosedAreLeft
  <2>2. me.object[a] = None
    BY <2>1 DEF IInv, SessionsFollow, ObjectsOf
  <2> QED
    BY <1>1, <1>2, <2>1, <2>2 DEF View
<1>6. a \in used /\ \A t \in Sessions : t # s => ~Made(t, a)
  <2>1. a \in used
    BY <1>2 DEF IInv, AlertsApart, Unknown, View
  <2>2. ASSUME NEW t \in Sessions, t # s, Made(t, a) PROVE FALSE
    <3>1. me.object[a] = None /\ view # None
      BY <1>2, <2>2 DEF IInv, AlertsApart
    <3> QED
      BY <2>2, <3>1 DEF IInv, AlertsApart, Made, View
  <2> QED
    BY <2>1, <2>2
<1>7. RecurrenceTypeOK'
  BY <1>1 DEF IInv, RecurrenceTypeOK
<1>8. Locking'
  BY <1>1 DEF IInv, Locking, RecurrenceTypeOK
<1>9. EventsApart'
  <2>1. \A b \in Alerts : Carried(sess'[s], b) \subseteq Carried(me, b)
    BY <1>1 DEF Carried
  <2>2. \A t \in Sessions, b \in Alerts : t # s => Carried(sess'[t], b) = Carried(sess[t], b)
    BY <1>1
  <2>3. \A b \in Alerts : ToSet(sess'[s].todo) \cap sess'[s].mine[b] = {}
    BY <1>1 DEF IInv, EventsApart
  <2>4. \A t \in Sessions : IsInjective(sess'[t].todo)
    BY <1>1 DEF IInv, EventsApart
  <2>5. \A t \in Sessions, b \in Alerts :
          /\ Carried(sess'[t], b) \subseteq used' /\ Carried(sess'[t], b) \cap share'[b] = {}
          /\ share'[b] \subseteq used' /\ ToSet(sess'[t].todo) \cap sess'[t].mine[b] = {}
    BY <1>1, <2>1, <2>2, <2>3 DEF IInv, EventsApart
  <2>6. \A t, u \in Sessions, b \in Alerts : t # u => Carried(sess'[t], b) \cap Carried(sess'[u], b) = {}
    BY <2>1, <2>2 DEF IInv, EventsApart
  <2> QED
    BY <2>4, <2>5, <2>6 DEF EventsApart
<1>10. AlertsApart'
  <2>1. \A b \in Alerts \ used' : Unknown(b)'
    BY <1>1, <1>6 DEF IInv, AlertsApart, Unknown
  <2>2. \A t \in Sessions, b \in Alerts : Made(t, b)' => Made(t, b)
    BY <1>1 DEF Made
  <2>3. \A t, u \in Sessions, b \in Alerts :
          Made(t, b)' => b \notin sess'[u].closed /\ (t # u => sess'[u].object[b] = None)
    BY <1>1, <1>6, <2>2 DEF IInv, AlertsApart
  <2>4. \A t \in Sessions : \A b \in sess'[t].chunk : db'[b] = None /\ draft'[b] = None
    BY <1>1 DEF IInv, AlertsApart
  <2> QED
    BY <1>1, <2>1, <2>3, <2>4 DEF IInv, AlertsApart
<1>11. SessionsFollow'
  <2> SUFFICES ASSUME NEW t \in Sessions, NEW b \in Alerts
               PROVE  (/\ ObjectsOf(sess[t], b)
                       /\ IF writer = t THEN Writes(sess[t], b, draft[b], share[b], overwrote)
                          ELSE Reads(sess[t], b, db[b], share[b]))'
    BY DEF SessionsFollow
  <2>1. CASE t # s
    BY <1>1, <2>1 DEF IInv, SessionsFollow
  <2>2. CASE t = s /\ b # a
    <3>1. /\ sess'[s].object[b] = me.object[b] /\ sess'[s].base[b] = me.base[b] /\ sess'[s].mine[b] = me.mine[b]
          /\ sess'[s].chunk = me.chunk
      BY <1>1, <2>2
    <3>2. ObjectsOf(sess'[s], b)
      BY <3>1 DEF IInv, SessionsFollow, ObjectsOf
    <3>3. writer # s => Reads(sess'[s], b, db[b], share[b])
      BY <3>1 DEF IInv, SessionsFollow, Reads
    <3>4. writer = s => Writes(sess'[s], b, draft[b], share[b], overwrote)
      BY <3>1 DEF IInv, SessionsFollow, Writes
    <3> QED
      BY <1>1, <2>2, <3>2, <3>3, <3>4
  <2>3. CASE t = s /\ b = a
    <3>1. /\ sess'[s].object[a] = Recurred(r, e) /\ sess'[s].mine[a] = me.mine[a] \cup {e}
          /\ me.object[a] # None => sess'[s].base[a] = me.base[a] /\ r = me.object[a]
          /\ me.object[a] = None => sess'[s].base[a] = r
      BY <1>1
    <3>2. ObjectsOf(sess'[s], a)
      <4>1. ObjectsOf(me, a)
        BY DEF IInv, SessionsFollow
      <4>2. me.mine[a] \cup {e} # {}
        OBVIOUS
      <4> QED
        BY <1>1, <1>2, <4>1, <4>2 DEF ObjectsOf
    <3>3. ASSUME writer # s
          PROVE  Reads(sess'[s], a, db[a], share[a])
      <4>1. Reads(me, a, db[a], share[a]) /\ ObjectsOf(me, a) /\ view = db[a]
        BY <3>3 DEF IInv, SessionsFollow, View
      <4>2. CASE me.object[a] # None
        <5>1. Encloses(Recurred(r, e), me.mine[a] \cup {e})
          <6> SUFFICES ASSUME NEW x \in me.mine[a] \cup {e}
                       PROVE  Recurred(r, e).first <= TimeOf[x] /\ TimeOf[x] <= Recurred(r, e).last
            BY DEF Encloses
          <6>1. x = e \/ (TimeOf[x] \in Nat /\ r.first <= TimeOf[x] /\ TimeOf[x] <= r.last)
            BY <1>4, <4>1, <4>2, TimesAre DEF Reads, Encloses
          <6> QED
            BY <1>2, <6>1
        <5>2. me.base[a] # None => /\ me.base[a].count \in Nat /\ me.base[a].first \in Nat /\ me.base[a].last \in Nat
          BY <1>1, SessionFields, RowFields
        <5>3. /\ sess'[s].base[a] = me.base[a] /\ r = me.object[a]
              /\ me.base[a] = None => r.count = Cardinality(me.mine[a])
              /\ me.base[a] # None =>
                   /\ r.count = me.base[a].count + Cardinality(me.mine[a])
                   /\ r.first <= me.base[a].first /\ me.base[a].last <= r.last
                   /\ db[a] # None => me.base[a].count <= Cardinality(share[a])
          BY <3>1, <4>1, <4>2 DEF Reads
        <5>4. me.base[a] = None => Recurred(r, e).count = Cardinality(me.mine[a] \cup {e})
          BY <1>2, <1>4, <5>3
        <5>5. me.base[a] # None =>
                /\ Recurred(r, e).count = me.base[a].count + Cardinality(me.mine[a] \cup {e})
                /\ Recurred(r, e).first <= me.base[a].first /\ me.base[a].last <= Recurred(r, e).last
          <6> DEFINE n == Cardinality(me.mine[a])
                     m == Cardinality(me.mine[a] \cup {e})
          <6>1. n \in Nat /\ m = n + 1
            BY <1>4
          <6> HIDE DEF n, m
          <6>2. me.base[a] # None =>
                  Recurred(r, e).count = me.base[a].count + m
            BY <1>2, <5>2, <5>3, <6>1 DEF n
          <6>3. me.base[a] # None =>
                  Recurred(r, e).first <= me.base[a].first /\ me.base[a].last <= Recurred(r, e).last
            BY <1>2, <5>2, <5>3
          <6> QED
            BY <6>2, <6>3 DEF m
        <5> QED
          BY <1>2, <3>1, <5>1, <5>3, <5>4, <5>5 DEF Reads
      <4>3. CASE me.object[a] = None
        <5>1. me.mine[a] = {} /\ r = db[a] /\ me.base[a] = None
          BY <4>1, <4>3 DEF Reads, ObjectsOf
        <5>2. r.count <= Cardinality(share[a])
          BY <1>2, <5>1 DEF IInv, RowsAccount, Rows, Accounts
        <5>3. Encloses(Recurred(r, e), me.mine[a] \cup {e})
          BY <1>2, <5>1 DEF Encloses
        <5>4. Cardinality(me.mine[a] \cup {e}) = 1
          BY <1>4, <5>1, FS_EmptySet
        <5> QED
          BY <1>2, <3>1, <4>3, <5>2, <5>3, <5>4 DEF Reads
      <4> QED
        BY <4>2, <4>3
    <3>4. ASSUME writer = s
          PROVE  Writes(sess'[s], a, draft[a], share[a], overwrote)
      <4>1. Writes(me, a, draft[a], share[a], overwrote) /\ ObjectsOf(me, a) /\ view = draft[a]
        BY <3>4 DEF IInv, SessionsFollow, View
      <4>2. Accounts(r, share[a] \cup me.mine[a], overwrote)
        BY <1>2, <4>1 DEF Writes
      <4>3. Accounts(Recurred(r, e), share[a] \cup (me.mine[a] \cup {e}), overwrote)
        <5>1. Recurred(r, e).count <= Cardinality(share[a] \cup (me.mine[a] \cup {e}))
          <6>1. r.count <= Cardinality(share[a] \cup me.mine[a])
            BY <4>2 DEF Accounts
          <6> DEFINE n == Cardinality(share[a] \cup me.mine[a])
                     m == Cardinality(share[a] \cup (me.mine[a] \cup {e}))
          <6>2. n \in Nat /\ m = n + 1 /\ r.count \in Nat /\ r.count <= n /\ Recurred(r, e).count = r.count + 1
            BY <1>2, <1>4, <6>1
          <6> HIDE DEF n, m
          <6>3. Recurred(r, e).count <= m
            BY <6>2
          <6> QED
            BY <6>3 DEF m
        <5>2. ASSUME ~overwrote
              PROVE  /\ Recurred(r, e).count = Cardinality(share[a] \cup (me.mine[a] \cup {e}))
                     /\ Encloses(Recurred(r, e), share[a] \cup (me.mine[a] \cup {e}))
          <6>1. r.count = Cardinality(share[a] \cup me.mine[a]) /\ Encloses(r, share[a] \cup me.mine[a])
            BY <4>2, <5>2 DEF Accounts
          <6>2. ASSUME NEW x \in share[a] \cup (me.mine[a] \cup {e})
                PROVE  Recurred(r, e).first <= TimeOf[x] /\ TimeOf[x] <= Recurred(r, e).last
            <7>1. x \in Events /\ TimeOf[x] \in Nat /\ (x = e \/ x \in share[a] \cup me.mine[a])
              BY <1>1, <1>4, TimesAre
            <7>2. x = e \/ (r.first <= TimeOf[x] /\ TimeOf[x] <= r.last)
              BY <6>1, <7>1 DEF Encloses
            <7> QED
              BY <1>2, <7>1, <7>2
          <6>3. Encloses(Recurred(r, e), share[a] \cup (me.mine[a] \cup {e}))
            BY <6>2 DEF Encloses
          <6> QED
            BY <1>2, <1>4, <6>1, <6>3
        <5> QED
          BY <5>1, <5>2 DEF Accounts
      <4> QED
        BY <1>1, <1>2, <4>1, <4>3 DEF Writes
    <3> QED
      BY <1>1, <2>3, <3>2, <3>3, <3>4
  <2> QED
    BY <2>1, <2>2, <2>3
<1>12. RowsAccount'
  BY <1>1 DEF IInv, RowsAccount, Rows
<1>13. ClosedAreLeft'
  <2> SUFFICES ASSUME NEW t \in Sessions, NEW b \in sess'[t].closed
               PROVE  (sess[t].mine[b] = {} /\ (db[b] # None => ~db[b].open) /\ (draft[b] # None => ~draft[b].open))'
    BY DEF ClosedAreLeft
  <2>1. b \in Alerts /\ b \in sess[t].closed
    BY <1>1, SessionFields
  <2> QED
    BY <1>1, <1>5, <2>1 DEF IInv, ClosedAreLeft
<1> QED
  BY <1>7, <1>8, <1>9, <1>10, <1>11, <1>12, <1>13 DEF IInv

LEMMA InsertKeeps ==
  ASSUME IInv, NEW s \in Sessions, NEW a \in Alerts, Insert(s, a)
  PROVE  IInv'
<1> SUFFICES ASSUME NEW me, me = sess[s], NEW e, e = Head(me.todo) PROVE IInv'
  OBVIOUS
<1>1. /\ me \in Session /\ e \in Events /\ me.at = "next" /\ a \notin used /\ used' = used \cup {a}
      /\ IsInjective(me.todo) /\ IsInjective(sess'[s].todo)
      /\ ToSet(me.todo) = ToSet(sess'[s].todo) \cup {e} /\ e \notin ToSet(sess'[s].todo)
      /\ sess' \in [Sessions -> Session] /\ \A t \in Sessions : t # s => sess'[t] = sess[t]
      /\ sess'[s].at # "idle" /\ sess'[s].chunk = me.chunk \cup {a} /\ sess'[s].closed = me.closed
      /\ \A b \in Alerts : sess'[s].base[b] = me.base[b]
      /\ \A b \in Alerts \ {a} : sess'[s].object[b] = me.object[b] /\ sess'[s].mine[b] = me.mine[b]
      /\ sess'[s].object[a] = NewRow(e) /\ sess'[s].mine[a] = {e}
      /\ UNCHANGED <<db, writer, draft, share, overwrote>>
  BY InsertDoes DEF IInv
<1>2. /\ NewRow(e) \in Row /\ NewRow(e) # None /\ NewRow(e).count = 1
      /\ NewRow(e).first = TimeOf[e] /\ NewRow(e).last = TimeOf[e] /\ TimeOf[e] \in Nat
  BY <1>1, NewRowIs, RowFields, TimesAre
<1>3. /\ db[a] = None /\ draft[a] = None /\ share[a] = {}
      /\ \A t \in Sessions : sess[t].object[a] = None /\ a \notin sess[t].closed /\ sess[t].mine[a] = {}
      /\ \A t \in Sessions : a \notin sess[t].chunk /\ sess[t].base[a] = None
  BY <1>1 DEF IInv, AlertsApart, Unknown, SessionsFollow, ObjectsOf
<1>4. Cardinality({e}) = 1
  BY FS_Singleton
<1>5. RecurrenceTypeOK'
  BY <1>1 DEF IInv, RecurrenceTypeOK
<1>6. Locking'
  BY <1>1 DEF IInv, Locking, RecurrenceTypeOK
<1>7. EventsApart'
  <2>1. \A b \in Alerts : Carried(sess'[s], b) \subseteq Carried(me, b)
    BY <1>1, <1>3 DEF Carried
  <2>2. \A t \in Sessions, b \in Alerts : t # s => Carried(sess'[t], b) = Carried(sess[t], b)
    BY <1>1
  <2>3. \A b \in Alerts : ToSet(sess'[s].todo) \cap sess'[s].mine[b] = {}
    BY <1>1 DEF IInv, EventsApart
  <2>4. \A t \in Sessions : IsInjective(sess'[t].todo)
    BY <1>1 DEF IInv, EventsApart
  <2>5. \A t \in Sessions, b \in Alerts :
          /\ Carried(sess'[t], b) \subseteq used' /\ Carried(sess'[t], b) \cap share'[b] = {}
          /\ share'[b] \subseteq used' /\ ToSet(sess'[t].todo) \cap sess'[t].mine[b] = {}
    BY <1>1, <2>1, <2>2, <2>3 DEF IInv, EventsApart
  <2>6. \A t, u \in Sessions, b \in Alerts : t # u => Carried(sess'[t], b) \cap Carried(sess'[u], b) = {}
    BY <2>1, <2>2 DEF IInv, EventsApart
  <2>7. \A b \in Alerts : share'[b] \subseteq used'
    BY <1>1 DEF IInv, EventsApart
  <2> QED
    BY <2>4, <2>5, <2>6, <2>7 DEF EventsApart
<1>8. AlertsApart'
  <2>1. \A b \in Alerts \ used' : Unknown(b)'
    BY <1>1 DEF IInv, AlertsApart, Unknown
  <2>2. \A t \in Sessions, b \in Alerts : Made(t, b)' => Made(t, b) \/ (t = s /\ b = a)
    BY <1>1 DEF Made
  <2>3. \A t \in Sessions : ~Made(t, a)
    BY <1>3 DEF Made
  <2>4. \A t, u \in Sessions, b \in Alerts :
          Made(t, b)' => b \notin sess'[u].closed /\ (t # u => sess'[u].object[b] = None)
    BY <1>1, <1>3, <2>2, <2>3 DEF IInv, AlertsApart
  <2>5. \A t \in Sessions : \A b \in sess'[t].chunk : db'[b] = None /\ draft'[b] = None
    BY <1>1, <1>3 DEF IInv, AlertsApart
  <2> QED
    BY <1>1, <2>1, <2>4, <2>5 DEF IInv, AlertsApart
<1>9. SessionsFollow'
  <2> SUFFICES ASSUME NEW t \in Sessions, NEW b \in Alerts
               PROVE  (/\ ObjectsOf(sess[t], b)
                       /\ IF writer = t THEN Writes(sess[t], b, draft[b], share[b], overwrote)
                          ELSE Reads(sess[t], b, db[b], share[b]))'
    BY DEF SessionsFollow
  <2>1. CASE t # s
    BY <1>1, <2>1 DEF IInv, SessionsFollow
  <2>2. CASE t = s /\ b # a
    <3>1. /\ sess'[s].object[b] = me.object[b] /\ sess'[s].base[b] = me.base[b] /\ sess'[s].mine[b] = me.mine[b]
          /\ b \in sess'[s].chunk <=> b \in me.chunk
      BY <1>1, <2>2
    <3>2. ObjectsOf(sess'[s], b)
      BY <3>1 DEF IInv, SessionsFollow, ObjectsOf
    <3>3. writer # s => Reads(sess'[s], b, db[b], share[b])
      BY <3>1 DEF IInv, SessionsFollow, Reads
    <3>4. writer = s => Writes(sess'[s], b, draft[b], share[b], overwrote)
      BY <3>1 DEF IInv, SessionsFollow, Writes
    <3> QED
      BY <1>1, <2>2, <3>2, <3>3, <3>4
  <2>3. CASE t = s /\ b = a
    <3>1. ObjectsOf(sess'[s], a)
      BY <1>1, <1>2, <1>3 DEF ObjectsOf
    <3>2. Reads(sess'[s], a, db[a], share[a])
      <4>1. Encloses(NewRow(e), {e})
        BY <1>2 DEF Encloses
      <4> QED
        BY <1>1, <1>2, <1>3, <1>4, <4>1 DEF Reads
    <3>3. Writes(sess'[s], a, draft[a], share[a], overwrote)
      <4>1. share[a] \cup {e} = {e}
        BY <1>3
      <4>2. Accounts(NewRow(e), {e}, overwrote)
        BY <1>2, <1>4 DEF Accounts, Encloses
      <4>3. Accounts(NewRow(e), share[a] \cup {e}, overwrote)
        BY <4>1, <4>2, Zenon
      <4> QED
        BY <1>1, <1>2, <1>3, <4>3 DEF Writes
    <3> QED
      BY <1>1, <2>3, <3>1, <3>2, <3>3
  <2> QED
    BY <2>1, <2>2, <2>3
<1>10. RowsAccount'
  BY <1>1 DEF IInv, RowsAccount, Rows
<1>11. ClosedAreLeft'
  <2> SUFFICES ASSUME NEW t \in Sessions, NEW b \in sess'[t].closed
               PROVE  (sess[t].mine[b] = {} /\ (db[b] # None => ~db[b].open) /\ (draft[b] # None => ~draft[b].open))'
    BY DEF ClosedAreLeft
  <2>1. b \in Alerts /\ b \in sess[t].closed
    BY <1>1, SessionFields
  <2> QED
    BY <1>1, <1>3, <2>1 DEF IInv, ClosedAreLeft
<1> QED
  BY <1>5, <1>6, <1>7, <1>8, <1>9, <1>10, <1>11 DEF IInv

LEMMA RollbackKeeps ==
  ASSUME IInv, NEW s \in Sessions, Rollback(s)
  PROVE  IInv'
<1>1. /\ sess' = [sess EXCEPT ![s] = Closed] /\ Closed \in Session
      /\ writer' = IF writer = s THEN None ELSE writer
      /\ draft' = IF writer = s THEN db ELSE draft
      /\ UNCHANGED <<db, share, used, overwrote>>
  BY ClosedIs DEF Rollback
<1>2. /\ sess' \in [Sessions -> Session] /\ sess'[s] = Closed
      /\ \A t \in Sessions : t # s => sess'[t] = sess[t]
  BY <1>1, OneSession DEF IInv
<1>3. /\ Closed.at = "idle" /\ Closed.chunk = {} /\ Closed.closed = {} /\ ToSet(Closed.todo) = {}
      /\ IsInjective(Closed.todo)
      /\ \A a \in Alerts : /\ Closed.object[a] = None /\ Closed.base[a] = None /\ Closed.mine[a] = {}
                           /\ Carried(Closed, a) = {}
  <2>1. ToSet(<<>>) = {} /\ IsInjective(<<>>)
    BY DEF ToSet, IsInjective
  <2> QED
    BY <2>1, ClosedIs DEF Carried
<1>4. writer' # s /\ None \notin Sessions
  BY <1>1, RecurrenceConstantsOK
<1>5. \A a \in Alerts : draft'[a] = db[a] \/ draft'[a] = draft[a]
  BY <1>1
<1>6. RecurrenceTypeOK'
  BY <1>1, <1>2 DEF IInv, RecurrenceTypeOK
<1>7. Locking'
  <2>1. (writer = None => draft = db)'
    BY <1>1, <1>4 DEF IInv, Locking
  <2>2. (writer # None => sess[writer].at # "idle")'
    BY <1>1, <1>2, <1>4 DEF IInv, Locking, RecurrenceTypeOK
  <2>3. (\A a \in Alerts : db[a] # None => draft[a] # None /\ draft[a].open = db[a].open)'
    BY <1>1 DEF IInv, Locking
  <2>4. (\A t \in Sessions : sess[t].at = "idle" => sess[t] = Closed)'
    BY <1>2 DEF IInv, Locking
  <2> QED
    BY <2>1, <2>2, <2>3, <2>4 DEF Locking
<1>8. EventsApart'
  BY <1>1, <1>2, <1>3 DEF IInv, EventsApart
<1>9. AlertsApart'
  <2>1. \A b \in Alerts \ used' : Unknown(b)'
    BY <1>1, <1>2, <1>3, <1>5 DEF IInv, AlertsApart, Unknown
  <2>2. \A t \in Sessions, b \in Alerts : Made(t, b)' => Made(t, b) /\ t # s
    BY <1>1, <1>2, <1>3, <1>4 DEF Made
  <2>3. \A t, u \in Sessions, b \in Alerts :
          Made(t, b)' => b \notin sess'[u].closed /\ (t # u => sess'[u].object[b] = None)
    BY <1>2, <1>3, <2>2 DEF IInv, AlertsApart
  <2>4. \A t \in Sessions : \A b \in sess'[t].chunk : db'[b] = None /\ draft'[b] = None
    BY <1>1, <1>2, <1>3, <1>5 DEF IInv, AlertsApart
  <2> QED
    BY <1>1, <2>1, <2>3, <2>4 DEF IInv, AlertsApart
<1>10. SessionsFollow'
  <2> SUFFICES ASSUME NEW t \in Sessions, NEW a \in Alerts
               PROVE  (/\ ObjectsOf(sess[t], a)
                       /\ IF writer = t THEN Writes(sess[t], a, draft[a], share[a], overwrote)
                          ELSE Reads(sess[t], a, db[a], share[a]))'
    BY DEF SessionsFollow
  <2>1. CASE t # s
    BY <1>1, <1>2, <1>4, <2>1 DEF IInv, SessionsFollow
  <2>2. CASE t = s
    BY <1>2, <1>3, <1>4, <2>2 DEF ObjectsOf, Reads
  <2> QED
    BY <2>1, <2>2
<1>11. RowsAccount'
  BY <1>1 DEF IInv, RowsAccount, Rows
<1>12. ClosedAreLeft'
  BY <1>1, <1>2, <1>3, <1>5 DEF IInv, ClosedAreLeft
<1> QED
  BY <1>6, <1>7, <1>8, <1>9, <1>10, <1>11, <1>12 DEF IInv

-----------------------------------------------------------------------------
(* The invariant is kept: other requests. *)

LEMMA SetStatusKeeps ==
  ASSUME IInv, NEW a \in Alerts, NEW open \in BOOLEAN, SetStatus(a, open)
  PROVE  IInv'
<1>1. /\ db[a] # None /\ writer = None /\ db' = [db EXCEPT ![a].open = open] /\ draft' = db' /\ draft = db
      /\ sess' = [t \in Sessions |-> IF open THEN [sess[t] EXCEPT !.closed = @ \ {a}] ELSE sess[t]]
      /\ UNCHANGED <<writer, share, used, overwrote>> /\ None \notin Sessions
  BY RecurrenceConstantsOK DEF SetStatus, WriteAndCommit, IInv, Locking
<1>2. /\ db' \in Table /\ \A b \in Alerts : b # a => db'[b] = db[b]
      /\ db'[a] # None /\ db'[a].open = open /\ db'[a].count = db[a].count
      /\ db'[a].first = db[a].first /\ db'[a].last = db[a].last
  <2>1. db \in Table /\ db[a] \in Row
    BY <1>1 DEF IInv, RecurrenceTypeOK, Table
  <2>2. [db[a] EXCEPT !.open = open] \in Row
    BY <2>1 DEF Row
  <2>3. [db[a] EXCEPT !.open = open] # None
    BY <2>2, RowFields
  <2>4. db' = [db EXCEPT ![a] = [db[a] EXCEPT !.open = open]]
    BY <1>1
  <2>5. db'[a] = [db[a] EXCEPT !.open = open] /\ \A b \in Alerts : b # a => db'[b] = db[b]
    BY <2>1, <2>4 DEF Table
  <2>6. db' \in Table
    BY <2>1, <2>2, <2>4 DEF Table
  <2> QED
    BY <2>1, <2>3, <2>5, <2>6 DEF Row
<1>3. /\ sess' \in [Sessions -> Session]
      /\ \A t \in Sessions : /\ sess'[t].at = sess[t].at /\ sess'[t].todo = sess[t].todo
                             /\ sess'[t].object = sess[t].object /\ sess'[t].base = sess[t].base
                             /\ sess'[t].chunk = sess[t].chunk /\ sess'[t].mine = sess[t].mine
                             /\ sess'[t].closed = IF open THEN sess[t].closed \ {a} ELSE sess[t].closed
      /\ \A t \in Sessions : sess[t] = Closed => sess'[t] = Closed
  <2> SUFFICES ASSUME NEW t \in Sessions
               PROVE  /\ sess'[t] \in Session
                      /\ sess'[t].at = sess[t].at /\ sess'[t].todo = sess[t].todo
                      /\ sess'[t].object = sess[t].object /\ sess'[t].base = sess[t].base
                      /\ sess'[t].chunk = sess[t].chunk /\ sess'[t].mine = sess[t].mine
                      /\ sess'[t].closed = IF open THEN sess[t].closed \ {a} ELSE sess[t].closed
                      /\ sess[t] = Closed => sess'[t] = Closed
    BY <1>1
  <2>1. sess[t] \in Session /\ sess[t].closed \subseteq Alerts
    BY SessionFields DEF IInv, RecurrenceTypeOK
  <2>2. CASE open
    <3>1. sess'[t] = [sess[t] EXCEPT !.closed = sess[t].closed \ {a}]
      BY <1>1, <2>2
    <3>2. sess[t].closed \ {a} \subseteq Alerts
      BY <2>1
    <3>3. ASSUME sess[t] = Closed PROVE sess'[t] = Closed
      <4>1. sess[t].closed \ {a} = {}
        BY <3>3, ClosedIs
      <4>2. sess'[t] = [Closed EXCEPT !.closed = {}]
        BY <3>1, <3>3, <4>1, Zenon
      <4>3. [Closed EXCEPT !.closed = {}] = Closed
        BY ClosedIs DEF Session
      <4> QED
        BY <4>2, <4>3
    <3> QED
      BY <2>1, <2>2, <3>1, <3>2, <3>3 DEF Session
  <2>3. CASE ~open
    BY <1>1, <2>1, <2>3
  <2> QED
    BY <2>2, <2>3
<1>4. \A b \in Alerts : /\ db'[b] = None <=> db[b] = None
                        /\ db'[b].count = db[b].count /\ db'[b].first = db[b].first /\ db'[b].last = db[b].last
  BY <1>1, <1>2
<1>5. RecurrenceTypeOK'
  BY <1>1, <1>2, <1>3 DEF IInv, RecurrenceTypeOK
<1>6. Locking'
  BY <1>1, <1>3 DEF IInv, Locking
<1>7. EventsApart'
  BY <1>1, <1>3 DEF IInv, EventsApart, Carried
<1>8. AlertsApart'
  <2>1. \A b \in Alerts \ used' : Unknown(b)'
    BY <1>1, <1>3, <1>4 DEF IInv, AlertsApart, Unknown
  <2>2. \A t \in Sessions, b \in Alerts : Made(t, b)' => Made(t, b)
    BY <1>1, <1>3 DEF Made
  <2>3. \A t, u \in Sessions, b \in Alerts :
          Made(t, b)' => b \notin sess'[u].closed /\ (t # u => sess'[u].object[b] = None)
    <3>1. \A u \in Sessions : sess'[u].closed \subseteq sess[u].closed /\ sess'[u].object = sess[u].object
      BY <1>3
    <3> QED
      BY <2>2, <3>1 DEF IInv, AlertsApart
  <2>4. \A t \in Sessions : \A b \in sess'[t].chunk : db'[b] = None /\ draft'[b] = None
    <3>1. \A t \in Sessions : \A b \in sess'[t].chunk : b \in Alerts /\ b \in sess[t].chunk
      BY <1>3, SessionFields
    <3> QED
      BY <1>1, <1>4, <3>1 DEF IInv, AlertsApart
  <2>5. \A b \in Alerts : db'[b] = None => share'[b] = {}
    BY <1>1, <1>4 DEF IInv, AlertsApart
  <2> QED
    BY <2>1, <2>3, <2>4, <2>5 DEF AlertsApart
<1>9. SessionsFollow'
  <2> SUFFICES ASSUME NEW t \in Sessions, NEW b \in Alerts
               PROVE  (/\ ObjectsOf(sess[t], b)
                       /\ IF writer = t THEN Writes(sess[t], b, draft[b], share[b], overwrote)
                          ELSE Reads(sess[t], b, db[b], share[b]))'
    BY DEF SessionsFollow
  <2>1. ObjectsOf(sess'[t], b)
    <3>1. /\ sess'[t].object = sess[t].object /\ sess'[t].base = sess[t].base
          /\ sess'[t].chunk = sess[t].chunk /\ sess'[t].mine = sess[t].mine
      BY <1>3
    <3>2. ObjectsOf(sess[t], b)
      BY DEF IInv, SessionsFollow
    <3> QED
      BY <3>1, <3>2, Zenon DEF ObjectsOf
  <2>2. writer' # t /\ writer # t
    BY <1>1
  <2>3. Reads(sess'[t], b, db'[b], share'[b])
    BY <1>1, <1>3, <1>4, <2>2 DEF IInv, SessionsFollow, Reads
  <2> QED
    BY <2>1, <2>2, <2>3
<1>10. RowsAccount'
  BY <1>1, <1>4 DEF IInv, RowsAccount, Rows, Accounts, Encloses
<1>11. ClosedAreLeft'
  <2> SUFFICES ASSUME NEW t \in Sessions, NEW b \in sess'[t].closed
               PROVE  (sess[t].mine[b] = {} /\ (db[b] # None => ~db[b].open) /\ (draft[b] # None => ~draft[b].open))'
    BY DEF ClosedAreLeft
  <2>1. b \in Alerts /\ b \in sess[t].closed /\ (b # a \/ ~open)
    BY <1>3, SessionFields
  <2> QED
    BY <1>1, <1>2, <1>3, <2>1 DEF IInv, ClosedAreLeft
<1> QED
  BY <1>5, <1>6, <1>7, <1>8, <1>9, <1>10, <1>11 DEF IInv

LEMMA DeleteAlertsKeeps ==
  ASSUME IInv, NEW A, DeleteAlerts(A)
  PROVE  IInv'
<1>1. /\ writer = None /\ db' = [a \in Alerts |-> IF a \in A THEN None ELSE db[a]] /\ draft' = db' /\ draft = db
      /\ share' = [a \in Alerts |-> IF a \in A THEN {} ELSE share[a]]
      /\ UNCHANGED <<writer, sess, used, overwrote>> /\ None \notin Sessions
  BY RecurrenceConstantsOK DEF DeleteAlerts, WriteAndCommit, IInv, Locking
<1>2. /\ \A a \in Alerts : a \in A => db'[a] = None /\ share'[a] = {}
      /\ \A a \in Alerts : a \notin A => db'[a] = db[a] /\ share'[a] = share[a]
      /\ \A a \in Alerts : db'[a] = db[a] \/ db'[a] = None
  BY <1>1
<1>3. RecurrenceTypeOK'
  BY <1>1 DEF IInv, RecurrenceTypeOK, Table
<1>4. Locking'
  BY <1>1 DEF IInv, Locking
<1>5. EventsApart'
  BY <1>1, <1>2 DEF IInv, EventsApart
<1>6. AlertsApart'
  <2>1. \A b \in Alerts \ used' : Unknown(b)'
    BY <1>1, <1>2 DEF IInv, AlertsApart, Unknown
  <2>2. \A t \in Sessions, b \in Alerts : Made(t, b)' => Made(t, b)
    BY <1>1 DEF Made
  <2>3. \A t, u \in Sessions, b \in Alerts :
          Made(t, b)' => b \notin sess'[u].closed /\ (t # u => sess'[u].object[b] = None)
    BY <1>1, <2>2 DEF IInv, AlertsApart
  <2>4. \A t \in Sessions : \A b \in sess'[t].chunk : db'[b] = None /\ draft'[b] = None
    <3>1. \A t \in Sessions : \A b \in sess[t].chunk : b \in Alerts
      BY SessionFields DEF IInv, RecurrenceTypeOK
    <3> QED
      BY <1>1, <1>2, <3>1 DEF IInv, AlertsApart
  <2>5. \A b \in Alerts : db'[b] = None => share'[b] = {}
    BY <1>1, <1>2 DEF IInv, AlertsApart
  <2> QED
    BY <2>1, <2>3, <2>4, <2>5 DEF AlertsApart
<1>7. SessionsFollow'
  <2> SUFFICES ASSUME NEW t \in Sessions, NEW b \in Alerts
               PROVE  ObjectsOf(sess[t], b) /\ Reads(sess[t], b, db'[b], share'[b])
    BY <1>1 DEF SessionsFollow
  <2>1. ObjectsOf(sess[t], b) /\ Reads(sess[t], b, db[b], share[b])
    BY <1>1 DEF IInv, SessionsFollow
  <2> QED
    BY <1>2, <2>1 DEF Reads
<1>8. RowsAccount'
  BY <1>1, <1>2 DEF IInv, RowsAccount, Rows
<1>9. ClosedAreLeft'
  <2>1. \A t \in Sessions : \A b \in sess[t].closed : b \in Alerts
    BY SessionFields DEF IInv, RecurrenceTypeOK
  <2> QED
    BY <1>1, <1>2, <2>1 DEF IInv, ClosedAreLeft
<1> QED
  BY <1>3, <1>4, <1>5, <1>6, <1>7, <1>8, <1>9 DEF IInv

LEMMA InsertSampleKeeps ==
  ASSUME IInv, NEW a \in Alerts, NEW e \in Events, InsertSample(e, a)
  PROVE  IInv'
<1>1. /\ e \notin used /\ a \notin used /\ writer = None
      /\ db' = [db EXCEPT ![a] = NewRow(e)] /\ draft' = db' /\ draft = db
      /\ share' = [share EXCEPT ![a] = {e}] /\ used' = used \cup {e, a}
      /\ UNCHANGED <<writer, sess, overwrote>> /\ None \notin Sessions
  BY RecurrenceConstantsOK DEF InsertSample, WriteAndCommit, IInv, Locking
<1>2. /\ NewRow(e) \in Row /\ NewRow(e) # None /\ NewRow(e).count = 1
      /\ NewRow(e).first = TimeOf[e] /\ NewRow(e).last = TimeOf[e] /\ TimeOf[e] \in Nat
  BY NewRowIs, RowFields, TimesAre
<1>3. /\ db' \in Table /\ db'[a] = NewRow(e) /\ \A b \in Alerts : b # a => db'[b] = db[b]
      /\ share' \in [Alerts -> SUBSET Events] /\ share'[a] = {e}
      /\ \A b \in Alerts : b # a => share'[b] = share[b]
  BY <1>1, <1>2 DEF IInv, RecurrenceTypeOK, Table
<1>4. \A t \in Sessions : /\ sess[t].object[a] = None /\ a \notin sess[t].closed /\ sess[t].mine[a] = {}
                          /\ a \notin sess[t].chunk /\ sess[t].base[a] = None
  BY <1>1 DEF IInv, AlertsApart, Unknown, SessionsFollow, ObjectsOf
<1>5. \A t \in Sessions, b \in Alerts : e \notin Carried(sess[t], b)
  BY <1>1 DEF IInv, EventsApart
<1>6. RecurrenceTypeOK'
  BY <1>1, <1>3 DEF IInv, RecurrenceTypeOK
<1>7. Locking'
  BY <1>1 DEF IInv, Locking
<1>8. EventsApart'
  BY <1>1, <1>3, <1>5 DEF IInv, EventsApart
<1>9. AlertsApart'
  <2>1. \A b \in Alerts \ used' : Unknown(b)'
    BY <1>1, <1>3 DEF IInv, AlertsApart, Unknown
  <2>2. \A t \in Sessions, b \in Alerts : Made(t, b)' => Made(t, b)
    BY <1>1 DEF Made
  <2>3. \A t, u \in Sessions, b \in Alerts :
          Made(t, b)' => b \notin sess'[u].closed /\ (t # u => sess'[u].object[b] = None)
    BY <1>1, <2>2 DEF IInv, AlertsApart
  <2>4. \A t \in Sessions : \A b \in sess'[t].chunk : db'[b] = None /\ draft'[b] = None
    <3>1. \A t \in Sessions : \A b \in sess[t].chunk : b \in Alerts /\ b # a
      BY <1>4, SessionFields DEF IInv, RecurrenceTypeOK
    <3> QED
      BY <1>1, <1>3, <3>1 DEF IInv, AlertsApart
  <2>5. \A b \in Alerts : db'[b] = None => share'[b] = {}
    BY <1>1, <1>2, <1>3 DEF IInv, AlertsApart
  <2> QED
    BY <2>1, <2>3, <2>4, <2>5 DEF AlertsApart
<1>10. SessionsFollow'
  <2> SUFFICES ASSUME NEW t \in Sessions, NEW b \in Alerts
               PROVE  ObjectsOf(sess[t], b) /\ Reads(sess[t], b, db'[b], share'[b])
    BY <1>1 DEF SessionsFollow
  <2>1. ObjectsOf(sess[t], b) /\ Reads(sess[t], b, db[b], share[b])
    BY <1>1 DEF IInv, SessionsFollow
  <2> QED
    BY <1>3, <1>4, <2>1 DEF Reads
<1>11. RowsAccount'
  <2> SUFFICES ASSUME NEW b \in Alerts, db'[b] # None PROVE Accounts(db'[b], share'[b], overwrote)
    BY <1>1 DEF RowsAccount, Rows
  <2>1. CASE b # a
    BY <1>3, <2>1 DEF IInv, RowsAccount, Rows
  <2>2. CASE b = a
    <3>1. Cardinality({e}) = 1
      BY FS_Singleton
    <3>2. Accounts(NewRow(e), {e}, overwrote)
      BY <1>2, <3>1 DEF Accounts, Encloses
    <3> QED
      BY <1>3, <2>2, <3>2
  <2> QED
    BY <2>1, <2>2
<1>12. ClosedAreLeft'
  <2>1. \A t \in Sessions : \A b \in sess[t].closed : b \in Alerts /\ b # a
    BY <1>4, SessionFields DEF IInv, RecurrenceTypeOK
  <2> QED
    BY <1>1, <1>3, <2>1 DEF IInv, ClosedAreLeft
<1> QED
  BY <1>6, <1>7, <1>8, <1>9, <1>10, <1>11, <1>12 DEF IInv

-----------------------------------------------------------------------------
(* The invariant is kept: flushing and committing. *)

LEMMA FlushDoes ==
  ASSUME RecurrenceTypeOK, NEW s \in Sessions, Flush(s), NEW me, me = sess[s]
  PROVE  /\ me \in Session /\ me.at = "flush" /\ CanFlush(s) /\ writer \in {None, s}
         /\ writer' = s /\ draft' = Flushed(s) /\ overwrote' = (overwrote \/ Overwrites(s))
         /\ sess' \in [Sessions -> Session] /\ \A t \in Sessions : t # s => sess'[t] = sess[t]
         /\ sess'[s].at = "next" /\ sess'[s].todo = me.todo /\ sess'[s].chunk = {}
         /\ sess'[s].mine = me.mine /\ sess'[s].closed = me.closed
         /\ \/ \A a \in Alerts : sess'[s].object[a] = me.object[a] /\ sess'[s].base[a] = me.object[a]
            \/ \A a \in Alerts : sess'[s].object[a] = None /\ sess'[s].base[a] = None
         /\ UNCHANGED <<db, share, used>>
<1>1. me \in Session /\ me.object \in Table /\ NoRows \in Table
  BY SessionFields DEF RecurrenceTypeOK, NoRows, Table
<1>2. CASE s \in Audits
  <2> DEFINE new == [[[[me EXCEPT !.at = "next"] EXCEPT !.object = NoRows] EXCEPT !.base = NoRows] EXCEPT !.chunk = {}]
  <2>1. sess' = [sess EXCEPT ![s] = new]
    BY <1>2 DEF Flush
  <2>2. /\ new \in Session /\ new.at = "next" /\ new.todo = me.todo /\ new.chunk = {}
        /\ new.mine = me.mine /\ new.closed = me.closed /\ new.object = NoRows /\ new.base = NoRows
    BY <1>1 DEF Session
  <2>3. sess' \in [Sessions -> Session] /\ sess'[s] = new /\ \A t \in Sessions : t # s => sess'[t] = sess[t]
    <3> HIDE DEF new
    <3> QED
      BY <2>1, <2>2, OneSession
  <2>4. \A a \in Alerts : NoRows[a] = None
    BY DEF NoRows
  <2> HIDE DEF new
  <2> QED
    BY <1>1, <2>2, <2>3, <2>4 DEF Flush
<1>3. CASE s \notin Audits
  <2> DEFINE new == [[[me EXCEPT !.at = "next"] EXCEPT !.base = me.object] EXCEPT !.chunk = {}]
  <2>1. sess' = [sess EXCEPT ![s] = new]
    BY <1>3 DEF Flush
  <2>2. /\ new \in Session /\ new.at = "next" /\ new.todo = me.todo /\ new.chunk = {}
        /\ new.mine = me.mine /\ new.closed = me.closed /\ new.object = me.object /\ new.base = me.object
    BY <1>1 DEF Session
  <2>3. sess' \in [Sessions -> Session] /\ sess'[s] = new /\ \A t \in Sessions : t # s => sess'[t] = sess[t]
    <3> HIDE DEF new
    <3> QED
      BY <2>1, <2>2, OneSession
  <2> HIDE DEF new
  <2> QED
    BY <1>1, <2>2, <2>3 DEF Flush
<1> QED
  BY <1>2, <1>3

\* What the row of an alert is after a flush, beside what it was.
Outcome(s, a, row, over) ==
  /\ sess[s].object[a] # None =>
       /\ row # None /\ row.count = sess[s].object[a].count
       /\ ~over => row.first = sess[s].object[a].first /\ row.last = sess[s].object[a].last
  /\ row # None => Accounts(row, share[a] \cup sess[s].mine[a], over)
  /\ sess[s].mine[a] # {} => row # None
  /\ db[a] # None => draft[a] # None /\ row # None /\ row.open = db[a].open
  /\ row # None /\ db[a] = None => a \in sess[s].chunk \/ (writer = s /\ draft[a] # None)
  /\ row # None => \/ a \in sess[s].chunk
                   \/ db[a] # None /\ row.open = db[a].open
                   \/ draft[a] # None /\ row.open = draft[a].open
  /\ a \in sess[s].chunk => sess[s].object[a] # None

LEMMA FlushedIs ==
  ASSUME IInv, NEW s \in Sessions, CanFlush(s), writer \in {None, s},
         NEW over, over = (overwrote \/ Overwrites(s))
  PROVE  /\ Flushed(s) \in Table /\ over \in BOOLEAN
         /\ \A a \in Alerts : Outcome(s, a, Flushed(s)[a], over)
<1> SUFFICES ASSUME NEW me, me = sess[s], NEW table, table = Flushed(s)
             PROVE  table \in Table /\ over \in BOOLEAN /\ \A a \in Alerts : Outcome(s, a, table[a], over)
  OBVIOUS
<1>1. over \in BOOLEAN
  BY DEF IInv, RecurrenceTypeOK, Overwrites
<1>2. \A a \in Alerts : Written(s, a, table[a], over)
  BY FlushMakes
<1>3. \A a \in Alerts : a \in me.chunk => me.object[a] # None
  BY DEF IInv, SessionsFollow, ObjectsOf
<1>4. \A a \in Alerts : /\ db[a] # None => View(s)[a] # None /\ View(s)[a].open = db[a].open /\ draft[a] # None
                        /\ View(s)[a] = db[a] \/ (writer = s /\ View(s)[a] = draft[a])
  BY DEF IInv, Locking, View
<1>5. table \in Table
  <2>1. table = [a \in Alerts |-> table[a]]
    BY DEF Flushed
  <2> QED
    BY <1>2, <2>1 DEF Table, Written
<1> QED
  BY <1>1, <1>2, <1>3, <1>4, <1>5 DEF Outcome, Written

LEMMA FlushKeeps ==
  ASSUME IInv, NEW s \in Sessions, Flush(s)
  PROVE  IInv'
<1> SUFFICES ASSUME NEW me, me = sess[s], NEW table, table = Flushed(s),
                    NEW over, over = (overwrote \/ Overwrites(s))
             PROVE  IInv'
  OBVIOUS
<1>1. /\ me \in Session /\ me.at = "flush" /\ CanFlush(s) /\ writer \in {None, s}
      /\ writer' = s /\ draft' = table /\ overwrote' = over
      /\ sess' \in [Sessions -> Session] /\ \A t \in Sessions : t # s => sess'[t] = sess[t]
      /\ sess'[s].at = "next" /\ sess'[s].todo = me.todo /\ sess'[s].chunk = {}
      /\ sess'[s].mine = me.mine /\ sess'[s].closed = me.closed
      /\ \/ \A a \in Alerts : sess'[s].object[a] = me.object[a] /\ sess'[s].base[a] = me.object[a]
         \/ \A a \in Alerts : sess'[s].object[a] = None /\ sess'[s].base[a] = None
      /\ UNCHANGED <<db, share, used>>
  BY FlushDoes DEF IInv
<1>2. /\ table \in Table /\ over \in BOOLEAN
      /\ \A a \in Alerts :
           /\ me.object[a] # None => /\ table[a] # None /\ table[a].count = me.object[a].count
                                     /\ ~over => /\ table[a].first = me.object[a].first
                                                 /\ table[a].last = me.object[a].last
           /\ table[a] # None => Accounts(table[a], share[a] \cup me.mine[a], over)
           /\ me.mine[a] # {} => table[a] # None
           /\ db[a] # None => draft[a] # None /\ table[a] # None /\ table[a].open = db[a].open
           /\ table[a] # None /\ db[a] = None => a \in me.chunk \/ (writer = s /\ draft[a] # None)
           /\ table[a] # None =>
                a \in me.chunk \/ (\/ db[a] # None /\ table[a].open = db[a].open
                                   \/ draft[a] # None /\ table[a].open = draft[a].open)
           /\ a \in me.chunk => me.object[a] # None
  <2>1. CanFlush(s) /\ writer \in {None, s}
    BY <1>1
  <2>2. /\ table \in Table /\ over \in BOOLEAN
        /\ \A a \in Alerts : Outcome(s, a, table[a], over)
    BY <2>1, FlushedIs
  <2> QED
    BY <2>2 DEF Outcome
<1>3. s # None /\ \A t \in Sessions : t # s => writer # t
  BY <1>1, RecurrenceConstantsOK
<1>4. \A t \in Sessions, a \in Alerts : Made(t, a)' => Made(t, a)
  BY <1>1, <1>2 DEF Made
<1>5. RecurrenceTypeOK'
  BY <1>1, <1>2 DEF IInv, RecurrenceTypeOK
<1>6. Locking'
  <2>1. writer' = s /\ s # None /\ sess'[s].at # "idle"
    BY <1>1, <1>3
  <2>2. \A a \in Alerts : db'[a] # None => draft'[a] # None /\ draft'[a].open = db'[a].open
    BY <1>1, <1>2
  <2>3. \A t \in Sessions : sess'[t].at = "idle" => sess'[t] = Closed
    BY <1>1 DEF IInv, Locking
  <2> QED
    BY <2>1, <2>2, <2>3 DEF Locking
<1>7. EventsApart'
  <2>1. \A t \in Sessions : sess'[t].todo = sess[t].todo /\ sess'[t].mine = sess[t].mine
    BY <1>1
  <2>2. \A t \in Sessions, a \in Alerts : Carried(sess'[t], a) = Carried(sess[t], a)
    BY <2>1 DEF Carried
  <2>3. used' = used /\ share' = share
    BY <1>1
  <2> QED
    BY <2>1, <2>2, <2>3 DEF IInv, EventsApart
<1>8. \A t \in Sessions, a \in Alerts : /\ sess'[t].object[a] = sess[t].object[a] \/ sess'[t].object[a] = None
                                        /\ sess'[t].mine = sess[t].mine /\ sess'[t].closed = sess[t].closed
  BY <1>1
<1>9. AlertsApart'
  <2>1. \A b \in Alerts \ used' : Unknown(b)'
    <3> SUFFICES ASSUME NEW b \in Alerts, b \notin used PROVE Unknown(b)'
      BY <1>1
    <3>1. Unknown(b)
      BY DEF IInv, AlertsApart
    <3>2. table[b] = None
      BY <1>2, <3>1 DEF Unknown
    <3> QED
      BY <1>1, <1>8, <3>1, <3>2 DEF Unknown
  <2>2. \A t, u \in Sessions, b \in Alerts :
          Made(t, b)' => b \notin sess'[u].closed /\ (t # u => sess'[u].object[b] = None)
    BY <1>4, <1>8 DEF IInv, AlertsApart
  <2>3. \A t \in Sessions : \A b \in sess'[t].chunk : db'[b] = None /\ draft'[b] = None
    <3> SUFFICES ASSUME NEW t \in Sessions, NEW b \in sess'[t].chunk PROVE db[b] = None /\ table[b] = None
      BY <1>1
    <3>1. t # s /\ b \in Alerts /\ b \in sess[t].chunk
      BY <1>1, SessionFields
    <3>2. db[b] = None /\ draft[b] = None /\ Made(t, b)
      BY <3>1 DEF IInv, AlertsApart, Made
    <3>3. me.object[b] = None
      BY <3>1, <3>2 DEF IInv, AlertsApart
    <3> QED
      BY <1>2, <3>1, <3>2, <3>3
  <2>4. \A b \in Alerts : db'[b] = None => share'[b] = {}
    BY <1>1 DEF IInv, AlertsApart
  <2> QED
    BY <2>1, <2>2, <2>3, <2>4 DEF AlertsApart
<1>10. SessionsFollow'
  <2> SUFFICES ASSUME NEW t \in Sessions, NEW a \in Alerts
               PROVE  (/\ ObjectsOf(sess[t], a)
                       /\ IF writer = t THEN Writes(sess[t], a, draft[a], share[a], overwrote)
                          ELSE Reads(sess[t], a, db[a], share[a]))'
    BY DEF SessionsFollow
  <2>1. CASE t # s
    BY <1>1, <1>3, <2>1 DEF IInv, SessionsFollow
  <2>2. CASE t = s
    <3>1. ObjectsOf(me, a)
      BY DEF IInv, SessionsFollow
    <3>2. \/ sess'[s].object[a] = me.object[a] /\ sess'[s].base[a] = me.object[a]
          \/ sess'[s].object[a] = None /\ sess'[s].base[a] = None
      BY <1>1
    <3>3. ObjectsOf(sess'[s], a)
      BY <1>1, <3>1, <3>2 DEF ObjectsOf
    <3>4. me.object[a] # None => Accounts(me.object[a], share[a] \cup me.mine[a], over)
      BY <1>2 DEF Accounts, Encloses
    <3>5. Writes(sess'[s], a, table[a], share[a], over)
      BY <1>1, <1>2, <3>2, <3>4 DEF Writes
    <3> QED
      BY <1>1, <2>2, <3>3, <3>5
  <2> QED
    BY <2>1, <2>2
<1>11. RowsAccount'
  BY <1>1, <1>2 DEF IInv, RowsAccount, Rows, Accounts
<1>12. ClosedAreLeft'
  <2> SUFFICES ASSUME NEW t \in Sessions, NEW b \in sess'[t].closed
               PROVE  (sess[t].mine[b] = {} /\ (db[b] # None => ~db[b].open) /\ (draft[b] # None => ~draft[b].open))'
    BY DEF ClosedAreLeft
  <2>1. b \in Alerts /\ b \in sess[t].closed
    BY <1>1, SessionFields
  <2>2. sess[t].mine[b] = {} /\ (db[b] # None => ~db[b].open) /\ (draft[b] # None => ~draft[b].open)
    BY <2>1 DEF IInv, ClosedAreLeft
  <2>3. b \notin me.chunk
    BY <2>1 DEF IInv, AlertsApart, Made
  <2> QED
    BY <1>1, <1>2, <1>8, <2>1, <2>2, <2>3
<1> QED
  BY <1>5, <1>6, <1>7, <1>9, <1>10, <1>11, <1>12 DEF IInv

LEMMA CommitKeeps ==
  ASSUME IInv, NEW s \in Sessions, Commit(s)
  PROVE  IInv'
<1> SUFFICES ASSUME NEW me, me = sess[s], NEW table, table = Flushed(s),
                    NEW over, over = (overwrote \/ Overwrites(s))
             PROVE  IInv'
  OBVIOUS
<1>1. /\ me \in Session /\ CanFlush(s) /\ writer \in {None, s} /\ Closed \in Session
      /\ writer' = None /\ db' = table /\ draft' = table /\ overwrote' = over
      /\ sess' = [sess EXCEPT ![s] = Closed] /\ UNCHANGED used
      /\ share' = [a \in Alerts |-> share[a] \cup me.mine[a]]
  BY ClosedIs DEF Commit, IInv, RecurrenceTypeOK
<1>2. /\ sess' \in [Sessions -> Session] /\ sess'[s] = Closed
      /\ \A t \in Sessions : t # s => sess'[t] = sess[t]
  BY <1>1, OneSession DEF IInv
<1>3. /\ Closed.at = "idle" /\ Closed.chunk = {} /\ Closed.closed = {} /\ IsInjective(Closed.todo)
      /\ ToSet(Closed.todo) = {}
      /\ \A a \in Alerts : /\ Closed.object[a] = None /\ Closed.base[a] = None /\ Closed.mine[a] = {}
                           /\ Carried(Closed, a) = {}
  <2>1. ToSet(<<>>) = {} /\ IsInjective(<<>>)
    BY DEF ToSet, IsInjective
  <2> QED
    BY <2>1, ClosedIs DEF Carried
<1>4. /\ table \in Table /\ over \in BOOLEAN
      /\ \A a \in Alerts :
           /\ me.object[a] # None => /\ table[a] # None /\ table[a].count = me.object[a].count
                                     /\ ~over => /\ table[a].first = me.object[a].first
                                                 /\ table[a].last = me.object[a].last
           /\ table[a] # None => Accounts(table[a], share[a] \cup me.mine[a], over)
           /\ me.mine[a] # {} => table[a] # None
           /\ db[a] # None => draft[a] # None /\ table[a] # None /\ table[a].open = db[a].open
           /\ table[a] # None /\ db[a] = None => a \in me.chunk \/ (writer = s /\ draft[a] # None)
           /\ table[a] # None =>
                a \in me.chunk \/ (\/ db[a] # None /\ table[a].open = db[a].open
                                   \/ draft[a] # None /\ table[a].open = draft[a].open)
           /\ a \in me.chunk => me.object[a] # None
  <2>1. CanFlush(s) /\ writer \in {None, s}
    BY <1>1
  <2>2. /\ table \in Table /\ over \in BOOLEAN
        /\ \A a \in Alerts : Outcome(s, a, table[a], over)
    BY <2>1, FlushedIs
  <2> QED
    BY <2>2 DEF Outcome
<1>5. /\ None \notin Sessions /\ \A t \in Sessions : t # s => writer # t
      /\ \A a \in Alerts : /\ share'[a] = share[a] \cup me.mine[a]
                           /\ me.mine[a] \subseteq Carried(me, a)
                           /\ me.mine[a] \subseteq Events /\ share[a] \subseteq Events
  BY <1>1, RecurrenceConstantsOK, SessionFields DEF IInv, RecurrenceTypeOK, Carried
<1>6. \A t \in Sessions, a \in Alerts : Made(t, a)' => Made(t, a) /\ t # s
  BY <1>1, <1>2, <1>3, <1>5 DEF Made
<1>7. \A a \in Alerts : table[a] # None /\ db[a] = None => Made(s, a)
  BY <1>4 DEF Made
<1>8. RecurrenceTypeOK'
  BY <1>1, <1>2, <1>4, <1>5 DEF IInv, RecurrenceTypeOK
<1>9. Locking'
  BY <1>1, <1>2 DEF IInv, Locking
<1>10. EventsApart'
  <2>1. \A t \in Sessions, a \in Alerts : Carried(sess'[t], a) \subseteq Carried(sess[t], a)
    BY <1>2, <1>3
  <2>2. \A t \in Sessions : IsInjective(sess'[t].todo)
    BY <1>2, <1>3 DEF IInv, EventsApart
  <2>3. \A t \in Sessions, a \in Alerts :
          /\ Carried(sess'[t], a) \subseteq used' /\ ToSet(sess'[t].todo) \cap sess'[t].mine[a] = {}
    BY <1>1, <1>2, <1>3, <2>1 DEF IInv, EventsApart
  <2>4. \A t \in Sessions, a \in Alerts : Carried(sess'[t], a) \cap share'[a] = {}
    <3> SUFFICES ASSUME NEW t \in Sessions, NEW a \in Alerts PROVE Carried(sess'[t], a) \cap share'[a] = {}
      OBVIOUS
    <3>1. CASE t = s
      BY <1>2, <1>3, <3>1
    <3>2. CASE t # s
      <4>1. Carried(sess[t], a) \cap Carried(me, a) = {} /\ Carried(sess[t], a) \cap share[a] = {}
        BY <3>2 DEF IInv, EventsApart
      <4> QED
        BY <1>5, <2>1, <4>1
    <3> QED
      BY <3>1, <3>2
  <2>5. \A a \in Alerts : share'[a] \subseteq used'
    BY <1>1, <1>5 DEF IInv, EventsApart
  <2>6. \A t, u \in Sessions, a \in Alerts : t # u => Carried(sess'[t], a) \cap Carried(sess'[u], a) = {}
    BY <2>1 DEF IInv, EventsApart
  <2> QED
    BY <2>2, <2>3, <2>4, <2>5, <2>6 DEF EventsApart
<1>11. AlertsApart'
  <2>1. \A b \in Alerts \ used' : Unknown(b)'
    <3> SUFFICES ASSUME NEW b \in Alerts, b \notin used PROVE Unknown(b)'
      BY <1>1
    <3>1. Unknown(b)
      BY DEF IInv, AlertsApart
    <3>2. table[b] = None
      BY <1>4, <3>1 DEF Unknown
    <3> QED
      BY <1>1, <1>2, <1>3, <3>1, <3>2 DEF Unknown
  <2>2. \A t, u \in Sessions, b \in Alerts :
          Made(t, b)' => b \notin sess'[u].closed /\ (t # u => sess'[u].object[b] = None)
    BY <1>2, <1>3, <1>6 DEF IInv, AlertsApart
  <2>3. \A t \in Sessions : \A b \in sess'[t].chunk : db'[b] = None /\ draft'[b] = None
    <3> SUFFICES ASSUME NEW t \in Sessions, NEW b \in sess'[t].chunk PROVE table[b] = None
      BY <1>1
    <3>1. t # s /\ b \in sess[t].chunk /\ b \in Alerts
      BY <1>2, <1>3, SessionFields
    <3>2. db[b] = None /\ draft[b] = None /\ Made(t, b)
      BY <3>1 DEF IInv, AlertsApart, Made
    <3>3. me.object[b] = None
      BY <3>1, <3>2 DEF IInv, AlertsApart
    <3> QED
      BY <1>4, <3>1, <3>2, <3>3
  <2>4. \A b \in Alerts : db'[b] = None => share'[b] = {}
    BY <1>1, <1>4, <1>5 DEF IInv, AlertsApart
  <2> QED
    BY <2>1, <2>2, <2>3, <2>4 DEF AlertsApart
<1>12. SessionsFollow'
  <2> SUFFICES ASSUME NEW t \in Sessions, NEW a \in Alerts
               PROVE  ObjectsOf(sess'[t], a) /\ Reads(sess'[t], a, table[a], share'[a])
    BY <1>1, <1>5 DEF SessionsFollow
  <2>1. CASE t = s
    BY <1>2, <1>3, <2>1 DEF ObjectsOf, Reads
  <2>2. CASE t # s
    <3>1. ObjectsOf(sess[t], a) /\ Reads(sess[t], a, db[a], share[a]) /\ sess'[t] = sess[t]
      BY <1>2, <1>5, <2>2 DEF IInv, SessionsFollow
    <3>2. table[a] # None /\ sess[t].base[a] # None => db[a] # None
      BY <1>7, <2>2, <3>1 DEF IInv, AlertsApart, ObjectsOf
    <3>3. /\ Cardinality(share[a]) <= Cardinality(share'[a])
          /\ Cardinality(share[a]) \in Nat /\ Cardinality(share'[a]) \in Nat
      <4>1. share[a] \subseteq share'[a] /\ share'[a] \subseteq Events
        BY <1>5
      <4> QED
        BY <1>5, <4>1, MoreEvents, EventsAreFinite
    <3>4. sess[t].base[a] # None => sess[t].base[a].count \in Nat
      BY SessionFields, RowFields DEF IInv, RecurrenceTypeOK
    <3>5. table[a] # None /\ sess[t].base[a] # None => sess[t].base[a].count <= Cardinality(share'[a])
      BY <3>1, <3>2, <3>3, <3>4 DEF Reads
    <3> QED
      BY <3>1, <3>5 DEF Reads
  <2> QED
    BY <2>1, <2>2
<1>13. RowsAccount'
  BY <1>1, <1>4, <1>5 DEF RowsAccount, Rows
<1>14. ClosedAreLeft'
  <2> SUFFICES ASSUME NEW t \in Sessions, NEW b \in sess'[t].closed
               PROVE  (sess[t].mine[b] = {} /\ (db[b] # None => ~db[b].open) /\ (draft[b] # None => ~draft[b].open))'
    BY DEF ClosedAreLeft
  <2>1. t # s /\ b \in sess[t].closed /\ b \in Alerts
    BY <1>2, <1>3, SessionFields
  <2>2. sess[t].mine[b] = {} /\ (db[b] # None => ~db[b].open) /\ (draft[b] # None => ~draft[b].open)
    BY <2>1 DEF IInv, ClosedAreLeft
  <2>3. b \notin me.chunk
    BY <2>1 DEF IInv, AlertsApart, Made
  <2> QED
    BY <1>1, <1>2, <1>4, <2>1, <2>2, <2>3
<1> QED
  BY <1>8, <1>9, <1>10, <1>11, <1>12, <1>13, <1>14 DEF IInv

-----------------------------------------------------------------------------
(* The theorems. *)

LEMMA InitIInv == Init => IInv
<1> SUFFICES ASSUME Init PROVE IInv
  OBVIOUS
<1>1. /\ db = NoRows /\ draft = NoRows /\ writer = None /\ used = {} /\ overwrote = FALSE
      /\ NoRows \in Table /\ \A a \in Alerts : NoRows[a] = None
      /\ \A a \in Alerts : share[a] = {}
      /\ share \in [Alerts -> SUBSET Events]
      /\ sess \in [Sessions -> Session] /\ \A s \in Sessions : sess[s] = Closed
  BY ClosedIs DEF Init, NoRows, Table
<1>2. /\ Closed.at = "idle" /\ Closed.chunk = {} /\ Closed.closed = {} /\ ToSet(Closed.todo) = {}
      /\ IsInjective(Closed.todo)
      /\ \A a \in Alerts : /\ Closed.object[a] = None /\ Closed.base[a] = None /\ Closed.mine[a] = {}
                           /\ Carried(Closed, a) = {}
  <2>1. ToSet(<<>>) = {} /\ IsInjective(<<>>)
    BY DEF ToSet, IsInjective
  <2> QED
    BY <2>1, ClosedIs DEF Carried
<1>3. None \notin Sessions
  BY RecurrenceConstantsOK
<1>4. RecurrenceTypeOK
  BY <1>1 DEF RecurrenceTypeOK
<1>5. Locking
  BY <1>1 DEF Locking
<1>6. EventsApart
  BY <1>1, <1>2 DEF EventsApart
<1>7. AlertsApart
  BY <1>1, <1>2, <1>3 DEF AlertsApart, Unknown, Made
<1>8. SessionsFollow
  <2> SUFFICES ASSUME NEW s \in Sessions, NEW a \in Alerts
               PROVE  ObjectsOf(sess[s], a) /\ Reads(sess[s], a, db[a], share[a])
    BY <1>1, <1>3 DEF SessionsFollow
  <2> QED
    BY <1>1, <1>2 DEF ObjectsOf, Reads
<1>9. RowsAccount /\ ClosedAreLeft
  BY <1>1, <1>2 DEF RowsAccount, Rows, ClosedAreLeft
<1> QED
  BY <1>4, <1>5, <1>6, <1>7, <1>8, <1>9 DEF IInv

LEMMA NextIInv == IInv /\ [Next]_vars => IInv'
<1> SUFFICES ASSUME IInv, [Next]_vars PROVE IInv'
  OBVIOUS
<1>1. ASSUME NEW s \in Sessions, NEW todo \in Inputs, BeginUpload(s, todo) \/ BeginAudit(s, todo)
      PROVE  IInv'
  BY <1>1, BeginKeeps DEF BeginUpload, BeginAudit
<1>2. ASSUME NEW s \in Sessions, NEW a \in Alerts, Recur(s, a) \/ Insert(s, a)
      PROVE  IInv'
  BY <1>2, RecurKeeps, InsertKeeps
<1>3. ASSUME NEW s \in Sessions, Flush(s) \/ Commit(s) \/ Rollback(s)
      PROVE  IInv'
  BY <1>3, FlushKeeps, CommitKeeps, RollbackKeeps
<1>4. ASSUME NEW a \in Alerts, NEW open \in BOOLEAN, SetStatus(a, open)
      PROVE  IInv'
  BY <1>4, SetStatusKeeps
<1>5. ASSUME NEW a \in Alerts, NEW e \in Events, InsertSample(e, a)
      PROVE  IInv'
  BY <1>5, InsertSampleKeeps
<1>6. ASSUME NEW A, DeleteAlerts(A)
      PROVE  IInv'
  BY <1>6, DeleteAlertsKeeps
<1>7. CASE UNCHANGED vars
  BY <1>7 DEF vars, IInv, RecurrenceTypeOK, Locking, EventsApart, AlertsApart, Unknown, Made, SessionsFollow,
              RowsAccount, Rows, ClosedAreLeft
<1> QED
  BY <1>1, <1>2, <1>3, <1>4, <1>5, <1>6, <1>7 DEF Next, SessionStep

\* What the runs check of uploads and audits holds because of where every event and every alert
\* is at any time, and of what a session has read or written of each alert.
THEOREM RecurrenceInvariant == Spec => []IInv
BY InitIInv, NextIInv, PTL DEF Spec

\* The variables stay in their types.
THEOREM RecurrenceTypes == Spec => []RecurrenceTypeOK
<1>1. IInv => RecurrenceTypeOK
  BY DEF IInv
<1> QED
  BY <1>1, RecurrenceInvariant, PTL

\* However events are cut into uploads, audits and batches, and whatever is rolled back, closed
\* or deleted meanwhile, an alert never counts more events than it has been given, and counts each
\* of them once unless a flush wrote over what another session had committed.
THEOREM CountsAreOfEvents == Spec => []CountsAreEvents
<1>1. IInv => CountsAreEvents
  BY DEF IInv, RowsAccount, Accounts, CountsAreEvents
<1> QED
  BY <1>1, RecurrenceInvariant, PTL

\* With the same exception, first_seen and last_seen enclose every event of the alert, in whatever
\* order they arrived.
THEOREM WindowsEnclose == Spec => []WindowsEncloseEvents
<1>1. IInv => WindowsEncloseEvents
  BY DEF IInv, RowsAccount, Accounts, Encloses, WindowsEncloseEvents
<1> QED
  BY <1>1, RecurrenceInvariant, PTL

\* No event recurs on an alert that an analyst had closed before the session began and has not
\* reopened, though the candidates in memory are never asked for their status again.
THEOREM ClosedDoNotRecur == Spec => []ClosedAlertsDoNotRecur
<1>1. IInv => ClosedAlertsDoNotRecur
  BY DEF IInv, ClosedAreLeft, ClosedAlertsDoNotRecur
<1> QED
  BY <1>1, RecurrenceInvariant, PTL
=============================================================================

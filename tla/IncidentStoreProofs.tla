-------------------------- MODULE IncidentStoreProofs --------------------------
(***************************************************************************)
(* Proofs about IncidentStore for any number of sessions, alerts,          *)
(* incidents and keys, every window, every cap and every set of drills.    *)
(*                                                                         *)
(* The argument.  A session that has an ingested alert is the writer, from *)
(* the insertion to the end: what it finds unlinked includes all that is   *)
(* ingested and not yet linked (WriterHasTheRest), its objects are the     *)
(* rows as the draft has them (Fresh), and nobody else links ingested      *)
(* alerts.  Every other session has drills only (OutsidersHaveDrills); its *)
(* objects may be stale, so what it writes counts for an incident only     *)
(* once a drill is linked to it.                                           *)
(*                                                                         *)
(* At the end, the refinement: the commit of the writer is a Record of     *)
(* IncidentLedger, as everything it has ingested is linked by then and     *)
(* what it opened is still open (EntriesHold).                             *)
(***************************************************************************)
EXTENDS IncidentStore, FiniteSetTheorems, WellFoundedInduction, TLAPS

-----------------------------------------------------------------------------
(* The least and the greatest of some numbers. *)

\* A set of numbers has an element below the others, by a well-founded order.
LEMMA LeastBy ==
  ASSUME NEW T, T \subseteq Nat, T # {}, NEW R, IsWellFoundedOn(R, Nat),
         \A x, y \in Nat : x < y => <<x, y>> \in R
  PROVE  \E x \in T : \A y \in T : x <= y
<1>1. PICK x \in T : \A y \in T : ~ (<<y, x>> \in R)
  BY WFMin, ZenonT(60)
<1>2. ASSUME NEW y \in T PROVE x <= y
  <2>1. x \in Nat /\ y \in Nat
    OBVIOUS
  <2>2. ~ (y < x)
    BY <1>1, <2>1
  <2> QED
    BY <2>1, <2>2
<1> QED
  BY <1>2

\* A set of numbers has a least element.
LEMMA LeastNatural ==
  ASSUME NEW S, S \subseteq Nat, S # {}
  PROVE  \E x \in S : \A y \in S : x <= y
<1>1. IsWellFoundedOn(OpToRel(<, Nat), Nat)
  BY NatLessThanWellFounded
<1>2. \A x, y \in Nat : x < y => <<x, y>> \in OpToRel(<, Nat)
  BY DEF OpToRel
<1> QED
  BY <1>1, <1>2, LeastBy

\* Min is that element.
LEMMA MinIsLeast ==
  ASSUME NEW S, S \subseteq Nat, S # {}
  PROVE  Min(S) \in S /\ Min(S) \in Nat /\ \A x \in S : Min(S) <= x
<1>1. \E x \in S : \A y \in S : x <= y
  BY LeastNatural
<1> QED
  BY <1>1 DEF Min

\* A set with an upper bound has a greatest element: its least upper bound.
LEMMA GreatestNatural ==
  ASSUME NEW S, S \subseteq Nat, S # {}, NEW bound \in Nat, \A x \in S : x <= bound
  PROVE  \E x \in S : \A y \in S : y <= x
<1> DEFINE B == {n \in Nat : \A x \in S : x <= n}
<1>1. PICK m \in B : \A n \in B : m <= n
  <2>1. bound \in B /\ B \subseteq Nat
    OBVIOUS
  <2> HIDE DEF B
  <2> QED
    BY <2>1, LeastNatural
<1>2. m \in Nat /\ \A x \in S : x <= m
  OBVIOUS
<1>3. m \in S
  <2> SUFFICES ASSUME m \notin S PROVE FALSE
    OBVIOUS
  <2>1. \A x \in S : x \in Nat /\ x < m
    BY <1>2
  <2>2. PICK x \in S : TRUE
    OBVIOUS
  <2>3. m - 1 \in Nat /\ \A y \in S : y <= m - 1
    BY <2>1, <2>2, <1>2
  <2> QED
    BY <2>3, <1>1, <1>2
<1> QED
  BY <1>2, <1>3

\* Max is the greatest element of a set that has a bound.
LEMMA MaxIsGreatest ==
  ASSUME NEW S, S \subseteq Nat, S # {}, NEW bound \in Nat, \A x \in S : x <= bound
  PROVE  Max(S) \in S /\ Max(S) \in Nat /\ \A x \in S : x <= Max(S)
<1>1. \E x \in S : \A y \in S : y <= x
  BY GreatestNatural
<1>2. \E x \in S : \A y \in S : x >= y
  BY <1>1
<1> QED
  BY <1>2 DEF Max

\* Finitely many numbers have an upper bound.
LEMMA ListedIsBounded ==
  ASSUME NEW n \in Nat, NEW f, \A j \in 1 .. n : f[j] \in Nat
  PROVE  \E bound \in Nat : \A j \in 1 .. n : f[j] <= bound
<1> DEFINE Bounded(k) == \E bound \in Nat : \A j \in 1 .. k : f[j] <= bound
           K == {k \in 0 .. n : ~Bounded(k)}
<1>1. K = {}
  <2> SUFFICES ASSUME K # {} PROVE FALSE
    OBVIOUS
  <2>1. K \subseteq Nat
    OBVIOUS
  <2>2. PICK k \in K : \A m \in K : k <= m
    <3> HIDE DEF K
    <3> QED
      BY <2>1, LeastNatural
  <2>3. k # 0
    <3>1. 0 \in Nat /\ \A j \in 1 .. 0 : f[j] <= 0
      OBVIOUS
    <3>2. Bounded(0)
      BY <3>1
    <3> QED
      BY <3>2
  <2>4. k \in 1 .. n /\ k - 1 \in 0 .. n /\ ~(k <= k - 1)
    BY <2>3
  <2>5. Bounded(k - 1)
    BY <2>2, <2>4
  <2>6. PICK b \in Nat : \A j \in 1 .. (k - 1) : f[j] <= b
    BY <2>5
  <2>7. f[k] \in Nat /\ b + f[k] \in Nat
    BY <2>4
  <2>8. \A j \in 1 .. k : f[j] <= b + f[k]
    <3> SUFFICES ASSUME NEW j \in 1 .. k PROVE f[j] <= b + f[k]
      OBVIOUS
    <3>1. f[j] \in Nat
      BY <2>4
    <3>2. j = k \/ j \in 1 .. (k - 1)
      BY <2>4
    <3>3. CASE j = k
      BY <2>7, <3>3
    <3>4. CASE j \in 1 .. (k - 1)
      BY <2>6, <2>7, <3>1, <3>4
    <3> QED
      BY <3>2, <3>3, <3>4
  <2> QED
    BY <2>7, <2>8
<1>2. n \in 0 .. n /\ n \notin K
  BY <1>1
<1>3. Bounded(n)
  BY <1>2
<1> QED
  BY <1>3

\* A finite set of numbers has a bound.
LEMMA FiniteIsBounded ==
  ASSUME NEW T, T \subseteq Nat, IsFiniteSet(T)
  PROVE  \E bound \in Nat : \A x \in T : x <= bound
<1>1. Cardinality(T) \in Nat /\ ExistsBijection(1 .. Cardinality(T), T)
  BY FS_CardinalityType
<1>2. PICK n \in Nat : ExistsBijection(1 .. n, T)
  BY <1>1
<1>3. PICK f \in [1 .. n -> T] : \A x \in T : \E j \in 1 .. n : f[j] = x
  BY <1>2 DEF ExistsBijection, Bijection, Surjection, Injection
<1>4. \A j \in 1 .. n : f[j] \in Nat
  BY <1>3
<1>5. PICK bound \in Nat : \A j \in 1 .. n : f[j] <= bound
  BY <1>4, ListedIsBounded
<1> QED
  BY <1>3, <1>5

-----------------------------------------------------------------------------
(* Clusters and their times. *)

\* The window of a cluster encloses it.
LEMMA WindowEncloses ==
  ASSUME NEW c, c \subseteq Alerts, c # {}
  PROVE  /\ First(c) \in Nat /\ Last(c) \in Nat
         /\ \A a \in c : First(c) <= TimeOf[a] /\ TimeOf[a] <= Last(c)
<1> DEFINE T == {TimeOf[a] : a \in c}
<1>1. TimeOf \in [Alerts -> Nat] /\ IsFiniteSet(Alerts)
  BY StoreConstantsOK
<1>2. T \subseteq Nat /\ T # {}
  BY <1>1
<1>3. IsFiniteSet(c)
  BY <1>1, FS_Subset
<1>4. [a \in c |-> TimeOf[a]] \in Surjection(c, T)
  BY DEF Surjection
<1>5. IsFiniteSet(T)
  BY <1>3, <1>4, FS_Surjection
<1>6. \A a \in c : TimeOf[a] \in T
  OBVIOUS
<1>7. First(c) = Min(T) /\ Last(c) = Max(T)
  BY DEF First, Last
<1> HIDE DEF T
<1>8. Min(T) \in Nat /\ \A x \in T : Min(T) <= x
  BY <1>2, MinIsLeast
<1>9. Max(T) \in Nat /\ \A x \in T : x <= Max(T)
  <2>1. PICK bound \in Nat : \A x \in T : x <= bound
    BY <1>2, <1>5, FiniteIsBounded
  <2> QED
    BY <1>2, <2>1, MaxIsGreatest
<1> QED
  BY <1>6, <1>7, <1>8, <1>9

\* The least and the greatest of two numbers.
LEMMA MinMaxOfTwo ==
  ASSUME NEW x \in Nat, NEW y \in Nat
  PROVE  /\ Min({x, y}) \in Nat /\ Min({x, y}) <= x /\ Min({x, y}) <= y
         /\ Max({x, y}) \in Nat /\ x <= Max({x, y}) /\ y <= Max({x, y})
<1>1. {x, y} \subseteq Nat /\ {x, y} # {} /\ x + y \in Nat /\ \A z \in {x, y} : z <= x + y
  OBVIOUS
<1>2. Min({x, y}) \in Nat /\ \A z \in {x, y} : Min({x, y}) <= z
  BY <1>1, MinIsLeast
<1>3. Max({x, y}) \in Nat /\ \A z \in {x, y} : z <= Max({x, y})
  BY <1>1, MaxIsGreatest
<1> QED
  BY <1>2, <1>3

SameKey(c) == \A a, b \in c : KeyOf[a] = KeyOf[b]

\* The key of a cluster is that of each of its alerts.
LEMMA KeyOfClusterOK ==
  ASSUME NEW c, c \subseteq Alerts, c # {}, SameKey(c)
  PROVE  KeyOfCluster(c) \in Keys /\ \A a \in c : KeyOf[a] = KeyOfCluster(c)
<1>1. KeyOf \in [Alerts -> Keys]
  BY StoreConstantsOK
<1>2. (CHOOSE a \in c : TRUE) \in c
  OBVIOUS
<1> QED
  BY <1>1, <1>2 DEF KeyOfCluster, SameKey

\* _cluster_by_time partitions the alerts it is given, key by key.
LEMMA ClustersPartition ==
  ASSUME NEW A, A \subseteq Alerts
  PROVE  /\ \A c \in Clusters(A) : c \subseteq A /\ c # {} /\ SameKey(c)
         /\ \A c, d \in Clusters(A) : c # d => c \cap d = {}
         /\ A \subseteq UNION Clusters(A)
<1> DEFINE Times(k)  == {TimeOf[a] : a \in {b \in A : KeyOf[b] = k}}
           Starts(k) == {t \in Times(k) : \A u \in Times(k) : u >= t \/ u + Window < t}
           From(k, t) == {a \in A : /\ KeyOf[a] = k /\ t <= TimeOf[a]
                                    /\ \A u \in Starts(k) : u <= t \/ TimeOf[a] < u}
<1>1. Clusters(A) = UNION {{From(k, t) : t \in Starts(k)} : k \in Keys}
  BY DEF Clusters
<1>2. /\ KeyOf \in [Alerts -> Keys] /\ TimeOf \in [Alerts -> Nat] /\ Window \in Nat
  BY StoreConstantsOK
<1>3. /\ \A c \in Clusters(A) : \E k \in Keys : \E t \in Starts(k) : c = From(k, t)
      /\ \A k \in Keys : \A t \in Starts(k) : From(k, t) \in Clusters(A)
  <2> HIDE DEF From, Starts
  <2> QED
    BY <1>1
<1>5. \A k \in Keys : Starts(k) \subseteq Nat /\ Times(k) \subseteq Nat
  BY <1>2
<1>6. ASSUME NEW c \in Clusters(A) PROVE c \subseteq A /\ c # {} /\ SameKey(c)
  <2>1. PICK k \in Keys : \E t \in Starts(k) : c = From(k, t)
    BY <1>3
  <2>1a. PICK t \in Starts(k) : c = From(k, t)
    BY <2>1
  <2>2. PICK a \in A : KeyOf[a] = k /\ TimeOf[a] = t
    OBVIOUS
  <2>3. t \in Nat /\ \A u \in Starts(k) : u \in Nat /\ (u <= t \/ t < u)
    <3>1. Starts(k) \subseteq Nat
      BY <1>5
    <3> HIDE DEF Starts
    <3> QED
      BY <3>1
  <2>4. a \in From(k, t)
    BY <2>2, <2>3
  <2> QED
    BY <2>1a, <2>4 DEF SameKey
<1>7. ASSUME NEW c \in Clusters(A), NEW d \in Clusters(A), NEW a \in c, a \in d PROVE c = d
  <2>1. PICK k \in Keys : \E t \in Starts(k) : c = From(k, t)
    BY <1>3
  <2>1a. PICK t \in Starts(k) : c = From(k, t)
    BY <2>1
  <2>2. PICK l \in Keys : \E u \in Starts(l) : d = From(l, u)
    BY <1>3
  <2>2a. PICK u \in Starts(l) : d = From(l, u)
    BY <2>2
  <2>3. k = l
    BY <1>7, <2>1a, <2>2a
  <2>4. t \in Nat /\ u \in Nat /\ TimeOf[a] \in Nat
    BY <1>2, <1>5, <2>1
  <2>5. t <= TimeOf[a] /\ u <= TimeOf[a] /\ (u <= t \/ TimeOf[a] < u) /\ (t <= u \/ TimeOf[a] < t)
    BY <1>7, <2>1a, <2>2a, <2>3
  <2>6. t = u
    BY <2>4, <2>5
  <2> QED
    BY <2>1a, <2>2a, <2>3, <2>6
<1>8. ASSUME NEW a \in A PROVE a \in UNION Clusters(A)
  <2> DEFINE k == KeyOf[a]
             E == {t \in Starts(k) : t <= TimeOf[a]}
  <2>1. k \in Keys /\ TimeOf[a] \in Times(k) /\ TimeOf[a] \in Nat
    BY <1>2
  <2>2. PICK t \in Times(k) : \A u \in Times(k) : t <= u
    <3>1. Times(k) \subseteq Nat /\ Times(k) # {}
      BY <1>5, <2>1
    <3> HIDE DEF Times
    <3> QED
      BY <3>1, LeastNatural
  <2>3. t \in E
    <3>1. \A u \in Times(k) : u >= t
      BY <2>2, <2>1, <1>5
    <3> QED
      BY <2>1, <2>2, <3>1
  <2>4. E \subseteq Nat /\ \A u \in E : u <= TimeOf[a]
    BY <1>5, <2>1
  <2>5. PICK v \in E : \A u \in E : u <= v
    <3> HIDE DEF E
    <3> QED
      BY <2>1, <2>3, <2>4, GreatestNatural
  <2>6. \A u \in Starts(k) : u <= v \/ TimeOf[a] < u
    <3> SUFFICES ASSUME NEW u \in Starts(k), ~(TimeOf[a] < u) PROVE u <= v
      OBVIOUS
    <3>1. u \in Nat
      BY <1>5, <2>1
    <3>2. u \in E
      BY <3>1, <2>1
    <3> QED
      BY <3>2, <2>5
  <2>7. v \in Starts(k) /\ v <= TimeOf[a]
    BY <2>5
  <2>8. a \in From(k, v)
    BY <2>6, <2>7
  <2>9. From(k, v) \in Clusters(A)
    <3> HIDE DEF From, Starts
    <3> QED
      BY <1>3, <2>1, <2>7
  <2> QED
    BY <2>8, <2>9
<1>9. \A c, d \in Clusters(A) : c # d => c \cap d = {}
  BY <1>7
<1> QED
  BY <1>6, <1>8, <1>9

-----------------------------------------------------------------------------
(* Links and their number. *)

\* An incident has finitely many links.
LEMMA LinksAreFinite ==
  ASSUME NEW tables \in Tables, NEW i \in Incidents
  PROVE  /\ IsFiniteSet(LinksOf(tables, i)) /\ Cardinality(LinksOf(tables, i)) \in Nat
         /\ LinksOf(tables, i) # {} => Cardinality(LinksOf(tables, i)) \in Nat \ {0}
<1> DEFINE A == {a \in Alerts : <<i, a>> \in tables.links}
           f == [a \in A |-> <<i, a>>]
<1>1. tables.links \subseteq Incidents \X Alerts
  BY DEF Tables
<1>2. IsFiniteSet(A)
  BY StoreConstantsOK, FS_Subset
<1>3. f \in Surjection(A, LinksOf(tables, i))
  BY <1>1 DEF Surjection, LinksOf
<1>4. IsFiniteSet(LinksOf(tables, i))
  BY <1>2, <1>3, FS_Surjection
<1> QED
  BY <1>4, FS_CardinalityType, FS_EmptySet

\* A new incident has as many links as its cluster has alerts.
LEMMA LinksOfCluster ==
  ASSUME NEW c, c \subseteq Alerts, c # {}, NEW i
  PROVE  Cardinality(c) \in Nat \ {0} /\ Cardinality({i} \X c) = Cardinality(c)
<1>1. IsFiniteSet(c)
  BY StoreConstantsOK, FS_Subset
<1> DEFINE f == [a \in c |-> <<i, a>>]
<1>2. f \in Bijection(c, {i} \X c)
  <2>1. f \in [c -> {i} \X c] /\ \A a \in c : f[a] = <<i, a>>
    OBVIOUS
  <2>2. ASSUME NEW p \in {i} \X c PROVE \E a \in c : f[a] = p
    <3>1. p = <<i, p[2]>> /\ p[2] \in c
      OBVIOUS
    <3> QED
      BY <3>1
  <2>3. \A a, b \in c : f[a] = f[b] => a = b
    OBVIOUS
  <2> QED
    <3>1. f \in Surjection(c, {i} \X c)
      BY <2>1, <2>2 DEF Surjection
    <3>2. f \in Injection(c, {i} \X c)
      BY <2>1, <2>3 DEF Injection, IsInjective
    <3> QED
      BY <3>1, <3>2 DEF Bijection
<1>3. ExistsBijection(c, {i} \X c)
  BY <1>2 DEF ExistsBijection
<1> QED
  BY <1>1, <1>3, FS_Bijection, FS_CardinalityType, FS_EmptySet

\* A set with no two members has at most one.
LEMMA AtMostOne ==
  ASSUME NEW S, \A x, y \in S : x = y
  PROVE  Cardinality(S) <= 1
<1>1. CASE S = {}
  BY <1>1, FS_EmptySet
<1>2. ASSUME NEW x \in S PROVE Cardinality(S) <= 1
  <2>1. S = {x}
    OBVIOUS
  <2> QED
    BY <2>1, FS_Singleton
<1> QED
  BY <1>1, <1>2

\* The alerts a session has yet to link.
Mine(s) == sess[s].cluster \cup UNION sess[s].todo
OnlyDrills(s) == Mine(s) \subseteq Drills
\* An incident that has a drill.
Drilled(tables, i) == \E a \in Drills : <<i, a>> \in tables.links
DrillKeys == {KeyOf[a] : a \in Drills}

\* Without a writer nothing waits for a commit; the writer takes nothing away.
Locking ==
  /\ writer = None => draft = db
  /\ writer # None => sess[writer].at \in {"read", "match", "write", "commit"}
  /\ db.alerts \subseteq draft.alerts /\ db.links \subseteq draft.links
  /\ \A i \in Incidents : db.incidents[i] # None =>
       /\ draft.incidents[i] # None
       /\ draft.incidents[i].key = db.incidents[i].key
       /\ draft.incidents[i].open = db.incidents[i].open

\* What a session has at each place.
Phase(s) ==
  /\ sess[s].at \in {"idle", "read"} => sess[s] = [Closed EXCEPT !.at = sess[s].at]
  /\ sess[s].at \in {"match", "commit"} => sess[s].cluster = {}
  /\ sess[s].at \in {"commit", "delete"} => sess[s].todo = {}
  /\ sess[s].at = "match" => sess[s].todo # {}
  /\ sess[s].at = "write" => sess[s].cluster # {}
  /\ sess[s].at = "delete" => sess[s].pending = None

Phases == \A s \in Sessions : Phase(s)

\* The clusters of a session share no alert, and each has one key.
ClustersApart ==
  \A s \in Sessions :
    /\ SameKey(sess[s].cluster)
    /\ \A c \in sess[s].todo :
         /\ c # {} /\ SameKey(c) /\ c \cap sess[s].cluster = {}
         /\ \A d \in sess[s].todo : c # d => c \cap d = {}

\* The objects that are referred to are there, with the key of their row.
ObjectsLoaded ==
  \A s \in Sessions :
    /\ \A k \in Keys : sess[s].cache[k] # None =>
         /\ sess[s].loaded[sess[s].cache[k]] # None
         /\ sess[s].loaded[sess[s].cache[k]].key = k
    /\ sess[s].pending # None => sess[s].loaded[sess[s].pending] # None
    /\ sess[s].at = "write" /\ sess[s].target # None =>
         /\ sess[s].loaded[sess[s].target] # None
         /\ sess[s].loaded[sess[s].target].key = KeyOfCluster(sess[s].cluster)
    /\ \A i \in Incidents : sess[s].loaded[i] # None /\ draft.incidents[i] # None
         => sess[s].loaded[i].key = draft.incidents[i].key

\* Only the writer has ingested alerts.
OutsidersHaveDrills ==
  \A s \in Sessions : writer # s /\ sess[s].at # "delete" => OnlyDrills(s)

\* The writer has all that is ingested and not yet linked.
WriterHasTheRest ==
  writer # None =>
    /\ \A a \in Mine(writer) \ Drills : a \in draft.alerts /\ ~Linked(draft, a)
    /\ sess[writer].at # "read" => Unlinked(draft) \ Drills \subseteq Mine(writer)

\* No ingested alert is linked twice, committed or not.
OneEach ==
  \A a \in Ingested : \A i, j \in Incidents :
    <<i, a>> \in draft.links /\ <<j, a>> \in draft.links => i = j

\* The links of ingested alerts have both ends.
Whole(tables) ==
  \A i \in Incidents : \A a \in Ingested : <<i, a>> \in tables.links =>
    tables.incidents[i] # None /\ a \in tables.alerts

\* A deletion has found every link there is of an ingested alert.
DeletesFound ==
  \A s \in Sessions : sess[s].at = "delete" => \A a \in sess[s].cluster :
    /\ a \in draft.alerts => a \in db.alerts
    /\ a \in Ingested => \A i \in Incidents : <<i, a>> \in draft.links => sess[s].loaded[i] # None

\* The objects of a session are the rows of the draft, but for a pending count.
Fresh(s) ==
  \A i \in Incidents : sess[s].loaded[i] # None =>
    /\ draft.incidents[i] # None
    /\ sess[s].loaded[i].open = draft.incidents[i].open
    /\ sess[s].loaded[i].first = draft.incidents[i].first
    /\ sess[s].loaded[i].last = draft.incidents[i].last
    /\ sess[s].pending # i => sess[s].loaded[i].count = draft.incidents[i].count

\* The objects of a writer that ingests are fresh, and its target is open.
WriterIsFresh ==
  writer # None /\ ~OnlyDrills(writer) =>
    /\ Fresh(writer)
    /\ sess[writer].at = "write" /\ sess[writer].target # None /\ ~(sess[writer].cluster \subseteq Drills)
          => draft.incidents[sess[writer].target].open

\* The windows, of the committed rows and of the draft.
Covered(tables) ==
  \A i \in Incidents : \A a \in Ingested :
    /\ <<i, a>> \in tables.links /\ tables.incidents[i] # None
    /\ tables.incidents[i].key \notin DrillKeys \/ (deletions = 0 /\ ~Drilled(tables, i))
    => tables.incidents[i].first <= TimeOf[a] /\ TimeOf[a] <= tables.incidents[i].last

\* The count of an incident without drills.
Exact(tables, i) ==
  tables.incidents[i] # None /\ ~Drilled(tables, i)
    => tables.incidents[i].count = Cardinality(LinksOf(tables, i))

\* Every count is right or about to be: it is pending in the writer.
CountsHold ==
  deletions = 0 =>
    /\ \A i \in Incidents : Exact(db, i)
    /\ \A i \in Incidents : writer = None \/ sess[writer].pending # i => Exact(draft, i)
    /\ \A s \in Sessions : sess[s].pending # None =>
         \/ Drilled(View(s), sess[s].pending)
         \/ /\ writer = s
            /\ sess[s].loaded[sess[s].pending].count
                 = Cardinality(LinksOf(draft, sess[s].pending))

\* What the writer will commit goes to incidents that are open.
NewLinksAreOpen ==
  \A i \in Incidents : \A a \in Ingested :
    <<i, a>> \in draft.links /\ <<i, a>> \notin db.links /\ db.incidents[i] # None
      => db.incidents[i].open

\* A step of one session.
LEMMA PhasesAfter ==
  ASSUME Phases, NEW s \in Sessions, \A t \in Sessions : t # s => sess'[t] = sess[t], Phase(s)'
  PROVE  Phases'
<1> SUFFICES ASSUME NEW t \in Sessions, t # s PROVE Phase(t)'
  BY DEF Phases
<1>1. Phase(t) /\ sess'[t] = sess[t]
  BY DEF Phases
<1> QED
  BY <1>1 DEF Phase

\* The fields of a session.
LEMMA SessionFields ==
  ASSUME StoreTypeOK, NEW s \in Sessions
  PROVE  /\ sess[s] \in Session
         /\ sess[s].at \in {"idle", "read", "match", "write", "commit", "delete"}
         /\ sess[s].todo \in SUBSET SUBSET Alerts
         /\ sess[s].cluster \in SUBSET Alerts
         /\ sess[s].target \in Incidents \cup {None}
         /\ sess[s].cache \in [Keys -> Incidents \cup {None}]
         /\ sess[s].loaded \in [Incidents -> IncidentRow]
         /\ sess[s].pending \in Incidents \cup {None}
  BY DEF StoreTypeOK, Session

\* The fields of a row.
LEMMA RowFields ==
  ASSUME NEW row \in IncidentRow, row # None
  PROVE  /\ row \in Incident
         /\ row.key \in Keys /\ row.open \in BOOLEAN
         /\ row.count \in Nat /\ row.count # 0 /\ row.first \in Nat /\ row.last \in Nat
  BY DEF IncidentRow, Incident

\* The tables.
LEMMA TableFields ==
  ASSUME NEW tables \in Tables
  PROVE  /\ tables.alerts \subseteq Alerts /\ tables.links \subseteq Incidents \X Alerts
         /\ tables.incidents \in [Incidents -> IncidentRow]
         /\ \A i \in Incidents : tables.incidents[i] \in IncidentRow
  BY DEF Tables

-----------------------------------------------------------------------------
(* What a flush and a merge write. *)

\* The rows a flush leaves: only the pending count changes.
LEMMA FlushedTables ==
  ASSUME StoreTypeOK, ObjectsLoaded, NEW s \in Sessions, CanFlush(s)
  PROVE  /\ Flushed(s) \in Tables
         /\ Flushed(s).alerts = View(s).alerts /\ Flushed(s).links = View(s).links
         /\ \A k \in Incidents :
              LET row == View(s).incidents[k] IN
              Flushed(s).incidents[k] =
                IF k = sess[s].pending THEN [row EXCEPT !.count = sess[s].loaded[k].count] ELSE row
<1> DEFINE i == sess[s].pending
           v == View(s)
<1>1. v \in Tables
  BY DEF View, StoreTypeOK
<1>2. i \in Incidents \cup {None} /\ None \notin Incidents
  BY SessionFields, StoreConstantsOK
<1>3. CASE i = None
  BY <1>1, <1>2, <1>3 DEF Flushed
<1>4. CASE i # None
  <2>1. i \in Incidents /\ sess[s].loaded[i] # None /\ v.incidents[i] # None
    BY <1>2, <1>4 DEF ObjectsLoaded, CanFlush
  <2>2. sess[s].loaded[i] \in Incident
    BY <2>1, SessionFields, RowFields
  <2>3. v.incidents[i] \in Incident
    BY <1>1, <2>1, TableFields, RowFields
  <2> DEFINE n == sess[s].loaded[i].count
             f == [v.incidents EXCEPT ![i] = [@ EXCEPT !.count = n]]
  <2>4. n \in Nat \ {0}
    BY <2>2 DEF Incident
  <2>5. [v.incidents[i] EXCEPT !.count = n] \in Incident
    BY <2>3, <2>4 DEF Incident
  <2>6. v.incidents \in [Incidents -> IncidentRow]
    BY <1>1, TableFields
  <2>7. f \in [Incidents -> IncidentRow]
    BY <2>1, <2>5, <2>6 DEF IncidentRow
  <2>8. Flushed(s) = [v EXCEPT !.incidents = f]
    BY <1>4 DEF Flushed
  <2>9. Flushed(s) = [alerts |-> v.alerts, incidents |-> f, links |-> v.links]
    BY <2>8, <1>1 DEF Tables
  <2>10. /\ Flushed(s).alerts = v.alerts /\ Flushed(s).links = v.links
         /\ Flushed(s).incidents = f
    BY <2>9
  <2>11. Flushed(s) \in Tables
    <3> HIDE DEF v, f
    <3> QED
      BY <1>1, <2>7, <2>9 DEF Tables
  <2>12. \A k \in Incidents :
           f[k] = IF k = i THEN [v.incidents[k] EXCEPT !.count = sess[s].loaded[k].count]
                  ELSE v.incidents[k]
    <3> HIDE DEF v
    <3> QED
      BY <2>1, <2>6
  <2> QED
    BY <2>10, <2>11, <2>12, Zenon
<1> QED
  BY <1>3, <1>4

\* A window that grows encloses the old one and the alerts of the cluster.
LEMMA WidenedObject ==
  ASSUME NEW object \in Incident, NEW c, c \subseteq Alerts, c # {}
  PROVE  /\ Widened(object, c) \in Incident
         /\ Widened(object, c).key = object.key /\ Widened(object, c).open = object.open
         /\ Widened(object, c).count = object.count
         /\ Widened(object, c).first <= object.first /\ object.last <= Widened(object, c).last
         /\ \A a \in c : Widened(object, c).first <= TimeOf[a] /\ TimeOf[a] <= Widened(object, c).last
<1>1. First(c) \in Nat /\ Last(c) \in Nat /\ \A a \in c : First(c) <= TimeOf[a] /\ TimeOf[a] <= Last(c)
  BY WindowEncloses
<1>2. object.first \in Nat /\ object.last \in Nat
  BY DEF Incident
<1> DEFINE f == Min({object.first, First(c)})
           l == Max({object.last, Last(c)})
<1>3. f \in Nat /\ f <= object.first /\ f <= First(c)
  BY <1>1, <1>2, MinMaxOfTwo
<1>4. l \in Nat /\ object.last <= l /\ Last(c) <= l
  BY <1>1, <1>2, MinMaxOfTwo
<1>5. Widened(object, c) = [object EXCEPT !.first = f, !.last = l]
  BY DEF Widened
<1>6. \A a \in c : f <= TimeOf[a] /\ TimeOf[a] <= l
  <2> SUFFICES ASSUME NEW a \in c PROVE f <= TimeOf[a] /\ TimeOf[a] <= l
    OBVIOUS
  <2>1. TimeOf[a] \in Nat
    BY StoreConstantsOK
  <2> HIDE DEF f, l
  <2> QED
    BY <1>1, <1>3, <1>4, <2>1
<1> HIDE DEF f, l
<1> QED
  BY <1>3, <1>4, <1>5, <1>6 DEF Incident

\* A row after an UPDATE.
LEMMA UpdatedRow ==
  ASSUME NEW row \in Incident, NEW old \in Incident, NEW object \in Incident
  PROVE  /\ Updated(row, old, object) \in Incident
         /\ Updated(row, old, object).key = row.key /\ Updated(row, old, object).open = row.open
         /\ Updated(row, old, object).count = row.count
         /\ Updated(row, old, object).first = IF object.first # old.first THEN object.first ELSE row.first
         /\ Updated(row, old, object).last = IF object.last # old.last THEN object.last ELSE row.last
  BY DEF Updated, Incident

\* The link rows of an incident depend on the links alone.
LEMMA LinksOfLinks ==
  ASSUME NEW t, NEW u, NEW i, t.links = u.links
  PROVE  LinksOf(t, i) = LinksOf(u, i)
  BY DEF LinksOf

\* What the cluster at hand and its incident are.
LEMMA AtHand ==
  ASSUME StoreTypeOK, Phases, ClustersApart, ObjectsLoaded, NEW s \in Sessions, sess[s].at = "write"
  PROVE  /\ sess[s].cluster \subseteq Alerts /\ sess[s].cluster # {}
         /\ KeyOfCluster(sess[s].cluster) \in Keys
         /\ \A a \in sess[s].cluster : KeyOf[a] = KeyOfCluster(sess[s].cluster)
         /\ sess[s].target # None =>
              /\ sess[s].target \in Incidents
              /\ sess[s].loaded[sess[s].target] \in Incident
              /\ sess[s].loaded[sess[s].target].key = KeyOfCluster(sess[s].cluster)
<1>1. sess[s].cluster \subseteq Alerts /\ sess[s].cluster # {} /\ SameKey(sess[s].cluster)
  BY SessionFields DEF Phases, Phase, ClustersApart
<1>2. sess[s].target # None =>
        /\ sess[s].target \in Incidents
        /\ sess[s].loaded[sess[s].target] \in IncidentRow /\ sess[s].loaded[sess[s].target] # None
        /\ sess[s].loaded[sess[s].target].key = KeyOfCluster(sess[s].cluster)
  BY SessionFields DEF ObjectsLoaded
<1> QED
  BY <1>1, <1>2, KeyOfClusterOK, RowFields

\* What a merge does to its session, and that it flushes or leaves everything as it was.
Merged(s) ==
  LET me  == sess[s]
      i   == me.target
      c   == me.cluster
      obj == Widened(me.loaded[i], c)
      after == sess'[s]
  IN /\ sess' \in [Sessions -> Session]
     /\ \A t \in Sessions : t # s => sess'[t] = sess[t]
     /\ after.at = (IF me.todo = {} THEN "commit" ELSE "match")
     /\ after.todo = me.todo /\ after.cluster = {}
     /\ after.target = None
     /\ \A k \in Keys : after.cache[k] = IF k = KeyOfCluster(c) THEN i ELSE me.cache[k]
     /\ \A j \in Incidents : j # i => after.loaded[j] = me.loaded[j]
     /\ after.loaded[i] \in Incident
     /\ after.loaded[i].key = obj.key /\ after.loaded[i].open = obj.open
     /\ after.loaded[i].first = obj.first /\ after.loaded[i].last = obj.last
     /\ after.loaded[i].count
          = Cardinality({link \in View(s).links \cup ({i} \X c) : link[1] = i})
     /\ after.pending = IF after.loaded[i].count # me.loaded[i].count THEN i ELSE None

MergedQuietly(s) ==
  LET me == sess[s]
      i  == me.target
      c  == me.cluster
  IN /\ Merged(s) /\ me.pending = None /\ Widened(me.loaded[i], c) = me.loaded[i]
     /\ {i} \X c \subseteq View(s).links
     /\ UNCHANGED <<db, writer, draft, deletions>>

\* The rows: what was pending is written, the window of the target, and nothing else.
MergedFlushed(s) ==
  LET me  == sess[s]
      i   == me.target
      c   == me.cluster
      old == me.loaded[i]
      obj == Widened(old, c)
  IN /\ Merged(s)
     /\ writer \in {None, s} /\ writer' = s /\ UNCHANGED <<db, deletions>>
     /\ draft' \in Tables
     /\ draft'.alerts = View(s).alerts /\ draft'.links = View(s).links \cup ({i} \X c)
     /\ \A j \in Incidents :
          LET row == View(s).incidents[j]  new == draft'.incidents[j] IN
          /\ row = None <=> new = None
          /\ row # None =>
               /\ new.key = row.key /\ new.open = row.open
               /\ new.count = IF j = me.pending THEN me.loaded[j].count ELSE row.count
               /\ new.first = IF j = i /\ obj.first # old.first THEN obj.first ELSE row.first
               /\ new.last = IF j = i /\ obj.last # old.last THEN obj.last ELSE row.last

-----------------------------------------------------------------------------
(* Changes of one session. *)

\* A session that goes on.
LEMMA SetAt ==
  ASSUME NEW f \in [Sessions -> Session], NEW s \in Sessions,
         NEW v \in {"idle", "read", "match", "write", "commit", "delete"}
  PROVE  [f EXCEPT ![s].at = v] \in [Sessions -> Session]
<1>1. [f[s] EXCEPT !.at = v] \in Session
  BY DEF Session
<1> QED
  BY <1>1

\* A session with other clusters to do.
LEMMA SetTodo ==
  ASSUME NEW f \in [Sessions -> Session], NEW s \in Sessions, NEW v \in SUBSET SUBSET Alerts
  PROVE  [f EXCEPT ![s].todo = v] \in [Sessions -> Session]
  BY DEF Session

\* A session with another cluster at hand.
LEMMA SetCluster ==
  ASSUME NEW f \in [Sessions -> Session], NEW s \in Sessions, NEW v \in SUBSET Alerts
  PROVE  [f EXCEPT ![s].cluster = v] \in [Sessions -> Session]
  BY DEF Session

\* A session with another incident for its cluster.
LEMMA SetTarget ==
  ASSUME NEW f \in [Sessions -> Session], NEW s \in Sessions, NEW v \in Incidents \cup {None}
  PROVE  [f EXCEPT ![s].target = v] \in [Sessions -> Session]
  BY DEF Session

\* A session with another pending count.
LEMMA SetPending ==
  ASSUME NEW f \in [Sessions -> Session], NEW s \in Sessions, NEW v \in Incidents \cup {None}
  PROVE  [f EXCEPT ![s].pending = v] \in [Sessions -> Session]
  BY DEF Session

\* A session that has used another incident for a key.
LEMMA SetCache ==
  ASSUME NEW f \in [Sessions -> Session], NEW s \in Sessions, NEW k \in Keys, NEW i \in Incidents
  PROVE  [f EXCEPT ![s].cache[k] = i] \in [Sessions -> Session]
<1> DEFINE v == [f[s].cache EXCEPT ![k] = i]
<1>1. f[s].cache \in [Keys -> Incidents \cup {None}]
  BY DEF Session
<1>2. v \in [Keys -> Incidents \cup {None}]
  BY <1>1
<1>3. [f EXCEPT ![s].cache = v] \in [Sessions -> Session]
  <2> HIDE DEF v
  <2> QED
    BY <1>2 DEF Session
<1> QED
  BY <1>3

\* A session with other objects.
LEMMA LoadedSession ==
  ASSUME NEW r \in Session, NEW v \in [Incidents -> IncidentRow]
  PROVE  [r EXCEPT !.loaded = v] \in Session
  BY DEF Session

\* The same, of a function of sessions.
LEMMA SetLoaded ==
  ASSUME NEW f \in [Sessions -> Session], NEW s \in Sessions, NEW v \in [Incidents -> IncidentRow]
  PROVE  [f EXCEPT ![s].loaded = v] \in [Sessions -> Session]
<1>1. [f[s] EXCEPT !.loaded = v] \in Session
  BY LoadedSession
<1> QED
  BY <1>1

\* A session with another object for one incident.
LEMMA SetLoadedRow ==
  ASSUME NEW f \in [Sessions -> Session], NEW s \in Sessions, NEW i \in Incidents,
         NEW row \in IncidentRow
  PROVE  [f EXCEPT ![s].loaded[i] = row] \in [Sessions -> Session]
<1> DEFINE v == [f[s].loaded EXCEPT ![i] = row]
<1>1. f[s].loaded \in [Incidents -> IncidentRow]
  BY DEF Session
<1>2. v \in [Incidents -> IncidentRow]
  BY <1>1
<1>3. [f EXCEPT ![s].loaded = v] \in [Sessions -> Session]
  <2> HIDE DEF v
  <2> QED
    BY <1>2, SetLoaded
<1> QED
  BY <1>3

\* What follows a cluster that is done.
LEMMA AfterCluster ==
  ASSUME sess \in [Sessions -> Session], NEW s \in Sessions, NEW i \in Incidents,
         NEW row \in Incident, NEW pending \in Incidents \cup {None},
         KeyOfCluster(sess[s].cluster) \in Keys, ClusterDone(s, i, row, pending)
  PROVE  /\ sess' \in [Sessions -> Session]
         /\ \A t \in Sessions : t # s => sess'[t] = sess[t]
         /\ sess'[s].at = IF sess[s].todo = {} THEN "commit" ELSE "match"
         /\ sess'[s].todo = sess[s].todo /\ sess'[s].cluster = {}
         /\ sess'[s].target = None /\ sess'[s].pending = pending
         /\ \A k \in Keys : sess'[s].cache[k] =
              IF k = KeyOfCluster(sess[s].cluster) THEN i ELSE sess[s].cache[k]
         /\ \A j \in Incidents : sess'[s].loaded[j] = IF j = i THEN row ELSE sess[s].loaded[j]
<1> DEFINE at == IF sess[s].todo = {} THEN "commit" ELSE "match"
           k  == KeyOfCluster(sess[s].cluster)
           f1 == [sess EXCEPT ![s].at = at]
           f2 == [f1 EXCEPT ![s].cluster = {}]
           f3 == [f2 EXCEPT ![s].target = None]
           f4 == [f3 EXCEPT ![s].cache[k] = i]
           f5 == [f4 EXCEPT ![s].loaded[i] = row]
           g  == [f5 EXCEPT ![s].pending = pending]
<1>1. sess' = g
  BY DEF ClusterDone
<1>2. at \in {"commit", "match"}
  OBVIOUS
<1> HIDE DEF at, k
<1>3. f1 \in [Sessions -> Session]
  BY <1>2, SetAt
<1>4. f2 \in [Sessions -> Session]
  <2> HIDE DEF f1
  <2> QED
    BY <1>3, SetCluster
<1>5. f3 \in [Sessions -> Session]
  <2> HIDE DEF f2
  <2> QED
    BY <1>4, SetTarget
<1>6. f4 \in [Sessions -> Session]
  <2>1. k \in Keys
    BY DEF k
  <2> HIDE DEF f3
  <2> QED
    BY <1>5, <2>1, SetCache
<1>7. f5 \in [Sessions -> Session]
  <2> HIDE DEF f4
  <2> QED
    BY <1>6, SetLoadedRow DEF IncidentRow
<1>8. g \in [Sessions -> Session]
  <2> HIDE DEF f5
  <2> QED
    BY <1>7, SetPending
<1>9. sess[s].cache \in [Keys -> Incidents \cup {None}] /\ sess[s].loaded \in [Incidents -> IncidentRow]
  BY DEF Session
<1>10. /\ \A t \in Sessions : t # s => g[t] = sess[t]
       /\ g[s].at = at /\ g[s].todo = sess[s].todo /\ g[s].cluster = {}
       /\ g[s].target = None /\ g[s].pending = pending
       /\ g[s].cache = [sess[s].cache EXCEPT ![k] = i]
       /\ g[s].loaded = [sess[s].loaded EXCEPT ![i] = row]
  BY DEF Session
<1> HIDE DEF g
<1>11. /\ \A l \in Keys : g[s].cache[l] = IF l = k THEN i ELSE sess[s].cache[l]
       /\ \A j \in Incidents : g[s].loaded[j] = IF j = i THEN row ELSE sess[s].loaded[j]
  BY <1>9, <1>10
<1> QED
  BY <1>1, <1>8, <1>10, <1>11 DEF at, k

-----------------------------------------------------------------------------
(* A merge. *)

\* A merge either writes nothing or flushes, and changes its session alike.
LEMMA MergeDoes ==
  ASSUME StoreTypeOK, Phases, ClustersApart, ObjectsLoaded, NEW s \in Sessions, Merge(s)
  PROVE  MergedQuietly(s) \/ MergedFlushed(s)
<1> DEFINE me  == sess[s]
           i   == me.target
           c   == me.cluster
           old == me.loaded[i]
           obj == Widened(old, c)
           new == {a \in c : <<i, a>> \notin View(s).links}
           flushed == [Flushed(s) EXCEPT
                         !.incidents[i] = IF obj = old THEN @ ELSE Updated(@, old, obj),
                         !.links = @ \cup ({i} \X new)]
           total == Cardinality(LinksOf(flushed, i))
<1>1. /\ me.at = "write" /\ i # None
      /\ CanFlush(s) /\ (obj # old => Flushed(s).incidents[i] # None)
      /\ IF new # {} \/ obj # old \/ me.pending # None
         THEN Write(s, flushed)
         ELSE UNCHANGED <<db, writer, draft, deletions>>
      /\ ClusterDone(s, i, [obj EXCEPT !.count = total], IF total # obj.count THEN i ELSE None)
  BY Zenon DEF Merge, Counted
<1>2. /\ c \subseteq Alerts /\ c # {} /\ KeyOfCluster(c) \in Keys
      /\ i \in Incidents /\ old \in Incident /\ old.key = KeyOfCluster(c)
  BY <1>1, AtHand
<1>3. obj \in Incident /\ obj.count = old.count
  BY <1>2, WidenedObject
<1>4. View(s) \in Tables /\ Flushed(s) \in Tables
  BY <1>1, FlushedTables DEF View, StoreTypeOK
<1>5. /\ Flushed(s).alerts = View(s).alerts /\ Flushed(s).links = View(s).links
      /\ \A k \in Incidents :
           LET row == View(s).incidents[k] IN
           Flushed(s).incidents[k] =
             IF k = me.pending THEN [row EXCEPT !.count = me.loaded[k].count] ELSE row
  BY <1>1, FlushedTables
<1> DEFINE row == Flushed(s).incidents[i]
           row2 == IF obj = old THEN row ELSE Updated(row, old, obj)
<1>7. row2 \in IncidentRow /\ (row2 = None <=> row = None)
  <2>1. row \in IncidentRow
    BY <1>2, <1>4, TableFields
  <2>2. CASE obj = old
    BY <2>1, <2>2
  <2>3. CASE obj # old
    <3>1. row \in Incident
      BY <1>1, <2>1, <2>3, RowFields
    <3>2. row2 \in Incident
      BY <1>2, <1>3, <2>3, <3>1, UpdatedRow
    <3> QED
      BY <3>1, <3>2, NoneIsNoRow DEF IncidentRow
  <2> QED
    BY <2>2, <2>3
<1>8. /\ flushed \in Tables /\ flushed.alerts = View(s).alerts
      /\ flushed.links = View(s).links \cup ({i} \X new)
      /\ \A j \in Incidents : flushed.incidents[j] = IF j = i THEN row2 ELSE Flushed(s).incidents[j]
  <2> DEFINE more == {i} \X new
             F == Flushed(s)
             u == [F EXCEPT !.incidents[i] = row2, !.links = @ \cup more]
  <2>1. more \in SUBSET (Incidents \X Alerts) /\ F \in Tables /\ i \in Incidents /\ row2 \in IncidentRow
    BY <1>2, <1>4, <1>7
  <2>2. flushed = u
    OBVIOUS
  <2>3. /\ u \in Tables /\ u.alerts = F.alerts /\ u.links = F.links \cup more
        /\ \A j \in Incidents : u.incidents[j] = IF j = i THEN row2 ELSE F.incidents[j]
    <3> DEFINE q == [F.incidents EXCEPT ![i] = row2]
               l == F.links \cup more
    <3>1. u = [F EXCEPT !.incidents = q, !.links = l]
      OBVIOUS
    <3> HIDE DEF F, row2, more, u, i
    <3>2. F.incidents \in [Incidents -> IncidentRow] /\ F.links \subseteq Incidents \X Alerts
      BY <2>1, TableFields
    <3>3. /\ q \in [Incidents -> IncidentRow] /\ l \subseteq Incidents \X Alerts
          /\ \A j \in Incidents : q[j] = IF j = i THEN row2 ELSE F.incidents[j]
      BY <2>1, <3>2
    <3>4. u \in Tables /\ u.alerts = F.alerts /\ u.links = l /\ u.incidents = q
      <4> HIDE DEF q, l
      <4> QED
        BY <2>1, <3>1, <3>3 DEF Tables
    <3> QED
      BY <3>3, <3>4
  <2> HIDE DEF flushed, u, row2, new
  <2> QED
    BY <1>5, <2>2, <2>3
<1>9. flushed.links = View(s).links \cup ({i} \X c)
  <2> HIDE DEF flushed
  <2> QED
    BY <1>8
<1>11. total = Cardinality({link \in View(s).links \cup ({i} \X c) : link[1] = i}) /\ total \in Nat \ {0}
  <2>1. total = Cardinality({link \in View(s).links \cup ({i} \X c) : link[1] = i})
    <3> HIDE DEF flushed
    <3> QED
      BY <1>9, <1>8 DEF LinksOf
  <2>2. PICK a \in c : TRUE
    BY <1>2
  <2>3. <<i, a>> \in LinksOf(flushed, i)
    <3> HIDE DEF flushed
    <3> QED
      BY <1>9, <1>8, <2>2 DEF LinksOf
  <2>4. total \in Nat \ {0}
    <3> HIDE DEF flushed
    <3> QED
      BY <1>2, <1>8, <2>3, LinksAreFinite
  <2> QED
    BY <2>1, <2>4
<1> DEFINE key == KeyOfCluster(c)
           row3 == [obj EXCEPT !.count = total]
           pend == IF total # obj.count THEN i ELSE None
<1>12. Merged(s)
  <2>1. /\ row3 \in Incident /\ row3.key = obj.key /\ row3.open = obj.open
        /\ row3.first = obj.first /\ row3.last = obj.last /\ row3.count = total
    <3> HIDE DEF total, obj
    <3> QED
      BY <1>3, <1>11 DEF Incident
  <2>2. pend \in Incidents \cup {None} /\ sess \in [Sessions -> Session]
    BY <1>2 DEF StoreTypeOK
  <2>3. ClusterDone(s, i, row3, pend)
    BY <1>1
  <2> HIDE DEF row3, pend, key, total, obj
  <2>4. /\ sess' \in [Sessions -> Session]
        /\ \A t \in Sessions : t # s => sess'[t] = sess[t]
        /\ sess'[s].at = IF me.todo = {} THEN "commit" ELSE "match"
        /\ sess'[s].todo = me.todo /\ sess'[s].cluster = {}
        /\ sess'[s].target = None /\ sess'[s].pending = pend
        /\ \A k \in Keys : sess'[s].cache[k] = IF k = key THEN i ELSE me.cache[k]
        /\ \A j \in Incidents : sess'[s].loaded[j] = IF j = i THEN row3 ELSE me.loaded[j]
    BY <1>2, <2>1, <2>2, <2>3, AfterCluster DEF key
  <2>5. pend = IF total # old.count THEN i ELSE None
    BY <1>3 DEF pend
  <2> QED
    BY <1>2, <1>11, <2>1, <2>4, <2>5, SMTT(30) DEF Merged, key, obj
<1>13. CASE new # {} \/ obj # old \/ me.pending # None
  <2>1. writer \in {None, s} /\ writer' = s /\ draft' = flushed /\ UNCHANGED <<db, deletions>>
    BY <1>1, <1>13 DEF Write
  <2>2. ASSUME NEW j \in Incidents
        PROVE  LET r == View(s).incidents[j]  n == flushed.incidents[j] IN
               /\ r = None <=> n = None
               /\ r # None =>
                    /\ n.key = r.key /\ n.open = r.open
                    /\ n.count = IF j = me.pending THEN me.loaded[j].count ELSE r.count
                    /\ n.first = IF j = i /\ obj.first # old.first THEN obj.first ELSE r.first
                    /\ n.last = IF j = i /\ obj.last # old.last THEN obj.last ELSE r.last
    <3> DEFINE r == View(s).incidents[j]
               m == Flushed(s).incidents[j]
    <3>1. r \in IncidentRow /\ m \in IncidentRow
      BY <1>4, TableFields
    <3>2. m = IF j = me.pending THEN [r EXCEPT !.count = me.loaded[j].count] ELSE r
      BY <1>5
    <3>3. j = me.pending => r # None
      BY <1>1, SessionFields, StoreConstantsOK DEF CanFlush
    <3>4. /\ r = None <=> m = None
          /\ r # None => /\ m \in Incident /\ m.key = r.key /\ m.open = r.open /\ m.first = r.first
                         /\ m.last = r.last
                         /\ m.count = IF j = me.pending THEN me.loaded[j].count ELSE r.count
      <4>1. CASE j # me.pending
        BY <3>1, <3>2, <4>1, RowFields
      <4>2. CASE j = me.pending
        <5>1. r \in Incident
          BY <3>1, <3>3, <4>2, RowFields
        <5>2. m # None
          <6>1. [r EXCEPT !.count = me.loaded[j].count] \in Incident
            <7>1. me.loaded[j] # None /\ me.loaded[j] \in IncidentRow
              <8>1. me.pending # None
                BY <4>2, StoreConstantsOK
              <8> QED
                BY <4>2, <8>1, SessionFields DEF ObjectsLoaded
            <7>2. me.loaded[j].count \in Nat \ {0}
              BY <7>1, RowFields
            <7> HIDE DEF r, me
            <7> QED
              BY <5>1, <7>2 DEF Incident
          <6> QED
            BY <3>2, <4>2, <6>1, NoneIsNoRow
        <5> QED
          BY <3>1, <3>2, <3>3, <4>2, <5>1, <5>2, RowFields DEF Incident
      <4> QED
        BY <4>1, <4>2
    <3>5. flushed.incidents[j] = IF j = i /\ obj # old THEN Updated(m, old, obj) ELSE m
      BY <1>8
    <3>6. j = i /\ obj # old => m # None
      BY <1>1
    <3> QED
      <4> DEFINE w == flushed.incidents[j]
      <4>1. CASE j = i /\ obj # old
        <5>1. m \in Incident /\ r # None
          BY <3>1, <3>4, <3>6, <4>1 DEF IncidentRow
        <5>2. w = Updated(m, old, obj)
          BY <3>5, <4>1
        <5>3. w \in Incident /\ w # None
          BY <1>2, <1>3, <5>1, <5>2, UpdatedRow, NoneIsNoRow
        <5>4. /\ w.key = m.key /\ w.open = m.open /\ w.count = m.count
              /\ w.first = IF obj.first # old.first THEN obj.first ELSE m.first
              /\ w.last = IF obj.last # old.last THEN obj.last ELSE m.last
          BY <1>2, <1>3, <5>1, <5>2, UpdatedRow, SMTT(30)
        <5> HIDE DEF m, flushed, obj, old
        <5> QED
          BY <3>4, <4>1, <5>1, <5>3, <5>4
      <4>2. CASE ~(j = i /\ obj # old)
        <5>1. w = m
          BY <3>5, <4>2
        <5>2. r # None => m.first \in Nat /\ m.last \in Nat
          BY <3>4, RowFields DEF IncidentRow
        <5> QED
          BY <3>4, <4>2, <5>1
      <4> QED
        BY <4>1, <4>2
  <2> QED
    BY <1>8, <1>9, <1>12, <2>1, <2>2 DEF MergedFlushed
<1>14. CASE ~(new # {} \/ obj # old \/ me.pending # None)
  <2>1. {i} \X c \subseteq View(s).links
    BY <1>14
  <2> QED
    BY <1>1, <1>12, <1>14, <2>1 DEF MergedQuietly
<1> QED
  BY <1>13, <1>14

-----------------------------------------------------------------------------
(* What a cluster that goes to an incident, old or new, does in common. *)

Linking(s, i) ==
  LET me == sess[s]
      c  == me.cluster
      after == sess'[s]
  IN /\ me.at = "write" /\ i \in Incidents /\ (me.target # None => me.target = i)
     /\ sess' \in [Sessions -> Session]
     /\ \A t \in Sessions : t # s => sess'[t] = sess[t]
     /\ after.at = (IF me.todo = {} THEN "commit" ELSE "match")
     /\ after.todo = me.todo /\ after.cluster = {} /\ after.target = None
     /\ \A k \in Keys : after.cache[k] = IF k = KeyOfCluster(c) THEN i ELSE me.cache[k]
     /\ \A j \in Incidents : j # i => after.loaded[j] = me.loaded[j]
     /\ after.loaded[i] \in Incident /\ after.loaded[i].key = KeyOfCluster(c)
     /\ after.pending \in {None, i}
     /\ UNCHANGED <<db, deletions>>
     /\ \/ writer \in {None, s} /\ writer' = s
        \/ writer' = writer /\ draft' = draft
     /\ draft' \in Tables
     /\ draft'.alerts = draft.alerts /\ draft'.links = draft.links \cup ({i} \X c)
     /\ \A j \in Incidents : draft.incidents[j] # None =>
          LET row == draft.incidents[j]  new == draft'.incidents[j] IN
          /\ new # None /\ new.key = row.key /\ new.open = row.open
          /\ new.count = IF j = me.pending THEN me.loaded[j].count ELSE row.count
          /\ j # i => new.first = row.first /\ new.last = row.last
     /\ \A j \in Incidents : j # i /\ draft.incidents[j] = None => draft'.incidents[j] = None
     /\ me.target = i \/ (me.loaded[i] = None /\ draft.incidents[i] = None)
     /\ draft.incidents[i] = None /\ draft'.incidents[i] # None =>
          draft'.incidents[i].key = KeyOfCluster(c) /\ \A t \in Sessions : sess[t].loaded[i] = None

\* A session that may write sees what the writer will commit.
LEMMA ViewIsDraft ==
  ASSUME Locking, NEW s \in Sessions, writer \in {None, s}
  PROVE  View(s) = draft
  BY StoreConstantsOK DEF View, Locking

\* What a session sees is at most what the writer will commit.
LEMMA ViewLinks ==
  ASSUME Locking, NEW s \in Sessions
  PROVE  View(s).links \subseteq draft.links
  BY DEF View, Locking

\* A merge links its cluster to its target.
LEMMA MergeLinks ==
  ASSUME StoreTypeOK, Locking, Phases, ClustersApart, ObjectsLoaded, NEW s \in Sessions, Merge(s)
  PROVE  Linking(s, sess[s].target)
<1> DEFINE me  == sess[s]
           i   == me.target
           c   == me.cluster
           old == me.loaded[i]
           obj == Widened(old, c)
<1>1. me.at = "write" /\ i # None
  BY Zenon DEF Merge
<1>2. /\ c \subseteq Alerts /\ c # {} /\ KeyOfCluster(c) \in Keys
      /\ i \in Incidents /\ old \in Incident /\ old.key = KeyOfCluster(c)
  BY <1>1, AtHand
<1>3. obj \in Incident /\ obj.key = old.key
  BY <1>2, WidenedObject
<1>4. Merged(s) => 
      /\ sess' \in [Sessions -> Session]
      /\ \A t \in Sessions : t # s => sess'[t] = sess[t]
      /\ sess'[s].at = (IF me.todo = {} THEN "commit" ELSE "match")
      /\ sess'[s].todo = me.todo /\ sess'[s].cluster = {} /\ sess'[s].target = None
      /\ \A k \in Keys : sess'[s].cache[k] = IF k = KeyOfCluster(c) THEN i ELSE me.cache[k]
      /\ \A j \in Incidents : j # i => sess'[s].loaded[j] = me.loaded[j]
      /\ sess'[s].loaded[i] \in Incident /\ sess'[s].loaded[i].key = KeyOfCluster(c)
      /\ sess'[s].pending \in {None, i}
  BY <1>2, <1>3, Zenon DEF Merged
<1>5. CASE MergedQuietly(s)
  <2>1. /\ Merged(s) /\ me.pending = None /\ {i} \X c \subseteq View(s).links
        /\ UNCHANGED <<db, writer, draft, deletions>>
    BY <1>5, Zenon DEF MergedQuietly
  <2>2. draft'.links = draft.links \cup ({i} \X c)
    BY <2>1, ViewLinks
  <2>3. \A j \in Incidents : j # me.pending
    BY <2>1, StoreConstantsOK
  <2>4. draft' \in Tables
    BY <2>1 DEF StoreTypeOK
  <2> QED
    BY <1>1, <1>2, <1>4, <2>1, <2>2, <2>3, <2>4 DEF Linking
<1>6. CASE MergedFlushed(s)
  <2>1. /\ Merged(s)
        /\ writer \in {None, s} /\ writer' = s /\ UNCHANGED <<db, deletions>>
        /\ draft' \in Tables
        /\ draft'.alerts = View(s).alerts /\ draft'.links = View(s).links \cup ({i} \X c)
        /\ \A j \in Incidents :
             LET row == View(s).incidents[j]  new == draft'.incidents[j] IN
             /\ row = None <=> new = None
             /\ row # None =>
                  /\ new.key = row.key /\ new.open = row.open
                  /\ new.count = IF j = me.pending THEN me.loaded[j].count ELSE row.count
                  /\ new.first = IF j = i /\ obj.first # old.first THEN obj.first ELSE row.first
                  /\ new.last = IF j = i /\ obj.last # old.last THEN obj.last ELSE row.last
    BY <1>6, Zenon DEF MergedFlushed
  <2>2. View(s) = draft
    BY <2>1, ViewIsDraft
  <2> HIDE DEF obj, old, c, me
  <2>3. \A j \in Incidents : draft.incidents[j] # None =>
          LET row == draft.incidents[j]  new == draft'.incidents[j] IN
          /\ new # None /\ new.key = row.key /\ new.open = row.open
          /\ new.count = IF j = me.pending THEN me.loaded[j].count ELSE row.count
          /\ j # i => new.first = row.first /\ new.last = row.last
    BY <2>1, <2>2
  <2>4. \A j \in Incidents : j # i /\ draft.incidents[j] = None => draft'.incidents[j] = None
    BY <2>1, <2>2
  <2>5. draft.incidents[i] = None => draft'.incidents[i] = None
    BY <1>2, <2>1, <2>2
  <2>6. i = me.target
    BY DEF me
  <2> QED
    BY <1>1, <1>2, <1>4, <2>1, <2>2, <2>3, <2>4, <2>5, <2>6 DEF Linking, me, c
<1> QED
  BY <1>5, <1>6, MergeDoes

\* A new incident: its row, and the others as the flush leaves them.
Created(s, i) ==
  LET c == sess[s].cluster
      row == draft'.incidents[i]
  IN /\ writer \in {None, s} /\ writer' = s
     /\ sess[s].target = None /\ db.incidents[i] = None /\ draft.incidents[i] = None
     /\ LinksOf(db, i) = {} /\ LinksOf(draft, i) = {}
     /\ \A t \in Sessions : sess[t].loaded[i] = None
     /\ row \in Incident /\ row.key = KeyOfCluster(c) /\ row.open = TRUE
     /\ row.count = Cardinality(c) /\ row.first = First(c) /\ row.last = Last(c)
     /\ sess'[s].loaded[i] = row /\ sess'[s].pending = None

\* A new incident takes the cluster.
LEMMA CreateLinks ==
  ASSUME StoreTypeOK, Locking, Phases, ClustersApart, ObjectsLoaded, NEW s \in Sessions,
         NEW i \in Incidents, Create(s, i)
  PROVE  Linking(s, i) /\ Created(s, i)
<1> DEFINE me == sess[s]
           c  == me.cluster
           key == KeyOfCluster(c)
           row == [key |-> key, open |-> TRUE, count |-> Cardinality(c),
                   first |-> First(c), last |-> Last(c)]
           F == Flushed(s)
           more == {i} \X c
           after == [F EXCEPT !.incidents[i] = row, !.links = @ \cup more]
<1>1. /\ me.at = "write" /\ me.target = None
      /\ FreshIncident(i) /\ CanFlush(s)
      /\ Write(s, after) /\ ClusterDone(s, i, row, None)
  BY Zenon DEF Create
<1>2. c \subseteq Alerts /\ c # {} /\ key \in Keys
  BY <1>1, AtHand
<1>3. First(c) \in Nat /\ Last(c) \in Nat /\ Cardinality(c) \in Nat \ {0}
  BY <1>2, WindowEncloses, LinksOfCluster
<1>4. /\ row \in Incident /\ row # None /\ row.key = key /\ row.open = TRUE
      /\ row.count = Cardinality(c) /\ row.first = First(c) /\ row.last = Last(c)
  <2> DEFINE n == Cardinality(c)
             f == First(c)
             l == Last(c)
  <2>1. row = [key |-> key, open |-> TRUE, count |-> n, first |-> f, last |-> l]
    OBVIOUS
  <2>2. key \in Keys /\ n \in Nat \ {0} /\ f \in Nat /\ l \in Nat
    BY <1>2, <1>3
  <2> HIDE DEF key, c, n, f, l, row
  <2>3. row \in Incident
    BY <2>1, <2>2 DEF Incident
  <2>4. row.key = key /\ row.open = TRUE /\ row.count = n /\ row.first = f /\ row.last = l
    BY <2>1
  <2> QED
    BY <2>3, <2>4, NoneIsNoRow DEF n, f, l
<1>5. writer \in {None, s} /\ writer' = s /\ draft' = after /\ UNCHANGED <<db, deletions>>
  BY <1>1 DEF Write
<1>6. View(s) = draft
  BY <1>5, ViewIsDraft
<1>7. /\ F \in Tables /\ F.alerts = draft.alerts /\ F.links = draft.links
      /\ \A k \in Incidents :
           F.incidents[k] =
             IF k = me.pending THEN [draft.incidents[k] EXCEPT !.count = me.loaded[k].count]
             ELSE draft.incidents[k]
  BY <1>1, <1>6, FlushedTables
<1> DEFINE q == [F.incidents EXCEPT ![i] = row]
           l == F.links \cup more
<1>8. after = [F EXCEPT !.incidents = q, !.links = l]
  OBVIOUS
<1>9. /\ q \in [Incidents -> IncidentRow] /\ l \subseteq Incidents \X Alerts
      /\ \A j \in Incidents : q[j] = IF j = i THEN row ELSE F.incidents[j]
  <2>1. F.incidents \in [Incidents -> IncidentRow] /\ F.links \subseteq Incidents \X Alerts
    BY <1>7, TableFields
  <2> HIDE DEF row, F, c
  <2> QED
    BY <1>2, <1>4, <2>1 DEF IncidentRow
<1>10. after \in Tables /\ after.alerts = F.alerts /\ after.links = l /\ after.incidents = q
  <2> HIDE DEF q, l, after, F
  <2> QED
    BY <1>7, <1>8, <1>9 DEF Tables
<1>11. /\ db.incidents[i] = None /\ draft.incidents[i] = None
       /\ LinksOf(db, i) = {} /\ LinksOf(draft, i) = {}
       /\ \A t \in Sessions : sess[t].loaded[i] = None
  BY <1>1 DEF FreshIncident
<1>12. /\ sess' \in [Sessions -> Session]
       /\ \A t \in Sessions : t # s => sess'[t] = sess[t]
       /\ sess'[s].at = IF me.todo = {} THEN "commit" ELSE "match"
       /\ sess'[s].todo = me.todo /\ sess'[s].cluster = {}
       /\ sess'[s].target = None /\ sess'[s].pending = None
       /\ \A k \in Keys : sess'[s].cache[k] = IF k = key THEN i ELSE me.cache[k]
       /\ \A j \in Incidents : sess'[s].loaded[j] = IF j = i THEN row ELSE me.loaded[j]
  <2>1. sess \in [Sessions -> Session]
    BY DEF StoreTypeOK
  <2> HIDE DEF row
  <2> QED
    BY <1>1, <1>2, <1>4, <2>1, AfterCluster
<1>13. ASSUME NEW j \in Incidents
       PROVE  /\ draft.incidents[j] # None =>
                   LET r == draft.incidents[j]  new == q[j] IN
                   /\ new # None /\ new.key = r.key /\ new.open = r.open
                   /\ new.count = IF j = me.pending THEN me.loaded[j].count ELSE r.count
                   /\ j # i => new.first = r.first /\ new.last = r.last
              /\ j # i /\ draft.incidents[j] = None => q[j] = None
  <2> DEFINE r == draft.incidents[j]
             m == F.incidents[j]
  <2>1. r # None => j # i
    BY <1>11
  <2>2. j # i => q[j] = m
    BY <1>9
  <2>3. m = IF j = me.pending THEN [r EXCEPT !.count = me.loaded[j].count] ELSE r
    BY <1>7
  <2>4. r \in IncidentRow /\ m \in IncidentRow
    BY <1>7, TableFields DEF StoreTypeOK
  <2>5. j = me.pending => r # None /\ me.loaded[j] # None /\ me.loaded[j] \in IncidentRow
    <3>1. j = me.pending => me.pending # None
      BY StoreConstantsOK
    <3> QED
      BY <1>1, <1>6, <3>1, SessionFields DEF CanFlush, ObjectsLoaded
  <2>6. r # None => /\ m # None /\ m.key = r.key /\ m.open = r.open
                    /\ m.count = (IF j = me.pending THEN me.loaded[j].count ELSE r.count)
                    /\ m.first = r.first /\ m.last = r.last
    <3>1. CASE j # me.pending
      BY <2>3, <3>1
    <3>2. CASE j = me.pending
      <4>1. r \in Incident /\ me.loaded[j] \in Incident
        BY <2>4, <2>5, <3>2, RowFields
      <4>2. m = [r EXCEPT !.count = me.loaded[j].count]
        BY <2>3, <3>2
      <4>3. me.loaded[j].count \in Nat \ {0}
        BY <4>1 DEF Incident
      <4> HIDE DEF r, m, me
      <4>4. m \in Incident
        BY <4>1, <4>2, <4>3 DEF Incident
      <4> QED
        BY <3>2, <4>1, <4>2, <4>4, NoneIsNoRow DEF Incident
    <3> QED
      BY <3>1, <3>2
  <2>7. r = None => m = None
    BY <2>3, <2>5
  <2> HIDE DEF q, m
  <2> QED
    BY <2>1, <2>2, <2>6, <2>7
<1> HIDE DEF q, l, after, row
<1>14. Linking(s, i)
  <2>1. draft' \in Tables /\ draft'.alerts = draft.alerts /\ draft'.links = draft.links \cup more /\ draft'.incidents = q
    BY <1>5, <1>7, <1>10 DEF l
  <2> QED
    BY <1>1, <1>4, <1>5, <1>9, <1>11, <1>12, <1>13, <2>1 DEF Linking
<1>15. Created(s, i)
  <2>1. draft'.incidents[i] = row
    BY <1>5, <1>9, <1>10
  <2> QED
    BY <1>1, <1>4, <1>5, <1>11, <1>12, <2>1 DEF Created
<1> QED
  BY <1>14, <1>15

\* The inductive invariant.
IInv ==
  /\ StoreTypeOK /\ Locking /\ Phases /\ ClustersApart /\ ObjectsLoaded
  /\ OutsidersHaveDrills /\ WriterHasTheRest /\ NothingIngestedIsLeftOut
  /\ OneEach /\ Whole(db) /\ Whole(draft) /\ DeletesFound
  /\ WriterIsFresh /\ NewLinksAreOpen
  /\ Covered(db) /\ Covered(draft) /\ CountsHold

-----------------------------------------------------------------------------
(* Steps of one session that leave the tables alone. *)

TablesStay == UNCHANGED <<db, writer, draft, deletions>>

Moves(s) ==
  /\ sess' \in [Sessions -> Session]
  /\ \A t \in Sessions : t # s => sess'[t] = sess[t]

\* The conjuncts that are about the tables alone.
LEMMA TablesAlone ==
  ASSUME IInv, TablesStay
  PROVE  NothingIngestedIsLeftOut' /\ OneEach' /\ Whole(db)' /\ Whole(draft)' /\ NewLinksAreOpen'
         /\ Covered(db)' /\ Covered(draft)'
  BY DEF IInv, TablesStay, NothingIngestedIsLeftOut, OneEach, Whole, NewLinksAreOpen, Covered,
         Unlinked, Linked, Drilled

\* A session that keeps its pending count, if there is one.
LEMMA CountsStay ==
  ASSUME IInv, NEW s \in Sessions, Moves(s), TablesStay, sess'[s].pending = sess[s].pending,
         sess[s].pending # None
           => sess'[s].loaded[sess[s].pending] = sess[s].loaded[sess[s].pending]
  PROVE  CountsHold'
<1> SUFFICES ASSUME deletions' = 0
             PROVE  /\ \A i \in Incidents : Exact(db, i)'
                    /\ \A i \in Incidents :
                         (writer = None \/ sess[writer].pending # i => Exact(draft, i))'
                    /\ \A t \in Sessions : sess'[t].pending # None =>
                         \/ Drilled(View(t), sess[t].pending)'
                         \/ /\ writer' = t
                            /\ (sess[t].loaded[sess[t].pending].count
                                 = Cardinality(LinksOf(draft, sess[t].pending)))'
  BY DEF CountsHold
<1>1. deletions = 0 /\ db' = db /\ draft' = draft /\ writer' = writer
  BY DEF TablesStay
<1>2. \A i \in Incidents : Exact(db, i)' /\ (Exact(draft, i) => Exact(draft, i)')
  BY <1>1 DEF IInv, CountsHold, Exact, Drilled, LinksOf
<1>3. \A t \in Sessions : sess'[t].pending = sess[t].pending
  BY DEF Moves
<1>4. ASSUME NEW i \in Incidents, writer' = None \/ sess'[writer'].pending # i
      PROVE  Exact(draft, i)'
  <2>1. writer = None \/ sess[writer].pending # i
    BY <1>1, <1>3, <1>4 DEF IInv, StoreTypeOK
  <2> QED
    BY <1>1, <1>2, <2>1 DEF IInv, CountsHold
<1>5. ASSUME NEW t \in Sessions, sess'[t].pending # None
      PROVE  \/ Drilled(View(t), sess[t].pending)'
             \/ /\ writer' = t
                /\ (sess[t].loaded[sess[t].pending].count
                     = Cardinality(LinksOf(draft, sess[t].pending)))'
  <2>1. \/ Drilled(View(t), sess[t].pending)
        \/ /\ writer = t
           /\ sess[t].loaded[sess[t].pending].count
                = Cardinality(LinksOf(draft, sess[t].pending))
    BY <1>1, <1>3, <1>5 DEF IInv, CountsHold
  <2>2. sess'[t].pending = sess[t].pending
        /\ sess'[t].loaded[sess[t].pending] = sess[t].loaded[sess[t].pending]
    BY <1>3, <1>5 DEF Moves
  <2> QED
    BY <1>1, <2>1, <2>2 DEF Drilled, View, LinksOf
<1> QED
  BY <1>2, <1>4, <1>5

\* A session that has no object and no alert but those it has just found.
LEMMA StartsAfresh ==
  ASSUME IInv, NEW s \in Sessions, Moves(s), TablesStay,
         sess'[s].at \in {"read", "match", "commit"}, sess[s].at \in {"idle", "read"},
         sess'[s].at # sess[s].at,
         sess'[s].at = "read" => writer # s,
         sess'[s].at = "read" => sess'[s] = [Closed EXCEPT !.at = "read"],
         sess'[s].cluster = {}, sess'[s].target = None, sess'[s].pending = None,
         \A k \in Keys : sess'[s].cache[k] = None,
         \A i \in Incidents : sess'[s].loaded[i] = None,
         sess'[s].at = "match" <=> sess'[s].todo # {},
         sess'[s].at # "read" => sess'[s].todo = Clusters(Unlinked(View(s)))
  PROVE  IInv'
<1> DEFINE me == sess'[s]
<1>1. StoreTypeOK'
  BY DEF IInv, StoreTypeOK, Moves, TablesStay
<1>2. me.at # "read" => 
        /\ \A c \in me.todo : c \subseteq Unlinked(View(s)) /\ c # {} /\ SameKey(c)
        /\ \A c, d \in me.todo : c # d => c \cap d = {}
        /\ UNION me.todo = Unlinked(View(s))
  <2>1. Unlinked(View(s)) \subseteq Alerts
    BY TableFields DEF IInv, StoreTypeOK, Unlinked, View
  <2> QED
    BY <2>1, ClustersPartition
<1>3. me.at = "read" => me.todo = {}
  OBVIOUS
<1>4. Locking'
  BY StoreConstantsOK DEF IInv, Locking, TablesStay, Moves, StoreTypeOK
<1>5. Phases'
  <2>1. Phase(s)'
    BY DEF Phase
  <2> QED
    BY <2>1, PhasesAfter DEF IInv, Moves
<1>6. ClustersApart'
  <2>1. \A c \in me.todo : c # {} /\ SameKey(c) /\ \A d \in me.todo : c # d => c \cap d = {}
    BY <1>2, <1>3
  <2>2. SameKey({})
    BY DEF SameKey
  <2> QED
    BY <2>1, <2>2 DEF IInv, ClustersApart, Moves
<1>7. ObjectsLoaded'
  BY DEF IInv, ObjectsLoaded, Moves, TablesStay
<1>8. OutsidersHaveDrills'
  <2>1. writer # s /\ me.at # "delete" => UNION me.todo \subseteq Drills
    BY <1>2, <1>3 DEF IInv, NothingIngestedIsLeftOut, View
  <2> QED
    BY <2>1 DEF IInv, OutsidersHaveDrills, OnlyDrills, Mine, Moves, TablesStay
<1>9. WriterHasTheRest'
  <2>1. CASE writer = s
    <3>1. UNION me.todo = Unlinked(draft) /\ me.cluster = {}
      BY <1>2, <2>1 DEF View
    <3> QED
      BY <2>1, <3>1 DEF WriterHasTheRest, Mine, Unlinked, Linked, TablesStay
  <2>2. CASE writer # s
    BY <2>2 DEF IInv, WriterHasTheRest, Mine, Unlinked, Linked, Moves, TablesStay, StoreTypeOK
  <2> QED
    BY <2>1, <2>2
<1>10. DeletesFound'
  BY DEF IInv, DeletesFound, Moves, TablesStay
<1>11. WriterIsFresh'
  <2>1. CASE writer = s
    BY <2>1 DEF WriterIsFresh, Fresh, TablesStay
  <2>2. CASE writer # s
    BY <2>2 DEF IInv, WriterIsFresh, Fresh, OnlyDrills, Mine, Moves, TablesStay, StoreTypeOK
  <2> QED
    BY <2>1, <2>2
<1>12. CountsHold'
  <2>1. sess[s].pending = None
    BY DEF IInv, Phases, Phase, Closed
  <2> QED
    BY <2>1, CountsStay
<1> QED
  BY <1>1, <1>4, <1>5, <1>6, <1>7, <1>8, <1>9, <1>10, <1>11, <1>12, TablesAlone DEF IInv

\* A session at rest, or about to read, has nothing.
LEMMA NothingYet ==
  ASSUME IInv, NEW s \in Sessions, sess[s].at \in {"idle", "read"}
  PROVE  /\ sess[s] = [Closed EXCEPT !.at = sess[s].at]
         /\ sess[s].todo = {} /\ sess[s].cluster = {} /\ sess[s].target = None
         /\ sess[s].pending = None
         /\ \A k \in Keys : sess[s].cache[k] = None
         /\ \A i \in Incidents : sess[s].loaded[i] = None
<1>1. sess[s] = [Closed EXCEPT !.at = sess[s].at]
  BY DEF IInv, Phases, Phase
<1> QED
  BY <1>1 DEF Closed

\* A correlation that is asked for starts with nothing.
LEMMA CorrelateAgainKeeps ==
  ASSUME IInv, NEW s \in Sessions, CorrelateAgain(s)
  PROVE  IInv'
<1>1. sess[s].at = "idle" /\ TablesStay /\ sess' = [sess EXCEPT ![s].at = "read"]
  BY DEF CorrelateAgain, TablesStay
<1>2. sess \in [Sessions -> Session]
  BY DEF IInv, StoreTypeOK
<1>3. Moves(s)
  BY <1>1, <1>2, SetAt DEF Moves
<1>4. sess'[s] = [sess[s] EXCEPT !.at = "read"]
  BY <1>1, <1>2
<1>5. sess'[s] = [Closed EXCEPT !.at = "read"]
  <2>1. sess[s] = [Closed EXCEPT !.at = "idle"]
    BY <1>1, NothingYet
  <2> QED
    BY <1>4, <2>1 DEF Closed
<1>6. writer # s
  BY <1>1, StoreConstantsOK DEF IInv, Locking
<1> QED
  <2>1. /\ sess'[s].at = "read" /\ sess'[s].cluster = {} /\ sess'[s].target = None
        /\ sess'[s].pending = None /\ sess'[s].todo = {}
        /\ \A k \in Keys : sess'[s].cache[k] = None
        /\ \A i \in Incidents : sess'[s].loaded[i] = None
    BY <1>5 DEF Closed
  <2> QED
    BY <1>1, <1>3, <1>5, <1>6, <2>1, StartsAfresh

\* What a session finds unlinked: drills only, unless it is the writer.
LEMMA ReadUnlinkedKeeps ==
  ASSUME IInv, NEW s \in Sessions, ReadUnlinked(s)
  PROVE  IInv'
<1> DEFINE found == Clusters(Unlinked(View(s)))
           at == IF found = {} THEN "commit" ELSE "match"
           f == [sess EXCEPT ![s].at = at]
           g == [f EXCEPT ![s].todo = found]
<1>1. sess[s].at = "read" /\ TablesStay /\ sess' = g
  BY DEF ReadUnlinked, TablesStay
<1>2. sess \in [Sessions -> Session]
  BY DEF IInv, StoreTypeOK
<1>3. found \in SUBSET SUBSET Alerts
  <2>1. Unlinked(View(s)) \subseteq Alerts
    BY TableFields DEF IInv, StoreTypeOK, Unlinked, View
  <2> QED
    BY <2>1, ClustersPartition
<1>4. at \in {"commit", "match"}
  OBVIOUS
<1>5. f \in [Sessions -> Session]
  <2> HIDE DEF at
  <2> QED
    BY <1>2, <1>4, SetAt
<1>6. g \in [Sessions -> Session]
  <2> HIDE DEF f, found
  <2> QED
    BY <1>3, <1>5, SetTodo
<1>7. /\ sess'[s].at = at /\ sess'[s].todo = found
      /\ sess'[s].cluster = sess[s].cluster /\ sess'[s].target = sess[s].target
      /\ sess'[s].pending = sess[s].pending /\ sess'[s].cache = sess[s].cache
      /\ sess'[s].loaded = sess[s].loaded
      /\ \A t \in Sessions : t # s => sess'[t] = sess[t]
  <2> HIDE DEF at, found
  <2> QED
    BY <1>1, <1>2 DEF Session
<1>8. Moves(s)
  BY <1>1, <1>6, <1>7 DEF Moves
<1>9. /\ sess[s].cluster = {} /\ sess[s].target = None /\ sess[s].pending = None
      /\ \A k \in Keys : sess[s].cache[k] = None
      /\ \A i \in Incidents : sess[s].loaded[i] = None
  BY <1>1, NothingYet
<1>10. /\ sess'[s].at \in {"read", "match", "commit"} /\ sess'[s].at # "read"
       /\ sess'[s].at = "match" <=> sess'[s].todo # {}
  BY <1>7
<1>11. sess'[s].todo = Clusters(Unlinked(View(s)))
  BY <1>7
<1>12. /\ sess'[s].cluster = {} /\ sess'[s].target = None /\ sess'[s].pending = None
       /\ \A k \in Keys : sess'[s].cache[k] = None
       /\ \A i \in Incidents : sess'[s].loaded[i] = None
  BY <1>7, <1>9
<1> HIDE DEF found, at, g
<1> QED
  BY <1>1, <1>8, <1>10, <1>11, <1>12, StartsAfresh

\* The links a deletion finds are all there are of an ingested alert.
LEMMA FindAlertKeeps ==
  ASSUME IInv, NEW s \in Sessions, NEW a \in Alerts, FindAlert(s, a)
  PROVE  IInv'
<1> DEFINE objects == [i \in Incidents |-> IF <<i, a>> \in db.links THEN db.incidents[i] ELSE None]
           f == [sess EXCEPT ![s].at = "delete"]
           g == [f EXCEPT ![s].cluster = {a}]
           h == [g EXCEPT ![s].loaded = objects]
<1>1. sess[s].at = "idle" /\ a \in db.alerts /\ TablesStay /\ sess' = h
  BY DEF FindAlert, TablesStay
<1>2. sess \in [Sessions -> Session]
  BY DEF IInv, StoreTypeOK
<1>3. objects \in [Incidents -> IncidentRow]
  BY TableFields DEF IInv, StoreTypeOK, IncidentRow
<1>4. f \in [Sessions -> Session]
  BY <1>2, SetAt
<1>5. g \in [Sessions -> Session]
  <2>1. {a} \in SUBSET Alerts
    OBVIOUS
  <2> DEFINE c == {a}
  <2> HIDE DEF f, c
  <2>2. [f EXCEPT ![s].cluster = c] \in [Sessions -> Session]
    BY <1>4, <2>1, SetCluster DEF c
  <2> QED
    BY <2>2 DEF c
<1>6. h \in [Sessions -> Session]
  <2> HIDE DEF g, objects
  <2> QED
    BY <1>3, <1>5, SetLoaded
<1>7. /\ sess'[s].at = "delete" /\ sess'[s].todo = sess[s].todo
      /\ sess'[s].cluster = {a} /\ sess'[s].target = sess[s].target
      /\ sess'[s].pending = sess[s].pending /\ sess'[s].cache = sess[s].cache
      /\ sess'[s].loaded = objects
      /\ \A t \in Sessions : t # s => sess'[t] = sess[t]
  <2> HIDE DEF objects
  <2> QED
    BY <1>1, <1>2 DEF Session
<1>8. Moves(s)
  BY <1>1, <1>6, <1>7 DEF Moves
<1>9. /\ sess[s].todo = {} /\ sess[s].target = None /\ sess[s].pending = None
      /\ \A k \in Keys : sess[s].cache[k] = None
      /\ \A i \in Incidents : sess[s].loaded[i] = None
  BY <1>1, NothingYet
<1>10. /\ sess'[s].todo = {} /\ sess'[s].pending = None
       /\ \A k \in Keys : sess'[s].cache[k] = None
       /\ \A i \in Incidents : sess'[s].loaded[i] = IF <<i, a>> \in db.links THEN db.incidents[i] ELSE None
  BY <1>7, <1>9
<1> HIDE DEF objects, h
<1>11. writer # s
  BY <1>1, StoreConstantsOK DEF IInv, Locking
<1>12. StoreTypeOK'
  BY <1>1, <1>8 DEF IInv, StoreTypeOK, Moves, TablesStay
<1>13. Locking'
  BY <1>1, <1>8, <1>11 DEF IInv, Locking, TablesStay, Moves, StoreTypeOK
<1>14. Phases'
  <2>1. Phase(s)'
    BY <1>7, <1>10 DEF Phase
  <2> QED
    BY <1>7, <2>1, PhasesAfter DEF IInv
<1>15. ClustersApart'
  BY <1>7, <1>8, <1>10 DEF IInv, ClustersApart, Moves, SameKey
<1>16. ObjectsLoaded'
  <2>1. \A i \in Incidents : sess'[s].loaded[i] # None /\ draft.incidents[i] # None
          => sess'[s].loaded[i].key = draft.incidents[i].key
    BY <1>10 DEF IInv, Locking
  <2>2. draft' = draft /\ \A t \in Sessions : t # s => sess'[t] = sess[t]
    BY <1>1, <1>7 DEF TablesStay
  <2> QED
    BY <1>7, <1>10, <2>1, <2>2 DEF IInv, ObjectsLoaded
<1>17. OutsidersHaveDrills'
  BY <1>1, <1>7, <1>8 DEF IInv, OutsidersHaveDrills, OnlyDrills, Mine, Moves, TablesStay
<1>18. WriterHasTheRest'
  BY <1>1, <1>8, <1>11 DEF IInv, WriterHasTheRest, Mine, Unlinked, Linked, Moves, TablesStay, StoreTypeOK
<1>19. DeletesFound'
  <2>1. ASSUME a \in Ingested, NEW i \in Incidents, <<i, a>> \in draft.links
        PROVE  sess'[s].loaded[i] # None
    <3>1. PICK j \in Incidents : <<j, a>> \in db.links
      BY <1>1, <2>1 DEF IInv, NothingIngestedIsLeftOut, Unlinked, Linked, Ingested
    <3>2. j = i
      BY <2>1, <3>1 DEF IInv, OneEach, Locking
    <3>3. db.incidents[i] # None
      BY <2>1, <3>1, <3>2 DEF IInv, Whole
    <3> QED
      BY <1>10, <3>1, <3>2, <3>3
  <2> QED
    BY <1>1, <1>7, <1>8, <2>1 DEF IInv, DeletesFound, Moves, TablesStay
<1>20. WriterIsFresh'
  BY <1>1, <1>8, <1>11 DEF IInv, WriterIsFresh, Fresh, OnlyDrills, Mine, Moves, TablesStay, StoreTypeOK
<1>21. CountsHold'
  BY <1>1, <1>7, <1>8, <1>9, CountsStay
<1> QED
  BY <1>1, <1>12, <1>13, <1>14, <1>15, <1>16, <1>17, <1>18, <1>19, <1>20, <1>21, TablesAlone DEF IInv

\* What is found for a cluster: nothing, the object used last for its key, or a row.
Matched(s, c, i) ==
  LET me == sess[s]
      after == sess'[s]
  IN /\ me.at = "match" /\ c \in me.todo
     /\ Moves(s) /\ TablesStay
     /\ after.at = "write" /\ after.todo = me.todo \ {c} /\ after.cluster = c
     /\ after.target = i /\ after.cache = me.cache /\ after.pending = me.pending
     /\ \A j \in Incidents : me.loaded[j] # None \/ j # i => after.loaded[j] = me.loaded[j]
     /\ i # None =>
          /\ i \in Incidents
          /\ me.loaded[i] # None \/ after.loaded[i] = View(s).incidents[i]
          /\ \/ me.loaded[i] # None /\ me.loaded[i].key = KeyOfCluster(c) /\ me.loaded[i].open
             \/ /\ View(s).incidents[i] # None /\ View(s).incidents[i].open
                /\ View(s).incidents[i].key = KeyOfCluster(c)

\* What matching finds.
LEMMA MatchClusterDoes ==
  ASSUME IInv, NEW s \in Sessions, MatchCluster(s)
  PROVE  \E c \in SUBSET Alerts : \E i \in Incidents \cup {None} : Matched(s, c, i)
<1> DEFINE me == sess[s]
           rows == View(s).incidents
           Found(c) == {i \in Incidents : rows[i] # None /\ rows[i].key = KeyOfCluster(c)
                                          /\ Accepts(rows[i], c)}
           Newest(c) == {i \in Found(c) : \A j \in Found(c) : rows[j].last <= rows[i].last}
           last(c) == me.cache[KeyOfCluster(c)]
           Hit(c) == last(c) # None /\ Accepts(me.loaded[last(c)], c)
           Now(i) == IF i = None \/ me.loaded[i] # None THEN me.loaded
                     ELSE [me.loaded EXCEPT ![i] = rows[i]]
           After(c, i) == [sess EXCEPT ![s].at = "write", ![s].todo = @ \ {c},
                             ![s].cluster = c, ![s].target = i,
                             ![s].loaded = IF i = None \/ @[i] # None THEN @
                                           ELSE [@ EXCEPT ![i] = rows[i]]]
<1>1. me.at = "match" /\ TablesStay
  BY DEF MatchCluster, TablesStay
<1>2. PICK c \in me.todo :
        \E i \in IF Hit(c) THEN {last(c)} ELSE IF Found(c) = {} THEN {None} ELSE Newest(c) :
          sess' = After(c, i)
  BY Zenon DEF MatchCluster
<1>3. PICK i \in IF Hit(c) THEN {last(c)} ELSE IF Found(c) = {} THEN {None} ELSE Newest(c) :
        sess' = After(c, i)
  BY <1>2
<1>4. /\ me.todo \in SUBSET SUBSET Alerts /\ me.cache \in [Keys -> Incidents \cup {None}]
      /\ me.loaded \in [Incidents -> IncidentRow]
      /\ sess \in [Sessions -> Session]
  BY SessionFields DEF IInv, StoreTypeOK
<1>5. c \in SUBSET Alerts /\ KeyOfCluster(c) \in Keys
  BY <1>4, KeyOfClusterOK DEF IInv, ClustersApart
<1>6. i # None =>
        /\ i \in Incidents
        /\ \/ me.loaded[i] # None /\ me.loaded[i].key = KeyOfCluster(c) /\ me.loaded[i].open
           \/ rows[i] # None /\ rows[i].open /\ rows[i].key = KeyOfCluster(c)
  <2>1. CASE Hit(c)
    <3>1. i = last(c) /\ i # None /\ me.loaded[i].open
      BY <1>3, <2>1 DEF Accepts
    <3> QED
      BY <1>4, <1>5, <3>1 DEF IInv, ObjectsLoaded
  <2>2. CASE ~Hit(c) /\ Found(c) # {}
    <3>1. i \in Found(c)
      BY <1>3, <2>2
    <3> QED
      BY <3>1 DEF Accepts
  <2>3. CASE ~Hit(c) /\ Found(c) = {}
    BY <1>3, <2>3
  <2> QED
    BY <2>1, <2>2, <2>3
<1>7. i \in Incidents \cup {None}
  BY <1>6
<1> DEFINE todo == me.todo \ {c}
           loaded == Now(i)
           f1 == [sess EXCEPT ![s].at = "write"]
           f2 == [f1 EXCEPT ![s].todo = todo]
           f3 == [f2 EXCEPT ![s].cluster = c]
           f4 == [f3 EXCEPT ![s].target = i]
           g  == [f4 EXCEPT ![s].loaded = loaded]
<1>8. sess' = g
  BY <1>3
<1>9. todo \in SUBSET SUBSET Alerts
  BY <1>4
<1>10. /\ loaded \in [Incidents -> IncidentRow]
       /\ \A j \in Incidents : me.loaded[j] # None \/ j # i => loaded[j] = me.loaded[j]
       /\ i # None => me.loaded[i] # None \/ loaded[i] = rows[i]
  <2>1. \A j \in Incidents : rows[j] \in IncidentRow
    BY TableFields DEF View, IInv, StoreTypeOK
  <2> HIDE DEF rows, me
  <2> QED
    BY <1>4, <1>7, <2>1
<1> HIDE DEF todo, loaded
<1>11. f1 \in [Sessions -> Session]
  BY <1>4, SetAt
<1>12. f2 \in [Sessions -> Session]
  <2> HIDE DEF f1
  <2> QED
    BY <1>9, <1>11, SetTodo
<1>13. f3 \in [Sessions -> Session]
  <2> HIDE DEF f2
  <2> QED
    BY <1>5, <1>12, SetCluster
<1>14. f4 \in [Sessions -> Session]
  <2> HIDE DEF f3
  <2> QED
    BY <1>7, <1>13, SetTarget
<1>15. g \in [Sessions -> Session]
  <2> HIDE DEF f4
  <2> QED
    BY <1>10, <1>14, SetLoaded
<1>16. /\ g[s].at = "write" /\ g[s].todo = todo /\ g[s].cluster = c
       /\ g[s].target = i /\ g[s].pending = me.pending /\ g[s].cache = me.cache
       /\ g[s].loaded = loaded
       /\ \A t \in Sessions : t # s => g[t] = sess[t]
  BY <1>4 DEF Session
<1>17. Moves(s)
  <2> HIDE DEF g
  <2> QED
    BY <1>8, <1>15, <1>16 DEF Moves
<1>18. Matched(s, c, i)
  <2> HIDE DEF g
  <2> QED
    BY <1>1, <1>2, <1>6, <1>8, <1>10, <1>16, <1>17 DEF Matched, todo
<1> QED
  BY <1>5, <1>7, <1>18

\* Matching: the object is loaded from what the session sees.
LEMMA MatchClusterKeeps ==
  ASSUME IInv, NEW s \in Sessions, MatchCluster(s)
  PROVE  IInv'
<1> DEFINE me == sess[s]
<1>1. PICK c \in SUBSET Alerts : \E j \in Incidents \cup {None} : Matched(s, c, j)
  BY MatchClusterDoes
<1>2. PICK i \in Incidents \cup {None} : Matched(s, c, i)
  BY <1>1
<1>3. /\ me.at = "match" /\ c \in me.todo
      /\ Moves(s) /\ TablesStay
      /\ sess'[s].at = "write" /\ sess'[s].todo = me.todo \ {c} /\ sess'[s].cluster = c
      /\ sess'[s].target = i /\ sess'[s].cache = me.cache /\ sess'[s].pending = me.pending
      /\ \A j \in Incidents : me.loaded[j] # None \/ j # i => sess'[s].loaded[j] = me.loaded[j]
  BY <1>2, Zenon DEF Matched
<1>4. i # None =>
        /\ i \in Incidents
        /\ me.loaded[i] # None \/ sess'[s].loaded[i] = View(s).incidents[i]
        /\ \/ me.loaded[i] # None /\ me.loaded[i].key = KeyOfCluster(c) /\ me.loaded[i].open
           \/ /\ View(s).incidents[i] # None /\ View(s).incidents[i].open
              /\ View(s).incidents[i].key = KeyOfCluster(c)
  BY <1>2, Zenon DEF Matched
<1>5. /\ me.cluster = {} /\ c # {} /\ SameKey(c)
      /\ \A d \in me.todo : d # {} /\ SameKey(d) /\ (d # c => d \cap c = {})
  <2>1. Phases /\ ClustersApart
    BY DEF IInv
  <2>2. me.cluster = {}
    BY <1>3, <2>1 DEF Phases, Phase
  <2>3. \A d \in me.todo : d # {} /\ SameKey(d) /\ \A e \in me.todo : d # e => d \cap e = {}
    BY <2>1 DEF ClustersApart
  <2> QED
    BY <1>3, <2>2, <2>3
<1>6. Mine(s)' = Mine(s)
  BY <1>3, <1>5 DEF Mine
<1>7. View(s).incidents[i] # None /\ i # None =>
        draft.incidents[i] # None /\ draft.incidents[i].key = View(s).incidents[i].key
  BY <1>4 DEF View, IInv, Locking
<1>8. i # None => sess'[s].loaded[i] # None /\ sess'[s].loaded[i].key = KeyOfCluster(c)
  BY <1>3, <1>4, <1>7 DEF IInv, ObjectsLoaded
<1>9. StoreTypeOK'
  BY <1>3 DEF IInv, StoreTypeOK, Moves, TablesStay
<1>10. Locking'
  BY <1>3 DEF IInv, Locking, TablesStay, Moves, StoreTypeOK
<1>11. Phases'
  <2>1. sess'[s].at = "write" /\ sess'[s].cluster # {}
    BY <1>3, <1>5
  <2> QED
    <3>1. Phase(s)'
      BY <2>1 DEF Phase
    <3> QED
      BY <1>3, <3>1, PhasesAfter DEF IInv, Moves
<1>12. ClustersApart'
  BY <1>3, <1>5 DEF IInv, ClustersApart, Moves
<1>13. ObjectsLoaded'
  <2>1. \A j \in Incidents : sess'[s].loaded[j] # None /\ draft.incidents[j] # None
          => sess'[s].loaded[j].key = draft.incidents[j].key
    <3>1. \A j \in Incidents : me.loaded[j] # None /\ draft.incidents[j] # None
            => me.loaded[j].key = draft.incidents[j].key
      BY DEF IInv, ObjectsLoaded
    <3>2. i # None => \/ sess'[s].loaded[i] = me.loaded[i]
                      \/ View(s).incidents[i] # None /\ sess'[s].loaded[i] = View(s).incidents[i]
      BY <1>3, <1>4
    <3> QED
      BY <1>3, <1>7, <3>1, <3>2, StoreConstantsOK
  <2>2. \A k \in Keys : sess'[s].cache[k] # None =>
          /\ sess'[s].loaded[sess'[s].cache[k]] # None
          /\ sess'[s].loaded[sess'[s].cache[k]].key = k
    <3>1. \A k \in Keys : me.cache[k] \in Incidents \cup {None}
      BY SessionFields DEF IInv
    <3> QED
      BY <1>3, <3>1 DEF IInv, ObjectsLoaded
  <2>3. sess'[s].pending # None => sess'[s].loaded[sess'[s].pending] # None
    <3>1. me.pending \in Incidents \cup {None}
      BY SessionFields DEF IInv
    <3> QED
      BY <1>3, <3>1 DEF IInv, ObjectsLoaded
  <2>4. draft' = draft /\ \A t \in Sessions : t # s => sess'[t] = sess[t]
    BY <1>3 DEF TablesStay, Moves
  <2> QED
    BY <1>3, <1>8, <2>1, <2>2, <2>3, <2>4, SMTT(30) DEF IInv, ObjectsLoaded
<1>14. OutsidersHaveDrills'
  <2>1. \A t \in Sessions : OnlyDrills(t)' <=> OnlyDrills(t)
    BY <1>3, <1>6 DEF OnlyDrills, Mine, Moves
  <2> QED
    BY <1>3, <2>1 DEF IInv, OutsidersHaveDrills, Moves, TablesStay
<1>15. WriterHasTheRest'
  <2>1. writer # None => Mine(writer)' = Mine(writer)
    BY <1>3, <1>6 DEF Mine, Moves, TablesStay, IInv, StoreTypeOK
  <2>2. writer # None => (sess'[writer].at # "read" => sess[writer].at # "read")
    BY <1>3 DEF Moves, IInv, StoreTypeOK
  <2>3. draft' = draft /\ writer' = writer
    BY <1>3 DEF TablesStay
  <2>4. WriterHasTheRest
    BY DEF IInv
  <2> QED
    BY <2>1, <2>2, <2>3, <2>4 DEF WriterHasTheRest, Unlinked, Linked
<1>16. DeletesFound'
  BY <1>3 DEF IInv, DeletesFound, Moves, TablesStay
<1>17. WriterIsFresh'
  <2>1. CASE writer = s /\ ~OnlyDrills(s)
    <3>1. Fresh(s) /\ View(s) = draft
      BY <2>1, StoreConstantsOK DEF IInv, WriterIsFresh, View
    <3>2. \A j \in Incidents : sess'[s].loaded[j] # None =>
            \/ me.loaded[j] # None /\ sess'[s].loaded[j] = me.loaded[j]
            \/ sess'[s].loaded[j] = draft.incidents[j]
      BY <1>3, <1>4, <3>1, StoreConstantsOK
    <3>3. Fresh(s)'
      BY <1>3, <3>1, <3>2 DEF Fresh, TablesStay
    <3>4. i # None => draft.incidents[i].open
      BY <1>4, <3>1 DEF Fresh
    <3> QED
      BY <1>3, <2>1, <3>3, <3>4 DEF WriterIsFresh, TablesStay
  <2>2. CASE writer = s /\ OnlyDrills(s)
    <3>1. OnlyDrills(s)'
      BY <1>6, <2>2 DEF OnlyDrills
    <3> QED
      BY <1>3, <2>2, <3>1 DEF WriterIsFresh, TablesStay
  <2>3. CASE writer # s
    BY <1>3, <2>3 DEF IInv, WriterIsFresh, Fresh, OnlyDrills, Mine, Moves, TablesStay, StoreTypeOK
  <2> QED
    BY <2>1, <2>2, <2>3
<1>18. CountsHold'
  <2>1. me.pending # None => sess'[s].loaded[me.pending] = me.loaded[me.pending]
    BY <1>3, SessionFields DEF IInv, ObjectsLoaded
  <2> QED
    BY <1>3, <2>1, CountsStay
<1> QED
  BY <1>3, <1>9, <1>10, <1>11, <1>12, <1>13, <1>14, <1>15, <1>16, <1>17, <1>18, TablesAlone DEF IInv

\* New alerts, before anything is linked: ingested ones in a transaction, drills committed.
Arrives(s, A) ==
  /\ sess[s].at = "idle" /\ writer = None
  /\ A \subseteq Alerts /\ \A a \in A : FreshAlert(a)
  /\ Moves(s) /\ sess'[s] = [Closed EXCEPT !.at = "read"]
  /\ draft' \in Tables /\ draft'.alerts = db.alerts \cup A
  /\ draft'.links = db.links /\ draft'.incidents = db.incidents
  /\ deletions' = deletions
  /\ \/ A \cap Drills = {} /\ writer' = s /\ db' = db
     \/ A \subseteq Drills /\ writer' = None /\ db' = draft'

\* What ingestion and drills do.
LEMMA ArrivalDoes ==
  ASSUME IInv, NEW s \in Sessions, NEW A \in SUBSET Alerts, Ingest(s, A) \/ Drill(s, A)
  PROVE  Arrives(s, A)
<1> DEFINE more == [db EXCEPT !.alerts = @ \cup A]
<1>1. /\ sess[s].at = "idle" /\ writer = None /\ \A a \in A : FreshAlert(a)
      /\ draft' = more /\ deletions' = deletions
      /\ sess' = [sess EXCEPT ![s].at = "read"]
      /\ \/ A \cap Drills = {} /\ writer' = s /\ db' = db
         \/ A \subseteq Drills /\ writer' = None /\ db' = draft'
  BY DEF Ingest, Drill, Write, WriteAndCommit
<1>2. db \in Tables /\ sess \in [Sessions -> Session]
  BY DEF IInv, StoreTypeOK
<1>3. /\ more \in Tables /\ more.alerts = db.alerts \cup A
      /\ more.links = db.links /\ more.incidents = db.incidents
  <2> DEFINE all == db.alerts \cup A
  <2>1. all \subseteq Alerts
    BY <1>2, TableFields
  <2>2. more = [db EXCEPT !.alerts = all]
    OBVIOUS
  <2> HIDE DEF more, all
  <2>3. more \in Tables /\ more.alerts = all /\ more.links = db.links /\ more.incidents = db.incidents
    BY <1>2, <2>1, <2>2 DEF Tables
  <2> QED
    BY <2>3 DEF all
<1>4. Moves(s)
  BY <1>1, <1>2, SetAt DEF Moves
<1>5. sess'[s] = [Closed EXCEPT !.at = "read"]
  <2>1. sess'[s] = [sess[s] EXCEPT !.at = "read"]
    BY <1>1, <1>2
  <2>2. sess[s] = [Closed EXCEPT !.at = "idle"]
    BY <1>1, NothingYet
  <2> QED
    BY <2>1, <2>2 DEF Closed
<1> HIDE DEF more
<1> QED
  BY <1>1, <1>3, <1>4, <1>5 DEF Arrives

\* New alerts have no links, and no session has them.
LEMMA ArrivalKeeps ==
  ASSUME IInv, NEW s \in Sessions, NEW A \in SUBSET Alerts, Arrives(s, A)
  PROVE  IInv'
<1>1. /\ sess[s].at = "idle" /\ writer = None /\ \A a \in A : FreshAlert(a)
      /\ Moves(s) /\ sess'[s] = [Closed EXCEPT !.at = "read"]
      /\ draft' \in Tables /\ draft'.alerts = db.alerts \cup A
      /\ draft'.links = db.links /\ draft'.incidents = db.incidents
      /\ deletions' = deletions
      /\ \/ A \cap Drills = {} /\ writer' = s /\ db' = db
         \/ A \subseteq Drills /\ writer' = None /\ db' = draft'
  BY Zenon DEF Arrives
<1>2. draft = db
  BY <1>1 DEF IInv, Locking
<1>3. db'.links = db.links /\ db'.incidents = db.incidents /\ db'.alerts \subseteq db.alerts \cup A
  BY <1>1
<1>4. /\ sess'[s].at = "read" /\ sess'[s].cluster = {} /\ sess'[s].target = None
      /\ sess'[s].pending = None /\ sess'[s].todo = {}
      /\ \A k \in Keys : sess'[s].cache[k] = None
      /\ \A i \in Incidents : sess'[s].loaded[i] = None
  BY <1>1 DEF Closed
<1>5. \A t \in Sessions : t # s => sess'[t] = sess[t]
  BY <1>1 DEF Moves
<1>6. /\ sess[s].cluster = {} /\ sess[s].todo = {} /\ sess[s].pending = None
  BY <1>1, NothingYet
<1>7. StoreTypeOK'
  BY <1>1 DEF IInv, StoreTypeOK, Moves
<1>8. Locking'
  <2>1. db'.alerts \subseteq draft'.alerts /\ db'.links = draft'.links /\ db'.incidents = draft'.incidents
    BY <1>1, <1>3
  <2>2. writer' = None => draft' = db'
    BY <1>1, StoreConstantsOK
  <2>3. writer' # None => sess'[writer'].at = "read"
    BY <1>1, <1>4
  <2> QED
    BY <2>1, <2>2, <2>3 DEF Locking
<1>9. Phases'
  <2>1. Phase(s)'
    BY <1>1, <1>4 DEF Phase
  <2> QED
    BY <1>5, <2>1, PhasesAfter DEF IInv
<1>10. ClustersApart'
  BY <1>4, <1>5 DEF IInv, ClustersApart, SameKey
<1>11. ObjectsLoaded'
  <2>1. draft'.incidents = draft.incidents
    BY <1>1, <1>2
  <2> QED
    BY <1>4, <1>5, <2>1 DEF IInv, ObjectsLoaded
<1>12. OutsidersHaveDrills'
  BY <1>1, <1>4, <1>5, StoreConstantsOK DEF IInv, OutsidersHaveDrills, OnlyDrills, Mine
<1>13. WriterHasTheRest'
  BY <1>1, <1>4 DEF WriterHasTheRest, Mine
<1>14. NothingIngestedIsLeftOut'
  BY <1>1, <1>3 DEF IInv, NothingIngestedIsLeftOut, Unlinked, Linked
<1>15. OneEach'
  BY <1>1, <1>2 DEF IInv, OneEach
<1>16. Whole(db)' /\ Whole(draft)'
  BY <1>1, <1>3 DEF IInv, Whole
<1>17. DeletesFound'
  <2>1. ASSUME NEW t \in Sessions, sess'[t].at = "delete", NEW a \in sess'[t].cluster
        PROVE  /\ (a \in draft.alerts => a \in db.alerts)'
               /\ a \in Ingested => \A i \in Incidents :
                    (<<i, a>> \in draft.links => sess[t].loaded[i] # None)'
    <3>1. t # s /\ sess'[t] = sess[t]
      BY <1>4, <1>5, <2>1
    <3>2. a \notin A
      BY <1>1, <2>1, <3>1 DEF FreshAlert
    <3>3. db.alerts \subseteq db'.alerts
      BY <1>1
    <3> QED
      BY <1>1, <1>2, <2>1, <3>1, <3>2, <3>3 DEF IInv, DeletesFound
  <2> QED
    BY <2>1 DEF DeletesFound
<1>18. WriterIsFresh'
  BY <1>1, <1>4 DEF WriterIsFresh, Fresh
<1>19. NewLinksAreOpen'
  BY <1>1, <1>3 DEF NewLinksAreOpen
<1>20. Covered(db)' /\ Covered(draft)'
  BY <1>1, <1>3 DEF IInv, Covered, Drilled
<1>21. CountsHold'
  <2> SUFFICES ASSUME deletions = 0
               PROVE  /\ \A i \in Incidents : Exact(db, i)' /\ Exact(draft, i)'
                      /\ \A t \in Sessions : sess'[t].pending # None => Drilled(View(t), sess[t].pending)'
    BY <1>1 DEF CountsHold
  <2>1. \A i \in Incidents : Exact(db, i)
    BY DEF IInv, CountsHold
  <2>2. \A i \in Incidents : Exact(db, i)' /\ Exact(draft, i)'
    BY <1>1, <1>3, <2>1 DEF Exact, Drilled, LinksOf
  <2>3. ASSUME NEW t \in Sessions, sess'[t].pending # None
        PROVE  Drilled(View(t), sess[t].pending)'
    <3>1. t # s /\ sess[t].pending # None /\ sess'[t] = sess[t]
      BY <1>4, <1>5, <2>3
    <3>2. Drilled(db, sess[t].pending)
      BY <1>1, <1>2, <3>1, StoreConstantsOK DEF IInv, CountsHold, View
    <3> QED
      BY <1>1, <1>3, <3>1, <3>2 DEF Drilled, View
  <2> QED
    BY <2>2, <2>3
<1> QED
  BY <1>7, <1>8, <1>9, <1>10, <1>11, <1>12, <1>13, <1>14, <1>15, <1>16, <1>17, <1>18, <1>19,
     <1>20, <1>21 DEF IInv

\* A session at rest.
LEMMA ClosedSession ==
  /\ Closed \in Session
  /\ Closed.at = "idle" /\ Closed.todo = {} /\ Closed.cluster = {} /\ Closed.target = None
  /\ Closed.pending = None /\ \A k \in Keys : Closed.cache[k] = None
  /\ \A i \in Incidents : Closed.loaded[i] = None
  /\ Closed = [Closed EXCEPT !.at = "idle"]
  BY DEF Closed, Session, IncidentRow

\* A step after which there is no writer, and one whose effect is committed.
Publishes ==
  /\ db' = draft' /\ db' \in Tables /\ writer' = None
  /\ deletions' \in 0 .. MaxDeletions
  /\ sess' \in [Sessions -> Session]
  /\ \A t \in Sessions : sess'[t] = sess[t] \/ sess'[t] = Closed
  /\ writer # None => sess'[writer] = Closed
  /\ db'.links \subseteq draft.links
  /\ \A i \in Incidents : db'.incidents[i] # None =>
       draft.incidents[i] # None /\ db'.incidents[i].key = draft.incidents[i].key

\* Most of the invariant, when there is no writer any more.
LEMMA PublishingKeeps ==
  ASSUME IInv, Publishes
  PROVE  /\ StoreTypeOK' /\ Locking' /\ Phases' /\ ClustersApart' /\ ObjectsLoaded'
         /\ OutsidersHaveDrills' /\ WriterHasTheRest' /\ OneEach' /\ DeletesFound'
         /\ WriterIsFresh' /\ NewLinksAreOpen'
<1>1. /\ db' = draft' /\ db' \in Tables /\ writer' = None
      /\ deletions' \in 0 .. MaxDeletions /\ sess' \in [Sessions -> Session]
      /\ \A t \in Sessions : sess'[t] = sess[t] \/ sess'[t] = Closed
      /\ writer # None => sess'[writer] = Closed
      /\ db'.links \subseteq draft.links
      /\ \A i \in Incidents : db'.incidents[i] # None =>
           draft.incidents[i] # None /\ db'.incidents[i].key = draft.incidents[i].key
  BY Zenon DEF Publishes
<1>2. StoreTypeOK'
  BY <1>1 DEF StoreTypeOK
<1>3. Locking'
  BY <1>1 DEF Locking
<1>4. Phases'
  <2>1. ASSUME NEW t \in Sessions PROVE Phase(t)'
    <3>1. CASE sess'[t] = sess[t]
      BY <3>1 DEF IInv, Phases, Phase
    <3>2. CASE sess'[t] = Closed
      BY <3>2, ClosedSession DEF Phase
    <3> QED
      BY <1>1, <3>1, <3>2
  <2> QED
    BY <2>1 DEF Phases
<1>5. ClustersApart'
  BY <1>1, ClosedSession DEF IInv, ClustersApart, SameKey
<1>6. ObjectsLoaded'
  <2>1. ASSUME NEW t \in Sessions, sess'[t] = sess[t], NEW i \in Incidents,
               sess'[t].loaded[i] # None, draft'.incidents[i] # None
        PROVE  sess'[t].loaded[i].key = draft'.incidents[i].key
    <3>1. draft.incidents[i] # None /\ draft'.incidents[i].key = draft.incidents[i].key
      BY <1>1, <2>1
    <3> QED
      BY <2>1, <3>1 DEF IInv, ObjectsLoaded
  <2>2. \A t \in Sessions : \A i \in Incidents :
          sess'[t].loaded[i] # None /\ draft'.incidents[i] # None
            => sess'[t].loaded[i].key = draft'.incidents[i].key
    BY <1>1, <2>1, ClosedSession
  <2> QED
    BY <1>1, <2>2, ClosedSession DEF IInv, ObjectsLoaded
<1>7. OutsidersHaveDrills'
  <2>1. \A t \in Sessions : sess'[t] # Closed => writer # t /\ sess'[t] = sess[t]
    BY <1>1, StoreConstantsOK
  <2> QED
    BY <1>1, <2>1, ClosedSession DEF IInv, OutsidersHaveDrills, OnlyDrills, Mine
<1>8. WriterHasTheRest' /\ WriterIsFresh'
  BY <1>1 DEF WriterHasTheRest, WriterIsFresh
<1>9. OneEach'
  BY <1>1 DEF IInv, OneEach
<1>10. DeletesFound'
  <2>1. \A t \in Sessions : sess'[t].at = "delete" => sess'[t] = sess[t]
    BY <1>1, ClosedSession
  <2> QED
    BY <1>1, <2>1 DEF IInv, DeletesFound
<1>11. NewLinksAreOpen'
  BY <1>1 DEF NewLinksAreOpen
<1> QED
  BY <1>2, <1>3, <1>4, <1>5, <1>6, <1>7, <1>8, <1>9, <1>10, <1>11

\* The end of a session that is not the writer.
LEMMA OutsiderEnds ==
  ASSUME IInv, NEW s \in Sessions, writer # s, TablesStay, sess' = [sess EXCEPT ![s] = Closed]
  PROVE  IInv'
<1>1. Moves(s) /\ sess'[s] = Closed
  BY ClosedSession DEF IInv, StoreTypeOK, Moves
<1>2. /\ db' = db /\ draft' = draft /\ writer' = writer /\ deletions' = deletions
      /\ \A t \in Sessions : t # s => sess'[t] = sess[t]
  BY <1>1 DEF TablesStay, Moves
<1>3. StoreTypeOK'
  BY <1>1, <1>2 DEF IInv, StoreTypeOK, Moves
<1>4. Locking'
  BY <1>2 DEF IInv, Locking, StoreTypeOK
<1>5. Phases'
  <2>1. Phase(s)'
    BY <1>1, ClosedSession DEF Phase
  <2> QED
    BY <1>2, <2>1, PhasesAfter DEF IInv
<1>6. ClustersApart'
  BY <1>1, <1>2, ClosedSession DEF IInv, ClustersApart, SameKey
<1>7. ObjectsLoaded'
  BY <1>1, <1>2, ClosedSession DEF IInv, ObjectsLoaded
<1>8. OutsidersHaveDrills'
  BY <1>1, <1>2, ClosedSession DEF IInv, OutsidersHaveDrills, OnlyDrills, Mine
<1>9. WriterHasTheRest'
  BY <1>2 DEF IInv, WriterHasTheRest, Mine, Unlinked, Linked, StoreTypeOK
<1>10. DeletesFound'
  BY <1>1, <1>2, ClosedSession DEF IInv, DeletesFound
<1>11. WriterIsFresh'
  BY <1>2 DEF IInv, WriterIsFresh, Fresh, OnlyDrills, Mine, StoreTypeOK
<1>12. CountsHold'
  <2> SUFFICES ASSUME deletions = 0 PROVE CountsHold'
    BY <1>2 DEF CountsHold
  <2>1. \A i \in Incidents : Exact(db, i)' /\ (Exact(draft, i) => Exact(draft, i)')
    BY <1>2 DEF IInv, CountsHold, Exact, Drilled, LinksOf
  <2>2. writer # None => sess'[writer] = sess[writer]
    BY <1>2 DEF IInv, StoreTypeOK
  <2>3. \A t \in Sessions : sess'[t].pending # None => sess'[t] = sess[t]
    BY <1>1, <1>2, ClosedSession
  <2>4. CountsHold
    BY DEF IInv
  <2> QED
    BY <1>2, <2>1, <2>2, <2>3, <2>4 DEF CountsHold, Drilled, View, LinksOf
<1> QED
  BY <1>3, <1>4, <1>5, <1>6, <1>7, <1>8, <1>9, <1>10, <1>11, <1>12, TablesAlone DEF IInv

\* The end of a session without a commit.
LEMMA RollbackKeeps ==
  ASSUME IInv, NEW s \in Sessions, Rollback(s)
  PROVE  IInv'
<1>1. /\ sess' = [sess EXCEPT ![s] = Closed] /\ UNCHANGED <<db, deletions>>
      /\ writer' = IF writer = s THEN None ELSE writer
      /\ draft' = IF writer = s THEN db ELSE draft
  BY DEF Rollback, Release
<1>2. CASE writer # s
  BY <1>1, <1>2, OutsiderEnds DEF TablesStay
<1>3. CASE writer = s
  <2>1. /\ db' = db /\ draft' = db /\ writer' = None /\ deletions' = deletions
        /\ \A t \in Sessions : t # s => sess'[t] = sess[t]
        /\ sess'[s] = Closed /\ sess' \in [Sessions -> Session]
    BY <1>1, <1>3, ClosedSession DEF IInv, StoreTypeOK
  <2>2. Publishes
    BY <1>3, <2>1 DEF Publishes, IInv, StoreTypeOK, Locking
  <2>3. NothingIngestedIsLeftOut' /\ Whole(db)' /\ Whole(draft)' /\ Covered(db)' /\ Covered(draft)'
    BY <2>1 DEF IInv, NothingIngestedIsLeftOut, Unlinked, Linked, Whole, Covered, Drilled
  <2>4. CountsHold'
    <3> SUFFICES ASSUME deletions = 0
                 PROVE  /\ \A i \in Incidents : Exact(db, i)
                        /\ \A t \in Sessions : sess'[t].pending # None => Drilled(db, sess[t].pending)'
      BY <2>1 DEF CountsHold, Exact, Drilled, LinksOf, View
    <3>1. \A i \in Incidents : Exact(db, i)
      BY DEF IInv, CountsHold
    <3>2. ASSUME NEW t \in Sessions, sess'[t].pending # None
          PROVE  Drilled(db, sess[t].pending)'
      <4>1. t # s /\ sess'[t] = sess[t] /\ sess[t].pending # None
        BY <2>1, <3>2, ClosedSession
      <4>2. Drilled(db, sess[t].pending)
        BY <1>3, <4>1 DEF IInv, CountsHold, View
      <4> QED
        BY <2>1, <4>1, <4>2 DEF Drilled
    <3> QED
      BY <3>1, <3>2
  <2> QED
    BY <2>2, <2>3, <2>4, PublishingKeeps DEF IInv
<1> QED
  BY <1>2, <1>3

\* What a commit that writes anything publishes.
CommitsDraft(s) ==
  LET me == sess[s] IN
  /\ me.at = "commit" /\ (writer = s \/ me.pending # None) /\ writer \in {None, s} /\ writer' = None
  /\ sess' \in [Sessions -> Session] /\ sess'[s] = Closed
  /\ \A t \in Sessions : t # s => sess'[t] = sess[t]
  /\ deletions' = deletions /\ db' = draft' /\ db' \in Tables
  /\ db'.alerts = draft.alerts /\ db'.links = draft.links
  /\ \A i \in Incidents :
       LET row == draft.incidents[i]  new == db'.incidents[i] IN
       /\ row = None <=> new = None
       /\ row # None =>
            /\ new.key = row.key /\ new.open = row.open /\ new.first = row.first /\ new.last = row.last
            /\ new.count = IF i = me.pending THEN me.loaded[i].count ELSE row.count

\* A commit that writes publishes the draft and the pending count.
LEMMA CommitDoes ==
  ASSUME IInv, NEW s \in Sessions, Commit(s), writer = s \/ sess[s].pending # None
  PROVE  CommitsDraft(s)
<1> DEFINE me == sess[s]
           F == Flushed(s)
<1>1. /\ me.at = "commit" /\ CanFlush(s) /\ writer \in {None, s} /\ db' = F /\ draft' = F
      /\ sess' = [sess EXCEPT ![s] = Closed] /\ deletions' = deletions
      /\ writer' = IF writer = s THEN None ELSE writer
  BY DEF Commit, Release
<1>2. StoreTypeOK /\ Locking /\ ObjectsLoaded
  BY DEF IInv
<1>3. writer' = None /\ View(s) = draft
  BY <1>1, <1>2, ViewIsDraft
<1>4. /\ F \in Tables /\ F.alerts = draft.alerts /\ F.links = draft.links
      /\ \A k \in Incidents :
           F.incidents[k] =
             IF k = me.pending THEN [draft.incidents[k] EXCEPT !.count = me.loaded[k].count]
             ELSE draft.incidents[k]
  BY <1>1, <1>2, <1>3, FlushedTables
<1>5. sess' \in [Sessions -> Session] /\ sess'[s] = Closed /\ \A t \in Sessions : t # s => sess'[t] = sess[t]
  BY <1>1, <1>2, ClosedSession DEF StoreTypeOK
<1>6. ASSUME NEW i \in Incidents
      PROVE  LET row == draft.incidents[i]  new == F.incidents[i] IN
             /\ row = None <=> new = None
             /\ row # None =>
                  /\ new.key = row.key /\ new.open = row.open /\ new.first = row.first /\ new.last = row.last
                  /\ new.count = IF i = me.pending THEN me.loaded[i].count ELSE row.count
  <2> DEFINE row == draft.incidents[i]
             new == F.incidents[i]
  <2>1. CASE i # me.pending
    BY <1>4, <2>1
  <2>2. CASE i = me.pending
    <3>1. row \in IncidentRow /\ new \in IncidentRow
      BY <1>2, <1>4, TableFields DEF StoreTypeOK
    <3>2. i # None
      BY StoreConstantsOK
    <3>3. row # None /\ me.loaded[i] # None
      BY <1>1, <1>2, <1>3, <2>2, <3>2 DEF CanFlush, ObjectsLoaded
    <3>4. me.loaded[i] \in IncidentRow
      BY <1>2, SessionFields
    <3>5. row \in Incident /\ me.loaded[i].count \in Nat \ {0}
      BY <3>1, <3>3, <3>4, RowFields
    <3>6. new = [row EXCEPT !.count = me.loaded[i].count]
      BY <1>4, <2>2
    <3>7. /\ new # None /\ new.key = row.key /\ new.open = row.open /\ new.first = row.first /\ new.last = row.last
          /\ new.count = me.loaded[i].count
      <4> HIDE DEF row, new, me
      <4>1. new \in Incident
        BY <3>5, <3>6 DEF Incident
      <4> QED
        BY <3>5, <3>6, <4>1, NoneIsNoRow DEF Incident
    <3> QED
      BY <2>2, <3>3, <3>7
  <2> QED
    BY <2>1, <2>2
<1> HIDE DEF F
<1> QED
  BY <1>1, <1>3, <1>4, <1>5, <1>6 DEF CommitsDraft

\* A commit of the writer leaves nothing unlinked.
LEMMA CommitKeeps ==
  ASSUME IInv, NEW s \in Sessions, Commit(s)
  PROVE  IInv'
<1> DEFINE me == sess[s]
<1>1. CASE ~(writer = s \/ me.pending # None)
  <2>1. writer # s /\ sess' = [sess EXCEPT ![s] = Closed] /\ TablesStay
    BY <1>1 DEF Commit, Release, TablesStay
  <2> QED
    BY <2>1, OutsiderEnds
<1>2. CASE writer = s \/ me.pending # None
  <2>1. /\ me.at = "commit" /\ writer \in {None, s} /\ writer' = None
        /\ sess' \in [Sessions -> Session] /\ sess'[s] = Closed
        /\ \A t \in Sessions : t # s => sess'[t] = sess[t]
        /\ deletions' = deletions /\ db' = draft' /\ db' \in Tables
        /\ db'.alerts = draft.alerts /\ db'.links = draft.links
    BY <1>2, CommitDoes, Zenon DEF CommitsDraft
  <2>2. \A i \in Incidents :
          LET row == draft.incidents[i]  new == db'.incidents[i] IN
          /\ row = None <=> new = None
          /\ row # None =>
               /\ new.key = row.key /\ new.first = row.first /\ new.last = row.last
               /\ new.count = IF i = me.pending THEN me.loaded[i].count ELSE row.count
    BY <1>2, CommitDoes, Zenon DEF CommitsDraft
  <2>3. Publishes
    BY <2>1, <2>2 DEF Publishes, IInv, StoreTypeOK
  <2>4. NothingIngestedIsLeftOut'
    <3>1. Unlinked(draft) \subseteq Drills
      <4>1. CASE writer = s
        <5>1. Mine(s) = {}
          BY <2>1 DEF Mine, IInv, Phases, Phase
        <5> QED
          BY <2>1, <4>1, <5>1, StoreConstantsOK DEF IInv, WriterHasTheRest
      <4>2. CASE writer = None
        BY <4>2 DEF IInv, Locking, NothingIngestedIsLeftOut
      <4> QED
        BY <2>1, <4>1, <4>2
    <3> QED
      BY <2>1, <3>1 DEF NothingIngestedIsLeftOut, Unlinked, Linked
  <2>5. Whole(db)' /\ Whole(draft)'
    BY <2>1, <2>2 DEF IInv, Whole
  <2>6. Covered(db)' /\ Covered(draft)'
    BY <2>1, <2>2 DEF IInv, Covered, Drilled
  <2>7. CountsHold'
    <3> SUFFICES ASSUME deletions = 0
                 PROVE  /\ \A i \in Incidents : Exact(db, i)'
                        /\ \A t \in Sessions : sess'[t].pending # None => Drilled(db, sess[t].pending)'
      BY <2>1 DEF CountsHold, Exact, Drilled, LinksOf, View
    <3>1. CountsHold /\ \A t \in Sessions : writer # t => View(t) = db
      BY DEF IInv, View
    <3>2. View(s) = draft
      BY <2>1, ViewIsDraft DEF IInv
    <3>3. ASSUME NEW i \in Incidents PROVE Exact(db, i)'
      <4>1. CASE i = me.pending
        <5>1. i # None
          BY StoreConstantsOK
        <5>2. \/ Drilled(draft, i)
              \/ me.loaded[i].count = Cardinality(LinksOf(draft, i))
          BY <3>1, <3>2, <4>1, <5>1 DEF CountsHold
        <5> QED
          BY <2>1, <2>2, <4>1, <5>2 DEF Exact, Drilled, LinksOf
      <4>2. CASE i # me.pending
        <5>1. Exact(draft, i)
          BY <2>1, <3>1, <4>2 DEF CountsHold
        <5> QED
          BY <2>1, <2>2, <4>2, <5>1 DEF Exact, Drilled, LinksOf
      <4> QED
        BY <4>1, <4>2
    <3>4. ASSUME NEW t \in Sessions, sess'[t].pending # None
          PROVE  Drilled(db, sess[t].pending)'
      <4>1. t # s /\ sess'[t] = sess[t] /\ sess[t].pending # None
        BY <2>1, <3>4, ClosedSession
      <4>2. writer # t
        BY <2>1, <4>1, StoreConstantsOK
      <4>3. Drilled(db, sess[t].pending)
        BY <3>1, <4>1, <4>2 DEF CountsHold
      <4> QED
        BY <2>1, <4>1, <4>3 DEF Drilled, IInv, Locking
    <3> QED
      BY <3>3, <3>4
  <2> QED
    BY <2>3, <2>4, <2>5, <2>6, <2>7, PublishingKeeps DEF IInv
<1> QED
  BY <1>1, <1>2

\* A status is changed when nobody writes.
LEMMA PatchIncidentKeeps ==
  ASSUME IInv, NEW i \in Incidents, NEW open \in BOOLEAN, PatchIncident(i, open)
  PROVE  IInv'
<1> DEFINE row == [db.incidents[i] EXCEPT !.open = open]
           rows == [db.incidents EXCEPT ![i] = row]
           after == [db EXCEPT !.incidents = rows]
<1>1. /\ db.incidents[i] # None /\ writer = None /\ writer' = None
      /\ db' = after /\ draft' = after /\ sess' = sess /\ deletions' = deletions
  BY DEF PatchIncident, WriteAndCommit
<1>2. draft = db /\ db \in Tables
  BY <1>1 DEF IInv, Locking, StoreTypeOK
<1>3. db.incidents[i] \in Incident /\ db.incidents \in [Incidents -> IncidentRow]
  BY <1>1, <1>2, TableFields, RowFields
<1>4. /\ row \in Incident /\ row # None /\ row.key = db.incidents[i].key
      /\ row.count = db.incidents[i].count /\ row.first = db.incidents[i].first
      /\ row.last = db.incidents[i].last
  <2> DEFINE old == db.incidents[i]
  <2>1. old \in Incident /\ row = [old EXCEPT !.open = open]
    BY <1>3
  <2>2. row \in Incident /\ row.key = old.key /\ row.count = old.count /\ row.first = old.first /\ row.last = old.last
    <3> HIDE DEF old, row
    <3> QED
      BY <2>1 DEF Incident
  <2> QED
    BY <2>2, NoneIsNoRow
<1>5. rows \in [Incidents -> IncidentRow] /\ \A j \in Incidents : rows[j] = IF j = i THEN row ELSE db.incidents[j]
  <2> HIDE DEF row
  <2> QED
    BY <1>3, <1>4 DEF IncidentRow
<1>6. after \in Tables /\ after.alerts = db.alerts /\ after.links = db.links /\ after.incidents = rows
  <2> HIDE DEF rows
  <2> QED
    BY <1>2, <1>5 DEF Tables
<1>7. /\ db' \in Tables /\ db' = draft' /\ db'.alerts = db.alerts /\ db'.links = db.links
      /\ \A j \in Incidents :
           LET old == db.incidents[j]  new == db'.incidents[j] IN
           /\ old = None <=> new = None
           /\ old # None => /\ new.key = old.key /\ new.count = old.count
                            /\ new.first = old.first /\ new.last = old.last
  <2> HIDE DEF after, rows, row
  <2> QED
    BY <1>1, <1>4, <1>5, <1>6
<1> HIDE DEF after, rows, row
<1>8. Publishes
  BY <1>1, <1>2, <1>7 DEF Publishes, IInv, StoreTypeOK
<1>9. NothingIngestedIsLeftOut' /\ Whole(db)' /\ Whole(draft)'
  BY <1>7 DEF IInv, NothingIngestedIsLeftOut, Unlinked, Linked, Whole
<1>10. Covered(db)' /\ Covered(draft)'
  BY <1>1, <1>7 DEF IInv, Covered, Drilled
<1>11. CountsHold'
  <2> SUFFICES ASSUME deletions = 0
               PROVE  /\ \A j \in Incidents : Exact(db, j)'
                      /\ \A t \in Sessions : sess[t].pending # None => Drilled(db, sess[t].pending)'
    BY <1>1, <1>7 DEF CountsHold, Exact, Drilled, LinksOf, View
  <2>1. CountsHold /\ \A t \in Sessions : View(t) = db /\ writer # t
    BY <1>1, StoreConstantsOK DEF IInv, View
  <2>2. \A j \in Incidents : Exact(db, j)'
    BY <1>7, <2>1 DEF CountsHold, Exact, Drilled, LinksOf
  <2>3. \A t \in Sessions : sess[t].pending # None => Drilled(db, sess[t].pending)
    BY <2>1 DEF CountsHold
  <2> QED
    BY <1>1, <1>7, <2>2, <2>3 DEF Drilled
<1> QED
  BY <1>8, <1>9, <1>10, <1>11, PublishingKeeps DEF IInv

\* A deletion removes every link of an ingested alert.
LEMMA DeleteAlertKeeps ==
  ASSUME IInv, NEW s \in Sessions, DeleteAlert(s)
  PROVE  IInv'
<1> DEFINE c == sess[s].cluster
           found == {i \in Incidents : sess[s].loaded[i] # None} \X c
           alerts == db.alerts \ c
           links == db.links \ found
           after == [db EXCEPT !.alerts = alerts, !.links = links]
<1>1. /\ sess[s].at = "delete" /\ c \subseteq db.alerts /\ found \subseteq db.links
      /\ writer = None /\ writer' = None /\ db' = after /\ draft' = after
      /\ deletions < MaxDeletions /\ deletions' = deletions + 1
      /\ sess' = [sess EXCEPT ![s] = Closed]
  BY DEF DeleteAlert, WriteAndCommit, Without
<1>2. draft = db /\ db \in Tables
  BY <1>1 DEF IInv, Locking, StoreTypeOK
<1>3. after \in Tables /\ after.alerts = alerts /\ after.links = links /\ after.incidents = db.incidents
  <2>1. alerts \subseteq Alerts /\ links \subseteq Incidents \X Alerts
    BY <1>2, TableFields
  <2> HIDE DEF alerts, links
  <2> QED
    BY <1>2, <2>1 DEF Tables
<1> HIDE DEF after
<1>4. /\ db' = draft' /\ db' \in Tables /\ db'.alerts = alerts /\ db'.links = links
      /\ db'.incidents = db.incidents
  BY <1>1, <1>3
<1>5. deletions' \in 0 .. MaxDeletions /\ deletions' # 0
  BY <1>1, StoreConstantsOK DEF IInv, StoreTypeOK
<1>6. /\ sess' \in [Sessions -> Session] /\ sess'[s] = Closed
      /\ \A t \in Sessions : t # s => sess'[t] = sess[t]
  BY <1>1, ClosedSession DEF IInv, StoreTypeOK
<1>7. Publishes
  <2>1. links \subseteq draft.links
    BY <1>2
  <2> HIDE DEF links, alerts
  <2> QED
    BY <1>1, <1>2, <1>4, <1>5, <1>6, <2>1 DEF Publishes
<1>8. NothingIngestedIsLeftOut'
  <2>1. ASSUME NEW a \in alerts, \A i \in Incidents : <<i, a>> \notin links
        PROVE  a \in Drills
    <3>1. \A i \in Incidents : <<i, a>> \notin db.links
      BY <2>1
    <3> QED
      BY <2>1, <3>1 DEF IInv, NothingIngestedIsLeftOut, Unlinked, Linked
  <2> QED
    BY <1>4, <2>1 DEF NothingIngestedIsLeftOut, Unlinked, Linked
<1>9. Whole(db)' /\ Whole(draft)'
  <2>1. ASSUME NEW i \in Incidents, NEW a \in Ingested, <<i, a>> \in links
        PROVE  db.incidents[i] # None /\ a \in alerts
    <3>1. db.incidents[i] # None /\ a \in db.alerts /\ <<i, a>> \in draft.links
      BY <1>2, <2>1 DEF IInv, Whole
    <3>2. a \notin c
      BY <1>1, <2>1, <3>1 DEF IInv, DeletesFound
    <3> QED
      BY <3>1, <3>2
  <2> QED
    BY <1>4, <2>1 DEF Whole
<1>10. Covered(db)' /\ Covered(draft)'
  <2>1. links \subseteq db.links
    OBVIOUS
  <2> HIDE DEF links
  <2> QED
    BY <1>4, <1>5, <2>1 DEF IInv, Covered
<1>11. CountsHold'
  BY <1>5 DEF CountsHold
<1> QED
  BY <1>7, <1>8, <1>9, <1>10, <1>11, PublishingKeeps DEF IInv

\* Nothing is left.
LEMMA ClearAllKeeps ==
  ASSUME IInv, ClearAll
  PROVE  IInv'
<1>1. /\ writer = None /\ writer' = None /\ db' = EmptyTables /\ draft' = EmptyTables
      /\ deletions < MaxDeletions /\ deletions' = deletions + 1 /\ sess' = sess
  BY DEF ClearAll, WriteAndCommit
<1>2. /\ EmptyTables \in Tables /\ EmptyTables.alerts = {} /\ EmptyTables.links = {}
      /\ \A i \in Incidents : EmptyTables.incidents[i] = None
  BY DEF EmptyTables, Tables, IncidentRow
<1>3. deletions' \in 0 .. MaxDeletions /\ deletions' # 0
  BY <1>1, StoreConstantsOK DEF IInv, StoreTypeOK
<1>4. Publishes
  BY <1>1, <1>2, <1>3 DEF Publishes, IInv, StoreTypeOK
<1>5. NothingIngestedIsLeftOut' /\ Whole(db)' /\ Whole(draft)' /\ Covered(db)' /\ Covered(draft)'
  BY <1>1, <1>2 DEF NothingIngestedIsLeftOut, Unlinked, Whole, Covered
<1>6. CountsHold'
  BY <1>3 DEF CountsHold
<1> QED
  BY <1>4, <1>5, <1>6, PublishingKeeps DEF IInv

\* A session with an alert that is ingested is the writer.
LEMMA IngestingIsWriting ==
  ASSUME IInv, NEW s \in Sessions, sess[s].at # "delete", ~OnlyDrills(s)
  PROVE  writer = s
  BY DEF IInv, OutsidersHaveDrills

\* What a cluster that is linked keeps, whether its incident is old or new.
LEMMA LinkingKeeps ==
  ASSUME IInv, NEW s \in Sessions, NEW i \in Incidents, Linking(s, i)
  PROVE  /\ StoreTypeOK' /\ Locking' /\ Phases' /\ ClustersApart' /\ ObjectsLoaded'
         /\ OutsidersHaveDrills' /\ WriterHasTheRest' /\ NothingIngestedIsLeftOut'
         /\ OneEach' /\ Whole(db)' /\ DeletesFound' /\ Covered(db)'
<1> DEFINE me == sess[s]
           c  == me.cluster
           key == KeyOfCluster(c)
<1>1. /\ me.at = "write" /\ (me.target # None => me.target = i)
      /\ sess' \in [Sessions -> Session]
      /\ \A t \in Sessions : t # s => sess'[t] = sess[t]
      /\ sess'[s].at = (IF me.todo = {} THEN "commit" ELSE "match")
      /\ sess'[s].todo = me.todo /\ sess'[s].cluster = {} /\ sess'[s].target = None
      /\ sess'[s].loaded[i] \in Incident /\ sess'[s].loaded[i].key = key
      /\ sess'[s].pending \in {None, i}
      /\ UNCHANGED <<db, deletions>>
      /\ draft' \in Tables
      /\ draft'.alerts = draft.alerts /\ draft'.links = draft.links \cup ({i} \X c)
  BY Zenon DEF Linking
<1>2. /\ \A k \in Keys : sess'[s].cache[k] = IF k = key THEN i ELSE me.cache[k]
      /\ \A j \in Incidents : j # i => sess'[s].loaded[j] = me.loaded[j]
  BY Zenon DEF Linking
<1>4. \/ writer \in {None, s} /\ writer' = s
      \/ writer # s /\ writer' = writer /\ draft' = draft
  <2>1. \/ writer \in {None, s} /\ writer' = s
        \/ writer' = writer /\ draft' = draft
    BY Zenon DEF Linking
  <2> QED
    BY <2>1
<1>5. /\ \A j \in Incidents : draft.incidents[j] # None =>
           /\ draft'.incidents[j] # None
           /\ draft'.incidents[j].key = draft.incidents[j].key
           /\ draft'.incidents[j].open = draft.incidents[j].open
      /\ \A j \in Incidents : j # i /\ draft.incidents[j] = None => draft'.incidents[j] = None
      /\ me.target = i \/ (me.loaded[i] = None /\ draft.incidents[i] = None)
      /\ draft.incidents[i] = None /\ draft'.incidents[i] # None =>
           draft'.incidents[i].key = key /\ \A t \in Sessions : sess[t].loaded[i] = None
  BY Zenon DEF Linking
<1>6. /\ c \subseteq Alerts /\ c # {} /\ key \in Keys
      /\ me.target # None => me.loaded[i] \in Incident /\ me.loaded[i].key = key
  BY <1>1, AtHand DEF IInv
<1>7. Mine(s)' = UNION me.todo /\ Mine(s) = c \cup UNION me.todo
  BY <1>1 DEF Mine
<1>8. \A t \in Sessions : t # s => Mine(t)' = Mine(t)
  BY <1>1 DEF Mine
<1>9. \A a \in c \ Drills : writer = s /\ a \in draft.alerts /\ ~Linked(draft, a)
  BY <1>1, <1>7, IngestingIsWriting, StoreConstantsOK DEF IInv, OnlyDrills, WriterHasTheRest
<1> HIDE DEF me, key
<1>10. StoreTypeOK'
  BY <1>1, <1>4 DEF IInv, StoreTypeOK
<1>11. Locking'
  <2>1. CASE writer' = s
    <3>1. sess'[s].at \in {"match", "commit"} /\ writer' # None
      BY <1>1, <2>1, StoreConstantsOK
    <3> QED
      BY <1>1, <1>5, <2>1, <3>1 DEF IInv, Locking
  <2>2. CASE writer # s /\ writer' = writer /\ draft' = draft
    BY <1>1, <2>2 DEF IInv, Locking, StoreTypeOK
  <2> QED
    BY <1>4, <2>1, <2>2
<1>12. Phases'
  <2>1. Phase(s)'
    BY <1>1 DEF Phase
  <2> QED
    BY <1>1, <2>1, PhasesAfter DEF IInv
<1>13. ClustersApart'
  <2>1. \A d \in me.todo : d # {} /\ SameKey(d) /\ \A e \in me.todo : d # e => d \cap e = {}
    BY DEF IInv, ClustersApart, me
  <2> QED
    BY <1>1, <2>1 DEF IInv, ClustersApart, SameKey
<1>14. ObjectsLoaded'
  <2>1. me.loaded[i] # None => me.loaded[i].key = key
    BY <1>5, <1>6, StoreConstantsOK
  <2>2. sess'[s].loaded[i] # None
    BY <1>1, NoneIsNoRow
  <2>3. \A k \in Keys : sess'[s].cache[k] # None =>
          /\ sess'[s].loaded[sess'[s].cache[k]] # None
          /\ sess'[s].loaded[sess'[s].cache[k]].key = k
    <3>1. \A k \in Keys : me.cache[k] # None =>
            /\ me.cache[k] \in Incidents /\ me.loaded[me.cache[k]] # None
            /\ me.loaded[me.cache[k]].key = k
      BY SessionFields DEF IInv, ObjectsLoaded, me
    <3> QED
      BY <1>1, <1>2, <2>1, <2>2, <3>1
  <2>4. sess'[s].pending # None => sess'[s].loaded[sess'[s].pending] # None
    BY <1>1, <2>2
  <2>5. ASSUME NEW j \in Incidents, sess'[s].loaded[j] # None, draft'.incidents[j] # None
        PROVE  sess'[s].loaded[j].key = draft'.incidents[j].key
    <3>1. \A k \in Incidents : me.loaded[k] # None /\ draft.incidents[k] # None
            => me.loaded[k].key = draft.incidents[k].key
      BY DEF IInv, ObjectsLoaded, me
    <3>2. CASE j # i
      <4>1. me.loaded[j] # None /\ sess'[s].loaded[j] = me.loaded[j]
        BY <1>2, <2>5, <3>2
      <4>2. draft.incidents[j] # None /\ draft'.incidents[j].key = draft.incidents[j].key
        BY <1>5, <2>5, <3>2
      <4> QED
        BY <3>1, <4>1, <4>2
    <3>3. CASE j = i /\ draft.incidents[j] = None
      BY <1>1, <1>5, <2>5, <3>3
    <3>4. CASE j = i /\ draft.incidents[j] # None
      <4>1. me.loaded[i] # None /\ me.loaded[i].key = key
        BY <1>5, <1>6, <3>4, NoneIsNoRow, StoreConstantsOK
      <4> QED
        BY <1>1, <1>5, <3>1, <3>4, <4>1
    <3> QED
      BY <3>2, <3>3, <3>4
  <2>6. ASSUME NEW t \in Sessions, t # s, NEW j \in Incidents,
               sess[t].loaded[j] # None, draft'.incidents[j] # None
        PROVE  sess[t].loaded[j].key = draft'.incidents[j].key
    <3>1. draft.incidents[j] # None
      BY <1>5, <2>6
    <3>2. draft'.incidents[j].key = draft.incidents[j].key
      BY <1>5, <3>1
    <3> QED
      BY <2>6, <3>1, <3>2 DEF IInv, ObjectsLoaded
  <2>7. sess'[s].at # "write"
    BY <1>1
  <2> QED
    BY <1>1, <2>3, <2>4, <2>5, <2>6, <2>7 DEF IInv, ObjectsLoaded
<1>15. OutsidersHaveDrills'
  <2>1. CASE writer' = s
    <3>1. \A t \in Sessions : t # s => writer # t
      BY <1>4, <2>1, StoreConstantsOK
    <3> QED
      BY <1>1, <1>8, <2>1, <3>1 DEF IInv, OutsidersHaveDrills, OnlyDrills
  <2>2. CASE writer # s /\ writer' = writer
    <3>1. Mine(s)' \subseteq Drills
      BY <1>1, <1>7, <2>2 DEF IInv, OutsidersHaveDrills, OnlyDrills, me
    <3> QED
      BY <1>1, <1>8, <2>2, <3>1 DEF IInv, OutsidersHaveDrills, OnlyDrills
  <2> QED
    BY <1>4, <2>1, <2>2
<1>16. WriterHasTheRest'
  <2>1. CASE writer \in {None, s} /\ writer' = s
    <3>1. ASSUME NEW a \in UNION me.todo, a \notin Drills
          PROVE  a \in draft'.alerts /\ ~Linked(draft, a)'
      <4>1. ~OnlyDrills(s) /\ a \in Mine(s)
        BY <1>7, <3>1 DEF OnlyDrills
      <4>2. writer = s
        BY <1>1, <4>1, IngestingIsWriting DEF me
      <4>3. a \in draft.alerts /\ ~Linked(draft, a)
        BY <3>1, <4>1, <4>2, StoreConstantsOK DEF IInv, WriterHasTheRest
      <4>4. a \notin c
        BY <3>1 DEF IInv, ClustersApart, me
      <4> QED
        BY <1>1, <4>3, <4>4 DEF Linked
    <3>2. Unlinked(draft)' \ Drills \subseteq UNION me.todo
      <4>1. CASE writer = s
        <5>1. Unlinked(draft) \ Drills \subseteq c \cup UNION me.todo
          BY <1>1, <1>7, <4>1, StoreConstantsOK DEF IInv, WriterHasTheRest, me
        <5>2. Unlinked(draft)' \subseteq Unlinked(draft) \ c
          BY <1>1 DEF Unlinked, Linked
        <5> QED
          BY <5>1, <5>2
      <4>2. CASE writer = None
        <5>1. Unlinked(draft) \subseteq Drills
          BY <4>2 DEF IInv, NothingIngestedIsLeftOut, Locking
        <5>2. Unlinked(draft)' \subseteq Unlinked(draft)
          BY <1>1 DEF Unlinked, Linked
        <5> QED
          BY <5>1, <5>2
      <4> QED
        BY <2>1, <4>1, <4>2
    <3> QED
      BY <1>7, <2>1, <3>1, <3>2 DEF WriterHasTheRest
  <2>2. CASE writer # s /\ writer' = writer /\ draft' = draft
    BY <1>1, <1>8, <2>2 DEF IInv, WriterHasTheRest, Unlinked, Linked, StoreTypeOK
  <2> QED
    BY <1>4, <2>1, <2>2
<1>17. NothingIngestedIsLeftOut' /\ Whole(db)' /\ Covered(db)'
  BY <1>1 DEF IInv, NothingIngestedIsLeftOut, Whole, Covered, Unlinked, Linked, Drilled
<1>18. OneEach'
  <2>1. ASSUME NEW a \in Ingested, NEW j \in Incidents, NEW k \in Incidents,
               <<j, a>> \in draft'.links, <<k, a>> \in draft'.links
        PROVE  j = k
    <3>1. CASE a \in c
      <4>1. ~Linked(draft, a)
        BY <1>9, <2>1, <3>1 DEF Ingested
      <4> QED
        BY <1>1, <2>1, <4>1 DEF Linked
    <3>2. CASE a \notin c
      BY <1>1, <2>1, <3>2 DEF IInv, OneEach
    <3> QED
      BY <3>1, <3>2
  <2> QED
    BY <2>1 DEF OneEach
<1>19. DeletesFound'
  <2>1. ASSUME NEW t \in Sessions, sess'[t].at = "delete", NEW a \in sess'[t].cluster
        PROVE  /\ a \in draft'.alerts => a \in db'.alerts
               /\ a \in Ingested => \A j \in Incidents :
                    <<j, a>> \in draft'.links => sess'[t].loaded[j] # None
    <3>1. t # s /\ sess'[t] = sess[t]
      BY <1>1, <2>1
    <3>2. /\ a \in draft.alerts => a \in db.alerts
          /\ a \in Ingested => \A j \in Incidents : <<j, a>> \in draft.links => sess[t].loaded[j] # None
      BY <2>1, <3>1 DEF IInv, DeletesFound
    <3>3. a \in Ingested => a \notin c
      <4>1. ASSUME a \in Ingested, a \in c PROVE FALSE
        <5>1. a \in draft.alerts /\ ~Linked(draft, a)
          BY <1>9, <4>1 DEF Ingested
        <5>2. Linked(db, a)
          BY <3>2, <4>1, <5>1 DEF IInv, NothingIngestedIsLeftOut, Unlinked, Ingested
        <5> QED
          BY <5>1, <5>2 DEF IInv, Locking, Linked
      <4> QED
        BY <4>1
    <3> QED
      BY <1>1, <3>1, <3>2, <3>3
  <2> QED
    BY <2>1 DEF DeletesFound
<1> QED
  BY <1>10, <1>11, <1>12, <1>13, <1>14, <1>15, <1>16, <1>17, <1>18, <1>19

\* The counts of the other incidents, and those pending in other sessions.
LEMMA CountsElsewhere ==
  ASSUME IInv, NEW s \in Sessions, NEW i \in Incidents, Linking(s, i), deletions = 0
  PROVE  /\ \A j \in Incidents : Exact(db, j)'
         /\ \A j \in Incidents : j # i /\ (writer' = None \/ sess'[writer'].pending # j)
              => Exact(draft, j)'
         /\ \A t \in Sessions : t # s /\ sess'[t].pending # None =>
              \/ Drilled(View(t), sess[t].pending)'
              \/ /\ writer' = t
                 /\ (sess[t].loaded[sess[t].pending].count
                      = Cardinality(LinksOf(draft, sess[t].pending)))'
<1> DEFINE me == sess[s]
           c  == me.cluster
<1>1. /\ \A t \in Sessions : t # s => sess'[t] = sess[t]
      /\ UNCHANGED <<db, deletions>>
      /\ draft'.links = draft.links \cup ({i} \X c)
      /\ sess'[s].pending \in {None, i}
  BY Zenon DEF Linking
<1>2. \/ writer \in {None, s} /\ writer' = s
      \/ writer # s /\ writer' = writer /\ draft' = draft
  <2>1. \/ writer \in {None, s} /\ writer' = s
        \/ writer' = writer /\ draft' = draft
    BY Zenon DEF Linking
  <2> QED
    BY <2>1
<1>3. \A j \in Incidents : draft.incidents[j] # None =>
        draft'.incidents[j].count = IF j = me.pending THEN me.loaded[j].count ELSE draft.incidents[j].count
  BY Zenon DEF Linking
<1>4. \A j \in Incidents : j # i /\ draft.incidents[j] = None => draft'.incidents[j] = None
  BY Zenon DEF Linking
<1>5. CountsHold
  BY DEF IInv
<1>6. \A j \in Incidents : Exact(db, j)'
  BY <1>1, <1>5 DEF CountsHold, Exact, Drilled, LinksOf
<1>7. ASSUME NEW j \in Incidents, j # i, writer' = None \/ sess'[writer'].pending # j
      PROVE  Exact(draft, j)'
  <2>1. CASE writer \in {None, s} /\ writer' = s
    <3> SUFFICES ASSUME draft'.incidents[j] # None, ~Drilled(draft, j)'
                 PROVE  draft'.incidents[j].count = Cardinality(LinksOf(draft, j)')
      BY DEF Exact
    <3>1. draft.incidents[j] # None /\ ~Drilled(draft, j)
      BY <1>1, <1>4, <1>7 DEF Drilled
    <3>2. LinksOf(draft, j)' = LinksOf(draft, j)
      BY <1>1, <1>7 DEF LinksOf
    <3>3. CASE j = me.pending
      <4>1. View(s) = draft
        BY <2>1, ViewIsDraft DEF IInv
      <4>2. me.loaded[j].count = Cardinality(LinksOf(draft, j))
        BY <1>5, <3>1, <3>3, <4>1, StoreConstantsOK DEF CountsHold
      <4> QED
        BY <1>3, <3>1, <3>2, <3>3, <4>2
    <3>4. CASE j # me.pending
      <4>1. Exact(draft, j)
        BY <1>5, <2>1, <3>4 DEF CountsHold
      <4> QED
        BY <1>3, <3>1, <3>2, <3>4, <4>1 DEF Exact
    <3> QED
      BY <3>3, <3>4
  <2>2. CASE writer # s /\ writer' = writer /\ draft' = draft
    <3>1. writer = None \/ sess[writer].pending # j
      BY <1>1, <1>7, <2>2 DEF IInv, StoreTypeOK
    <3>2. Exact(draft, j)
      BY <1>5, <3>1 DEF CountsHold
    <3> QED
      BY <2>2, <3>2 DEF Exact, Drilled, LinksOf
  <2> QED
    BY <1>2, <2>1, <2>2
<1>8. ASSUME NEW t \in Sessions, t # s, sess'[t].pending # None
      PROVE  \/ Drilled(View(t), sess[t].pending)'
             \/ /\ writer' = t
                /\ (sess[t].loaded[sess[t].pending].count
                     = Cardinality(LinksOf(draft, sess[t].pending)))'
  <2>1. sess'[t] = sess[t] /\ sess[t].pending # None
    BY <1>1, <1>8
  <2>2. \/ Drilled(View(t), sess[t].pending)
        \/ /\ writer = t
           /\ sess[t].loaded[sess[t].pending].count = Cardinality(LinksOf(draft, sess[t].pending))
    BY <1>5, <2>1 DEF CountsHold
  <2>3. CASE writer \in {None, s} /\ writer' = s
    <3>1. writer # t /\ writer' # t
      BY <1>8, <2>3, StoreConstantsOK
    <3>2. View(t) = db /\ View(t)' = db
      BY <1>1, <3>1 DEF View
    <3> QED
      BY <2>1, <2>2, <3>1, <3>2 DEF Drilled
  <2>4. CASE writer' = writer /\ draft' = draft
    BY <1>1, <2>1, <2>2, <2>4 DEF View, Drilled, LinksOf
  <2> QED
    BY <1>2, <2>3, <2>4
<1> QED
  BY <1>6, <1>7, <1>8

\* A new incident has exactly its cluster.
LEMMA CreateKeeps ==
  ASSUME IInv, NEW s \in Sessions, NEW i \in Incidents, Create(s, i)
  PROVE  IInv'
<1> DEFINE me == sess[s]
           c  == me.cluster
           row == draft'.incidents[i]
<1>1. Linking(s, i) /\ Created(s, i)
  BY CreateLinks DEF IInv
<1>2. /\ writer \in {None, s} /\ writer' = s
      /\ me.target = None /\ db.incidents[i] = None /\ draft.incidents[i] = None
      /\ LinksOf(db, i) = {} /\ LinksOf(draft, i) = {}
      /\ row \in Incident /\ row.count = Cardinality(c) /\ row.first = First(c) /\ row.last = Last(c)
      /\ sess'[s].loaded[i] = row /\ sess'[s].pending = None
  BY <1>1, Zenon DEF Created
<1>3. /\ me.at = "write" /\ sess'[s].at \in {"match", "commit"}
      /\ sess'[s].todo = me.todo /\ sess'[s].cluster = {}
      /\ \A j \in Incidents : j # i => sess'[s].loaded[j] = me.loaded[j]
      /\ db' = db /\ deletions' = deletions
      /\ draft'.alerts = draft.alerts /\ draft'.links = draft.links \cup ({i} \X c)
  <2>1. sess'[s].at = IF me.todo = {} THEN "commit" ELSE "match"
    BY <1>1, Zenon DEF Linking
  <2>2. /\ me.at = "write" /\ sess'[s].todo = me.todo /\ sess'[s].cluster = {}
        /\ \A j \in Incidents : j # i => sess'[s].loaded[j] = me.loaded[j]
        /\ UNCHANGED <<db, deletions>>
        /\ draft'.alerts = draft.alerts /\ draft'.links = draft.links \cup ({i} \X c)
    BY <1>1, Zenon DEF Linking
  <2> QED
    BY <2>1, <2>2
<1>4. \A j \in Incidents : j # i =>
        /\ draft.incidents[j] # None =>
             LET old == draft.incidents[j]  new == draft'.incidents[j] IN
             /\ new # None /\ new.key = old.key /\ new.open = old.open
             /\ new.count = IF j = me.pending THEN me.loaded[j].count ELSE old.count
             /\ new.first = old.first /\ new.last = old.last
        /\ draft.incidents[j] = None => draft'.incidents[j] = None
  BY <1>1, Zenon DEF Linking
<1>5. /\ c \subseteq Alerts /\ c # {}
      /\ \A a \in c : First(c) <= TimeOf[a] /\ TimeOf[a] <= Last(c)
  BY <1>3, AtHand, WindowEncloses DEF IInv
<1>6. row # None
  BY <1>2, NoneIsNoRow
<1>7. \A a \in c \ Drills : writer = s /\ a \in draft.alerts /\ ~Linked(draft, a)
  <2>1. \A a \in c : a \in Mine(s)
    BY DEF Mine
  <2> QED
    BY <1>3, <2>1, IngestingIsWriting, StoreConstantsOK DEF IInv, OnlyDrills, WriterHasTheRest
<1>8. Whole(draft)'
  <2>1. ASSUME NEW j \in Incidents, NEW a \in Ingested, <<j, a>> \in draft'.links
        PROVE  draft'.incidents[j] # None /\ a \in draft'.alerts
    <3>1. CASE <<j, a>> \in draft.links
      <4>1. draft.incidents[j] # None /\ a \in draft.alerts
        BY <2>1, <3>1 DEF IInv, Whole
      <4> QED
        BY <1>2, <1>3, <1>4, <4>1
    <3>2. CASE j = i /\ a \in c
      BY <1>3, <1>6, <1>7, <2>1, <3>2 DEF Ingested
    <3> QED
      BY <1>3, <2>1, <3>1, <3>2
  <2> QED
    BY <2>1 DEF Whole
<1>9. WriterIsFresh'
  <2> SUFFICES ASSUME ~OnlyDrills(s)' PROVE Fresh(s)'
    BY <1>2, <1>3 DEF WriterIsFresh
  <2>1. ~OnlyDrills(s)
    BY <1>3 DEF OnlyDrills, Mine
  <2>2. writer = s
    BY <1>3, <2>1, IngestingIsWriting
  <2>3. Fresh(s)
    BY <2>1, <2>2, StoreConstantsOK DEF IInv, WriterIsFresh
  <2> QED
    BY <1>2, <1>3, <1>4, <1>6, <2>3 DEF Fresh
<1>10. NewLinksAreOpen'
  BY <1>2, <1>3 DEF IInv, NewLinksAreOpen
<1>11. Covered(draft)'
  <2>1. ASSUME NEW j \in Incidents, j # i, draft'.incidents[j] # None
        PROVE  /\ draft.incidents[j] # None /\ draft'.incidents[j].key = draft.incidents[j].key
               /\ draft'.incidents[j].first = draft.incidents[j].first
               /\ draft'.incidents[j].last = draft.incidents[j].last
               /\ Drilled(draft, j)' <=> Drilled(draft, j)
    BY <1>3, <1>4, <2>1 DEF Drilled
  <2>2. \A a \in Ingested : <<i, a>> \in draft'.links => a \in c
    BY <1>2, <1>3 DEF LinksOf
  <2>3. \A j \in Incidents : \A a \in Ingested : j # i /\ <<j, a>> \in draft'.links => <<j, a>> \in draft.links
    BY <1>3
  <2> QED
    BY <1>2, <1>3, <1>5, <2>1, <2>2, <2>3 DEF IInv, Covered
<1>12. CountsHold'
  <2> SUFFICES ASSUME deletions = 0 PROVE CountsHold'
    BY <1>3 DEF CountsHold
  <2>1. Exact(draft, i)'
    <3>1. LinksOf(draft, i)' = {i} \X c
      BY <1>2, <1>3 DEF LinksOf
    <3>2. Cardinality({i} \X c) = Cardinality(c)
      BY <1>5, LinksOfCluster
    <3> QED
      BY <1>2, <3>1, <3>2 DEF Exact
  <2> QED
    BY <1>1, <1>2, <2>1, CountsElsewhere DEF CountsHold
<1> QED
  BY <1>1, <1>8, <1>9, <1>10, <1>11, <1>12, LinkingKeeps DEF IInv

\* A merge by the writer of what it ingests: the object it has is the row.
LEMMA MergeIsFresh ==
  ASSUME IInv, NEW s \in Sessions, Merge(s), writer = s, ~OnlyDrills(s)
  PROVE  LET i   == sess[s].target
             row == draft.incidents[i]
             new == draft'.incidents[i]
             obj == sess'[s].loaded[i]
         IN /\ row # None /\ new # None /\ obj # None
            /\ obj.open = new.open /\ obj.first = new.first /\ obj.last = new.last
            /\ sess'[s].pending # i => obj.count = new.count
            /\ new.first <= row.first /\ row.last <= new.last
            /\ \A a \in sess[s].cluster : new.first <= TimeOf[a] /\ TimeOf[a] <= new.last
<1> DEFINE me  == sess[s]
           i   == me.target
           c   == me.cluster
           old == me.loaded[i]
           obj == Widened(old, c)
           after == sess'[s].loaded[i]
           row == draft.incidents[i]
           new == draft'.incidents[i]
<1>1. me.at = "write" /\ i # None
  BY Zenon DEF Merge
<1>2. /\ c \subseteq Alerts /\ c # {} /\ i \in Incidents /\ old \in Incident
  BY <1>1, AtHand DEF IInv
<1>3. /\ obj \in Incident /\ obj.open = old.open /\ obj.count = old.count
      /\ obj.first <= old.first /\ old.last <= obj.last
      /\ \A a \in c : obj.first <= TimeOf[a] /\ TimeOf[a] <= obj.last
  BY <1>2, WidenedObject
<1>4. View(s) = draft /\ Fresh(s)
  BY StoreConstantsOK DEF IInv, View, WriterIsFresh
<1>5. /\ row # None /\ old.open = row.open /\ old.first = row.first /\ old.last = row.last
      /\ me.pending # i => old.count = row.count
  BY <1>2, <1>4, NoneIsNoRow DEF Fresh
<1>6. Merged(s) =>
        /\ after \in Incident /\ after.open = obj.open
        /\ after.first = obj.first /\ after.last = obj.last
        /\ sess'[s].pending = IF after.count # old.count THEN i ELSE None
  BY Zenon DEF Merged
<1>7. CASE MergedQuietly(s)
  <2>1. Merged(s) /\ me.pending = None /\ obj = old /\ draft' = draft
    BY <1>7, Zenon DEF MergedQuietly
  <2>2. sess'[s].pending # i => after.count = old.count
    BY <1>6, <2>1
  <2>3. me.pending # i
    BY <1>1, <2>1
  <2> HIDE DEF obj, old, after, row, new
  <2>4. new = row
    BY <2>1 DEF row, new
  <2> QED
    BY <1>3, <1>5, <1>6, <2>1, <2>2, <2>3, <2>4, NoneIsNoRow DEF after, new, row
<1>8. CASE MergedFlushed(s)
  <2>1. /\ Merged(s)
        /\ \A j \in Incidents :
             LET r == View(s).incidents[j]  n == draft'.incidents[j] IN
             /\ r = None <=> n = None
             /\ r # None =>
                  /\ n.key = r.key /\ n.open = r.open
                  /\ n.count = IF j = me.pending THEN me.loaded[j].count ELSE r.count
                  /\ n.first = IF j = i /\ obj.first # old.first THEN obj.first ELSE r.first
                  /\ n.last = IF j = i /\ obj.last # old.last THEN obj.last ELSE r.last
    BY <1>8, Zenon DEF MergedFlushed
  <2>2. /\ new # None /\ new.open = row.open
        /\ new.count = (IF i = me.pending THEN old.count ELSE row.count)
        /\ new.first = (IF obj.first # old.first THEN obj.first ELSE row.first)
        /\ new.last = (IF obj.last # old.last THEN obj.last ELSE row.last)
    <3> HIDE DEF obj
    <3> QED
      BY <1>2, <1>4, <1>5, <2>1
  <2>3. sess'[s].pending # i => after.count = old.count
    BY <1>6, <2>1
  <2>4. new.first = obj.first /\ new.last = obj.last /\ new.count = old.count
    BY <1>5, <2>2
  <2> HIDE DEF obj, old, after, row, new
  <2>5. /\ row # None /\ new # None /\ after # None
        /\ after.open = new.open /\ after.first = new.first /\ after.last = new.last
        /\ sess'[s].pending # i => after.count = new.count
    BY <1>3, <1>5, <1>6, <2>1, <2>2, <2>3, <2>4, NoneIsNoRow
  <2> QED
    BY <1>3, <1>5, <2>4, <2>5 DEF after, new, row
<1> QED
  BY <1>7, <1>8, MergeDoes DEF IInv

\* A merge into incident i.
LEMMA MergeIntoKeeps ==
  ASSUME IInv, NEW s \in Sessions, Merge(s), NEW i \in Incidents, i = sess[s].target
  PROVE  IInv'
<1> DEFINE me == sess[s]
           c  == me.cluster
           key == KeyOfCluster(c)
           after == sess'[s].loaded[i]
<1>1. me.at = "write" /\ i # None
  BY Zenon DEF Merge
<1>2. /\ c \subseteq Alerts /\ c # {} /\ i \in Incidents
      /\ \A a \in c : KeyOf[a] = key
      /\ me.loaded[i] # None /\ me.loaded[i].key = key
  BY <1>1, AtHand, NoneIsNoRow DEF IInv
<1>3. Linking(s, i)
  BY MergeLinks DEF IInv
<1>4. /\ sess'[s].at \in {"match", "commit"}
      /\ sess'[s].todo = me.todo /\ sess'[s].cluster = {}
      /\ \A j \in Incidents : j # i => sess'[s].loaded[j] = me.loaded[j]
      /\ \A t \in Sessions : t # s => sess'[t] = sess[t]
      /\ db' = db /\ deletions' = deletions
      /\ draft'.alerts = draft.alerts /\ draft'.links = draft.links \cup ({i} \X c)
  <2>1. sess'[s].at = IF me.todo = {} THEN "commit" ELSE "match"
    BY <1>3, Zenon DEF Linking
  <2>2. /\ sess'[s].todo = me.todo /\ sess'[s].cluster = {}
        /\ \A j \in Incidents : j # i => sess'[s].loaded[j] = me.loaded[j]
        /\ \A t \in Sessions : t # s => sess'[t] = sess[t]
        /\ UNCHANGED <<db, deletions>>
        /\ draft'.alerts = draft.alerts /\ draft'.links = draft.links \cup ({i} \X c)
    BY <1>3, Zenon DEF Linking
  <2> QED
    BY <2>1, <2>2
<1>5. \/ writer \in {None, s} /\ writer' = s
      \/ writer # s /\ writer' = writer /\ draft' = draft
  <2>1. \/ writer \in {None, s} /\ writer' = s
        \/ writer' = writer /\ draft' = draft
    BY <1>3, Zenon DEF Linking
  <2> QED
    BY <2>1
<1>6. \A j \in Incidents : draft.incidents[j] # None =>
        LET old == draft.incidents[j]  new == draft'.incidents[j] IN
        /\ new # None /\ new.key = old.key /\ new.open = old.open
        /\ new.count = IF j = me.pending THEN me.loaded[j].count ELSE old.count
        /\ j # i => new.first = old.first /\ new.last = old.last
  BY <1>3, Zenon DEF Linking
<1>7. \A j \in Incidents : draft.incidents[j] = None => draft'.incidents[j] = None
  <2>1. \A j \in Incidents : j # i /\ draft.incidents[j] = None => draft'.incidents[j] = None
    BY <1>3, Zenon DEF Linking
  <2>2. draft.incidents[i] = None /\ draft'.incidents[i] # None => \A t \in Sessions : sess[t].loaded[i] = None
    BY <1>3, Zenon DEF Linking
  <2> QED
    BY <1>2, <2>1, <2>2
<1>8. Merged(s)
  <2>1. MergedQuietly(s) => Merged(s)
    BY Zenon DEF MergedQuietly
  <2>2. MergedFlushed(s) => Merged(s)
    BY Zenon DEF MergedFlushed
  <2> QED
    BY <2>1, <2>2, MergeDoes DEF IInv
<1>9. /\ sess'[s].pending \in {None, i}
      /\ after.count = Cardinality({link \in View(s).links \cup ({i} \X c) : link[1] = i})
  <2>1. after.count = Cardinality({link \in View(s).links \cup ({i} \X c) : link[1] = i})
    BY <1>8, Zenon DEF Merged
  <2>2. sess'[s].pending \in {None, i}
    BY <1>3, Zenon DEF Linking
  <2> QED
    BY <2>1, <2>2
<1> HIDE DEF me, key
\* The session is the writer and what it has is fresh, or its alerts are drills.
<1>10. ~OnlyDrills(s) =>
         LET row == draft.incidents[i]  new == draft'.incidents[i] IN
         /\ writer = s /\ writer' = s /\ View(s) = draft /\ Fresh(s)
         /\ row # None /\ new # None /\ after # None
         /\ after.open = new.open /\ after.first = new.first /\ after.last = new.last
         /\ sess'[s].pending # i => after.count = new.count
         /\ new.first <= row.first /\ row.last <= new.last
         /\ \A a \in c : new.first <= TimeOf[a] /\ TimeOf[a] <= new.last
  <2> SUFFICES ASSUME ~OnlyDrills(s)
               PROVE  LET row == draft.incidents[i]  new == draft'.incidents[i] IN
                      /\ writer = s /\ writer' = s /\ View(s) = draft /\ Fresh(s)
                      /\ row # None /\ new # None /\ after # None
                      /\ after.open = new.open /\ after.first = new.first /\ after.last = new.last
                      /\ sess'[s].pending # i => after.count = new.count
                      /\ new.first <= row.first /\ row.last <= new.last
                      /\ \A a \in c : new.first <= TimeOf[a] /\ TimeOf[a] <= new.last
    OBVIOUS
  <2>1. writer = s
    BY <1>1, IngestingIsWriting DEF me
  <2>2. View(s) = draft /\ Fresh(s)
    BY <2>1, StoreConstantsOK DEF IInv, View, WriterIsFresh
  <2> QED
    BY <1>5, <2>1, <2>2, MergeIsFresh DEF me
<1>11. OnlyDrills(s) => c \subseteq Drills
  BY DEF OnlyDrills, Mine, me
<1>12. c \subseteq Drills => Drilled(draft, i)'
  BY <1>2, <1>4 DEF Drilled
<1>13. \A a \in c \ Drills : ~OnlyDrills(s) /\ a \in draft.alerts
  <2>1. \A a \in c \ Drills : ~OnlyDrills(s) /\ a \in Mine(s)
    BY <1>11 DEF Mine, me
  <2> QED
    BY <1>10, <2>1, StoreConstantsOK DEF IInv, WriterHasTheRest
<1>14. Whole(draft)'
  <2>1. ASSUME NEW j \in Incidents, NEW a \in Ingested, <<j, a>> \in draft'.links
        PROVE  draft'.incidents[j] # None /\ a \in draft'.alerts
    <3>1. CASE <<j, a>> \in draft.links
      <4>1. draft.incidents[j] # None /\ a \in draft.alerts
        BY <2>1, <3>1 DEF IInv, Whole
      <4> QED
        BY <1>4, <1>6, <4>1
    <3>2. CASE j = i /\ a \in c
      BY <1>4, <1>10, <1>13, <2>1, <3>2 DEF Ingested
    <3> QED
      BY <1>4, <2>1, <3>1, <3>2
  <2> QED
    BY <2>1 DEF Whole
<1>15. WriterIsFresh'
  <2>1. CASE writer' = s
    <3> SUFFICES ASSUME ~OnlyDrills(s)' PROVE Fresh(s)'
      BY <1>4, <2>1 DEF WriterIsFresh
    <3>1. ~OnlyDrills(s)
      BY <1>4 DEF OnlyDrills, Mine, me
    <3>2. Fresh(s)
      BY <1>10, <3>1
    <3>3. ASSUME NEW j \in Incidents, j # i, sess'[s].loaded[j] # None
          PROVE  LET obj == sess'[s].loaded[j]  new == draft'.incidents[j] IN
                 /\ new # None /\ obj.open = new.open /\ obj.first = new.first /\ obj.last = new.last
                 /\ obj.count = new.count
      BY <1>4, <1>6, <3>2, <3>3 DEF Fresh, me
    <3> QED
      BY <1>10, <3>1, <3>3 DEF Fresh
  <2>2. CASE writer # s /\ writer' = writer /\ draft' = draft
    BY <1>4, <2>2 DEF IInv, WriterIsFresh, Fresh, OnlyDrills, Mine, StoreTypeOK
  <2> QED
    BY <1>5, <2>1, <2>2
<1>16. NewLinksAreOpen'
  <2>1. ASSUME NEW j \in Incidents, NEW a \in Ingested, <<j, a>> \in draft'.links,
               <<j, a>> \notin db.links, db.incidents[j] # None
        PROVE  db.incidents[j].open
    <3>1. CASE <<j, a>> \in draft.links
      BY <2>1, <3>1 DEF IInv, NewLinksAreOpen
    <3>2. CASE j = i /\ a \in c
      <4>1. ~OnlyDrills(s) /\ ~(c \subseteq Drills)
        BY <1>13, <2>1, <3>2 DEF Ingested
      <4>2. writer = s
        BY <1>10, <4>1
      <4>3. draft.incidents[i].open
        BY <1>1, <4>1, <4>2, StoreConstantsOK DEF IInv, WriterIsFresh, me
      <4> QED
        BY <2>1, <3>2, <4>3 DEF IInv, Locking
    <3> QED
      BY <1>4, <2>1, <3>1, <3>2
  <2> QED
    BY <1>4, <2>1 DEF NewLinksAreOpen
<1>17. Covered(draft)'
  <2>1. ASSUME NEW j \in Incidents, NEW a \in Ingested, <<j, a>> \in draft'.links,
               draft'.incidents[j] # None,
               draft'.incidents[j].key \notin DrillKeys \/ (deletions = 0 /\ ~Drilled(draft, j)')
        PROVE  draft'.incidents[j].first <= TimeOf[a] /\ TimeOf[a] <= draft'.incidents[j].last
    <3>1. /\ draft.incidents[j] # None /\ draft'.incidents[j].key = draft.incidents[j].key
          /\ j # i => /\ draft'.incidents[j].first = draft.incidents[j].first
                       /\ draft'.incidents[j].last = draft.incidents[j].last
      BY <1>6, <1>7, <2>1
    <3>2. ~Drilled(draft, j)' => ~Drilled(draft, j)
      BY <1>4 DEF Drilled
    <3>3. <<j, a>> \in draft.links =>
            draft.incidents[j].first <= TimeOf[a] /\ TimeOf[a] <= draft.incidents[j].last
      BY <2>1, <3>1, <3>2 DEF IInv, Covered
    <3>4. CASE j # i
      BY <1>4, <2>1, <3>1, <3>3, <3>4
    <3>5. CASE j = i
      <4>1. draft.incidents[i].key = key
        BY <1>2, <3>1, <3>5 DEF IInv, ObjectsLoaded, me
      <4>2. ~(c \subseteq Drills)
        <5>1. c \subseteq Drills => key \in DrillKeys
          BY <1>2 DEF DrillKeys
        <5> QED
          BY <1>12, <2>1, <3>1, <3>5, <4>1, <5>1
      <4>3. ~OnlyDrills(s)
        BY <1>11, <4>2
      <4> DEFINE row == draft.incidents[i]
                 new == draft'.incidents[i]
      <4>4. /\ new.first <= row.first /\ row.last <= new.last
            /\ \A b \in c : new.first <= TimeOf[b] /\ TimeOf[b] <= new.last
        BY <1>10, <4>3
      <4>5. CASE a \in c
        BY <3>5, <4>4, <4>5
      <4>6. CASE a \notin c
        <5>1. row.first <= TimeOf[a] /\ TimeOf[a] <= row.last
          BY <1>4, <2>1, <3>3, <3>5, <4>6
        <5>2. /\ row.first \in Nat /\ row.last \in Nat
              /\ new.first \in Nat /\ new.last \in Nat /\ TimeOf[a] \in Nat
          <6>1. row \in IncidentRow /\ new \in IncidentRow /\ row # None /\ new # None
            <7>1. draft \in Tables /\ draft' \in Tables
              BY <1>3, Zenon DEF IInv, StoreTypeOK, Linking
            <7> QED
              BY <1>2, <1>10, <4>3, <7>1, TableFields
          <6>2. TimeOf[a] \in Nat
            BY StoreConstantsOK DEF Ingested
          <6> HIDE DEF row, new
          <6> QED
            BY <6>1, <6>2, RowFields
        <5> HIDE DEF row, new
        <5>3. new.first <= TimeOf[a] /\ TimeOf[a] <= new.last
          BY <4>4, <5>1, <5>2
        <5> QED
          BY <3>5, <5>3 DEF new
      <4> QED
        BY <4>5, <4>6
    <3> QED
      BY <3>4, <3>5
  <2> QED
    BY <1>4, <2>1 DEF Covered
<1>18. CountsHold'
  <2> SUFFICES ASSUME deletions = 0 PROVE CountsHold'
    BY <1>4 DEF CountsHold
  <2>1. ASSUME writer' = None \/ sess'[writer'].pending # i PROVE Exact(draft, i)'
    <3>1. CASE writer' = s
      <4> SUFFICES ASSUME ~Drilled(draft, i)'
                   PROVE  draft'.incidents[i].count = Cardinality(LinksOf(draft, i)')
        BY DEF Exact
      <4>1. ~OnlyDrills(s)
        BY <1>11, <1>12
      <4>2. after.count = draft'.incidents[i].count /\ View(s) = draft
        BY <1>10, <2>1, <3>1, <4>1, StoreConstantsOK
      <4>3. after.count = Cardinality(LinksOf(draft, i)')
        BY <1>4, <1>9, <4>2 DEF LinksOf
      <4> QED
        BY <4>2, <4>3
    <3>2. CASE writer # s /\ writer' = writer /\ draft' = draft
      <4>1. writer = None \/ sess[writer].pending # i
        BY <1>4, <2>1, <3>2 DEF IInv, StoreTypeOK
      <4>2. Exact(draft, i)
        BY <1>2, <4>1 DEF IInv, CountsHold
      <4> QED
        BY <3>2, <4>2 DEF Exact, Drilled, LinksOf
    <3> QED
      BY <1>5, <3>1, <3>2
  <2>2. ASSUME sess'[s].pending # None
        PROVE  \/ Drilled(View(s), sess[s].pending)'
               \/ /\ writer' = s
                  /\ (sess[s].loaded[sess[s].pending].count
                       = Cardinality(LinksOf(draft, sess[s].pending)))'
    <3>1. sess'[s].pending = i
      BY <1>9, <2>2
    <3>2. CASE writer \in {None, s} /\ writer' = s
      <4>1. View(s) = draft
        BY <3>2, ViewIsDraft DEF IInv
      <4>2. after.count = Cardinality(LinksOf(draft, i)')
        BY <1>4, <1>9, <4>1 DEF LinksOf
      <4> QED
        BY <3>1, <3>2, <4>2 DEF LinksOf
    <3>3. CASE writer # s /\ writer' = writer /\ draft' = draft
      <4>1. c \subseteq Drills
        BY <1>10, <1>11, <3>3
      <4>2. {i} \X c \subseteq View(s).links
        <5>1. CASE MergedQuietly(s)
          BY <5>1, Zenon DEF MergedQuietly, me
        <5>2. CASE MergedFlushed(s)
          <6>1. writer' = s
            BY <5>2, Zenon DEF MergedFlushed
          <6> QED
            BY <3>3, <6>1
        <5> QED
          BY <5>1, <5>2, MergeDoes DEF IInv
      <4>3. View(s)' = View(s)
        BY <1>4, <3>3 DEF View
      <4>4. PICK a \in c : TRUE
        BY <1>2
      <4>5. a \in Drills /\ <<i, a>> \in View(s)'.links
        BY <4>1, <4>2, <4>3, <4>4
      <4>6. Drilled(View(s), i)'
        BY <1>2, <4>5 DEF Drilled
      <4> QED
        BY <3>1, <4>6
    <3> QED
      BY <1>5, <3>2, <3>3
  <2> QED
    BY <1>2, <1>3, <2>1, <2>2, CountsElsewhere DEF CountsHold
<1> QED
  BY <1>2, <1>3, <1>14, <1>15, <1>16, <1>17, <1>18, LinkingKeeps DEF IInv

\* A merge.
LEMMA MergeKeeps ==
  ASSUME IInv, NEW s \in Sessions, Merge(s)
  PROVE  IInv'
<1>1. sess[s].at = "write" /\ sess[s].target # None
  BY Zenon DEF Merge
<1>2. sess[s].target \in Incidents
  BY <1>1, SessionFields DEF IInv
<1> QED
  BY <1>2, MergeIntoKeeps

-----------------------------------------------------------------------------
(* The theorems. *)

\* Initially there is nothing.
LEMMA InitHolds ==
  ASSUME Init
  PROVE  IInv
<1>1. /\ db = EmptyTables /\ draft = EmptyTables /\ writer = None /\ deletions = 0
      /\ \A s \in Sessions : sess[s] = Closed
      /\ sess \in [Sessions -> Session]
  BY ClosedSession DEF Init
<1>2. /\ EmptyTables \in Tables /\ EmptyTables.alerts = {} /\ EmptyTables.links = {}
      /\ \A i \in Incidents : EmptyTables.incidents[i] = None
  BY DEF EmptyTables, Tables, IncidentRow
<1>3. StoreTypeOK
  BY <1>1, <1>2, StoreConstantsOK DEF StoreTypeOK
<1>4. Locking /\ Phases /\ ClustersApart /\ ObjectsLoaded
  BY <1>1, <1>2, ClosedSession DEF Locking, Phases, Phase, ClustersApart, SameKey, ObjectsLoaded
<1>5. OutsidersHaveDrills /\ WriterHasTheRest /\ NothingIngestedIsLeftOut
  BY <1>1, <1>2, ClosedSession DEF OutsidersHaveDrills, OnlyDrills, Mine, WriterHasTheRest,
     NothingIngestedIsLeftOut, Unlinked
<1>6. OneEach /\ Whole(db) /\ Whole(draft) /\ DeletesFound /\ WriterIsFresh /\ NewLinksAreOpen
  BY <1>1, <1>2, ClosedSession DEF OneEach, Whole, DeletesFound, WriterIsFresh, NewLinksAreOpen
<1>7. Covered(db) /\ Covered(draft) /\ CountsHold
  BY <1>1, <1>2, ClosedSession DEF Covered, CountsHold, Exact
<1> QED
  BY <1>3, <1>4, <1>5, <1>6, <1>7 DEF IInv

\* Every step keeps the invariant.
LEMMA NextHolds ==
  ASSUME IInv, [Next]_vars
  PROVE  IInv'
<1>1. CASE UNCHANGED vars
  <2>1. UNCHANGED <<db, writer, draft, sess, deletions>>
    BY <1>1 DEF vars
  <2>2. StoreTypeOK' /\ Locking' /\ Phases' /\ ClustersApart' /\ ObjectsLoaded'
    BY <2>1 DEF IInv, StoreTypeOK, Locking, Phases, Phase, ClustersApart, ObjectsLoaded
  <2>3. OutsidersHaveDrills' /\ WriterHasTheRest' /\ DeletesFound' /\ WriterIsFresh'
    BY <2>1 DEF IInv, OutsidersHaveDrills, OnlyDrills, Mine, WriterHasTheRest, Unlinked, Linked,
       DeletesFound, WriterIsFresh, Fresh
  <2>4. CountsHold'
    BY <2>1 DEF IInv, CountsHold, Exact, Drilled, LinksOf, View
  <2> QED
    BY <2>1, <2>2, <2>3, <2>4, TablesAlone DEF TablesStay, IInv
<1>2. ASSUME NEW s \in Sessions, NEW A \in SUBSET Alerts, Ingest(s, A) \/ Drill(s, A)
      PROVE  IInv'
  BY <1>2, ArrivalDoes, ArrivalKeeps
<1>3. ASSUME NEW s \in Sessions, NEW a \in Alerts, FindAlert(s, a)
      PROVE  IInv'
  BY <1>3, FindAlertKeeps
<1>4. ASSUME NEW s \in Sessions, CorrelateAgain(s) PROVE IInv'
  BY <1>4, CorrelateAgainKeeps
<1>5. ASSUME NEW s \in Sessions, CorrelationStep(s) PROVE IInv'
  BY <1>5, ReadUnlinkedKeeps, MatchClusterKeeps, MergeKeeps, CommitKeeps, CreateKeeps
     DEF CorrelationStep
<1>6. ASSUME NEW s \in Sessions, Rollback(s) PROVE IInv'
  BY <1>6, RollbackKeeps
<1>7. ASSUME NEW s \in Sessions, DeleteAlert(s) PROVE IInv'
  BY <1>7, DeleteAlertKeeps
<1>8. ASSUME NEW i \in Incidents, NEW open \in BOOLEAN, PatchIncident(i, open) PROVE IInv'
  BY <1>8, PatchIncidentKeeps
<1>9. CASE ClearAll
  BY <1>9, ClearAllKeeps
<1> QED
  BY <1>1, <1>2, <1>3, <1>4, <1>5, <1>6, <1>7, <1>8, <1>9 DEF Next

\* The inductive invariant.
THEOREM InvariantHolds == Spec => []IInv
<1>1. Init => IInv
  BY InitHolds
<1>2. IInv /\ [Next]_vars => IInv'
  BY NextHolds
<1> QED
  BY <1>1, <1>2, PTL DEF Spec

\* Type correctness.
THEOREM StoreTypes == Spec => []StoreTypeOK
<1>1. IInv => StoreTypeOK
  BY DEF IInv
<1> QED
  BY <1>1, InvariantHolds, PTL

\* What is ingested is committed with its links, or not at all.
THEOREM IngestionIsAtomic == Spec => []NothingIngestedIsLeftOut
<1>1. IInv => NothingIngestedIsLeftOut
  BY DEF IInv
<1> QED
  BY <1>1, InvariantHolds, PTL

\* No ingested alert belongs to two incidents.
THEOREM IngestedOnce == Spec => []OneIncidentPerIngested
<1>1. IInv => OneIncidentPerIngested
  <2> SUFFICES ASSUME IInv, NEW a \in Ingested
               PROVE  Cardinality({i \in Incidents : <<i, a>> \in db.links}) <= 1
    BY DEF OneIncidentPerIngested
  <2> DEFINE S == {i \in Incidents : <<i, a>> \in db.links}
  <2>1. \A i, j \in S : i = j
    BY DEF IInv, Locking, OneEach
  <2> HIDE DEF S
  <2>2. Cardinality(S) <= 1
    BY <2>1, AtMostOne
  <2> QED
    BY <2>2 DEF S
<1> QED
  BY <1>1, InvariantHolds, PTL

\* A link of an ingested alert is one between its fields.
LEMMA IngestedLinkParts ==
  ASSUME IInv, NEW link \in IngestedLinks(db)
  PROVE  /\ link[1] \in Incidents /\ link[2] \in Ingested
         /\ <<link[1], link[2]>> \in db.links
<1>1. link \in db.links /\ link[2] \in Ingested
  BY DEF IngestedLinks
<1>2. link \in Incidents \X Alerts
  BY <1>1, TableFields DEF IInv, StoreTypeOK
<1>3. link = <<link[1], link[2]>> /\ link[1] \in Incidents
  BY <1>2
<1> QED
  BY <1>1, <1>3

\* An incident without links of drills.
LEMMA OnlyIngestedLinks ==
  ASSUME NEW tables, NEW i, LinksOf(tables, i) \subseteq IngestedLinks(tables)
  PROVE  ~Drilled(tables, i)
<1> SUFFICES ASSUME NEW a \in Drills, <<i, a>> \in tables.links
             PROVE  FALSE
  BY DEF Drilled
<1> DEFINE link == <<i, a>>
<1>1. link \in tables.links /\ link[1] = i /\ link[2] = a
  OBVIOUS
<1>2. link[2] \in Ingested
  <2> HIDE DEF link
  <2> QED
    BY <1>1 DEF LinksOf, IngestedLinks
<1> QED
  BY <1>1, <1>2 DEF Ingested

\* A link of an ingested alert has both its ends.
THEOREM IngestedLinksWhole == Spec => []IngestedLinksAreWhole
<1>1. IInv => IngestedLinksAreWhole
  BY IngestedLinkParts DEF IInv, Whole, IngestedLinksAreWhole
<1> QED
  BY <1>1, InvariantHolds, PTL

\* The window of an incident that no drill shares encloses its alerts.
THEOREM WindowsCover == Spec => []WindowsCoverAlerts
<1>1. IInv => WindowsCoverAlerts
  <2> SUFFICES ASSUME IInv, NEW link \in IngestedLinks(db),
                      db.incidents[link[1]] # None, Undrilled(db, link[1])
               PROVE  /\ db.incidents[link[1]].first <= TimeOf[link[2]]
                      /\ TimeOf[link[2]] <= db.incidents[link[1]].last
    BY DEF WindowsCoverAlerts
  <2> DEFINE i == link[1]
             a == link[2]
  <2>1. i \in Incidents /\ a \in Ingested /\ <<i, a>> \in db.links
    BY IngestedLinkParts
  <2>2. \/ db.incidents[i].key \notin DrillKeys
        \/ deletions = 0 /\ LinksOf(db, i) \subseteq IngestedLinks(db)
    BY DEF Undrilled, DrillKeys
  <2> HIDE DEF i, a
  <2>3. LinksOf(db, i) \subseteq IngestedLinks(db) => ~Drilled(db, i)
    BY OnlyIngestedLinks
  <2>4. db.incidents[i] # None
    BY DEF i
  <2>5. db.incidents[i].first <= TimeOf[a] /\ TimeOf[a] <= db.incidents[i].last
    BY <2>1, <2>2, <2>3, <2>4 DEF IInv, Covered
  <2> QED
    BY <2>5 DEF i, a
<1> QED
  BY <1>1, InvariantHolds, PTL

\* The count that is committed is the number of links, as long as nothing is deleted.
THEOREM CountsAreOfLinks == Spec => []CountsAreLinks
<1>1. IInv => CountsAreLinks
  <2> SUFFICES ASSUME IInv, deletions = 0, NEW i \in Incidents, db.incidents[i] # None,
                      LinksOf(db, i) \subseteq IngestedLinks(db)
               PROVE  db.incidents[i].count = Cardinality(LinksOf(db, i))
    BY DEF CountsAreLinks
  <2>1. ~Drilled(db, i)
    BY OnlyIngestedLinks
  <2> QED
    BY <2>1 DEF IInv, CountsHold, Exact
<1> QED
  BY <1>1, InvariantHolds, PTL

\* What a step commits is what was committed, less what it deletes, or the writer's links.
LEMMA CommittedLinks ==
  ASSUME IInv, [Next]_vars
  PROVE  db'.links \subseteq db.links \/ db'.links = draft.links
<1>1. CASE UNCHANGED vars
  BY <1>1 DEF vars
<1>2. ASSUME NEW s \in Sessions, NEW A \in SUBSET Alerts, Ingest(s, A) \/ Drill(s, A)
      PROVE  db'.links \subseteq db.links
  <2>1. Arrives(s, A)
    BY <1>2, ArrivalDoes
  <2> QED
    BY <2>1 DEF Arrives
<1>3. ASSUME NEW s \in Sessions, NEW a \in Alerts, FindAlert(s, a)
      PROVE  db' = db
  BY <1>3 DEF FindAlert
<1>4. ASSUME NEW s \in Sessions, CorrelateAgain(s) \/ Rollback(s) PROVE db' = db
  BY <1>4 DEF CorrelateAgain, Rollback
<1>5. ASSUME NEW s \in Sessions, CorrelationStep(s)
      PROVE  db' = db \/ db'.links = draft.links
  <2>1. CASE ReadUnlinked(s)
    BY <2>1 DEF ReadUnlinked
  <2>2. CASE MatchCluster(s)
    BY <2>2 DEF MatchCluster
  <2>3. CASE Merge(s)
    BY <2>3 DEF Merge, Write
  <2>4. ASSUME NEW i \in Incidents, Create(s, i) PROVE db' = db
    BY <2>4 DEF Create, Write
  <2>5. CASE Commit(s)
    <3>1. CASE writer = s \/ sess[s].pending # None
      <4>1. CommitsDraft(s)
        BY <2>5, <3>1, CommitDoes
      <4> QED
        BY <4>1, Zenon DEF CommitsDraft
    <3>2. CASE ~(writer = s \/ sess[s].pending # None)
      BY <2>5, <3>2 DEF Commit
    <3> QED
      BY <3>1, <3>2
  <2> QED
    BY <1>5, <2>1, <2>2, <2>3, <2>4, <2>5 DEF CorrelationStep
<1>6. ASSUME NEW s \in Sessions, DeleteAlert(s) PROVE db'.links \subseteq db.links
  <2> DEFINE found == {i \in Incidents : sess[s].loaded[i] # None} \X sess[s].cluster
             alerts == db.alerts \ sess[s].cluster
             links == db.links \ found
  <2>1. db' = [db EXCEPT !.alerts = alerts, !.links = links] /\ db \in Tables
    BY <1>6 DEF DeleteAlert, WriteAndCommit, Without, IInv, StoreTypeOK
  <2>2. db'.links = links
    <3> HIDE DEF alerts, links
    <3> QED
      BY <2>1 DEF Tables
  <2> QED
    BY <2>2
<1>7. ASSUME NEW i \in Incidents, NEW open \in BOOLEAN, PatchIncident(i, open)
      PROVE  db'.links = db.links
  <2>1. db' = [db EXCEPT !.incidents[i].open = open] /\ db \in Tables
    BY <1>7 DEF PatchIncident, WriteAndCommit, IInv, StoreTypeOK
  <2> QED
    BY <2>1 DEF Tables
<1>8. CASE ClearAll
  BY <1>8 DEF ClearAll, WriteAndCommit, EmptyTables
<1> QED
  BY <1>1, <1>2, <1>3, <1>4, <1>5, <1>6, <1>7, <1>8 DEF Next

\* No step links an ingested alert to an incident that was closed.
THEOREM ClosedStaysClosed == Spec => ClosedIncidentsDoNotGrow
<1> DEFINE Grows == \E i \in Incidents :
             /\ db.incidents[i] # None /\ ~db.incidents[i].open
             /\ ~(IngestedLinks(db') \cap LinksOf(db', i) \subseteq LinksOf(db, i))
<1>1. IInv /\ [Next]_vars => [~Grows]_vars
  <2> SUFFICES ASSUME IInv, [Next]_vars, NEW i \in Incidents,
                      db.incidents[i] # None, ~db.incidents[i].open,
                      NEW link \in IngestedLinks(db') \cap LinksOf(db', i)
               PROVE  link \in LinksOf(db, i)
    OBVIOUS
  <2>1. link \in db'.links /\ link[2] \in Ingested /\ link[1] = i
    BY DEF IngestedLinks, LinksOf
  <2>2. CASE db'.links \subseteq db.links
    BY <2>1, <2>2 DEF LinksOf
  <2>3. CASE db'.links = draft.links
    <3>1. link \in Incidents \X Alerts
      BY <2>1, <2>3, TableFields DEF IInv, StoreTypeOK
    <3>2. link = <<i, link[2]>>
      BY <2>1, <3>1
    <3>3. <<i, link[2]>> \in db.links
      BY <2>1, <2>3, <3>2 DEF IInv, NewLinksAreOpen
    <3> QED
      BY <2>1, <3>2, <3>3 DEF LinksOf
  <2> QED
    BY <2>2, <2>3, CommittedLinks
<1>2. [~Grows]_vars =>
        [\A i \in Incidents :
           db.incidents[i] # None /\ ~db.incidents[i].open
             => IngestedLinks(db') \cap LinksOf(db', i) \subseteq LinksOf(db, i)]_vars
  OBVIOUS
<1> HIDE DEF Grows
<1> QED
  BY <1>1, <1>2, InvariantHolds, PTL DEF Spec, ClosedIncidentsDoNotGrow

-----------------------------------------------------------------------------
(* The refinement: which commits are steps of IncidentLedger.  Beside IInv it needs to *)
(* know of the draft what the ledger says of the incidents, and that one alert is      *)
(* deleted at a time.                                                                  *)

\* What the writer opens is open, ingested alerts go to incidents of their key, and a
\* deletion is of one alert.
NewAreOpen ==
  \A i \in Incidents : db.incidents[i] = None /\ draft.incidents[i] # None => draft.incidents[i].open
KeysMatch ==
  \A i \in Incidents : \A a \in Ingested : <<i, a>> \in draft.links => draft.incidents[i].key = KeyOf[a]
DeletesOne ==
  \A s \in Sessions : sess[s].at = "delete" => \E a \in Alerts : sess[s].cluster = {a}
EntriesHold == NewAreOpen /\ KeysMatch /\ DeletesOne

\* A step whose links and rows are those of the draft, or fewer, and committed.
LEMMA CommittedEntries ==
  ASSUME EntriesHold, Whole(draft)', db' = draft', draft'.links \subseteq draft.links,
         \A i \in Incidents : draft'.incidents[i] # None => draft'.incidents[i].key = draft.incidents[i].key
  PROVE  NewAreOpen' /\ KeysMatch'
BY DEF EntriesHold, NewAreOpen, KeysMatch, Whole

LEMMA SameEntries ==
  ASSUME EntriesHold, db' = db, draft' = draft
  PROVE  NewAreOpen' /\ KeysMatch'
BY DEF EntriesHold, NewAreOpen, KeysMatch

\* A session that does not find an alert to delete.
LEMMA DeletesStay ==
  ASSUME EntriesHold, NEW s \in Sessions, \A t \in Sessions : t # s => sess'[t] = sess[t],
         sess'[s] = sess[s] \/ sess'[s].at # "delete"
  PROVE  DeletesOne'
BY DEF EntriesHold, DeletesOne

\* A merge leaves open what is open, and a new incident is.
LEMMA LinkingEntries ==
  ASSUME IInv, EntriesHold, Whole(draft)', NEW s \in Sessions, NEW i \in Incidents, Linking(s, i),
         draft.incidents[i] = None /\ draft'.incidents[i] # None => draft'.incidents[i].open
  PROVE  EntriesHold'
<1> DEFINE c == sess[s].cluster
<1>1. /\ sess[s].at = "write" /\ (sess[s].target # None => sess[s].target = i)
      /\ \A t \in Sessions : t # s => sess'[t] = sess[t]
      /\ db' = db /\ draft'.links = draft.links \cup ({i} \X c)
      /\ \A j \in Incidents : draft.incidents[j] # None =>
           /\ draft'.incidents[j] # None /\ draft'.incidents[j].key = draft.incidents[j].key
           /\ draft'.incidents[j].open = draft.incidents[j].open
      /\ \A j \in Incidents : j # i /\ draft.incidents[j] = None => draft'.incidents[j] = None
      /\ sess[s].target = i \/ draft.incidents[i] = None
      /\ draft.incidents[i] = None /\ draft'.incidents[i] # None => draft'.incidents[i].key = KeyOfCluster(c)
  BY Zenon DEF Linking
<1>2. sess'[s].at = IF sess[s].todo = {} THEN "commit" ELSE "match"
  BY Zenon DEF Linking
<1>3. \A a \in c : KeyOf[a] = KeyOfCluster(c)
  <2>1. c # {} /\ c \subseteq Alerts /\ SameKey(c)
    BY <1>1, SessionFields DEF IInv, Phases, Phase, ClustersApart
  <2> QED BY <2>1, KeyOfClusterOK
<1>4. draft'.incidents[i] # None => draft'.incidents[i].key = KeyOfCluster(c)
  <2> SUFFICES ASSUME draft'.incidents[i] # None, draft.incidents[i] # None
               PROVE  draft'.incidents[i].key = KeyOfCluster(c)
    BY <1>1
  <2>1. sess[s].target = i /\ i # None
    BY <1>1, StoreConstantsOK
  <2>2. sess[s].loaded[i] # None /\ sess[s].loaded[i].key = KeyOfCluster(c)
    BY <1>1, <2>1 DEF IInv, ObjectsLoaded
  <2>3. sess[s].loaded[i].key = draft.incidents[i].key
    BY <2>2 DEF IInv, ObjectsLoaded
  <2> QED BY <1>1, <2>2, <2>3
<1>5. NewAreOpen'
  BY <1>1 DEF EntriesHold, NewAreOpen
<1>6. KeysMatch'
  <2> SUFFICES ASSUME NEW j \in Incidents, NEW a \in Ingested, <<j, a>> \in draft'.links
               PROVE  draft'.incidents[j].key = KeyOf[a]
    BY DEF KeysMatch
  <2>1. draft'.incidents[j] # None
    BY DEF Whole
  <2>2. CASE <<j, a>> \in draft.links
    <3>1. draft.incidents[j] # None /\ draft.incidents[j].key = KeyOf[a]
      BY <2>2 DEF IInv, Whole, EntriesHold, KeysMatch
    <3> QED BY <1>1, <3>1
  <2>3. CASE <<j, a>> \in {i} \X c
    <3>1. j = i /\ a \in c
      BY <2>3
    <3> QED BY <1>3, <1>4, <2>1, <3>1
  <2> QED BY <1>1, <2>2, <2>3
<1>7. DeletesOne'
  BY <1>1, <1>2, DeletesStay
<1> QED BY <1>5, <1>6, <1>7 DEF EntriesHold

LEMMA MergeEntries ==
  ASSUME IInv, EntriesHold, Whole(draft)', NEW s \in Sessions, Merge(s)
  PROVE  EntriesHold'
<1> DEFINE i == sess[s].target
<1>1. sess[s].at = "write" /\ i # None
  BY Zenon DEF Merge
<1>2. i \in Incidents
  BY <1>1, SessionFields DEF IInv
<1>3. Linking(s, i)
  BY MergeLinks DEF IInv
<1>4. draft.incidents[i] = None => draft'.incidents[i] = None
  <2>1. CASE MergedQuietly(s)
    BY <2>1, Zenon DEF MergedQuietly
  <2>2. CASE MergedFlushed(s)
    <3>1. writer \in {None, s} /\ \A j \in Incidents : View(s).incidents[j] = None <=> draft'.incidents[j] = None
      BY <2>2, Zenon DEF MergedFlushed
    <3>2. View(s) = draft
      BY <3>1, ViewIsDraft DEF IInv
    <3> QED BY <1>2, <3>1, <3>2
  <2> QED BY <2>1, <2>2, MergeDoes DEF IInv
<1> QED BY <1>2, <1>3, <1>4, LinkingEntries

LEMMA CreateEntries ==
  ASSUME IInv, EntriesHold, Whole(draft)', NEW s \in Sessions, NEW i \in Incidents, Create(s, i)
  PROVE  EntriesHold'
<1>1. Linking(s, i) /\ Created(s, i)
  BY CreateLinks DEF IInv
<1>2. draft'.incidents[i].open
  BY <1>1, Zenon DEF Created
<1> QED BY <1>1, <1>2, LinkingEntries

\* A commit keeps keys and status.
LEMMA CommitEntries ==
  ASSUME IInv, EntriesHold, Whole(draft)', NEW s \in Sessions, Commit(s)
  PROVE  EntriesHold'
<1>1. CASE writer = s \/ sess[s].pending # None
  <2>1. CommitsDraft(s)
    BY <1>1, CommitDoes
  <2>2. /\ sess'[s] = Closed /\ \A t \in Sessions : t # s => sess'[t] = sess[t]
        /\ db' = draft' /\ db'.links = draft.links
        /\ \A i \in Incidents : draft.incidents[i] = None <=> db'.incidents[i] = None
        /\ \A i \in Incidents : draft.incidents[i] # None => db'.incidents[i].key = draft.incidents[i].key
    BY <2>1, Zenon DEF CommitsDraft
  <2>3. NewAreOpen' /\ KeysMatch'
    BY <2>2, CommittedEntries
  <2>4. DeletesOne'
    BY <2>2, DeletesStay, ClosedSession
  <2> QED BY <2>3, <2>4 DEF EntriesHold
<1>2. CASE ~(writer = s \/ sess[s].pending # None)
  <2>1. UNCHANGED <<db, draft>> /\ sess' = [sess EXCEPT ![s] = Closed]
    BY <1>2 DEF Commit, Release
  <2>2. sess'[s] = Closed /\ \A t \in Sessions : t # s => sess'[t] = sess[t]
    BY <2>1 DEF IInv, StoreTypeOK
  <2>3. DeletesOne'
    BY <2>2, DeletesStay, ClosedSession
  <2> QED BY <2>1, <2>3, SameEntries DEF EntriesHold
<1> QED BY <1>1, <1>2

\* The triage routes.
LEMMA TriageEntries ==
  ASSUME IInv, EntriesHold, NEW i \in Incidents, NEW open \in BOOLEAN, PatchIncident(i, open)
  PROVE  /\ writer = None /\ db.incidents[i] # None /\ db' = draft' /\ sess' = sess
         /\ db'.alerts = db.alerts /\ db'.links = db.links
         /\ db'.incidents = [db.incidents EXCEPT ![i] = [@ EXCEPT !.open = open]]
         /\ \A j \in Incidents :
              /\ db'.incidents[j] = None <=> db.incidents[j] = None
              /\ db.incidents[j] # None =>
                   /\ db'.incidents[j].key = db.incidents[j].key
                   /\ db'.incidents[j].open = IF j = i THEN open ELSE db.incidents[j].open
<1> DEFINE row == db.incidents[i]
           new == [row EXCEPT !.open = open]
           rows == [db.incidents EXCEPT ![i] = new]
<1>1. /\ writer = None /\ row # None /\ db' = draft' /\ sess' = sess
      /\ db' = [db EXCEPT !.incidents[i].open = open]
  BY DEF PatchIncident, WriteAndCommit
<1>2. db \in Tables /\ row \in Incident /\ db.incidents \in [Incidents -> IncidentRow]
  BY <1>1, TableFields, RowFields DEF IInv, StoreTypeOK
<1>3. db' = [db EXCEPT !.incidents = rows]
  BY <1>1
<1>4. new \in Incident /\ new.key = row.key /\ new.open = open
  BY <1>2 DEF Incident
<1> HIDE DEF new, row
<1>5. db'.alerts = db.alerts /\ db'.links = db.links /\ db'.incidents = rows
  <2> HIDE DEF rows
  <2> QED BY <1>2, <1>3 DEF Tables
<1>6. \A j \in Incidents : rows[j] = IF j = i THEN new ELSE db.incidents[j]
  BY <1>2
<1>7. new # None
  BY <1>4, NoneIsNoRow
<1>8. rows = [db.incidents EXCEPT ![i] = [@ EXCEPT !.open = open]]
  BY DEF row, new
<1> HIDE DEF rows
<1> QED BY <1>1, <1>4, <1>5, <1>6, <1>7, <1>8 DEF row

LEMMA DeletedTables ==
  ASSUME IInv, EntriesHold, NEW s \in Sessions, DeleteAlert(s)
  PROVE  \E a \in Alerts :
           /\ writer = None /\ db' = draft' /\ db'.incidents = db.incidents
           /\ db'.alerts = db.alerts \ {a}
           /\ db'.links = db.links \ ({i \in Incidents : sess[s].loaded[i] # None} \X {a})
           /\ a \in Ingested => \A i \in Incidents : <<i, a>> \in db.links => sess[s].loaded[i] # None
           /\ sess'[s] = Closed /\ \A t \in Sessions : t # s => sess'[t] = sess[t]
<1>1. sess[s].at = "delete"
  BY DEF DeleteAlert
<1>2. PICK a \in Alerts : sess[s].cluster = {a}
  BY <1>1 DEF EntriesHold, DeletesOne
<1> DEFINE found == {i \in Incidents : sess[s].loaded[i] # None} \X {a}
           alerts == db.alerts \ {a}
           links == db.links \ found
<1>3. /\ writer = None /\ db' = draft' /\ db' = [db EXCEPT !.alerts = alerts, !.links = links]
      /\ sess' = [sess EXCEPT ![s] = Closed]
  BY <1>2 DEF DeleteAlert, WriteAndCommit, Without
<1>4. db \in Tables /\ draft = db /\ sess \in [Sessions -> Session]
  BY <1>3 DEF IInv, StoreTypeOK, Locking
<1>5. db'.incidents = db.incidents /\ db'.alerts = alerts /\ db'.links = links
  <2> HIDE DEF alerts, links
  <2> QED BY <1>3, <1>4 DEF Tables
<1>6. a \in Ingested => \A i \in Incidents : <<i, a>> \in db.links => sess[s].loaded[i] # None
  BY <1>1, <1>2, <1>4 DEF IInv, DeletesFound
<1>7. sess'[s] = Closed /\ \A t \in Sessions : t # s => sess'[t] = sess[t]
  BY <1>3, <1>4
<1> HIDE DEF found, alerts, links
<1> QED BY <1>3, <1>5, <1>6, <1>7 DEF alerts, links, found

LEMMA EntriesKept ==
  ASSUME IInv, EntriesHold, [Next]_vars
  PROVE  EntriesHold'
<1>0. IInv'
  BY NextHolds
<1>w. Whole(draft)' /\ db \in Tables
  BY <1>0 DEF IInv, StoreTypeOK
<1>1. CASE UNCHANGED vars
  BY <1>1, SameEntries DEF vars, EntriesHold, DeletesOne
<1>2. ASSUME NEW s \in Sessions, NEW A \in SUBSET Alerts, Ingest(s, A) \/ Drill(s, A)
      PROVE  EntriesHold'
  <2>1. Arrives(s, A)
    BY <1>2, ArrivalDoes
  <2>2. /\ writer = None /\ sess'[s].at = "read" /\ \A t \in Sessions : t # s => sess'[t] = sess[t]
        /\ draft'.links = db.links /\ draft'.incidents = db.incidents /\ (db' = db \/ db' = draft')
    BY <2>1 DEF Arrives, Moves, Closed
  <2>3. draft = db
    BY <2>2 DEF IInv, Locking
  <2>4. NewAreOpen'
    BY <2>2, <2>3 DEF NewAreOpen
  <2>5. KeysMatch'
    BY <2>2, <2>3 DEF EntriesHold, KeysMatch
  <2> QED BY <2>2, <2>4, <2>5, DeletesStay DEF EntriesHold
<1>3. ASSUME NEW s \in Sessions, NEW a \in Alerts, FindAlert(s, a)
      PROVE  EntriesHold'
  <2> DEFINE loaded == [i \in Incidents |-> IF <<i, a>> \in db.links THEN db.incidents[i] ELSE None]
  <2>1. /\ sess' = [sess EXCEPT ![s] = [@ EXCEPT !.at = "delete", !.cluster = {a}, !.loaded = loaded]]
        /\ db' = db /\ draft' = draft
    BY <1>3 DEF FindAlert
  <2>2. /\ sess \in [Sessions -> Session] /\ sess[s] \in Session
    BY DEF IInv, StoreTypeOK
  <2> HIDE DEF loaded
  <2>3. sess'[s].cluster = {a} /\ \A t \in Sessions : t # s => sess'[t] = sess[t]
    BY <2>1, <2>2 DEF Session
  <2>4. DeletesOne'
    BY <2>3 DEF EntriesHold, DeletesOne
  <2> QED BY <2>1, <2>4, SameEntries DEF EntriesHold
<1>4. ASSUME NEW s \in Sessions, CorrelateAgain(s) \/ ReadUnlinked(s)
      PROVE  EntriesHold'
  <2>1. UNCHANGED <<db, writer, draft, deletions>> /\ sess \in [Sessions -> Session] /\ sess[s] \in Session
    BY <1>4 DEF CorrelateAgain, ReadUnlinked, IInv, StoreTypeOK
  <2>2. \E at \in {"read", "match", "commit"} : \E todo : sess' = [sess EXCEPT ![s] = [@ EXCEPT !.at = at, !.todo = todo]]
    <3>1. CASE CorrelateAgain(s)
      <4>1. sess[s] = [sess[s] EXCEPT !.todo = sess[s].todo]
        BY <2>1 DEF Session
      <4>2. sess' = [sess EXCEPT ![s] = [@ EXCEPT !.at = "read", !.todo = sess[s].todo]]
        BY <2>1, <3>1, <4>1 DEF CorrelateAgain
      <4> QED BY <4>2
    <3>2. CASE ReadUnlinked(s)
      <4> DEFINE found == Clusters(Unlinked(View(s)))
      <4>1. sess' = [sess EXCEPT ![s].at = IF found = {} THEN "commit" ELSE "match", ![s].todo = found]
        BY <3>2 DEF ReadUnlinked
      <4> HIDE DEF found
      <4>2. CASE found = {}
        BY <4>1, <4>2, <2>1
      <4>3. CASE found # {}
        BY <4>1, <4>3, <2>1
      <4> QED BY <4>2, <4>3
    <3> QED BY <1>4, <3>1, <3>2
  <2>3. sess'[s].at # "delete" /\ \A t \in Sessions : t # s => sess'[t] = sess[t]
    BY <2>1, <2>2 DEF Session
  <2> QED BY <2>1, <2>3, SameEntries, DeletesStay DEF EntriesHold
<1>5. ASSUME NEW s \in Sessions, MatchCluster(s)
      PROVE  EntriesHold'
  <2>1. PICK c \in SUBSET Alerts, i \in Incidents \cup {None} : Matched(s, c, i)
    BY <1>5, MatchClusterDoes
  <2>2. /\ sess'[s].at = "write" /\ \A t \in Sessions : t # s => sess'[t] = sess[t]
        /\ db' = db /\ draft' = draft
    BY <2>1 DEF Matched, Moves, TablesStay
  <2> QED BY <2>2, SameEntries, DeletesStay DEF EntriesHold
<1>6. ASSUME NEW s \in Sessions, CorrelationStep(s)
      PROVE  EntriesHold'
  BY <1>w, <1>4, <1>5, <1>6, MergeEntries, CreateEntries, CommitEntries DEF CorrelationStep
<1>7. ASSUME NEW s \in Sessions, Rollback(s)
      PROVE  EntriesHold'
  <2>1. /\ sess' = [sess EXCEPT ![s] = Closed] /\ db' = db
        /\ draft' = IF writer = s THEN db ELSE draft
    BY <1>7 DEF Rollback, Release
  <2>2. sess'[s].at # "delete" /\ \A t \in Sessions : t # s => sess'[t] = sess[t]
    BY <2>1, ClosedSession DEF IInv, StoreTypeOK
  <2>3. CASE draft' = draft
    BY <2>1, <2>2, <2>3, SameEntries, DeletesStay DEF EntriesHold
  <2>4. CASE draft' = db
    <3>1. NewAreOpen' /\ KeysMatch'
      BY <1>w, <2>1, <2>4, CommittedEntries DEF IInv, Locking
    <3> QED BY <2>2, <3>1, DeletesStay DEF EntriesHold
  <2> QED BY <2>1, <2>3, <2>4
<1>8. ASSUME NEW s \in Sessions, DeleteAlert(s)
      PROVE  EntriesHold'
  <2>1. PICK a \in Alerts :
          /\ writer = None /\ db' = draft' /\ db'.incidents = db.incidents
          /\ db'.links = db.links \ ({i \in Incidents : sess[s].loaded[i] # None} \X {a})
          /\ sess'[s] = Closed /\ \A t \in Sessions : t # s => sess'[t] = sess[t]
    BY <1>8, DeletedTables
  <2>2. draft = db
    BY <2>1 DEF IInv, Locking
  <2>3. NewAreOpen' /\ KeysMatch'
    BY <1>w, <2>1, <2>2, CommittedEntries
  <2> QED BY <2>1, <2>3, DeletesStay, ClosedSession DEF EntriesHold
<1>9. ASSUME NEW i \in Incidents, NEW open \in BOOLEAN, PatchIncident(i, open)
      PROVE  EntriesHold'
  <2>1. /\ writer = None /\ db' = draft' /\ sess' = sess /\ db'.links = db.links
        /\ \A j \in Incidents :
             /\ db'.incidents[j] = None <=> db.incidents[j] = None
             /\ db.incidents[j] # None => db'.incidents[j].key = db.incidents[j].key
    BY <1>9, TriageEntries
  <2>2. draft = db
    BY <2>1 DEF IInv, Locking
  <2>3. NewAreOpen' /\ KeysMatch'
    BY <1>w, <2>1, <2>2, CommittedEntries
  <2>4. DeletesOne'
    BY <2>1 DEF EntriesHold, DeletesOne
  <2> QED BY <2>3, <2>4 DEF EntriesHold
<1>10. CASE ClearAll
  <2>1. db' = EmptyTables /\ draft' = EmptyTables /\ sess' = sess
    BY <1>10 DEF ClearAll, WriteAndCommit
  <2>2. EmptyTables.links = {} /\ \A i \in Incidents : EmptyTables.incidents[i] = None
    BY DEF EmptyTables
  <2>3. NewAreOpen' /\ KeysMatch' /\ DeletesOne'
    BY <2>1, <2>2 DEF EntriesHold, NewAreOpen, KeysMatch, DeletesOne
  <2> QED BY <2>3 DEF EntriesHold
<1> QED
  BY <1>1, <1>2, <1>3, <1>4, <1>6, <1>7, <1>8, <1>9, <1>10 DEF Next

\* The ledger's view of the tables.
LEMMA EntriesAre ==
  ASSUME NEW tables
  PROVE  /\ Present(tables) \subseteq Incidents /\ DOMAIN Entries(tables) = Present(tables)
         /\ \A i \in Incidents : i \in Present(tables) <=> tables.incidents[i] # None
         /\ \A i \in Present(tables) :
              Entries(tables)[i] = [key |-> tables.incidents[i].key, open |-> tables.incidents[i].open]
BY DEF Present, Entries

\* Rows that keep their key and status, and links of drills, are nothing to the ledger.
LEMMA Stutters ==
  ASSUME db'.alerts \cap Ingested = db.alerts \cap Ingested, IngestedLinks(db)' = IngestedLinks(db),
         \A i \in Incidents : db'.incidents[i] = None <=> db.incidents[i] = None,
         \A i \in Incidents : db.incidents[i] # None =>
           db'.incidents[i].key = db.incidents[i].key /\ db'.incidents[i].open = db.incidents[i].open
  PROVE  UNCHANGED Ledger!lvars
<1>1. Present(db)' = Present(db)
  BY DEF Present
<1>2. Entries(db)' = Entries(db)
  BY <1>1 DEF Entries, Present
<1> QED BY <1>2 DEF Ledger!lvars

\* A commit of the writer's records the alerts that it brings.
LEMMA CommitRecords ==
  ASSUME IInv, IInv', EntriesHold, NEW s \in Sessions, CommitsDraft(s)
  PROVE  Ledger!LNext
<1> DEFINE I == Present(db)' \ Present(db)
           A == (db'.alerts \ db.alerts) \cap Ingested
           key == [i \in I |-> db'.incidents[i].key]
           to == [a \in A |-> CHOOSE i \in Incidents : <<i, a>> \in db'.links]
<1>1. /\ writer \in {None, s} /\ sess[s].at = "commit" /\ db' = draft' /\ db' \in Tables
      /\ db'.alerts = draft.alerts /\ db'.links = draft.links
      /\ \A i \in Incidents : draft.incidents[i] = None <=> db'.incidents[i] = None
      /\ \A i \in Incidents : draft.incidents[i] # None =>
           db'.incidents[i].key = draft.incidents[i].key /\ db'.incidents[i].open = draft.incidents[i].open
  BY Zenon DEF CommitsDraft
<1>2. /\ db \in Tables /\ db.alerts \subseteq db'.alerts /\ db.links \subseteq db'.links
      /\ \A i \in Incidents : db.incidents[i] # None =>
           /\ db'.incidents[i] # None
           /\ db'.incidents[i].key = db.incidents[i].key /\ db'.incidents[i].open = db.incidents[i].open
  BY <1>1 DEF IInv, StoreTypeOK, Locking
<1>3. \A i \in I : db.incidents[i] = None /\ db'.incidents[i] # None /\ db'.incidents[i].open = TRUE
  <2> SUFFICES ASSUME NEW i \in I PROVE db.incidents[i] = None /\ db'.incidents[i] # None /\ db'.incidents[i].open = TRUE
    OBVIOUS
  <2>1. i \in Incidents /\ db.incidents[i] = None /\ db'.incidents[i] # None
    BY DEF Present
  <2>2. draft.incidents[i] # None /\ draft.incidents[i].open
    BY <1>1, <2>1 DEF EntriesHold, NewAreOpen
  <2>3. db'.incidents[i] \in Incident
    BY <1>1, <2>1, TableFields, RowFields
  <2>4. db'.incidents[i].open \in BOOLEAN
    BY <2>3 DEF Incident
  <2> QED BY <1>1, <2>1, <2>2, <2>4
<1>4. /\ I \in SUBSET (Incidents \ DOMAIN Entries(db)) /\ A \in SUBSET (Ingested \ (db.alerts \cap Ingested))
      /\ key \in [I -> Keys]
  <2>1. \A i \in I : i \in Incidents /\ db'.incidents[i].key \in Keys
    BY <1>1, <1>3, TableFields, RowFields DEF Present
  <2>2. DOMAIN Entries(db) = Present(db)
    BY EntriesAre
  <2> HIDE DEF I
  <2>3. key \in [I -> Keys]
    BY <2>1
  <2> QED BY <2>1, <2>2, <2>3 DEF I
\* Each alert that comes has its link, and each new link is of an alert that comes.
<1>5. \A a \in A : to[a] \in Incidents /\ <<to[a], a>> \in db'.links
  <2> SUFFICES ASSUME NEW a \in A PROVE \E i \in Incidents : <<i, a>> \in db'.links
    OBVIOUS
  <2>1. a \in db'.alerts /\ a \notin Drills
    BY DEF Ingested
  <2> QED BY <2>1 DEF IInv, NothingIngestedIsLeftOut, Unlinked, Linked
<1>6. \A i \in Incidents, a \in Ingested : <<i, a>> \in db'.links /\ <<i, a>> \notin db.links => a \in A
  <2> SUFFICES ASSUME NEW i \in Incidents, NEW a \in Ingested, <<i, a>> \in db'.links, <<i, a>> \notin db.links,
                      a \in db.alerts
               PROVE  FALSE
    BY <1>1 DEF IInv, Whole
  <2>1. a \notin Drills
    BY DEF Ingested
  <2>2. PICK j \in Incidents : <<j, a>> \in db.links
    BY <2>1 DEF IInv, NothingIngestedIsLeftOut, Unlinked, Linked
  <2>3. i = j
    BY <1>1, <1>2, <2>2 DEF IInv, OneEach
  <2> QED BY <2>2, <2>3
<1>7. \A i \in Incidents, a \in Ingested : <<i, a>> \in db'.links /\ a \in A => i = to[a]
  BY <1>1, <1>5 DEF IInv, OneEach
\* The incident of an alert that comes is open and has its key.
<1>8. ASSUME NEW a \in A
      PROVE  to[a] \in Present(db)' /\ db'.incidents[to[a]].key = KeyOf[a] /\ db'.incidents[to[a]].open = TRUE
  <2> DEFINE i == to[a]
  <2>1. i \in Incidents /\ <<i, a>> \in db'.links /\ <<i, a>> \in draft.links /\ a \in Ingested /\ a \notin db.alerts
    BY <1>1, <1>5, <1>8
  <2> HIDE DEF i
  <2>2. db'.incidents[i] # None /\ draft.incidents[i] # None
    BY <2>1 DEF IInv, Whole
  <2>3. db'.incidents[i].key = KeyOf[a]
    BY <1>1, <2>1, <2>2 DEF EntriesHold, KeysMatch
  <2>4. db'.incidents[i].open = TRUE
    <3>1. CASE db.incidents[i] = None
      <4>1. i \in I
        BY <2>1, <2>2, <3>1 DEF Present
      <4> QED BY <1>3, <4>1
    <3>2. CASE db.incidents[i] # None
      <4>1. <<i, a>> \notin db.links
        BY <2>1 DEF IInv, Whole
      <4>2. db.incidents[i].open
        BY <2>1, <3>2, <4>1 DEF IInv, NewLinksAreOpen
      <4>3. db.incidents[i] \in Incident
        BY <1>2, <2>1, <3>2, TableFields, RowFields
      <4>4. db.incidents[i].open \in BOOLEAN
        BY <4>3 DEF Incident
      <4> QED BY <1>2, <2>1, <3>2, <4>2, <4>4
    <3> QED BY <3>1, <3>2
  <2> QED BY <2>1, <2>2, <2>3, <2>4 DEF Present, i
<1>9. Entries(db)' = [i \in DOMAIN Entries(db) \cup I |->
                        IF i \in I THEN [key |-> key[i], open |-> TRUE] ELSE Entries(db)[i]]
  <2> DEFINE E == [i \in DOMAIN Entries(db) \cup I |->
                     IF i \in I THEN [key |-> key[i], open |-> TRUE] ELSE Entries(db)[i]]
  <2>1. DOMAIN Entries(db) = Present(db) /\ Present(db) \subseteq Incidents
    BY EntriesAre
  <2>2. Present(db)' = Present(db) \cup I
    BY <1>2 DEF Present
  <2>3. ASSUME NEW i \in Present(db)'
        PROVE  [key |-> db'.incidents[i].key, open |-> db'.incidents[i].open] = E[i]
    <3>1. CASE i \in I
      BY <1>3, <2>1, <2>2, <3>1
    <3>2. CASE i \notin I
      <4>1. i \in Present(db) /\ i \in Incidents
        BY <2>1, <2>2, <2>3, <3>2
      <4>2. Entries(db)[i] = [key |-> db.incidents[i].key, open |-> db.incidents[i].open]
        BY <4>1, EntriesAre
      <4>3. db'.incidents[i].key = db.incidents[i].key /\ db'.incidents[i].open = db.incidents[i].open
        BY <1>2, <4>1 DEF Present
      <4> QED BY <2>1, <3>2, <4>1, <4>2, <4>3
    <3> QED BY <3>1, <3>2
  <2>4. Entries(db)' = [i \in Present(db)' |-> [key |-> db'.incidents[i].key, open |-> db'.incidents[i].open]]
    BY DEF Entries
  <2>5. E = [i \in Present(db)' |-> E[i]]
    BY <2>1, <2>2
  <2> HIDE DEF E
  <2>6. Entries(db)' = E
    BY <2>3, <2>4, <2>5
  <2> QED BY <2>6 DEF E
<1>10. IngestedLinks(db)' = IngestedLinks(db) \cup {<<to[a], a>> : a \in A}
  <2>1. ASSUME NEW link \in IngestedLinks(db)'
        PROVE  link \in IngestedLinks(db) \/ \E a \in A : link = <<to[a], a>>
    <3>1. link \in db'.links /\ link[2] \in Ingested
      BY DEF IngestedLinks
    <3>2. link \in Incidents \X Alerts
      BY <1>1, <3>1, TableFields
    <3>3. PICK i \in Incidents, a \in Alerts : link = <<i, a>>
      BY <3>2
    <3>4. a \in Ingested
      BY <3>1, <3>3
    <3>5. CASE link \in db.links
      BY <3>1, <3>5 DEF IngestedLinks
    <3>6. CASE link \notin db.links
      BY <1>6, <1>7, <3>1, <3>3, <3>4, <3>6
    <3> QED BY <3>5, <3>6
  <2>2. ASSUME NEW link \in IngestedLinks(db) PROVE link \in IngestedLinks(db)'
    BY <1>2 DEF IngestedLinks
  <2>3. ASSUME NEW a \in A PROVE <<to[a], a>> \in IngestedLinks(db)'
    <3>1. <<to[a], a>> \in db'.links /\ a \in Ingested
      BY <1>5
    <3> HIDE DEF to, A
    <3> QED BY <3>1 DEF IngestedLinks
  <2> HIDE DEF to, A
  <2> QED BY <2>1, <2>2, <2>3
<1>11. db'.alerts \cap Ingested = (db.alerts \cap Ingested) \cup A
  BY <1>2
<1>12. to \in [A -> Incidents]
  BY <1>5
<1>13. \A a \in A : /\ to[a] \in DOMAIN Entries(db)'
                    /\ Entries(db)'[to[a]] = [key |-> KeyOf[a], open |-> TRUE]
  <2> SUFFICES ASSUME NEW a \in A
               PROVE  /\ to[a] \in DOMAIN Entries(db)'
                      /\ Entries(db)'[to[a]] = [key |-> KeyOf[a], open |-> TRUE]
    OBVIOUS
  <2> DEFINE i == to[a]
  <2>1. i \in Present(db)' /\ db'.incidents[i].key = KeyOf[a] /\ db'.incidents[i].open = TRUE
    BY <1>8
  <2> HIDE DEF i
  <2>2. Entries(db)'[i] = [key |-> db'.incidents[i].key, open |-> db'.incidents[i].open]
    BY <2>1 DEF Entries
  <2>3. DOMAIN Entries(db)' = Present(db)'
    BY DEF Entries
  <2> QED BY <2>1, <2>2, <2>3 DEF i
<1> HIDE DEF I, A, key, to
<1>14. Ledger!Record(I, key, A, to)
  BY <1>9, <1>10, <1>11, <1>13 DEF Ledger!Record
<1> QED BY <1>4, <1>12, <1>14 DEF Ledger!LNext

\* A deletion removes an ingested alert with its link, or a drill.
LEMMA DeletionDeletes ==
  ASSUME IInv, EntriesHold, NEW s \in Sessions, DeleteAlert(s)
  PROVE  [Ledger!LNext]_Ledger!lvars
<1>1. PICK a \in Alerts :
        /\ db'.incidents = db.incidents /\ db'.alerts = db.alerts \ {a}
        /\ db'.links = db.links \ ({i \in Incidents : sess[s].loaded[i] # None} \X {a})
        /\ a \in Ingested => \A i \in Incidents : <<i, a>> \in db.links => sess[s].loaded[i] # None
  BY DeletedTables
<1> DEFINE found == {i \in Incidents : sess[s].loaded[i] # None} \X {a}
<1>2. db.links \subseteq Incidents \X Alerts
  BY TableFields DEF IInv, StoreTypeOK
<1>3. \A link \in found : link[2] = a
  OBVIOUS
<1>4. CASE a \in Ingested
  <2>1. \A link \in db.links : link[2] = a => link \in found
    <3> SUFFICES ASSUME NEW link \in db.links, link[2] = a PROVE link \in found
      OBVIOUS
    <3>1. PICK i \in Incidents, b \in Alerts : link = <<i, b>>
      BY <1>2
    <3>2. b = a
      BY <3>1
    <3> QED BY <1>1, <1>4, <3>1, <3>2
  <2> HIDE DEF found
  <2>2. IngestedLinks(db)' = {link \in IngestedLinks(db) : link[2] # a}
    BY <1>1, <1>3, <2>1 DEF IngestedLinks, found
  <2>3. db'.alerts \cap Ingested = (db.alerts \cap Ingested) \ {a}
    BY <1>1
  <2>4. Entries(db)' = Entries(db)
    BY <1>1 DEF Entries, Present
  <2>5. Ledger!Delete(a)
    BY <2>2, <2>3, <2>4 DEF Ledger!Delete
  <2> QED BY <1>4, <2>5 DEF Ledger!LNext
<1>5. CASE a \notin Ingested
  <2>1. IngestedLinks(db)' = IngestedLinks(db)
    BY <1>1, <1>3, <1>5 DEF IngestedLinks
  <2>2. db'.alerts \cap Ingested = db.alerts \cap Ingested
    BY <1>1, <1>5
  <2> QED BY <1>1, <2>1, <2>2, Stutters
<1> QED BY <1>4, <1>5

LEMMA PatchTriages ==
  ASSUME IInv, EntriesHold, NEW i \in Incidents, NEW open \in BOOLEAN, PatchIncident(i, open)
  PROVE  Ledger!LNext
<1>1. /\ db.incidents[i] # None /\ db'.alerts = db.alerts /\ db'.links = db.links
      /\ \A j \in Incidents :
           /\ db'.incidents[j] = None <=> db.incidents[j] = None
           /\ db.incidents[j] # None =>
                /\ db'.incidents[j].key = db.incidents[j].key
                /\ db'.incidents[j].open = IF j = i THEN open ELSE db.incidents[j].open
  BY TriageEntries
<1>2. Present(db)' = Present(db) /\ i \in Present(db)
  BY <1>1 DEF Present
<1> DEFINE P == Present(db)
           E == Entries(db)
           new == [E EXCEPT ![i].open = open]
<1>3. DOMAIN E = P /\ P \subseteq Incidents
  BY EntriesAre
<1>4. \A j \in P : E[j] = [key |-> db.incidents[j].key, open |-> db.incidents[j].open]
  BY EntriesAre
<1>5. ASSUME NEW j \in P
      PROVE  [key |-> db'.incidents[j].key, open |-> db'.incidents[j].open] = new[j]
  <2>1. j \in Incidents /\ db.incidents[j] # None
    BY DEF Present
  <2>2. new[j] = IF j = i THEN [E[j] EXCEPT !.open = open] ELSE E[j]
    BY <1>3
  <2> HIDE DEF new, E, P
  <2>3. E[j] = [key |-> db.incidents[j].key, open |-> db.incidents[j].open]
    BY <1>4, <1>5
  <2> QED BY <1>1, <2>1, <2>2, <2>3
<1>6. Entries(db)' = [j \in P |-> [key |-> db'.incidents[j].key, open |-> db'.incidents[j].open]]
  BY <1>2 DEF Entries
<1>7. new = [j \in P |-> new[j]]
  BY <1>3
<1>8. Entries(db)' = new
  <2> HIDE DEF new, P
  <2> QED BY <1>5, <1>6, <1>7
<1>9. IngestedLinks(db)' = IngestedLinks(db)
  BY <1>1 DEF IngestedLinks
<1>10. Ledger!Triage(i, open)
  BY <1>1, <1>2, <1>3, <1>8, <1>9 DEF Ledger!Triage
<1> QED BY <1>10 DEF Ledger!LNext

\* Each step of the store is a step of the ledger, or none.
LEMMA StepsOfLedger ==
  ASSUME IInv, EntriesHold, [Next]_vars
  PROVE  [Ledger!LNext]_Ledger!lvars
<1>0. IInv'
  BY NextHolds
<1>s. db' = db => UNCHANGED Ledger!lvars
  BY DEF Ledger!lvars, Entries, Present, IngestedLinks
<1>1. CASE UNCHANGED vars
  BY <1>1, <1>s DEF vars
<1>2. ASSUME NEW s \in Sessions, NEW A \in SUBSET Alerts, Ingest(s, A) \/ Drill(s, A)
      PROVE  UNCHANGED Ledger!lvars
  <2>1. Arrives(s, A)
    BY <1>2, ArrivalDoes
  <2>2. CASE db' = db
    BY <2>2, <1>s
  <2>3. CASE db' # db
    <3>1. A \subseteq Drills /\ db'.alerts = db.alerts \cup A /\ db'.links = db.links /\ db'.incidents = db.incidents
      BY <2>1, <2>3 DEF Arrives
    <3>2. db'.alerts \cap Ingested = db.alerts \cap Ingested
      BY <3>1 DEF Ingested
    <3>3. IngestedLinks(db)' = IngestedLinks(db)
      BY <3>1 DEF IngestedLinks
    <3> QED BY <3>1, <3>2, <3>3, Stutters
  <2> QED BY <2>2, <2>3
<1>3. ASSUME NEW s \in Sessions,
             (\E a \in Alerts : FindAlert(s, a)) \/ CorrelateAgain(s) \/ Rollback(s) \/ ReadUnlinked(s)
               \/ MatchCluster(s) \/ (\E i \in Incidents : Create(s, i))
      PROVE  db' = db
  BY <1>3 DEF FindAlert, CorrelateAgain, Rollback, ReadUnlinked, MatchCluster, Create, Write
<1>4. ASSUME NEW s \in Sessions, Merge(s) PROVE db' = db
  BY <1>4 DEF Merge, Write
<1>5. ASSUME NEW s \in Sessions, Commit(s) PROVE db' = db \/ Ledger!LNext
  <2>1. CASE writer = s \/ sess[s].pending # None
    BY <1>0, <1>5, <2>1, CommitDoes, CommitRecords
  <2>2. CASE ~(writer = s \/ sess[s].pending # None)
    BY <1>5, <2>2 DEF Commit
  <2> QED BY <2>1, <2>2
<1>6. CASE ClearAll
  <2>1. db' = EmptyTables
    BY <1>6 DEF ClearAll, WriteAndCommit
  <2>2. EmptyTables.links = {} /\ EmptyTables.alerts = {} /\ \A i \in Incidents : EmptyTables.incidents[i] = None
    BY DEF EmptyTables
  <2>3. Entries(db)' = [i \in {} |-> TRUE]
    <3>1. Present(db)' = {}
      BY <2>1, <2>2 DEF Present
    <3> QED BY <3>1 DEF Entries
  <2>4. IngestedLinks(db)' = {} /\ db'.alerts \cap Ingested = {}
    BY <2>1, <2>2 DEF IngestedLinks
  <2>5. Ledger!Clear
    BY <2>3, <2>4 DEF Ledger!Clear
  <2> QED BY <2>5 DEF Ledger!LNext
<1> QED
  BY <1>s, <1>1, <1>2, <1>3, <1>4, <1>5, <1>6, PatchTriages, DeletionDeletes DEF Next, CorrelationStep

\* What sessions commit of ingested alerts and of incidents follows IncidentLedger: an alert and
\* its link to one open incident of its key arrive in one step, and go in one.
THEOREM StoreImplementsLedger == Spec => ImplementsLedger
<1>1. Init => EntriesHold
  <2> SUFFICES ASSUME Init PROVE EntriesHold
    OBVIOUS
  <2>1. db = EmptyTables /\ draft = EmptyTables /\ \A s \in Sessions : sess[s] = Closed
    BY DEF Init
  <2>2. EmptyTables.links = {} /\ \A i \in Incidents : EmptyTables.incidents[i] = None
    BY DEF EmptyTables
  <2> QED BY <2>1, <2>2, ClosedSession DEF EntriesHold, NewAreOpen, KeysMatch, DeletesOne
<1>2. Init => Ledger!LInit
  <2> SUFFICES ASSUME Init PROVE Ledger!LInit
    OBVIOUS
  <2>1. db = EmptyTables
    BY DEF Init
  <2>2. db.links = {} /\ db.alerts = {} /\ \A i \in Incidents : db.incidents[i] = None
    BY <2>1 DEF EmptyTables
  <2>3. Present(db) = {}
    BY <2>2 DEF Present
  <2>4. Entries(db) = [i \in {} |-> TRUE] /\ IngestedLinks(db) = {} /\ db.alerts \cap Ingested = {}
    BY <2>2, <2>3 DEF Entries, IngestedLinks
  <2> QED BY <2>4 DEF Ledger!LInit
<1>3. IInv /\ EntriesHold /\ [Next]_vars => EntriesHold'
  BY EntriesKept
<1>4. IInv /\ EntriesHold /\ [Next]_vars => [Ledger!LNext]_Ledger!lvars
  BY StepsOfLedger
<1> QED
  BY <1>1, <1>2, <1>3, <1>4, InvariantHolds, PTL DEF Spec, ImplementsLedger, Ledger!LSpec

-----------------------------------------------------------------------------
(* What IncidentLedger promises of itself, and so of the store. *)

\* The state of the ledger.
InLedger(incidents, alerts, links) ==
  /\ DOMAIN incidents \subseteq Incidents
  /\ alerts \subseteq Ingested /\ links \subseteq Incidents \X Ingested
  /\ \A a \in alerts : \E i \in DOMAIN incidents :
       incidents[i].key = KeyOf[a] /\ \A j \in Incidents : <<j, a>> \in links <=> j = i
  /\ \A link \in links : link[2] \in alerts
LedgerInv == InLedger(Entries(db), db.alerts \cap Ingested, IngestedLinks(db))

LEMMA LedgerInvIs == LedgerInv => Ledger!EachInItsIncident
<1> SUFFICES ASSUME LedgerInv PROVE Ledger!EachInItsIncident
  OBVIOUS
<1> DEFINE E == Entries(db)
           L == IngestedLinks(db)
<1>1. ASSUME NEW a \in db.alerts \cap Ingested
      PROVE  \E i \in DOMAIN E : E[i].key = KeyOf[a] /\ {j \in Incidents : <<j, a>> \in L} = {i}
  <2>1. PICK i \in DOMAIN E : E[i].key = KeyOf[a] /\ \A j \in Incidents : <<j, a>> \in L <=> j = i
    BY DEF LedgerInv, InLedger
  <2>2. i \in Incidents
    BY DEF LedgerInv, InLedger
  <2> HIDE DEF E, L
  <2>3. {j \in Incidents : <<j, a>> \in L} = {i}
    BY <2>1, <2>2
  <2> QED BY <2>1, <2>3
<1>2. \A link \in L : link[2] \in db.alerts \cap Ingested
  BY DEF LedgerInv, InLedger
<1> QED BY <1>1, <1>2 DEF Ledger!EachInItsIncident

LEMMA LedgerInit == Ledger!LInit => LedgerInv
BY DEF Ledger!LInit, LedgerInv, InLedger

\* Each step of the ledger keeps every alert in its one incident, by its actions alone.
LEMMA LedgerStep ==
  ASSUME LedgerInv, [Ledger!LNext]_Ledger!lvars
  PROVE  LedgerInv'
<1> DEFINE E == Entries(db)
           S == db.alerts \cap Ingested
           L == IngestedLinks(db)
<1>1. InLedger(E, S, L)
  BY DEF LedgerInv
<1>2. SUFFICES InLedger(E', S', L')
  BY DEF LedgerInv
<1>3. ASSUME NEW I \in SUBSET (Incidents \ DOMAIN E), NEW A \in SUBSET (Ingested \ S),
             NEW key \in [I -> Keys], NEW to \in [A -> Incidents], Ledger!Record(I, key, A, to)
      PROVE  InLedger(E', S', L')
  <2>1. /\ E' = [i \in DOMAIN E \cup I |-> IF i \in I THEN [key |-> key[i], open |-> TRUE] ELSE E[i]]
        /\ \A a \in A : to[a] \in DOMAIN E' /\ E'[to[a]] = [key |-> KeyOf[a], open |-> TRUE]
        /\ S' = S \cup A /\ L' = L \cup {<<to[a], a>> : a \in A}
    BY <1>3 DEF Ledger!Record
  <2> HIDE DEF E, S, L
  <2>2. DOMAIN E' \subseteq Incidents /\ S' \subseteq Ingested
    BY <1>1, <2>1 DEF InLedger
  <2>3. L' \subseteq Incidents \X Ingested
    BY <1>1, <2>1 DEF InLedger
  <2>4. ASSUME NEW a \in S'
        PROVE  \E i \in DOMAIN E' : E'[i].key = KeyOf[a] /\ \A j \in Incidents : <<j, a>> \in L' <=> j = i
    <3>1. CASE a \in S
      <4>1. PICK i \in DOMAIN E : E[i].key = KeyOf[a] /\ \A j \in Incidents : <<j, a>> \in L <=> j = i
        BY <1>1, <3>1 DEF InLedger
      <4>2. i \in DOMAIN E' /\ E'[i] = E[i]
        BY <2>1, <4>1
      <4>3. a \notin A
        BY <3>1
      <4>4. \A j \in Incidents : <<j, a>> \in L' <=> <<j, a>> \in L
        BY <2>1, <4>3
      <4> QED BY <4>1, <4>2, <4>4
    <3>2. CASE a \in A
      <4>1. a \notin S
        BY <3>2
      <4>2. \A j \in Incidents : <<j, a>> \notin L
        BY <1>1, <4>1 DEF InLedger
      <4>3. \A j \in Incidents : <<j, a>> \in L' <=> j = to[a]
        BY <2>1, <3>2, <4>2
      <4>4. to[a] \in DOMAIN E' /\ E'[to[a]] = [key |-> KeyOf[a], open |-> TRUE]
        BY <2>1, <3>2, Zenon
      <4>5. E'[to[a]].key = KeyOf[a]
        BY <4>4
      <4> QED BY <4>3, <4>4, <4>5
    <3> QED BY <2>1, <3>1, <3>2
  <2>5. \A link \in L' : link[2] \in S'
    BY <1>1, <2>1 DEF InLedger
  <2> QED BY <2>2, <2>3, <2>4, <2>5 DEF InLedger
<1>4. ASSUME NEW i \in Incidents, NEW open \in BOOLEAN, Ledger!Triage(i, open)
      PROVE  InLedger(E', S', L')
  <2>1. i \in DOMAIN E /\ E' = [E EXCEPT ![i].open = open] /\ S' = S /\ L' = L
    BY <1>4 DEF Ledger!Triage
  <2>2. DOMAIN E' = DOMAIN E
    BY <2>1
  <2>3. ASSUME NEW a \in S
        PROVE  \E k \in DOMAIN E' : E'[k].key = KeyOf[a] /\ \A j \in Incidents : <<j, a>> \in L' <=> j = k
    <3>1. PICK k \in DOMAIN E : E[k].key = KeyOf[a] /\ \A j \in Incidents : <<j, a>> \in L <=> j = k
      BY <1>1 DEF InLedger
    <3>2. E[k] = [key |-> db.incidents[k].key, open |-> db.incidents[k].open]
      BY EntriesAre
    <3>3. E'[k] = IF k = i THEN [E[k] EXCEPT !.open = open] ELSE E[k]
      BY <2>1
    <3> HIDE DEF E, S, L
    <3>4. E'[k].key = E[k].key
      BY <3>2, <3>3
    <3> QED BY <2>1, <2>2, <3>1, <3>4
  <2> HIDE DEF E, S, L
  <2> QED BY <1>1, <2>1, <2>2, <2>3 DEF InLedger
<1>5. ASSUME NEW a \in Ingested, Ledger!Delete(a)
      PROVE  InLedger(E', S', L')
  <2>1. E' = E /\ S' = S \ {a} /\ L' = {link \in L : link[2] # a}
    BY <1>5 DEF Ledger!Delete
  <2> HIDE DEF E, S, L
  <2>2. \A b \in Ingested, j \in Incidents : b # a => (<<j, b>> \in L' <=> <<j, b>> \in L)
    BY <2>1
  <2>3. \A b \in S' : b # a /\ b \in S /\ b \in Ingested
    BY <1>1, <2>1 DEF InLedger
  <2>4. ASSUME NEW b \in S'
        PROVE  \E i \in DOMAIN E' : E'[i].key = KeyOf[b] /\ \A j \in Incidents : <<j, b>> \in L' <=> j = i
    BY <1>1, <2>1, <2>2, <2>3 DEF InLedger
  <2>5. L' \subseteq L /\ \A link \in L' : link[2] \in S'
    BY <1>1, <2>1 DEF InLedger
  <2> QED BY <1>1, <2>1, <2>4, <2>5 DEF InLedger
<1>6. CASE Ledger!Clear
  <2>1. E' = [i \in {} |-> TRUE] /\ S' = {} /\ L' = {}
    BY <1>6 DEF Ledger!Clear
  <2> QED BY <2>1 DEF InLedger
<1>7. CASE UNCHANGED Ledger!lvars
  <2>1. E' = E /\ S' = S /\ L' = L
    BY <1>7 DEF Ledger!lvars
  <2> QED BY <1>1, <2>1
<1> HIDE DEF E, S, L
<1> QED BY <1>3, <1>4, <1>5, <1>6, <1>7 DEF Ledger!LNext, E, S

\* IncidentLedger, over the rows of the store: as long as only its actions happen, every alert is
\* linked once, to an incident that is there and has its key, and no link outlives its alert.
THEOREM LedgerKeepsEach == Ledger!LSpec => []Ledger!EachInItsIncident
<1>1. LedgerInv /\ [Ledger!LNext]_Ledger!lvars => LedgerInv'
  BY LedgerStep
<1> QED BY <1>1, LedgerInit, LedgerInvIs, PTL DEF Ledger!LSpec

\* So it is in the database after every commit of uploads, audits and the triage routes
\* (app/security/correlator.py, app/api/routes.py), because the store implements IncidentLedger.
THEOREM StoreKeepsEach == Spec => []Ledger!EachInItsIncident
BY LedgerKeepsEach, StoreImplementsLedger, PTL DEF ImplementsLedger
================================================================================

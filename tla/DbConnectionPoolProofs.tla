------------------------ MODULE DbConnectionPoolProofs ------------------------
(***************************************************************************)
(* Proofs about DbConnectionPool, for every number of threads and of       *)
(* connections, every threshold and every bound.                           *)
(***************************************************************************)
EXTENDS DbConnectionPool, FiniteSetTheorems, SequenceTheorems, TLAPS

-----------------------------------------------------------------------------
(* Lengths and elements of the deque after its operations. *)

LEMMA FrontFacts ==
  ASSUME NEW S, NEW s \in Seq(S), s # <<>>
  PROVE  /\ Len(s) \in Nat \ {0} /\ Front(s) \in Seq(S)
         /\ Len(Front(s)) = Len(s) - 1
         /\ \A k \in 1..(Len(s) - 1) : Front(s)[k] = s[k]
         /\ Last(s) = s[Len(s)] /\ Last(s) \in S
<1>1. Len(s) \in Nat \ {0}
  BY EmptySeq, LenProperties
<1>2. /\ Front(s) \in Seq(S) /\ Len(Front(s)) = Len(s) - 1
      /\ \A k \in 1..(Len(s) - 1) : Front(s)[k] = s[k]
  <2> DEFINE f == SubSeq(s, 1, Len(s) - 1)
  <2>1. \A k \in 1..(Len(s) - 1) : s[k] \in S
    BY <1>1, ElementOfSeq
  <2>2. /\ f \in Seq(S)
        /\ Len(f) = IF 1 <= Len(s) - 1 THEN (Len(s) - 1) - 1 + 1 ELSE 0
        /\ \A k \in 1..((Len(s) - 1) - 1 + 1) : f[k] = s[1 + k - 1]
    BY <1>1, <2>1, SubSeqProperties
  <2>3. f = Front(s)
    BY DEF Front
  <2> HIDE DEF f
  <2>4. Len(f) = Len(s) - 1
    <3>1. CASE Len(s) = 1
      BY <2>2, <3>1
    <3>2. CASE Len(s) > 1
      BY <1>1, <2>2, <3>2
    <3> QED
      BY <1>1, <3>1, <3>2
  <2>5. \A k \in 1..(Len(s) - 1) : f[k] = s[k]
    BY <1>1, <2>2
  <2> QED
    BY <2>2, <2>3, <2>4, <2>5
<1>3. Last(s) = s[Len(s)] /\ Last(s) \in S
  BY <1>1, ElementOfSeq DEF Last
<1> QED
  BY <1>1, <1>2, <1>3

LEMMA RemoveAtFacts ==
  ASSUME NEW S, NEW s \in Seq(S), NEW i \in 1..Len(s)
  PROVE  /\ RemoveAt(s, i) \in Seq(S)
         /\ Len(RemoveAt(s, i)) = Len(s) - 1
         /\ \A k \in 1..(Len(s) - 1) :
              RemoveAt(s, i)[k] = IF k < i THEN s[k] ELSE s[k + 1]
<1> DEFINE a == SubSeq(s, 1, i - 1)
           b == SubSeq(s, i + 1, Len(s))
<1>0. Len(s) \in Nat
  BY LenProperties
<1>1. /\ a \in Seq(S) /\ Len(a) = i - 1
      /\ \A k \in 1..(i - 1) : a[k] = s[k]
  BY <1>0, SubSeqProperties
<1>2. /\ b \in Seq(S) /\ Len(b) = Len(s) - i
      /\ \A k \in 1..(Len(s) - i) : b[k] = s[i + k]
  BY <1>0, SubSeqProperties
<1>3. RemoveAt(s, i) = a \o b
  BY DEF RemoveAt
<1> HIDE DEF a, b
<1>4. /\ a \o b \in Seq(S) /\ Len(a \o b) = Len(s) - 1
      /\ \A k \in 1..(Len(s) - 1) :
           (a \o b)[k] = IF k <= Len(a) THEN a[k] ELSE b[k - Len(a)]
  <2>1. Len(a) + Len(b) = Len(s) - 1
    BY <1>0, <1>1, <1>2
  <2>2. /\ a \o b \in Seq(S) /\ Len(a \o b) = Len(a) + Len(b)
        /\ \A k \in 1..(Len(a) + Len(b)) :
             (a \o b)[k] = IF k <= Len(a) THEN a[k] ELSE b[k - Len(a)]
    BY <1>1, <1>2, ConcatProperties
  <2> QED
    BY <2>1, <2>2
<1> QED
  BY <1>0, <1>1, <1>2, <1>3, <1>4

LEMMA InsertAtFacts ==
  ASSUME NEW S, NEW s \in Seq(S), NEW i \in 1..(Len(s) + 1), NEW e \in S
  PROVE  /\ InsertAt(s, i, e) \in Seq(S)
         /\ Len(InsertAt(s, i, e)) = Len(s) + 1
         /\ \A k \in 1..(Len(s) + 1) :
              InsertAt(s, i, e)[k] = IF k < i THEN s[k]
                                     ELSE IF k = i THEN e ELSE s[k - 1]
<1> DEFINE a == SubSeq(s, 1, i - 1)
           b == SubSeq(s, i, Len(s))
<1>0. Len(s) \in Nat
  BY LenProperties
<1>1. /\ a \in Seq(S) /\ Len(a) = i - 1
      /\ \A k \in 1..(i - 1) : a[k] = s[k]
  BY <1>0, SubSeqProperties
<1>2. /\ b \in Seq(S) /\ Len(b) = Len(s) - i + 1
      /\ \A k \in 1..(Len(s) - i + 1) : b[k] = s[i + k - 1]
  BY <1>0, SubSeqProperties
<1>3. InsertAt(s, i, e) = (a \o <<e>>) \o b
  BY DEF InsertAt
<1> HIDE DEF a, b
<1>4. /\ a \o <<e>> \in Seq(S) /\ Len(a \o <<e>>) = i
      /\ \A k \in 1..i : (a \o <<e>>)[k] = IF k < i THEN s[k] ELSE e
  BY <1>1, ConcatProperties
<1>5. /\ (a \o <<e>>) \o b \in Seq(S) /\ Len((a \o <<e>>) \o b) = Len(s) + 1
      /\ \A k \in 1..(Len(s) + 1) :
           ((a \o <<e>>) \o b)[k] = IF k <= i THEN (a \o <<e>>)[k] ELSE b[k - i]
  BY <1>0, <1>2, <1>4, ConcatProperties
<1> QED
  BY <1>0, <1>2, <1>3, <1>4, <1>5

(* The connections of a sequence of entries, none of them there twice. *)
ConnsOf(s) == {s[i].conn : i \in DOMAIN s}
Distinct(s) == \A i, j \in DOMAIN s : s[i].conn = s[j].conn => i = j

(* r is s without its entry at i, or with e as its entry at i. *)
Without(r, s, i) ==
  /\ i \in 1..Len(s) /\ r \in Seq(EntryType) /\ Len(r) = Len(s) - 1
  /\ \A k \in 1..(Len(s) - 1) : r[k] = IF k < i THEN s[k] ELSE s[k + 1]

With(r, s, i, e) ==
  /\ i \in 1..(Len(s) + 1) /\ r \in Seq(EntryType) /\ Len(r) = Len(s) + 1
  /\ \A k \in 1..(Len(s) + 1) :
       r[k] = IF k < i THEN s[k] ELSE IF k = i THEN e ELSE s[k - 1]

LEMMA TakenOut ==
  ASSUME NEW s \in Seq(EntryType), NEW r, NEW i, Without(r, s, i), Distinct(s)
  PROVE  Distinct(r) /\ ConnsOf(r) = ConnsOf(s) \ {s[i].conn}
<1> USE DEF Without
<1>1. /\ Len(s) \in Nat /\ Len(r) \in Nat
      /\ DOMAIN s = 1..Len(s) /\ DOMAIN r = 1..Len(r)
  BY LenProperties
<1>2. Distinct(r)
  <2> SUFFICES ASSUME NEW j \in 1..Len(r), NEW k \in 1..Len(r), r[j].conn = r[k].conn
               PROVE  j = k
    BY <1>1 DEF Distinct
  <2> DEFINE At(x) == IF x < i THEN x ELSE x + 1
  <2>1. At(j) \in 1..Len(s) /\ At(k) \in 1..Len(s)
    BY <1>1
  <2>2. s[At(j)].conn = s[At(k)].conn
    BY <1>1
  <2>3. At(j) = At(k)
    BY <1>1, <2>1, <2>2 DEF Distinct
  <2> QED
    BY <1>1, <2>3
<1>3. ASSUME NEW c \in ConnsOf(r) PROVE c \in ConnsOf(s) /\ c # s[i].conn
  <2>1. PICK k \in 1..Len(r) : c = r[k].conn
    BY <1>1 DEF ConnsOf
  <2>2. PICK m \in 1..Len(s) : m # i /\ r[k] = s[m]
    BY <1>1
  <2> QED
    BY <1>1, <2>1, <2>2 DEF ConnsOf, Distinct
<1>4. ASSUME NEW c \in ConnsOf(s), c # s[i].conn PROVE c \in ConnsOf(r)
  <2>1. PICK m \in 1..Len(s) : c = s[m].conn
    BY <1>1 DEF ConnsOf
  <2>2. m # i
    BY <1>4, <2>1
  <2>3. PICK k \in 1..Len(r) : r[k] = s[m]
    <3>1. CASE m < i
      <4>1. m \in 1..Len(r) /\ r[m] = s[m]
        BY <1>1, <3>1
      <4> QED
        BY <4>1
    <3>2. CASE m > i
      <4>1. m - 1 \in 1..Len(r) /\ r[m - 1] = s[m]
        BY <1>1, <3>2
      <4> QED
        BY <4>1
    <3> QED
      BY <2>2, <3>1, <3>2
  <2> QED
    BY <1>1, <2>1, <2>3 DEF ConnsOf
<1> QED
  BY <1>2, <1>3, <1>4

LEMMA PutIn ==
  ASSUME NEW s \in Seq(EntryType), NEW r, NEW i, NEW e \in EntryType,
         With(r, s, i, e), Distinct(s), e.conn \notin ConnsOf(s)
  PROVE  Distinct(r) /\ ConnsOf(r) = ConnsOf(s) \cup {e.conn}
<1> USE DEF With
<1>1. /\ Len(s) \in Nat /\ Len(r) \in Nat
      /\ DOMAIN s = 1..Len(s) /\ DOMAIN r = 1..Len(r)
  BY LenProperties
<1> DEFINE At(x) == IF x < i THEN x ELSE x - 1
<1>2. \A k \in 1..Len(r) : k # i => At(k) \in 1..Len(s) /\ r[k] = s[At(k)]
  BY <1>1
<1>3. i \in 1..Len(r) /\ r[i] = e
  BY <1>1
<1>4. \A m \in 1..Len(s) : s[m].conn \in ConnsOf(s)
  BY <1>1 DEF ConnsOf
<1>5. Distinct(r)
  <2> SUFFICES ASSUME NEW j \in 1..Len(r), NEW k \in 1..Len(r), r[j].conn = r[k].conn
               PROVE  j = k
    BY <1>1 DEF Distinct
  <2>1. \A m \in 1..Len(r) : m # i => r[m].conn # r[i].conn
    <3> SUFFICES ASSUME NEW m \in 1..Len(r), m # i PROVE r[m].conn # e.conn
      BY <1>3
    <3>1. At(m) \in 1..Len(s) /\ r[m] = s[At(m)]
      BY <1>2
    <3>2. r[m].conn \in ConnsOf(s)
      BY <1>4, <3>1
    <3> QED
      BY <3>2
  <2>2. CASE j # i /\ k # i
    <3>1. At(j) \in 1..Len(s) /\ At(k) \in 1..Len(s)
      BY <1>1, <2>2
    <3>2. r[j] = s[At(j)] /\ r[k] = s[At(k)]
      BY <1>2, <2>2
    <3>3. s[At(j)].conn = s[At(k)].conn
      BY <3>2
    <3>4. At(j) = At(k)
      BY <1>1, <3>1, <3>3 DEF Distinct
    <3> QED
      BY <1>1, <2>2, <3>4
  <2> QED
    BY <2>1, <2>2
<1>6. ASSUME NEW c \in ConnsOf(r) PROVE c \in ConnsOf(s) \cup {e.conn}
  <2>1. PICK k \in 1..Len(r) : c = r[k].conn
    BY <1>1 DEF ConnsOf
  <2> QED
    BY <1>2, <1>3, <1>4, <2>1
<1>7. ASSUME NEW c \in ConnsOf(s) PROVE c \in ConnsOf(r)
  <2>1. PICK m \in 1..Len(s) : c = s[m].conn
    BY <1>1 DEF ConnsOf
  <2>2. PICK k \in 1..Len(r) : r[k] = s[m]
    <3>1. CASE m < i
      <4>1. m \in 1..Len(r) /\ r[m] = s[m]
        BY <1>1, <3>1
      <4> QED
        BY <4>1
    <3>2. CASE m >= i
      <4>1. m + 1 \in 1..Len(r) /\ r[m + 1] = s[m]
        BY <1>1, <3>2
      <4> QED
        BY <4>1
    <3> QED
      BY <1>1, <3>1, <3>2
  <2> QED
    BY <1>1, <2>1, <2>2 DEF ConnsOf
<1>8. e.conn \in ConnsOf(r)
  BY <1>1, <1>3 DEF ConnsOf
<1> QED
  BY <1>5, <1>6, <1>7, <1>8
LEMMA InsertedWith ==
  ASSUME NEW s \in Seq(EntryType), NEW i \in 1..(Len(s) + 1), NEW e \in EntryType
  PROVE  With(InsertAt(s, i, e), s, i, e)
BY InsertAtFacts DEF With

(* The deque holds no more than there are connections. *)
LEMMA Pigeon ==
  ASSUME NEW s \in Seq(EntryType), Distinct(s)
  PROVE  Len(s) <= poolSize
<1>1. /\ Len(s) \in Nat /\ DOMAIN s = 1..Len(s)
      /\ \A k \in 1..Len(s) : s[k] \in EntryType
  BY LenProperties, ElementOfSeq
<1> DEFINE f == [k \in 1..Len(s) |-> s[k].conn]
<1>2. f \in [1..Len(s) -> 1..poolSize]
  BY <1>1 DEF EntryType, Conn
<1>3. IsInjective(f)
  BY <1>1 DEF IsInjective, Distinct
<1>4. f \in Injection(1..Len(s), 1..poolSize)
  BY <1>2, <1>3 DEF Injection
<1>5. poolSize \in Nat
  BY PoolAssumption
<1>6. IsFiniteSet(1..poolSize) /\ Cardinality(1..poolSize) = poolSize
  BY <1>5, FS_Interval
<1>7. Cardinality(1..Len(s)) = Len(s)
  <2> SUFFICES ASSUME NEW n \in Nat PROVE Cardinality(1..n) = n
    BY <1>1
  <2>1. Cardinality(1..n) = IF 1 > n THEN 0 ELSE n - 1 + 1
    BY FS_Interval
  <2> QED
    BY <2>1
<1> HIDE DEF f
<1>8. Cardinality(1..Len(s)) <= Cardinality(1..poolSize)
  BY <1>4, <1>6, FS_Injection
<1> QED
  BY <1>6, <1>7, <1>8

-----------------------------------------------------------------------------
(* What the threads hold. *)

UserType == [Thread -> [pc : {"idle", "wait", "ping", "use"}, conn : 0..poolSize]]
LentOf(u) == {u[t].conn : t \in Thread} \ {None}
Alone(u) == \A t, v \in Thread : u[t].conn # None /\ u[t].conn = u[v].conn => t = v

(* The two ways in which the state of a thread changes. *)
Put(u, t, w) == [u EXCEPT ![t] = w]
Step(u, t, p) == [u EXCEPT ![t].pc = p]

LEMMA Gives ==
  ASSUME NEW u \in UserType, NEW t \in Thread, NEW w, Alone(u),
         u[t].conn = None, w.conn # None, w.conn \notin LentOf(u)
  PROVE  /\ LentOf(Put(u, t, w)) = LentOf(u) \cup {w.conn}
         /\ Alone(Put(u, t, w))
<1> DEFINE x == Put(u, t, w)
<1>1. x[t] = w /\ \A v \in Thread \ {t} : x[v] = u[v]
  BY DEF UserType, Put
<1> HIDE DEF x
<1>2. LentOf(x) = LentOf(u) \cup {w.conn}
  BY <1>1 DEF LentOf
<1>3. \A v \in Thread \ {t} : x[v].conn # x[t].conn
  BY <1>1 DEF LentOf
<1>4. Alone(x)
  BY <1>1, <1>3 DEF Alone
<1> QED
  BY <1>2, <1>4 DEF x

LEMMA Takes ==
  ASSUME NEW u \in UserType, NEW t \in Thread, NEW w, Alone(u),
         u[t].conn # None, w.conn = None
  PROVE  /\ LentOf(Put(u, t, w)) = LentOf(u) \ {u[t].conn}
         /\ Alone(Put(u, t, w))
         /\ u[t].conn \in LentOf(u)
<1> DEFINE x == Put(u, t, w)
<1>1. x[t] = w /\ \A v \in Thread \ {t} : x[v] = u[v]
  BY DEF UserType, Put
<1> HIDE DEF x
<1>2. LentOf(x) = LentOf(u) \ {u[t].conn}
  BY <1>1 DEF LentOf, Alone
<1>3. Alone(x)
  BY <1>1 DEF Alone
<1> QED
  BY <1>2, <1>3 DEF x, LentOf

LEMMA Keeps ==
  ASSUME NEW u, NEW x, \A t \in Thread : x[t].conn = u[t].conn, Alone(u)
  PROVE  LentOf(x) = LentOf(u) /\ Alone(x)
BY DEF LentOf, Alone
-----------------------------------------------------------------------------
(* The state. *)

(* OnePlaceEach in terms of the four places. *)
Apart(p, l, c, g) ==
  /\ p \cup l \cup c \cup g = Conn
  /\ p \cap l = {} /\ c \cap (p \cup l) = {} /\ g \cap (p \cup l \cup c) = {}

LEMMA Places ==
  OnePlaceEach <=> /\ Apart(ConnsOf(connections), LentOf(user), InCheck, lost)
                   /\ Distinct(connections) /\ Alone(user)
BY Zenon DEF OnePlaceEach, Apart, Pooled, Lent, ConnsOf, LentOf, Distinct, Alone

LEMMA PlacesAfter ==
  OnePlaceEach' <=> /\ Apart(ConnsOf(connections'), LentOf(user'), InCheck', lost')
                    /\ Distinct(connections') /\ Alone(user')
BY Zenon DEF OnePlaceEach, Apart, Pooled, Lent, ConnsOf, LentOf, Distinct, Alone

CheckerType ==
  [pc : {"sleep", "scan", "ping"}, i : 0..(poolSize + 1),
   checked : 0..maxCheckPerRound, since : 0..MaxTime,
   entry : EntryType \cup {<<>>}]

(* What the check thread may rely on: an index within the deque, and a     *)
(* check left to do, when it has taken a connection out.                   *)
CheckerInv ==
  /\ checker.pc # "sleep" => checker.i >= 1
  /\ checker.pc = "ping" => checker.i <= poolSize /\ checker.checked < maxCheckPerRound

IInv == TypeOK /\ OnePlaceEach /\ NoLostWakeup /\ CheckerInv

LEMMA Params ==
  /\ poolSize \in Nat \ {0} /\ maxCheckPerRound \in Nat \ {0}
  /\ MaxTime \in Nat /\ IsFiniteSet(Thread)
BY PoolAssumption

LEMMA EntryFacts ==
  /\ \A c \in Conn, a, b \in 0..MaxTime :
       Entry(c, a, b) \in EntryType /\ Entry(c, a, b).conn = c
  /\ \A e \in EntryType : e # <<>> /\ e.conn \in Conn /\ e.conn # None
  /\ \A e \in EntryType, t \in 0..MaxTime :
       /\ [e EXCEPT !.lastChecked = t] \in EntryType
       /\ [e EXCEPT !.lastChecked = t].conn = e.conn
<1>1. \A c \in Conn, a, b \in 0..MaxTime :
       Entry(c, a, b) \in EntryType /\ Entry(c, a, b).conn = c
  BY DEF Entry, EntryType
<1>2. ASSUME NEW e \in EntryType PROVE e # <<>> /\ e.conn \in Conn /\ e.conn # None
  <2>1. e # <<>>
    BY DEF EntryType
  <2>2. e.conn \in 1..poolSize
    BY DEF EntryType, Conn
  <2> QED
    BY <2>1, <2>2, Params DEF Conn, None
<1>3. \A e \in EntryType, t \in 0..MaxTime :
       /\ [e EXCEPT !.lastChecked = t] \in EntryType
       /\ [e EXCEPT !.lastChecked = t].conn = e.conn
  BY DEF EntryType
<1> QED
  BY <1>1, <1>2, <1>3

(* Sets of threads are finite, and waking or dropping one changes their    *)
(* number by one.                                                          *)
LEMMA Numbers ==
  ASSUME NEW s \in SUBSET Thread, NEW t \in Thread
  PROVE  /\ Cardinality(s) \in Nat
         /\ Cardinality(s \ {t}) = IF t \in s THEN Cardinality(s) - 1
                                              ELSE Cardinality(s)
         /\ Cardinality(s \cup {t}) = IF t \in s THEN Cardinality(s)
                                                 ELSE Cardinality(s) + 1
<1>1. IsFiniteSet(s)
  BY Params, FS_Subset
<1> QED
  BY <1>1, FS_CardinalityType, FS_AddElement, FS_RemoveElement

LEMMA InitIInv == Init => IInv
<1> SUFFICES ASSUME Init PROVE IInv
  OBVIOUS
<1>1. connections = [c \in 1..poolSize |-> Entry(c, 0, 0)]
  BY DEF Init, Conn
<1>2. \A c \in 1..poolSize : Entry(c, 0, 0) \in EntryType /\ Entry(c, 0, 0).conn = c
  BY Params, EntryFacts DEF Conn
<1>3. /\ connections \in Seq(EntryType)
      /\ DOMAIN connections = 1..poolSize
      /\ \A k \in 1..poolSize : connections[k].conn = k
  BY <1>1, <1>2, Params, SeqDef
<1>4. Distinct(connections) /\ ConnsOf(connections) = Conn
  BY <1>3 DEF Distinct, ConnsOf, Conn
<1>5. user \in UserType /\ \A t \in Thread : user[t].pc = "idle" /\ user[t].conn = None
  BY Params DEF Init, UserType, None
<1>6. Alone(user) /\ LentOf(user) = {} /\ Waiting = {}
  BY <1>5, Zenon DEF Alone, LentOf, Waiting
<1>7. checker.pc = "sleep" /\ checker.entry = <<>> /\ checker \in CheckerType
  BY Params DEF Init, Asleep, CheckerType
<1>8. TypeOK
  BY <1>3, <1>5, <1>6, <1>7, Params DEF Init, TypeOK, UserType, CheckerType
<1>9. InCheck = {} /\ lost = {}
  BY <1>7 DEF InCheck, Init
<1>10. OnePlaceEach
  BY <1>4, <1>6, <1>9, Places DEF Apart
<1>11. NoLostWakeup
  BY <1>6 DEF NoLostWakeup
<1>12. CheckerInv
  BY <1>7 DEF CheckerInv
<1> QED
  BY <1>8, <1>10, <1>11, <1>12 DEF IInv
-----------------------------------------------------------------------------
(* The steps that several actions share. *)

UserOK(u) ==
  u \in UserType /\ \A t \in Thread : u[t].pc \in {"ping", "use"} <=> u[t].conn # None

LEMMA TypeParts ==
  TypeOK <=> /\ connections \in Seq(EntryType) /\ UserOK(user)
             /\ notified \subseteq Waiting
             /\ checker \in CheckerType /\ (checker.pc = "ping" <=> checker.entry # <<>>)
             /\ now \in 0..MaxTime /\ lost \subseteq Conn
BY Zenon DEF TypeOK, UserOK, UserType, CheckerType

UserState == [pc : {"idle", "wait", "ping", "use"}, conn : 0..poolSize]

StateOK(w) == w \in UserState /\ (w.pc \in {"ping", "use"} <=> w.conn # None)

LEMMA Becomes ==
  ASSUME NEW u, UserOK(u), NEW t \in Thread, NEW w, StateOK(w)
  PROVE  /\ UserOK(Put(u, t, w)) /\ Put(u, t, w)[t] = w
         /\ \A v \in Thread \ {t} : Put(u, t, w)[v] = u[v]
<1> DEFINE x == Put(u, t, w)
<1>1. u \in UserType /\ w \in UserState
  BY DEF UserOK, StateOK
<1>2. x[t] = w /\ \A v \in Thread \ {t} : x[v] = u[v]
  BY <1>1 DEF UserType, Put
<1>3. x \in UserType
  BY <1>1 DEF UserType, UserState, Put
<1> HIDE DEF x
<1>4. UserOK(x)
  BY <1>2, <1>3 DEF UserOK, StateOK
<1> QED
  BY <1>2, <1>4 DEF x

(* Only the pc of a thread changes. *)
LEMMA Steps ==
  ASSUME NEW u, UserOK(u), NEW t \in Thread,
         NEW p \in {"idle", "wait", "ping", "use"},
         p \in {"ping", "use"} <=> u[t].conn # None
  PROVE  /\ UserOK(Step(u, t, p))
         /\ Step(u, t, p)[t].pc = p /\ Step(u, t, p)[t].conn = u[t].conn
         /\ \A v \in Thread \ {t} : Step(u, t, p)[v] = u[v]
<1> DEFINE w == [u[t] EXCEPT !.pc = p]
<1>1. u \in UserType /\ u[t] \in UserState
  BY DEF UserOK, UserType, UserState
<1>2. w \in UserState /\ w.pc = p /\ w.conn = u[t].conn
  BY <1>1 DEF UserState
<1>3. Step(u, t, p) = Put(u, t, w)
  BY <1>1 DEF UserType, Put, Step
<1> HIDE DEF w
<1>4. StateOK(w)
  BY <1>2 DEF StateOK
<1>5. /\ UserOK(Put(u, t, w)) /\ Put(u, t, w)[t] = w
      /\ \A v \in Thread \ {t} : Put(u, t, w)[v] = u[v]
  BY <1>4, Becomes
<1> QED
  BY <1>2, <1>3, <1>5

(* A thread that holds nothing takes the last connection of the deque. *)
LEMMA Lends ==
  ASSUME TypeOK, OnePlaceEach, NEW t \in Thread, user[t].conn = None,
         TakeLast(t), lost' = lost, checker' = checker
  PROVE  /\ connections' \in Seq(EntryType)
         /\ Len(connections) \in Nat \ {0}
         /\ Len(connections') = Len(connections) - 1
         /\ UserOK(user') /\ user'[t].pc = "ping"
         /\ \A v \in Thread \ {t} : user'[v] = user[v]
         /\ OnePlaceEach'
<1> DEFINE c == Last(connections).conn
           n == Len(connections)
<1>1. connections \in Seq(EntryType) /\ UserOK(user) /\ user \in UserType
  BY TypeParts DEF UserOK
<1>2. /\ connections # <<>> /\ connections' = Front(connections)
      /\ user' = [user EXCEPT ![t] = [pc |-> "ping", conn |-> c]]
  BY DEF TakeLast
<1>3. /\ n \in Nat \ {0} /\ connections' \in Seq(EntryType)
      /\ Len(connections') = n - 1
      /\ \A k \in 1..(n - 1) : connections'[k] = connections[k]
      /\ c = connections[n].conn /\ Last(connections) \in EntryType
  BY <1>1, <1>2, FrontFacts
<1>4. c \in Conn /\ c # None /\ c \in 0..poolSize
  BY <1>3, EntryFacts, Params DEF Conn
<1>5. /\ Apart(ConnsOf(connections), LentOf(user), InCheck, lost)
      /\ Distinct(connections) /\ Alone(user)
  BY Places
<1>6. Distinct(connections') /\ ConnsOf(connections') = ConnsOf(connections) \ {c}
  <2>1. Without(connections', connections, n)
    BY <1>3 DEF Without
  <2> HIDE DEF c, n
  <2> QED
    BY <1>1, <1>3, <1>5, <2>1, TakenOut
<1>7. c \in ConnsOf(connections)
  <2>1. n \in DOMAIN connections
    BY <1>1, <1>3, LenProperties
  <2> QED
    BY <1>3, <2>1 DEF ConnsOf
<1> DEFINE w == [pc |-> "ping", conn |-> c]
<1>8. StateOK(w) /\ w.pc = "ping" /\ w.conn = c
  <2> HIDE DEF c
  <2> QED
    BY <1>4 DEF StateOK, UserState
<1> HIDE DEF w
<1>9. user' = Put(user, t, w)
  BY <1>2 DEF w, Put
<1>10. UserOK(user') /\ user'[t] = w /\ \A v \in Thread \ {t} : user'[v] = user[v]
  BY <1>1, <1>8, <1>9, Becomes
<1>11. user'[t].pc = "ping"
  BY <1>8, <1>10
<1>12. c \notin LentOf(user)
  BY <1>5, <1>7 DEF Apart
<1>13. w.conn # None /\ w.conn \notin LentOf(user)
  BY <1>4, <1>8, <1>12
<1>14. LentOf(user') = LentOf(user) \cup {c} /\ Alone(user')
  BY <1>1, <1>4, <1>5, <1>8, <1>9, <1>12, <1>13, Gives
<1>15. InCheck' = InCheck
  BY DEF InCheck
<1> HIDE DEF c, n
<1>16. Apart(ConnsOf(connections'), LentOf(user'), InCheck', lost')
  BY <1>5, <1>6, <1>7, <1>14, <1>15 DEF Apart
<1>17. OnePlaceEach'
  BY <1>6, <1>14, <1>16, PlacesAfter
<1> QED
  BY <1>3, <1>10, <1>11, <1>17 DEF n

(* Nobody's connection changes. *)
LEMMA Undisturbed ==
  ASSUME OnePlaceEach, \A v \in Thread : user'[v].conn = user[v].conn,
         connections' = connections, InCheck' = InCheck, lost' = lost
  PROVE  OnePlaceEach'
<1>1. Alone(user)
  BY Places
<1>2. LentOf(user') = LentOf(user) /\ Alone(user')
  BY <1>1, Keeps
<1> QED
  BY <1>2, Places, PlacesAfter

LEMMA TypePartsAfter ==
  TypeOK' <=> /\ connections' \in Seq(EntryType) /\ UserOK(user')
              /\ notified' \subseteq Waiting'
              /\ checker' \in CheckerType
              /\ (checker'.pc = "ping" <=> checker'.entry # <<>>)
              /\ now' \in 0..MaxTime /\ lost' \subseteq Conn
BY Zenon DEF TypeOK, UserOK, UserType, CheckerType

(* A connection comes into the deque. *)
LEMMA Notifies ==
  ASSUME notified \subseteq Waiting, NoLostWakeup, NotifyOne, Waiting' = Waiting,
         Len(connections) \in Nat, Len(connections') = Len(connections) + 1
  PROVE  notified' \subseteq Waiting' /\ NoLostWakeup'
<1>1. Waiting \subseteq Thread
  BY DEF Waiting
<1>2. CASE Waiting \subseteq notified
  BY <1>2 DEF NotifyOne, NoLostWakeup
<1>3. CASE ~(Waiting \subseteq notified)
  <2>1. PICK t \in Waiting \ notified : notified' = notified \cup {t}
    BY <1>3 DEF NotifyOne
  <2>2. Len(connections) <= Cardinality(notified)
    BY <1>3 DEF NoLostWakeup
  <2>3. t \in Thread /\ notified \in SUBSET Thread /\ t \notin notified
    BY <1>1, <2>1
  <2>4. /\ Cardinality(notified) \in Nat
        /\ Cardinality(notified') = Cardinality(notified) + 1
    BY <2>1, <2>3, Numbers
  <2>5. Len(connections') <= Cardinality(notified')
    BY <2>2, <2>4
  <2> QED
    BY <2>1, <2>5 DEF NoLostWakeup
<1> QED
  BY <1>2, <1>3

(* A waiting thread that finds a connection takes its wake-up away with    *)
(* it, if it had one.                                                      *)
LEMMA LeavesWith ==
  ASSUME NEW t \in Thread, notified \subseteq Waiting, NoLostWakeup,
         Waiting' \subseteq Waiting \ {t}, Waiting \ {t} \subseteq Waiting',
         notified' = notified \ {t},
         Len(connections) \in Nat \ {0}, Len(connections') = Len(connections) - 1
  PROVE  notified' \subseteq Waiting' /\ NoLostWakeup'
<1>1. notified \in SUBSET Thread
  BY DEF Waiting
<1>2. /\ Cardinality(notified) \in Nat
      /\ Cardinality(notified') = IF t \in notified THEN Cardinality(notified) - 1
                                                  ELSE Cardinality(notified)
  BY <1>1, Numbers
<1>3. CASE Waiting \subseteq notified
  BY <1>3 DEF NoLostWakeup
<1>4. CASE Len(connections) <= Cardinality(notified)
  <2>1. Len(connections') <= Cardinality(notified')
    BY <1>2, <1>4
  <2> QED
    BY <2>1 DEF NoLostWakeup
<1> QED
  BY <1>3, <1>4 DEF NoLostWakeup

(* While the deque is empty nobody is owed a wake-up. *)
LEMMA NothingOwed ==
  ASSUME notified' \subseteq Thread, connections' = <<>>
  PROVE  NoLostWakeup'
<1>1. Cardinality(notified') \in Nat
  <2>1. IsFiniteSet(notified')
    BY Params, FS_Subset
  <2> QED
    BY <2>1, FS_CardinalityType
<1>2. Len(connections') = 0
  OBVIOUS
<1> QED
  BY <1>1, <1>2 DEF NoLostWakeup

-----------------------------------------------------------------------------
(* The business threads. *)

LEMMA AskStep ==
  ASSUME IInv, NEW t \in Thread, Ask(t)
  PROVE  IInv'
<1>1. /\ connections \in Seq(EntryType) /\ UserOK(user) /\ notified \subseteq Waiting
      /\ checker \in CheckerType /\ (checker.pc = "ping" <=> checker.entry # <<>>)
      /\ now \in 0..MaxTime /\ lost \subseteq Conn
  BY TypeParts DEF IInv
<1>2. /\ user[t].pc = "idle" /\ notified' = notified /\ checker' = checker
      /\ now' = now /\ lost' = lost
  BY DEF Ask
<1>3. user[t].conn = None
  BY <1>1, <1>2 DEF UserOK
<1>4. CheckerInv'
  BY <1>2 DEF IInv, CheckerInv
<1>5. CASE connections # <<>>
  <2>1. TakeLast(t)
    BY <1>5 DEF Ask
  <2>2. /\ connections' \in Seq(EntryType) /\ Len(connections) \in Nat \ {0}
        /\ Len(connections') = Len(connections) - 1
        /\ UserOK(user') /\ user'[t].pc = "ping"
        /\ \A v \in Thread \ {t} : user'[v] = user[v]
        /\ OnePlaceEach'
    BY <1>2, <1>3, <2>1, Lends DEF IInv
  <2>3. Waiting' = Waiting
    BY <1>2, <2>2 DEF Waiting
  <2>4. Waiting \subseteq notified \/ Len(connections) <= Cardinality(notified)
    BY DEF IInv, NoLostWakeup
  <2>5. Cardinality(notified) \in Nat
    BY <1>1, Numbers DEF Waiting
  <2>6. NoLostWakeup'
    BY <1>2, <2>2, <2>3, <2>4, <2>5 DEF NoLostWakeup
  <2>7. TypeOK'
    BY <1>1, <1>2, <2>2, <2>3, TypePartsAfter
  <2> QED
    BY <1>4, <2>2, <2>6, <2>7 DEF IInv
<1>6. CASE connections = <<>>
  <2>1. user' = [user EXCEPT ![t].pc = "wait"] /\ connections' = connections
    BY <1>6 DEF Ask
  <2>2. /\ UserOK(user') /\ user'[t].pc = "wait" /\ user'[t].conn = user[t].conn
        /\ \A v \in Thread \ {t} : user'[v] = user[v]
    <3>1. "wait" \in {"ping", "use"} <=> user[t].conn # None
      BY <1>3
    <3>2. user' = Step(user, t, "wait")
      BY <2>1 DEF Step
    <3> QED
      BY <1>1, <3>1, <3>2, Steps
  <2>3. Waiting \subseteq Waiting'
    BY <1>2, <2>2 DEF Waiting
  <2>4. TypeOK'
    BY <1>1, <1>2, <2>1, <2>2, <2>3, TypePartsAfter
  <2>5. InCheck' = InCheck
    BY <1>2 DEF InCheck
  <2>6. OnePlaceEach'
    BY <1>2, <2>1, <2>2, <2>5, Undisturbed DEF IInv
  <2>7. notified' \subseteq Thread
    BY <1>1, <1>2 DEF Waiting
  <2>8. NoLostWakeup'
    BY <1>6, <2>1, <2>7, NothingOwed
  <2> QED
    BY <1>4, <2>4, <2>6, <2>8 DEF IInv
<1> QED
  BY <1>5, <1>6

(* Wake and TimeOut: the thread looks once more. *)
LEMMA LooksStep ==
  ASSUME IInv, NEW t \in Thread, user[t].pc = "wait",
         notified' = notified \ {t}, checker' = checker, now' = now, lost' = lost,
         \/ TakeLast(t)
         \/ /\ connections = <<>> /\ connections' = connections
            /\ user' = user \/ user' = [user EXCEPT ![t].pc = "idle"]
  PROVE  IInv'
<1>1. /\ connections \in Seq(EntryType) /\ UserOK(user) /\ notified \subseteq Waiting
      /\ checker \in CheckerType /\ (checker.pc = "ping" <=> checker.entry # <<>>)
      /\ now \in 0..MaxTime /\ lost \subseteq Conn
  BY TypeParts DEF IInv
<1>2. user[t].conn = None
  BY <1>1 DEF UserOK
<1>3. CheckerInv'
  BY DEF IInv, CheckerInv
<1>4. CASE TakeLast(t)
  <2>1. /\ connections' \in Seq(EntryType) /\ Len(connections) \in Nat \ {0}
        /\ Len(connections') = Len(connections) - 1
        /\ UserOK(user') /\ user'[t].pc = "ping"
        /\ \A v \in Thread \ {t} : user'[v] = user[v]
        /\ OnePlaceEach'
    BY <1>2, <1>4, Lends DEF IInv
  <2>2. Waiting' \subseteq Waiting \ {t} /\ Waiting \ {t} \subseteq Waiting'
    BY <2>1 DEF Waiting
  <2>3. notified' \subseteq Waiting' /\ NoLostWakeup'
    BY <1>1, <2>1, <2>2, LeavesWith DEF IInv
  <2>4. TypeOK'
    BY <1>1, <2>1, <2>3, TypePartsAfter
  <2> QED
    BY <1>3, <2>1, <2>3, <2>4 DEF IInv
<1>5. CASE /\ connections = <<>> /\ connections' = connections
           /\ user' = user \/ user' = [user EXCEPT ![t].pc = "idle"]
  <2>1. /\ UserOK(user') /\ user'[t].conn = user[t].conn
        /\ \A v \in Thread \ {t} : user'[v] = user[v]
    <3>1. CASE user' = user
      BY <1>1, <3>1
    <3>2. CASE user' = [user EXCEPT ![t].pc = "idle"]
      <4>1. "idle" \in {"ping", "use"} <=> user[t].conn # None
        BY <1>2
      <4>2. user' = Step(user, t, "idle")
        BY <3>2 DEF Step
      <4> QED
        BY <1>1, <4>1, <4>2, Steps
    <3> QED
      BY <1>5, <3>1, <3>2
  <2>2. Waiting \ {t} \subseteq Waiting'
    BY <2>1 DEF Waiting
  <2>3. notified' \subseteq Waiting' /\ notified' \subseteq Thread
    BY <1>1, <2>2 DEF Waiting
  <2>4. TypeOK'
    BY <1>1, <1>5, <2>1, <2>3, TypePartsAfter
  <2>5. InCheck' = InCheck
    BY DEF InCheck
  <2>6. OnePlaceEach'
    BY <1>5, <2>1, <2>5, Undisturbed DEF IInv
  <2>7. NoLostWakeup'
    BY <1>5, <2>3, NothingOwed
  <2> QED
    BY <1>3, <2>4, <2>6, <2>7 DEF IInv
<1> QED
  BY <1>4, <1>5

LEMMA ObtainStep ==
  ASSUME IInv, NEW t \in Thread, Obtain(t)
  PROVE  IInv'
<1>1. /\ connections \in Seq(EntryType) /\ UserOK(user) /\ notified \subseteq Waiting
      /\ checker \in CheckerType /\ (checker.pc = "ping" <=> checker.entry # <<>>)
      /\ now \in 0..MaxTime /\ lost \subseteq Conn
  BY TypeParts DEF IInv
<1>2. /\ user[t].pc = "ping" /\ user' = Step(user, t, "use")
      /\ connections' = connections /\ notified' = notified
      /\ checker' = checker /\ now' = now /\ lost' = lost
  BY DEF Obtain, Step
<1>3. "use" \in {"ping", "use"} <=> user[t].conn # None
  BY <1>1, <1>2 DEF UserOK
<1>4. /\ UserOK(user') /\ user'[t].pc = "use" /\ user'[t].conn = user[t].conn
      /\ \A v \in Thread \ {t} : user'[v] = user[v]
  BY <1>1, <1>2, <1>3, Steps
<1>5. Waiting' = Waiting
  BY <1>2, <1>4 DEF Waiting
<1>6. TypeOK'
  BY <1>1, <1>2, <1>4, <1>5, TypePartsAfter
<1>7. InCheck' = InCheck
  BY <1>2 DEF InCheck
<1>8. OnePlaceEach'
  BY <1>2, <1>4, <1>7, Undisturbed DEF IInv
<1>9. NoLostWakeup' /\ CheckerInv'
  BY <1>2, <1>5 DEF IInv, NoLostWakeup, CheckerInv
<1> QED
  BY <1>6, <1>8, <1>9 DEF IInv

Idle == [pc |-> "idle", conn |-> None]

(* A thread gives its connection away: Lose and Return. *)
LEMMA GivesUp ==
  ASSUME TypeOK, OnePlaceEach, NEW t \in Thread, user[t].pc \in {"ping", "use"},
         user' = Put(user, t, Idle)
  PROVE  /\ UserOK(user') /\ Waiting' = Waiting
         /\ user[t].conn \in LentOf(user) /\ user[t].conn \in Conn
         /\ LentOf(user') = LentOf(user) \ {user[t].conn} /\ Alone(user')
<1>1. UserOK(user) /\ user \in UserType /\ user[t].conn # None
  BY TypeParts DEF UserOK
<1>2. StateOK(Idle) /\ Idle.pc = "idle" /\ Idle.conn = None
  BY Params DEF StateOK, UserState, None, Idle
<1>3. UserOK(user') /\ user'[t] = Idle /\ \A v \in Thread \ {t} : user'[v] = user[v]
  BY <1>1, <1>2, Becomes
<1>4. Waiting' = Waiting
  BY <1>2, <1>3 DEF Waiting
<1>5. /\ LentOf(user') = LentOf(user) \ {user[t].conn} /\ Alone(user')
      /\ user[t].conn \in LentOf(user)
  <2>1. Alone(user)
    BY Places
  <2> QED
    BY <1>1, <1>2, <2>1, Takes
<1>6. user[t].conn \in Conn
  BY <1>1, Params DEF UserType, Conn, None
<1> QED
  BY <1>3, <1>4, <1>5, <1>6

LEMMA LoseStep ==
  ASSUME IInv, NEW t \in Thread, Lose(t)
  PROVE  IInv'
<1>1. /\ connections \in Seq(EntryType) /\ UserOK(user) /\ notified \subseteq Waiting
      /\ checker \in CheckerType /\ (checker.pc = "ping" <=> checker.entry # <<>>)
      /\ now \in 0..MaxTime /\ lost \subseteq Conn
  BY TypeParts DEF IInv
<1> DEFINE c == user[t].conn
<1>2. /\ user[t].pc = "ping" /\ lost' = lost \cup {c}
      /\ user' = Put(user, t, Idle)
      /\ connections' = connections /\ notified' = notified
      /\ checker' = checker /\ now' = now
  BY DEF Lose, Put, Idle
<1>3. /\ UserOK(user') /\ Waiting' = Waiting
      /\ c \in LentOf(user) /\ c \in Conn
      /\ LentOf(user') = LentOf(user) \ {c} /\ Alone(user')
  BY <1>2, GivesUp DEF IInv
<1> HIDE DEF c
<1>4. TypeOK'
  BY <1>1, <1>2, <1>3, TypePartsAfter
<1>5. InCheck' = InCheck
  BY <1>2 DEF InCheck
<1>6. /\ Apart(ConnsOf(connections), LentOf(user), InCheck, lost)
      /\ Distinct(connections)
  BY Places DEF IInv
<1>7. Apart(ConnsOf(connections'), LentOf(user'), InCheck', lost')
  BY <1>2, <1>3, <1>5, <1>6 DEF Apart
<1>8. OnePlaceEach'
  BY <1>2, <1>3, <1>6, <1>7, PlacesAfter
<1>9. NoLostWakeup' /\ CheckerInv'
  BY <1>2, <1>3 DEF IInv, NoLostWakeup, CheckerInv
<1> QED
  BY <1>4, <1>8, <1>9 DEF IInv

LEMMA ReturnStep ==
  ASSUME IInv, NEW t \in Thread, Return(t)
  PROVE  IInv'
<1>1. /\ connections \in Seq(EntryType) /\ UserOK(user) /\ notified \subseteq Waiting
      /\ checker \in CheckerType /\ (checker.pc = "ping" <=> checker.entry # <<>>)
      /\ now \in 0..MaxTime /\ lost \subseteq Conn
  BY TypeParts DEF IInv
<1> DEFINE c == user[t].conn
           e == Entry(c, now, now)
           n == Len(connections)
<1>2. /\ user[t].pc = "use" /\ connections' = Append(connections, e)
      /\ user' = Put(user, t, Idle)
      /\ NotifyOne /\ checker' = checker /\ now' = now /\ lost' = lost
  BY DEF Return, Put, Idle
<1>3. /\ UserOK(user') /\ Waiting' = Waiting
      /\ c \in LentOf(user) /\ c \in Conn
      /\ LentOf(user') = LentOf(user) \ {c} /\ Alone(user')
  BY <1>2, GivesUp DEF IInv
<1>4. e \in EntryType /\ e.conn = c
  BY <1>1, <1>3, EntryFacts
<1> HIDE DEF c, e
<1>5. n \in Nat
  BY <1>1, LenProperties
<1>6. /\ connections' \in Seq(EntryType) /\ Len(connections') = n + 1
      /\ \A k \in 1..n : connections'[k] = connections[k]
      /\ connections'[n + 1] = e
  BY <1>1, <1>2, <1>4, AppendProperties
<1>7. notified' \subseteq Waiting' /\ NoLostWakeup'
  BY <1>1, <1>2, <1>3, <1>5, <1>6, Notifies DEF IInv
<1>8. TypeOK'
  BY <1>1, <1>2, <1>3, <1>6, <1>7, TypePartsAfter
<1>9. /\ Apart(ConnsOf(connections), LentOf(user), InCheck, lost)
      /\ Distinct(connections)
  BY Places DEF IInv
<1>10. Distinct(connections') /\ ConnsOf(connections') = ConnsOf(connections) \cup {c}
  <2>1. e.conn \notin ConnsOf(connections)
    BY <1>3, <1>4, <1>9 DEF Apart
  <2>2. With(connections', connections, n + 1, e)
    BY <1>5, <1>6 DEF With
  <2> HIDE DEF n
  <2> QED
    BY <1>1, <1>4, <1>9, <2>1, <2>2, PutIn
<1>11. InCheck' = InCheck
  BY <1>2 DEF InCheck
<1>12. Apart(ConnsOf(connections'), LentOf(user'), InCheck', lost')
  BY <1>2, <1>3, <1>9, <1>10, <1>11 DEF Apart
<1>13. OnePlaceEach'
  BY <1>3, <1>10, <1>12, PlacesAfter
<1>14. CheckerInv'
  BY <1>2 DEF IInv, CheckerInv
<1> QED
  BY <1>7, <1>8, <1>13, <1>14 DEF IInv

-----------------------------------------------------------------------------
(* The check thread. *)

LEMMA AsleepOK ==
  ASSUME now \in 0..MaxTime
  PROVE  /\ Asleep \in CheckerType /\ Asleep.pc = "sleep" /\ Asleep.entry = <<>>
         /\ [Asleep EXCEPT !.pc = "scan", !.i = 1] \in CheckerType
         /\ [Asleep EXCEPT !.pc = "scan", !.i = 1].pc = "scan"
         /\ [Asleep EXCEPT !.pc = "scan", !.i = 1].i = 1
         /\ [Asleep EXCEPT !.pc = "scan", !.i = 1].entry = <<>>
<1> DEFINE x == [Asleep EXCEPT !.pc = "scan", !.i = 1]
<1>1. 0 \in 0..(poolSize + 1) /\ 1 \in 0..(poolSize + 1) /\ 0 \in 0..maxCheckPerRound
  BY Params
<1>2. Asleep \in CheckerType /\ Asleep.pc = "sleep" /\ Asleep.entry = <<>>
  BY <1>1 DEF Asleep, CheckerType
<1>3. x \in CheckerType
  BY <1>1, <1>2 DEF CheckerType
<1>4. x.pc = "scan" /\ x.i = 1 /\ x.entry = <<>>
  BY <1>2 DEF CheckerType
<1> QED
  BY <1>2, <1>3, <1>4

(* A step of the check thread that moves no connection. *)
LEMMA CheckerMoves ==
  ASSUME IInv, checker' \in CheckerType, checker.pc # "ping", checker'.pc # "ping",
         checker'.entry = <<>>, checker'.pc # "sleep" => checker'.i >= 1,
         UNCHANGED <<connections, user, notified, now, lost>>
  PROVE  IInv'
<1>1. /\ connections \in Seq(EntryType) /\ UserOK(user) /\ notified \subseteq Waiting
      /\ now \in 0..MaxTime /\ lost \subseteq Conn
  BY TypeParts DEF IInv
<1>2. Waiting' = Waiting
  BY DEF Waiting
<1>3. TypeOK'
  BY <1>1, <1>2, TypePartsAfter
<1>4. InCheck' = InCheck
  BY DEF InCheck
<1>5. OnePlaceEach'
  BY <1>4, Undisturbed DEF IInv
<1>6. NoLostWakeup' /\ CheckerInv'
  BY <1>2 DEF IInv, NoLostWakeup, CheckerInv
<1> QED
  BY <1>3, <1>5, <1>6 DEF IInv

LEMMA StartRoundStep ==
  ASSUME IInv, StartRound
  PROVE  IInv'
<1>1. now \in 0..MaxTime
  BY TypeParts DEF IInv
<1>2. /\ checker.pc = "sleep" /\ checker' = [Asleep EXCEPT !.pc = "scan", !.i = 1]
      /\ UNCHANGED <<connections, user, notified, now, lost>>
  BY DEF StartRound
<1>3. /\ checker' \in CheckerType /\ checker'.pc = "scan" /\ checker'.i = 1
      /\ checker'.entry = <<>>
  BY <1>1, <1>2, AsleepOK
<1> QED
  BY <1>2, <1>3, CheckerMoves

LEMMA ScanStep ==
  ASSUME IInv, Scan
  PROVE  IInv'
<1>1. /\ connections \in Seq(EntryType) /\ UserOK(user) /\ notified \subseteq Waiting
      /\ checker \in CheckerType /\ (checker.pc = "ping" <=> checker.entry # <<>>)
      /\ now \in 0..MaxTime /\ lost \subseteq Conn
  BY TypeParts DEF IInv
<1> DEFINE i == checker.i
           n == Len(connections)
<1>2. /\ checker.pc = "scan" /\ checker.entry = <<>> /\ i >= 1 /\ i \in Nat
      /\ checker.checked \in Nat
      /\ UNCHANGED <<user, notified, now, lost>>
  <2>1. checker.pc = "scan" /\ UNCHANGED <<user, notified, now, lost>>
    BY DEF Scan
  <2> QED
    BY <1>1, <2>1, Params DEF IInv, CheckerInv, CheckerType
<1>3. /\ Apart(ConnsOf(connections), LentOf(user), InCheck, lost)
      /\ Distinct(connections) /\ Alone(user)
  BY Places DEF IInv
<1>4. n \in Nat /\ n <= poolSize
  BY <1>1, <1>3, Pigeon, LenProperties
<1>5. CASE checker' = Asleep /\ connections' = connections
  <2>1. checker' \in CheckerType /\ checker'.pc = "sleep" /\ checker'.entry = <<>>
    BY <1>1, <1>5, AsleepOK
  <2> QED
    BY <1>2, <1>5, <2>1, CheckerMoves
<1>6. CASE More /\ checker' = [checker EXCEPT !.i = i + 1] /\ connections' = connections
  <2>1. i <= poolSize
    BY <1>2, <1>4, <1>6, Params DEF More
  <2>2. /\ checker' \in CheckerType /\ checker'.pc = "scan" /\ checker'.i = i + 1
        /\ checker'.entry = <<>>
    BY <1>1, <1>2, <1>6, <2>1, Params DEF CheckerType
  <2> QED
    BY <1>2, <1>6, <2>2, CheckerMoves
<1>7. CASE /\ More /\ connections' = RemoveAt(connections, i)
           /\ checker' = [checker EXCEPT !.pc = "ping", !.entry = connections[i]]
  <2>1. i \in 1..n /\ i <= poolSize /\ checker.checked < maxCheckPerRound
    BY <1>2, <1>4, <1>7, Params DEF More
  <2> DEFINE e == connections[i]
  <2>2. Without(connections', connections, i)
    BY <1>1, <1>7, <2>1, RemoveAtFacts DEF Without
  <2>3. Distinct(connections') /\ ConnsOf(connections') = ConnsOf(connections) \ {e.conn}
    BY <1>1, <1>3, <2>2, TakenOut
  <2>4. e \in EntryType
    BY <1>1, <2>1, ElementOfSeq
  <2>5. e # <<>> /\ e.conn \in ConnsOf(connections)
    <3>1. i \in DOMAIN connections
      BY <1>1, <2>1, LenProperties
    <3> QED
      BY <2>4, <3>1, EntryFacts DEF ConnsOf
  <2>6. /\ checker' \in CheckerType /\ checker'.pc = "ping" /\ checker'.i = i
        /\ checker'.checked = checker.checked /\ checker'.entry = e
    <3> HIDE DEF e
    <3>1. checker' = [checker EXCEPT !.pc = "ping", !.entry = e]
      BY <1>7 DEF e
    <3> QED
      BY <1>1, <2>4, <3>1 DEF CheckerType
  <2> HIDE DEF e, i
  <2>7. Waiting' = Waiting
    BY <1>2 DEF Waiting
  <2>8. connections' \in Seq(EntryType) /\ Len(connections') = n - 1
    BY <2>2 DEF Without
  <2>9. TypeOK'
    BY <1>1, <1>2, <2>5, <2>6, <2>7, <2>8, TypePartsAfter
  <2>10. InCheck = {} /\ InCheck' = {e.conn}
    BY <1>2, <2>6 DEF InCheck
  <2>11. Apart(ConnsOf(connections'), LentOf(user'), InCheck', lost')
    BY <1>2, <1>3, <2>3, <2>5, <2>10 DEF Apart
  <2>12. OnePlaceEach'
    BY <1>2, <1>3, <2>3, <2>11, PlacesAfter
  <2>13. NoLostWakeup'
    <3>1. Cardinality(notified) \in Nat
      BY <1>1, Numbers, FS_CardinalityType, FS_Subset, Params DEF Waiting
    <3>2. Waiting \subseteq notified \/ n <= Cardinality(notified)
      BY DEF IInv, NoLostWakeup
    <3> QED
      BY <1>2, <1>4, <2>7, <2>8, <3>1, <3>2 DEF NoLostWakeup
  <2>14. CheckerInv'
    BY <1>2, <2>1, <2>6 DEF CheckerInv, i
  <2> QED
    BY <2>9, <2>12, <2>13, <2>14 DEF IInv
<1> QED
  BY <1>5, <1>6, <1>7 DEF Scan

LEMMA PutBackStep ==
  ASSUME IInv, PutBack
  PROVE  IInv'
<1>1. /\ connections \in Seq(EntryType) /\ UserOK(user) /\ notified \subseteq Waiting
      /\ checker \in CheckerType /\ (checker.pc = "ping" <=> checker.entry # <<>>)
      /\ now \in 0..MaxTime /\ lost \subseteq Conn
  BY TypeParts DEF IInv
<1> DEFINE n == Len(connections)
           place == IF checker.i > n THEN n + 1 ELSE checker.i
           e == [checker.entry EXCEPT !.lastChecked = now]
<1>2. /\ checker.pc = "ping" /\ connections' = InsertAt(connections, place, e)
      /\ NotifyOne /\ UNCHANGED <<user, now, lost>>
      /\ checker' = [checker EXCEPT !.pc = "scan", !.entry = <<>>,
                                    !.checked = @ + 1, !.i = @ + 1]
  BY DEF PutBack
<1>3. /\ checker.entry \in EntryType /\ checker.i \in 1..poolSize
      /\ checker.checked \in 0..(maxCheckPerRound - 1)
  BY <1>1, <1>2, Params DEF IInv, CheckerInv, CheckerType
<1>4. e \in EntryType /\ e.conn = checker.entry.conn
  BY <1>1, <1>3, EntryFacts
<1>5. n \in Nat /\ place \in 1..(n + 1)
  <2>1. n \in Nat
    BY <1>1, LenProperties
  <2> HIDE DEF n
  <2> QED
    BY <1>3, <2>1
<1> HIDE DEF e, place
<1>6. With(connections', connections, place, e)
  BY <1>1, <1>2, <1>4, <1>5, InsertedWith
<1>7. connections' \in Seq(EntryType) /\ Len(connections') = n + 1
  BY <1>6 DEF With
<1>8. Waiting' = Waiting
  BY <1>2 DEF Waiting
<1>9. notified' \subseteq Waiting' /\ NoLostWakeup'
  BY <1>1, <1>2, <1>5, <1>7, <1>8, Notifies DEF IInv
<1>10. /\ checker' \in CheckerType /\ checker'.pc = "scan"
       /\ checker'.i = checker.i + 1 /\ checker'.entry = <<>>
  <2> DEFINE x == checker.i + 1
             y == checker.checked + 1
  <2>1. checker' = [checker EXCEPT !.pc = "scan", !.entry = <<>>, !.checked = y, !.i = x]
    BY <1>1, <1>2 DEF CheckerType
  <2>2. x \in 0..(poolSize + 1) /\ y \in 0..maxCheckPerRound
    BY <1>3, Params
  <2> HIDE DEF x, y
  <2>3. /\ checker' \in CheckerType /\ checker'.pc = "scan" /\ checker'.i = x
        /\ checker'.entry = <<>>
    BY <1>1, <2>1, <2>2 DEF CheckerType
  <2> QED
    BY <2>3 DEF x
<1>11. TypeOK'
  BY <1>1, <1>2, <1>7, <1>9, <1>10, TypePartsAfter
<1>12. InCheck = {e.conn} /\ InCheck' = {}
  BY <1>2, <1>4, <1>10 DEF InCheck
<1>13. /\ Apart(ConnsOf(connections), LentOf(user), InCheck, lost)
       /\ Distinct(connections) /\ Alone(user)
  BY Places DEF IInv
<1>14. Distinct(connections') /\ ConnsOf(connections') = ConnsOf(connections) \cup {e.conn}
  <2>1. e.conn \notin ConnsOf(connections)
    BY <1>12, <1>13 DEF Apart
  <2> QED
    BY <1>1, <1>4, <1>6, <1>13, <2>1, PutIn
<1>15. Apart(ConnsOf(connections'), LentOf(user'), InCheck', lost')
  BY <1>2, <1>12, <1>13, <1>14 DEF Apart
<1>16. OnePlaceEach'
  BY <1>2, <1>13, <1>14, <1>15, PlacesAfter
<1>17. CheckerInv'
  BY <1>3, <1>10 DEF CheckerInv
<1> QED
  BY <1>9, <1>11, <1>16, <1>17 DEF IInv

LEMMA CheckFailsStep ==
  ASSUME IInv, CheckFails
  PROVE  IInv'
<1>1. /\ connections \in Seq(EntryType) /\ UserOK(user) /\ notified \subseteq Waiting
      /\ checker \in CheckerType /\ (checker.pc = "ping" <=> checker.entry # <<>>)
      /\ now \in 0..MaxTime /\ lost \subseteq Conn
  BY TypeParts DEF IInv
<1>2. /\ checker.pc = "ping" /\ checker' = Asleep
      /\ lost' = lost \cup {checker.entry.conn}
      /\ UNCHANGED <<connections, user, notified, now>>
  BY DEF CheckFails
<1>3. checker.entry \in EntryType
  BY <1>1, <1>2 DEF CheckerType
<1>4. checker.entry.conn \in Conn
  BY <1>3, EntryFacts
<1>5. checker' \in CheckerType /\ checker'.pc = "sleep" /\ checker'.entry = <<>>
  BY <1>1, <1>2, AsleepOK
<1>6. Waiting' = Waiting
  BY <1>2 DEF Waiting
<1>7. TypeOK'
  BY <1>1, <1>2, <1>4, <1>5, <1>6, TypePartsAfter
<1>8. InCheck = {checker.entry.conn} /\ InCheck' = {}
  BY <1>2, <1>5 DEF InCheck
<1>9. /\ Apart(ConnsOf(connections), LentOf(user), InCheck, lost)
      /\ Distinct(connections) /\ Alone(user)
  BY Places DEF IInv
<1>10. Apart(ConnsOf(connections'), LentOf(user'), InCheck', lost')
  BY <1>2, <1>8, <1>9 DEF Apart
<1>11. OnePlaceEach'
  BY <1>2, <1>9, <1>10, PlacesAfter
<1>12. NoLostWakeup' /\ CheckerInv'
  BY <1>2, <1>5, <1>6 DEF IInv, NoLostWakeup, CheckerInv
<1> QED
  BY <1>7, <1>11, <1>12 DEF IInv

-----------------------------------------------------------------------------
LEMMA TickStep ==
  ASSUME IInv, now' \in 0..MaxTime,
         UNCHANGED <<connections, user, notified, checker, lost>>
  PROVE  IInv'
<1>1. /\ connections \in Seq(EntryType) /\ UserOK(user) /\ notified \subseteq Waiting
      /\ checker \in CheckerType /\ (checker.pc = "ping" <=> checker.entry # <<>>)
      /\ lost \subseteq Conn
  BY TypeParts DEF IInv
<1>2. Waiting' = Waiting /\ InCheck' = InCheck
  BY DEF Waiting, InCheck
<1>3. TypeOK'
  BY <1>1, <1>2, TypePartsAfter
<1>4. OnePlaceEach'
  BY <1>2, Undisturbed DEF IInv
<1>5. NoLostWakeup' /\ CheckerInv'
  BY <1>2 DEF IInv, NoLostWakeup, CheckerInv
<1> QED
  BY <1>3, <1>4, <1>5 DEF IInv

LEMMA NextIInv == IInv /\ [Next]_vars => IInv'
<1> SUFFICES ASSUME IInv, [Next]_vars PROVE IInv'
  OBVIOUS
<1>1. now \in 0..MaxTime /\ notified \subseteq Waiting
  BY TypeParts DEF IInv
<1>2. CASE UNCHANGED vars
  BY <1>1, <1>2, TickStep DEF vars
<1>3. ASSUME NEW t \in Thread, Ask(t) PROVE IInv'
  BY <1>3, AskStep
<1>4. ASSUME NEW t \in Thread, Wake(t) PROVE IInv'
  <2>1. user[t].pc = "wait"
    BY <1>1, <1>4 DEF Wake, Waiting
  <2> QED
    BY <1>4, <2>1, LooksStep DEF Wake
<1>5. ASSUME NEW t \in Thread, TimeOut(t) PROVE IInv'
  <2>1. /\ user[t].pc = "wait" /\ notified' = notified \ {t}
        /\ checker' = checker /\ now' = now /\ lost' = lost
    BY <1>5 DEF TimeOut
  <2>2. \/ TakeLast(t)
        \/ /\ connections = <<>> /\ connections' = connections
           /\ user' = [user EXCEPT ![t].pc = "idle"]
    BY <1>5, Zenon DEF TimeOut
  <2> QED
    BY <2>1, <2>2, LooksStep
<1>6. ASSUME NEW t \in Thread, Obtain(t) \/ Lose(t) \/ Return(t) PROVE IInv'
  BY <1>6, ObtainStep, LoseStep, ReturnStep
<1>7. CASE Check
  BY <1>7, StartRoundStep, ScanStep, PutBackStep, CheckFailsStep DEF Check
<1>8. CASE Tick
  <2>1. now' \in 0..MaxTime
    BY <1>1, <1>8, Params DEF Tick
  <2> QED
    BY <1>8, <2>1, TickStep DEF Tick
<1> QED
  BY <1>2, <1>3, <1>4, <1>5, <1>6, <1>7, <1>8 DEF Next, Finish

LEMMA Invariance == Spec => []IInv
<1>1. Init => IInv
  BY InitIInv
<1>2. IInv /\ [Next]_vars => IInv'
  BY NextIInv
<1> QED
  BY <1>1, <1>2, PTL DEF Spec

(* The deque holds entries of known connections, a notified thread is a    *)
(* waiting one, and the check thread's index and count stay in bounds.     *)
THEOREM TypeCorrect == Spec => []TypeOK
<1>1. IInv => TypeOK
  BY DEF IInv
<1> QED
  BY <1>1, Invariance, PTL

(* No connection is handed out twice, forgotten or left in the deque while *)
(* it is pinged or used: getConnection(), returnConnection() and the check *)
(* thread keep every one at one place.                                     *)
THEOREM OnePlace == Spec => []OnePlaceEach
<1>1. IInv => OnePlaceEach
  BY DEF IInv
<1> QED
  BY <1>1, Invariance, PTL

(* A connection that comes back while a thread waits always has a notified *)
(* thread on its way to it: no order of notify_one, timeouts and threads   *)
(* that barge in loses a wake-up.                                          *)
THEOREM WakeupsKept == Spec => []NoLostWakeup
<1>1. IInv => NoLostWakeup
  BY DEF IInv
<1> QED
  BY <1>1, Invariance, PTL
=============================================================================

--------------------------- MODULE ConversationProofs ---------------------------
(***************************************************************************)
(* Proofs about Conversation, for every number of threads, sessions,       *)
(* consumers, requests and faults.  The first half is about the rows and   *)
(* the queue, the second about the helpers and the requests; the only      *)
(* thing they share is which sessions were erased.  The last part is about *)
(* one helper in detail, Answering: what it remembers, sends and runs, and *)
(* what it makes of a stream, for every configuration, reply and stream.   *)
(***************************************************************************)
EXTENDS Conversation, Answering, FiniteSetTheorems, SequenceTheorems, TLAPS

(* A sequence, of whatever its elements are. *)
IsSeq(m) == Len(m) \in Nat /\ m = [i \in 1..Len(m) |-> m[i]]

LEMMA EmptyIsSeq == IsSeq(<<>>) /\ Len(<<>>) = 0
BY DEF IsSeq

LEMMA AppendIs ==
  ASSUME NEW m, IsSeq(m), NEW x
  PROVE  /\ IsSeq(Append(m, x)) /\ Len(Append(m, x)) = Len(m) + 1
         /\ \A i \in 1..Len(m) : Append(m, x)[i] = m[i]
         /\ Append(m, x)[Len(m) + 1] = x
<1> DEFINE S == {m[i] : i \in 1..Len(m)} \cup {x}
<1>1. m \in [1..Len(m) -> S]
  BY DEF IsSeq
<1>2. m \in Seq(S) /\ x \in S
  BY <1>1 DEF IsSeq
<1> HIDE DEF S
<1>3. /\ Append(m, x) \in Seq(S) /\ Len(Append(m, x)) = Len(m) + 1
      /\ \A i \in 1..Len(m) : Append(m, x)[i] = m[i]
      /\ Append(m, x)[Len(m) + 1] = x
  BY <1>2, AppendProperties
<1>4. \A q \in Seq(S) : IsSeq(q)
  BY LenProperties DEF IsSeq
<1> QED
  BY <1>3, <1>4

LEMMA LeastNat ==
  ASSUME NEW T \in SUBSET Nat, T # {}
  PROVE  \E x \in T : \A y \in T : x <= y
<1> DEFINE R == OpToRel(<, Nat)
<1>1. IsWellFoundedOn(R, Nat)
  BY NatLessThanWellFounded
<1>2. \A x, y \in Nat : x < y => <<x, y>> \in R
  BY DEF OpToRel
<1> HIDE DEF R
<1>3. PICK x \in T : \A y \in T : ~(<<y, x>> \in R)
  BY <1>1, WFMin
<1>4. ASSUME NEW y \in T PROVE x <= y
  <2>1. x \in Nat /\ y \in Nat
    OBVIOUS
  <2>2. ~(y < x)
    BY <2>1, <1>2, <1>3, Zenon
  <2> QED
    BY <2>1, <2>2
<1> QED
  BY <1>4

LEMMA LeastIsIn ==
  ASSUME NEW S, S \subseteq Nat, S # {}
  PROVE  Min(S) \in S
BY LeastNat DEF Min

-----------------------------------------------------------------------------
(* The rows and the queue. *)
QueueInv ==
  /\ published \in Nat
  /\ ready \subseteq 1..published /\ poison \subseteq 1..published
  /\ hand \in [Worker -> 0..published]
  /\ written \in [Worker -> BOOLEAN]
  /\ stored \in [1..published -> Nat]
  /\ faults \in Nat

RowInv == IsSeq(row) /\ Len(row) = published

(* A handler that has returned has a statement, whose row is there. *)
HandledIsStored ==
  \A w \in Worker : written[w] =>
    /\ hand[w] # 0
    /\ stored[hand[w]] > 0 \/ row[hand[w]].session \in erased

(* Without a fault a statement is in one place, and written once. *)
OnePlaceWhenCalm ==
  faults = 0 =>
    /\ \A n \in 1..published : stored[n] <= 1
    /\ \A n \in ready : stored[n] = 0
    /\ \A w \in Worker : hand[w] # 0 =>
         /\ hand[w] \notin ready
         /\ written[w] \/ stored[hand[w]] = 0
         /\ written[w] => hand[w] \notin poison
         /\ \A v \in Worker : hand[v] = hand[w] => v = w

StoreInv ==
  QueueInv /\ RowInv /\ HandledIsStored /\ OnePlaceWhenCalm /\ NothingLost

svars == <<pvars, row, erased>>

LEMMA StoreInit ==
  ASSUME Init  PROVE  StoreInv
<1>1. published = 0 /\ ready = {} /\ poison = {} /\ faults = 0 /\ stored = <<>>
      /\ row = <<>> /\ hand = [w \in Worker |-> 0] /\ written = [w \in Worker |-> FALSE]
  BY DEF Init, PInit
<1>2. 1..0 = {} /\ stored \in [1..0 -> Nat]
  BY <1>1
<1>3. QueueInv
  BY <1>1, <1>2 DEF QueueInv
<1>4. RowInv
  BY <1>1, EmptyIsSeq DEF RowInv
<1>5. HandledIsStored /\ OnePlaceWhenCalm
  BY <1>1, <1>2 DEF HandledIsStored, OnePlaceWhenCalm
<1>6. NothingLost
  BY <1>1, <1>2 DEF NothingLost
<1> QED
  BY <1>3, <1>4, <1>5, <1>6 DEF StoreInv

LEMMA StoreStutters ==
  ASSUME StoreInv, UNCHANGED svars
  PROVE  StoreInv'
BY DEF StoreInv, svars, pvars, QueueInv, RowInv, HandledIsStored, OnePlaceWhenCalm,
       NothingLost, InHand, Stored

LEMMA PublishedKeeps ==
  ASSUME StoreInv, NEW t \in Thread, NEW role, Published(t, role), UNCHANGED erased
  PROVE  StoreInv'
<1> DEFINE new == published + 1
<1>1. PICK r : row' = Append(row, r)
  BY DEF Published
<1>2. /\ published' = new /\ ready' = ready \cup {new}
      /\ poison' \subseteq poison \cup {new} /\ poison \subseteq poison'
      /\ stored' = [n \in 1..new |-> IF n <= published THEN stored[n] ELSE 0]
      /\ UNCHANGED <<hand, written, faults, erased>>
  BY DEF Published, Publish
<1>3. published \in Nat /\ new \in Nat /\ 1..new = (1..published) \cup {new}
      /\ new \notin 1..published
  BY DEF StoreInv, QueueInv
<1>4. QueueInv'
  BY <1>2, <1>3 DEF StoreInv, QueueInv
<1>5. /\ IsSeq(row') /\ Len(row') = new
      /\ \A n \in 1..published : row'[n] = row[n]
  BY <1>1, AppendIs DEF StoreInv, RowInv
<1>6. RowInv'
  BY <1>2, <1>5 DEF RowInv
<1>7. /\ \A n \in 1..published : stored'[n] = stored[n]
      /\ stored'[new] = 0
  BY <1>2, <1>3
<1>8. \A w \in Worker : hand[w] # 0 => hand[w] \in 1..published
  BY <1>3 DEF StoreInv, QueueInv
<1> HIDE DEF new
<1>9. HandledIsStored'
  BY <1>2, <1>5, <1>7, <1>8 DEF StoreInv, HandledIsStored
<1>10. OnePlaceWhenCalm'
  <2>1. \A n \in ready : n \in 1..published
    BY DEF StoreInv, QueueInv
  <2> QED
    BY <1>2, <1>3, <1>7, <1>8, <2>1 DEF StoreInv, OnePlaceWhenCalm
<1>11. NothingLost'
  <2> SUFFICES ASSUME NEW n \in 1..new
               PROVE  n \in ready' \cup InHand' \cup Stored' \/ row'[n].session \in erased'
    BY <1>2 DEF NothingLost
  <2>1. CASE n = new
    BY <2>1, <1>2
  <2>2. CASE n \in 1..published
    <3>1. n \in ready \cup InHand \cup Stored \/ row[n].session \in erased
      BY <2>2 DEF StoreInv, NothingLost
    <3>2. InHand' = InHand
      BY <1>2 DEF InHand
    <3>3. n \in Stored => n \in Stored'
      BY <2>2, <1>2, <1>7 DEF Stored
    <3> QED
      BY <3>1, <3>2, <3>3, <2>2, <1>2, <1>5
  <2> QED
    BY <2>1, <2>2, <1>3
<1> QED
  BY <1>4, <1>6, <1>9, <1>10, <1>11 DEF StoreInv

LEMMA FaultKeeps ==
  ASSUME StoreInv, NEW t \in Thread, PublishFails(t)
  PROVE  StoreInv'
<1>1. /\ UNCHANGED <<published, poison, ready, hand, written, stored, row, erased>>
      /\ faults' = faults + 1
  BY DEF PublishFails
<1>2. faults \in Nat
  BY DEF StoreInv, QueueInv
<1>3. QueueInv' /\ RowInv' /\ HandledIsStored' /\ NothingLost'
  BY <1>1, <1>2 DEF StoreInv, QueueInv, RowInv, HandledIsStored, NothingLost, InHand,
                    Stored
<1>4. OnePlaceWhenCalm'
  BY <1>1, <1>2 DEF OnePlaceWhenCalm
<1> QED
  BY <1>3, <1>4 DEF StoreInv

LEMMA DeleteKeeps ==
  ASSUME StoreInv, NEW t \in Thread, NEW s \in Session, DeleteRows(t, s)
  PROVE  StoreInv'
<1>1. /\ stored' = [n \in 1..published |-> IF row[n].session = s THEN 0 ELSE stored[n]]
      /\ erased' = erased \cup {s}
      /\ UNCHANGED <<published, poison, ready, hand, written, faults, row>>
  BY DEF DeleteRows
<1>2. /\ published \in Nat /\ stored \in [1..published -> Nat]
      /\ \A w \in Worker : hand[w] # 0 => hand[w] \in 1..published
      /\ ready \subseteq 1..published
  BY DEF StoreInv, QueueInv
<1>3. \A n \in 1..published :
        \/ stored'[n] = stored[n]
        \/ stored'[n] = 0 /\ row[n].session \in erased'
  BY <1>1
<1>4. QueueInv' /\ RowInv'
  BY <1>1, <1>2 DEF StoreInv, QueueInv, RowInv
<1>5. HandledIsStored'
  BY <1>1, <1>2, <1>3 DEF StoreInv, HandledIsStored
<1>6. OnePlaceWhenCalm'
  <2>1. \A n \in 1..published : stored'[n] = stored[n] \/ stored'[n] = 0
    BY <1>3
  <2> QED
    BY <1>1, <1>2, <2>1 DEF StoreInv, OnePlaceWhenCalm
<1>7. NothingLost'
  <2> SUFFICES ASSUME NEW n \in 1..published
               PROVE  n \in ready' \cup InHand' \cup Stored' \/ row'[n].session \in erased'
    BY <1>1 DEF NothingLost
  <2>1. n \in ready \cup InHand \cup Stored \/ row[n].session \in erased
    BY DEF StoreInv, NothingLost
  <2>2. InHand' = InHand
    BY <1>1 DEF InHand
  <2>3. n \in Stored => n \in Stored' \/ row[n].session \in erased'
    BY <1>1, <1>3 DEF Stored
  <2> QED
    BY <2>1, <2>2, <2>3, <1>1
<1> QED
  BY <1>4, <1>5, <1>6, <1>7 DEF StoreInv

-----------------------------------------------------------------------------
(* The consumers. *)
LEMMA FetchKeeps ==
  ASSUME StoreInv, NEW w \in Worker, Fetch(w), UNCHANGED <<row, erased>>
  PROVE  StoreInv'
<1>1. PICK k : k = Min(ready)
  OBVIOUS
<1>2. /\ hand[w] = 0 /\ hand' = [hand EXCEPT ![w] = k] /\ ready' = ready \ {k}
      /\ UNCHANGED <<published, poison, written, stored, faults, row, erased>>
  BY <1>1 DEF Fetch
<1>3. /\ published \in Nat /\ ready \subseteq 1..published
      /\ hand \in [Worker -> 0..published]
  BY DEF StoreInv, QueueInv
<1>4. k \in ready
  <2>1. ready # {} /\ ready \subseteq Nat
    BY <1>3 DEF Fetch
  <2> QED
    BY <2>1, <1>1, LeastIsIn
<1>5. k \in 1..published /\ k # 0
  BY <1>3, <1>4
<1>6. \A v \in Worker : hand'[v] = IF v = w THEN k ELSE hand[v]
  BY <1>2, <1>3
<1>7. ~written[w]
  BY <1>2 DEF StoreInv, HandledIsStored
<1>8. QueueInv' /\ RowInv'
  BY <1>2, <1>3, <1>5 DEF StoreInv, QueueInv, RowInv
<1>9. HandledIsStored'
  BY <1>2, <1>6, <1>7 DEF StoreInv, HandledIsStored
<1>10. OnePlaceWhenCalm'
  BY <1>2, <1>4, <1>5, <1>6, <1>7 DEF StoreInv, OnePlaceWhenCalm
<1>11. NothingLost'
  <2> SUFFICES ASSUME NEW n \in 1..published
               PROVE  n \in ready' \cup InHand' \cup Stored' \/ row'[n].session \in erased'
    BY <1>2 DEF NothingLost
  <2>1. n \in ready \cup InHand \cup Stored \/ row[n].session \in erased
    BY DEF StoreInv, NothingLost
  <2>2. k \in InHand' /\ InHand \subseteq InHand'
    BY <1>2, <1>5, <1>6 DEF InHand
  <2>3. Stored' = Stored
    BY <1>2 DEF Stored
  <2> QED
    BY <2>1, <2>2, <2>3, <1>2
<1> QED
  BY <1>8, <1>9, <1>10, <1>11 DEF StoreInv

LEMMA ExecuteKeeps ==
  ASSUME StoreInv, NEW w \in Worker, Execute(w), UNCHANGED <<row, erased>>
  PROVE  StoreInv'
<1>1. PICK k : k = hand[w]
  OBVIOUS
<1>2. /\ k # 0 /\ k \notin poison /\ ~written[w]
      /\ stored' = [stored EXCEPT ![k] = stored[k] + 1]
      /\ written' = [written EXCEPT ![w] = TRUE]
      /\ UNCHANGED <<published, poison, ready, hand, faults, row, erased>>
  BY <1>1 DEF Execute
<1>3. /\ published \in Nat /\ stored \in [1..published -> Nat]
      /\ written \in [Worker -> BOOLEAN]
      /\ \A v \in Worker : hand[v] # 0 => hand[v] \in 1..published
      /\ ready \subseteq 1..published
  BY DEF StoreInv, QueueInv
<1>4. k \in 1..published /\ stored[k] \in Nat
  BY <1>1, <1>2, <1>3
<1>5. \A n \in 1..published : stored'[n] = IF n = k THEN stored[k] + 1 ELSE stored[n]
  BY <1>2, <1>3
<1>6. \A v \in Worker : written'[v] = IF v = w THEN TRUE ELSE written[v]
  BY <1>2, <1>3
<1>7. QueueInv' /\ RowInv'
  BY <1>2, <1>3, <1>4 DEF StoreInv, QueueInv, RowInv
<1>8. \A n \in 1..published : stored[n] > 0 => stored'[n] > 0
  BY <1>3, <1>4, <1>5
<1>9. stored'[k] > 0
  BY <1>4, <1>5
<1>10. HandledIsStored'
  BY <1>1, <1>2, <1>3, <1>6, <1>8, <1>9 DEF StoreInv, HandledIsStored
<1>11. OnePlaceWhenCalm'
  <2> SUFFICES ASSUME faults = 0
               PROVE  OnePlaceWhenCalm'
    BY <1>2 DEF OnePlaceWhenCalm
  <2>1. stored[k] = 0 /\ k \notin ready
    BY <1>1, <1>2 DEF StoreInv, OnePlaceWhenCalm
  <2>2. \A n \in 1..published : stored'[n] <= 1
    BY <2>1, <1>5 DEF StoreInv, OnePlaceWhenCalm
  <2>3. \A n \in ready : stored'[n] = 0
    BY <2>1, <1>3, <1>5 DEF StoreInv, OnePlaceWhenCalm
  <2>4. \A v \in Worker : hand[v] # 0 =>
          /\ hand[v] \notin ready
          /\ written'[v] \/ stored'[hand[v]] = 0
          /\ written'[v] => hand[v] \notin poison
          /\ \A u \in Worker : hand[u] = hand[v] => u = v
    BY <1>1, <1>2, <1>3, <1>5, <1>6 DEF StoreInv, OnePlaceWhenCalm
  <2> QED
    BY <2>2, <2>3, <2>4, <1>2 DEF OnePlaceWhenCalm
<1>12. NothingLost'
  <2>1. InHand' = InHand
    BY <1>2 DEF InHand
  <2>2. Stored \subseteq Stored'
    BY <1>2, <1>8 DEF Stored
  <2> QED
    BY <2>1, <2>2, <1>2 DEF StoreInv, NothingLost
<1> QED
  BY <1>7, <1>10, <1>11, <1>12 DEF StoreInv

LEMMA AcknowledgeKeeps ==
  ASSUME StoreInv, NEW w \in Worker, Acknowledge(w), UNCHANGED <<row, erased>>
  PROVE  StoreInv'
<1>1. /\ written[w]
      /\ hand' = [hand EXCEPT ![w] = 0] /\ written' = [written EXCEPT ![w] = FALSE]
      /\ UNCHANGED <<published, poison, ready, stored, faults, row, erased>>
  BY DEF Acknowledge
<1>2. /\ published \in Nat /\ hand \in [Worker -> 0..published]
      /\ written \in [Worker -> BOOLEAN]
  BY DEF StoreInv, QueueInv
<1>3. \A v \in Worker : /\ hand'[v] = IF v = w THEN 0 ELSE hand[v]
                        /\ written'[v] = IF v = w THEN FALSE ELSE written[v]
  BY <1>1, <1>2
<1>4. QueueInv' /\ RowInv'
  BY <1>1, <1>2 DEF StoreInv, QueueInv, RowInv
<1>5. HandledIsStored'
  BY <1>1, <1>3 DEF StoreInv, HandledIsStored
<1>6. OnePlaceWhenCalm'
  <2> SUFFICES ASSUME faults = 0
               PROVE  OnePlaceWhenCalm'
    BY <1>1 DEF OnePlaceWhenCalm
  <2>1. /\ \A n \in 1..published : stored[n] <= 1
        /\ \A n \in ready : stored[n] = 0
    BY DEF StoreInv, OnePlaceWhenCalm
  <2>2. \A v \in Worker : hand'[v] # 0 =>
          v # w /\ hand'[v] = hand[v] /\ written'[v] = written[v] /\ hand[v] # 0
    BY <1>3
  <2>3. \A v \in Worker : hand[v] # 0 =>
          /\ hand[v] \notin ready
          /\ written[v] \/ stored[hand[v]] = 0
          /\ written[v] => hand[v] \notin poison
          /\ \A u \in Worker : hand[u] = hand[v] => u = v
    BY DEF StoreInv, OnePlaceWhenCalm
  <2>4. \A v \in Worker : hand'[v] # 0 =>
          /\ hand'[v] \notin ready
          /\ written'[v] \/ stored[hand'[v]] = 0
          /\ written'[v] => hand'[v] \notin poison
          /\ \A u \in Worker : hand'[u] = hand'[v] => u = v
    BY <2>2, <2>3
  <2> QED
    BY <2>1, <2>4, <1>1 DEF OnePlaceWhenCalm
<1>7. NothingLost'
  <2> SUFFICES ASSUME NEW n \in 1..published
               PROVE  n \in ready \cup InHand' \cup Stored \/ row[n].session \in erased
    BY <1>1 DEF NothingLost, Stored
  <2>1. n \in ready \cup InHand \cup Stored \/ row[n].session \in erased
    BY DEF StoreInv, NothingLost
  <2>2. CASE n \in InHand
    <3>1. PICK v \in Worker : hand[v] = n /\ n # 0
      BY <2>2 DEF InHand
    <3>2. CASE v = w
      BY <3>1, <3>2, <1>1 DEF StoreInv, HandledIsStored, Stored
    <3>3. CASE v # w
      BY <3>1, <3>3, <1>3 DEF InHand
    <3> QED
      BY <3>2, <3>3
  <2> QED
    BY <2>1, <2>2
<1> QED
  BY <1>4, <1>5, <1>6, <1>7 DEF StoreInv

(* What a worker that ends was at is in the queue again. *)
LEMMA ExitKeeps ==
  ASSUME StoreInv, NEW w \in Worker, Exit(w), UNCHANGED <<row, erased>>,
         faults' \in Nat,
         faults' = 0 => faults = 0 /\ hand[w] # 0 /\ ~written[w]
  PROVE  StoreInv'
<1>1. PICK k : k = hand[w]
  OBVIOUS
<1>2. /\ hand' = [hand EXCEPT ![w] = 0] /\ written' = [written EXCEPT ![w] = FALSE]
      /\ ready' = ready \cup ({k} \ {0})
      /\ UNCHANGED <<published, poison, stored, row, erased>>
  BY <1>1 DEF Exit
<1>3. /\ published \in Nat /\ hand \in [Worker -> 0..published]
      /\ written \in [Worker -> BOOLEAN] /\ k \in 0..published
  BY <1>1 DEF StoreInv, QueueInv
<1>4. \A v \in Worker : /\ hand'[v] = IF v = w THEN 0 ELSE hand[v]
                        /\ written'[v] = IF v = w THEN FALSE ELSE written[v]
  BY <1>2, <1>3
<1>5. QueueInv' /\ RowInv'
  BY <1>2, <1>3 DEF StoreInv, QueueInv, RowInv
<1>6. HandledIsStored'
  BY <1>2, <1>4 DEF StoreInv, HandledIsStored
<1>7. OnePlaceWhenCalm'
  <2> SUFFICES ASSUME faults' = 0
               PROVE  OnePlaceWhenCalm'
    BY DEF OnePlaceWhenCalm
  <2>1. faults = 0 /\ k # 0 /\ ~written[w]
    BY <1>1
  <2>2. stored[k] = 0 /\ \A v \in Worker : hand[v] = k => v = w
    BY <2>1, <1>1 DEF StoreInv, OnePlaceWhenCalm
  <2>3. /\ \A n \in 1..published : stored[n] <= 1
        /\ \A n \in ready' : stored[n] = 0
    BY <2>1, <2>2, <1>2 DEF StoreInv, OnePlaceWhenCalm
  <2>4. \A v \in Worker : hand'[v] # 0 =>
          v # w /\ hand'[v] = hand[v] /\ written'[v] = written[v] /\ hand[v] # 0
    BY <1>4
  <2>5. \A v \in Worker : hand[v] # 0 =>
          /\ hand[v] \notin ready
          /\ written[v] \/ stored[hand[v]] = 0
          /\ written[v] => hand[v] \notin poison
          /\ \A u \in Worker : hand[u] = hand[v] => u = v
    BY <2>1 DEF StoreInv, OnePlaceWhenCalm
  <2>6. \A v \in Worker : hand'[v] # 0 =>
          /\ hand'[v] \notin ready'
          /\ written'[v] \/ stored[hand'[v]] = 0
          /\ written'[v] => hand'[v] \notin poison
          /\ \A u \in Worker : hand'[u] = hand'[v] => u = v
    <3> SUFFICES ASSUME NEW v \in Worker, hand'[v] # 0
                 PROVE  /\ hand'[v] \notin ready'
                        /\ written'[v] \/ stored[hand'[v]] = 0
                        /\ written'[v] => hand'[v] \notin poison
                        /\ \A u \in Worker : hand'[u] = hand'[v] => u = v
      OBVIOUS
    <3>1. v # w /\ hand'[v] = hand[v] /\ written'[v] = written[v] /\ hand[v] # 0
      BY <2>4
    <3>2. hand[v] \notin ready' /\ hand[v] # k
      BY <3>1, <2>2, <2>5, <1>2
    <3> QED
      BY <3>1, <3>2, <2>4, <2>5
  <2> QED
    BY <2>3, <2>6, <1>2 DEF OnePlaceWhenCalm
<1>8. NothingLost'
  <2> SUFFICES ASSUME NEW n \in 1..published
               PROVE  n \in ready' \cup InHand' \cup Stored \/ row[n].session \in erased
    BY <1>2 DEF NothingLost, Stored
  <2>1. n \in ready \cup InHand \cup Stored \/ row[n].session \in erased
    BY DEF StoreInv, NothingLost
  <2>2. CASE n \in InHand
    <3>1. PICK v \in Worker : hand[v] = n /\ n # 0
      BY <2>2 DEF InHand
    <3> QED
      BY <3>1, <1>1, <1>2, <1>4 DEF InHand
  <2> QED
    BY <2>1, <2>2, <1>2
<1> QED
  BY <1>5, <1>6, <1>7, <1>8 DEF StoreInv

LEMMA ConsumersKeep ==
  ASSUME StoreInv, Background
  PROVE  StoreInv'
<1>1. PICK w \in Worker : Consume(w) \/ Break(w)
  BY DEF Background
<1>2. UNCHANGED <<row, erased>> /\ faults \in Nat
  BY DEF Background, cvars, StoreInv, QueueInv
<1>3. CASE Fetch(w)
  BY <1>2, <1>3, FetchKeeps
<1>4. CASE Execute(w)
  BY <1>2, <1>4, ExecuteKeeps
<1>5. CASE Acknowledge(w)
  BY <1>2, <1>5, AcknowledgeKeeps
<1>6. CASE Reject(w)
  <2>1. Exit(w) /\ faults' = faults /\ hand[w] \in poison
    BY <1>6 DEF Reject
  <2>2. hand[w] # 0
    BY <2>1 DEF StoreInv, QueueInv
  <2>3. faults = 0 => ~written[w]
    BY <2>1, <2>2 DEF StoreInv, OnePlaceWhenCalm
  <2> QED
    BY <2>1, <2>2, <2>3, <1>2, ExitKeeps
<1>7. CASE Break(w)
  <2>1. Exit(w) /\ faults' = faults + 1
    BY <1>7 DEF Break
  <2> QED
    BY <2>1, <1>2, ExitKeeps
<1> QED
  BY <1>1, <1>3, <1>4, <1>5, <1>6, <1>7 DEF Consume

LEMMA CrashKeeps ==
  ASSUME StoreInv, PCrash, UNCHANGED <<row, erased>>
  PROVE  StoreInv'
<1>1. /\ faults' = faults + 1 /\ ready' = ready \cup InHand
      /\ hand' = [w \in Worker |-> 0] /\ written' = [w \in Worker |-> FALSE]
      /\ UNCHANGED <<published, poison, stored, row, erased>>
  BY DEF PCrash
<1>2. published \in Nat /\ faults \in Nat /\ InHand \subseteq 1..published
  BY DEF StoreInv, QueueInv, InHand
<1>3. QueueInv' /\ RowInv'
  BY <1>1, <1>2 DEF StoreInv, QueueInv, RowInv
<1>4. HandledIsStored'
  BY <1>1 DEF HandledIsStored
<1>5. OnePlaceWhenCalm'
  BY <1>1, <1>2 DEF OnePlaceWhenCalm
<1>6. NothingLost'
  BY <1>1 DEF StoreInv, NothingLost, Stored
<1> QED
  BY <1>3, <1>4, <1>5, <1>6 DEF StoreInv

-----------------------------------------------------------------------------
(* The helpers and the requests. *)
Shaped(r) ==
  r = [pc |-> r.pc, session |-> r.session, helper |-> r.helper, turn |-> r.turn,
       replied |-> r.replied]

TasksInv ==
  /\ task = [t \in Thread |-> task[t]]
  /\ \A t \in Thread : Shaped(task[t]) /\ (task[t] = Idle \/ task[t].session \in Session)
  /\ ~up => \A t \in Thread : task[t] = Idle

HelpersInv ==
  /\ IsSeq(helpers)
  /\ \A h \in 1..Len(helpers) :
       /\ helpers[h] = [owner |-> helpers[h].owner, messages |-> helpers[h].messages]
       /\ IsSeq(helpers[h].messages)
  /\ chatInformation \in [Session -> 0..Len(helpers)]

Apart == {"idle", "drop", "unlist"}

Holding == {t \in Thread : task[t].pc \notin Apart \cup {"wait", "read"}}

(* Whoever is past the head of chat() has the helper's mutex, *)
MutexHeld ==
  /\ \A t \in Thread : task[t].pc \notin Apart => task[t].helper \in 1..Len(helpers)
  /\ \A t \in Holding : Owner(t) = t

Asks(m, turn) == Len(m) > 0 /\ m[Len(m)] = [role |-> "user", turn |-> turn]

(* so that its question is still the last when the answer comes. *)
QuestionIsLast ==
  \A t \in Thread : task[t].pc \in {"stream", "answer"} =>
    Asks(helpers[task[t].helper].messages, task[t].turn)

(* Who takes a helper out of the map has erased the rows before. *)
ErasedFirst ==
  \A t \in Thread : task[t].pc = "drop" => task[t].session \in erased

HelperInv ==
  /\ TasksInv /\ HelpersInv /\ MutexHeld /\ QuestionIsLast /\ ErasedFirst
  /\ AnswersFollowQuestions /\ OneHelperPerSession

Follows(m) ==
  \A i \in 1..Len(m) :
    m[i].role = "ai" /\ m[i].turn > 0 =>
      i > 1 /\ m[i - 1] = [role |-> "user", turn |-> m[i].turn]

LEMMA AnswersFollow ==
  AnswersFollowQuestions <=> \A h \in 1..Len(helpers) : Follows(helpers[h].messages)
BY DEF AnswersFollowQuestions, Follows

LEMMA FollowsAppend ==
  ASSUME NEW m, IsSeq(m), Follows(m), NEW x,
         x.role = "ai" => Asks(m, x.turn)
  PROVE  Follows(Append(m, x))
<1> DEFINE a == Append(m, x)
<1>1. /\ Len(a) = Len(m) + 1 /\ a[Len(m) + 1] = x
      /\ \A i \in 1..Len(m) : a[i] = m[i]
  BY AppendIs
<1>2. Len(m) \in Nat
  BY DEF IsSeq
<1> HIDE DEF a
<1> SUFFICES ASSUME NEW i \in 1..Len(a), a[i].role = "ai", a[i].turn > 0
             PROVE  i > 1 /\ a[i - 1] = [role |-> "user", turn |-> a[i].turn]
  BY DEF Follows, a
<1>3. CASE i = Len(m) + 1
  <2>1. Len(m) > 0 /\ m[Len(m)] = [role |-> "user", turn |-> x.turn]
    BY <1>1, <1>3 DEF Asks
  <2>2. i > 1 /\ i - 1 = Len(m) /\ Len(m) \in 1..Len(m)
    BY <1>2, <1>3, <2>1
  <2> QED
    BY <2>1, <2>2, <1>1, <1>3
<1>4. CASE i \in 1..Len(m)
  <2>1. i > 1 /\ m[i - 1] = [role |-> "user", turn |-> m[i].turn]
    BY <1>1, <1>4 DEF Follows
  <2>2. i - 1 \in 1..Len(m)
    BY <2>1, <1>2, <1>4
  <2> QED
    BY <2>1, <2>2, <1>1, <1>4
<1> QED
  BY <1>1, <1>2, <1>3, <1>4

LEMMA TabulatedIsSeq ==
  ASSUME NEW n \in Nat, NEW f, f = [i \in 1..n |-> f[i]]
  PROVE  IsSeq(f) /\ Len(f) = n
<1> DEFINE S == {f[i] : i \in 1..n}
<1>1. f \in [1..n -> S]
  OBVIOUS
<1>2. f \in Seq(S)
  BY <1>1
<1>3. Len(f) \in Nat /\ DOMAIN f = 1..Len(f)
  BY <1>2, LenProperties
<1>4. Len(f) = n
  BY <1>1, <1>3
<1> QED
  BY <1>4 DEF IsSeq

LEMMA HelpersInit ==
  ASSUME Init  PROVE  HelperInv
<1>1. /\ task = [t \in Thread |-> Idle] /\ helpers = <<>> /\ up = TRUE
      /\ chatInformation = [s \in Session |-> 0]
  BY DEF Init, PInit
<1>2. TasksInv
  BY <1>1 DEF TasksInv, Shaped, Idle
<1>3. Len(helpers) = 0 /\ IsSeq(helpers) /\ 1..0 = {}
  BY <1>1, EmptyIsSeq
<1>4. HelpersInv
  BY <1>1, <1>3 DEF HelpersInv
<1>5. \A t \in Thread : task[t].pc = "idle"
  BY <1>1 DEF Idle
<1>6. MutexHeld /\ QuestionIsLast /\ ErasedFirst
  BY <1>5 DEF MutexHeld, QuestionIsLast, ErasedFirst, Holding, Apart
<1>7. AnswersFollowQuestions /\ OneHelperPerSession
  BY <1>3, <1>5 DEF AnswersFollowQuestions, OneHelperPerSession, Chatting
<1> QED
  BY <1>2, <1>4, <1>6, <1>7 DEF HelperInv

LEMMA HelperStutters ==
  ASSUME HelperInv, UNCHANGED <<task, helpers, chatInformation, erased, up>>
  PROVE  HelperInv'
BY DEF HelperInv, TasksInv, HelpersInv, MutexHeld, Holding, Owner, QuestionIsLast,
       ErasedFirst, AnswersFollowQuestions, OneHelperPerSession, Chatting

-----------------------------------------------------------------------------
(* One thread's task becomes r while the process runs. *)
Becomes(t, r) ==
  /\ task' = [task EXCEPT ![t] = r]
  /\ Shaped(r) /\ (r = Idle \/ r.session \in Session)
  /\ up' = up /\ (up \/ task[t] # Idle)

LEMMA BecomesKeeps ==
  ASSUME HelperInv, NEW t \in Thread, NEW r, Becomes(t, r)
  PROVE  /\ TasksInv'
         /\ \A o \in Thread : task'[o] = IF o = t THEN r ELSE task[o]
<1>1. \A o \in Thread : task'[o] = IF o = t THEN r ELSE task[o]
  BY DEF HelperInv, TasksInv, Becomes
<1>2. up
  BY DEF HelperInv, TasksInv, Becomes
<1>3. task' = [o \in Thread |-> task'[o]]
  BY DEF HelperInv, TasksInv, Becomes
<1> QED
  BY <1>1, <1>2, <1>3 DEF HelperInv, TasksInv, Becomes

(* A step on which no helper changes: the request ends, turns to a         *)
(* deletion, or goes on with the helper it holds.                          *)
LEMMA MoveKeeps ==
  ASSUME HelperInv, NEW t \in Thread, NEW r, Becomes(t, r),
         UNCHANGED <<helpers, chatInformation>>, erased \subseteq erased',
         \/ r = Idle \/ r.pc = "unlist"
         \/ r.pc = "drop" /\ r.session \in erased'
         \/ /\ t \in Holding
            /\ r.session = task[t].session /\ r.helper = task[t].helper
            /\ r.turn = task[t].turn
            /\ r.pc \notin Apart \cup {"wait", "read"}
            /\ r.pc \in {"stream", "answer"} => task[t].pc \in {"stream", "answer"}
  PROVE  HelperInv'
<1>1. TasksInv' /\ \A o \in Thread : task'[o] = IF o = t THEN r ELSE task[o]
  BY BecomesKeeps
<1>2. HelpersInv'
  BY DEF HelperInv, HelpersInv
<1>3. r = Idle => r.pc = "idle"
  BY DEF Idle
<1>4. MutexHeld'
  BY <1>1, <1>3 DEF HelperInv, MutexHeld, Holding, Owner, Apart
<1>5. QuestionIsLast'
  BY <1>1, <1>3 DEF HelperInv, QuestionIsLast
<1>6. ErasedFirst'
  BY <1>1, <1>3 DEF HelperInv, ErasedFirst, Apart
<1>7. AnswersFollowQuestions'
  BY AnswersFollow DEF HelperInv, AnswersFollowQuestions
<1>8. OneHelperPerSession'
  BY <1>1, <1>3 DEF HelperInv, OneHelperPerSession, Chatting, Holding, Apart
<1> QED
  BY <1>1, <1>2, <1>4, <1>5, <1>6, <1>7, <1>8 DEF HelperInv

(* A request comes and finds or makes the session's helper. *)
LEMMA FindKeeps ==
  ASSUME HelperInv, NEW t \in Thread, NEW s \in Session, NEW r, Becomes(t, r),
         FindOrCreate(s), UNCHANGED erased,
         r.pc \in {"wait", "read"}, r.session = s, r.helper = HelperNo(s)
  PROVE  HelperInv'
<1>1. TasksInv' /\ \A o \in Thread : task'[o] = IF o = t THEN r ELSE task[o]
  BY BecomesKeeps
<1>2. PICK n : n = HelperNo(s)
  OBVIOUS
<1>3. /\ chatInformation' = [chatInformation EXCEPT ![s] = n]
      /\ helpers' = IF n > Len(helpers) THEN Append(helpers, NewHelper) ELSE helpers
  BY <1>2 DEF FindOrCreate
<1>4. /\ Len(helpers) \in Nat /\ chatInformation \in [Session -> 0..Len(helpers)]
      /\ IsSeq(helpers)
  BY DEF HelperInv, HelpersInv, IsSeq
<1>5. n \in 1..(Len(helpers) + 1) /\ (chatInformation[s] # 0 => n = chatInformation[s])
  BY <1>2, <1>4 DEF HelperNo
<1>6. /\ IsSeq(helpers') /\ Len(helpers) <= Len(helpers') /\ n \in 1..Len(helpers')
      /\ \A h \in 1..Len(helpers) : helpers'[h] = helpers[h]
      /\ \A h \in 1..Len(helpers') : h \in 1..Len(helpers) \/ helpers'[h] = NewHelper
      /\ Len(helpers') \in Nat
  <2>1. /\ IsSeq(Append(helpers, NewHelper))
        /\ Len(Append(helpers, NewHelper)) = Len(helpers) + 1
        /\ \A h \in 1..Len(helpers) : Append(helpers, NewHelper)[h] = helpers[h]
        /\ Append(helpers, NewHelper)[Len(helpers) + 1] = NewHelper
    BY <1>4, AppendIs
  <2>2. CASE n > Len(helpers)
    BY <2>1, <2>2, <1>3, <1>4, <1>5
  <2>3. CASE ~(n > Len(helpers))
    BY <2>3, <1>3, <1>4, <1>5
  <2> QED
    BY <2>2, <2>3
<1>7. /\ NewHelper = [owner |-> NewHelper.owner, messages |-> NewHelper.messages]
      /\ NewHelper.messages = <<>>
  BY DEF NewHelper
<1>8. \A z \in Session : chatInformation'[z] = IF z = s THEN n ELSE chatInformation[z]
  BY <1>3, <1>4
<1>9. HelpersInv'
  <2>1. \A h \in 1..Len(helpers') :
          /\ helpers'[h] = [owner |-> helpers'[h].owner, messages |-> helpers'[h].messages]
          /\ IsSeq(helpers'[h].messages)
    BY <1>6, <1>7, EmptyIsSeq DEF HelperInv, HelpersInv
  <2>2. chatInformation' \in [Session -> 0..Len(helpers')]
    BY <1>3, <1>4, <1>6
  <2> QED
    BY <2>1, <2>2, <1>6 DEF HelpersInv
<1>10. MutexHeld'
  <2>1. \A o \in Thread : task'[o].pc \notin Apart => task'[o].helper \in 1..Len(helpers')
    BY <1>1, <1>2, <1>4, <1>6 DEF HelperInv, MutexHeld
  <2>2. \A o \in Holding' :
          o # t /\ o \in Holding /\ task'[o] = task[o] /\ task[o].helper \in 1..Len(helpers)
    BY <1>1 DEF HelperInv, MutexHeld, Holding
  <2>3. \A o \in Holding' : helpers'[task'[o].helper].owner = o
    BY <2>2, <1>6 DEF HelperInv, MutexHeld, Owner
  <2> QED
    BY <2>1, <2>3 DEF MutexHeld, Owner
<1>11. QuestionIsLast'
  <2>1. \A o \in Thread : task'[o].pc \in {"stream", "answer"} =>
          task'[o] = task[o] /\ task[o].helper \in 1..Len(helpers)
    BY <1>1 DEF HelperInv, MutexHeld, Apart
  <2> QED
    BY <2>1, <1>6 DEF HelperInv, QuestionIsLast
<1>12. ErasedFirst'
  BY <1>1 DEF HelperInv, ErasedFirst
<1>13. AnswersFollowQuestions'
  <2>1. \A h \in 1..Len(helpers) : Follows(helpers[h].messages)
    BY AnswersFollow DEF HelperInv
  <2>2. Follows(NewHelper.messages)
    BY <1>7, EmptyIsSeq DEF Follows
  <2>3. \A h \in 1..Len(helpers') : Follows(helpers'[h].messages)
    BY <2>1, <2>2, <1>6
  <2> QED
    BY <2>3 DEF Follows, AnswersFollowQuestions
<1>14. OneHelperPerSession'
  <2> SUFFICES ASSUME NEW o \in Thread, o \in Chatting'
               PROVE  \/ task'[o].helper = chatInformation'[task'[o].session]
                      \/ task'[o].session \in erased'
    BY DEF OneHelperPerSession, Chatting
  <2>1. CASE o = t
    BY <2>1, <1>1, <1>2, <1>8
  <2>2. CASE o # t
    <3>1. task'[o] = task[o] /\ o \in Chatting
      BY <2>2, <1>1 DEF Chatting
    <3>2. task[o].helper \in 1..Len(helpers) /\ task[o].session \in Session
      BY <3>1 DEF HelperInv, MutexHeld, Chatting, Apart, TasksInv, Idle
    <3>3. \/ task[o].helper = chatInformation[task[o].session]
          \/ task[o].session \in erased
      BY <3>1 DEF HelperInv, OneHelperPerSession
    <3> QED
      BY <3>1, <3>2, <3>3, <1>5, <1>8, <1>4
  <2> QED
    BY <2>1, <2>2
<1> QED
  BY <1>1, <1>9, <1>10, <1>11, <1>12, <1>13, <1>14 DEF HelperInv

(* A request changes the helper whose mutex it has, or takes. *)
LEMMA SpeakKeeps ==
  ASSUME HelperInv, NEW t \in Thread, NEW r, Becomes(t, r), NEW own, NEW m,
         helpers' = [helpers EXCEPT ![task[t].helper] = [owner |-> own, messages |-> m]],
         UNCHANGED <<chatInformation, erased>>,
         task[t].pc \notin Apart \cup {"read"}, Owner(t) \in {t, Free},
         IsSeq(m), Follows(m),
         \/ r = Idle
         \/ /\ r.session = task[t].session /\ r.helper = task[t].helper
            /\ r.pc \notin Apart \cup {"wait", "read"} /\ own = t
            /\ r.pc \in {"stream", "answer"} => Asks(m, r.turn)
  PROVE  HelperInv'
<1>1. TasksInv' /\ \A o \in Thread : task'[o] = IF o = t THEN r ELSE task[o]
  BY BecomesKeeps
<1>2. PICK k : k = task[t].helper
  OBVIOUS
<1>3. PICK h : h = [owner |-> own, messages |-> m]
  OBVIOUS
<1>4. helpers' = [helpers EXCEPT ![k] = h] /\ h.owner = own /\ h.messages = m
  BY <1>2, <1>3
<1>5. /\ Len(helpers) \in Nat /\ k \in 1..Len(helpers)
      /\ helpers = [i \in 1..Len(helpers) |-> helpers[i]]
  BY <1>2 DEF HelperInv, HelpersInv, IsSeq, MutexHeld
<1>6. \A i \in 1..Len(helpers) : helpers'[i] = IF i = k THEN h ELSE helpers[i]
  BY <1>4, <1>5
<1>7. Len(helpers') = Len(helpers) /\ IsSeq(helpers')
  <2>1. helpers' = [i \in 1..Len(helpers) |-> helpers'[i]]
    BY <1>4, <1>5
  <2> QED
    BY <2>1, <1>5, TabulatedIsSeq
<1>8. HelpersInv'
  BY <1>3, <1>4, <1>6, <1>7 DEF HelperInv, HelpersInv
<1>9. r = Idle => r.pc = "idle"
  BY DEF Idle
<1>10. \A o \in Holding : o # t => task[o].helper # k
  <2>1. \A o \in Holding : helpers[task[o].helper].owner = o /\ o \in Thread
    BY DEF HelperInv, MutexHeld, Owner, Holding
  <2>2. helpers[k].owner \in {t, Free} /\ Free \notin Thread
    BY <1>2, ConversationAssumption DEF Owner
  <2> QED
    BY <2>1, <2>2
<1>11. MutexHeld'
  <2>1. \A o \in Thread : task'[o].pc \notin Apart => task'[o].helper \in 1..Len(helpers')
    BY <1>1, <1>2, <1>5, <1>7, <1>9 DEF HelperInv, MutexHeld, Apart
  <2>2. \A o \in Holding' : helpers'[task'[o].helper].owner = o
    <3> SUFFICES ASSUME NEW o \in Thread, o \in Holding'
                 PROVE  helpers'[task'[o].helper].owner = o
      BY DEF Holding
    <3>1. CASE o = t
      BY <3>1, <1>1, <1>2, <1>4, <1>5, <1>6, <1>9 DEF Holding, Apart
    <3>2. CASE o # t
      <4>1. o \in Holding /\ task'[o] = task[o]
        BY <3>2, <1>1 DEF Holding
      <4>2. task[o].helper \in 1..Len(helpers) /\ helpers[task[o].helper].owner = o
        BY <4>1 DEF HelperInv, MutexHeld, Owner, Holding
      <4> QED
        BY <4>1, <4>2, <3>2, <1>6, <1>10
    <3> QED
      BY <3>1, <3>2
  <2> QED
    BY <2>1, <2>2 DEF MutexHeld, Owner
<1>12. QuestionIsLast'
  <2> SUFFICES ASSUME NEW o \in Thread, task'[o].pc \in {"stream", "answer"}
               PROVE  Asks(helpers'[task'[o].helper].messages, task'[o].turn)
    BY DEF QuestionIsLast, Asks
  <2>1. CASE o = t
    BY <2>1, <1>1, <1>2, <1>4, <1>5, <1>6, <1>9
  <2>2. CASE o # t
    <3>1. task'[o] = task[o] /\ o \in Holding
      BY <2>2, <1>1 DEF Holding, Apart
    <3>2. task[o].helper \in 1..Len(helpers) /\ task[o].helper # k
      BY <3>1, <2>2, <1>10 DEF HelperInv, MutexHeld, Holding
    <3>3. Asks(helpers[task[o].helper].messages, task[o].turn)
      BY <3>1 DEF HelperInv, QuestionIsLast
    <3> QED
      BY <3>1, <3>2, <3>3, <1>6
  <2> QED
    BY <2>1, <2>2
<1>13. ErasedFirst'
  BY <1>1, <1>9 DEF HelperInv, ErasedFirst, Apart
<1>14. AnswersFollowQuestions'
  <2>1. \A i \in 1..Len(helpers) : Follows(helpers[i].messages)
    BY AnswersFollow DEF HelperInv
  <2>2. \A i \in 1..Len(helpers') : Follows(helpers'[i].messages)
    BY <2>1, <1>4, <1>6, <1>7
  <2> QED
    BY <2>2 DEF Follows, AnswersFollowQuestions
<1>15. OneHelperPerSession'
  <2>1. t \in Chatting
    BY DEF Chatting, Apart
  <2> QED
    BY <2>1, <1>1, <1>9 DEF HelperInv, OneHelperPerSession, Chatting
<1> QED
  BY <1>1, <1>8, <1>11, <1>12, <1>13, <1>14, <1>15 DEF HelperInv

-----------------------------------------------------------------------------
(* Fields of a task that are set. *)
LEMMA PcSet ==
  ASSUME NEW q, Shaped(q), NEW x, NEW r, r = [q EXCEPT !.pc = x]
  PROVE  /\ Shaped(r) /\ r.pc = x /\ r.session = q.session
         /\ r.helper = q.helper /\ r.turn = q.turn
BY DEF Shaped

LEMMA RepliedSet ==
  ASSUME NEW q, Shaped(q), NEW r, r = [q EXCEPT !.replied = TRUE]
  PROVE  /\ Shaped(r) /\ r.pc = q.pc /\ r.session = q.session
         /\ r.helper = q.helper /\ r.turn = q.turn
BY DEF Shaped

LEMMA IdleIs ==
  Shaped(Idle) /\ Idle.pc = "idle"
BY DEF Shaped, Idle

LEMMA AtWork ==
  ASSUME HelperInv, NEW t \in Thread, task[t].pc # "idle"
  PROVE  up /\ task[t] # Idle /\ task[t].session \in Session /\ Shaped(task[t])
BY DEF HelperInv, TasksInv, Idle

(* t goes on to stage x. *)
LEMMA ToStage ==
  ASSUME HelperInv, NEW t \in Thread, task[t].pc # "idle", NEW x,
         task' = [task EXCEPT ![t].pc = x], up' = up
  PROVE  \E r : /\ Becomes(t, r) /\ r.pc = x /\ r.session = task[t].session
                /\ r.helper = task[t].helper /\ r.turn = task[t].turn
<1>1. PICK q : q = task[t]
  OBVIOUS
<1>2. PICK r : r = [q EXCEPT !.pc = x]
  OBVIOUS
<1>3. task' = [task EXCEPT ![t] = r]
  BY <1>1, <1>2
<1>4. /\ Shaped(r) /\ r.pc = x /\ r.session = q.session
      /\ r.helper = q.helper /\ r.turn = q.turn
  BY <1>1, <1>2, AtWork, PcSet
<1> QED
  BY <1>1, <1>3, <1>4, AtWork DEF Becomes

(* t goes on to stage x with its reply settled. *)
LEMMA ToStageReplied ==
  ASSUME HelperInv, NEW t \in Thread, task[t].pc # "idle", NEW x,
         task' = [task EXCEPT ![t].pc = x, ![t].replied = TRUE], up' = up
  PROVE  \E r : /\ Becomes(t, r) /\ r.pc = x /\ r.session = task[t].session
                /\ r.helper = task[t].helper /\ r.turn = task[t].turn
<1>1. PICK q : q = task[t]
  OBVIOUS
<1>2. PICK p : p = [q EXCEPT !.pc = x]
  OBVIOUS
<1>3. PICK r : r = [p EXCEPT !.replied = TRUE]
  OBVIOUS
<1>4. task' = [task EXCEPT ![t] = r]
  <2>1. task = [o \in Thread |-> task[o]]
    BY DEF HelperInv, TasksInv
  <2>2. \A o \in Thread : task'[o] = IF o = t THEN r ELSE task[o]
    BY <2>1, <1>1, <1>2, <1>3
  <2>3. task' = [o \in Thread |-> task'[o]]
    BY <2>1
  <2> QED
    BY <2>1, <2>2, <2>3
<1>5. /\ Shaped(r) /\ r.pc = x /\ r.session = q.session
      /\ r.helper = q.helper /\ r.turn = q.turn
  <2>1. Shaped(p) /\ p.pc = x /\ p.session = q.session /\ p.helper = q.helper
        /\ p.turn = q.turn
    BY <1>1, <1>2, AtWork, PcSet
  <2> QED
    BY <2>1, <1>3, RepliedSet
<1> QED
  BY <1>1, <1>4, <1>5, AtWork DEF Becomes

LEMMA ToIdle ==
  ASSUME HelperInv, NEW t \in Thread, task[t].pc # "idle",
         task' = [task EXCEPT ![t] = Idle], up' = up
  PROVE  Becomes(t, Idle)
BY AtWork, IdleIs DEF Becomes

(* The helper whose mutex t has, with another owner or one message more. *)
LEMMA OwnerSet ==
  ASSUME HelperInv, NEW t \in Thread, task[t].pc \notin Apart, NEW own, NEW hs,
         hs = [helpers EXCEPT ![task[t].helper].owner = own]
  PROVE  /\ hs = [helpers EXCEPT ![task[t].helper] =
                    [owner |-> own, messages |-> helpers[task[t].helper].messages]]
         /\ IsSeq(helpers[task[t].helper].messages)
         /\ Follows(helpers[task[t].helper].messages)
<1>1. PICK k : k = task[t].helper
  OBVIOUS
<1>2. k \in 1..Len(helpers)
  BY <1>1 DEF HelperInv, MutexHeld
<1>3. PICK h : h = helpers[k]
  OBVIOUS
<1>4. h = [owner |-> h.owner, messages |-> h.messages] /\ IsSeq(h.messages)
      /\ Follows(h.messages)
  BY <1>2, <1>3, AnswersFollow DEF HelperInv, HelpersInv
<1>5. PICK g : g = [h EXCEPT !.owner = own]
  OBVIOUS
<1>6. g = [owner |-> own, messages |-> h.messages]
  BY <1>4, <1>5
<1>7. hs = [helpers EXCEPT ![k] = g]
  BY <1>1, <1>3, <1>5
<1> QED
  BY <1>1, <1>3, <1>4, <1>6, <1>7

Message(t, role) == [role |-> role, turn |-> task[t].turn]

LEMMA MessageSaid ==
  ASSUME HelperInv, NEW t \in Thread, task[t].pc \notin Apart, NEW role, NEW hs,
         hs = Said(t, helpers, role),
         role = "ai" => Asks(helpers[task[t].helper].messages, task[t].turn)
  PROVE  \E m : /\ hs = [helpers EXCEPT ![task[t].helper] =
                           [owner |-> Owner(t), messages |-> m]]
                /\ IsSeq(m) /\ Follows(m) /\ Len(m) > 0
                /\ m[Len(m)] = Message(t, role)
<1>1. PICK k : k = task[t].helper
  OBVIOUS
<1>2. k \in 1..Len(helpers)
  BY <1>1 DEF HelperInv, MutexHeld
<1>3. PICK h : h = helpers[k]
  OBVIOUS
<1>4. h = [owner |-> h.owner, messages |-> h.messages] /\ IsSeq(h.messages)
      /\ Follows(h.messages)
  BY <1>2, <1>3, AnswersFollow DEF HelperInv, HelpersInv
<1>5. PICK x : x = Message(t, role)
  OBVIOUS
<1>6. x.role = role /\ x.turn = task[t].turn
  BY <1>5 DEF Message
<1>7. PICK m : m = Append(h.messages, x)
  OBVIOUS
<1>8. IsSeq(m) /\ Len(m) = Len(h.messages) + 1 /\ m[Len(h.messages) + 1] = x
  BY <1>4, <1>7, AppendIs
<1>9. Follows(m)
  BY <1>1, <1>3, <1>4, <1>6, <1>7, FollowsAppend
<1>10. PICK g : g = [h EXCEPT !.messages = m]
  OBVIOUS
<1>11. g = [owner |-> h.owner, messages |-> m]
  BY <1>4, <1>10
<1>12. hs = [helpers EXCEPT ![k] = g]
  BY <1>1, <1>3, <1>5, <1>7, <1>10 DEF Said, Message
<1>13. Len(m) > 0
  BY <1>4, <1>8 DEF IsSeq
<1> QED
  BY <1>1, <1>3, <1>5, <1>8, <1>9, <1>11, <1>12, <1>13 DEF Owner

(* The same with the mutex given up. *)
LEMMA MessageSaidLast ==
  ASSUME HelperInv, NEW t \in Thread, task[t].pc \notin Apart, NEW role, NEW hs,
         hs = Said(t, Unlocked(t), role),
         role = "ai" => Asks(helpers[task[t].helper].messages, task[t].turn)
  PROVE  \E m : /\ hs = [helpers EXCEPT ![task[t].helper] =
                           [owner |-> Free, messages |-> m]]
                /\ IsSeq(m) /\ Follows(m)
<1>1. PICK k : k = task[t].helper
  OBVIOUS
<1>2. k \in 1..Len(helpers) /\ helpers = [i \in 1..Len(helpers) |-> helpers[i]]
  BY <1>1 DEF HelperInv, MutexHeld, HelpersInv, IsSeq
<1>3. PICK h : h = helpers[k]
  OBVIOUS
<1>4. h = [owner |-> h.owner, messages |-> h.messages] /\ IsSeq(h.messages)
      /\ Follows(h.messages)
  BY <1>2, <1>3, AnswersFollow DEF HelperInv, HelpersInv
<1>5. PICK x : x = Message(t, role)
  OBVIOUS
<1>6. x.role = role /\ x.turn = task[t].turn
  BY <1>5 DEF Message
<1>7. PICK m : m = Append(h.messages, x)
  OBVIOUS
<1>8. IsSeq(m)
  BY <1>4, <1>7, AppendIs
<1>9. Follows(m)
  BY <1>1, <1>3, <1>4, <1>6, <1>7, FollowsAppend
<1>10. PICK f : f = [h EXCEPT !.owner = Free]
  OBVIOUS
<1>11. f = [owner |-> Free, messages |-> h.messages]
  BY <1>4, <1>10
<1>12. PICK g : g = [f EXCEPT !.messages = m]
  OBVIOUS
<1>13. g = [owner |-> Free, messages |-> m]
  BY <1>11, <1>12
<1>14. PICK mid : mid = Unlocked(t)
  OBVIOUS
<1>15. mid = [helpers EXCEPT ![k] = f]
  BY <1>1, <1>3, <1>10, <1>14 DEF Unlocked
<1>16. mid[k] = f
  BY <1>2, <1>15
<1>17. hs = [mid EXCEPT ![k] = g]
  BY <1>1, <1>5, <1>7, <1>11, <1>12, <1>14, <1>16 DEF Said, Message
<1>18. hs = [helpers EXCEPT ![k] = g]
  BY <1>2, <1>15, <1>17
<1> QED
  BY <1>1, <1>8, <1>9, <1>13, <1>18

-----------------------------------------------------------------------------
(* One lemma for each action, or for those that do the same to the helpers. *)
LEMMA EnterKeeps ==
  ASSUME HelperInv, NEW t \in Thread, NEW s \in Session, NEW fresh \in BOOLEAN,
         Enter(t, s, fresh)
  PROVE  HelperInv'
<1> DEFINE r == [pc |-> "wait", session |-> s, helper |-> HelperNo(s),
                 turn |-> requests + 1, replied |-> FALSE]
<1>1. task' = [task EXCEPT ![t] = r] /\ FindOrCreate(s) /\ up /\ up' = up
      /\ UNCHANGED erased
  BY DEF Enter, Arrives, pvars
<1>2. Shaped(r) /\ r.pc = "wait" /\ r.session = s /\ r.helper = HelperNo(s)
  BY DEF Shaped
<1> HIDE DEF r
<1> QED
  BY <1>1, <1>2, FindKeeps DEF Becomes

LEMMA HistoryEnterKeeps ==
  ASSUME HelperInv, NEW t \in Thread, NEW s \in Session, HistoryEnter(t, s)
  PROVE  HelperInv'
<1> DEFINE r == [pc |-> "read", session |-> s, helper |-> HelperNo(s),
                 turn |-> 0, replied |-> FALSE]
<1>1. FindOrCreate(s) /\ up /\ up' = up /\ UNCHANGED erased
      /\ task' = [task EXCEPT ![t] = [Idle EXCEPT !.pc = "read", !.session = s,
                                                  !.helper = HelperNo(s)]]
  BY DEF HistoryEnter, Arrives, pvars
<1>2. [Idle EXCEPT !.pc = "read", !.session = s, !.helper = HelperNo(s)] = r
  <2>1. PICK h : h = HelperNo(s)
    OBVIOUS
  <2>2. PICK a : a = [Idle EXCEPT !.pc = "read"]
    OBVIOUS
  <2>3. PICK b : b = [a EXCEPT !.session = s]
    OBVIOUS
  <2>4. PICK c : c = [b EXCEPT !.helper = h]
    OBVIOUS
  <2>5. [Idle EXCEPT !.pc = "read", !.session = s, !.helper = HelperNo(s)] = c
    BY <2>1, <2>2, <2>3, <2>4
  <2>6. a = [pc |-> "read", session |-> "none", helper |-> 0, turn |-> 0,
             replied |-> FALSE]
    BY <2>2 DEF Idle
  <2>7. b = [pc |-> "read", session |-> s, helper |-> 0, turn |-> 0, replied |-> FALSE]
    BY <2>3, <2>6
  <2>8. c = [pc |-> "read", session |-> s, helper |-> h, turn |-> 0, replied |-> FALSE]
    BY <2>4, <2>7
  <2> QED
    BY <2>1, <2>5, <2>8
<1>3. Shaped(r) /\ r.pc = "read" /\ r.session = s /\ r.helper = HelperNo(s)
  BY DEF Shaped
<1> HIDE DEF r
<1> QED
  BY <1>1, <1>2, <1>3, FindKeeps DEF Becomes

LEMMA DeleteRowsKeeps ==
  ASSUME HelperInv, NEW t \in Thread, NEW s \in Session, DeleteRows(t, s)
  PROVE  HelperInv'
<1> DEFINE r == [pc |-> "drop", session |-> s, helper |-> 0, turn |-> 0,
                 replied |-> FALSE]
<1>1. /\ up /\ up' = up /\ erased' = erased \cup {s}
      /\ UNCHANGED <<helpers, chatInformation>>
      /\ task' = [task EXCEPT ![t] = [Idle EXCEPT !.pc = "drop", !.session = s]]
  BY DEF DeleteRows, Arrives
<1>2. [Idle EXCEPT !.pc = "drop", !.session = s] = r
  <2>1. PICK a : a = [Idle EXCEPT !.pc = "drop"]
    OBVIOUS
  <2>2. PICK b : b = [a EXCEPT !.session = s]
    OBVIOUS
  <2>3. [Idle EXCEPT !.pc = "drop", !.session = s] = b
    BY <2>1, <2>2
  <2>4. a = [pc |-> "drop", session |-> "none", helper |-> 0, turn |-> 0,
             replied |-> FALSE]
    BY <2>1 DEF Idle
  <2>5. b = [pc |-> "drop", session |-> s, helper |-> 0, turn |-> 0, replied |-> FALSE]
    BY <2>2, <2>4
  <2> QED
    BY <2>3, <2>5
<1>3. Shaped(r) /\ r.pc = "drop" /\ r.session = s
  BY DEF Shaped
<1> HIDE DEF r
<1>4. Becomes(t, r)
  BY <1>1, <1>2, <1>3 DEF Becomes
<1>5. erased \subseteq erased' /\ r.session \in erased'
  BY <1>1, <1>3
<1> QED
  BY <1>1, <1>3, <1>4, <1>5, MoveKeeps

LEMMA TakeHelperKeeps ==
  ASSUME HelperInv, NEW t \in Thread, TakeHelper(t)
  PROVE  HelperInv'
<1>1. PICK p \in {"ask", "route"} : task' = [task EXCEPT ![t].pc = p]
  BY DEF TakeHelper
<1>2. /\ task[t].pc = "wait" /\ Owner(t) = Free
      /\ helpers' = [helpers EXCEPT ![task[t].helper].owner = t]
      /\ UNCHANGED <<up, chatInformation, erased>>
  BY DEF TakeHelper, pvars
<1>3. task[t].pc \notin Apart /\ task[t].pc # "idle"
  BY <1>2 DEF Apart
<1>4. PICK r : /\ Becomes(t, r) /\ r.pc = p /\ r.session = task[t].session
               /\ r.helper = task[t].helper /\ r.turn = task[t].turn
  BY <1>1, <1>2, <1>3, ToStage
<1>5. PICK m : m = helpers[task[t].helper].messages
  OBVIOUS
<1>6. /\ helpers' = [helpers EXCEPT ![task[t].helper] = [owner |-> t, messages |-> m]]
      /\ IsSeq(m) /\ Follows(m)
  BY <1>2, <1>3, <1>5, OwnerSet
<1>7. p \notin Apart \cup {"wait", "read", "stream", "answer"}
  BY DEF Apart
<1> QED
  BY <1>2, <1>3, <1>4, <1>6, <1>7, SpeakKeeps

LEMMA ReturnsKeep ==
  ASSUME HelperInv, NEW t \in Thread, UnknownModel(t) \/ HistoryRead(t)
  PROVE  HelperInv'
<1>1. /\ task[t].pc # "idle" /\ task' = [task EXCEPT ![t] = Idle]
      /\ UNCHANGED <<up, helpers, chatInformation, erased>>
  BY DEF UnknownModel, HistoryRead, pvars
<1>2. Becomes(t, Idle)
  BY <1>1, ToIdle
<1> QED
  BY <1>1, <1>2, MoveKeeps

LEMMA RouteKeeps ==
  ASSUME HelperInv, NEW t \in Thread, Route(t)
  PROVE  HelperInv'
<1>1. /\ task[t].pc = "route" /\ UNCHANGED <<up, helpers, chatInformation, erased>>
      /\ \/ task' = [task EXCEPT ![t].pc = "stream-then-ask"]
         \/ task' = [task EXCEPT ![t].pc = "ask", ![t].replied = TRUE]
  BY DEF Route, pvars
<1>2. t \in Holding /\ task[t].pc # "idle"
  BY <1>1 DEF Holding, Apart
<1>3. PICK x \in {"stream-then-ask", "ask"} :
        \/ task' = [task EXCEPT ![t].pc = x]
        \/ task' = [task EXCEPT ![t].pc = x, ![t].replied = TRUE]
  BY <1>1
<1>4. PICK r : /\ Becomes(t, r) /\ r.pc = x /\ r.session = task[t].session
               /\ r.helper = task[t].helper /\ r.turn = task[t].turn
  <2>1. CASE task' = [task EXCEPT ![t].pc = x]
    BY <2>1, <1>1, <1>2, ToStage
  <2>2. CASE task' = [task EXCEPT ![t].pc = x, ![t].replied = TRUE]
    BY <2>2, <1>1, <1>2, ToStageReplied
  <2> QED
    BY <1>3, <2>1, <2>2
<1>5. x \notin Apart \cup {"wait", "read", "stream", "answer"}
  BY DEF Apart
<1> QED
  BY <1>1, <1>2, <1>4, <1>5, MoveKeeps

LEMMA StreamEndsKeeps ==
  ASSUME HelperInv, NEW t \in Thread, StreamEnds(t)
  PROVE  HelperInv'
<1>1. UNCHANGED <<up, helpers, chatInformation, erased>>
  BY DEF StreamEnds, pvars
<1>2. CASE task[t].pc = "stream"
  <2>1. PICK x \in {"answer"} : task' = [task EXCEPT ![t].pc = x, ![t].replied = TRUE]
    BY <1>2 DEF StreamEnds
  <2>2. t \in Holding /\ task[t].pc # "idle"
    BY <1>2 DEF Holding, Apart
  <2>3. PICK r : /\ Becomes(t, r) /\ r.pc = x /\ r.session = task[t].session
                 /\ r.helper = task[t].helper /\ r.turn = task[t].turn
    BY <1>1, <2>1, <2>2, ToStageReplied
  <2>4. x \notin Apart \cup {"wait", "read"}
    BY DEF Apart
  <2> QED
    BY <1>1, <1>2, <2>2, <2>3, <2>4, MoveKeeps
<1>3. CASE task[t].pc = "stream-then-ask"
  <2>1. PICK x \in {"ask"} : task' = [task EXCEPT ![t].pc = x, ![t].replied = TRUE]
    BY <1>3 DEF StreamEnds
  <2>2. t \in Holding /\ task[t].pc # "idle"
    BY <1>3 DEF Holding, Apart
  <2>3. PICK r : /\ Becomes(t, r) /\ r.pc = x /\ r.session = task[t].session
                 /\ r.helper = task[t].helper /\ r.turn = task[t].turn
    BY <1>1, <2>1, <2>2, ToStageReplied
  <2>4. x \notin Apart \cup {"wait", "read", "stream", "answer"}
    BY DEF Apart
  <2> QED
    BY <1>1, <1>3, <2>2, <2>3, <2>4, MoveKeeps
<1> QED
  BY <1>2, <1>3 DEF StreamEnds

LEMMA StreamFailsKeeps ==
  ASSUME HelperInv, NEW t \in Thread, StreamFails(t)
  PROVE  HelperInv'
<1>1. /\ task[t].pc \in {"stream", "stream-then-ask"}
      /\ task' = [task EXCEPT ![t] = Idle]
      /\ helpers' = [helpers EXCEPT ![task[t].helper].owner = Free]
      /\ UNCHANGED <<up, chatInformation, erased>>
  BY DEF StreamFails, Unlocked, pvars
<1>2. t \in Holding /\ task[t].pc # "idle" /\ task[t].pc \notin Apart \cup {"read"}
  BY <1>1 DEF Holding, Apart
<1>3. Owner(t) = t
  BY <1>2 DEF HelperInv, MutexHeld
<1>4. PICK m : m = helpers[task[t].helper].messages
  OBVIOUS
<1>5. /\ helpers' = [helpers EXCEPT ![task[t].helper] = [owner |-> Free, messages |-> m]]
      /\ IsSeq(m) /\ Follows(m)
  BY <1>1, <1>2, <1>4, OwnerSet
<1>6. Becomes(t, Idle)
  BY <1>1, <1>2, ToIdle
<1> QED
  BY <1>1, <1>2, <1>3, <1>5, <1>6, SpeakKeeps

LEMMA AddQuestionKeeps ==
  ASSUME HelperInv, NEW t \in Thread, AddQuestion(t)
  PROVE  HelperInv'
<1>1. PICK x \in {"answer", "stream"} : task' = [task EXCEPT ![t].pc = x]
  BY DEF AddQuestion
<1>2. /\ task[t].pc = "ask" /\ helpers' = Said(t, helpers, "user")
      /\ UNCHANGED <<up, chatInformation, erased>>
  BY DEF AddQuestion, Published, Publish
<1>3. t \in Holding /\ task[t].pc # "idle" /\ task[t].pc \notin Apart \cup {"read"}
  BY <1>2 DEF Holding, Apart
<1>4. Owner(t) = t /\ task[t].pc \notin Apart
  BY <1>3 DEF HelperInv, MutexHeld
<1> DEFINE role == "user"
<1>9. helpers' = Said(t, helpers, role) /\ role # "ai"
  BY <1>2
<1> HIDE DEF role
<1>5. PICK m : /\ helpers' = [helpers EXCEPT ![task[t].helper] =
                                [owner |-> t, messages |-> m]]
               /\ IsSeq(m) /\ Follows(m) /\ Len(m) > 0
               /\ m[Len(m)] = Message(t, role)
  <2>1. PICK hs : hs = helpers'
    OBVIOUS
  <2>2. hs = Said(t, helpers, role)
    BY <2>1, <1>9
  <2>3. \E m : /\ hs = [helpers EXCEPT ![task[t].helper] =
                           [owner |-> Owner(t), messages |-> m]]
              /\ IsSeq(m) /\ Follows(m) /\ Len(m) > 0
              /\ m[Len(m)] = Message(t, role)
    BY <2>2, <1>4, <1>9, MessageSaid
  <2> QED
    BY <2>1, <2>3, <1>4
<1>6. PICK r : /\ Becomes(t, r) /\ r.pc = x /\ r.session = task[t].session
               /\ r.helper = task[t].helper /\ r.turn = task[t].turn
  BY <1>1, <1>2, <1>3, ToStage
<1>7. Asks(m, r.turn)
  BY <1>5, <1>6 DEF Asks, Message, role
<1>8. x \notin Apart \cup {"wait", "read"}
  BY DEF Apart
<1> QED
  BY <1>2, <1>3, <1>4, <1>5, <1>6, <1>7, <1>8, SpeakKeeps

LEMMA LastWordKeeps ==
  ASSUME HelperInv, NEW t \in Thread, AddAnswer(t) \/ PublishFails(t)
  PROVE  HelperInv'
<1>1. /\ task[t].pc \in {"ask", "answer"} /\ task' = [task EXCEPT ![t] = Idle]
      /\ UNCHANGED <<up, chatInformation, erased>>
  BY DEF AddAnswer, PublishFails, Published, Publish
<1>2. t \in Holding /\ task[t].pc # "idle" /\ task[t].pc \notin Apart \cup {"read"}
  BY <1>1 DEF Holding, Apart
<1>3. Owner(t) = t
  BY <1>2 DEF HelperInv, MutexHeld
<1>4. PICK role : /\ helpers' = Said(t, Unlocked(t), role)
                  /\ role = "ai" => task[t].pc = "answer"
  BY DEF AddAnswer, PublishFails
<1>5. task[t].pc = "answer" => Asks(helpers[task[t].helper].messages, task[t].turn)
  BY DEF HelperInv, QuestionIsLast
<1>6. PICK m : /\ helpers' = [helpers EXCEPT ![task[t].helper] =
                                [owner |-> Free, messages |-> m]]
               /\ IsSeq(m) /\ Follows(m)
  BY <1>2, <1>4, <1>5, MessageSaidLast
<1>7. Becomes(t, Idle)
  BY <1>1, <1>2, ToIdle
<1> QED
  BY <1>1, <1>2, <1>3, <1>6, <1>7, SpeakKeeps

LEMMA UnlistKeeps ==
  ASSUME HelperInv, NEW t \in Thread, Unlist(t)
  PROVE  HelperInv'
<1>1. /\ task[t].pc # "idle" /\ task' = [task EXCEPT ![t] = Idle]
      /\ UNCHANGED <<up, helpers, chatInformation, erased>>
  BY DEF Unlist, pvars
<1>2. Becomes(t, Idle)
  BY <1>1, ToIdle
<1> QED
  BY <1>1, <1>2, MoveKeeps

LEMMA DropHelperKeeps ==
  ASSUME HelperInv, NEW t \in Thread, DropHelper(t)
  PROVE  HelperInv'
<1>1. PICK s : s = task[t].session
  OBVIOUS
<1>2. /\ task[t].pc = "drop" /\ task' = [task EXCEPT ![t].pc = "unlist"]
      /\ chatInformation' = [chatInformation EXCEPT ![s] = 0]
      /\ UNCHANGED <<up, helpers, erased>>
  BY <1>1 DEF DropHelper, pvars
<1>3. s \in erased
  BY <1>1, <1>2 DEF HelperInv, ErasedFirst
<1>4. PICK r : Becomes(t, r) /\ r.pc = "unlist"
  <2>1. PICK x \in {"unlist"} : task' = [task EXCEPT ![t].pc = x]
    BY <1>2
  <2>2. PICK r : /\ Becomes(t, r) /\ r.pc = x /\ r.session = task[t].session
                 /\ r.helper = task[t].helper /\ r.turn = task[t].turn
    BY <2>1, <1>2, ToStage
  <2> QED
    BY <2>1, <2>2
<1>5. TasksInv' /\ \A o \in Thread : task'[o] = IF o = t THEN r ELSE task[o]
  BY <1>4, BecomesKeeps
<1>6. HelpersInv'
  <2>1. Len(helpers) \in Nat /\ chatInformation \in [Session -> 0..Len(helpers)]
    BY DEF HelperInv, HelpersInv, IsSeq
  <2>2. PICK f : f = chatInformation'
    OBVIOUS
  <2>3. f = [chatInformation EXCEPT ![s] = 0] /\ 0 \in 0..Len(helpers)
    BY <2>1, <2>2, <1>2
  <2>4. f \in [Session -> 0..Len(helpers)]
    BY <2>1, <2>3
  <2> QED
    BY <2>2, <2>4, <1>2 DEF HelperInv, HelpersInv
<1>7. MutexHeld'
  BY <1>2, <1>4, <1>5 DEF HelperInv, MutexHeld, Holding, Owner, Apart
<1>8. QuestionIsLast' /\ ErasedFirst'
  BY <1>2, <1>4, <1>5 DEF HelperInv, QuestionIsLast, ErasedFirst
<1>9. AnswersFollowQuestions'
  BY <1>2 DEF HelperInv, AnswersFollowQuestions
<1>10. OneHelperPerSession'
  <2>1. \A z \in Session : z # s => chatInformation'[z] = chatInformation[z]
    BY <1>2 DEF HelperInv, HelpersInv
  <2>2. \A o \in Chatting' : task'[o] = task[o] /\ o \in Chatting
    BY <1>4, <1>5 DEF Chatting
  <2>3. \A o \in Chatting : task[o].session \in Session
    BY AtWork DEF Chatting
  <2> QED
    BY <2>1, <2>2, <2>3, <1>2, <1>3 DEF HelperInv, OneHelperPerSession
<1> QED
  BY <1>5, <1>6, <1>7, <1>8, <1>9, <1>10 DEF HelperInv

LEMMA HelpersCrash ==
  ASSUME HelperInv, Crash
  PROVE  HelperInv'
<1>1. /\ task' = [t \in Thread |-> Idle] /\ helpers' = <<>>
      /\ chatInformation' = [s \in Session |-> 0]
  BY DEF Crash
<1>2. TasksInv'
  BY <1>1 DEF TasksInv, Shaped, Idle
<1>3. Len(helpers') = 0 /\ IsSeq(helpers') /\ 1..0 = {}
  BY <1>1, EmptyIsSeq
<1>4. HelpersInv'
  BY <1>1, <1>3 DEF HelpersInv
<1>5. \A t \in Thread : task'[t].pc = "idle"
  BY <1>1 DEF Idle
<1>6. MutexHeld' /\ QuestionIsLast' /\ ErasedFirst'
  BY <1>5 DEF MutexHeld, QuestionIsLast, ErasedFirst, Holding, Apart
<1>7. AnswersFollowQuestions' /\ OneHelperPerSession'
  BY <1>3, <1>5 DEF AnswersFollowQuestions, OneHelperPerSession, Chatting
<1> QED
  BY <1>2, <1>4, <1>6, <1>7 DEF HelperInv

(* A finite set as a sequence. *)
LEMMA SetToSeqIs ==
  ASSUME NEW S, IsFiniteSet(S)
  PROVE  /\ Len(SetToSeq(S)) \in Nat
         /\ \A x \in S : \E i \in 1..Len(SetToSeq(S)) : SetToSeq(S)[i] = x
<1>1. Cardinality(S) \in Nat /\ ExistsBijection(1..Cardinality(S), S)
  BY FS_CardinalityType
<1>2. PICK n : n = Cardinality(S)
  OBVIOUS
<1>3. PICK f : f \in Bijection(1..n, S)
  BY <1>1, <1>2 DEF ExistsBijection
<1>4. f \in [1..n -> S] /\ IsInjective(f)
  BY <1>3 DEF Bijection, Injection
<1>5. PICK q : q = SetToSeq(S)
  OBVIOUS
<1>6. q \in [1..n -> S] /\ IsInjective(q)
  BY <1>2, <1>4, <1>5 DEF SetToSeq
<1>7. Len(q) = n
  BY <1>1, <1>2, <1>6, TabulatedIsSeq
<1>8. q \in Injection(1..n, S)
  BY <1>6 DEF Injection
<1>9. IsFiniteSet(1..n) /\ Cardinality(1..n) = n
  BY <1>1, <1>2, FS_Interval
<1>10. q \in Surjection(1..n, S)
  BY <1>2, <1>8, <1>9, FS_Injection
<1>11. \A x \in S : \E i \in 1..n : q[i] = x
  BY <1>10 DEF Surjection
<1> QED
  BY <1>1, <1>2, <1>5, <1>7, <1>11

(* There are finitely many rows, and a selection has them all. *)
LEMMA SelectionIs ==
  ASSUME StoreInv, NEW q \in Selections
  PROVE  Len(q) \in Nat /\ IsFiniteSet(1..Len(q))
<1>1. IsFiniteSet(Rows)
  <2>1. IsFiniteSet(1..published) /\ IsFiniteSet(1..(MaxFaults + 1))
    BY FS_Interval, PersistenceAssumption DEF StoreInv, QueueInv
  <2>2. Stored \in SUBSET (1..published)
    BY DEF Stored
  <2>3. IsFiniteSet(Stored)
    BY <2>1, <2>2, FS_Subset
  <2>4. IsFiniteSet(Stored \X (1..(MaxFaults + 1)))
    BY <2>1, <2>3, FS_Product
  <2>5. Rows \in SUBSET (Stored \X (1..(MaxFaults + 1)))
    BY DEF Rows
  <2> QED
    BY <2>4, <2>5, FS_Subset
<1>2. Cardinality(Rows) \in Nat
  BY <1>1, FS_CardinalityType
<1>3. q \in [1..Cardinality(Rows) -> Rows]
  BY DEF Selections, SetToSeqs
<1>4. Len(q) = Cardinality(Rows)
  BY <1>2, <1>3, TabulatedIsSeq
<1> QED
  BY <1>2, <1>4, FS_Interval

LEMMA RestoredIs ==
  ASSUME NEW q, IsFiniteSet(1..Len(q)), NEW s
  PROVE  IsSeq(Restored(q, s)) /\ Follows(Restored(q, s))
<1>1. RowsOf(q, s) \in SUBSET (1..Len(q))
  BY DEF RowsOf
<1>2. Cardinality(RowsOf(q, s)) \in Nat
  BY <1>1, FS_Subset, FS_CardinalityType
<1>3. PICK n \in Nat : n = Cardinality(RowsOf(q, s))
  BY <1>2
<1>4. PICK f : f = Restored(q, s)
  OBVIOUS
<1>5. f = [k \in 1..n |-> [role |-> RoleAt(q, RowsOf(q, s), k), turn |-> 0]]
  BY <1>3, <1>4 DEF Restored
<1>6. f = [k \in 1..n |-> f[k]] /\ \A k \in 1..n : f[k].turn = 0
  BY <1>5
<1>7. IsSeq(f) /\ Len(f) = n
  BY <1>6, TabulatedIsSeq
<1>8. Follows(f)
  BY <1>6, <1>7 DEF Follows
<1> QED
  BY <1>4, <1>7, <1>8

LEMMA HelpersRestart ==
  ASSUME HelperInv, StoreInv, Restart
  PROVE  HelperInv'
<1>1. ~up /\ up' = TRUE /\ UNCHANGED <<task, erased>>
  BY DEF Restart, PRestart
<1>2. \A t \in Thread : task'[t] = Idle /\ task'[t].pc = "idle"
  BY <1>1, IdleIs DEF HelperInv, TasksInv
<1>3. TasksInv'
  BY <1>1 DEF HelperInv, TasksInv
<1>4. PICK q \in Selections :
        LET found == SetToSeq({SessionOf(q[i]) : i \in 1..Len(q)})
        IN  /\ helpers' = [i \in 1..Len(found) |->
                             [owner |-> Free, messages |-> Restored(q, found[i])]]
            /\ chatInformation' = [s \in Session |->
                 IF s \in ToSet(found) THEN CHOOSE i \in 1..Len(found) : found[i] = s
                                       ELSE 0]
  BY DEF Restart
<1> DEFINE S == {SessionOf(q[i]) : i \in 1..Len(q)}
<1>5. PICK found : found = SetToSeq(S)
  OBVIOUS
<1>6. /\ helpers' = [i \in 1..Len(found) |->
                       [owner |-> Free, messages |-> Restored(q, found[i])]]
      /\ chatInformation' = [s \in Session |->
           IF s \in ToSet(found) THEN CHOOSE i \in 1..Len(found) : found[i] = s ELSE 0]
  BY <1>4, <1>5
<1>7. Len(q) \in Nat /\ IsFiniteSet(1..Len(q))
  BY SelectionIs
<1>8. IsFiniteSet(S)
  <2> DEFINE f == [i \in 1..Len(q) |-> SessionOf(q[i])]
  <2>1. f \in Surjection(1..Len(q), S)
    BY DEF Surjection
  <2> QED
    BY <2>1, <1>7, FS_Surjection
<1> HIDE DEF S
<1>9. Len(found) \in Nat
  BY <1>5, <1>8, SetToSeqIs
<1>10. IsSeq(helpers') /\ Len(helpers') = Len(found)
  <2>1. helpers' = [i \in 1..Len(found) |-> helpers'[i]]
    BY <1>6
  <2> QED
    BY <2>1, <1>9, TabulatedIsSeq
<1>11. \A h \in 1..Len(helpers') :
         /\ helpers'[h] = [owner |-> helpers'[h].owner, messages |-> helpers'[h].messages]
         /\ IsSeq(helpers'[h].messages) /\ Follows(helpers'[h].messages)
  <2> TAKE h \in 1..Len(helpers')
  <2>1. helpers'[h] = [owner |-> Free, messages |-> Restored(q, found[h])]
    BY <1>6, <1>10
  <2>2. IsSeq(Restored(q, found[h])) /\ Follows(Restored(q, found[h]))
    BY <1>7, RestoredIs
  <2> QED
    BY <2>1, <2>2
<1>12. chatInformation' \in [Session -> 0..Len(found)]
  <2>1. \A s \in ToSet(found) : \E i \in 1..Len(found) : found[i] = s
    <3>1. PICK n \in Nat : n = Len(found)
      BY <1>9
    <3>2. DOMAIN found = 1..n
      <4>1. Cardinality(S) \in Nat /\ ExistsBijection(1..Cardinality(S), S)
        BY <1>8, FS_CardinalityType
      <4>2. \E f \in [1..Cardinality(S) -> S] : IsInjective(f)
        BY <4>1 DEF ExistsBijection, Bijection, Injection
      <4>3. found \in [1..Cardinality(S) -> S]
        BY <4>2, <1>5 DEF SetToSeq
      <4>4. Len(found) = Cardinality(S)
        BY <4>1, <4>3, TabulatedIsSeq
      <4> QED
        BY <4>3, <4>4, <3>1
    <3> QED
      BY <3>1, <3>2 DEF ToSet
  <2>2. \A s \in Session : chatInformation'[s] \in 0..Len(found)
    <3> TAKE s \in Session
    <3>1. CASE s \in ToSet(found)
      <4>1. chatInformation'[s] \in 1..Len(found)
        BY <3>1, <2>1, <1>6
      <4> QED
        BY <4>1, <1>9
    <3>2. CASE s \notin ToSet(found)
      BY <3>2, <1>6, <1>9
    <3> QED
      BY <3>1, <3>2
  <2> QED
    BY <2>2, <1>6
<1>13. HelpersInv'
  BY <1>10, <1>11, <1>12 DEF HelpersInv
<1>14. MutexHeld' /\ QuestionIsLast' /\ ErasedFirst'
  BY <1>2 DEF MutexHeld, QuestionIsLast, ErasedFirst, Holding, Apart
<1>15. OneHelperPerSession'
  BY <1>2 DEF OneHelperPerSession, Chatting
<1>16. AnswersFollowQuestions'
  BY <1>11 DEF AnswersFollowQuestions, Follows
<1> QED
  BY <1>3, <1>13, <1>14, <1>15, <1>16 DEF HelperInv

-----------------------------------------------------------------------------
LEMMA StoreNext ==
  ASSUME StoreInv, [Next]_vars
  PROVE  StoreInv'
<1>1. CASE UNCHANGED vars
  BY <1>1, StoreStutters DEF vars, cvars, svars
<1>2. CASE \E t \in Thread, s \in Session :
             (\E fresh \in BOOLEAN : Enter(t, s, fresh)) \/ HistoryEnter(t, s)
  <2>1. UNCHANGED svars
    BY <1>2 DEF Enter, HistoryEnter, svars, pvars
  <2> QED
    BY <2>1, StoreStutters
<1>3. ASSUME NEW t \in Thread, NEW s \in Session, DeleteRows(t, s)
      PROVE  StoreInv'
  BY <1>3, DeleteKeeps
<1>4. ASSUME NEW t \in Thread, Proceed(t)
      PROVE  StoreInv'
  <2>1. CASE AddQuestion(t)
    BY <2>1, PublishedKeeps DEF AddQuestion
  <2>2. CASE AddAnswer(t)
    BY <2>2, PublishedKeeps DEF AddAnswer
  <2>3. CASE \/ TakeHelper(t) \/ UnknownModel(t) \/ Route(t) \/ StreamEnds(t)
             \/ StreamFails(t) \/ HistoryRead(t) \/ DropHelper(t) \/ Unlist(t)
    <3>1. UNCHANGED svars
      BY <2>3 DEF TakeHelper, UnknownModel, Route, StreamEnds, StreamFails, HistoryRead,
                  DropHelper, Unlist, svars
    <3> QED
      BY <3>1, StoreStutters
  <2> QED
    BY <1>4, <2>1, <2>2, <2>3 DEF Proceed
<1>5. ASSUME NEW t \in Thread, PublishFails(t)
      PROVE  StoreInv'
  BY <1>5, FaultKeeps
<1>6. CASE Background
  BY <1>6, ConsumersKeep
<1>7. CASE Crash
  BY <1>7, CrashKeeps DEF Crash
<1>8. CASE Restart
  <2>1. UNCHANGED <<published, poison, ready, hand, written, stored, faults, row, erased>>
    BY <1>8 DEF Restart, PRestart
  <2> QED
    BY <2>1 DEF StoreInv, QueueInv, RowInv, HandledIsStored, OnePlaceWhenCalm,
                NothingLost, InHand, Stored
<1> QED
  BY <1>1, <1>2, <1>3, <1>4, <1>5, <1>6, <1>7, <1>8 DEF Next

LEMMA HelpersNext ==
  ASSUME HelperInv, StoreInv, [Next]_vars
  PROVE  HelperInv'
<1>1. CASE UNCHANGED vars
  BY <1>1, HelperStutters DEF vars, cvars, pvars
<1>2. ASSUME NEW t \in Thread, NEW s \in Session,
             \/ \E fresh \in BOOLEAN : Enter(t, s, fresh)
             \/ HistoryEnter(t, s) \/ DeleteRows(t, s)
      PROVE  HelperInv'
  BY <1>2, EnterKeeps, HistoryEnterKeeps, DeleteRowsKeeps
<1>3. ASSUME NEW t \in Thread, Proceed(t) \/ PublishFails(t)
      PROVE  HelperInv'
  BY <1>3, TakeHelperKeeps, ReturnsKeep, RouteKeeps, StreamEndsKeeps, StreamFailsKeeps,
     AddQuestionKeeps, LastWordKeeps, DropHelperKeeps, UnlistKeeps DEF Proceed
<1>4. CASE Background
  <2>1. UNCHANGED cvars /\ up' = up
    BY <1>4 DEF Background, Consume, Break, Exit, Fetch, Execute, Acknowledge, Reject
  <2> QED
    BY <2>1, HelperStutters DEF cvars
<1>5. CASE Crash
  BY <1>5, HelpersCrash
<1>6. CASE Restart
  BY <1>6, HelpersRestart
<1> QED
  BY <1>1, <1>2, <1>3, <1>4, <1>5, <1>6 DEF Next

LEMMA Invariant == Spec => [](StoreInv /\ HelperInv)
<1>1. Init => StoreInv /\ HelperInv
  BY StoreInit, HelpersInit
<1>2. StoreInv /\ HelperInv /\ [Next]_vars => (StoreInv /\ HelperInv)'
  BY StoreNext, HelpersNext
<1> QED
  BY <1>1, <1>2, PTL DEF Spec

(***************************************************************************)
(* Every answer directly follows its own question, whoever else speaks in  *)
(* the session, and however requests fail.                                 *)
(***************************************************************************)
THEOREM AnswersStayWithQuestions == Spec => []AnswersFollowQuestions
<1>1. HelperInv => AnswersFollowQuestions
  BY DEF HelperInv
<1> QED
  BY <1>1, Invariant, PTL

(***************************************************************************)
(* All who speak in a session that was never deleted speak to one helper.  *)
(***************************************************************************)
THEOREM HelperIsShared == Spec => []OneHelperPerSession
<1>1. HelperInv => OneHelperPerSession
  BY DEF HelperInv
<1> QED
  BY <1>1, Invariant, PTL

(***************************************************************************)
(* No published statement is lost, whichever consumer dies at which point, *)
(* and however often the process does.                                     *)
(***************************************************************************)
THEOREM StatementsKept == Spec => []NothingLost
<1>1. StoreInv => NothingLost
  BY DEF StoreInv
<1> QED
  BY <1>1, Invariant, PTL

(***************************************************************************)
(* As long as nothing fails, no statement is executed twice.               *)
(***************************************************************************)
THEOREM WrittenOnce == Spec => []WrittenOnceWhenCalm
<1>1. StoreInv => WrittenOnceWhenCalm
  BY DEF StoreInv, OnePlaceWhenCalm, WrittenOnceWhenCalm
<1> QED
  BY <1>1, Invariant, PTL
-----------------------------------------------------------------------------
(* From here on, AIHelper's chat() in detail: module Answering. *)

Msg == [by : {"user", "model", "error", "prompt"}, q : Nat]

Prompted == pc = "routing" \/ (pc = "streaming" /\ routed)

(* What was remembered, what was published and what was lost of it. *)
Kept(mem, filed, missing) ==
  /\ mem \in Seq(Msg) /\ filed \in Seq(Msg)
  /\ InTurn(mem) /\ InTurn(filed)
  /\ missing \subseteq ToSet(mem) /\ ToSet(filed) = ToSet(mem) \ missing
  /\ \A m \in ToSet(mem) :
       m.by # "prompt" /\ \A l \in missing : l.q = m.q => l = m \/ m.by = "user"

(* The context is what was kept and, behind it, at most one prompt.  While *)
(* the turn of a prompt lasts nothing of it is kept, and while a stream    *)
(* without one lasts only its question.                                    *)
Remembered ==
  \E mem :
    /\ Kept(mem, rows, lost)
    /\ IF Prompted
       THEN (\E x \in Msg : messages = Append(mem, x)) /\ \A m \in ToSet(mem) : m.q < asked
       ELSE messages = mem /\ \A m \in ToSet(mem) : m.q <= asked
    /\ (pc = "streaming" /\ ~routed) =>
         /\ \A m \in ToSet(mem) : m.q < asked \/ m.by = "user"
         /\ \A l \in lost : l.q < asked

StrategyOK == strategy.shape \in {"choices", "output"} /\ strategy.maxContext \in Int

Requested ==
  pc # "idle" => messages # <<>> /\ sent = BuildRequestWithContext(strategy, messages)

(* What a reply must say for its call to run. *)
Admitted(call, params) ==
  /\ \A p \in DOMAIN call.args :
       p \in DOMAIN params /\ MatchesType(call.args[p], Param(params[p]).type)
  /\ \A p \in DOMAIN params : Param(params[p]).required => p \in DOMAIN call.args

Legal(call, said) ==
  /\ call.tool \in Registered
  /\ \E i \in DOMAIN ToolConfig :
        ToolConfig[i].name = call.tool /\ Admitted(call, ToolConfig[i].params)
  /\ said # <<>>
  /\ "need_tool" \in DOMAIN said[1].v => said[1].v["need_tool"].v = "true"
  /\ "tool_calls" \in DOMAIN said[1].v => Len(said[1].v["tool_calls"].v) = 1
  /\ Names(Decision(said[1].v), call.tool)
  /\ Gives(Decision(said[1].v), call.args)

RanAsAsked ==
  ran.status = "kValidToolCall" =>
    pc # "routing" /\ routed /\ Legal(ran, ExtractJsonObject(Replies[reply]))

(* The texts of the first n lines, in order and once each. *)
GivenUpTo(given, n) ==
  /\ given \in Seq(Nat)
  /\ \A k \in Nat : (\E i \in 1..Len(given) : given[i] = k)
                       <=> k \in 1..n /\ HasText(strategy, stream.lines[k])
  /\ \A i, j \in 1..Len(given) : i < j => given[i] < given[j]

Symbol == [part : {"head", "tail", "newline"}, kind : Kinds, n : Nat]

Context == [buffer : Seq(Symbol), sawData : BOOLEAN, fullResult : Seq(Nat)]

(* The state of the context after p symbols: n lines are done, and the     *)
(* buffer has the k symbols of the next one.                               *)
ReadUpTo(c, p, n, k) ==
  /\ c \in Context
  /\ p = 3 * n + k
  /\ Len(c.buffer) = k /\ \A i \in 1..k : c.buffer[i] = Wire(stream)[3 * n + i]
  /\ GivenUpTo(c.fullResult, n)

Reading(c, p) == \E n \in Nat, k \in 0..2 : ReadUpTo(c, p, n, k)

Streaming ==
  pc = "streaming" =>
    /\ stream \in Streams /\ received \in 0..Len(Wire(stream))
    /\ Reading(ctx, received)

ChatInv ==
  /\ pc \in {"idle", "routing", "streaming"} /\ asked \in Nat
  /\ pc = "routing" => routed
  /\ StrategyOK /\ Remembered /\ Requested /\ RanAsAsked /\ Streaming

-----------------------------------------------------------------------------
(* Numbers. *)

(* If 0 has the property, and each number up to n has it after its         *)
(* predecessor, all have it.                                               *)
LEMMA AllUpTo ==
  ASSUME NEW n \in Nat, NEW T, 0 \in T, \A i \in 1..n : i - 1 \in T => i \in T
  PROVE  \A i \in 0..n : i \in T
<1> DEFINE U == (0..n) \ T
<1>1. SUFFICES ASSUME U # {} PROVE FALSE
  OBVIOUS
<1>2. U \in SUBSET Nat
  OBVIOUS
<1>3. PICK x \in U : \A y \in U : x <= y
  BY <1>1, <1>2, LeastNat
<1>4. x \in 1..n /\ x - 1 \notin U
  BY <1>3
<1>5. x - 1 \in T
  BY <1>4
<1> QED
  BY <1>4, <1>5

-----------------------------------------------------------------------------
(* The stream. *)

(* The symbols of line n + 1. *)
LEMMA WireAt ==
  ASSUME NEW s, s.lines \in Seq(Kinds), s.closed \in BOOLEAN
  PROVE  /\ Wire(s) \in Seq(Symbol)
         /\ Len(Wire(s)) \in Nat /\ Len(Wire(s)) <= 3 * Len(s.lines)
         /\ \A n \in Nat, j \in 1..3 : 3 * n + j <= Len(Wire(s)) =>
              /\ n + 1 \in 1..Len(s.lines)
              /\ Wire(s)[3 * n + j].part = Parts[j]
              /\ Wire(s)[3 * n + j].kind = s.lines[n + 1]
              /\ Wire(s)[3 * n + j].n = n + 1
<1>1. PICK L : L = Len(s.lines) /\ L \in Nat
  BY LenProperties
<1>2. \A i \in 1..L : s.lines[i] \in Kinds
  BY <1>1, LenProperties
<1>3. PICK size : /\ size = IF s.closed \/ 3 * L = 0 THEN 3 * L ELSE 3 * L - 1
                  /\ size \in Nat /\ size <= 3 * L
  BY <1>1
<1> DEFINE at(i) == [part |-> Parts[i - 3 * ((i + 2) \div 3 - 1)],
                     kind |-> s.lines[(i + 2) \div 3], n |-> (i + 2) \div 3]
<1>4. Wire(s) = [i \in 1..size |-> at(i)]
  BY <1>1, <1>3 DEF Wire
<1>5. ASSUME NEW n \in Nat, NEW j \in 1..3
      PROVE  (3 * n + j + 2) \div 3 = n + 1 /\ (3 * n + j) - 3 * (n + 1 - 1) = j
  OBVIOUS
<1>6. ASSUME NEW i \in 1..size
      PROVE  \E n \in Nat, j \in 1..3 : i = 3 * n + j
  <2>1. PICK n, r : n = (i - 1) \div 3 /\ r = (i - 1) % 3
    OBVIOUS
  <2>2. n \in Nat /\ r \in 0..2 /\ i - 1 = 3 * n + r
    BY <1>3, <2>1
  <2>3. r + 1 \in 1..3 /\ i = 3 * n + (r + 1)
    BY <2>2
  <2> QED
    BY <2>2, <2>3
<1>7. ASSUME NEW n \in Nat, NEW j \in 1..3, 3 * n + j <= size
      PROVE  /\ n + 1 \in 1..L /\ 3 * n + j \in 1..size
             /\ at(3 * n + j) = [part |-> Parts[j], kind |-> s.lines[n + 1], n |-> n + 1]
             /\ at(3 * n + j) \in Symbol
  <2>1. n + 1 \in 1..L /\ 3 * n + j \in 1..size
    BY <1>1, <1>3, <1>7
  <2>2. at(3 * n + j) = [part |-> Parts[j], kind |-> s.lines[n + 1], n |-> n + 1]
    BY <1>5
  <2>5. Parts[1] = "head" /\ Parts[2] = "tail" /\ Parts[3] = "newline"
    BY DEF Parts
  <2>6. j = 1 \/ j = 2 \/ j = 3
    OBVIOUS
  <2>3. Parts[j] \in {"head", "tail", "newline"} /\ s.lines[n + 1] \in Kinds /\ n + 1 \in Nat
    BY <1>2, <2>1, <2>5, <2>6
  <2> HIDE DEF at
  <2>4. at(3 * n + j) \in Symbol
    BY <2>2, <2>3 DEF Symbol
  <2> QED
    BY <2>1, <2>2, <2>4
<1> HIDE DEF at
<1>8. ASSUME NEW i \in 1..size PROVE at(i) \in Symbol
  <2>1. PICK n \in Nat, j \in 1..3 : i = 3 * n + j
    BY <1>6
  <2>2. 3 * n + j <= size
    BY <2>1, <1>3
  <2> QED
    BY <2>1, <2>2, <1>7
<1>9. Wire(s) \in Seq(Symbol) /\ Len(Wire(s)) = size
  BY <1>3, <1>4, <1>8
<1>10. \A i \in 1..size : Wire(s)[i] = at(i)
  BY <1>4
<1>11. ASSUME NEW n \in Nat, NEW j \in 1..3, 3 * n + j <= size
       PROVE  /\ n + 1 \in 1..L
              /\ Wire(s)[3 * n + j].part = Parts[j]
              /\ Wire(s)[3 * n + j].kind = s.lines[n + 1]
              /\ Wire(s)[3 * n + j].n = n + 1
  <2>1. PICK i, r : i = 3 * n + j /\ r = [part |-> Parts[j], kind |-> s.lines[n + 1], n |-> n + 1]
    OBVIOUS
  <2>2. n + 1 \in 1..L /\ i \in 1..size /\ at(i) = r
    BY <2>1, <1>7, <1>11
  <2>3. Wire(s)[i] = r
    BY <2>2, <1>10
  <2>4. r.part = Parts[j] /\ r.kind = s.lines[n + 1] /\ r.n = n + 1
    BY <2>1
  <2> QED
    BY <2>1, <2>2, <2>3, <2>4
<1> QED
  BY <1>1, <1>3, <1>9, <1>11

(* A line whose text is for the client adds its number. *)
LEMMA MoreGiven ==
  ASSUME NEW g, NEW n \in Nat, GivenUpTo(g, n), NEW h,
         h = IF HasText(strategy, stream.lines[n + 1]) THEN Append(g, n + 1) ELSE g
  PROVE  GivenUpTo(h, n + 1)
<1>1. /\ g \in Seq(Nat) /\ Len(g) \in Nat
      /\ \A i \in 1..Len(g) : g[i] \in Nat
      /\ \A k \in Nat : (\E i \in 1..Len(g) : g[i] = k)
                           <=> k \in 1..n /\ HasText(strategy, stream.lines[k])
      /\ \A i, j \in 1..Len(g) : i < j => g[i] < g[j]
  BY LenProperties DEF GivenUpTo
<1>2. CASE HasText(strategy, stream.lines[n + 1])
  <2>1. /\ h \in Seq(Nat) /\ Len(h) = Len(g) + 1
        /\ \A i \in 1..Len(g) : h[i] = g[i]
        /\ h[Len(g) + 1] = n + 1
    BY <1>1, <1>2, AppendProperties
  <2>2. \A i \in 1..Len(g) : g[i] <= n
    BY <1>1
  <2>3. \A i, j \in 1..Len(h) : i < j => h[i] < h[j]
    BY <1>1, <2>1, <2>2
  <2>4. ASSUME NEW k \in Nat
        PROVE  (\E i \in 1..Len(h) : h[i] = k)
                  <=> k \in 1..(n + 1) /\ HasText(strategy, stream.lines[k])
    <3>1. CASE k = n + 1
      <4>1. Len(h) \in 1..Len(h) /\ h[Len(h)] = k
        BY <1>1, <2>1, <3>1
      <4>2. k \in 1..(n + 1) /\ HasText(strategy, stream.lines[k])
        BY <1>2, <3>1
      <4> QED
        BY <4>1, <4>2
    <3>2. CASE k # n + 1
      <4>1. k \in 1..(n + 1) <=> k \in 1..n
        BY <3>2
      <4>2. (\E i \in 1..Len(h) : h[i] = k) <=> (\E i \in 1..Len(g) : g[i] = k)
        BY <1>1, <2>1, <3>2
      <4> QED
        BY <1>1, <4>1, <4>2
    <3> QED
      BY <3>1, <3>2
  <2> QED
    BY <2>1, <2>3, <2>4 DEF GivenUpTo
<1>3. CASE ~HasText(strategy, stream.lines[n + 1])
  <2>1. ASSUME NEW k \in Nat
        PROVE  k \in 1..n /\ HasText(strategy, stream.lines[k])
                  <=> k \in 1..(n + 1) /\ HasText(strategy, stream.lines[k])
    <3>1. CASE k = n + 1
      BY <1>3, <3>1
    <3>2. CASE k # n + 1
      BY <3>2
    <3> QED
      BY <3>1, <3>2
  <2> QED
    BY <1>1, <1>3, <2>1 DEF GivenUpTo
<1> QED
  BY <1>2, <1>3

(* One more symbol. *)
LEMMA ScanReads ==
  ASSUME StrategyOK, stream.lines \in Seq(Kinds), stream.closed \in BOOLEAN,
         NEW c, NEW p \in Nat, Reading(c, p), p + 1 <= Len(Wire(stream))
  PROVE  Reading(Scan(c, Wire(stream)[p + 1], strategy), p + 1)
<1>1. PICK n \in Nat, k \in 0..2 : ReadUpTo(c, p, n, k)
  BY DEF Reading
<1>2. PICK w, x, d : w = Wire(stream) /\ x = w[p + 1] /\ d = Scan(c, x, strategy)
  OBVIOUS
<1>3. /\ c \in Context /\ p = 3 * n + k
      /\ c.buffer \in Seq(Symbol) /\ c.sawData \in BOOLEAN /\ c.fullResult \in Seq(Nat)
      /\ Len(c.buffer) = k /\ \A i \in 1..k : c.buffer[i] = w[3 * n + i]
      /\ GivenUpTo(c.fullResult, n)
  BY <1>1, <1>2 DEF ReadUpTo, Context
<1>9. /\ w \in Seq(Symbol) /\ Len(w) \in Nat
      /\ \A m \in Nat, j \in 1..3 : 3 * m + j <= Len(w) =>
           /\ w[3 * m + j].part = Parts[j]
           /\ w[3 * m + j].kind = stream.lines[m + 1]
           /\ w[3 * m + j].n = m + 1
  BY <1>2, WireAt
<1>4. ASSUME NEW j \in 1..(k + 1)
      PROVE  /\ w[3 * n + j].part = Parts[j]
             /\ w[3 * n + j].kind = stream.lines[n + 1]
             /\ w[3 * n + j].n = n + 1
  <2>3. p = 3 * n + k
    BY <1>3
  <2>1. j \in 1..3 /\ 3 * n + j <= p + 1
    BY <2>3
  <2>2. 3 * n + j <= Len(w)
    BY <1>2, <1>9, <2>1
  <2> QED
    BY <1>9, <2>1, <2>2
<1>5. x \in Symbol /\ x = w[3 * n + (k + 1)] /\ x.part = Parts[k + 1]
  <2>1. p + 1 = 3 * n + (k + 1) /\ k + 1 \in 1..(k + 1) /\ p + 1 \in 1..Len(w)
    BY <1>2, <1>3, <1>9
  <2> QED
    BY <1>2, <1>4, <1>9, <2>1, LenProperties
<1>10. PICK c0 : c0 = c.buffer
  OBVIOUS
<1>6. Parts[1] = "head" /\ Parts[2] = "tail" /\ Parts[3] = "newline"
  BY DEF Parts
<1>7. CASE k # 2
  <2>1. k + 1 \in 0..2 /\ (k = 0 \/ k = 1) /\ ~IsNewline(x)
    BY <1>5, <1>6, <1>7 DEF IsNewline
  <2>2. d = [c EXCEPT !.buffer = Append(c.buffer, x)]
    BY <1>2, <2>1 DEF Scan
  <2>4. PICK b : b = Append(c0, x)
    OBVIOUS
  <2>3. /\ b \in Seq(Symbol) /\ Len(b) = k + 1
        /\ \A i \in 1..k : b[i] = c0[i]
        /\ b[k + 1] = x
    BY <1>3, <1>5, <1>10, <2>4, AppendProperties
  <2>5. d \in Context /\ d.buffer = b /\ d.fullResult = c.fullResult
    BY <1>3, <1>10, <2>2, <2>3, <2>4 DEF Context
  <2>6. ASSUME NEW i \in 1..(k + 1) PROVE b[i] = w[3 * n + i]
    <3>1. CASE i = k + 1
      BY <1>5, <2>3, <3>1
    <3>2. CASE i \in 1..k
      BY <1>3, <1>10, <2>3, <3>2
    <3> QED
      BY <3>1, <3>2
  <2>8. p + 1 = 3 * n + (k + 1)
    BY <1>3
  <2>7. ReadUpTo(d, p + 1, n, k + 1)
    BY <1>2, <1>3, <2>3, <2>5, <2>6, <2>8 DEF ReadUpTo
  <2> QED
    BY <1>2, <2>1, <2>7 DEF Reading
<1>8. CASE k = 2
  <2>1. IsNewline(x)
    BY <1>5, <1>6, <1>8 DEF IsNewline
  <2>2. d = LineEnds(c, strategy)
    BY <1>2, <2>1 DEF Scan
  <2>3. PICK b, g : b = c.buffer /\ g = IF IsData(b) THEN OnChunk(strategy, c.fullResult, b)
                                        ELSE c.fullResult
    OBVIOUS
  <2>4. PICK saw : saw = (c.sawData \/ IsData(b))
    OBVIOUS
  <2>5. d = [buffer |-> <<>>, sawData |-> saw, fullResult |-> g]
    BY <2>2, <2>3, <2>4 DEF LineEnds
  <2>6. /\ Len(b) = 2 /\ b # <<>>
        /\ b[1].part = "head" /\ b[2].part = "tail"
        /\ b[1].kind = stream.lines[n + 1] /\ b[1].n = n + 1
    BY <1>3, <1>4, <1>6, <1>8, <2>3
  <2>7. IsWhole(b)
    BY <2>6 DEF IsWhole
  <2>8. HasText(strategy, stream.lines[n + 1]) => IsData(b)
    BY <2>6 DEF IsData, HasText, StrategyOK
  <2>9. g = IF HasText(strategy, stream.lines[n + 1]) THEN Append(c.fullResult, n + 1)
            ELSE c.fullResult
    BY <2>3, <2>6, <2>7, <2>8 DEF OnChunk
  <2>10. GivenUpTo(g, n + 1)
    BY <1>3, <2>9, MoreGiven
  <2>11. <<>> \in Seq(Symbol) /\ Len(<<>>) = 0
    BY EmptySeq
  <2>12. g \in Seq(Nat) /\ saw \in BOOLEAN
    BY <2>4, <2>10 DEF GivenUpTo
  <2>13. d \in Context /\ d.buffer = <<>> /\ d.fullResult = g
    BY <2>5, <2>11, <2>12 DEF Context
  <2>14. ReadUpTo(d, p + 1, n + 1, 0)
    BY <1>3, <1>8, <2>10, <2>11, <2>13 DEF ReadUpTo
  <2> QED
    BY <1>2, <2>14 DEF Reading
<1> QED
  BY <1>7, <1>8

IsScan(f, n, c, s, strat) ==
  f = [i \in 0..n |-> IF i = 0 THEN [c EXCEPT !.buffer = <<>>]
                      ELSE Scan(f[i - 1], s[i], strat)]

(* The equation of ScanAll holds. *)
LEMMA ScanUnfolds ==
  ASSUME NEW n \in Nat, NEW c, NEW s, NEW strat
  PROVE  IsScan(CHOOSE f : IsScan(f, n, c, s, strat), n, c, s, strat)
<1> DEFINE Entry(f, i) == IF i = 0 THEN [c EXCEPT !.buffer = <<>>]
                          ELSE Scan(f[i - 1], s[i], strat)
           T == {k \in 0..n : \E f : f = [i \in 0..k |-> Entry(f, i)]}
<1>1. 0 \in T
  <2>1. PICK f : f = [i \in 0..0 |-> [c EXCEPT !.buffer = <<>>]]
    OBVIOUS
  <2>2. f = [i \in 0..0 |-> Entry(f, i)]
    BY <2>1
  <2> QED
    BY <2>2
<1>2. ASSUME NEW k \in 1..n, k - 1 \in T PROVE k \in T
  <2>1. PICK f : f = [i \in 0..(k - 1) |-> Entry(f, i)]
    BY <1>2
  <2>2. PICK h : h = [i \in 0..k |-> IF i = k THEN Entry(f, k) ELSE f[i]]
    OBVIOUS
  <2>3. ASSUME NEW i \in 0..k PROVE h[i] = Entry(h, i)
    <3>1. CASE i = 0
      BY <2>1, <2>2, <3>1
    <3>2. CASE i \in 1..(k - 1)
      <4>1. i \in 0..(k - 1) /\ i - 1 \in 0..k /\ i # k /\ i - 1 # k
        BY <3>2
      <4>2. h[i] = f[i] /\ h[i - 1] = f[i - 1]
        BY <2>2, <4>1
      <4>3. f[i] = Entry(f, i)
        BY <2>1, <4>1
      <4> QED
        BY <4>2, <4>3
    <3>3. CASE i = k
      BY <2>1, <2>2, <3>3
    <3> QED
      BY <3>1, <3>2, <3>3
  <2>4. h = [i \in 0..k |-> Entry(h, i)]
    <3> HIDE DEF Entry
    <3> QED
      BY <2>2, <2>3
  <2> QED
    BY <2>4
<1>3. n \in T
  <2> HIDE DEF T
  <2>1. \A i \in 0..n : i \in T
    BY <1>1, <1>2, AllUpTo
  <2> QED
    BY <2>1
<1>4. PICK f : IsScan(f, n, c, s, strat)
  BY <1>3 DEF IsScan
<1> QED
  BY <1>4, Zenon

(* However the bytes are cut, a piece leaves what reading it symbol by     *)
(* symbol leaves.                                                          *)
LEMMA PieceReads ==
  ASSUME StrategyOK, stream.lines \in Seq(Kinds), stream.closed \in BOOLEAN,
         NEW c, NEW p \in Nat, Reading(c, p),
         NEW m \in Nat, p + m <= Len(Wire(stream)), NEW d,
         d = StreamingWriteCallback(c, SubSeq(Wire(stream), p + 1, p + m), strategy)
  PROVE  Reading(d, p + m)
<1>1. PICK n \in Nat, k \in 0..2 : ReadUpTo(c, p, n, k)
  BY DEF Reading
<1>2. PICK w, b, piece, s :
        /\ w = Wire(stream) /\ b = c.buffer
        /\ piece = SubSeq(w, p + 1, p + m) /\ s = b \o piece
  OBVIOUS
<1>3. /\ c \in Context /\ p = 3 * n + k
      /\ b \in Seq(Symbol) /\ Len(b) = k /\ \A i \in 1..k : b[i] = w[3 * n + i]
      /\ GivenUpTo(c.fullResult, n)
  BY <1>1, <1>2 DEF ReadUpTo, Context
<1>4. w \in Seq(Symbol) /\ Len(w) \in Nat
  BY <1>2, WireAt
<1>5. /\ piece \in Seq(Symbol) /\ Len(piece) = m
      /\ \A i \in 1..m : piece[i] = w[p + i]
  <2>1. \A i \in (p + 1)..(p + m) : w[i] \in Symbol
    BY <1>2, <1>4, LenProperties
  <2>2. /\ piece \in Seq(Symbol)
        /\ Len(piece) = IF p + 1 <= p + m THEN p + m - (p + 1) + 1 ELSE 0
        /\ \A i \in 1..(p + m - (p + 1) + 1) : piece[i] = w[p + 1 + i - 1]
    BY <1>2, <2>1, SubSeqProperties
  <2> QED
    BY <2>2
<1>6. /\ Len(s) = k + m
      /\ \A i \in 1..(k + m) : s[i] = w[3 * n + i]
  <2>1. /\ Len(s) = k + m
        /\ \A i \in 1..(k + m) : s[i] = IF i <= k THEN b[i] ELSE piece[i - k]
    <3>1. /\ Len(b \o piece) = Len(b) + Len(piece)
          /\ \A i \in 1..(Len(b) + Len(piece)) :
               (b \o piece)[i] = IF i <= Len(b) THEN b[i] ELSE piece[i - Len(b)]
      <4>1. b \in Seq(Symbol) /\ piece \in Seq(Symbol)
        BY <1>3, <1>5
      <4> QED
        BY <4>1, ConcatProperties
    <3> QED
      BY <1>2, <1>3, <1>5, <3>1
  <2>2. ASSUME NEW i \in 1..(k + m) PROVE s[i] = w[3 * n + i]
    <3>1. CASE i <= k
      <4>1. i \in 1..k /\ s[i] = b[i]
        BY <2>1, <3>1
      <4>2. b[i] = w[3 * n + i]
        BY <1>3, <4>1
      <4> QED
        BY <4>1, <4>2
    <3>2. CASE ~(i <= k)
      <4>1. i - k \in 1..m /\ p + (i - k) = 3 * n + i
        BY <1>3, <3>2
      <4> QED
        BY <1>5, <2>1, <3>2, <4>1
    <3> QED
      BY <3>1, <3>2
  <2> QED
    BY <2>1, <2>2
<1>7. PICK f : f = CHOOSE g : IsScan(g, k + m, c, s, strategy)
  OBVIOUS
<1>8. d = f[k + m]
  <2>1. d = ScanAll(c, s, strategy)
    BY <1>2 DEF StreamingWriteCallback
  <2>2. Len(s) = k + m
    BY <1>6
  <2> QED
    BY <1>7, <2>1, <2>2 DEF ScanAll, IsScan
<1>9. /\ f[0] = [c EXCEPT !.buffer = <<>>]
      /\ \A i \in 1..(k + m) : f[i] = Scan(f[i - 1], s[i], strategy)
  <2>1. k + m \in Nat
    OBVIOUS
  <2>2. IsScan(f, k + m, c, s, strategy)
    BY <1>7, <2>1, ScanUnfolds
  <2>3. \A i \in 0..(k + m) : f[i] = IF i = 0 THEN [c EXCEPT !.buffer = <<>>]
                                     ELSE Scan(f[i - 1], s[i], strategy)
    BY <2>2 DEF IsScan
  <2>4. 0 \in 0..(k + m)
    BY <2>1
  <2>5. ASSUME NEW i \in 1..(k + m) PROVE i \in 0..(k + m) /\ i # 0
    OBVIOUS
  <2> QED
    BY <2>3, <2>4, <2>5
<1> DEFINE T == {i \in 0..(k + m) : Reading(f[i], 3 * n + i)}
<1>10. 0 \in T
  <2>1. <<>> \in Seq(Symbol) /\ Len(<<>>) = 0
    BY EmptySeq
  <2>2. f[0] \in Context /\ f[0].buffer = <<>> /\ f[0].fullResult = c.fullResult
    <3>1. f[0] = [c EXCEPT !.buffer = <<>>] /\ c \in Context
      BY <1>3, <1>9
    <3> QED
      BY <2>1, <3>1 DEF Context
  <2>3. ReadUpTo(f[0], 3 * n + 0, n, 0)
    BY <1>3, <2>1, <2>2 DEF ReadUpTo
  <2> QED
    BY <2>3 DEF Reading
<1>11. ASSUME NEW i \in 1..(k + m), i - 1 \in T PROVE i \in T
  <2>1. Reading(f[i - 1], 3 * n + (i - 1)) /\ 3 * n + (i - 1) \in Nat
    BY <1>11
  <2>2. 3 * n + (i - 1) + 1 = 3 * n + i /\ 3 * n + i <= p + m
    BY <1>3
  <2>3. f[i] = Scan(f[i - 1], w[3 * n + (i - 1) + 1], strategy)
    BY <1>6, <1>9, <2>2
  <2>4. 3 * n + (i - 1) + 1 <= Len(Wire(stream))
    BY <1>2, <1>3, <1>4, <2>2
  <2>5. Reading(f[i], 3 * n + (i - 1) + 1)
    BY <1>2, <2>1, <2>3, <2>4, ScanReads
  <2> QED
    BY <2>2, <2>5
<1>12. k + m \in T
  <2> HIDE DEF T
  <2>1. k + m \in Nat /\ k + m \in 0..(k + m)
    OBVIOUS
  <2>2. \A i \in 0..(k + m) : i \in T
    BY <1>10, <1>11, <2>1, AllUpTo
  <2> QED
    BY <2>1, <2>2
<1>13. 3 * n + (k + m) = p + m
  BY <1>3
<1> QED
  BY <1>8, <1>12, <1>13

-----------------------------------------------------------------------------
(* The request. *)

LEMMA Joined ==
  ASSUME NEW S, NEW a \in Seq(S), NEW b \in Seq(S), NEW t, t = a \o b
  PROVE  /\ t \in Seq(S) /\ Len(t) = Len(a) + Len(b) /\ Len(a) \in Nat /\ Len(b) \in Nat
         /\ \A i \in 1..Len(t) : t[i] = IF i <= Len(a) THEN a[i] ELSE b[i - Len(a)]
BY ConcatProperties, LenProperties

LEMMA CutOut ==
  ASSUME NEW S, NEW s \in Seq(S), NEW m \in 1..Len(s), NEW n \in (m - 1)..Len(s),
         NEW t, t = SubSeq(s, m, n)
  PROVE  /\ t \in Seq(S) /\ Len(t) = n - m + 1
         /\ \A i \in 1..(n - m + 1) : t[i] = s[m + i - 1]
<1>1. Len(s) \in Nat /\ \A i \in 1..Len(s) : s[i] \in S
  BY LenProperties
<1>2. m \in Int /\ n \in Int /\ \A i \in m..n : s[i] \in S
  BY <1>1
<1>3. /\ t \in Seq(S) /\ Len(t) = IF m <= n THEN n - m + 1 ELSE 0
      /\ \A i \in 1..(n - m + 1) : t[i] = s[m + i - 1]
  BY <1>2, SubSeqProperties
<1> QED
  BY <1>1, <1>2, <1>3

(* What stands where in t, which is s with e put in at place 3, and that   *)
(* taking it out gives s back.                                             *)
HasPutIn(t, s, e) ==
  /\ Len(t) = Len(s) + 1
  /\ \A i \in 1..2 : t[i] = s[i]
  /\ t[3] = e
  /\ \A i \in 4..Len(t) : t[i] = s[i - 1]
  /\ RemoveAt(t, 3) = s

LEMMA PutIn ==
  ASSUME NEW S, NEW s \in Seq(S), Len(s) >= 2, NEW e \in S, NEW t, t = InsertAt(s, 3, e)
  PROVE  t \in Seq(S) /\ HasPutIn(t, s, e)
<1>1. Len(s) \in Nat /\ \A i \in 1..Len(s) : s[i] \in S
  BY LenProperties
<1>2. PICK a, b : a = SubSeq(s, 1, 2) /\ b = SubSeq(s, 3, Len(s))
  OBVIOUS
<1>3. a \in Seq(S) /\ Len(a) = 2 /\ \A i \in 1..2 : a[i] = s[i]
  <2>1. a \in Seq(S) /\ Len(a) = 2 - 1 + 1 /\ \A i \in 1..(2 - 1 + 1) : a[i] = s[1 + i - 1]
    <3>1. 1 \in 1..Len(s) /\ 2 \in (1 - 1)..Len(s)
      BY <1>1
    <3> QED
      BY <1>2, <3>1, CutOut
  <2> QED
    BY <2>1
<1>4. b \in Seq(S) /\ Len(b) = Len(s) - 2 /\ \A i \in 1..(Len(s) - 2) : b[i] = s[i + 2]
  <2>1. CASE Len(s) = 2
    <3>1. b = <<>>
      BY <1>2, <2>1, SubSeqEmpty
    <3> QED
      BY <2>1, <3>1
  <2>2. CASE Len(s) # 2
    <3>4. PICK M : M = Len(s)
      OBVIOUS
    <3>5. M \in Nat /\ M >= 2 /\ M # 2
      BY <1>1, <2>2, <3>4
    <3>3. PICK L \in Nat : L = Len(s) /\ L >= 3
      BY <3>4, <3>5
    <3>1. 3 \in 1..Len(s) /\ Len(s) \in (3 - 1)..Len(s)
      BY <3>3
    <3>2. /\ b \in Seq(S) /\ Len(b) = Len(s) - 3 + 1
          /\ \A i \in 1..(Len(s) - 3 + 1) : b[i] = s[3 + i - 1]
      BY <1>2, <3>1, CutOut
    <3> QED
      BY <1>1, <3>2
  <2> QED
    BY <2>1, <2>2
<1>5. PICK u, v : u = <<e>> /\ v = a \o u
  OBVIOUS
<1>6. u \in Seq(S) /\ Len(u) = 1 /\ u[1] = e
  BY <1>5
<1>7. v \in Seq(S) /\ Len(v) = 3 /\ (\A i \in 1..2 : v[i] = s[i]) /\ v[3] = e
  <2>1. a \in Seq(S) /\ u \in Seq(S) /\ v = a \o u
    BY <1>3, <1>5, <1>6
  <2>2. /\ v \in Seq(S) /\ Len(v) = Len(a) + Len(u)
        /\ \A i \in 1..Len(v) : v[i] = IF i <= Len(a) THEN a[i] ELSE u[i - Len(a)]
    BY <2>1, Joined
  <2>3. Len(v) = 3 /\ 3 \in 1..Len(v) /\ ~(3 <= Len(a)) /\ 3 - Len(a) = 1
    BY <1>3, <1>6, <2>2
  <2>4. v[3] = e
    BY <1>6, <2>2, <2>3
  <2>5. ASSUME NEW i \in 1..2 PROVE v[i] = s[i]
    BY <1>3, <2>2, <2>3
  <2> QED
    BY <2>2, <2>3, <2>4, <2>5
<1>8. t = v \o b
  BY <1>2, <1>5 DEF InsertAt
<1>9. /\ t \in Seq(S) /\ Len(t) = Len(s) + 1
      /\ \A i \in 1..(Len(s) + 1) : t[i] = IF i <= 3 THEN v[i] ELSE b[i - 3]
  <2>1. PICK z : z = v \o b
    OBVIOUS
  <2>4. v \in Seq(S) /\ b \in Seq(S)
    BY <1>4, <1>7
  <2>5. /\ z \in Seq(S) /\ Len(z) = Len(v) + Len(b)
        /\ \A i \in 1..Len(z) : z[i] = IF i <= Len(v) THEN v[i] ELSE b[i - Len(v)]
    BY <2>1, <2>4, Joined
  <2>2. /\ t \in Seq(S) /\ Len(t) = Len(v) + Len(b)
        /\ \A i \in 1..Len(t) : t[i] = IF i <= Len(v) THEN v[i] ELSE b[i - Len(v)]
    BY <1>8, <2>1, <2>5
  <2>3. Len(v) = 3 /\ Len(v) + Len(b) = Len(s) + 1
    BY <1>1, <1>4, <1>7
  <2> QED
    BY <2>2, <2>3
<1>10. (\A i \in 1..2 : t[i] = s[i]) /\ t[3] = e
  <2>1. \A i \in 1..3 : i \in 1..(Len(s) + 1) /\ i <= 3
    BY <1>1
  <2>2. \A i \in 1..3 : t[i] = v[i]
    BY <1>9, <2>1
  <2> QED
    BY <1>7, <2>2
<1>11. ASSUME NEW i \in 4..Len(t) PROVE t[i] = s[i - 1]
  <2>1. i \in 1..(Len(s) + 1) /\ ~(i <= 3) /\ i - 3 \in 1..(Len(s) - 2) /\ i - 3 + 2 = i - 1
    BY <1>1, <1>9
  <2> QED
    BY <1>4, <1>9, <2>1
<1>12. PICK x, y : x = SubSeq(t, 1, 2) /\ y = SubSeq(t, 4, Len(t))
  OBVIOUS
<1>13. t \in Seq(S) /\ Len(t) = Len(s) + 1 /\ Len(t) \in Nat
  BY <1>1, <1>9
<1>14. x \in Seq(S) /\ Len(x) = 2 /\ \A i \in 1..2 : x[i] = s[i]
  <2>1. 1 \in 1..Len(t) /\ 2 \in (1 - 1)..Len(t)
    BY <1>1, <1>13
  <2>2. x \in Seq(S) /\ Len(x) = 2 - 1 + 1 /\ \A i \in 1..(2 - 1 + 1) : x[i] = t[1 + i - 1]
    <3>1. t \in Seq(S) /\ x = SubSeq(t, 1, 2)
      BY <1>12, <1>13
    <3> QED
      BY <2>1, <3>1, CutOut
  <2> QED
    BY <1>10, <2>2
<1>15. y \in Seq(S) /\ Len(y) = Len(s) - 2 /\ \A i \in 1..(Len(s) - 2) : y[i] = s[i + 2]
  <2>1. CASE Len(t) = 3
    <3>1. y = <<>>
      <4>1. y = SubSeq(t, 4, 3)
        BY <1>12, <2>1
      <4> QED
        BY <4>1, SubSeqEmpty
    <3>2. Len(s) = 2
      <4>1. PICK M, N : M = Len(s) /\ N = Len(t)
        OBVIOUS
      <4>2. M \in Nat /\ N = M + 1 /\ N = 3
        BY <1>1, <1>13, <2>1, <4>1
      <4> QED
        BY <4>1, <4>2
    <3> QED
      BY <3>1, <3>2
  <2>2. CASE Len(t) # 3
    <3>5. PICK L \in Nat : L = Len(t) /\ L >= 4
      <4>1. PICK M, N : M = Len(s) /\ N = Len(t)
        OBVIOUS
      <4>2. M \in Nat /\ M >= 2 /\ N = M + 1 /\ N # 3
        BY <1>1, <1>13, <2>2, <4>1
      <4>3. N \in Nat /\ N >= 4
        BY <4>2
      <4> QED
        BY <4>1, <4>3
    <3>1. 4 \in 1..Len(t) /\ Len(t) \in (4 - 1)..Len(t)
      BY <3>5
    <3>2. /\ y \in Seq(S) /\ Len(y) = Len(t) - 4 + 1
          /\ \A i \in 1..(Len(t) - 4 + 1) : y[i] = t[4 + i - 1]
      BY <1>12, <1>13, <3>1, CutOut
    <3>3. ASSUME NEW i \in 1..(Len(s) - 2) PROVE y[i] = s[i + 2]
      <4>1. i \in 1..(Len(t) - 4 + 1) /\ 4 + i - 1 \in 4..Len(t) /\ 4 + i - 1 - 1 = i + 2
        BY <1>1, <1>13
      <4> QED
        BY <1>11, <3>2, <4>1
    <3>4. Len(t) - 4 + 1 = Len(s) - 2
      BY <1>1, <1>13
    <3> QED
      BY <3>2, <3>3, <3>4
  <2> QED
    BY <2>1, <2>2
<1>16. x \o y = s
  <2>1. x \in Seq(S) /\ y \in Seq(S)
    BY <1>14, <1>15
  <2>2. PICK z : z = x \o y
    OBVIOUS
  <2>3. /\ z \in Seq(S) /\ Len(z) = Len(x) + Len(y)
        /\ \A i \in 1..Len(z) : z[i] = IF i <= Len(x) THEN x[i] ELSE y[i - Len(x)]
    BY <2>1, <2>2, Joined
  <2>4. Len(z) = Len(s) /\ Len(x) = 2
    BY <1>1, <1>14, <1>15, <2>3
  <2>5. ASSUME NEW i \in 1..Len(z) PROVE z[i] = s[i]
    <3>1. CASE i <= 2
      BY <1>14, <2>3, <2>4, <3>1
    <3>2. CASE ~(i <= 2)
      <4>1. i - 2 \in 1..(Len(s) - 2) /\ i - 2 + 2 = i
        BY <1>1, <2>4, <3>2
      <4> QED
        BY <1>15, <2>3, <2>4, <3>2, <4>1
    <3> QED
      BY <3>1, <3>2
  <2> QED
    BY <2>2, <2>3, <2>4, <2>5, SeqEqual
<1>17. RemoveAt(t, 3) = x \o y
  BY <1>12 DEF RemoveAt
<1> QED
  BY <1>9, <1>10, <1>11, <1>16, <1>17 DEF HasPutIn

TextsOf(b) == [i \in DOMAIN b |-> b[i].msg]

PlaceRole(i) == IF i % 2 = 1 THEN "user" ELSE "assistant"

(* buildRequest gives every message a role, by its place. *)
LEMMA RolesByPlace ==
  ASSUME NEW S, NEW s \in Seq(S), NEW b, b = BuildRequest(s)
  PROVE  /\ b \in Seq([role : {"user", "assistant"}, msg : S]) /\ Len(b) = Len(s)
         /\ \A i \in 1..Len(s) :
              b[i].msg = s[i] /\ b[i].role = PlaceRole(i)
         /\ TextsOf(b) = s
<1>1. PICK n : n = Len(s) /\ n \in Nat /\ DOMAIN s = 1..n /\ s = [i \in 1..n |-> s[i]]
               /\ \A i \in 1..n : s[i] \in S
  BY LenProperties
<1> DEFINE with(i) == [role |-> PlaceRole(i), msg |-> s[i]]
           R == [role : {"user", "assistant"}, msg : S]
<1>2. b = [i \in 1..n |-> with(i)]
  BY <1>1 DEF BuildRequest, PlaceRole
<1>3. \A i \in 1..n : /\ with(i) \in R /\ with(i).msg = s[i]
                      /\ with(i).role = PlaceRole(i)
  BY <1>1 DEF PlaceRole
<1> HIDE DEF with, R
<1>4. b \in Seq(R) /\ Len(b) = n /\ DOMAIN b = 1..n /\ \A i \in 1..n : b[i] = with(i)
  <2>1. \A i \in 1..n : with(i) \in R
    BY <1>3
  <2>2. b \in [1..n -> R] /\ DOMAIN b = 1..n /\ \A i \in 1..n : b[i] = with(i)
    BY <1>2, <2>1
  <2>3. b \in Seq(R)
    BY <1>1, <2>2
  <2>4. Len(b) = n
    BY <1>1, <2>2, <2>3, LenProperties
  <2> QED
    BY <2>2, <2>3, <2>4
<1>5. [i \in DOMAIN b |-> b[i].msg] = [i \in 1..n |-> s[i]]
  BY <1>3, <1>4
<1>6. b \in Seq([role : {"user", "assistant"}, msg : S])
  BY <1>4 DEF R
<1>7. TextsOf(b) = s
  BY <1>1, <1>5 DEF TextsOf
<1>8. \A i \in 1..Len(s) : /\ b[i].msg = s[i]
                           /\ b[i].role = PlaceRole(i)
  BY <1>1, <1>3, <1>4
<1> QED
  BY <1>1, <1>4, <1>6, <1>7, <1>8

(* While the context alternates, a role by place is the role of the writer. *)
LEMMA SpeaksByPlace ==
  ASSUME Alternates, NEW i \in DOMAIN messages, NEW x, x.msg = messages[i],
         x.role = PlaceRole(i)
  PROVE  SpeaksAs(x)
BY DEF Alternates, SpeaksAs, PlaceRole

LEMMA WholeRequest ==
  ASSUME messages \in Seq(Msg), Fits(strategy, messages),
         sent = BuildRequestWithContext(strategy, messages)
  PROVE  RequestIsFaithful
<1>1. PICK n, b, g : n = Len(messages) /\ b = sent /\ g = Len(messages) - Len(messages)
  OBVIOUS
<1>2. n \in Nat /\ DOMAIN messages = 1..n
  BY <1>1, LenProperties
<1>3. b = BuildRequest(messages)
  BY <1>1 DEF BuildRequestWithContext
<1>4. /\ b \in Seq([role : {"user", "assistant"}, msg : Msg]) /\ Len(b) = n
      /\ \A i \in 1..n : /\ b[i].msg = messages[i]
                         /\ b[i].role = PlaceRole(i)
      /\ TextsOf(b) = messages
  <2>1. messages \in Seq(Msg)
    OBVIOUS
  <2>2. /\ b \in Seq([role : {"user", "assistant"}, msg : Msg]) /\ Len(b) = Len(messages)
        /\ \A i \in 1..Len(messages) : b[i].msg = messages[i] /\ b[i].role = PlaceRole(i)
        /\ TextsOf(b) = messages
    BY <1>3, <2>1, RolesByPlace
  <2> QED
    BY <1>1, <2>2
<1>5. DOMAIN b = 1..n
  BY <1>4, LenProperties
<1>6. \A i \in 1..n : b[i].role # "system"
  BY <1>4 DEF PlaceRole
<1>7. Notices = {}
  BY <1>1, <1>5, <1>6 DEF Notices
<1>8. Len(messages) - Len(messages) = 0
  BY <1>1, <1>2
<1>9. ASSUME Alternates, NEW i \in DOMAIN sent PROVE SpeaksAs(sent[i])
  <2>1. i \in 1..n
    BY <1>1, <1>5, <1>9
  <2> QED
    BY <1>1, <1>2, <1>4, <1>9, <2>1, SpeaksByPlace
<1> QED
  BY <1>1, <1>4, <1>7, <1>8, <1>9 DEF RequestIsFaithful, TextsOf

LEMMA TrimmedRequest ==
  ASSUME StrategyOK, messages \in Seq(Msg), ~Fits(strategy, messages),
         sent = BuildRequestWithContext(strategy, messages)
  PROVE  RequestIsFaithful
<1>1. PICK n, k : n = Len(messages) /\ k = 2 * strategy.maxContext
  OBVIOUS
<1>2. n \in Nat /\ k \in Nat /\ k >= 2 /\ n > k + 2 /\ DOMAIN messages = 1..n
  <2>1. PICK c : c = strategy.maxContext
    OBVIOUS
  <2>2. c \in Int /\ ~(c <= 0 \/ n <= 2 * c + 2)
    BY <1>1, <2>1 DEF StrategyOK, Fits
  <2>3. n \in Nat /\ DOMAIN messages = 1..n
    BY <1>1, LenProperties
  <2> QED
    BY <1>1, <2>1, <2>2, <2>3
<1>3. PICK a, z, w, b, e :
        /\ a = SubSeq(messages, 1, 2) /\ z = SubSeq(messages, n - k + 1, n)
        /\ w = a \o z /\ b = BuildRequest(w) /\ e = Notice((n - k - 2) \div 2)
  OBVIOUS
<1>4. sent = InsertAt(b, 3, e)
  BY <1>1, <1>3 DEF BuildRequestWithContext
<1>5. a \in Seq(Msg) /\ Len(a) = 2 /\ \A i \in 1..2 : a[i] = messages[i]
  <2>1. 1 \in 1..Len(messages) /\ 2 \in (1 - 1)..Len(messages)
    BY <1>1, <1>2
  <2>2. a \in Seq(Msg) /\ Len(a) = 2 - 1 + 1 /\ \A i \in 1..(2 - 1 + 1) : a[i] = messages[1 + i - 1]
    BY <1>3, <2>1, CutOut
  <2> QED
    BY <2>2
<1>6. z \in Seq(Msg) /\ Len(z) = k
  <2>4. PICK m : m = n - k + 1
    OBVIOUS
  <2>5. m \in 1..n /\ n \in (m - 1)..n
    BY <1>2, <2>4
  <2>1. m \in 1..Len(messages) /\ n \in (m - 1)..Len(messages)
    BY <1>1, <2>5
  <2>2. z \in Seq(Msg) /\ Len(z) = n - m + 1
    BY <1>3, <2>1, <2>4, CutOut
  <2>3. n - m + 1 = k
    BY <1>2, <2>4
  <2> QED
    BY <2>2, <2>3
<1>7. w \in Seq(Msg) /\ Len(w) = k + 2 /\ \A i \in 1..2 : w[i] = messages[i]
  <2>1. a \in Seq(Msg) /\ z \in Seq(Msg)
    BY <1>5, <1>6
  <2>2. /\ w \in Seq(Msg) /\ Len(w) = Len(a) + Len(z)
        /\ \A i \in 1..Len(w) : w[i] = IF i <= Len(a) THEN a[i] ELSE z[i - Len(a)]
    BY <1>3, <2>1, Joined
  <2>3. Len(w) = k + 2 /\ \A i \in 1..2 : i \in 1..Len(w) /\ i <= Len(a)
    BY <1>2, <1>5, <1>6, <2>2
  <2> QED
    BY <1>5, <2>2, <2>3
<1> DEFINE R == [role : {"user", "assistant"}, msg : Msg]
<1>8. /\ b \in Seq(R) /\ Len(b) = k + 2
      /\ \A i \in 1..(k + 2) : /\ b[i].msg = w[i]
                               /\ b[i].role = PlaceRole(i)
      /\ TextsOf(b) = w
  <2>1. w \in Seq(Msg)
    BY <1>7
  <2>2. /\ b \in Seq([role : {"user", "assistant"}, msg : Msg]) /\ Len(b) = Len(w)
        /\ \A i \in 1..Len(w) : b[i].msg = w[i] /\ b[i].role = PlaceRole(i)
        /\ TextsOf(b) = w
    <3>1. b = BuildRequest(w)
      BY <1>3
    <3> HIDE DEF R
    <3> QED
      BY <2>1, <3>1, RolesByPlace
  <2> QED
    BY <1>7, <2>2
<1>9. e.role = "system"
  BY <1>3 DEF Notice
<1> HIDE DEF R
<1>10. /\ Len(sent) = k + 3 /\ DOMAIN sent = 1..(k + 3)
       /\ \A i \in 1..2 : sent[i] = b[i]
       /\ sent[3] = e
       /\ \A i \in 4..(k + 3) : sent[i] = b[i - 1]
       /\ RemoveAt(sent, 3) = b
  <2>8. PICK S : S = R \cup {e}
    OBVIOUS
  <2>1. b \in Seq(S) /\ e \in S
    BY <1>8, <2>8, SeqMonotonic
  <2>2. Len(b) >= 2
    BY <1>2, <1>8
  <2>3. PICK t : t = sent
    OBVIOUS
  <2>4. /\ t \in Seq(S) /\ Len(t) = Len(b) + 1
        /\ \A i \in 1..2 : t[i] = b[i]
        /\ t[3] = e
        /\ \A i \in 4..Len(t) : t[i] = b[i - 1]
        /\ RemoveAt(t, 3) = b
    <3>1. t = InsertAt(b, 3, e)
      BY <1>4, <2>3
    <3>2. t \in Seq(S) /\ HasPutIn(t, b, e)
      BY <2>1, <2>2, <3>1, PutIn
    <3> QED
      BY <3>2 DEF HasPutIn
  <2>5. Len(t) = k + 3
    BY <1>2, <1>8, <2>4
  <2>6. DOMAIN t = 1..(k + 3)
    BY <2>4, <2>5, LenProperties
  <2> QED
    BY <2>3, <2>4, <2>5, <2>6
<1>11. \A i \in 1..(k + 2) : b[i].role # "system"
  BY <1>8 DEF PlaceRole
<1>12. Notices = {3}
  <2>1. ASSUME NEW i \in 1..(k + 3) PROVE sent[i].role = "system" <=> i = 3
    <3>1. CASE i \in 1..2
      BY <1>2, <1>10, <1>11, <3>1
    <3>2. CASE i = 3
      BY <1>9, <1>10, <3>2
    <3>3. CASE i \in 4..(k + 3)
      <4>1. i - 1 \in 1..(k + 2) /\ i # 3
        BY <1>2, <3>3
      <4> QED
        BY <1>10, <1>11, <3>3, <4>1
    <3>4. i \in 1..2 \/ i = 3 \/ i \in 4..(k + 3)
      BY <1>2
    <3> QED
      BY <3>1, <3>2, <3>3, <3>4
  <2>2. 3 \in 1..(k + 3)
    BY <1>2
  <2> QED
    BY <1>10, <2>1, <2>2 DEF Notices
<1>13. PICK gap : gap = Len(messages) - Len(w)
  OBVIOUS
<1>14. gap # 0 /\ 3 + gap = n - k + 1 /\ Len(w) >= 2 * strategy.maxContext + 2
  BY <1>1, <1>2, <1>7, <1>13
<1>15. w = SubSeq(messages, 1, 2) \o SubSeq(messages, 3 + gap, Len(messages))
  BY <1>1, <1>3, <1>14
<1>16. ASSUME Alternates, NEW i \in DOMAIN sent, i < 3 PROVE SpeaksAs(sent[i])
  <2>1. i \in 1..2 /\ i \in 1..(k + 2) /\ i \in DOMAIN messages
    BY <1>2, <1>10, <1>16
  <2>2. /\ sent[i].msg = messages[i]
        /\ sent[i].role = PlaceRole(i)
    BY <1>7, <1>8, <1>10, <2>1
  <2> QED
    BY <1>16, <2>1, <2>2, SpeaksByPlace
<1>17. Alternates => \A i \in DOMAIN sent : (\A m \in Notices : i < m) => SpeaksAs(sent[i])
  BY <1>12, <1>16
<1> QED
  BY <1>8, <1>10, <1>12, <1>13, <1>14, <1>15, <1>17 DEF RequestIsFaithful, TextsOf

-----------------------------------------------------------------------------
(* The tool call. *)

(* findTool finds a tool of that name, if one is listed. *)
LEMMA ToolFound ==
  ASSUME NEW name, IsListed(name)
  PROVE  \E i \in DOMAIN ToolConfig :
           /\ ToolConfig[i].name = name
           /\ FindTool(name) = [p \in DOMAIN ToolConfig[i].params |->
                                  Param(ToolConfig[i].params[p])]
<1>1. PICK I : I = {i \in 1..Len(ToolConfig) : ToolConfig[i].name = name}
  OBVIOUS
<1>2. DOMAIN ToolConfig = 1..Len(ToolConfig) /\ Len(ToolConfig) \in Nat
  BY AnsweringAssumption, LenProperties
<1>3. I \subseteq Nat /\ I # {}
  BY <1>1, <1>2 DEF IsListed
<1>4. PICK i : i = Min(I)
  OBVIOUS
<1>5. i \in DOMAIN ToolConfig /\ ToolConfig[i].name = name
  BY <1>1, <1>2, <1>3, <1>4, LeastIsIn
<1>6. SelectInSeq(ToolConfig, LAMBDA x : x.name = name) = i
  BY <1>1, <1>3, <1>4 DEF SelectInSeq
<1>7. FindTool(name) = [p \in DOMAIN ToolConfig[i].params |-> Param(ToolConfig[i].params[p])]
  BY <1>6 DEF FindTool
<1> QED
  BY <1>5, <1>7

(* The first name that a tool has is one that the object gives it. *)
LEMMA FirstName ==
  ASSUME NEW decision, NEW first,
         first = SelectInSeq(NameKeys, LAMBDA k : IsName(decision, k)), first # 0
  PROVE  Names(decision, decision[NameKeys[first]].v)
<1>1. PICK I : I = {i \in 1..3 : IsName(decision, NameKeys[i])}
  OBVIOUS
<1>2. first = IF I # {} THEN Min(I) ELSE 0
  <2>1. Len(NameKeys) = 3
    BY DEF NameKeys
  <2> QED
    BY <1>1, <2>1 DEF SelectInSeq
<1>3. I \subseteq Nat /\ I # {} /\ first = Min(I)
  BY <1>1, <1>2
<1>4. first \in I
  BY <1>3, LeastIsIn
<1>5. PICK key : key = NameKeys[first]
  OBVIOUS
<1>6. key \in {"tool", "tool_name", "name"} /\ IsName(decision, key)
  <2>1. NameKeys[1] = "tool" /\ NameKeys[2] = "tool_name" /\ NameKeys[3] = "name"
    BY DEF NameKeys
  <2>2. first = 1 \/ first = 2 \/ first = 3
    BY <1>1, <1>4
  <2> QED
    BY <1>1, <1>4, <1>5, <2>1, <2>2
<1> QED
  BY <1>5, <1>6 DEF Names, IsName, Has

LEMMA ToolIsNamed ==
  ASSUME NEW decision, ToolName(decision) # ""
  PROVE  Names(decision, ToolName(decision))
<1>1. PICK first : first = SelectInSeq(NameKeys, LAMBDA k : IsName(decision, k))
  OBVIOUS
<1>2. first # 0 /\ ToolName(decision) = decision[NameKeys[first]].v
  BY <1>1, Zenon DEF ToolName
<1> QED
  BY <1>1, <1>2, FirstName, Zenon

(* So are its arguments. *)
LEMMA ArgsAreGiven ==
  ASSUME NEW decision, Args(decision).t = "object"
  PROVE  Gives(decision, Args(decision).v)
<1>1. PICK I : I = {i \in 1..3 : Has(decision, ArgKeys[i])}
  OBVIOUS
<1>2. PICK first : first = IF I # {} THEN Min(I) ELSE 0
  OBVIOUS
<1>3. SelectInSeq(ArgKeys, LAMBDA k : Has(decision, k)) = first
  <2>1. Len(ArgKeys) = 3
    BY DEF ArgKeys
  <2> QED
    BY <1>1, <1>2, <2>1 DEF SelectInSeq
<1>4. ArgKeys[1] = "args" /\ ArgKeys[2] = "arguments" /\ ArgKeys[3] = "parameters"
  BY DEF ArgKeys
<1>5. CASE I = {}
  <2>1. {"args", "arguments", "parameters"} \cap DOMAIN decision = {}
    BY <1>1, <1>4, <1>5 DEF Has
  <2>2. Args(decision) = NoObject
    BY <1>2, <1>3, <1>5 DEF Args, NoObject
  <2> QED
    BY <2>1, <2>2 DEF Gives, NoObject
<1>6. CASE I # {}
  <2>1. I \subseteq Nat /\ first = Min(I)
    BY <1>1, <1>2, <1>6
  <2>2. first \in I
    BY <1>6, <2>1, LeastIsIn
  <2>3. PICK key : key = ArgKeys[first]
    OBVIOUS
  <2>4. first # 0 /\ key \in {"args", "arguments", "parameters"} \cap DOMAIN decision
    BY <1>1, <1>4, <2>2, <2>3 DEF Has
  <2>5. Args(decision) = IF decision[key].t = "string" THEN decision[key].parsed ELSE decision[key]
    BY <1>3, <2>3, <2>4 DEF Args
  <2> QED
    BY <2>4, <2>5 DEF Gives
<1> QED
  BY <1>5, <1>6

(* A call that passes every check of parseAndValidateToolCall is legal. *)
LEMMA CallIsLegal ==
  ASSUME NEW response, NEW call, call = ParseAndValidateToolCall(response),
         call.status = "kValidToolCall", call.tool \in Registered
  PROVE  Legal(call, ExtractJsonObject(response))
<1>1. PICK said, root : said = ExtractJsonObject(response) /\ root = said[1].v
  OBVIOUS
<1>2. PICK decision : decision = Decision(root)
  OBVIOUS
<1>3. call = IF said = <<>> \/ Malformed(root) THEN NoCall("kInvalid")
             ELSE IF ~NeedTool(root) THEN NoCall("kNoToolCall")
             ELSE IF ~IsValidCall(decision) THEN NoCall("kInvalid")
             ELSE [status |-> "kValidToolCall", tool |-> ToolName(decision),
                   args |-> Args(decision).v]
  BY <1>1, <1>2 DEF ParseAndValidateToolCall
<1>4. NoCall("kInvalid").status # "kValidToolCall" /\ NoCall("kNoToolCall").status # "kValidToolCall"
  BY DEF NoCall
<1>5. /\ said # <<>> /\ ~Malformed(root) /\ NeedTool(root) /\ IsValidCall(decision)
      /\ call = [status |-> "kValidToolCall", tool |-> ToolName(decision),
                 args |-> Args(decision).v]
  BY <1>3, <1>4
<1>6. PICK name, args : name = ToolName(decision) /\ args = Args(decision).v
  OBVIOUS
<1>7. call.tool = name /\ call.args = args
  BY <1>5, <1>6
<1>8. IsListed(name) /\ ValidateArgs(FindTool(name), args)
  BY <1>5, <1>6 DEF IsValidCall
<1>9. PICK i \in DOMAIN ToolConfig :
        /\ ToolConfig[i].name = name
        /\ FindTool(name) = [p \in DOMAIN ToolConfig[i].params |->
                               Param(ToolConfig[i].params[p])]
  BY <1>8, ToolFound
<1>10. PICK params : params = ToolConfig[i].params
  OBVIOUS
<1>11. Admitted(call, params)
  <2>1. PICK tool : tool = FindTool(name)
    OBVIOUS
  <2>2. tool = [p \in DOMAIN params |-> Param(params[p])]
    BY <1>9, <1>10, <2>1
  <2>3. DOMAIN tool = DOMAIN params /\ \A p \in DOMAIN params : tool[p] = Param(params[p])
    BY <2>2
  <2>4. /\ \A p \in DOMAIN tool : tool[p].required => p \in DOMAIN args
        /\ \A p \in DOMAIN tool : p \in DOMAIN args => MatchesType(args[p], tool[p].type)
        /\ DOMAIN args \subseteq DOMAIN tool
    BY <1>8, <2>1, Zenon DEF ValidateArgs
  <2>5. \A p \in DOMAIN args : p \in DOMAIN params /\ MatchesType(args[p], Param(params[p]).type)
    BY <2>3, <2>4, Zenon
  <2>6. \A p \in DOMAIN params : Param(params[p]).required => p \in DOMAIN args
    BY <2>3, <2>4, Zenon
  <2> QED
    BY <1>7, <2>5, <2>6 DEF Admitted
<1>12. Has(root, "need_tool") => root["need_tool"].v = "true"
  BY <1>5 DEF NeedTool
<1>13. Has(root, "tool_calls") => Len(root["tool_calls"].v) = 1
  BY <1>5 DEF Malformed, OneCall
<1>14. \E j \in DOMAIN ToolConfig :
         ToolConfig[j].name = call.tool /\ Admitted(call, ToolConfig[j].params)
  BY <1>7, <1>9, <1>10, <1>11, Zenon
<1>15. Names(decision, call.tool) /\ Gives(decision, call.args)
  BY <1>5, <1>6, <1>7, ToolIsNamed, ArgsAreGiven DEF IsValidCall
<1> QED
  BY <1>1, <1>2, <1>5, <1>12, <1>13, <1>14, <1>15 DEF Legal, Has

-----------------------------------------------------------------------------
(* The steps of chat(). *)

LEMMA GreatestIsIn ==
  ASSUME NEW n \in Nat, NEW S, S \subseteq 1..n, S # {}
  PROVE  Max(S) \in S
<1>1. PICK T : T = {n - x : x \in S}
  OBVIOUS
<1>2. T \in SUBSET Nat /\ T # {}
  <2>1. \A x \in S : x \in 1..n /\ n - x \in Nat
    OBVIOUS
  <2> QED
    BY <1>1, <2>1
<1>3. PICK t \in T : \A u \in T : t <= u
  BY <1>2, LeastNat
<1>4. PICK x \in S : t = n - x
  BY <1>1, <1>3
<1>5. \A y \in S : x >= y
  <2>1. SUFFICES ASSUME NEW y \in S PROVE x >= y
    OBVIOUS
  <2>2. t <= n - y
    BY <1>1, <1>3
  <2> QED
    BY <1>4, <2>2
<1> QED
  BY <1>5 DEF Max

(* Every strategy that the factory makes is well-formed. *)
LEMMA Created ==
  ASSUME NEW name, Known(name)
  PROVE  Create(name).shape \in {"choices", "output"} /\ Create(name).maxContext \in Int
<1>1. PICK id, models : id = ResolveAlias(name) /\ models = ModelConfig.models
  OBVIOUS
<1>2. /\ Len(models) \in Nat /\ DOMAIN models = 1..Len(models)
      /\ \A i \in DOMAIN models : Value(models[i], "max_context", 0) \in Int
  BY <1>1, AnsweringAssumption, LenProperties
<1>3. PICK I : I = {i \in 1..Len(models) : models[i].id = id}
  OBVIOUS
<1>4. id \in {models[i].id : i \in DOMAIN models}
  BY <1>1 DEF Known, Creators
<1>5. I \subseteq 1..Len(models) /\ I # {}
  BY <1>2, <1>3, <1>4
<1>6. SelectLastInSeq(models, LAMBDA x : x.id = id) = Max(I)
  BY <1>3, <1>5 DEF SelectLastInSeq
<1>7. PICK m : m = models[Max(I)]
  OBVIOUS
<1>8. Value(m, "max_context", 0) \in Int
  BY <1>2, <1>5, <1>7, GreatestIsIn
<1>9. Create(name) = [shape |-> IF Value(m, "type", "mcp") = "rag" THEN "output" ELSE "choices",
                      maxContext |-> Value(m, "max_context", 0)]
  BY <1>1, <1>4, <1>6, <1>7 DEF Create, Creators
<1> QED
  BY <1>8, <1>9

LEMMA Begun ==
  ASSUME pc' = "streaming", stream' \in Streams, received' = 0, ctx' = NoBytes
  PROVE  Streaming'
<1>1. stream'.lines \in Seq(Kinds) /\ stream'.closed \in BOOLEAN
  BY AnsweringAssumption
<1>2. 0 \in 0..Len(Wire(stream'))
  BY <1>1, WireAt
<1>3. /\ ctx' \in Context /\ Len(ctx'.buffer) = 0
      /\ ctx'.fullResult = <<>> /\ <<>> \in Seq(Nat) /\ Len(<<>>) = 0
  BY EmptySeq DEF NoBytes, Context
<1>4. GivenUpTo(ctx.fullResult, 0)'
  BY <1>3 DEF GivenUpTo
<1>5. ReadUpTo(ctx, 0, 0, 0)'
  BY <1>3, <1>4 DEF ReadUpTo
<1>6. Reading(ctx, 0)'
  BY <1>5 DEF Reading
<1>7. 0 \in 0..Len(Wire(stream))'
  BY <1>2
<1> QED
  BY <1>6, <1>7 DEF Streaming

LEMMA MessageSet ==
  ASSUME NEW n \in Nat
  PROVE  /\ Question(n) \in Msg /\ Answer(n) \in Msg /\ Failure(n) \in Msg /\ Temporary(n) \in Msg
         /\ Question(n).by # "prompt" /\ Answer(n).by # "prompt" /\ Failure(n).by # "prompt"
BY DEF Msg, Question, Answer, Failure, Temporary

LEMMA WithOneMore ==
  ASSUME NEW s \in Seq(Msg), NEW x \in Msg
  PROVE  Append(s, x) \in Seq(Msg) /\ ToSet(Append(s, x)) = ToSet(s) \cup {x}
<1>1. PICK n, t : n = Len(s) /\ t = Append(s, x)
  OBVIOUS
<1>2. /\ n \in Nat /\ DOMAIN s = 1..n
      /\ t \in Seq(Msg) /\ Len(t) = n + 1 /\ DOMAIN t = 1..(n + 1)
      /\ (\A i \in 1..n : t[i] = s[i]) /\ t[n + 1] = x
  BY <1>1, AppendProperties, LenProperties
<1>3. ASSUME NEW y PROVE y \in ToSet(t) <=> y \in ToSet(s) \/ y = x
  BY <1>2 DEF ToSet
<1> QED
  BY <1>1, <1>2, <1>3

LEMMA StaysInTurn ==
  ASSUME NEW s \in Seq(Msg), InTurn(s), NEW x \in Msg,
         \A m \in ToSet(s) : m.q < x.q \/ (m.q = x.q /\ m.by = "user" /\ x.by # "user")
  PROVE  InTurn(Append(s, x))
<1>1. PICK n, t : n = Len(s) /\ t = Append(s, x)
  OBVIOUS
<1>2. /\ n \in Nat /\ DOMAIN s = 1..n /\ DOMAIN t = 1..(n + 1)
      /\ (\A i \in 1..n : t[i] = s[i]) /\ t[n + 1] = x
  BY <1>1, AppendProperties, LenProperties
<1>3. ASSUME NEW i \in DOMAIN t, NEW j \in DOMAIN t, i < j
      PROVE  \/ t[i].q < t[j].q
             \/ t[i].q = t[j].q /\ t[i].by = "user" /\ t[j].by # "user"
  <2>1. i \in 1..n /\ t[i] = s[i]
    BY <1>2, <1>3
  <2>2. CASE j \in 1..n
    <3>1. t[j] = s[j] /\ i \in DOMAIN s /\ j \in DOMAIN s
      BY <1>2, <2>1, <2>2
    <3> QED
      BY <1>3, <2>1, <3>1 DEF InTurn
  <2>3. CASE j = n + 1
    <3>1. t[j] = x /\ s[i] \in ToSet(s)
      BY <1>2, <2>1, <2>3 DEF ToSet
    <3> QED
      BY <2>1, <3>1
  <2> QED
    BY <1>2, <2>2, <2>3
<1> QED
  BY <1>1, <1>3 DEF InTurn

(* x may come next. *)
Room(mem, missing, x) ==
  /\ x \in Msg /\ x.by # "prompt"
  /\ \A m \in ToSet(mem) : m.q < x.q \/ (m.q = x.q /\ m.by = "user" /\ x.by # "user")
  /\ \A l \in missing : l.q < x.q

LEMMA OneMore ==
  ASSUME NEW mem, NEW filed, NEW missing, Kept(mem, filed, missing),
         NEW x, Room(mem, missing, x)
  PROVE  /\ Kept(Append(mem, x), Append(filed, x), missing)
         /\ Kept(Append(mem, x), filed, missing \cup {x})
<1>1. PICK M, S : M = ToSet(mem) /\ S = ToSet(filed)
  OBVIOUS
<1>2. /\ mem \in Seq(Msg) /\ filed \in Seq(Msg) /\ InTurn(mem) /\ InTurn(filed)
      /\ missing \subseteq M /\ S = M \ missing
      /\ \A m \in M : m.by # "prompt" /\ \A l \in missing : l.q = m.q => l = m \/ m.by = "user"
  BY <1>1 DEF Kept
<1>3. /\ x \in Msg /\ x.q \in Nat /\ x.by # "prompt"
      /\ \A m \in M : m.q < x.q \/ (m.q = x.q /\ m.by = "user" /\ x.by # "user")
      /\ \A l \in missing : l.q < x.q
  BY <1>1 DEF Room, Msg
<1>4. /\ Append(mem, x) \in Seq(Msg) /\ ToSet(Append(mem, x)) = M \cup {x}
      /\ Append(filed, x) \in Seq(Msg) /\ ToSet(Append(filed, x)) = S \cup {x}
  BY <1>1, <1>2, <1>3, WithOneMore
<1>5. InTurn(Append(mem, x)) /\ InTurn(Append(filed, x))
  <2>1. /\ \A m \in ToSet(mem) : m.q < x.q \/ (m.q = x.q /\ m.by = "user" /\ x.by # "user")
        /\ \A m \in ToSet(filed) : m.q < x.q \/ (m.q = x.q /\ m.by = "user" /\ x.by # "user")
    BY <1>1, <1>2, <1>3
  <2> QED
    BY <1>2, <1>3, <2>1, StaysInTurn
<1>6. x \notin missing /\ x \notin M
  <2>1. ~(x.q < x.q) /\ ~(x.by = "user" /\ x.by # "user")
    BY <1>3
  <2> QED
    BY <1>3, <2>1
<1>7. Kept(Append(mem, x), Append(filed, x), missing)
  <2>1. missing \subseteq M \cup {x} /\ S \cup {x} = (M \cup {x}) \ missing
    BY <1>2, <1>6
  <2>2. \A l \in missing : l.q # x.q
    BY <1>3
  <2>3. \A m \in M \cup {x} :
          m.by # "prompt" /\ \A l \in missing : l.q = m.q => l = m \/ m.by = "user"
    BY <1>2, <1>3, <2>2
  <2> QED
    BY <1>2, <1>4, <1>5, <2>1, <2>3 DEF Kept
<1>8. Kept(Append(mem, x), filed, missing \cup {x})
  <2>1. missing \cup {x} \subseteq M \cup {x} /\ S = (M \cup {x}) \ (missing \cup {x})
    BY <1>2, <1>6
  <2>2. ASSUME NEW m \in M \cup {x}
        PROVE  m.by # "prompt" /\ \A l \in missing \cup {x} : l.q = m.q => l = m \/ m.by = "user"
    <3>1. CASE m = x
      <4>1. \A l \in missing : l.q # x.q
        BY <1>3
      <4> QED
        BY <1>3, <3>1, <4>1
    <3>2. CASE m \in M
      <4>1. x.q = m.q => m.by = "user"
        BY <1>3, <3>2
      <4> QED
        BY <1>2, <3>2, <4>1
    <3> QED
      BY <2>2, <3>1, <3>2
  <2> QED
    BY <1>1, <1>2, <1>4, <1>5, <2>1, <2>2 DEF Kept
<1> QED
  BY <1>7, <1>8

(* addMessage of one message and of a whole round. *)
LEMMA Singles ==
  ASSUME NEW x \in Msg
  PROVE  /\ DOMAIN <<x>> = {1} /\ <<x>>[1] = x
         /\ SubSeq(<<x>>, 1, 1) = <<x>> /\ SubSeq(<<x>>, 1, 1 - 1) = <<>>
<1>1. PICK t : t = <<x>> /\ t \in Seq(Msg) /\ Len(t) = 1 /\ t[1] = x /\ DOMAIN t = {1}
  <2>1. <<x>> \in Seq(Msg) /\ Len(<<x>>) = 1 /\ <<x>>[1] = x
    OBVIOUS
  <2>2. DOMAIN <<x>> = 1..1 /\ 1..1 = {1}
    BY <2>1, LenProperties
  <2> QED
    BY <2>1, <2>2
<1>2. SubSeq(t, 1, 1) = t
  BY <1>1, SubSeqFull
<1>3. SubSeq(t, 1, 0) = <<>>
  BY <1>1, SubSeqEmpty
<1> QED
  BY <1>1, <1>2, <1>3

LEMMA Pairs ==
  ASSUME NEW x \in Msg, NEW y \in Msg
  PROVE  /\ DOMAIN <<x, y>> = {1, 2} /\ <<x, y>>[1] = x /\ <<x, y>>[2] = y
         /\ SubSeq(<<x, y>>, 1, 1) = <<x>> /\ SubSeq(<<x, y>>, 1, 1 - 1) = <<>>
         /\ SubSeq(<<x, y>>, 1, 2) = <<x, y>> /\ SubSeq(<<x, y>>, 1, 2 - 1) = <<x>>
<1>1. PICK t : t = <<x, y>> /\ t \in Seq(Msg) /\ Len(t) = 2 /\ t[1] = x /\ t[2] = y
               /\ DOMAIN t = {1, 2}
  <2>1. <<x, y>> \in Seq(Msg) /\ Len(<<x, y>>) = 2 /\ <<x, y>>[1] = x /\ <<x, y>>[2] = y
    OBVIOUS
  <2>2. DOMAIN <<x, y>> = 1..2 /\ 1..2 = {1, 2}
    BY <2>1, LenProperties
  <2> QED
    BY <2>1, <2>2
<1>2. SubSeq(t, 1, 2) = t
  BY <1>1, SubSeqFull
<1>3. SubSeq(t, 1, 0) = <<>>
  BY <1>1, SubSeqEmpty
<1>4. SubSeq(t, 1, 1) = <<x>>
  <2>1. PICK u : u = SubSeq(t, 1, 1)
    OBVIOUS
  <2>2. u \in Seq(Msg) /\ Len(u) = 1 - 1 + 1 /\ \A i \in 1..(1 - 1 + 1) : u[i] = t[1 + i - 1]
    <3>1. 1 \in 1..Len(t) /\ 1 \in (1 - 1)..Len(t)
      BY <1>1
    <3> QED
      BY <1>1, <2>1, <3>1, CutOut
  <2>3. PICK v : v = <<x>> /\ v \in Seq(Msg) /\ Len(v) = 1 /\ v[1] = x
    <3>1. <<x>> \in Seq(Msg) /\ Len(<<x>>) = 1 /\ <<x>>[1] = x
      OBVIOUS
    <3> QED
      BY <3>1
  <2>4. Len(u) = Len(v) /\ \A i \in 1..Len(u) : u[i] = v[i]
    BY <1>1, <2>2, <2>3
  <2> QED
    BY <2>1, <2>2, <2>3, <2>4, SeqEqual
<1> QED
  BY <1>1, <1>2, <1>3, <1>4

LEMMA Joins ==
  ASSUME NEW s \in Seq(Msg), NEW x \in Msg, NEW y \in Msg
  PROVE  /\ s \o <<>> = s /\ s \o <<x>> = Append(s, x)
         /\ s \o <<x, y>> = Append(Append(s, x), y)
<1>1. s \o <<>> = s
  BY ConcatEmptySeq
<1>2. PICK u : u = Append(s, x) /\ u = s \o <<x>> /\ u \in Seq(Msg)
  BY AppendIsConcat, WithOneMore
<1>3. Append(u, y) = u \o <<y>>
  BY <1>2, AppendIsConcat
<1>4. (s \o <<x>>) \o <<y>> = s \o (<<x>> \o <<y>>)
  <2>1. <<x>> \in Seq(Msg) /\ <<y>> \in Seq(Msg)
    OBVIOUS
  <2> QED
    BY <2>1, ConcatAssociative
<1>5. <<x>> \o <<y>> = <<x, y>>
  <2>1. PICK a, b, c : /\ a = <<x>> /\ b = <<y>> /\ c = <<x, y>>
    OBVIOUS
  <2>2. /\ a \in Seq(Msg) /\ Len(a) = 1 /\ a[1] = x
        /\ b \in Seq(Msg) /\ Len(b) = 1 /\ b[1] = y
        /\ c \in Seq(Msg) /\ Len(c) = 2 /\ c[1] = x /\ c[2] = y
    BY <2>1
  <2>3. PICK d : d = a \o b
    OBVIOUS
  <2>4. d \in Seq(Msg) /\ Len(d) = 2 /\ d[1] = x /\ d[2] = y
    <3>1. /\ d \in Seq(Msg) /\ Len(d) = Len(a) + Len(b)
          /\ \A i \in 1..Len(d) : d[i] = IF i <= Len(a) THEN a[i] ELSE b[i - Len(a)]
      <4>1. a \in Seq(Msg) /\ b \in Seq(Msg)
        BY <2>2
      <4> QED
        BY <2>3, <4>1, ConcatProperties, SMTT(30)
    <3>2. Len(d) = 2
      BY <2>2, <3>1
    <3>3. d[1] = a[1] /\ d[2] = b[1]
      BY <2>2, <3>1, <3>2
    <3> QED
      BY <2>2, <3>1, <3>2, <3>3
  <2>5. Len(d) = Len(c) /\ \A i \in 1..Len(d) : d[i] = c[i]
    BY <2>2, <2>4
  <2> QED
    BY <2>1, <2>2, <2>3, <2>4, <2>5, SeqEqual
<1> QED
  BY <1>1, <1>2, <1>3, <1>4, <1>5

LEMMA AddsOne ==
  ASSUME NEW mem, Kept(mem, rows, lost), NEW x, Room(mem, lost, x), Add(mem, <<x>>)
  PROVE  /\ Kept(messages', rows', lost') /\ messages' = Append(mem, x)
         /\ ToSet(messages') = ToSet(mem) \cup {x}
         /\ AddAll(mem, <<x>>) => lost' = lost
<1>1. mem \in Seq(Msg) /\ rows \in Seq(Msg) /\ x \in Msg
  BY DEF Kept, Room
<1>2. /\ mem \o <<x>> = Append(mem, x)
      /\ rows \o <<x>> = Append(rows, x) /\ rows \o <<>> = rows
  BY <1>1, Joins
<1>3. ToSet(Append(mem, x)) = ToSet(mem) \cup {x}
  BY <1>1, WithOneMore
<1>4. /\ Kept(Append(mem, x), Append(rows, x), lost)
      /\ Kept(Append(mem, x), rows, lost \cup {x})
  BY OneMore
<1>5. CASE AddAll(mem, <<x>>)
  <2>1. messages' = Append(mem, x) /\ rows' = Append(rows, x) /\ lost' = lost
    BY <1>2, <1>5 DEF AddAll
  <2> QED
    BY <1>3, <1>4, <2>1
<1>6. CASE AddFails(mem, <<x>>)
  <2>1. PICK n \in DOMAIN <<x>> :
          /\ messages' = mem \o SubSeq(<<x>>, 1, n)
          /\ rows' = rows \o SubSeq(<<x>>, 1, n - 1)
          /\ lost' = lost \cup {<<x>>[n]}
    BY <1>6 DEF AddFails
  <2>2. n = 1
    BY <1>1, <2>1, Singles
  <2>3. messages' = Append(mem, x) /\ rows' = rows /\ lost' = lost \cup {x}
    BY <1>1, <1>2, <2>1, <2>2, Singles
  <2>4. AddAll(mem, <<x>>) => lost' = lost
    BY DEF AddAll
  <2> QED
    BY <1>3, <1>4, <2>3, <2>4
<1> QED
  BY <1>5, <1>6 DEF Add

LEMMA AddsTwo ==
  ASSUME NEW mem, Kept(mem, rows, lost), NEW n \in Nat, \A m \in ToSet(mem) : m.q < n,
         NEW y \in Msg, y.q = n, y.by \notin {"user", "prompt"}, Add(mem, <<Question(n), y>>)
  PROVE  Kept(messages', rows', lost') /\ \A m \in ToSet(messages') : m.q <= n
<1>1. PICK x : x = Question(n) /\ x \in Msg /\ x.q = n /\ x.by = "user"
  BY DEF Msg, Question
<1>2. /\ mem \in Seq(Msg) /\ rows \in Seq(Msg) /\ lost \subseteq ToSet(mem)
      /\ \A m \in ToSet(mem) : m.q \in Nat
  <2>1. mem \in Seq(Msg) /\ rows \in Seq(Msg) /\ lost \subseteq ToSet(mem)
    BY DEF Kept
  <2>2. \A m \in ToSet(mem) : m \in Msg
    BY <2>1, LenProperties DEF ToSet
  <2> QED
    BY <2>1, <2>2 DEF Msg
<1>3. Room(mem, lost, x)
  BY <1>1, <1>2 DEF Room
<1>4. PICK mem1, rows1 : mem1 = Append(mem, x) /\ rows1 = Append(rows, x)
  OBVIOUS
<1>5. Kept(mem1, rows1, lost) /\ Kept(mem1, rows, lost \cup {x})
  BY <1>3, <1>4, OneMore
<1>6. /\ mem1 \in Seq(Msg) /\ ToSet(mem1) = ToSet(mem) \cup {x}
  BY <1>1, <1>2, <1>4, WithOneMore
<1>7. Room(mem1, lost, y)
  BY <1>1, <1>2, <1>6 DEF Room
<1>8. PICK mem2, rows2 : mem2 = Append(mem1, y) /\ rows2 = Append(rows1, y)
  OBVIOUS
<1>9. Kept(mem2, rows2, lost) /\ Kept(mem2, rows1, lost \cup {y})
  BY <1>5, <1>7, <1>8, OneMore
<1>10. ToSet(mem2) = ToSet(mem1) \cup {y}
  BY <1>6, <1>8, WithOneMore
<1>11. (\A m \in ToSet(mem1) : m.q <= n) /\ \A m \in ToSet(mem2) : m.q <= n
  BY <1>1, <1>2, <1>6, <1>10
<1>12. /\ mem \o <<x>> = mem1 /\ mem \o <<x, y>> = mem2
       /\ rows \o <<>> = rows /\ rows \o <<x>> = rows1 /\ rows \o <<x, y>> = rows2
  BY <1>1, <1>2, <1>4, <1>8, Joins
<1>13. CASE AddAll(mem, <<x, y>>)
  <2>1. messages' = mem2 /\ rows' = rows2 /\ lost' = lost
    BY <1>12, <1>13 DEF AddAll
  <2> QED
    BY <1>9, <1>11, <2>1
<1>14. CASE AddFails(mem, <<x, y>>)
  <2>1. PICK i \in DOMAIN <<x, y>> :
          /\ messages' = mem \o SubSeq(<<x, y>>, 1, i)
          /\ rows' = rows \o SubSeq(<<x, y>>, 1, i - 1)
          /\ lost' = lost \cup {<<x, y>>[i]}
    BY <1>14 DEF AddFails
  <2>2. i \in {1, 2}
    BY <1>1, <2>1, Pairs
  <2>3. CASE i = 1
    <3>1. messages' = mem1 /\ rows' = rows /\ lost' = lost \cup {x}
      BY <1>1, <1>12, <2>1, <2>3, Pairs
    <3> QED
      BY <1>5, <1>11, <3>1
  <2>4. CASE i = 2
    <3>1. messages' = mem2 /\ rows' = rows1 /\ lost' = lost \cup {y}
      BY <1>1, <1>12, <2>1, <2>4, Pairs
    <3> QED
      BY <1>9, <1>11, <3>1
  <2> QED
    BY <2>2, <2>3, <2>4
<1> QED
  BY <1>1, <1>13, <1>14 DEF Add

LEMMA FrontOfAppend ==
  ASSUME NEW S, NEW s \in Seq(S), NEW x \in S
  PROVE  Front(Append(s, x)) = s /\ Append(s, x) # <<>>
<1>1. PICK t, n : t = Append(s, x) /\ n = Len(s)
  OBVIOUS
<1>2. /\ n \in Nat /\ t \in Seq(S) /\ t # <<>> /\ Len(t) = n + 1
      /\ \A i \in 1..n : t[i] = s[i] /\ s[i] \in S
  BY <1>1, AppendProperties, LenProperties
<1>3. PICK u : u = SubSeq(t, 1, n)
  OBVIOUS
<1>4. 1 \in 1..Len(t) /\ n \in (1 - 1)..Len(t)
  BY <1>2
<1>5. u \in Seq(S) /\ Len(u) = n - 1 + 1 /\ \A i \in 1..(n - 1 + 1) : u[i] = t[1 + i - 1]
  BY <1>2, <1>3, <1>4, CutOut
<1>6. Len(u) = Len(s) /\ \A i \in 1..Len(u) : u[i] = s[i]
  BY <1>1, <1>2, <1>5
<1>7. u = s
  BY <1>5, <1>6, SeqEqual
<1>8. Front(t) = u
  <2>1. Len(t) - 1 = n
    BY <1>2
  <2> QED
    BY <1>3, <2>1 DEF Front
<1> QED
  BY <1>1, <1>2, <1>7, <1>8

LEMMA NothingKept == Kept(<<>>, <<>>, {}) /\ ToSet(<<>>) = {}
<1>1. <<>> \in Seq(Msg) /\ DOMAIN <<>> = {}
  OBVIOUS
<1>2. ToSet(<<>>) = {}
  BY <1>1 DEF ToSet
<1>3. InTurn(<<>>)
  BY <1>1 DEF InTurn
<1> QED
  BY <1>1, <1>2, <1>3 DEF Kept

(* The questions of what is kept are numbers. *)
LEMMA Numbers ==
  ASSUME NEW mem, NEW filed, NEW missing, Kept(mem, filed, missing)
  PROVE  /\ \A m \in ToSet(mem) : m \in Msg /\ m.q \in Nat
         /\ missing \subseteq ToSet(mem)
<1>1. mem \in Seq(Msg) /\ missing \subseteq ToSet(mem)
  BY DEF Kept
<1>2. \A m \in ToSet(mem) : m \in Msg
  BY <1>1, LenProperties DEF ToSet
<1> QED
  BY <1>1, <1>2 DEF Msg

LEMMA ChatInit == HelperInit => ChatInv
<1> SUFFICES ASSUME HelperInit PROVE ChatInv
  OBVIOUS
<1>1. StrategyOK
  BY AnsweringAssumption, Created DEF HelperInit, StrategyOK
<1>2. Remembered
  BY NothingKept DEF HelperInit, Remembered, Prompted
<1>3. RanAsAsked
  BY DEF HelperInit, RanAsAsked, NoTool, NoCall
<1> QED
  BY <1>1, <1>2, <1>3 DEF HelperInit, ChatInv, Requested, Streaming

LEMMA ChatStutters == ASSUME ChatInv, UNCHANGED helperVars PROVE ChatInv'
BY DEF helperVars, ChatInv, StrategyOK, Remembered, Kept, Prompted, Requested, RanAsAsked, Legal,
       Streaming, Reading, ReadUpTo, GivenUpTo

(* Between requests the context is what was kept. *)
LEMMA WhileIdle ==
  ASSUME ChatInv, pc = "idle" \/ (pc = "streaming" /\ ~routed)
  PROVE  Kept(messages, rows, lost) /\ \A m \in ToSet(messages) : m.q <= asked
<1>1. ~Prompted
  BY DEF ChatInv, Prompted
<1> QED
  BY <1>1 DEF ChatInv, Remembered

(* Remembered, where no turn is open. *)
LEMMA RememberedIdle ==
  ASSUME pc' = "idle", Kept(messages', rows', lost'), \A m \in ToSet(messages') : m.q <= asked'
  PROVE  Remembered'
BY DEF Remembered, Prompted

LEMMA AskInVainKeeps ==
  ASSUME ChatInv, NEW model, AskInVain(model)
  PROVE  ChatInv'
<1>1. /\ pc = "idle" /\ pc' = "idle" /\ asked' = asked + 1
      /\ strategy' = IF Known(model) THEN Create(model) ELSE strategy
      /\ UNCHANGED <<messages, rows, lost, routed, ran, reply>>
  BY DEF AskInVain
<1>2. StrategyOK'
  BY <1>1, Created DEF ChatInv, StrategyOK
<1>3. Remembered'
  <2>1. Kept(messages, rows, lost) /\ \A m \in ToSet(messages) : m.q <= asked
    BY <1>1, WhileIdle
  <2>2. asked \in Nat /\ \A m \in ToSet(messages) : m.q \in Nat
    BY <2>1, Numbers DEF ChatInv
  <2>3. \A m \in ToSet(messages) : m.q <= asked'
    BY <1>1, <2>1, <2>2
  <2> QED
    BY <1>1, <2>1, <2>3, RememberedIdle
<1>4. RanAsAsked'
  BY <1>1 DEF ChatInv, RanAsAsked, Legal
<1>5. Requested' /\ Streaming'
  BY <1>1 DEF Requested, Streaming
<1> QED
  BY <1>1, <1>2, <1>3, <1>4, <1>5 DEF ChatInv

(* completeStreaming, with everything ready for the request. *)
LEMMA Completes ==
  ASSUME NEW strat, NEW msgs, CompleteStreaming(strat, msgs), Fresh,
         strategy' = strat, messages' = msgs, msgs # <<>>
  PROVE  pc' \in {"idle", "streaming"} /\ Requested' /\ Streaming'
<1>1. CASE /\ sent' = BuildRequestWithContext(strat, msgs)
           /\ stream' \in Streams /\ pc' = "streaming"
  <2>1. Requested'
    BY <1>1 DEF Requested
  <2>2. Streaming'
    BY <1>1, Begun DEF Fresh
  <2> QED
    BY <1>1, <2>1, <2>2
<1>2. CASE pc' = "idle"
  BY <1>2 DEF Requested, Streaming
<1> QED
  BY <1>1, <1>2 DEF CompleteStreaming

LEMMA AskDirectlyKeeps ==
  ASSUME ChatInv, NEW model, AskDirectly(model)
  PROVE  ChatInv'
<1>1. PICK n, x : n = asked' /\ x = Question(asked')
  OBVIOUS
<1>2. /\ pc = "idle" /\ asked \in Nat /\ n = asked + 1 /\ n \in Nat /\ asked' = n
      /\ Known(model) /\ strategy' = Create(model) /\ Fresh
      /\ \/ AddAll(messages, <<x>>) /\ CompleteStreaming(strategy', messages')
         \/ AddFails(messages, <<x>>) /\ pc' = "idle"
      /\ routed' = FALSE /\ ran' = NoTool
  BY <1>1 DEF ChatInv, AskDirectly
<1>3. Kept(messages, rows, lost) /\ \A m \in ToSet(messages) : m.q <= asked
  BY <1>2, WhileIdle
<1>4. x \in Msg /\ x.q = n /\ x.by = "user"
  BY <1>1, <1>2 DEF Question, Msg
<1>5. \A m \in ToSet(messages) : m.q \in Nat /\ m.q < n
  <2>1. \A m \in ToSet(messages) : m.q \in Nat
    BY <1>3, Numbers
  <2> QED
    BY <1>2, <1>3, <2>1
<1>6. lost \subseteq ToSet(messages)
  BY <1>3, Numbers
<1>7. Room(messages, lost, x) /\ Add(messages, <<x>>)
  BY <1>2, <1>4, <1>5, <1>6 DEF Room, Add
<1>8. /\ Kept(messages', rows', lost') /\ messages' = Append(messages, x)
      /\ ToSet(messages') = ToSet(messages) \cup {x}
      /\ AddAll(messages, <<x>>) => lost' = lost
  BY <1>3, <1>7, AddsOne
<1>9. \A m \in ToSet(messages') : m.q <= n /\ (m.q < n \/ m.by = "user")
  BY <1>2, <1>4, <1>5, <1>8
<1>10. messages' # <<>>
  <2>1. messages \in Seq(Msg)
    BY <1>3 DEF Kept
  <2> QED
    BY <1>4, <1>8, <2>1, FrontOfAppend
<1>11. pc' \in {"idle", "streaming"} /\ Remembered' /\ Requested' /\ Streaming'
  <2>1. CASE AddAll(messages, <<x>>) /\ CompleteStreaming(strategy', messages')
    <3>1. pc' \in {"idle", "streaming"} /\ Requested' /\ Streaming'
      BY <1>2, <1>10, <2>1, Completes
    <3>2. lost' = lost /\ \A l \in lost : l.q < n
      BY <1>5, <1>6, <1>8, <2>1
    <3>3. ~Prompted'
      BY <1>2, <3>1 DEF Prompted
    <3>4. Remembered'
      BY <1>2, <1>8, <1>9, <3>2, <3>3 DEF Remembered
    <3> QED
      BY <3>1, <3>4
  <2>2. CASE AddFails(messages, <<x>>) /\ pc' = "idle"
    <3>1. \A m \in ToSet(messages') : m.q <= asked'
      BY <1>2, <1>9
    <3>2. Remembered'
      BY <1>8, <2>2, <3>1, RememberedIdle
    <3> QED
      BY <2>2, <3>2 DEF Requested, Streaming
  <2> QED
    BY <1>2, <2>1, <2>2
<1>12. StrategyOK'
  BY <1>2, Created DEF StrategyOK
<1>13. RanAsAsked'
  BY <1>2 DEF RanAsAsked, NoTool, NoCall
<1> QED
  BY <1>2, <1>11, <1>12, <1>13 DEF ChatInv

(* executeToolRoutePrompt: the context and, behind it, a prompt. *)
LEMMA Routes ==
  ASSUME NEW mem, Kept(mem, rows, lost), \A m \in ToSet(mem) : m.q < asked',
         UNCHANGED <<rows, lost>>, routed',
         NEW x \in Msg, NEW strat, ExecuteToolRoutePrompt(strat, Append(mem, x)),
         strategy' = strat
  PROVE  pc' = "routing" /\ Remembered' /\ Requested' /\ Streaming'
<1>1. /\ messages' = Append(mem, x) /\ pc' = "routing"
      /\ sent' = BuildRequestWithContext(strat, Append(mem, x))
  BY DEF ExecuteToolRoutePrompt
<1>2. messages' # <<>>
  <2>1. mem \in Seq(Msg)
    BY DEF Kept
  <2> QED
    BY <1>1, <2>1, FrontOfAppend
<1>3. Remembered'
  <2>1. Kept(mem, rows', lost')
    OBVIOUS
  <2> QED
    BY <1>1, <2>1 DEF Remembered, Prompted
<1>4. Requested'
  BY <1>1, <1>2 DEF Requested
<1>5. Streaming'
  BY <1>1 DEF Streaming
<1> QED
  BY <1>1, <1>3, <1>4, <1>5

LEMMA AskWithToolsKeeps ==
  ASSUME ChatInv, NEW model, AskWithTools(model)
  PROVE  ChatInv'
<1>1. /\ pc = "idle" /\ asked \in Nat /\ asked' = asked + 1 /\ asked' \in Nat
      /\ Known(model) /\ strategy' = Create(model)
      /\ ExecuteToolRoutePrompt(strategy', Append(messages, Temporary(asked')))
      /\ routed' = TRUE /\ ran' = NoTool /\ UNCHANGED <<rows, lost>>
  BY DEF ChatInv, AskWithTools
<1>2. Kept(messages, rows, lost) /\ \A m \in ToSet(messages) : m.q <= asked
  BY <1>1, WhileIdle
<1>3. Temporary(asked') \in Msg
  BY <1>1, MessageSet
<1>4. \A m \in ToSet(messages) : m.q < asked'
  <2>1. \A m \in ToSet(messages) : m.q \in Nat
    BY <1>2, Numbers
  <2> QED
    BY <1>1, <1>2, <2>1
<1>5. pc' = "routing" /\ Remembered' /\ Requested' /\ Streaming'
  BY <1>1, <1>2, <1>3, <1>4, Routes
<1>6. StrategyOK'
  BY <1>1, Created DEF StrategyOK
<1>7. RanAsAsked'
  BY <1>1 DEF RanAsAsked, NoTool, NoCall
<1> QED
  BY <1>1, <1>5, <1>6, <1>7 DEF ChatInv

(* While a routing call is under way, the context ends with its prompt. *)
LEMMA WhileRouting ==
  ASSUME ChatInv, pc = "routing" \/ (pc = "streaming" /\ routed)
  PROVE  Kept(Front(messages), rows, lost) /\ \A m \in ToSet(Front(messages)) : m.q < asked
<1>1. Prompted
  BY DEF Prompted
<1>2. PICK mem : /\ Kept(mem, rows, lost) /\ \A m \in ToSet(mem) : m.q < asked
                 /\ \E x \in Msg : messages = Append(mem, x)
  BY <1>1 DEF ChatInv, Remembered
<1>3. mem \in Seq(Msg)
  BY <1>2 DEF Kept
<1>4. Front(messages) = mem
  BY <1>2, <1>3, FrontOfAppend
<1> QED
  BY <1>2, <1>4

LEMMA RepairKeeps ==
  ASSUME ChatInv, NEW r, Repair(r)
  PROVE  ChatInv'
<1>1. PICK mem : mem = Front(messages)
  OBVIOUS
<1>2. /\ pc = "routing" /\ routed /\ asked \in Nat
      /\ ExecuteToolRoutePrompt(strategy, Append(mem, Temporary(asked)))
      /\ UNCHANGED <<strategy, asked, rows, lost, routed, ran, reply>>
  BY <1>1 DEF ChatInv, Repair
<1>3. Kept(mem, rows, lost) /\ \A m \in ToSet(mem) : m.q < asked'
  BY <1>1, <1>2, WhileRouting
<1>4. Temporary(asked) \in Msg
  BY <1>2, MessageSet
<1>5. pc' = "routing" /\ Remembered' /\ Requested' /\ Streaming'
  BY <1>2, <1>3, <1>4, Routes
<1>6. StrategyOK'
  BY <1>2 DEF ChatInv, StrategyOK
<1>7. RanAsAsked'
  BY <1>2 DEF ChatInv, RanAsAsked
<1> QED
  BY <1>2, <1>5, <1>6, <1>7 DEF ChatInv

LEMMA RouteReturnsKeeps ==
  ASSUME ChatInv, NEW r, RouteReturns(r)
  PROVE  ChatInv'
<1>1. PICK call, mem, x, prompted : /\ call = ParseAndValidateToolCall(Replies[r])
                                    /\ mem = Front(messages) /\ x = Temporary(asked)
                                    /\ prompted = Append(Front(messages), Temporary(asked))
  OBVIOUS
<1>2. /\ pc = "routing" /\ routed /\ asked \in Nat
      /\ ran' = IF call.status = "kValidToolCall" /\ call.tool \in Registered
                THEN call ELSE NoTool
      /\ reply' = r
      /\ CompleteStreaming(strategy, prompted) /\ Fresh
      /\ messages' = IF RequestThrows(strategy, prompted) THEN mem ELSE prompted
      /\ UNCHANGED <<strategy, asked, rows, lost, routed>>
  BY <1>1 DEF ChatInv, RouteReturns, KeepContext
<1>3. /\ Kept(mem, rows, lost) /\ Kept(mem, rows', lost')
      /\ \A m \in ToSet(mem) : m.q < asked /\ m.q < asked'
  BY <1>1, <1>2, WhileRouting
<1>4. x \in Msg
  BY <1>1, <1>2, MessageSet
<1>5. prompted = Append(mem, x) /\ prompted # <<>>
  <2>1. mem \in Seq(Msg)
    BY <1>3 DEF Kept
  <2> QED
    BY <1>1, <1>4, <2>1, FrontOfAppend
<1>6. pc' \in {"idle", "streaming"} /\ Remembered' /\ Requested' /\ Streaming'
  <2>1. CASE RequestThrows(strategy, prompted)
    <3>1. pc' = "idle" /\ messages' = mem
      BY <1>2, <2>1 DEF CompleteStreaming
    <3>2. \A m \in ToSet(mem) : m.q <= asked'
      <4>1. \A m \in ToSet(mem) : m.q \in Nat
        BY <1>3, Numbers
      <4> QED
        BY <1>2, <1>3, <4>1
    <3>3. Remembered'
      BY <1>3, <3>1, <3>2, RememberedIdle
    <3> QED
      BY <3>1, <3>3 DEF Requested, Streaming
  <2>2. CASE ~RequestThrows(strategy, prompted)
    <3>1. pc' = "streaming" /\ messages' = prompted
      BY <1>2, <2>2 DEF CompleteStreaming
    <3>2. Remembered'
      BY <1>2, <1>3, <1>4, <1>5, <3>1 DEF Remembered, Prompted
    <3> QED
      BY <1>2, <1>5, <3>1, <3>2, Completes
  <2> QED
    BY <2>1, <2>2
<1>7. StrategyOK'
  BY <1>2 DEF ChatInv, StrategyOK
<1>8. RanAsAsked'
  <2>1. SUFFICES ASSUME ran'.status = "kValidToolCall"
                 PROVE  Legal(ran', ExtractJsonObject(Replies[reply']))
    BY <1>2, <1>6 DEF RanAsAsked
  <2>2. ran' = call /\ call.status = "kValidToolCall" /\ call.tool \in Registered
    BY <1>2, <2>1 DEF NoTool, NoCall
  <2> QED
    BY <1>1, <1>2, <2>2, CallIsLegal
<1> QED
  BY <1>2, <1>6, <1>7, <1>8 DEF ChatInv

(* An error is kept as the answer. *)
LEMMA FailureKept ==
  ASSUME ChatInv, pc = "routing", KeepFailure, asked' = asked
  PROVE  pc' = "idle" /\ Remembered' /\ Requested' /\ Streaming'
<1>1. PICK mem, y : mem = Front(messages) /\ y = Failure(asked)
  OBVIOUS
<1>2. pc' = "idle" /\ asked \in Nat /\ Add(mem, <<Question(asked), y>>)
  BY <1>1 DEF ChatInv, KeepFailure
<1>3. Kept(mem, rows, lost) /\ \A m \in ToSet(mem) : m.q < asked
  BY <1>1, WhileRouting
<1>4. y \in Msg /\ y.q = asked /\ y.by \notin {"user", "prompt"}
  BY <1>1, <1>2 DEF Failure, Msg
<1>5. Kept(messages', rows', lost') /\ \A m \in ToSet(messages') : m.q <= asked
  BY <1>2, <1>3, <1>4, AddsTwo
<1>6. Remembered'
  BY <1>2, <1>5, RememberedIdle
<1> QED
  BY <1>2, <1>6 DEF Requested, Streaming

LEMMA RouteFailsKeeps ==
  ASSUME ChatInv, RouteFails
  PROVE  ChatInv'
<1>1. /\ pc = "routing" /\ KeepFailure /\ asked \in Nat
      /\ UNCHANGED <<strategy, asked, routed, ran, reply>>
  BY DEF ChatInv, RouteFails
<1>2. pc' = "idle" /\ Remembered' /\ Requested' /\ Streaming'
  BY <1>1, FailureKept
<1>3. StrategyOK'
  BY <1>1 DEF ChatInv, StrategyOK
<1>4. RanAsAsked'
  BY <1>1, <1>2 DEF ChatInv, RanAsAsked
<1> QED
  BY <1>1, <1>2, <1>3, <1>4 DEF ChatInv

LEMMA ToolFailsKeeps ==
  ASSUME ChatInv, NEW r, ToolFails(r)
  PROVE  ChatInv'
<1>1. PICK call : call = ParseAndValidateToolCall(Replies[r])
  OBVIOUS
<1>2. /\ pc = "routing" /\ routed /\ KeepFailure /\ asked \in Nat
      /\ call.status = "kValidToolCall" /\ call.tool \in Registered
      /\ ran' = call /\ reply' = r
      /\ UNCHANGED <<strategy, asked, routed>>
  BY <1>1 DEF ChatInv, ToolFails
<1>3. pc' = "idle" /\ Remembered' /\ Requested' /\ Streaming'
  BY <1>2, FailureKept
<1>4. StrategyOK'
  BY <1>2 DEF ChatInv, StrategyOK
<1>5. RanAsAsked'
  <2>1. Legal(call, ExtractJsonObject(Replies[r]))
    BY <1>1, <1>2, CallIsLegal
  <2> QED
    BY <1>2, <1>3, <2>1 DEF RanAsAsked
<1> QED
  BY <1>2, <1>3, <1>4, <1>5 DEF ChatInv

LEMMA ReceiveKeeps ==
  ASSUME ChatInv, NEW count \in 1..Len(Wire(stream)), Receive(count)
  PROVE  ChatInv'
<1>1. /\ pc = "streaming" /\ received + count <= Len(Wire(stream))
      /\ ctx' = StreamingWriteCallback(
                  ctx, SubSeq(Wire(stream), received + 1, received + count), strategy)
      /\ received' = received + count
      /\ UNCHANGED <<pc, strategy, asked, messages, rows, lost, sent, routed, ran, reply, stream>>
  BY DEF Receive
<1>2. /\ StrategyOK /\ stream \in Streams /\ received \in 0..Len(Wire(stream))
      /\ Reading(ctx, received)
  BY <1>1 DEF ChatInv, Streaming
<1>3. stream.lines \in Seq(Kinds) /\ stream.closed \in BOOLEAN
  BY <1>2, AnsweringAssumption
<1>4. Len(Wire(stream)) \in Nat
  BY <1>3, WireAt
<1>5. received \in Nat /\ count \in Nat /\ received' \in 0..Len(Wire(stream))
  BY <1>1, <1>2, <1>4
<1>6. Reading(ctx', received + count)
  BY <1>1, <1>2, <1>3, <1>5, PieceReads
<1>7. Reading(ctx, received)'
  BY <1>1, <1>6 DEF Reading, ReadUpTo, GivenUpTo
<1>8. Streaming'
  BY <1>1, <1>2, <1>5, <1>7 DEF Streaming
<1>9. StrategyOK' /\ Requested'
  BY <1>1 DEF ChatInv, StrategyOK, Requested
<1>10. Remembered'
  BY <1>1 DEF ChatInv, Remembered, Kept, Prompted
<1>11. RanAsAsked'
  BY <1>1 DEF ChatInv, RanAsAsked
<1> QED
  BY <1>1, <1>8, <1>9, <1>10, <1>11 DEF ChatInv

LEMMA StreamThrowsKeeps ==
  ASSUME ChatInv, StreamThrows
  PROVE  ChatInv'
<1>1. /\ pc = "streaming" /\ pc' = "idle" /\ asked \in Nat
      /\ messages' = IF routed THEN Front(messages) ELSE messages
      /\ UNCHANGED <<strategy, asked, rows, lost, routed, ran, reply>>
  BY DEF ChatInv, StreamThrows, KeepContext
<1>2. Kept(messages', rows', lost') /\ \A m \in ToSet(messages') : m.q <= asked'
  <2>1. CASE routed
    <3>1. PICK mem : mem = Front(messages)
      OBVIOUS
    <3>2. Kept(mem, rows, lost) /\ \A m \in ToSet(mem) : m.q < asked
      BY <1>1, <2>1, <3>1, WhileRouting
    <3>3. \A m \in ToSet(mem) : m.q \in Nat
      BY <3>2, Numbers
    <3>4. \A m \in ToSet(mem) : m.q <= asked
      BY <1>1, <3>2, <3>3
    <3>5. messages' = mem
      BY <1>1, <2>1, <3>1
    <3> QED
      BY <1>1, <3>2, <3>4, <3>5
  <2>2. CASE ~routed
    <3>1. Kept(messages, rows, lost) /\ \A m \in ToSet(messages) : m.q <= asked
      BY <1>1, <2>2, WhileIdle
    <3>2. messages' = messages
      BY <1>1, <2>2
    <3> QED
      BY <1>1, <3>1, <3>2
  <2> QED
    BY <2>1, <2>2
<1>3. Remembered'
  BY <1>1, <1>2, RememberedIdle
<1>4. StrategyOK'
  BY <1>1 DEF ChatInv, StrategyOK
<1>5. RanAsAsked'
  BY <1>1 DEF ChatInv, RanAsAsked
<1> QED
  BY <1>1, <1>3, <1>4, <1>5 DEF ChatInv, Requested, Streaming

LEMMA KeepAnswerKeeps ==
  ASSUME ChatInv, KeepAnswer
  PROVE  ChatInv'
<1>1. PICK y : y = Answer(asked)
  OBVIOUS
<1>2. /\ pc = "streaming" /\ pc' = "idle" /\ asked \in Nat
      /\ IF routed THEN Add(Front(messages), <<Question(asked), y>>) ELSE Add(messages, <<y>>)
      /\ UNCHANGED <<strategy, asked, routed, ran, reply>>
  BY <1>1 DEF ChatInv, KeepAnswer
<1>3. y \in Msg /\ y.q = asked /\ y.by = "model"
  BY <1>1, <1>2 DEF Answer, Msg
<1>4. Kept(messages', rows', lost') /\ \A m \in ToSet(messages') : m.q <= asked
  <2>1. CASE routed
    <3>1. PICK mem : mem = Front(messages)
      OBVIOUS
    <3>2. Kept(mem, rows, lost) /\ \A m \in ToSet(mem) : m.q < asked
      BY <1>2, <2>1, <3>1, WhileRouting
    <3>3. Add(mem, <<Question(asked), y>>) /\ y.by \notin {"user", "prompt"}
      BY <1>2, <1>3, <2>1, <3>1
    <3> QED
      BY <1>2, <1>3, <3>2, <3>3, AddsTwo
  <2>2. CASE ~routed
    <3>1. Kept(messages, rows, lost) /\ \A m \in ToSet(messages) : m.q <= asked
      BY <1>2, <2>2, WhileIdle
    <3>2. /\ \A m \in ToSet(messages) : m.q < asked \/ m.by = "user"
          /\ \A l \in lost : l.q < asked
      BY <1>2, <2>2 DEF ChatInv, Remembered, Prompted
    <3>3. \A m \in ToSet(messages) : m.q \in Nat
      BY <3>1, Numbers
    <3>4. Room(messages, lost, y)
      BY <1>2, <1>3, <3>1, <3>2, <3>3 DEF Room
    <3>5. Kept(messages', rows', lost') /\ ToSet(messages') = ToSet(messages) \cup {y}
      BY <1>2, <2>2, <3>1, <3>4, AddsOne
    <3> QED
      BY <1>2, <1>3, <3>1, <3>5
  <2> QED
    BY <2>1, <2>2
<1>5. Remembered'
  BY <1>2, <1>4, RememberedIdle
<1>6. StrategyOK'
  BY <1>2 DEF ChatInv, StrategyOK
<1>7. RanAsAsked'
  BY <1>2 DEF ChatInv, RanAsAsked
<1> QED
  BY <1>2, <1>5, <1>6, <1>7 DEF ChatInv, Requested, Streaming

LEMMA ChatInvariant == HelperSpec => []ChatInv
<1>1. ChatInv /\ [HelperNext]_helperVars => ChatInv'
  <2> SUFFICES ASSUME ChatInv, [HelperNext]_helperVars PROVE ChatInv'
    OBVIOUS
  <2>1. CASE UNCHANGED helperVars
    BY <2>1, ChatStutters
  <2>2. CASE \E m \in Models : AskInVain(m) \/ AskDirectly(m) \/ AskWithTools(m)
    BY <2>2, AskInVainKeeps, AskDirectlyKeeps, AskWithToolsKeeps
  <2>3. CASE \E r \in DOMAIN Replies : Repair(r) \/ RouteReturns(r) \/ ToolFails(r)
    BY <2>3, RepairKeeps, RouteReturnsKeeps, ToolFailsKeeps
  <2>4. CASE \E count \in 1 .. Len(Wire(stream)) : Receive(count)
    BY <2>4, ReceiveKeeps
  <2>5. CASE RouteFails \/ StreamThrows \/ KeepAnswer
    BY <2>5, RouteFailsKeeps, StreamThrowsKeeps, KeepAnswerKeeps
  <2> QED
    BY <2>1, <2>2, <2>3, <2>4, <2>5 DEF HelperNext
<1> QED
  BY ChatInit, <1>1, PTL DEF HelperSpec

(***************************************************************************)
(* Whatever fails and wherever, publishing included, a helper remembers    *)
(* what was sent to be stored, in order, with no prompt of its own in it;  *)
(* only the last message of a turn can be missing from the queue.          *)
(***************************************************************************)
THEOREM MemoryKept == HelperSpec => []MemoryIsWhatIsStored
<1>1. ASSUME ChatInv PROVE MemoryIsWhatIsStored
  <2>1. PICK mem : /\ Kept(mem, rows, lost)
                   /\ IF Prompted THEN \E x \in Msg : messages = Append(mem, x) ELSE messages = mem
    BY <1>1 DEF ChatInv, Remembered
  <2>2. mem \in Seq(Msg) /\ Len(mem) \in Nat /\ SubSeq(mem, 1, Len(mem)) = mem
    BY <2>1, LenProperties, SubSeqFull DEF Kept
  <2>3. PICK temporaries : temporaries = IF Prompted THEN 1 ELSE 0
    OBVIOUS
  <2>4. SubSeq(messages, 1, Len(messages) - temporaries) = mem
    <3>1. CASE Prompted
      <4>1. Front(messages) = mem
        BY <2>1, <2>2, <3>1, FrontOfAppend
      <4> QED
        BY <2>3, <3>1, <4>1 DEF Front
    <3>2. CASE ~Prompted
      <4>1. messages = mem /\ Len(mem) - 0 = Len(mem)
        BY <2>1, <2>2, <3>2
      <4> QED
        BY <2>2, <2>3, <3>2, <4>1
    <3> QED
      BY <3>1, <3>2
  <2>5. /\ InTurn(mem) /\ InTurn(rows) /\ ToSet(rows) = ToSet(mem) \ lost
        /\ \A m \in ToSet(mem) :
             m.by # "prompt" /\ \A l \in lost : l.q = m.q => l = m \/ m.by = "user"
    BY <2>1 DEF Kept
  <2> QED
    BY <2>3, <2>4, <2>5 DEF MemoryIsWhatIsStored, Prompted
<1> QED
  BY <1>1, ChatInvariant, PTL

(***************************************************************************)
(* However the bytes of a stream are cut, the client has the text of       *)
(* exactly the lines that have come to their end, in order, once each.     *)
(***************************************************************************)
THEOREM StreamsAreAnswers == HelperSpec => []AnswerIsTheStream
<1>1. ASSUME ChatInv PROVE AnswerIsTheStream
  <2>1. SUFFICES ASSUME pc = "streaming"
        PROVE  /\ ToSet(ctx.fullResult) = {n \in DOMAIN stream.lines :
                    HasText(strategy, stream.lines[n]) /\ 3 * n <= received}
               /\ \A i, j \in DOMAIN ctx.fullResult :
                    i < j => ctx.fullResult[i] < ctx.fullResult[j]
    BY DEF AnswerIsTheStream
  <2>2. /\ stream \in Streams /\ received \in 0..Len(Wire(stream))
        /\ Reading(ctx, received)
    BY <1>1, <2>1 DEF ChatInv, Streaming
  <2>3. PICK n \in Nat, k \in 0..2 : ReadUpTo(ctx, received, n, k)
    BY <2>2 DEF Reading
  <2>4. PICK given : given = ctx.fullResult
    OBVIOUS
  <2>5. /\ given \in Seq(Nat) /\ received = 3 * n + k
        /\ \A l \in Nat : (\E i \in 1..Len(given) : given[i] = l)
                             <=> l \in 1..n /\ HasText(strategy, stream.lines[l])
        /\ \A i, j \in 1..Len(given) : i < j => given[i] < given[j]
    BY <2>3, <2>4 DEF ReadUpTo, GivenUpTo
  <2>6. DOMAIN given = 1..Len(given) /\ \A i \in 1..Len(given) : given[i] \in Nat
    BY <2>5, LenProperties
  <2>7. PICK L : L = Len(stream.lines) /\ L \in Nat /\ DOMAIN stream.lines = 1..L /\ n <= L
    <3>1. stream.lines \in Seq(Kinds) /\ stream.closed \in BOOLEAN
      BY <2>2, AnsweringAssumption
    <3>2. PICK L, W : L = Len(stream.lines) /\ W = Len(Wire(stream))
      OBVIOUS
    <3>3. W \in Nat /\ W <= 3 * L /\ L \in Nat /\ DOMAIN stream.lines = 1..L
      BY <3>1, <3>2, WireAt, LenProperties
    <3>4. 3 * n <= 3 * L
      BY <2>2, <2>5, <3>2, <3>3
    <3> QED
      BY <3>2, <3>3, <3>4
  <2>8. ASSUME NEW l
        PROVE  l \in ToSet(given)
                 <=> l \in 1..L /\ HasText(strategy, stream.lines[l]) /\ 3 * l <= received
    <3>1. l \in ToSet(given) <=> l \in Nat /\ \E i \in 1..Len(given) : given[i] = l
      BY <2>6 DEF ToSet
    <3>2. l \in 1..n <=> l \in 1..L /\ 3 * l <= received
      BY <2>5, <2>7
    <3>3. CASE l \in Nat
      <4>1. (\E i \in 1..Len(given) : given[i] = l)
               <=> l \in 1..n /\ HasText(strategy, stream.lines[l])
        BY <2>5, <3>3
      <4> QED
        BY <3>1, <3>2, <3>3, <4>1
    <3>4. CASE l \notin Nat
      BY <2>7, <3>1, <3>4
    <3> QED
      BY <3>3, <3>4
  <2>9. ToSet(given) = {l \in DOMAIN stream.lines :
                          HasText(strategy, stream.lines[l]) /\ 3 * l <= received}
    BY <2>7, <2>8
  <2> QED
    BY <2>4, <2>5, <2>6, <2>9
<1> QED
  BY <1>1, ChatInvariant, PTL

(***************************************************************************)
(* A request keeps the first round, the message to be answered and as many *)
(* before it as the window admits, whole and with one notice in the gap.   *)
(***************************************************************************)
THEOREM RequestsAreFaithful == HelperSpec => []RequestIsFaithful
<1>1. ASSUME ChatInv PROVE RequestIsFaithful
  <2>1. SUFFICES ASSUME pc # "idle" PROVE RequestIsFaithful
    BY DEF RequestIsFaithful
  <2>2. StrategyOK /\ sent = BuildRequestWithContext(strategy, messages)
    BY <1>1, <2>1 DEF ChatInv, Requested
  <2>3. PICK mem : /\ Kept(mem, rows, lost)
                   /\ messages = mem \/ \E x \in Msg : messages = Append(mem, x)
    BY <1>1 DEF ChatInv, Remembered
  <2>4. messages \in Seq(Msg)
    <3>1. mem \in Seq(Msg)
      BY <2>3 DEF Kept
    <3> QED
      BY <2>3, <3>1, AppendProperties
  <2> QED
    BY <2>2, <2>4, WholeRequest, TrimmedRequest
<1> QED
  BY <1>1, ChatInvariant, PTL

(***************************************************************************)
(* No tool runs but one that a reply asked for in a legal way: named by    *)
(* it, alone, not denied, listed, registered, and with the arguments that  *)
(* the reply gives: known ones, all that are required, each of its type.   *)
(***************************************************************************)
THEOREM ToolsAreAskedFor == HelperSpec => []ToolOnlyAsAsked
<1>1. ASSUME ChatInv PROVE ToolOnlyAsAsked
  BY <1>1 DEF ChatInv, RanAsAsked, Legal, Admitted, ToolOnlyAsAsked
<1> QED
  BY <1>1, ChatInvariant, PTL
=============================================================================

---------------------------- MODULE DispatchProofs ----------------------------
(***************************************************************************)
(* Proofs about Dispatch, for every set of routes, requests and loops and  *)
(* every bound: what clients are told of accounts fits together, answers   *)
(* can be read, and each request is served by the right route.             *)
(***************************************************************************)
EXTENDS Dispatch, SequenceTheorems, FiniteSetTheorems,
        WellFoundedInduction, TLAPS

Row == {[name |-> req.name, password |-> req.password] : req \in Requests}

RowOf(req) == [name |-> req.name, password |-> req.password]

(* A loop that is not idle has a request, of those that clients send, a    *)
(* response into which nothing has been put, and nobody who serves it      *)
(* before it is routed.                                                    *)
Fresh(resp) == \E close \in BOOLEAN : resp = NewResponse(close)

Busy(r) ==
  /\ r = [pc |-> r.pc, req |-> r.req, by |-> r.by, resp |-> r.resp, polls |-> r.polls]
  /\ Fresh(r.resp) /\ (r.pc = "before" => r.by = <<>>)

LoopsBusy ==
  /\ loop = [l \in Loop |-> loop[l]]
  /\ \A l \in Loop : loop[l] = Idle \/ (Busy(loop[l]) /\ loop[l].req \in Requests)

(* A name that the index protects, or that nobody raced for. *)
Safe(name) == UniqueNames \/ name \notin raced

(* The table has one row for such a name, *)
NamesDiffer ==
  /\ users \in Seq(Row)
  /\ \A i, j \in 1..Len(users) :
       users[i].name = users[j].name /\ Safe(users[i].name) => i = j

(* answers speak of rows that are there, will stay, and have that name,    *)
(* and for such a name the password too,                                   *)
ToldIsThere ==
  \A a \in told :
    /\ a = [name |-> a.name, password |-> a.password, id |-> a.id]
    /\ a.id \in 1..Len(users)
    /\ users[a.id].name = a.name
    /\ Safe(a.name) => users[a.id].password = a.password

(* a registration that reads its id back has inserted its row, *)
InsertedIsThere ==
  \A l \in Loop : loop[l].pc = "select" =>
    \E i \in 1..Len(users) : users[i] = RowOf(loop[l].req)

(* and one that is about to insert, and has not raced, is alone with its   *)
(* name, which no row has.                                                 *)
FoundFree ==
  \A l \in Loop : loop[l].pc = "insert" /\ loop[l].req.name \notin raced =>
    /\ \A i \in 1..Len(users) : users[i].name # loop[l].req.name
    /\ \A k \in Loop : loop[k].pc = "insert" /\ loop[k].req.name = loop[l].req.name => k = l

IInv == LoopsBusy /\ NamesDiffer /\ ToldIsThere /\ InsertedIsThere /\ FoundFree

-----------------------------------------------------------------------------
(* Rows have names and places of their own. *)
LEMMA AccountsFit ==
  ASSUME IInv  PROVE  OneAccount
<1> SUFFICES ASSUME NEW a \in told, NEW b \in told, a.name = b.name \/ a.id = b.id,
                    Safe(a.name)
             PROVE  a = b
  BY DEF OneAccount, Safe
<1>1. /\ a.id \in 1..Len(users) /\ b.id \in 1..Len(users)
      /\ users[a.id].name = a.name /\ users[b.id].name = b.name
  BY DEF IInv, ToldIsThere
<1>2. a.name = b.name
  BY <1>1
<1>3. a.id = b.id
  BY <1>1, <1>2 DEF IInv, NamesDiffer
<1>4. users[a.id].password = a.password /\ users[b.id].password = b.password
  BY <1>2 DEF IInv, ToldIsThere
<1> QED
  BY <1>2, <1>3, <1>4 DEF IInv, ToldIsThere

(* RowsOf over the places in the table. *)
LEMMA RowsAreRows ==
  ASSUME NamesDiffer, NEW name
  PROVE  RowsOf(name) = {id \in 1..Len(users) : users[id].name = name}
BY LenProperties DEF RowsOf, NamesDiffer

(* Every loop is idle and the table is empty. *)
LEMMA InitHolds ==
  ASSUME Init  PROVE  IInv
<1>1. LoopsBusy
  BY DEF Init, LoopsBusy
<1>2. NamesDiffer /\ ToldIsThere /\ InsertedIsThere /\ FoundFree
  BY EmptySeq DEF Init, NamesDiffer, ToldIsThere, InsertedIsThere, FoundFree, Idle
<1> QED
  BY <1>1, <1>2 DEF IInv

(* A step that leaves the accounts alone: one loop goes on with its        *)
(* request, not to where it inserts or reads an id, or becomes idle.        *)
Elsewhere(l, r) ==
  /\ l \in Loop /\ loop' = [loop EXCEPT ![l] = r]
  /\ \/ r = Idle
     \/ Busy(r) /\ r.req \in Requests /\ r.pc \notin {"insert", "select"}
  /\ UNCHANGED <<users, told, raced>>

(* Such a step keeps the invariant. *)
LEMMA ElsewhereKeeps ==
  ASSUME IInv, NEW l, NEW r, Elsewhere(l, r)
  PROVE  IInv'
<1>1. \A k \in Loop : loop'[k] = IF k = l THEN r ELSE loop[k]
  BY DEF IInv, LoopsBusy, Elsewhere
<1>2. LoopsBusy'
  BY <1>1 DEF IInv, LoopsBusy, Elsewhere, Busy, Idle
<1>3. NamesDiffer' /\ ToldIsThere'
  BY DEF IInv, NamesDiffer, ToldIsThere, Safe, Elsewhere
<1>4. InsertedIsThere'
  BY <1>1 DEF IInv, InsertedIsThere, Elsewhere, RowOf, Idle
<1>5. \A k \in Loop : loop'[k].pc = "insert" => loop'[k] = loop[k]
  BY <1>1 DEF Elsewhere, Idle
<1>6. FoundFree'
  BY <1>5 DEF IInv, FoundFree, Elsewhere
<1> QED
  BY <1>2, <1>3, <1>4, <1>6 DEF IInv

(* An answer that speaks of no account. *)
LEMMA SendKeeps ==
  ASSUME IInv, NEW l \in Loop, NEW resp, Send(l, resp, {}), UNCHANGED <<users, raced>>
  PROVE  IInv'
<1>1. Elsewhere(l, Idle)
  BY DEF Send, Elsewhere
<1> QED
  BY <1>1, ElsewhereKeeps

(* The same through the middleware. *)
LEMMA ReturnKeeps ==
  ASSUME IInv, NEW l \in Loop, NEW resp, Return(l, resp), UNCHANGED <<users, raced>>
  PROVE  IInv'
BY SendKeeps DEF Return

(* So does what is made of a handler's outcome. *)
LEMMA ConcludeKeeps ==
  ASSUME IInv, NEW l \in Loop, NEW outcome, Conclude(l, outcome), UNCHANGED <<users, raced>>
  PROVE  IInv'
BY SendKeeps, ReturnKeeps DEF Conclude

(* An answer that speaks of a row. *)
LEMMA TellKeeps ==
  ASSUME IInv, NEW l \in Loop, NEW name, NEW password, NEW id \in 1..Len(users),
         users[id].name = name, Safe(name) => users[id].password = password,
         Tell(l, name, password, id), UNCHANGED <<users, raced>>
  PROVE  IInv'
<1> DEFINE account == [name |-> name, password |-> password, id |-> id]
<1>1. loop' = [loop EXCEPT ![l] = Idle] /\ told' = told \cup {account}
  BY DEF Tell, Send
<1>2. \A k \in Loop : loop'[k] = IF k = l THEN Idle ELSE loop[k]
  BY <1>1 DEF IInv, LoopsBusy
<1>3. LoopsBusy'
  BY <1>1, <1>2 DEF IInv, LoopsBusy, Busy
<1>4. NamesDiffer'
  BY DEF IInv, NamesDiffer, Safe
<1>5. ToldIsThere'
  <2> SUFFICES ASSUME NEW a \in told'
               PROVE  /\ a = [name |-> a.name, password |-> a.password, id |-> a.id]
                      /\ a.id \in 1..Len(users)
                      /\ users[a.id].name = a.name
                      /\ Safe(a.name) => users[a.id].password = a.password
    BY DEF ToldIsThere, Safe
  <2>1. CASE a \in told
    BY <2>1 DEF IInv, ToldIsThere
  <2>2. CASE a = account
    BY <2>2
  <2> QED
    BY <1>1, <2>1, <2>2
<1>6. InsertedIsThere'
  BY <1>2 DEF IInv, InsertedIsThere, RowOf, Idle
<1>7. \A k \in Loop : loop'[k].pc = "insert" => loop'[k] = loop[k]
  BY <1>2 DEF Idle
<1>8. FoundFree'
  BY <1>7 DEF IInv, FoundFree
<1> QED
  BY <1>3, <1>4, <1>5, <1>6, <1>8 DEF IInv

-----------------------------------------------------------------------------
(* A loop that is not idle is in a request. *)
LEMMA BusyIsBusy ==
  ASSUME IInv, NEW l \in Loop, loop[l].pc # "idle"
  PROVE  Busy(loop[l]) /\ loop[l].req \in Requests
BY DEF IInv, LoopsBusy, Idle

(* A loop that goes from one statement to the next. *)
LEMMA GoOn ==
  ASSUME IInv, NEW l \in Loop, loop[l].pc # "idle", NEW pc, pc \notin {"before", "insert", "select"},
         loop' = [loop EXCEPT ![l].pc = pc], UNCHANGED <<users, told, raced>>
  PROVE  IInv'
<1>1. Busy(loop[l]) /\ loop[l].req \in Requests
  BY BusyIsBusy
<1> DEFINE r == [loop[l] EXCEPT !.pc = pc]
<1>2. Busy(r) /\ r.req \in Requests /\ r.pc \notin {"insert", "select"}
  BY <1>1 DEF Busy
<1>3. loop' = [loop EXCEPT ![l] = r]
  OBVIOUS
<1>4. Elsewhere(l, r)
  BY <1>2, <1>3 DEF Elsewhere
<1> QED
  BY <1>4, ElsewhereKeeps

(* A request that has come is fresh. *)
LEMMA OnRequestKeeps ==
  ASSUME IInv, NEW l \in Loop, NEW req \in Requests, OnRequest(l, req)
  PROVE  IInv'
<1> DEFINE r == [pc |-> "before", req |-> req, by |-> <<>>,
                 resp |-> NewResponse(CloseAsked(req)), polls |-> 0]
<1>1. Busy(r) /\ r.req \in Requests /\ r.pc \notin {"insert", "select"}
  BY DEF Busy, Fresh, CloseAsked
<1>2. Elsewhere(l, r)
  BY <1>1 DEF OnRequest, Elsewhere, Silent
<1> QED
  BY <1>2, ElsewhereKeeps

(* Who serves a request is not yet what it knows of accounts. *)
LEMMA RouteRequestKeeps ==
  ASSUME IInv, NEW l \in Loop, RouteRequest(l)
  PROVE  IInv'
<1>1. loop[l].pc = "before" /\ UNCHANGED <<users, told, raced>>
  BY DEF RouteRequest, Silent
<1>2. Busy(loop[l]) /\ loop[l].req \in Requests
  BY <1>1, BusyIsBusy
<1>3. \A x \in DOMAIN FirstStep : FirstStep[x] \notin {"before", "insert", "select"}
  BY DEF FirstStep
<1>4. PICK by, pc : /\ pc \notin {"before", "insert", "select"}
                    /\ loop' = [loop EXCEPT ![l].by = by, ![l].pc = pc]
  BY <1>3 DEF RouteRequest
<1>5. PICK q : q = loop[l]
  OBVIOUS
<1>6. PICK p : p = [q EXCEPT !.by = by]
  OBVIOUS
<1>7. PICK r : r = [p EXCEPT !.pc = pc]
  OBVIOUS
<1>8. p = [pc |-> q.pc, req |-> q.req, by |-> by, resp |-> q.resp, polls |-> q.polls]
  BY <1>2, <1>5, <1>6 DEF Busy
<1>9. r = [pc |-> pc, req |-> q.req, by |-> by, resp |-> q.resp, polls |-> q.polls]
  BY <1>7, <1>8
<1>10. Busy(r) /\ r.req \in Requests /\ r.pc \notin {"insert", "select"}
  BY <1>2, <1>4, <1>5, <1>9 DEF Busy
<1>11. loop' = [loop EXCEPT ![l] = r]
  <2>1. r = [loop[l] EXCEPT !.by = by, !.pc = pc]
    BY <1>5, <1>6, <1>7
  <2> QED
    BY <1>4, <2>1
<1>12. Elsewhere(l, r)
  BY <1>1, <1>10, <1>11 DEF Elsewhere
<1> QED
  BY <1>12, ElsewhereKeeps

(* Handlers of one step speak of no account. *)
LEMMA HandleRequestKeeps ==
  ASSUME IInv, NEW l \in Loop, HandleRequest(l)
  PROVE  IInv'
<1>1. CASE loop[l].by = <<>>
  BY <1>1, ReturnKeeps DEF HandleRequest
<1>2. CASE loop[l].by # <<>>
  <2>1. PICK outcome : Conclude(l, outcome)
    BY <1>2 DEF HandleRequest
  <2> QED
    BY <2>1, ConcludeKeeps DEF HandleRequest
<1> QED
  BY <1>1, <1>2

(* A name that is found free: a race, or the only one that is inserted.    *)
LEMMA FindFreeKeeps ==
  ASSUME IInv, NEW l \in Loop, loop[l].pc = "isUserExist", RowsOf(loop[l].req.name) = {},
         FindFree(l), UNCHANGED users
  PROVE  IInv'
<1>1. PICK name : name = loop[l].req.name
  OBVIOUS
<1>2. PICK r : r = [loop[l] EXCEPT !.pc = "insert"]
  OBVIOUS
<1>3. Busy(loop[l]) /\ loop[l].req \in Requests
  BY BusyIsBusy
<1>4. Busy(r) /\ r.req = loop[l].req /\ r.req \in Requests /\ r.pc = "insert"
  BY <1>2, <1>3 DEF Busy
<1>5. loop' = [loop EXCEPT ![l] = r] /\ told' = told
  BY <1>2 DEF FindFree, Silent
<1>6. \A k \in Loop : loop'[k] = IF k = l THEN r ELSE loop[k]
  BY <1>5 DEF IInv, LoopsBusy
<1>7. LoopsBusy'
  BY <1>4, <1>5, <1>6 DEF IInv, LoopsBusy
<1>8. raced \subseteq raced'
  BY DEF FindFree
<1>9. NamesDiffer' /\ ToldIsThere'
  BY <1>5, <1>8 DEF IInv, NamesDiffer, ToldIsThere, Safe
<1>10. InsertedIsThere'
  BY <1>4, <1>6 DEF IInv, InsertedIsThere
<1>11. name \notin raced' => \A k \in Loop : loop[k].pc = "insert" => loop[k].req.name # name
  BY <1>1 DEF FindFree
<1>12. \A i \in 1..Len(users) : users[i].name # name
  BY <1>1, RowsAreRows DEF IInv
<1>13. FoundFree'
  <2> SUFFICES ASSUME NEW k \in Loop, loop'[k].pc = "insert", loop'[k].req.name \notin raced'
               PROVE  /\ \A i \in 1..Len(users) : users[i].name # loop'[k].req.name
                      /\ \A o \in Loop :
                           loop'[o].pc = "insert" /\ loop'[o].req.name = loop'[k].req.name => o = k
    BY DEF FoundFree
  <2>1. CASE k = l
    BY <1>1, <1>4, <1>6, <1>11, <1>12, <2>1
  <2>2. CASE k # l
    <3>1. loop'[k] = loop[k] /\ loop[k].req.name \notin raced
      BY <1>6, <1>8, <2>2
    <3>2. /\ \A i \in 1..Len(users) : users[i].name # loop[k].req.name
          /\ \A o \in Loop :
               loop[o].pc = "insert" /\ loop[o].req.name = loop[k].req.name => o = k
      BY <3>1 DEF IInv, FoundFree
    <3>3. name # loop[k].req.name
      BY <1>11, <3>1
    <3> QED
      BY <1>1, <1>4, <1>6, <3>1, <3>2, <3>3
  <2> QED
    BY <2>1, <2>2
<1> QED
  BY <1>7, <1>9, <1>10, <1>13 DEF IInv

(* The new row has a name of its own, if the name is safe. *)
LEMMA InsertUserKeeps ==
  ASSUME IInv, NEW l \in Loop, InsertUser(l)
  PROVE  IInv'
<1> DEFINE req == loop[l].req
           r == [loop[l] EXCEPT !.pc = "select"]
<1>1. CASE ~(RowsOf(req.name) = {} \/ ~UniqueNames)
  BY <1>1, ReturnKeeps DEF InsertUser
<1>2. CASE RowsOf(req.name) = {} \/ ~UniqueNames
  <2>1. /\ loop[l].pc = "insert" /\ users' = Append(users, RowOf(req))
        /\ loop' = [loop EXCEPT ![l] = r] /\ told' = told /\ raced' = raced
    BY <1>2 DEF InsertUser, Silent, RowOf
  <2>2. /\ Busy(loop[l]) /\ req \in Requests
    BY <2>1, BusyIsBusy
  <2>3. Busy(r) /\ r.req = req /\ r.pc = "select"
    BY <2>2 DEF Busy
  <2>4. \A k \in Loop : loop'[k] = IF k = l THEN r ELSE loop[k]
    BY <2>1 DEF IInv, LoopsBusy
  <2> HIDE DEF r
  <2>5. LoopsBusy'
    BY <2>1, <2>2, <2>3, <2>4 DEF IInv, LoopsBusy
  <2>6. users \in Seq(Row) /\ RowOf(req) \in Row /\ RowOf(req).name = req.name
    BY <2>2 DEF IInv, NamesDiffer, Row, RowOf
  <2>7. PICK n \in Nat : n = Len(users)
    BY <2>6, LenProperties
  <2>8. /\ users' \in Seq(Row) /\ Len(users') = n + 1
        /\ \A i \in 1..n : users'[i] = users[i]
        /\ users'[n + 1] = RowOf(req)
    BY <2>1, <2>6, <2>7, AppendProperties, LenProperties
  <2>9. Safe(req.name) => \A i \in 1..n : users[i].name # req.name
    <3>1. CASE UniqueNames
      BY <1>2, <2>7, <3>1, RowsAreRows DEF IInv
    <3>2. CASE req.name \notin raced
      BY <2>1, <2>7, <3>2 DEF IInv, FoundFree
    <3> QED
      BY <3>1, <3>2 DEF Safe
  <2>10. \A name : Safe(name)' = Safe(name)
    BY <2>1 DEF Safe
  <2>11. NamesDiffer'
    <3> SUFFICES ASSUME NEW i \in 1..(n + 1), NEW j \in 1..(n + 1),
                        users'[i].name = users'[j].name, Safe(users'[i].name)
                 PROVE  i = j
      BY <2>8, <2>10 DEF NamesDiffer
    <3>1. CASE i \in 1..n /\ j \in 1..n
      BY <2>7, <2>8, <3>1 DEF IInv, NamesDiffer
    <3>2. CASE i = n + 1 /\ j \in 1..n
      BY <2>6, <2>8, <2>9, <3>2
    <3>3. CASE i \in 1..n /\ j = n + 1
      BY <2>6, <2>8, <2>9, <3>3
    <3> QED
      BY <3>1, <3>2, <3>3
  <2>12. ToldIsThere'
    <3> SUFFICES ASSUME NEW a \in told
                 PROVE  /\ a = [name |-> a.name, password |-> a.password, id |-> a.id]
                        /\ a.id \in 1..Len(users') /\ users'[a.id].name = a.name
                        /\ Safe(a.name) => users'[a.id].password = a.password
      BY <2>1, <2>10 DEF ToldIsThere
    <3>1. /\ a = [name |-> a.name, password |-> a.password, id |-> a.id]
          /\ a.id \in 1..n /\ users[a.id].name = a.name
          /\ Safe(a.name) => users[a.id].password = a.password
      BY <2>7 DEF IInv, ToldIsThere
    <3>2. a.id \in 1..(n + 1) /\ users'[a.id] = users[a.id]
      BY <2>8, <3>1
    <3> QED
      BY <2>8, <3>1, <3>2
  <2>13. InsertedIsThere'
    <3> SUFFICES ASSUME NEW k \in Loop, loop'[k].pc = "select"
                 PROVE  \E i \in 1..Len(users') : users'[i] = RowOf(loop'[k].req)
      BY DEF InsertedIsThere
    <3>1. CASE k = l
      BY <2>3, <2>4, <2>8, <3>1
    <3>2. CASE k # l
      <4>1. PICK i \in 1..n : users[i] = RowOf(loop[k].req)
        BY <2>4, <2>7, <3>2 DEF IInv, InsertedIsThere
      <4>2. i \in 1..(n + 1) /\ users'[i] = RowOf(loop[k].req)
        BY <2>8, <4>1
      <4> QED
        BY <2>4, <2>8, <3>2, <4>2
    <3> QED
      BY <3>1, <3>2
  <2>14. FoundFree'
    <3> SUFFICES ASSUME NEW k \in Loop, loop'[k].pc = "insert", loop'[k].req.name \notin raced
                 PROVE  /\ \A i \in 1..Len(users') : users'[i].name # loop'[k].req.name
                        /\ \A o \in Loop :
                             loop'[o].pc = "insert" /\ loop'[o].req.name = loop'[k].req.name
                               => o = k
      BY <2>1 DEF FoundFree
    <3>1. k # l /\ loop'[k] = loop[k]
      BY <2>3, <2>4
    <3>2. /\ \A i \in 1..n : users[i].name # loop[k].req.name
          /\ \A o \in Loop :
               loop[o].pc = "insert" /\ loop[o].req.name = loop[k].req.name => o = k
      BY <2>7, <3>1 DEF IInv, FoundFree
    <3>3. req.name # loop[k].req.name
      BY <2>1, <3>1, <3>2
    <3>4. ASSUME NEW i \in 1..(n + 1)  PROVE users'[i].name # loop[k].req.name
      <4>1. CASE i \in 1..n
        BY <2>8, <3>2, <4>1
      <4>2. CASE i = n + 1
        BY <2>6, <2>8, <3>3, <4>2
      <4> QED
        BY <4>1, <4>2
    <3>5. ASSUME NEW o \in Loop, loop'[o].pc = "insert", loop'[o].req.name = loop[k].req.name
          PROVE  o = k
      BY <2>3, <2>4, <3>2, <3>5
    <3> QED
      BY <2>8, <3>1, <3>4, <3>5
  <2> QED
    BY <2>5, <2>11, <2>12, <2>13, <2>14 DEF IInv
<1> QED
  BY <1>1, <1>2

(* The id that is read back is the one of the row that was inserted. *)
LEMMA SelectIdKeeps ==
  ASSUME IInv, NEW l \in Loop, SelectId(l)
  PROVE  IInv'
<1> DEFINE req == loop[l].req
<1>1. PICK id \in RowsOf(req.name) : Tell(l, req.name, req.password, id)
  BY DEF SelectId
<1>2. id \in 1..Len(users) /\ users[id].name = req.name
  BY <1>1, RowsAreRows DEF IInv
<1>3. ASSUME Safe(req.name)  PROVE users[id].password = req.password
  <2>1. PICK i \in 1..Len(users) : users[i] = RowOf(req)
    BY DEF SelectId, IInv, InsertedIsThere
  <2>2. i = id
    BY <1>2, <1>3, <2>1 DEF IInv, NamesDiffer, RowOf
  <2> QED
    BY <2>1, <2>2 DEF RowOf
<1> QED
  BY <1>1, <1>2, <1>3, TellKeeps DEF SelectId

(* A login speaks of a row that has its name and its password. *)
LEMMA QueryUserIdKeeps ==
  ASSUME IInv, NEW l \in Loop, QueryUserId(l)
  PROVE  IInv'
<1> DEFINE req == loop[l].req
           rows == {id \in RowsOf(req.name) : users[id].password = req.password}
<1>1. CASE \E id \in rows : Tell(l, req.name, req.password, id)
  <2>1. PICK id \in rows : Tell(l, req.name, req.password, id)
    BY <1>1
  <2>2. /\ id \in 1..Len(users)
        /\ users[id].name = req.name /\ users[id].password = req.password
    BY <2>1, RowsAreRows DEF IInv
  <2> QED
    BY <2>1, <2>2, TellKeeps DEF QueryUserId
<1>2. CASE Return(l, PackageResp(loop[l].resp, 401, FALSE, 1))
  BY <1>2, ReturnKeeps DEF QueryUserId
<1> QED
  BY <1>1, <1>2 DEF QueryUserId

(* Waiting for speech changes no account. *)
LEMMA PollKeeps ==
  ASSUME IInv, NEW l \in Loop, Poll(l)
  PROVE  IInv'
<1>1. CASE Return(l, Succeeded(loop[l].resp))
  BY <1>1, ReturnKeeps DEF Poll
<1>2. CASE loop' = [loop EXCEPT ![l].polls = @ + 1] /\ Silent
  <2> DEFINE n == loop[l].polls + 1
             r == [loop[l] EXCEPT !.polls = n]
  <2>1. loop[l].pc = "poll" /\ UNCHANGED <<users, told, raced>> /\ loop' = [loop EXCEPT ![l] = r]
    BY <1>2 DEF Poll, Silent
  <2>2. Busy(loop[l]) /\ loop[l].req \in Requests
    BY <2>1, BusyIsBusy
  <2> HIDE DEF n
  <2>3. Busy(r) /\ r.req \in Requests /\ r.pc \notin {"insert", "select"}
    BY <2>1, <2>2 DEF Busy
  <2>4. Elsewhere(l, r)
    BY <2>1, <2>3 DEF Elsewhere
  <2> QED
    BY <2>4, ElsewhereKeeps
<1> QED
  BY <1>1, <1>2 DEF Poll

(* Every step keeps what holds of accounts. *)
LEMMA NextKeeps ==
  ASSUME IInv, [Next]_vars
  PROVE  IInv'
<1>1. CASE UNCHANGED vars
  BY <1>1 DEF vars, IInv, LoopsBusy, NamesDiffer, Safe, ToldIsThere, InsertedIsThere, FoundFree
<1>2. ASSUME NEW route \in MoreRoutes, RegisterRoute(route)  PROVE IInv'
  <2>1. UNCHANGED <<loop, users, told, raced>>
    BY <1>2 DEF RegisterRoute, Silent
  <2> QED
    BY <2>1 DEF IInv, LoopsBusy, NamesDiffer, Safe, ToldIsThere, InsertedIsThere, FoundFree
<1>3. ASSUME NEW l \in Loop, NEW req \in Requests, OnRequest(l, req)  PROVE IInv'
  BY <1>3, OnRequestKeeps
<1>4. ASSUME NEW l \in Loop, Step(l)  PROVE IInv'
  <2>1. CASE Preflight(l)
    BY <2>1, SendKeeps DEF Preflight
  <2>2. CASE RouteRequest(l)
    BY <2>2, RouteRequestKeeps
  <2>3. CASE HandleRequest(l)
    BY <2>3, HandleRequestKeeps
  <2>4. CASE Unreadable(l)
    BY <2>4, ConcludeKeeps DEF Unreadable
  <2>5. CASE IsUserExist(l)
    <3>1. CASE RowsOf(loop[l].req.name) = {}
      BY <2>5, <3>1, FindFreeKeeps DEF IsUserExist
    <3>2. CASE RowsOf(loop[l].req.name) # {}
      BY <2>5, <3>2, ReturnKeeps DEF IsUserExist
    <3> QED
      BY <3>1, <3>2
  <2>6. CASE InsertUser(l)
    BY <2>6, InsertUserKeeps
  <2>7. CASE SelectId(l)
    BY <2>7, SelectIdKeeps
  <2>8. CASE QueryUserId(l)
    BY <2>8, QueryUserIdKeeps
  <2>9. CASE Fail(l)
    BY <2>9, ReturnKeeps DEF Fail
  <2>10. CASE CreateTask(l)
    <3>1. loop[l].pc = "speech" /\ UNCHANGED <<users, raced>>
      BY <2>10 DEF CreateTask
    <3>2. \/ \E outcome : Conclude(l, outcome)
          \/ loop' = [loop EXCEPT ![l].pc = "poll"] /\ UNCHANGED told
      BY <2>10 DEF CreateTask, Silent
    <3> QED
      BY <3>1, <3>2, ConcludeKeeps, GoOn
  <2>11. CASE Poll(l)
    BY <2>11, PollKeeps
  <2> QED
    BY <1>4, <2>1, <2>2, <2>3, <2>4, <2>5, <2>6, <2>7, <2>8, <2>9, <2>10, <2>11 DEF Step
<1> QED
  BY <1>1, <1>2, <1>3, <1>4 DEF Next

-----------------------------------------------------------------------------
(***************************************************************************)
(* Whoever registers and logs in at once, and whichever statement fails,   *)
(* clients are told of one account for a name and for an id: if the table  *)
(* of the users has a unique index on the name, for every name; if it has  *)
(* none, for every name for which no two registrations raced.              *)
(***************************************************************************)
THEOREM AccountsHold == Spec => []OneAccount
<1>1. Init => IInv
  BY InitHolds
<1>2. IInv /\ [Next]_vars => IInv'
  BY NextKeeps
<1>3. IInv => OneAccount
  BY AccountsFit
<1> QED
  BY <1>1, <1>2, <1>3, PTL DEF Spec

-----------------------------------------------------------------------------
(* A response has its fields.  A handler, or the 404, is done with it when *)
(* it is deferred or the client can tell where it ends; a handler that     *)
(* ends it has set the version.                                            *)
Shape(r) ==
  r = [status |-> r.status, version |-> r.version, close |-> r.close, length |-> r.length,
       body |-> r.body, origin |-> r.origin, deferred |-> r.deferred]

Finished(r) == Shape(r) /\ (r.deferred \/ (r.status # 500 /\ HasEnd(r)))

Good(r) == Finished(r) /\ (r.deferred \/ r.version)

(* What an exception that leaves a handler takes. *)
Excused(req, name) ==
  req.content = "ill-formed" \/ (name = "ChatEntryHandler" /\ FileThrows("entry.html"))

Readable(req, by, r) ==
  IF r.status = 500 THEN Excused(req, by[1].target)
  ELSE /\ HasEnd(r)
       /\ r.deferred \/ MayRead(req, r)
       /\ by # <<>> => r.version

(* The allowed origins that the middleware can name in one header. *)
OriginsFit == Contains(AllowedOrigins, "*") \/ Len(AllowedOrigins) = 1

(* A new response has the fields. *)
LEMMA NewHasShape ==
  ASSUME NEW resp, Fresh(resp)  PROVE Shape(resp) /\ ~resp.deferred
BY DEF Fresh, Shape, NewResponse

Statuses == {200, 400, 401, 409}

(* packageResp sets the version, and a length with every body. *)
LEMMA PackedIsGood ==
  ASSUME NEW resp, Shape(resp), NEW status \in Statuses, NEW close, NEW size
  PROVE  Good(PackageResp(resp, status, close, size))
<1>1. PICK r : r = PackageResp(resp, status, close, size)
  OBVIOUS
<1>2. r = [status |-> status, version |-> TRUE, close |-> close, length |-> size,
           body |-> size, origin |-> resp.origin, deferred |-> resp.deferred]
  BY <1>1 DEF Shape, PackageResp
<1>3. Good(r)
  BY <1>2 DEF Statuses, Good, Finished, HasEnd, Shape
<1> QED
  BY <1>1, <1>3

(* The answers that handlers make with packageResp. *)
LEMMA PackedAnswers ==
  ASSUME NEW resp, Shape(resp)
  PROVE  /\ Good(Succeeded(resp)) /\ Good(Unauthorized(resp))
         /\ Good(BadRequest(resp)) /\ Good(NotJson(resp))
<1>0. 200 \in Statuses /\ 401 \in Statuses /\ 400 \in Statuses
  BY DEF Statuses
<1>1. Good(PackageResp(resp, 200, FALSE, 1))
  BY <1>0, PackedIsGood, ZenonT(60)
<1>2. Good(PackageResp(resp, 401, TRUE, 1))
  BY <1>0, PackedIsGood, ZenonT(60)
<1>3. Good(PackageResp(resp, 400, TRUE, 1))
  BY <1>0, PackedIsGood, ZenonT(60)
<1>4. Good(PackageResp(resp, 400, TRUE, 0))
  BY <1>0, PackedIsGood, ZenonT(60)
<1> QED
  BY <1>1, <1>2, <1>3, <1>4 DEF Succeeded, Unauthorized, BadRequest, NotJson

(* A 404 has neither version nor length, but closes. *)
LEMMA NotFoundIsFinished ==
  ASSUME NEW resp, Shape(resp), ~resp.deferred
  PROVE  /\ Finished(NotFound(resp))
         /\ NotFound(resp).status = 404 /\ ~NotFound(resp).deferred
<1>1. PICK status, close : status = 404 /\ close = TRUE
  OBVIOUS
<1>2. PICK r : r = [resp EXCEPT !.status = status, !.close = close]
  OBVIOUS
<1>3. r = [status |-> status, version |-> resp.version, close |-> close,
           length |-> resp.length, body |-> resp.body, origin |-> resp.origin,
           deferred |-> resp.deferred]
  BY <1>2 DEF Shape
<1>4. r = NotFound(resp)
  BY <1>1, <1>2 DEF NotFound
<1>5. r.status = 404 /\ r.close /\ ~r.deferred
  BY <1>1, <1>3
<1>6. Finished(r)
  BY <1>3, <1>5 DEF Finished, HasEnd, Shape
<1> QED
  BY <1>4, <1>5, <1>6

(* A deferred answer is not the loop's to finish. *)
LEMMA DeferredIsGood ==
  ASSUME NEW resp, Shape(resp)
  PROVE  Good(SetDeferred(resp))
<1>1. PICK r : r = SetDeferred(resp)
  OBVIOUS
<1>2. r = [status |-> resp.status, version |-> resp.version, close |-> resp.close,
           length |-> resp.length, body |-> resp.body, origin |-> resp.origin,
           deferred |-> TRUE]
  BY <1>1 DEF Shape, SetDeferred
<1>3. Good(r)
  BY <1>2 DEF Good, Finished, Shape
<1> QED
  BY <1>1, <1>3

-----------------------------------------------------------------------------
(* An outcome of a handler: a good response, or an exception that has its  *)
(* excuse.                                                                 *)
Ended(o, req, name) ==
  /\ Shape(o.resp)
  /\ IF o.throws THEN Excused(req, name) ELSE Good(o.resp)

AllEnd(outcomes, req, name) == \A o \in outcomes : Ended(o, req, name)

(* A handler that returns ends with a good response, *)
LEMMA ReturnedEnds ==
  ASSUME NEW resp, Good(resp), NEW req, NEW name
  PROVE  Ended(Returned(resp), req, name)
BY DEF Ended, Returned, Good, Finished

(* one that throws has its excuse, *)
LEMMA ThrownEnds ==
  ASSUME NEW resp, Shape(resp), NEW req, NEW name, Excused(req, name)
  PROVE  Ended(Thrown(resp), req, name)
BY DEF Ended, Thrown

(* as one has that throws at a body. *)
LEMMA ParseEnds ==
  ASSUME NEW req, NEW resp, Shape(resp), NEW name
  PROVE  Ended(ParseThrows(req, resp), req, name)
<1>1. CASE req.content = "ill-formed"
  BY <1>1, ThrownEnds DEF ParseThrows, Excused
<1>2. CASE req.content # "ill-formed"
  BY <1>2, PackedAnswers, ReturnedEnds DEF ParseThrows
<1> QED
  BY <1>1, <1>2

(* Of the handlers that ask for a login, the refusal is good. *)
LEMMA LoggedInEnds ==
  ASSUME NEW req \in Requests, NEW resp, Shape(resp), NEW name,
         NEW outcomes, AllEnd(outcomes, req, name)
  PROVE  AllEnd(LoggedIn(req, resp, outcomes), req, name)
<1>1. req.session \in {"none", "half", "user"}
  BY DispatchAssumption
<1>2. /\ Ended(Returned(Unauthorized(resp)), req, name)
      /\ Ended(Returned(BadRequest(resp)), req, name)
  BY PackedAnswers, ReturnedEnds
<1>3. LoggedIn(req, resp, outcomes)
        \in {{Returned(Unauthorized(resp))}, {Returned(BadRequest(resp))}, outcomes}
  BY <1>1 DEF LoggedIn
<1> QED
  BY <1>2, <1>3 DEF AllEnd

(* The handlers of a page, *)
LEMMA PageEnds ==
  ASSUME NEW req \in Requests, NEW resp, Shape(resp), NEW file, NEW name
  PROVE  AllEnd(Page(req, resp, file), req, name)
<1>1. PICK a : a = IF FileThrows(file) THEN BadRequest(resp) ELSE Succeeded(resp)
  OBVIOUS
<1>2. Ended(Returned(a), req, name)
  BY <1>1, PackedAnswers, ReturnedEnds
<1>3. AllEnd({Returned(a)}, req, name)
  BY <1>2 DEF AllEnd
<1>4. Page(req, resp, file) = LoggedIn(req, resp, {Returned(a)})
  BY <1>1 DEF Page
<1> QED
  BY <1>3, <1>4, LoggedInEnds

(* those that read a body, *)
LEMMA BodiedEnds ==
  ASSUME NEW req \in Requests, NEW resp, Shape(resp), NEW needed, NEW name,
         NEW answers, \A a \in answers : Good(a)
  PROVE  AllEnd(Bodied(req, resp, needed, answers), req, name)
<1>1. PICK outcomes :
        outcomes = IF CannotBeRead(req) THEN {ParseThrows(req, resp)}
                   ELSE IF needed /\ req.content = "empty" THEN {Returned(BadRequest(resp))}
                   ELSE {Returned(a) : a \in answers}
  OBVIOUS
<1>2. AllEnd({ParseThrows(req, resp)}, req, name)
  BY ParseEnds DEF AllEnd
<1>3. AllEnd({Returned(BadRequest(resp))}, req, name)
  BY PackedAnswers, ReturnedEnds DEF AllEnd
<1>4. AllEnd({Returned(a) : a \in answers}, req, name)
  BY ReturnedEnds DEF AllEnd
<1>5. AllEnd(outcomes, req, name)
  BY <1>1, <1>2, <1>3, <1>4
<1>6. Bodied(req, resp, needed, answers) = LoggedIn(req, resp, outcomes)
  BY <1>1 DEF Bodied
<1> QED
  BY <1>5, <1>6, LoggedInEnds

(* logging out, *)
LEMMA LogoutEnds ==
  ASSUME NEW req, NEW resp, Shape(resp), NEW name
  PROVE  AllEnd(ChatLogoutHandler(req, resp), req, name)
<1>1. Good(PackageResp(resp, 200, TRUE, 1))
  <2>1. 200 \in Statuses
    BY DEF Statuses
  <2> QED
    BY <2>1, PackedIsGood, ZenonT(60)
<1>2. /\ Ended(Returned(PackageResp(resp, 200, TRUE, 1)), req, name)
      /\ Ended(Returned(NotJson(resp)), req, name)
      /\ Ended(Returned(BadRequest(resp)), req, name)
      /\ Ended(ParseThrows(req, resp), req, name)
  BY <1>1, PackedAnswers, ReturnedEnds, ParseEnds
<1>3. ChatLogoutHandler(req, resp)
        \in {{Returned(NotJson(resp))}, {Returned(BadRequest(resp))},
             {ParseThrows(req, resp)}, {Returned(PackageResp(resp, 200, TRUE, 1))}}
  BY DEF ChatLogoutHandler
<1> QED
  BY <1>2, <1>3 DEF AllEnd

(* and the entry page. *)
LEMMA EntryEnds ==
  ASSUME NEW req, NEW resp, Shape(resp)
  PROVE  AllEnd(ChatEntryHandler(req, resp), req, "ChatEntryHandler")
<1>1. CASE FileThrows("entry.html")
  BY <1>1, ThrownEnds DEF ChatEntryHandler, Excused, AllEnd
<1>2. CASE ~FileThrows("entry.html")
  BY <1>2, PackedAnswers, ReturnedEnds DEF ChatEntryHandler, AllEnd
<1> QED
  BY <1>1, <1>2

(* Whichever handler serves. *)
LEMMA HandleEnds ==
  ASSUME NEW name, NEW req \in Requests, NEW resp, Shape(resp)
  PROVE  AllEnd(Handle(name, req, resp), req, name)
<1>1. /\ Good(Succeeded(resp)) /\ Good(SetDeferred(resp))
      /\ \A a \in MayFail(resp) : Good(a)
      /\ \A a \in {SetDeferred(resp)} : Good(a)
  BY PackedAnswers, DeferredIsGood DEF MayFail
<1>2. /\ AllEnd(ChatHandler(req, resp), req, name)
      /\ AllEnd(AIMenuHandler(req, resp), req, name)
      /\ AllEnd(AIUploadHandler(req, resp), req, name)
  BY PageEnds DEF ChatHandler, AIMenuHandler, AIUploadHandler
<1>3. /\ AllEnd(AIUploadSendHandler(req, resp), req, name)
      /\ AllEnd(ChatHistoryHandler(req, resp), req, name)
      /\ AllEnd(ChatDeleteSessionHandler(req, resp), req, name)
  BY <1>1, BodiedEnds DEF AIUploadSendHandler, ChatHistoryHandler, ChatDeleteSessionHandler
<1>4. /\ AllEnd(ChatSendHandler(req, resp), req, name)
      /\ AllEnd(ChatCreateAndSendHandler(req, resp), req, name)
  BY <1>1, BodiedEnds DEF ChatSendHandler, ChatCreateAndSendHandler
<1>5. AllEnd({Returned(Succeeded(resp))}, req, name)
  BY <1>1, ReturnedEnds DEF AllEnd
<1>6. AllEnd(ChatSessionsHandler(req, resp), req, name)
  BY <1>5, LoggedInEnds DEF ChatSessionsHandler
<1>7. AllEnd(ChatLogoutHandler(req, resp), req, name)
  BY LogoutEnds
<1>8. name = "ChatEntryHandler" => AllEnd(ChatEntryHandler(req, resp), req, name)
  BY EntryEnds
<1> QED
  BY <1>2, <1>3, <1>4, <1>5, <1>6, <1>7, <1>8, Zenon DEF Handle

-----------------------------------------------------------------------------
(* What processAfter makes of a finished response can be read. *)
LEMMA AfterReads ==
  ASSUME OriginsFit, NEW req, NEW by, NEW resp, Finished(resp), by = <<>> \/ Good(resp)
  PROVE  ~After(resp).deferred => Readable(req, by, After(resp))
<1>1. AllowedOrigins # <<>>
  BY DEF OriginsFit, Contains
<1>2. PICK o : o = IF Contains(AllowedOrigins, "*") THEN "*" ELSE AllowedOrigins[1]
  OBVIOUS
<1>3. PICK r : r = After(resp)
  OBVIOUS
<1>4. r = [resp EXCEPT !.origin = o]
  BY <1>1, <1>2, <1>3 DEF After, AddCorsHeaders
<1>5. /\ r.origin = o /\ r.status = resp.status /\ r.close = resp.close
      /\ r.length = resp.length /\ r.body = resp.body /\ r.deferred = resp.deferred
      /\ r.version = resp.version
  BY <1>4 DEF Finished, Shape
<1>6. IsOriginAllowed(req.origin) => o \in {"*", req.origin}
  BY <1>1, <1>2 DEF IsOriginAllowed, OriginsFit, Contains
<1>7. ~r.deferred => Readable(req, by, r)
  BY <1>5, <1>6 DEF Readable, Finished, Good, HasEnd, MayRead
<1> QED
  BY <1>3, <1>7

(* A preflight names the origin that asks. *)
LEMMA PreflightReads ==
  ASSUME NEW req  PROVE Readable(req, <<>>, HandlePreflightRequest(req))
<1>1. PICK r : r = HandlePreflightRequest(req)
  OBVIOUS
<1>2. /\ r.close = TRUE /\ r.status # 500
      /\ IsOriginAllowed(req.origin) => r.origin = req.origin
  BY <1>1 DEF HandlePreflightRequest, AddCorsHeaders, NewResponse
<1>3. Readable(req, <<>>, r)
  BY <1>2 DEF Readable, HasEnd, MayRead
<1> QED
  BY <1>1, <1>3

(* A 500 has its excuse. *)
LEMMA ErrorReads ==
  ASSUME NEW req, NEW by, NEW resp, Shape(resp), Excused(req, by[1].target)
  PROVE  Readable(req, by, InternalError(resp))
<1>1. InternalError(resp).status = 500
  BY DEF InternalError, Shape
<1> QED
  BY <1>1 DEF Readable

(* An event stream has a version and an end. *)
LEMMA StreamReads ==
  ASSUME NEW req, NEW by  PROVE Readable(req, by, SendSSEHeaders)
<1>1. /\ SendSSEHeaders.status = 200 /\ SendSSEHeaders.version
      /\ SendSSEHeaders.deferred
  BY DEF SendSSEHeaders, NewResponse
<1> QED
  BY <1>1 DEF Readable, HasEnd

(* The answer of a step. *)
LEMMA SendReads ==
  ASSUME NEW l, NEW resp, NEW accounts, Send(l, resp, accounts),
         ~resp.deferred => Readable(loop[l].req, loop[l].by, resp)
  PROVE  ClientCanRead'
<1>0. PICK req, by : req = loop[l].req /\ by = loop[l].by
  OBVIOUS
<1>1. PICK r : r = IF resp.deferred THEN SendSSEHeaders ELSE resp
  OBVIOUS
<1>2. PICK a : a = [req |-> req, by |-> by, resp |-> r]
  OBVIOUS
<1>3. answer' = {a} /\ a.req = req /\ a.by = by /\ a.resp = r
  BY <1>0, <1>1, <1>2 DEF Send
<1>4. Readable(req, by, r)
  BY <1>0, <1>1, StreamReads
<1> QED
  BY <1>3, <1>4 DEF ClientCanRead, Readable, Excused

(* A finished response can be read behind the middleware. *)
LEMMA ReturnReads ==
  ASSUME OriginsFit, NEW l, NEW resp, Return(l, resp), Finished(resp),
         loop[l].by = <<>> \/ Good(resp)
  PROVE  ClientCanRead'
<1>1. ~After(resp).deferred => Readable(loop[l].req, loop[l].by, After(resp))
  BY AfterReads
<1> QED
  BY <1>1, SendReads DEF Return

(* So can what is made of a handler's outcome. *)
LEMMA ConcludeReads ==
  ASSUME OriginsFit, NEW l, NEW o, Conclude(l, o),
         Ended(o, loop[l].req, loop[l].by[1].target)
  PROVE  ClientCanRead'
<1>1. CASE o.throws
  <2>1. Readable(loop[l].req, loop[l].by, InternalError(o.resp))
    BY <1>1, ErrorReads DEF Ended
  <2> QED
    BY <1>1, <2>1, SendReads DEF Conclude
<1>2. CASE ~o.throws
  BY <1>2, ReturnReads DEF Conclude, Ended, Good
<1> QED
  BY <1>1, <1>2

(* So can the success of a login or a registration. *)
LEMMA TellReads ==
  ASSUME OriginsFit, NEW l, NEW name, NEW password, NEW id, Tell(l, name, password, id),
         Shape(loop[l].resp)
  PROVE  ClientCanRead'
<1>1. PICK resp : resp = Succeeded(loop[l].resp)
  OBVIOUS
<1>2. Good(resp)
  BY <1>1, PackedAnswers
<1>3. ~After(resp).deferred => Readable(loop[l].req, loop[l].by, After(resp))
  BY <1>2, AfterReads DEF Good
<1> QED
  BY <1>1, <1>3, SendReads DEF Tell

(* No answer can be no wrong answer. *)
LEMMA SilentReads ==
  ASSUME Silent  PROVE ClientCanRead'
BY DEF Silent, ClientCanRead

(* The handlers of one step, and the 404. *)
LEMMA HandleRequestReads ==
  ASSUME OriginsFit, IInv, NEW l \in Loop, HandleRequest(l)
  PROVE  ClientCanRead'
<1>1. Shape(loop[l].resp) /\ ~loop[l].resp.deferred /\ loop[l].req \in Requests
  BY BusyIsBusy, NewHasShape DEF HandleRequest, Busy
<1>2. CASE loop[l].by = <<>>
  <2>1. PICK r : r = NotFound(loop[l].resp)
    OBVIOUS
  <2>2. Finished(r) /\ Return(l, r)
    BY <1>1, <1>2, <2>1, NotFoundIsFinished DEF HandleRequest
  <2> QED
    BY <1>2, <2>2, ReturnReads
<1>3. CASE loop[l].by # <<>>
  <2>1. PICK o \in Handle(loop[l].by[1].target, loop[l].req, loop[l].resp) : Conclude(l, o)
    BY <1>3 DEF HandleRequest
  <2>2. Ended(o, loop[l].req, loop[l].by[1].target)
    BY <1>1, <2>1, HandleEnds DEF AllEnd
  <2> QED
    BY <2>1, <2>2, ConcludeReads
<1> QED
  BY <1>2, <1>3

(* Whatever step gives the answer. *)
LEMMA NextReads ==
  ASSUME OriginsFit, IInv, ClientCanRead, [Next]_vars
  PROVE  ClientCanRead'
<1>1. CASE UNCHANGED vars
  BY <1>1 DEF vars, ClientCanRead
<1>2. CASE \E route \in MoreRoutes : RegisterRoute(route)
  BY <1>2, SilentReads DEF RegisterRoute
<1>3. CASE \E l \in Loop, req \in Requests : OnRequest(l, req)
  BY <1>3, SilentReads DEF OnRequest
<1>4. ASSUME NEW l \in Loop, Step(l)  PROVE ClientCanRead'
  <2>r. ASSUME loop[l].pc # "idle"
        PROVE  Shape(loop[l].resp) /\ loop[l].req \in Requests
    BY <2>r, BusyIsBusy, NewHasShape DEF Busy
  <2>p. ASSUME loop[l].pc # "idle"
        PROVE  /\ Good(Succeeded(loop[l].resp)) /\ Good(BadRequest(loop[l].resp))
               /\ Finished(Succeeded(loop[l].resp)) /\ Finished(BadRequest(loop[l].resp))
    BY <2>p, <2>r, PackedAnswers DEF Good
  <2>1. CASE Preflight(l)
    <3>1. loop[l].by = <<>>
      BY <2>1, BusyIsBusy DEF Preflight, Busy
    <3>2. Readable(loop[l].req, loop[l].by, HandlePreflightRequest(loop[l].req))
      BY <3>1, PreflightReads
    <3> QED
      BY <2>1, <3>2, SendReads DEF Preflight
  <2>2. CASE RouteRequest(l)
    BY <2>2, SilentReads DEF RouteRequest
  <2>3. CASE HandleRequest(l)
    BY <2>3, HandleRequestReads
  <2>4. CASE Unreadable(l)
    <3>1. Shape(loop[l].resp)
      BY <2>4, <2>r DEF Unreadable
    <3>2. PICK o : /\ Conclude(l, o)
                   /\ o \in {Returned(NotJson(loop[l].resp)),
                             ParseThrows(loop[l].req, loop[l].resp)}
      BY <2>4 DEF Unreadable
    <3>3. Ended(o, loop[l].req, loop[l].by[1].target)
      BY <3>1, <3>2, PackedAnswers, ReturnedEnds, ParseEnds
    <3> QED
      BY <3>2, <3>3, ConcludeReads
  <2>5. CASE IsUserExist(l)
    <3>0. Shape(loop[l].resp) /\ 409 \in Statuses
      BY <2>5, <2>r DEF IsUserExist, Statuses
    <3>1. PICK r : r = PackageResp(loop[l].resp, 409, FALSE, 1)
      OBVIOUS
    <3>2. Good(r)
      BY <3>0, <3>1, PackedIsGood, ZenonT(60)
    <3>3. Silent \/ Return(l, r)
      BY <2>5, <3>1 DEF IsUserExist, FindFree
    <3> QED
      BY <3>2, <3>3, ReturnReads, SilentReads DEF Good
  <2>6. CASE InsertUser(l)
    <3>1. Silent \/ Return(l, BadRequest(loop[l].resp))
      BY <2>6 DEF InsertUser
    <3> QED
      BY <2>6, <3>1, <2>p, ReturnReads, SilentReads DEF InsertUser
  <2>7. CASE SelectId(l)
    BY <2>7, <2>r, TellReads DEF SelectId
  <2>8. CASE QueryUserId(l)
    <3>0. Shape(loop[l].resp) /\ 401 \in Statuses
      BY <2>8, <2>r DEF QueryUserId, Statuses
    <3>1. PICK r : r = PackageResp(loop[l].resp, 401, FALSE, 1)
      OBVIOUS
    <3>2. Good(r)
      BY <3>0, <3>1, PackedIsGood, ZenonT(60)
    <3>3. \/ Return(l, r)
          \/ \E id : Tell(l, loop[l].req.name, loop[l].req.password, id)
      BY <2>8, <3>1 DEF QueryUserId
    <3> QED
      BY <3>0, <3>2, <3>3, ReturnReads, TellReads DEF Good
  <2>9. CASE Fail(l)
    BY <2>9, <2>p, ReturnReads DEF Fail
  <2>10. CASE CreateTask(l)
    <3>1. Shape(loop[l].resp) /\ loop[l].req \in Requests
      BY <2>10, <2>r DEF CreateTask
    <3>2. \A a \in MayFail(loop[l].resp) : Good(a)
      BY <3>1, PackedAnswers DEF MayFail
    <3>3. PICK name : name = loop[l].by[1].target
      OBVIOUS
    <3>4. AllEnd(ChatSpeechHandler(loop[l].req, loop[l].resp), loop[l].req, name)
      BY <3>1, <3>2, BodiedEnds DEF ChatSpeechHandler
    <3>5. \/ Silent
          \/ \E o \in ChatSpeechHandler(loop[l].req, loop[l].resp) : Conclude(l, o)
      BY <2>10 DEF CreateTask
    <3> QED
      BY <3>3, <3>4, <3>5, ConcludeReads, SilentReads DEF AllEnd
  <2>11. CASE Poll(l)
    BY <2>11, <2>p, ReturnReads, SilentReads DEF Poll
  <2> QED
    BY <1>4, <2>1, <2>2, <2>3, <2>4, <2>5, <2>6, <2>7, <2>8, <2>9, <2>10, <2>11 DEF Step
<1> QED
  BY <1>1, <1>2, <1>3, <1>4 DEF Next

(***************************************************************************)
(* Whichever of the six places ends an answer, the client can tell where,  *)
(* what a handler returns has its version, and a page of an allowed origin *)
(* may read it unless it is a stream, when every origin is allowed, as in  *)
(* the program, or one is: of several the middleware names the first       *)
(* (CorsMiddleware.cpp:27).  Only a body that is not UTF-8, or the entry   *)
(* page without its file, leads to the 500 that promises none of it.       *)
(***************************************************************************)
THEOREM ClientsCanRead ==
  ASSUME OriginsFit  PROVE Spec => []ClientCanRead
<1>1. Init => IInv /\ ClientCanRead
  BY InitHolds DEF Init, ClientCanRead
<1>2. IInv /\ ClientCanRead /\ [Next]_vars => (IInv /\ ClientCanRead)'
  BY NextKeeps, NextReads
<1> QED
  BY <1>1, <1>2, PTL DEF Spec

-----------------------------------------------------------------------------
(* A set of numbers has a least one. *)
LEMMA LeastNat ==
  ASSUME NEW T \in SUBSET Nat, T # {}
  PROVE  \E x \in T : \A y \in T : x <= y
<1> DEFINE R == OpToRel(<, Nat)
<1>1. IsWellFoundedOn(R, Nat)
  BY NatLessThanWellFounded
<1>2. \A x, y \in Nat : x < y => <<x, y>> \in R
  BY DEF OpToRel
<1> HIDE DEF R
<1>3. PICK x \in T : \A y \in T : ~(<<y, x>> \in R)
  BY <1>1, WFMin
<1>4. ASSUME NEW y \in T PROVE x <= y
  <2>1. x \in Nat /\ y \in Nat
    OBVIOUS
  <2>2. ~(y < x)
    BY <2>1, <1>2, <1>3, Zenon
  <2> QED
    BY <2>1, <2>2
<1> QED
  BY <1>4

(* If 0 has the property, and each number up to n has it after its         *)
(* predecessor, all have it.                                               *)
LEMMA UpTo ==
  ASSUME NEW n \in Nat, NEW T, 0 \in T, \A i \in 1..n : i - 1 \in T => i \in T
  PROVE  \A i \in 0..n : i \in T
<1> DEFINE U == (0..n) \ T
<1>1. SUFFICES ASSUME U # {} PROVE FALSE
  OBVIOUS
<1>2. U \in SUBSET Nat
  OBVIOUS
<1>3. PICK x \in U : \A y \in U : x <= y
  BY <1>1, <1>2, LeastNat
<1>4. x \in 1..n /\ x - 1 \notin U
  BY <1>3
<1>5. x - 1 \in T
  BY <1>4
<1> QED
  BY <1>4, <1>5

-----------------------------------------------------------------------------
(* The first n of the routes R, in a router's tables: in a static one the  *)
(* latest route of each key, in a dynamic one all, in their order.         *)
KindSet == {"handlers", "callbacks", "regexHandlers", "regexCallbacks"}

Listed(list) == \E S : list \in Seq(S)

AnyRoute(r) == r.kind \in KindSet /\ Listed(r.path)

Latest(R, n, i) ==
  \A j \in (i + 1)..n : R[j].kind = R[i].kind => Key(R[j]) # Key(R[i])

HasLatest(table, kind, R, n) ==
  /\ \A key : key \in DOMAIN table <=>
                \E i \in 1..n : R[i].kind = kind /\ Key(R[i]) = key
  /\ \A i \in 1..n : R[i].kind = kind /\ Latest(R, n, i) =>
                       table[Key(R[i])] = R[i].target

Places(g, m, list, kind, R, n) ==
  /\ g \in [1..m -> 1..n]
  /\ \A k, h \in 1..m : k < h => g[k] < g[h]
  /\ \A k \in 1..m : list[k] = R[g[k]] /\ R[g[k]].kind = kind
  /\ \A i \in 1..n : R[i].kind = kind => \E k \in 1..m : g[k] = i

HasAll(list, kind, R, n) == \E g : Places(g, Len(list), list, kind, R, n)

Tables(t, R, n) ==
  /\ t = [handlers |-> t.handlers, callbacks |-> t.callbacks,
          regexHandlers |-> t.regexHandlers, regexCallbacks |-> t.regexCallbacks]
  /\ HasLatest(t.handlers, "handlers", R, n)
  /\ HasLatest(t.callbacks, "callbacks", R, n)
  /\ Listed(t.regexHandlers) /\ HasAll(t.regexHandlers, "regexHandlers", R, n)
  /\ Listed(t.regexCallbacks) /\ HasAll(t.regexCallbacks, "regexCallbacks", R, n)

(* A route of another kind leaves a static table right, *)
LEMMA StaticStays ==
  ASSUME NEW table, NEW kind, NEW R, NEW n \in Nat, HasLatest(table, kind, R, n),
         R[n + 1].kind # kind
  PROVE  HasLatest(table, kind, R, n + 1)
<1>1. \A i \in 1..(n + 1) : R[i].kind = kind => i \in 1..n
  OBVIOUS
<1>2. \A i \in 1..n : i \in 1..(n + 1)
  OBVIOUS
<1>3. \A i \in 1..n : Latest(R, n + 1, i) => Latest(R, n, i)
  BY DEF Latest
<1> QED
  BY <1>1, <1>2, <1>3 DEF HasLatest

(* A static table with one more route. *)
Put(table, r) ==
  [key \in DOMAIN table \cup {Key(r)} |-> IF key = Key(r) THEN r.target ELSE table[key]]

(* and a route of its kind replaces those of its key. *)
LEMMA StaticGrows ==
  ASSUME NEW table, NEW kind, NEW R, NEW n \in Nat, HasLatest(table, kind, R, n),
         R[n + 1].kind = kind
  PROVE  HasLatest(Put(table, R[n + 1]), kind, R, n + 1)
<1>r. PICK r, t : r = R[n + 1] /\ t = Put(table, r)
  OBVIOUS
<1>t. /\ DOMAIN t = DOMAIN table \cup {Key(r)} /\ t[Key(r)] = r.target
      /\ \A key \in DOMAIN table : key # Key(r) => t[key] = table[key]
  BY <1>r DEF Put
<1>1. \A key : key \in DOMAIN t <=> key \in DOMAIN table \/ key = Key(r)
  BY <1>t
<1>2. \A i : i \in 1..(n + 1) <=> i \in 1..n \/ i = n + 1
  OBVIOUS
<1>3. \A key : key \in DOMAIN t <=>
                 \E i \in 1..(n + 1) : R[i].kind = kind /\ Key(R[i]) = key
  BY <1>r, <1>1, <1>2 DEF HasLatest
<1>4. ASSUME NEW i \in 1..(n + 1), R[i].kind = kind, Latest(R, n + 1, i)
      PROVE  t[Key(R[i])] = R[i].target
  <2>1. CASE i = n + 1
    BY <2>1, <1>r, <1>t
  <2>2. CASE i \in 1..n
    <3>1. Key(R[i]) # Key(r) /\ Latest(R, n, i)
      BY <1>4, <2>2, <1>r DEF Latest
    <3>2. Key(R[i]) \in DOMAIN table /\ table[Key(R[i])] = R[i].target
      BY <3>1, <1>4, <2>2 DEF HasLatest
    <3> QED
      BY <3>1, <3>2, <1>t
  <2> QED
    BY <2>1, <2>2
<1>5. HasLatest(t, kind, R, n + 1)
  BY <1>3, <1>4 DEF HasLatest
<1> QED
  BY <1>r, <1>5

(* A route of another kind leaves a dynamic table right, *)
LEMMA DynamicStays ==
  ASSUME NEW list, NEW kind, NEW R, NEW n \in Nat, Listed(list), HasAll(list, kind, R, n),
         R[n + 1].kind # kind
  PROVE  HasAll(list, kind, R, n + 1)
<1>1. PICK m, g : m = Len(list) /\ Places(g, m, list, kind, R, n)
  BY DEF HasAll
<1>2. g \in [1..m -> 1..(n + 1)]
  BY <1>1 DEF Places
<1>3. \A i \in 1..(n + 1) : R[i].kind = kind => i \in 1..n
  OBVIOUS
<1>4. Places(g, m, list, kind, R, n + 1)
  BY <1>1, <1>2, <1>3 DEF Places
<1> QED
  BY <1>1, <1>4 DEF HasAll

(* and a route of its kind goes behind the others. *)
LEMMA DynamicGrows ==
  ASSUME NEW list, NEW kind, NEW R, NEW n \in Nat, Listed(list), HasAll(list, kind, R, n),
         NEW r, r = R[n + 1], r.kind = kind, NEW t, t = Append(list, r)
  PROVE  Listed(t) /\ HasAll(t, kind, R, n + 1)
<1>1. PICK S : list \in Seq(S)
  BY DEF Listed
<1>2. PICK m : m = Len(list) /\ m \in Nat
  BY <1>1
<1>3. /\ t \in Seq(S \cup {r}) /\ Len(t) = m + 1 /\ t[m + 1] = r
      /\ \A k \in 1..m : t[k] = list[k]
  <2>1. list \in Seq(S \cup {r}) /\ r \in S \cup {r}
    BY <1>1, SeqMonotonic
  <2> QED
    BY <2>1, <1>2, AppendProperties
<1>a. PICK g : Places(g, m, list, kind, R, n)
  BY <1>2 DEF HasAll
<1>4. /\ g \in [1..m -> 1..n]
      /\ \A k, h \in 1..m : k < h => g[k] < g[h]
      /\ \A k \in 1..m : list[k] = R[g[k]] /\ R[g[k]].kind = kind
      /\ \A i \in 1..n : R[i].kind = kind => \E k \in 1..m : g[k] = i
  BY <1>a DEF Places
<1>5. PICK f : f = [k \in 1..(m + 1) |-> IF k = m + 1 THEN n + 1 ELSE g[k]]
  OBVIOUS
<1>6. /\ f[m + 1] = n + 1 /\ \A k \in 1..m : f[k] = g[k] /\ g[k] \in 1..n
      /\ m + 1 \in 1..(m + 1) /\ \A k \in 1..m : k \in 1..(m + 1)
      /\ \A k \in 1..(m + 1) : k \in 1..m \/ k = m + 1
  BY <1>2, <1>4, <1>5
<1>7. f \in [1..(m + 1) -> 1..(n + 1)]
  <2>1. \A k \in 1..(m + 1) : f[k] \in 1..(n + 1)
    BY <1>6
  <2> QED
    BY <2>1, <1>5
<1>8. \A k, h \in 1..(m + 1) : k < h => f[k] < f[h]
  <2>1. SUFFICES ASSUME NEW k \in 1..(m + 1), NEW h \in 1..(m + 1), k < h
                 PROVE  f[k] < f[h]
    OBVIOUS
  <2>2. k \in 1..m
    BY <2>1, <1>2
  <2>3. CASE h = m + 1
    BY <2>2, <2>3, <1>6
  <2>4. CASE h \in 1..m
    BY <2>1, <2>2, <2>4, <1>4, <1>6
  <2> QED
    BY <2>3, <2>4, <1>6
<1>9. \A k \in 1..(m + 1) : t[k] = R[f[k]] /\ R[f[k]].kind = kind
  BY <1>3, <1>4, <1>6
<1>10. \A i \in 1..(n + 1) : R[i].kind = kind => \E k \in 1..(m + 1) : f[k] = i
  <2>1. TAKE i \in 1..(n + 1)
  <2>2. CASE i = n + 1
    BY <2>2, <1>6
  <2>3. CASE i \in 1..n
    BY <2>3, <1>4, <1>6
  <2> QED
    BY <2>2, <2>3
<1>b. Places(f, m + 1, t, kind, R, n + 1)
  BY <1>7, <1>8, <1>9, <1>10 DEF Places
<1>11. HasAll(t, kind, R, n + 1)
  BY <1>3, <1>b DEF HasAll
<1> QED
  BY <1>3, <1>11 DEF Listed

(* Whatever route is registered next. *)
LEMMA RegisterKeeps ==
  ASSUME NEW t, NEW R, NEW n \in Nat, Tables(t, R, n), AnyRoute(R[n + 1])
  PROVE  Tables(Register(t, R[n + 1]), R, n + 1)
<1>1. PICK r, u : r = R[n + 1] /\ u = Register(t, r)
  OBVIOUS
<1>2. CASE r.kind \in {"handlers", "callbacks"}
  <2>1. PICK table : table = Put(t[r.kind], r)
    OBVIOUS
  <2>2. u = [t EXCEPT ![r.kind] = table]
    BY <1>1, <1>2, <2>1 DEF Register, Put
  <2>3. CASE r.kind = "handlers"
    <3>1. u = [handlers |-> table, callbacks |-> t.callbacks,
               regexHandlers |-> t.regexHandlers, regexCallbacks |-> t.regexCallbacks]
      BY <2>2, <2>3 DEF Tables
    <3>2. HasLatest(table, "handlers", R, n + 1)
      <4>1. HasLatest(Put(t.handlers, R[n + 1]), "handlers", R, n + 1)
        BY <1>1, <2>3, StaticGrows DEF Tables
      <4> QED
        BY <4>1, <1>1, <2>1, <2>3
    <3>3. /\ HasLatest(t.callbacks, "callbacks", R, n + 1)
          /\ HasAll(t.regexHandlers, "regexHandlers", R, n + 1)
          /\ HasAll(t.regexCallbacks, "regexCallbacks", R, n + 1)
      BY <1>1, <2>3, StaticStays, DynamicStays DEF Tables
    <3>4. Tables(u, R, n + 1)
      BY <3>1, <3>2, <3>3 DEF Tables
    <3> QED
      BY <1>1, <3>4
  <2>4. CASE r.kind = "callbacks"
    <3>1. u = [handlers |-> t.handlers, callbacks |-> table,
               regexHandlers |-> t.regexHandlers, regexCallbacks |-> t.regexCallbacks]
      BY <2>2, <2>4 DEF Tables
    <3>2. HasLatest(table, "callbacks", R, n + 1)
      <4>1. HasLatest(Put(t.callbacks, R[n + 1]), "callbacks", R, n + 1)
        BY <1>1, <2>4, StaticGrows DEF Tables
      <4> QED
        BY <4>1, <1>1, <2>1, <2>4
    <3>3. /\ HasLatest(t.handlers, "handlers", R, n + 1)
          /\ HasAll(t.regexHandlers, "regexHandlers", R, n + 1)
          /\ HasAll(t.regexCallbacks, "regexCallbacks", R, n + 1)
      BY <1>1, <2>4, StaticStays, DynamicStays DEF Tables
    <3>4. Tables(u, R, n + 1)
      BY <3>1, <3>2, <3>3 DEF Tables
    <3> QED
      BY <1>1, <3>4
  <2> QED
    BY <1>2, <2>3, <2>4
<1>3. CASE r.kind \in {"regexHandlers", "regexCallbacks"}
  <2>1. PICK list : list = Append(t[r.kind], r)
    OBVIOUS
  <2>2. u = [t EXCEPT ![r.kind] = list]
    BY <1>1, <1>3, <2>1 DEF Register
  <2>3. CASE r.kind = "regexHandlers"
    <3>1. u = [handlers |-> t.handlers, callbacks |-> t.callbacks,
               regexHandlers |-> list, regexCallbacks |-> t.regexCallbacks]
      BY <2>2, <2>3 DEF Tables
    <3>2. Listed(list) /\ HasAll(list, "regexHandlers", R, n + 1)
      BY <1>1, <2>1, <2>3, DynamicGrows DEF Tables
    <3>3. /\ HasLatest(t.handlers, "handlers", R, n + 1)
          /\ HasLatest(t.callbacks, "callbacks", R, n + 1)
          /\ HasAll(t.regexCallbacks, "regexCallbacks", R, n + 1)
      BY <1>1, <2>3, StaticStays, DynamicStays DEF Tables
    <3>4. Tables(u, R, n + 1)
      BY <3>1, <3>2, <3>3 DEF Tables
    <3> QED
      BY <1>1, <3>4
  <2>4. CASE r.kind = "regexCallbacks"
    <3>1. u = [handlers |-> t.handlers, callbacks |-> t.callbacks,
               regexHandlers |-> t.regexHandlers, regexCallbacks |-> list]
      BY <2>2, <2>4 DEF Tables
    <3>2. Listed(list) /\ HasAll(list, "regexCallbacks", R, n + 1)
      BY <1>1, <2>1, <2>4, DynamicGrows DEF Tables
    <3>3. /\ HasLatest(t.handlers, "handlers", R, n + 1)
          /\ HasLatest(t.callbacks, "callbacks", R, n + 1)
          /\ HasAll(t.regexHandlers, "regexHandlers", R, n + 1)
      BY <1>1, <2>4, StaticStays, DynamicStays DEF Tables
    <3>4. Tables(u, R, n + 1)
      BY <3>1, <3>2, <3>3 DEF Tables
    <3> QED
      BY <1>1, <3>4
  <2> QED
    BY <1>3, <2>3, <2>4
<1> QED
  BY <1>1, <1>2, <1>3 DEF AnyRoute, KindSet

(* The tables say nothing of routes behind the first n. *)
LEMMA TablesOfFirst ==
  ASSUME NEW t, NEW R, NEW Q, NEW n \in Nat, Tables(t, R, n), \A i \in 1..n : Q[i] = R[i]
  PROVE  Tables(t, Q, n)
<1>1. ASSUME NEW table, NEW kind, HasLatest(table, kind, R, n)
      PROVE  HasLatest(table, kind, Q, n)
  <2>1. \A i \in 1..n : Latest(Q, n, i) <=> Latest(R, n, i)
    BY DEF Latest
  <2> QED
    BY <1>1, <2>1 DEF HasLatest
<1>2. ASSUME NEW list, NEW kind, HasAll(list, kind, R, n)
      PROVE  HasAll(list, kind, Q, n)
  <2>1. PICK m, g : m = Len(list) /\ Places(g, m, list, kind, R, n)
    BY <1>2 DEF HasAll
  <2>2. \A k \in 1..m : Q[g[k]] = R[g[k]]
    BY <2>1 DEF Places
  <2>3. Places(g, m, list, kind, Q, n)
    BY <2>1, <2>2 DEF Places
  <2> QED
    BY <2>1, <2>3 DEF HasAll
<1> QED
  BY <1>1, <1>2 DEF Tables

(* Empty tables hold no routes. *)
LEMMA NoTables ==
  ASSUME NEW R  PROVE Tables(NoRoutes, R, 0)
<1>1. HasLatest(<<>>, "handlers", R, 0) /\ HasLatest(<<>>, "callbacks", R, 0)
  BY DEF HasLatest
<1>2. ASSUME NEW kind PROVE HasAll(<<>>, kind, R, 0)
  <2>1. PICK g : g = [k \in 1..0 |-> 0]
    OBVIOUS
  <2>2. g \in [1..0 -> 1..0]
    BY <2>1
  <2>3. Places(g, 0, <<>>, kind, R, 0)
    BY <2>2 DEF Places
  <2>4. Len(<<>>) = 0
    OBVIOUS
  <2> QED
    BY <2>3, <2>4 DEF HasAll
<1>3. Listed(<<>>)
  BY EmptySeq DEF Listed
<1> QED
  BY <1>1, <1>2, <1>3 DEF Tables, NoRoutes

(* A recursive function is the one that its equation says, if there is one: *)
(* here there is one for the first k routes, for every k.                  *)
IsTables(f, n, R) ==
  f = [i \in 0..n |-> IF i = 0 THEN NoRoutes ELSE Register(f[i - 1], R[i])]

(* So RegisterAll's equation holds. *)
LEMMA TablesUnfold ==
  ASSUME NEW n \in Nat, NEW R
  PROVE  IsTables(CHOOSE f : IsTables(f, n, R), n, R)
<1> DEFINE Value(f, i) == IF i = 0 THEN NoRoutes ELSE Register(f[i - 1], R[i])
           T == {k \in 0..n : \E f : f = [i \in 0..k |-> Value(f, i)]}
<1>1. 0 \in T
  <2>1. PICK f : f = [i \in 0..0 |-> NoRoutes]
    OBVIOUS
  <2>2. f = [i \in 0..0 |-> Value(f, i)]
    BY <2>1
  <2> QED
    BY <2>2
<1>2. ASSUME NEW k \in 1..n, k - 1 \in T PROVE k \in T
  <2>1. PICK f : f = [i \in 0..(k - 1) |-> Value(f, i)]
    BY <1>2
  <2>2. PICK h : h = [i \in 0..k |-> IF i = k THEN Value(f, k) ELSE f[i]]
    OBVIOUS
  <2>3. ASSUME NEW i \in 0..k PROVE h[i] = Value(h, i)
    <3>1. CASE i = 0
      BY <2>1, <2>2, <3>1
    <3>2. CASE i \in 1..(k - 1)
      BY <2>1, <2>2, <3>2
    <3>3. CASE i = k
      BY <2>1, <2>2, <3>3
    <3> QED
      BY <3>1, <3>2, <3>3
  <2>4. h = [i \in 0..k |-> Value(h, i)]
    <3> HIDE DEF Value
    <3> QED
      BY <2>2, <2>3
  <2> QED
    BY <2>4
<1>3. n \in T
  <2> HIDE DEF T
  <2>1. \A i \in 0..n : i \in T
    BY <1>1, <1>2, UpTo
  <2> QED
    BY <2>1
<1>4. PICK f : IsTables(f, n, R)
  BY <1>3 DEF IsTables
<1> QED
  BY <1>4, Zenon

(* After any sequence of routes the tables hold it. *)
LEMMA AllRegistered ==
  ASSUME NEW R, NEW n \in Nat, Len(R) = n, \A i \in 1..n : AnyRoute(R[i])
  PROVE  Tables(RegisterAll(R), R, n)
<1>1. PICK a : a = CHOOSE f : IsTables(f, n, R)
  OBVIOUS
<1>2. a = [i \in 0..n |-> IF i = 0 THEN NoRoutes ELSE Register(a[i - 1], R[i])]
  <2>1. IsTables(a, n, R)
    BY <1>1, TablesUnfold
  <2> QED
    BY <2>1 DEF IsTables
<1>3. RegisterAll(R) = a[n]
  BY <1>1 DEF RegisterAll, IsTables
<1> DEFINE T == {i \in 0..n : Tables(a[i], R, i)}
<1>4. 0 \in T
  BY <1>2, NoTables
<1>5. ASSUME NEW i \in 1..n, i - 1 \in T PROVE i \in T
  <2>1. a[i] = Register(a[i - 1], R[i])
    BY <1>2
  <2>2. PICK k : k \in Nat /\ i = k + 1
    <3>1. i - 1 \in Nat /\ i = (i - 1) + 1
      OBVIOUS
    <3> QED
      BY <3>1
  <2>3. Tables(Register(a[k], R[k + 1]), R, k + 1)
    BY <1>5, <2>2, RegisterKeeps
  <2>4. Tables(a[i], R, i)
    BY <2>1, <2>2, <2>3
  <2> QED
    BY <2>4
<1>6. n \in T
  <2> HIDE DEF T
  <2>1. \A i \in 0..n : i \in T
    BY <1>4, <1>5, UpTo
  <2> QED
    BY <2>1
<1> QED
  BY <1>3, <1>6

-----------------------------------------------------------------------------
(* Looking up. *)
LEMMA Greatest ==
  ASSUME NEW n \in Nat, NEW S \in SUBSET (1..n), S # {}
  PROVE  \E x \in S : \A y \in S : y <= x
<1>1. PICK T : T = {n - i : i \in S}
  OBVIOUS
<1>2. T \in SUBSET Nat /\ T # {}
  <2>1. \A i \in S : n - i \in Nat /\ n - i \in T
    BY <1>1
  <2>2. \A u \in T : \E i \in S : u = n - i
    BY <1>1
  <2>3. PICK i \in S : TRUE
    OBVIOUS
  <2> QED
    BY <2>1, <2>2, <2>3
<1>3. PICK t \in T : \A u \in T : t <= u
  BY <1>2, LeastNat
<1>4. PICK x \in S : t = n - x
  BY <1>1, <1>3
<1>5. ASSUME NEW y \in S PROVE y <= x
  <2>1. n - y \in T /\ y \in 1..n /\ x \in 1..n
    BY <1>1
  <2>2. n - x <= n - y
    BY <2>1, <1>3, <1>4
  <2> QED
    BY <2>1, <2>2
<1> QED
  BY <1>5

(* A static look-up finds the latest route of the key. *)
LEMMA StaticFinds ==
  ASSUME NEW table, NEW kind, NEW R, NEW n \in Nat, HasLatest(table, kind, R, n), NEW req
  PROVE  \/ /\ Static(table, req) = <<>>
            /\ \A i \in 1..n : R[i].kind = kind => Key(R[i]) # Key(req)
         \/ \E i \in 1..n : /\ R[i].kind = kind /\ Key(R[i]) = Key(req)
                            /\ Latest(R, n, i)
                            /\ Static(table, req) = Serve(R[i].target, <<>>)
<1>1. CASE Key(req) \notin DOMAIN table
  BY <1>1 DEF HasLatest, Static
<1>2. CASE Key(req) \in DOMAIN table
  <2>1. PICK S : S = {i \in 1..n : R[i].kind = kind /\ Key(R[i]) = Key(req)}
    OBVIOUS
  <2>2. S # {} /\ S \in SUBSET (1..n)
    BY <1>2, <2>1 DEF HasLatest
  <2>3. PICK i \in S : \A j \in S : j <= i
    BY <2>2, Greatest
  <2>4. i \in 1..n /\ R[i].kind = kind /\ Key(R[i]) = Key(req)
    BY <2>1
  <2>5. ASSUME NEW j \in (i + 1)..n PROVE j \notin S
    BY <2>3, <2>4
  <2>6. Latest(R, n, i)
    BY <2>1, <2>4, <2>5 DEF Latest
  <2>7. table[Key(req)] = R[i].target
    BY <2>4, <2>6 DEF HasLatest
  <2> QED
    BY <1>2, <2>4, <2>6, <2>7 DEF Static
<1> QED
  BY <1>1, <1>2

(* A dynamic look-up finds the first route that matches. *)
FirstOfKind(R, n, kind, req, i) ==
  /\ i \in 1..n /\ R[i].kind = kind /\ RegexMatch(R[i], req)
  /\ \A j \in 1..n : R[j].kind = kind /\ RegexMatch(R[j], req) /\ j # i => i < j

(* The place found is the least in the table, and the table is in order. *)
LEMMA DynamicFinds ==
  ASSUME NEW list, NEW kind, NEW R, NEW n \in Nat, Listed(list), HasAll(list, kind, R, n),
         NEW req
  PROVE  \/ /\ FirstMatch(list, req) = 0
            /\ \A i \in 1..n : R[i].kind = kind => ~RegexMatch(R[i], req)
         \/ \E i : /\ FirstMatch(list, req) # 0
                   /\ list[FirstMatch(list, req)] = R[i]
                   /\ FirstOfKind(R, n, kind, req, i)
<1>1. PICK m, g : m = Len(list) /\ Places(g, m, list, kind, R, n)
  BY DEF HasAll
<1>2. m \in Nat
  BY <1>1 DEF Listed
<1>3. PICK I : I = {k \in 1..m : RegexMatch(list[k], req)}
  OBVIOUS
<1>4. FirstMatch(list, req) = IF I # {} THEN Min(I) ELSE 0
  BY <1>1, <1>3 DEF FirstMatch, SelectInSeq
<1>5. CASE I = {}
  <2>1. \A i \in 1..n : R[i].kind = kind => ~RegexMatch(R[i], req)
    BY <1>1, <1>3, <1>5 DEF Places
  <2> QED
    BY <1>4, <1>5, <2>1
<1>6. CASE I # {}
  <2>1. I \in SUBSET Nat
    BY <1>3
  <2>2. \E x \in I : \A y \in I : x <= y
    BY <1>6, <2>1, LeastNat
  <2>3. PICK k : k = Min(I)
    OBVIOUS
  <2>4. k \in I /\ \A y \in I : k <= y
    BY <2>2, <2>3 DEF Min
  <2>5. k \in 1..m /\ RegexMatch(list[k], req)
    BY <1>3, <2>4
  <2>6. g[k] \in 1..n /\ list[k] = R[g[k]] /\ R[g[k]].kind = kind
    BY <1>1, <2>5 DEF Places
  <2>7. ASSUME NEW j \in 1..n, R[j].kind = kind, RegexMatch(R[j], req), j # g[k]
        PROVE  g[k] < j
    <3>1. PICK h \in 1..m : g[h] = j
      BY <1>1, <2>7 DEF Places
    <3>2. list[h] = R[j]
      BY <1>1, <3>1 DEF Places
    <3>3. h \in I /\ h # k
      BY <1>3, <2>7, <3>1, <3>2
    <3>4. k < h
      BY <2>4, <2>5, <3>3
    <3> QED
      BY <1>1, <2>5, <3>1, <3>4 DEF Places
  <2>8. FirstOfKind(R, n, kind, req, g[k])
    BY <2>5, <2>6, <2>7 DEF FirstOfKind
  <2>9. FirstMatch(list, req) = k /\ k # 0
    BY <1>4, <1>6, <2>3, <2>5
  <2> QED
    BY <2>6, <2>8, <2>9
<1> QED
  BY <1>5, <1>6

-----------------------------------------------------------------------------
(* The path parameters. *)
Count(p, i) == Cardinality({h \in 1..i : p[h] = Param})

(* How many parameters the pattern has up to a segment. *)
LEMMA CountUp ==
  ASSUME NEW p, NEW k \in Nat
  PROVE  /\ Count(p, 0) = 0 /\ Count(p, k) \in Nat
         /\ Count(p, k + 1) = IF p[k + 1] = Param THEN Count(p, k) + 1 ELSE Count(p, k)
<1>1. PICK S, T : /\ S = {h \in 1..k : p[h] = Param}
                  /\ T = {h \in 1..(k + 1) : p[h] = Param}
  OBVIOUS
<1>2. Count(p, k) = Cardinality(S) /\ Count(p, k + 1) = Cardinality(T)
  BY <1>1 DEF Count
<1>3. IsFiniteSet(1..k)
  BY FS_Interval
<1>4. IsFiniteSet(S) /\ k + 1 \notin S
  BY <1>1, <1>3, FS_Subset
<1>5. T = IF p[k + 1] = Param THEN S \cup {k + 1} ELSE S
  BY <1>1
<1>6. Cardinality(S) \in Nat /\ Cardinality(S \cup {k + 1}) = Cardinality(S) + 1
  BY <1>4, FS_AddElement, FS_CardinalityType
<1>7. Count(p, 0) = 0
  <2>1. {h \in 1..0 : p[h] = Param} = {}
    OBVIOUS
  <2> QED
    BY <2>1, FS_EmptySet DEF Count
<1> QED
  BY <1>2, <1>5, <1>6, <1>7

IsGroups(f, n, p, path) ==
  f = [i \in 0..n |-> IF i = 0 THEN <<>>
                      ELSE IF p[i] = Param THEN Append(f[i - 1], path[i])
                      ELSE f[i - 1]]

(* The equation of ExtractPathParameters holds. *)
LEMMA GroupsUnfold ==
  ASSUME NEW n \in Nat, NEW p, NEW path
  PROVE  IsGroups(CHOOSE f : IsGroups(f, n, p, path), n, p, path)
<1> DEFINE Value(f, i) == IF i = 0 THEN <<>>
                          ELSE IF p[i] = Param THEN Append(f[i - 1], path[i])
                          ELSE f[i - 1]
           T == {k \in 0..n : \E f : f = [i \in 0..k |-> Value(f, i)]}
<1>1. 0 \in T
  <2>1. PICK f : f = [i \in 0..0 |-> <<>>]
    OBVIOUS
  <2>2. f = [i \in 0..0 |-> Value(f, i)]
    BY <2>1
  <2> QED
    BY <2>2
<1>2. ASSUME NEW k \in 1..n, k - 1 \in T PROVE k \in T
  <2>1. PICK f : f = [i \in 0..(k - 1) |-> Value(f, i)]
    BY <1>2
  <2>2. PICK h : h = [i \in 0..k |-> IF i = k THEN Value(f, k) ELSE f[i]]
    OBVIOUS
  <2>3. ASSUME NEW i \in 0..k PROVE h[i] = Value(h, i)
    <3>1. CASE i = 0
      BY <2>1, <2>2, <3>1
    <3>2. CASE i \in 1..(k - 1)
      <4>1. i \in 0..(k - 1) /\ i - 1 \in 0..k /\ i # k /\ i - 1 # k
        BY <3>2
      <4>2. h[i] = f[i] /\ h[i - 1] = f[i - 1]
        BY <2>2, <4>1
      <4>3. f[i] = Value(f, i)
        BY <2>1, <4>1
      <4> QED
        BY <4>2, <4>3
    <3>3. CASE i = k
      BY <2>1, <2>2, <3>3
    <3> QED
      BY <3>1, <3>2, <3>3
  <2>4. h = [i \in 0..k |-> Value(h, i)]
    <3> HIDE DEF Value
    <3> QED
      BY <2>2, <2>3
  <2> QED
    BY <2>4
<1>3. n \in T
  <2> HIDE DEF T
  <2>1. \A i \in 0..n : i \in T
    BY <1>1, <1>2, UpTo
  <2> QED
    BY <2>1
<1>4. PICK f : IsGroups(f, n, p, path)
  BY <1>3 DEF IsGroups
<1> QED
  BY <1>4, Zenon

(* The groups of the first k segments. *)
Filled(s, k, p, path) ==
  /\ Listed(s) /\ Len(s) = Count(p, k)
  /\ \A i \in 1..k : p[i] = Param => Count(p, i) \in 1..Len(s) /\ s[Count(p, i)] = path[i]

(* A segment that is a parameter adds a group. *)
LEMMA OneMoreGroup ==
  ASSUME NEW s, NEW k \in Nat, NEW p, NEW path, Filled(s, k, p, path)
  PROVE  Filled(IF p[k + 1] = Param THEN Append(s, path[k + 1]) ELSE s, k + 1, p, path)
<1>1. PICK t : t = IF p[k + 1] = Param THEN Append(s, path[k + 1]) ELSE s
  OBVIOUS
<1>2. /\ Count(p, k) \in Nat
      /\ Count(p, k + 1) = IF p[k + 1] = Param THEN Count(p, k) + 1 ELSE Count(p, k)
  BY CountUp
<1>3. \A i \in 1..(k + 1) : i \in 1..k \/ i = k + 1
  OBVIOUS
<1>4. CASE p[k + 1] # Param
  <2>1. t = s /\ Count(p, k + 1) = Count(p, k)
    BY <1>1, <1>2, <1>4
  <2>2. Filled(t, k + 1, p, path)
    BY <2>1, <1>3, <1>4 DEF Filled
  <2> QED
    BY <1>1, <2>2
<1>5. CASE p[k + 1] = Param
  <2>1. PICK m, x : m = Count(p, k) /\ x = path[k + 1]
    OBVIOUS
  <2>2. PICK S : s \in Seq(S)
    BY DEF Filled, Listed
  <2>3. s \in Seq(S \cup {x}) /\ x \in S \cup {x}
    BY <2>2, SeqMonotonic
  <2>4. /\ t \in Seq(S \cup {x}) /\ Len(t) = Len(s) + 1 /\ t[Len(s) + 1] = x
        /\ \A i \in 1..Len(s) : t[i] = s[i]
    BY <1>1, <1>5, <2>1, <2>3, AppendProperties
  <2>5. m \in Nat /\ Len(s) = m /\ Count(p, k + 1) = m + 1
    BY <1>2, <1>5, <2>1 DEF Filled
  <2>6. Listed(t) /\ Len(t) = m + 1 /\ t[m + 1] = x /\ \A i \in 1..m : t[i] = s[i]
    BY <2>4, <2>5 DEF Listed
  <2>7. ASSUME NEW i \in 1..(k + 1), p[i] = Param
        PROVE  Count(p, i) \in 1..Len(t) /\ t[Count(p, i)] = path[i]
    <3>1. CASE i = k + 1
      BY <3>1, <2>1, <2>5, <2>6
    <3>2. CASE i \in 1..k
      <4>1. PICK c : c = Count(p, i) /\ c \in 1..m /\ s[c] = path[i]
        BY <2>5, <2>7, <3>2 DEF Filled
      <4>2. c \in 1..(m + 1) /\ t[c] = s[c]
        BY <2>5, <2>6, <4>1
      <4> QED
        BY <4>1, <4>2, <2>6
    <3> QED
      BY <3>1, <3>2, <1>3
  <2>8. Filled(t, k + 1, p, path)
    BY <2>5, <2>6, <2>7 DEF Filled
  <2> QED
    BY <1>1, <2>8
<1> QED
  BY <1>4, <1>5

(* The groups of all segments, put into the pattern, give the path. *)
LEMMA ParamsFill ==
  ASSUME NEW route, NEW req, Listed(route.path)
  PROVE  Fills(ExtractPathParameters(route, req), route.path, req.path)
<1>1. PICK p, n, path : p = route.path /\ n = Len(route.path) /\ path = req.path
  OBVIOUS
<1>2. n \in Nat /\ DOMAIN p = 1..n
  BY <1>1, LenProperties DEF Listed
<1>3. PICK a : a = CHOOSE f : IsGroups(f, n, p, path)
  OBVIOUS
<1>4. IsGroups(a, n, p, path)
  BY <1>2, <1>3, GroupsUnfold
<1>5. ExtractPathParameters(route, req) = a[n]
  BY <1>1, <1>3 DEF ExtractPathParameters, IsGroups
<1> DEFINE T == {k \in 0..n : Filled(a[k], k, p, path)}
<1>6. 0 \in T
  <2>1. a[0] = <<>>
    BY <1>2, <1>4 DEF IsGroups
  <2>2. Listed(<<>>) /\ Len(<<>>) = 0 /\ Count(p, 0) = 0
    BY CountUp DEF Listed
  <2>3. Filled(<<>>, 0, p, path)
    BY <2>2 DEF Filled
  <2> QED
    BY <1>2, <2>1, <2>3
<1>7. ASSUME NEW i \in 1..n, i - 1 \in T PROVE i \in T
  <2>1. PICK k : k \in Nat /\ i = k + 1 /\ k = i - 1
    <3>1. i - 1 \in Nat /\ i = (i - 1) + 1
      BY <1>2
    <3> QED
      BY <3>1
  <2>2. a[i] = IF p[i] = Param THEN Append(a[i - 1], path[i]) ELSE a[i - 1]
    <3>1. i \in 0..n /\ i # 0
      BY <1>2
    <3>2. a[i] = IF i = 0 THEN <<>>
                 ELSE IF p[i] = Param THEN Append(a[i - 1], path[i]) ELSE a[i - 1]
      BY <3>1, <1>4 DEF IsGroups
    <3> QED
      BY <3>1, <3>2
  <2>3. Filled(a[k], k, p, path)
    BY <1>7, <2>1
  <2>4. Filled(IF p[k + 1] = Param THEN Append(a[k], path[k + 1]) ELSE a[k], k + 1, p, path)
    BY <2>1, <2>3, OneMoreGroup
  <2>5. Filled(a[i], i, p, path)
    BY <2>1, <2>2, <2>4
  <2> QED
    BY <2>5
<1>8. Filled(a[n], n, p, path)
  <2> HIDE DEF T
  <2>1. \A i \in 0..n : i \in T
    BY <1>2, <1>6, <1>7, UpTo
  <2>2. n \in T
    BY <1>2, <2>1
  <2> USE DEF T
  <2> QED
    BY <2>2
<1>9. Fills(a[n], p, path)
  BY <1>2, <1>8 DEF Fills, Filled, Count
<1> QED
  BY <1>1, <1>5, <1>9

-----------------------------------------------------------------------------
(* Serving.  A look-up finds one or nothing; of four, the first that finds *)
(* one counts.                                                             *)
OneOrNone(s) == s = <<>> \/ \E x : s = <<x>>

First(s) == SubSeq(s, 1, IF s = <<>> THEN 0 ELSE 1)

(* What a look-up finds is a sequence. *)
LEMMA OneOrNoneIsSeq ==
  ASSUME NEW s, OneOrNone(s), NEW S, s[1] \in S
  PROVE  s \in Seq(S)
<1>1. CASE s = <<>>
  BY <1>1, EmptySeq
<1>2. CASE \E x : s = <<x>>
  <2>1. PICK x : s = <<x>>
    BY <1>2
  <2>2. x \in S
    BY <2>1
  <2> QED
    BY <2>1, <2>2
<1> QED
  BY <1>1, <1>2 DEF OneOrNone

(* The front of two sequences is the front of the first, unless it is empty. *)
LEMMA FrontOfTwo ==
  ASSUME NEW S, NEW s \in Seq(S), NEW t \in Seq(S)
  PROVE  /\ s \o t \in Seq(S)
         /\ s = <<>> => s \o t = t
         /\ s # <<>> => s \o t # <<>> /\ (s \o t)[1] = s[1]
<1>1. s \o t \in Seq(S)
  BY ConcatProperties
<1>2. s = <<>> => s \o t = t
  BY ConcatEmptySeq
<1>3. ASSUME s # <<>> PROVE s \o t # <<>> /\ (s \o t)[1] = s[1]
  <2>1. Len(s) \in Nat \ {0} /\ Len(t) \in Nat
    BY <1>3, EmptySeq, LenProperties
  <2>2. 1 \in 1..(Len(s) + Len(t)) /\ 1 <= Len(s)
    BY <2>1
  <2>3. (s \o t)[1] = s[1]
    BY <2>2, ConcatProperties
  <2>4. s \o t # <<>>
    BY <1>3, ConcatEqualIffEmpty
  <2> QED
    BY <2>3, <2>4
<1> QED
  BY <1>1, <1>2, <1>3

(* First is empty for an empty sequence only. *)
LEMMA FirstIsFront ==
  ASSUME NEW S, NEW s \in Seq(S)
  PROVE  /\ s = <<>> => First(s) = <<>>
         /\ s # <<>> => First(s) # <<>> /\ First(s)[1] = s[1]
<1>1. ASSUME s = <<>> PROVE First(s) = <<>>
  <2>1. First(s) = SubSeq(s, 1, 0)
    BY <1>1 DEF First
  <2> QED
    BY <2>1, SubSeqEmpty
<1>2. ASSUME s # <<>> PROVE First(s) # <<>> /\ First(s)[1] = s[1]
  <2>1. First(s) = SubSeq(s, 1, 1)
    BY <1>2 DEF First
  <2>2. Len(s) \in Nat \ {0}
    BY <1>2, EmptySeq
  <2>3. \A i \in 1..1 : s[i] \in S
    BY <2>2, ElementOfSeq
  <2>4. Len(SubSeq(s, 1, 1)) = 1 /\ SubSeq(s, 1, 1)[1] = s[1]
    BY <2>3, SubSeqProperties
  <2>5. Len(<<>>) # 1
    OBVIOUS
  <2>6. SubSeq(s, 1, 1) # <<>>
    BY <2>4, <2>5, Zenon
  <2> QED
    BY <2>1, <2>4, <2>6, Zenon
<1> QED
  BY <1>1, <1>2

(* The look-ups in the order of route(). *)
LEMMA FirstOfFour ==
  ASSUME NEW a, NEW b, NEW c, NEW d,
         OneOrNone(a), OneOrNone(b), OneOrNone(c), OneOrNone(d),
         NEW by, by = First(a \o b \o c \o d)
  PROVE  /\ a # <<>> => by # <<>> /\ by[1] = a[1]
         /\ a = <<>> /\ b # <<>> => by # <<>> /\ by[1] = b[1]
         /\ a = <<>> /\ b = <<>> /\ c # <<>> => by # <<>> /\ by[1] = c[1]
         /\ a = <<>> /\ b = <<>> /\ c = <<>> /\ d # <<>> => by # <<>> /\ by[1] = d[1]
         /\ a = <<>> /\ b = <<>> /\ c = <<>> /\ d = <<>> => by = <<>>
<1>1. PICK S : S = {a[1], b[1], c[1], d[1]}
  OBVIOUS
<1>2. a \in Seq(S) /\ b \in Seq(S) /\ c \in Seq(S) /\ d \in Seq(S)
  BY <1>1, OneOrNoneIsSeq
<1>3. PICK ab, abc, abcd : ab = a \o b /\ abc = ab \o c /\ abcd = abc \o d
  OBVIOUS
<1>4. /\ ab \in Seq(S) /\ (a = <<>> => ab = b)
      /\ a # <<>> => ab # <<>> /\ ab[1] = a[1]
  BY <1>2, <1>3, FrontOfTwo
<1>5. /\ abc \in Seq(S) /\ (ab = <<>> => abc = c)
      /\ ab # <<>> => abc # <<>> /\ abc[1] = ab[1]
  BY <1>2, <1>3, <1>4, FrontOfTwo
<1>6. /\ abcd \in Seq(S) /\ (abc = <<>> => abcd = d)
      /\ abc # <<>> => abcd # <<>> /\ abcd[1] = abc[1]
  BY <1>2, <1>3, <1>5, FrontOfTwo
<1>7. by = First(abcd)
  BY <1>3
<1>8. (abcd = <<>> => by = <<>>) /\ (abcd # <<>> => by # <<>> /\ by[1] = abcd[1])
  BY <1>6, <1>7, FirstIsFront
<1> QED
  BY <1>4, <1>5, <1>6, <1>8

(* The rank of a kind is its place in Kinds. *)
LEMMA Ranks ==
  ASSUME NEW route
  PROVE  \A c \in 1..4 : route.kind = Kinds[c] => Rank(route) = c
<1>1. PICK I : I = {k \in 1..Len(Kinds) : Kinds[k] = route.kind}
  OBVIOUS
<1>2. Rank(route) = IF I # {} THEN Min(I) ELSE 0
  BY <1>1 DEF Rank, SelectInSeq
<1>3. ASSUME NEW c \in 1..4, route.kind = Kinds[c] PROVE Rank(route) = c
  <2>1. Len(Kinds) = 4 /\ \A k \in 1..4 : Kinds[k] = Kinds[c] => k = c
    BY DEF Kinds
  <2>2. I = {c}
    BY <1>1, <1>3, <2>1
  <2>3. Min({c}) = c
    BY DEF Min
  <2> QED
    BY <1>2, <2>2, <2>3
<1> QED
  BY <1>3

(* The routes that are registered are routes, and the tables hold them. *)
Registry ==
  /\ Listed(registered)
  /\ \A i \in DOMAIN registered : AnyRoute(registered[i])
  /\ Tables(router, registered, Len(registered))

NoneFits(kind, req) ==
  \A i \in DOMAIN registered : registered[i].kind = kind => ~Fits(registered[i], req)

BestOf(i, kind, req) ==
  /\ i \in DOMAIN registered /\ registered[i].kind = kind /\ Fits(registered[i], req)
  /\ \A j \in DOMAIN registered \ {i} :
       registered[j].kind = kind /\ Fits(registered[j], req) =>
         IF kind \in {"handlers", "callbacks"} THEN i > j ELSE i < j

Filling(params, route, req) ==
  route.kind = "regexHandlers" => Fills(params, route.path, req.path)

Finds(s, kind, req) ==
  \/ s = <<>> /\ NoneFits(kind, req)
  \/ /\ s # <<>> /\ OneOrNone(s)
     /\ \E i : /\ BestOf(i, kind, req) /\ s[1].target = registered[i].target
               /\ Filling(s[1].params, registered[i], req)

(* The routes registered are a sequence. *)
LEMMA Size ==
  ASSUME Registry  PROVE Len(registered) \in Nat /\ DOMAIN registered = 1..Len(registered)
BY LenProperties DEF Registry, Listed

(* Serve is one, with its target and parameters. *)
LEMMA ServeOne ==
  ASSUME NEW target, NEW params, NEW s, s = Serve(target, params)
  PROVE  s # <<>> /\ OneOrNone(s) /\ s[1].target = target /\ s[1].params = params
BY DEF Serve, OneOrNone

(* A static table serves with the best of its kind, *)
LEMMA StaticServes ==
  ASSUME Registry, NEW req, NEW kind \in {"handlers", "callbacks"}, NEW table,
         HasLatest(table, kind, registered, Len(registered))
  PROVE  Finds(Static(table, req), kind, req)
<1>1. PICK n, s : n = Len(registered) /\ s = Static(table, req)
  OBVIOUS
<1>2. n \in Nat /\ DOMAIN registered = 1..n
  BY <1>1, Size
<1>3. \A i \in 1..n : registered[i].kind = kind =>
        (Fits(registered[i], req) <=> Key(registered[i]) = Key(req))
  BY DEF Fits, IsStatic
<1>4. \/ /\ s = <<>>
         /\ \A i \in 1..n : registered[i].kind = kind => Key(registered[i]) # Key(req)
      \/ \E i \in 1..n : /\ registered[i].kind = kind /\ Key(registered[i]) = Key(req)
                         /\ Latest(registered, n, i)
                         /\ s = Serve(registered[i].target, <<>>)
  BY <1>1, <1>2, StaticFinds
<1>5. CASE /\ s = <<>>
           /\ \A i \in 1..n : registered[i].kind = kind => Key(registered[i]) # Key(req)
  <2>1. NoneFits(kind, req)
    BY <1>2, <1>3, <1>5 DEF NoneFits
  <2>2. Finds(s, kind, req)
    BY <1>5, <2>1 DEF Finds
  <2> QED
    BY <1>1, <2>2
<1>6. ASSUME NEW i \in 1..n, registered[i].kind = kind, Key(registered[i]) = Key(req),
             Latest(registered, n, i), s = Serve(registered[i].target, <<>>)
      PROVE  Finds(s, kind, req)
  <2>1. ASSUME NEW j \in 1..n, j # i, registered[j].kind = kind, Fits(registered[j], req)
        PROVE  i > j
    <3>1. Key(registered[j]) = Key(registered[i])
      BY <1>3, <1>6, <2>1
    <3>2. j \notin (i + 1)..n
      BY <1>6, <2>1, <3>1 DEF Latest
    <3> QED
      BY <1>2, <2>1, <3>2
  <2>2. BestOf(i, kind, req)
    BY <1>2, <1>3, <1>6, <2>1 DEF BestOf
  <2>3. s # <<>> /\ OneOrNone(s) /\ s[1].target = registered[i].target
    BY <1>6, ServeOne
  <2>4. Filling(s[1].params, registered[i], req)
    BY <1>6 DEF Filling
  <2> QED
    BY <2>2, <2>3, <2>4 DEF Finds
<1>7. Finds(s, kind, req)
  BY <1>1, <1>4, <1>5, <1>6
<1> QED
  BY <1>1, <1>7

(* and so does a dynamic one. *)
LEMMA DynamicServes ==
  ASSUME Registry, NEW req, NEW kind \in {"regexHandlers", "regexCallbacks"}, NEW list,
         Listed(list), HasAll(list, kind, registered, Len(registered)), NEW s, NEW params,
         FirstMatch(list, req) = 0 => s = <<>>,
         FirstMatch(list, req) # 0 =>
           s = Serve(list[FirstMatch(list, req)].target, params),
         FirstMatch(list, req) # 0 => Filling(params, list[FirstMatch(list, req)], req)
  PROVE  Finds(s, kind, req)
<1>1. PICK n, k : n = Len(registered) /\ k = FirstMatch(list, req)
  OBVIOUS
<1>2. n \in Nat /\ DOMAIN registered = 1..n
  BY <1>1, Size
<1>3. \A i \in 1..n : registered[i].kind = kind =>
        (Fits(registered[i], req) <=> RegexMatch(registered[i], req))
  BY DEF Fits, IsStatic
<1>4. \/ /\ k = 0
         /\ \A i \in 1..n : registered[i].kind = kind => ~RegexMatch(registered[i], req)
      \/ \E i : k # 0 /\ list[k] = registered[i] /\ FirstOfKind(registered, n, kind, req, i)
  BY <1>1, <1>2, DynamicFinds
<1>5. CASE /\ k = 0
           /\ \A i \in 1..n : registered[i].kind = kind => ~RegexMatch(registered[i], req)
  <2>1. NoneFits(kind, req)
    BY <1>2, <1>3, <1>5 DEF NoneFits
  <2> QED
    BY <1>1, <1>5, <2>1 DEF Finds
<1>6. ASSUME NEW i, k # 0, list[k] = registered[i], FirstOfKind(registered, n, kind, req, i)
      PROVE  Finds(s, kind, req)
  <2>1. BestOf(i, kind, req)
    BY <1>2, <1>3, <1>6 DEF BestOf, FirstOfKind
  <2>2. s = Serve(registered[i].target, params) /\ Filling(params, registered[i], req)
    BY <1>1, <1>6
  <2>3. /\ s # <<>> /\ OneOrNone(s) /\ s[1].target = registered[i].target
        /\ s[1].params = params
    BY <2>2, ServeOne
  <2> QED
    BY <2>1, <2>2, <2>3 DEF Finds
<1> QED
  BY <1>4, <1>5, <1>6

(* Each of the four look-ups. *)
LEMMA LookUpsFind ==
  ASSUME Registry, NEW req
  PROVE  /\ Finds(Static(router.handlers, req), "handlers", req)
         /\ Finds(Static(router.callbacks, req), "callbacks", req)
         /\ Finds(RegexHandler(router, req), "regexHandlers", req)
         /\ Finds(RegexCallback(router, req), "regexCallbacks", req)
<1>1. /\ HasLatest(router.handlers, "handlers", registered, Len(registered))
      /\ HasLatest(router.callbacks, "callbacks", registered, Len(registered))
  BY DEF Registry, Tables
<1>2. PICK list : list = router.regexHandlers
  OBVIOUS
<1>3. Listed(list) /\ HasAll(list, "regexHandlers", registered, Len(registered))
  BY <1>2 DEF Registry, Tables
<1>4. PICK k : k = FirstMatch(list, req)
  OBVIOUS
<1>5. k # 0 => Filling(ExtractPathParameters(list[k], req), list[k], req)
  <2>1. SUFFICES ASSUME k # 0 PROVE Filling(ExtractPathParameters(list[k], req), list[k], req)
    OBVIOUS
  <2>2. PICK i : list[k] = registered[i] /\ i \in 1..Len(registered)
    BY <1>3, <1>4, <2>1, Size, DynamicFinds DEF FirstOfKind
  <2>3. PICK route : route = list[k]
    OBVIOUS
  <2>4. Listed(route.path)
    BY <2>2, <2>3, Size DEF Registry, AnyRoute
  <2>5. Fills(ExtractPathParameters(route, req), route.path, req.path)
    BY <2>4, ParamsFill
  <2> QED
    BY <2>3, <2>5 DEF Filling
<1>6. Finds(RegexHandler(router, req), "regexHandlers", req)
  <2>1. PICK s, params : /\ s = RegexHandler(router, req)
                         /\ params = ExtractPathParameters(list[k], req)
    OBVIOUS
  <2>2. s = IF k = 0 THEN <<>> ELSE Serve(list[k].target, params)
    BY <1>2, <1>4, <2>1 DEF RegexHandler
  <2>3. Finds(s, "regexHandlers", req)
    BY <1>3, <1>4, <1>5, <2>1, <2>2, DynamicServes
  <2> QED
    BY <2>1, <2>3
<1>7. Finds(RegexCallback(router, req), "regexCallbacks", req)
  <2>1. PICK calls : calls = router.regexCallbacks
    OBVIOUS
  <2>2. Listed(calls) /\ HasAll(calls, "regexCallbacks", registered, Len(registered))
    BY <2>1 DEF Registry, Tables
  <2>3. PICK h, s, none : /\ h = FirstMatch(calls, req) /\ s = RegexCallback(router, req)
                          /\ none = <<>>
    OBVIOUS
  <2>4. s = IF h = 0 THEN <<>> ELSE Serve(calls[h].target, none)
    BY <2>1, <2>3 DEF RegexCallback
  <2>5. h # 0 => Filling(none, calls[h], req)
    <3>1. h # 0 => \E i : calls[h] = registered[i] /\ registered[i].kind = "regexCallbacks"
      BY <2>2, <2>3, Size, DynamicFinds DEF FirstOfKind
    <3> QED
      BY <3>1 DEF Filling
  <2>6. Finds(s, "regexCallbacks", req)
    BY <2>2, <2>3, <2>4, <2>5, DynamicServes
  <2> QED
    BY <2>3, <2>6
<1> QED
  BY <1>1, <1>6, <1>7, StaticServes

-----------------------------------------------------------------------------
NoneBefore(c, req) == \A d \in 1..(c - 1) : NoneFits(Kinds[d], req)

(* The best of the best kind goes before every route that fits. *)
LEMMA BestWins ==
  ASSUME Registry, NEW req, NEW c \in 1..4, NEW i, BestOf(i, Kinds[c], req),
         NoneBefore(c, req),
         NEW j \in DOMAIN registered, j # i, Fits(registered[j], req)
  PROVE  Before(i, j)
<1>1. PICK d \in 1..4 : registered[j].kind = Kinds[d]
  <2>1. registered[j].kind \in KindSet
    BY DEF Registry, AnyRoute
  <2> QED
    BY <2>1 DEF KindSet, Kinds
<1>2. registered[i].kind = Kinds[c]
  BY DEF BestOf
<1>3. Rank(registered[i]) = c /\ Rank(registered[j]) = d
  BY <1>1, <1>2, Ranks
<1>4. d \notin 1..(c - 1)
  BY <1>1 DEF NoneBefore, NoneFits
<1>5. CASE c < d
  BY <1>3, <1>5 DEF Before
<1>6. CASE c = d
  <2>1. IF Kinds[c] \in {"handlers", "callbacks"} THEN i > j ELSE i < j
    BY <1>1, <1>6 DEF BestOf
  <2>2. IF IsStatic(registered[i]) THEN i > j ELSE i < j
    BY <2>1, <1>2 DEF IsStatic
  <2> QED
    BY <2>2, <1>3, <1>6 DEF Before
<1> QED
  BY <1>1, <1>4, <1>5, <1>6

Chosen(i, req) ==
  /\ i \in DOMAIN registered /\ Fits(registered[i], req)
  /\ \A j \in DOMAIN registered :
       j # i /\ Fits(registered[j], req) => Before(i, j)

(* Who serves a request is nobody, when no route fits it, or the target of *)
(* the route that goes before the others.                                  *)
Right(by, req) ==
  \/ by = <<>> /\ \A i \in DOMAIN registered : ~Fits(registered[i], req)
  \/ /\ by # <<>>
     /\ \E i : /\ Chosen(i, req) /\ by[1].target = registered[i].target
               /\ Filling(by[1].params, registered[i], req)

(* The first look-up that finds one finds who is right. *)
LEMMA FoundIsRight ==
  ASSUME Registry, NEW req, NEW c \in 1..4, NEW s, Finds(s, Kinds[c], req), s # <<>>,
         NoneBefore(c, req),
         NEW by, by # <<>>, by[1] = s[1]
  PROVE  Right(by, req)
<1>1. PICK i : /\ BestOf(i, Kinds[c], req) /\ s[1].target = registered[i].target
               /\ Filling(s[1].params, registered[i], req)
  BY DEF Finds
<1>2. Chosen(i, req)
  <2>1. i \in DOMAIN registered /\ Fits(registered[i], req)
    BY <1>1 DEF BestOf
  <2>2. \A j \in DOMAIN registered :
          j # i /\ Fits(registered[j], req) => Before(i, j)
    BY <1>1, BestWins
  <2> QED
    BY <2>1, <2>2 DEF Chosen
<1> QED
  BY <1>1, <1>2 DEF Right

(* route() finds who is right, whatever has been registered. *)
LEMMA RouteIsRight ==
  ASSUME Registry, NEW req
  PROVE  Right(Route(router, req), req)
<1>1. PICK a, b, c, d : /\ a = Static(router.handlers, req)
                        /\ b = Static(router.callbacks, req)
                        /\ c = RegexHandler(router, req) /\ d = RegexCallback(router, req)
  OBVIOUS
<1>2. PICK by : by = Route(router, req)
  OBVIOUS
<1>3. by = First(a \o b \o c \o d)
  BY <1>1, <1>2 DEF Route, First
<1>4. /\ Finds(a, Kinds[1], req) /\ Finds(b, Kinds[2], req)
      /\ Finds(c, Kinds[3], req) /\ Finds(d, Kinds[4], req)
  BY <1>1, LookUpsFind DEF Kinds
<1>5. OneOrNone(a) /\ OneOrNone(b) /\ OneOrNone(c) /\ OneOrNone(d)
  BY <1>4 DEF Finds, OneOrNone
<1>6. /\ a # <<>> => by # <<>> /\ by[1] = a[1]
      /\ a = <<>> /\ b # <<>> => by # <<>> /\ by[1] = b[1]
      /\ a = <<>> /\ b = <<>> /\ c # <<>> => by # <<>> /\ by[1] = c[1]
      /\ a = <<>> /\ b = <<>> /\ c = <<>> /\ d # <<>> => by # <<>> /\ by[1] = d[1]
      /\ a = <<>> /\ b = <<>> /\ c = <<>> /\ d = <<>> => by = <<>>
  BY <1>3, <1>5, FirstOfFour
<1>7. /\ a = <<>> => NoneFits(Kinds[1], req)
      /\ b = <<>> => NoneFits(Kinds[2], req)
      /\ c = <<>> => NoneFits(Kinds[3], req)
      /\ d = <<>> => NoneFits(Kinds[4], req)
  BY <1>4 DEF Finds
<1>8. CASE a # <<>>
  <2>1. NoneBefore(1, req)
    BY DEF NoneBefore
  <2> QED
    BY <1>2, <1>4, <1>6, <1>8, <2>1, FoundIsRight
<1>9. CASE a = <<>> /\ b # <<>>
  <2>1. NoneBefore(2, req)
    BY <1>7, <1>9 DEF NoneBefore
  <2> QED
    BY <1>2, <1>4, <1>6, <1>9, <2>1, FoundIsRight
<1>10. CASE a = <<>> /\ b = <<>> /\ c # <<>>
  <2>1. NoneBefore(3, req)
    BY <1>7, <1>10 DEF NoneBefore
  <2> QED
    BY <1>2, <1>4, <1>6, <1>10, <2>1, FoundIsRight
<1>11. CASE a = <<>> /\ b = <<>> /\ c = <<>> /\ d # <<>>
  <2>1. NoneBefore(4, req)
    BY <1>7, <1>11 DEF NoneBefore
  <2> QED
    BY <1>2, <1>4, <1>6, <1>11, <2>1, FoundIsRight
<1>12. CASE a = <<>> /\ b = <<>> /\ c = <<>> /\ d = <<>>
  <2>1. \A i \in DOMAIN registered : \E k \in 1..4 : registered[i].kind = Kinds[k]
    BY DEF Registry, AnyRoute, KindSet, Kinds
  <2>2. \A k \in 1..4 : NoneFits(Kinds[k], req)
    BY <1>7, <1>12
  <2>3. \A i \in DOMAIN registered : ~Fits(registered[i], req)
    BY <2>1, <2>2 DEF NoneFits
  <2> QED
    BY <1>2, <1>6, <1>12, <2>3 DEF Right
<1> QED
  BY <1>8, <1>9, <1>10, <1>11, <1>12

-----------------------------------------------------------------------------
(* Routes are registered before the first request; from then on every      *)
(* request that is past the middleware has who serves it, and only         *)
(* handleRequest sees one that nobody serves.                              *)
Routed(r) ==
  r.pc \notin {"idle", "before"} =>
    /\ r.req.method # "OPTIONS" /\ Right(r.by, r.req)
    /\ r.pc # "handle" => r.by # <<>>

AnsweredRight ==
  \A a \in answer : a.req.method # "OPTIONS" =>
    Right(a.by, a.req) /\ (a.by = <<>> => a.resp.status = 404)

RouteInv ==
  /\ Registry /\ toRegister \subseteq MoreRoutes
  /\ \A l \in Loop : loop[l].pc # "idle" => toRegister = {}
  /\ \A l \in Loop : Routed(loop[l])
  /\ AnsweredRight

(* What the property says of an answer, in these terms. *)
LEMMA RightIsServed ==
  ASSUME AnsweredRight  PROVE ServedByTheRightOne
<1>1. SUFFICES
        ASSUME NEW a \in answer, a.req.method # "OPTIONS", NEW fitting,
               fitting = {i \in DOMAIN registered : Fits(registered[i], a.req)}
        PROVE  IF fitting = {} THEN a.by = <<>> /\ a.resp.status = 404
               ELSE \E i \in fitting :
                      /\ \A j \in fitting \ {i} : Before(i, j)
                      /\ a.by[1].target = registered[i].target
                      /\ registered[i].kind = "regexHandlers" =>
                           Fills(a.by[1].params, registered[i].path, a.req.path)
  BY DEF ServedByTheRightOne
<1>2. Right(a.by, a.req) /\ (a.by = <<>> => a.resp.status = 404)
  BY <1>1 DEF AnsweredRight
<1>3. CASE a.by = <<>> /\ \A i \in DOMAIN registered : ~Fits(registered[i], a.req)
  BY <1>1, <1>2, <1>3
<1>4. CASE \E i : /\ Chosen(i, a.req) /\ a.by[1].target = registered[i].target
                  /\ Filling(a.by[1].params, registered[i], a.req)
  <2>1. PICK i : /\ Chosen(i, a.req) /\ a.by[1].target = registered[i].target
                 /\ Filling(a.by[1].params, registered[i], a.req)
    BY <1>4
  <2>2. i \in fitting /\ \A j \in fitting \ {i} : Before(i, j)
    BY <1>1, <2>1 DEF Chosen
  <2> QED
    BY <2>1, <2>2 DEF Filling
<1> QED
  BY <1>2, <1>3, <1>4 DEF Right

(* While no route is registered, who is right stays so. *)
LEMMA RightStays ==
  ASSUME NEW by, NEW req, registered' = registered, Right(by, req)
  PROVE  Right(by, req)'
BY DEF Right, Chosen, Before

(* The paths of the program are sequences. *)
LEMMA ShortSeq ==
  /\ Listed(<<>>)
  /\ \A x, y : Listed(<<x>>) /\ Listed(<<x, y>>)
<1>1. ASSUME NEW S, NEW x \in S, NEW y \in S PROVE <<x>> \in Seq(S) /\ <<x, y>> \in Seq(S)
  OBVIOUS
<1>2. ASSUME NEW x, NEW y PROVE Listed(<<x>>) /\ Listed(<<x, y>>)
  <2>1. <<x>> \in Seq({x, y}) /\ <<x, y>> \in Seq({x, y})
    BY <1>1
  <2> QED
    BY <2>1 DEF Listed
<1>3. Listed(<<>>)
  BY EmptySeq DEF Listed
<1> QED
  BY <1>2, <1>3

(* What initializeRouter() registers. *)
LEMMA ProgramRoutes ==
  \A i \in 1..15 : AnyRoute(InitializeRouter[i])
<1>1. \A p, h : Listed(p) => AnyRoute(Get(p, h)) /\ AnyRoute(Post(p, h))
  BY DEF Get, Post, AnyRoute, KindSet
<1>2. Listed(<<>>) /\ \A x, y : Listed(<<x>>) /\ Listed(<<x, y>>)
  BY ShortSeq
<1>3. \A x, h : AnyRoute(Get(<<x>>, h)) /\ AnyRoute(Post(<<x>>, h))
  BY <1>1, <1>2
<1>4. \A x, y, h : AnyRoute(Get(<<x, y>>, h)) /\ AnyRoute(Post(<<x, y>>, h))
  BY <1>1, <1>2
<1>5. \A h : AnyRoute(Get(<<>>, h))
  BY <1>1, <1>2
<1>6. /\ InitializeRouter[1] = Get(<<>>, "ChatEntryHandler")
      /\ InitializeRouter[2] = Get(<<"entry">>, "ChatEntryHandler")
      /\ InitializeRouter[3] = Post(<<"login">>, "ChatLoginHandler")
      /\ InitializeRouter[4] = Post(<<"register">>, "ChatRegisterHandler")
      /\ InitializeRouter[5] = Post(<<"user", "logout">>, "ChatLogoutHandler")
      /\ InitializeRouter[6] = Get(<<"chat">>, "ChatHandler")
      /\ InitializeRouter[7] = Post(<<"chat", "send">>, "ChatSendHandler")
      /\ InitializeRouter[8] = Get(<<"menu">>, "AIMenuHandler")
      /\ InitializeRouter[9] = Get(<<"upload">>, "AIUploadHandler")
      /\ InitializeRouter[10] = Post(<<"upload", "send">>, "AIUploadSendHandler")
      /\ InitializeRouter[11] = Post(<<"chat", "history">>, "ChatHistoryHandler")
      /\ InitializeRouter[12] = Post(<<"chat", "delete-session">>, "ChatDeleteSessionHandler")
      /\ InitializeRouter[13] = Post(<<"chat", "send-new-session">>, "ChatCreateAndSendHandler")
      /\ InitializeRouter[14] = Get(<<"chat", "sessions">>, "ChatSessionsHandler")
      /\ InitializeRouter[15] = Post(<<"chat", "tts">>, "ChatSpeechHandler")
  BY DEF InitializeRouter
<1>7. SUFFICES ASSUME NEW i \in 1..15 PROVE AnyRoute(InitializeRouter[i])
  OBVIOUS
<1>8. /\ AnyRoute(InitializeRouter[1]) /\ AnyRoute(InitializeRouter[2])
      /\ AnyRoute(InitializeRouter[3]) /\ AnyRoute(InitializeRouter[4])
      /\ AnyRoute(InitializeRouter[5]) /\ AnyRoute(InitializeRouter[6])
      /\ AnyRoute(InitializeRouter[7]) /\ AnyRoute(InitializeRouter[8])
  BY <1>3, <1>4, <1>5, <1>6
<1>9. /\ AnyRoute(InitializeRouter[9]) /\ AnyRoute(InitializeRouter[10])
      /\ AnyRoute(InitializeRouter[11]) /\ AnyRoute(InitializeRouter[12])
      /\ AnyRoute(InitializeRouter[13]) /\ AnyRoute(InitializeRouter[14])
      /\ AnyRoute(InitializeRouter[15])
  BY <1>3, <1>4, <1>5, <1>6
<1> QED
  BY <1>8, <1>9

(* The program's routes are registered and no request is there. *)
LEMMA InitServes ==
  ASSUME Init  PROVE RouteInv
<1>1. Len(registered) = 15 /\ registered \in Seq({registered[i] : i \in 1..15})
  BY DEF Init, InitializeRouter
<1>2. DOMAIN registered = 1..15
  BY <1>1, LenProperties
<1>3. \A i \in 1..15 : AnyRoute(registered[i])
  BY ProgramRoutes DEF Init
<1>4. Tables(router, registered, 15)
  BY <1>1, <1>3, AllRegistered DEF Init
<1>5. Registry
  BY <1>1, <1>2, <1>3, <1>4 DEF Registry, Listed
<1> QED
  BY <1>5 DEF Init, RouteInv, Routed, AnsweredRight, Idle

(* One more route, while every loop is idle. *)
LEMMA RegisterRouteServes ==
  ASSUME IInv, RouteInv, NEW route \in MoreRoutes, RegisterRoute(route)
  PROVE  RouteInv'
<1>1. PICK n : n = Len(registered) /\ n \in Nat /\ DOMAIN registered = 1..n
  BY Size DEF RouteInv
<1>2. PICK S : registered \in Seq(S)
  BY DEF RouteInv, Registry, Listed
<1>3. registered \in Seq(S \cup {route}) /\ route \in S \cup {route}
  BY <1>2, SeqMonotonic
<1>4. PICK R : R = Append(registered, route) /\ registered' = R
  BY DEF RegisterRoute
<1>5. /\ R \in Seq(S \cup {route}) /\ Len(R) = n + 1 /\ R[n + 1] = route
      /\ \A i \in 1..n : R[i] = registered[i]
  BY <1>1, <1>3, <1>4, AppendProperties
<1>6. Tables(router, R, n)
  BY <1>1, <1>5, TablesOfFirst DEF RouteInv, Registry
<1>7. AnyRoute(route)
  BY DispatchAssumption DEF AnyRoute, KindSet, Listed
<1>8. Tables(router', R, n + 1)
  <2>1. Tables(Register(router, R[n + 1]), R, n + 1)
    BY <1>1, <1>5, <1>6, <1>7, RegisterKeeps
  <2> QED
    BY <2>1, <1>5 DEF RegisterRoute
<1>9. DOMAIN R = 1..(n + 1)
  BY <1>5, LenProperties
<1>10. \A i \in 1..(n + 1) : AnyRoute(R[i])
  <2>1. \A i \in 1..(n + 1) : i \in 1..n \/ i = n + 1
    BY <1>1
  <2> QED
    BY <2>1, <1>1, <1>5, <1>7 DEF RouteInv, Registry
<1>11. Registry'
  BY <1>4, <1>5, <1>8, <1>9, <1>10 DEF Registry, Listed
<1>12. \A l \in Loop : loop[l].pc = "idle"
  BY DEF RouteInv, RegisterRoute
<1> QED
  BY <1>11, <1>12 DEF RouteInv, RegisterRoute, Silent, Routed, AnsweredRight

(* A step of one loop. *)
LEMMA LoopServes ==
  ASSUME IInv, RouteInv, NEW l \in Loop, NEW r, loop' = [loop EXCEPT ![l] = r],
         UNCHANGED setup, r.pc # "idle" => toRegister = {}, Routed(r), AnsweredRight'
  PROVE  RouteInv'
<1>1. \A k \in Loop : loop'[k] = IF k = l THEN r ELSE loop[k]
  BY DEF IInv, LoopsBusy
<1>2. registered' = registered /\ router' = router /\ toRegister' = toRegister
  BY DEF setup
<1>3. Registry'
  BY <1>2 DEF RouteInv, Registry
<1>4. \A k \in Loop : Routed(loop'[k])
  BY <1>1 DEF RouteInv
<1>5. \A k \in Loop : Routed(loop[k])'
  <2>1. SUFFICES ASSUME NEW k \in Loop PROVE Routed(loop[k])'
    OBVIOUS
  <2>2. PICK q : q = loop'[k]
    OBVIOUS
  <2>3. Routed(q)
    BY <1>4, <2>2
  <2>4. Right(q.by, q.req) => Right(q.by, q.req)'
    BY <1>2, RightStays
  <2> QED
    BY <2>2, <2>3, <2>4 DEF Routed
<1> QED
  BY <1>1, <1>2, <1>3, <1>5 DEF RouteInv

(* A step without an answer. *)
LEMMA SilentServes ==
  ASSUME Silent  PROVE AnsweredRight'
BY DEF Silent, AnsweredRight

(* An answer. *)
LEMMA SendServes ==
  ASSUME IInv, RouteInv, NEW l \in Loop, loop[l].pc # "idle", UNCHANGED setup,
         NEW resp, NEW accounts, Send(l, resp, accounts),
         loop[l].pc = "before" => loop[l].req.method = "OPTIONS",
         loop[l].pc # "before" /\ loop[l].by = <<>> => resp.status = 404 /\ ~resp.deferred
  PROVE  RouteInv'
<1>q. PICK q : q = loop[l]
  OBVIOUS
<1>r. PICK r : r = IF resp.deferred THEN SendSSEHeaders ELSE resp
  OBVIOUS
<1>a. PICK a : a = [req |-> q.req, by |-> q.by, resp |-> r]
  OBVIOUS
<1>1. /\ q = loop[l] /\ a = [req |-> q.req, by |-> q.by, resp |-> r]
      /\ ~resp.deferred => r = resp
  BY <1>q, <1>r, <1>a
<1>2. answer' = {a} /\ a.req = q.req /\ a.by = q.by /\ a.resp = r
  BY <1>1, <1>r DEF Send
<1>3. ASSUME a.req.method # "OPTIONS"
      PROVE  Right(a.by, a.req) /\ (a.by = <<>> => a.resp.status = 404)
  BY <1>1, <1>2, <1>3 DEF RouteInv, Routed
<1>4. registered' = registered
  BY DEF setup
<1>5. AnsweredRight'
  BY <1>2, <1>3, <1>4, RightStays DEF AnsweredRight
<1>6. Idle.pc = "idle" /\ Routed(Idle)
  BY DEF Idle, Routed
<1> QED
  BY <1>5, <1>6, LoopServes DEF Send

(* What is made of the outcome of a handler that was found. *)
LEMMA ConcludeServes ==
  ASSUME IInv, RouteInv, NEW l \in Loop, loop[l].pc \notin {"idle", "before"},
         loop[l].by # <<>>, UNCHANGED setup, NEW o, Conclude(l, o)
  PROVE  RouteInv'
<1>1. PICK resp : Send(l, resp, {})
  BY DEF Conclude, Return
<1> QED
  BY <1>1, SendServes

(* A loop that goes from one statement to the next. *)
LEMMA GoOnServes ==
  ASSUME IInv, RouteInv, NEW l \in Loop, loop[l].pc \notin {"idle", "before", "handle"},
         UNCHANGED setup, Silent, NEW pc,
         loop' = [loop EXCEPT ![l].pc = pc]
  PROVE  RouteInv'
<1>1. PICK q, r : q = loop[l] /\ r = [loop[l] EXCEPT !.pc = pc]
  OBVIOUS
<1>2. Busy(q)
  BY <1>1, BusyIsBusy
<1>3. r = [pc |-> pc, req |-> q.req, by |-> q.by, resp |-> q.resp, polls |-> q.polls]
  BY <1>1, <1>2 DEF Busy
<1>4. Routed(r)
  BY <1>1, <1>3 DEF RouteInv, Routed
<1>5. loop' = [loop EXCEPT ![l] = r]
  BY <1>1
<1>6. r.pc # "idle" => toRegister = {}
  BY DEF RouteInv
<1> QED
  BY <1>4, <1>5, <1>6, LoopServes, SilentServes

(* Waiting for speech leaves the request as it was routed. *)
LEMMA PollServes ==
  ASSUME IInv, RouteInv, NEW l \in Loop, Poll(l)
  PROVE  RouteInv'
<1>1. loop[l].pc = "poll" /\ loop[l].by # <<>>
  BY DEF Poll, RouteInv, Routed
<1>2. CASE Return(l, Succeeded(loop[l].resp))
  BY <1>1, <1>2, SendServes DEF Poll, Return
<1>3. CASE loop' = [loop EXCEPT ![l].polls = @ + 1] /\ Silent
  <2>1. PICK q, n : q = loop[l] /\ n = loop[l].polls + 1
    OBVIOUS
  <2>2. PICK r : r = [q EXCEPT !.polls = n]
    OBVIOUS
  <2>3. Busy(q)
    BY <1>1, <2>1, BusyIsBusy
  <2>4. r = [pc |-> q.pc, req |-> q.req, by |-> q.by, resp |-> q.resp, polls |-> n]
    BY <2>2, <2>3 DEF Busy
  <2>5. Routed(q)
    BY <2>1 DEF RouteInv
  <2>6. Routed(r)
    BY <2>4, <2>5 DEF Routed
  <2>7. loop' = [loop EXCEPT ![l] = r]
    BY <1>3, <2>1, <2>2
  <2>8. r.pc # "idle" => toRegister = {}
    BY <1>1 DEF RouteInv
  <2> QED
    BY <1>3, <2>6, <2>7, <2>8, LoopServes, SilentServes DEF Poll
<1> QED
  BY <1>2, <1>3 DEF Poll

(* A request that has come has not been routed. *)
LEMMA OnRequestServes ==
  ASSUME IInv, RouteInv, NEW l \in Loop, NEW req \in Requests, OnRequest(l, req)
  PROVE  RouteInv'
<1>1. PICK r : r = [pc |-> "before", req |-> req, by |-> <<>>,
                    resp |-> NewResponse(CloseAsked(req)), polls |-> 0]
  OBVIOUS
<1>2. Routed(r)
  BY <1>1 DEF Routed
<1>3. loop' = [loop EXCEPT ![l] = r] /\ toRegister = {} /\ Silent /\ UNCHANGED setup
  BY <1>1 DEF OnRequest
<1> QED
  BY <1>2, <1>3, LoopServes, SilentServes

(* A request that is routed has who is right. *)
LEMMA RouteRequestServes ==
  ASSUME IInv, RouteInv, NEW l \in Loop, RouteRequest(l)
  PROVE  RouteInv'
<1>1. PICK q, by : q = loop[l] /\ by = Route(router, q.req)
  OBVIOUS
<1>2. PICK pc : pc = IF by # <<>> /\ by[1].target \in DOMAIN FirstStep
                     THEN FirstStep[by[1].target] ELSE "handle"
  OBVIOUS
<1>3. /\ q.pc = "before" /\ q.req.method # "OPTIONS" /\ Silent /\ UNCHANGED setup
      /\ loop' = [loop EXCEPT ![l].by = by, ![l].pc = pc]
  BY <1>1, <1>2 DEF RouteRequest
<1>4. Busy(q)
  BY <1>1, <1>3, BusyIsBusy
<1>5. PICK p : p = [q EXCEPT !.by = by]
  OBVIOUS
<1>6. PICK r : r = [p EXCEPT !.pc = pc]
  OBVIOUS
<1>7. p = [pc |-> q.pc, req |-> q.req, by |-> by, resp |-> q.resp, polls |-> q.polls]
  BY <1>4, <1>5 DEF Busy
<1>8. r = [pc |-> pc, req |-> q.req, by |-> by, resp |-> q.resp, polls |-> q.polls]
  BY <1>6, <1>7
<1>9. loop' = [loop EXCEPT ![l] = r]
  <2>1. r = [loop[l] EXCEPT !.by = by, !.pc = pc]
    BY <1>1, <1>5, <1>6
  <2> QED
    BY <1>3, <2>1
<1>10. Right(by, q.req)
  <2>1. Right(Route(router, q.req), q.req)
    BY RouteIsRight DEF RouteInv
  <2> QED
    BY <1>1, <2>1
<1>11. by = <<>> => pc = "handle"
  BY <1>2
<1>12. Routed(r)
  BY <1>3, <1>8, <1>10, <1>11 DEF Routed
<1>13. toRegister = {}
  BY <1>1, <1>3 DEF RouteInv
<1> QED
  BY <1>3, <1>9, <1>12, <1>13, LoopServes, SilentServes

(* Nobody's request is answered with 404. *)
LEMMA HandleRequestServes ==
  ASSUME IInv, RouteInv, NEW l \in Loop, HandleRequest(l)
  PROVE  RouteInv'
<1>1. loop[l].pc = "handle" /\ UNCHANGED setup
  BY DEF HandleRequest
<1>2. CASE loop[l].by # <<>>
  <2>1. PICK o : Conclude(l, o)
    BY <1>2 DEF HandleRequest
  <2> QED
    BY <1>1, <1>2, <2>1, ConcludeServes
<1>3. CASE loop[l].by = <<>>
  <2>1. PICK r : r = NotFound(loop[l].resp)
    OBVIOUS
  <2>2. Shape(loop[l].resp) /\ ~loop[l].resp.deferred
    BY <1>1, BusyIsBusy, NewHasShape DEF Busy
  <2>3. Shape(r) /\ r.status = 404 /\ ~r.deferred
    BY <2>1, <2>2, NotFoundIsFinished DEF Finished
  <2>4. PICK a : a = After(r)
    OBVIOUS
  <2>5. a.status = 404 /\ ~a.deferred
    BY <2>3, <2>4 DEF After, AddCorsHeaders, Shape
  <2>6. Send(l, a, {})
    BY <1>3, <2>1, <2>4 DEF HandleRequest, Return
  <2> QED
    BY <1>1, <2>5, <2>6, SendServes
<1> QED
  BY <1>2, <1>3

(* Every step keeps it. *)
LEMMA NextServes ==
  ASSUME IInv, RouteInv, [Next]_vars
  PROVE  RouteInv'
<1>1. CASE UNCHANGED vars
  <2>1. UNCHANGED setup /\ loop' = loop /\ answer' = answer
    BY <1>1 DEF vars, setup
  <2>2. registered' = registered /\ router' = router /\ toRegister' = toRegister
    BY <2>1 DEF setup
  <2>3. \A a \in answer : Right(a.by, a.req) => Right(a.by, a.req)'
    BY <2>2, RightStays
  <2>4. AnsweredRight'
    BY <2>1, <2>3 DEF RouteInv, AnsweredRight
  <2>5. \A l \in Loop : Right(loop[l].by, loop[l].req) => Right(loop[l].by, loop[l].req)'
    BY <2>1, <2>2 DEF Right, Chosen, Before
  <2>6. \A l \in Loop : Routed(loop[l])'
    BY <2>1, <2>5 DEF RouteInv, Routed
  <2> QED
    BY <2>1, <2>2, <2>4, <2>6 DEF RouteInv, Registry
<1>2. ASSUME NEW route \in MoreRoutes, RegisterRoute(route)  PROVE RouteInv'
  BY <1>2, RegisterRouteServes
<1>3. ASSUME NEW l \in Loop, NEW req \in Requests, OnRequest(l, req)  PROVE RouteInv'
  BY <1>3, OnRequestServes
<1>4. ASSUME NEW l \in Loop, Step(l)  PROVE RouteInv'
  <2>s. loop[l].pc \notin {"idle", "before", "handle"} => loop[l].by # <<>>
    BY DEF RouteInv, Routed
  <2>1. CASE Preflight(l)
    BY <2>1, SendServes DEF Preflight
  <2>2. CASE RouteRequest(l)
    BY <2>2, RouteRequestServes
  <2>3. CASE HandleRequest(l)
    BY <2>3, HandleRequestServes
  <2>4. CASE Unreadable(l)
    BY <2>4, <2>s, ConcludeServes DEF Unreadable
  <2>5. CASE IsUserExist(l)
    <3>1. loop[l].pc = "isUserExist" /\ UNCHANGED setup
      BY <2>5 DEF IsUserExist
    <3>2. CASE loop' = [loop EXCEPT ![l].pc = "insert"] /\ Silent
      BY <3>1, <3>2, GoOnServes
    <3>3. CASE Return(l, PackageResp(loop[l].resp, 409, FALSE, 1))
      BY <3>1, <3>3, <2>s, SendServes DEF Return
    <3> QED
      BY <2>5, <3>2, <3>3 DEF IsUserExist, FindFree
  <2>6. CASE InsertUser(l)
    <3>1. loop[l].pc = "insert" /\ UNCHANGED setup
      BY <2>6 DEF InsertUser
    <3>2. CASE loop' = [loop EXCEPT ![l].pc = "select"] /\ Silent
      BY <3>1, <3>2, GoOnServes
    <3>3. CASE Return(l, BadRequest(loop[l].resp))
      BY <3>1, <3>3, <2>s, SendServes DEF Return
    <3> QED
      BY <2>6, <3>2, <3>3 DEF InsertUser
  <2>7. CASE SelectId(l)
    BY <2>7, <2>s, SendServes DEF SelectId, Tell
  <2>8. CASE QueryUserId(l)
    BY <2>8, <2>s, SendServes DEF QueryUserId, Tell, Return
  <2>9. CASE Fail(l)
    BY <2>9, <2>s, SendServes DEF Fail, Return
  <2>10. CASE CreateTask(l)
    <3>1. loop[l].pc = "speech" /\ UNCHANGED setup
      BY <2>10 DEF CreateTask
    <3>2. \/ \E o : Conclude(l, o)
          \/ loop' = [loop EXCEPT ![l].pc = "poll"] /\ Silent
      BY <2>10 DEF CreateTask
    <3>3. CASE loop' = [loop EXCEPT ![l].pc = "poll"] /\ Silent
      BY <3>1, <3>3, GoOnServes
    <3>4. CASE \E o : Conclude(l, o)
      BY <3>1, <3>4, <2>s, ConcludeServes
    <3> QED
      BY <3>2, <3>3, <3>4
  <2>11. CASE Poll(l)
    BY <2>11, PollServes
  <2> QED
    BY <1>4, <2>1, <2>2, <2>3, <2>4, <2>5, <2>6, <2>7, <2>8, <2>9, <2>10, <2>11 DEF Step
<1> QED
  BY <1>1, <1>2, <1>3, <1>4 DEF Next

(***************************************************************************)
(* In whatever order routes are registered before the first request, each  *)
(* request is served by the route that goes before the others that fit it, *)
(* with the parameters that fill its pattern; with 404 if none fits.       *)
(***************************************************************************)
THEOREM TheRightOneServes == Spec => []ServedByTheRightOne
<1>1. Init => IInv /\ RouteInv
  BY InitHolds, InitServes
<1>2. IInv /\ RouteInv /\ [Next]_vars => (IInv /\ RouteInv)'
  BY NextKeeps, NextServes
<1>3. RouteInv => ServedByTheRightOne
  BY RightIsServed DEF RouteInv
<1> QED
  BY <1>1, <1>2, <1>3, PTL DEF Spec
=============================================================================

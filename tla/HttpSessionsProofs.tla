-------------------------- MODULE HttpSessionsProofs --------------------------
(***************************************************************************)
(* Proofs about HttpSessions, for every number of threads, browsers and    *)
(* users, every session age and every bound.  A browser may have any       *)
(* number of logins and logouts under way.                                 *)
(***************************************************************************)
EXTENDS HttpSessions, TLAPS

Stage == {"idle", "load", "check", "refresh", "save", "userId", "username", "isLoggedIn",
          "clear", "destroy", "answer"}

Request == [pc : Stage, kind : {"page", "login", "logout"}, browser : Browser \cup {NoUser},
            user : User \cup {NoUser}, id : Nat, setCookie : BOOLEAN]

Values == [userId : User \cup {NoUser}, username : User \cup {NoUser}, isLoggedIn : BOOLEAN]

TypeInv ==
  /\ made \in 0..MaxSessions
  /\ data \in [Id -> Values] /\ expiry \in [Id -> Nat]
  /\ cookie \in [Browser -> 0..made]
  /\ request \in [Thread -> Request]
  /\ \A t \in Thread : request[t].id \in 0..made
  /\ now \in Nat /\ loggedOut \subseteq Id

(* Behind getSession a request has a session. *)
Served ==
  \A t \in Thread : request[t].pc \notin {"idle", "load", "check"} => request[t].id # 0

OutInv == \A s \in loggedOut : ~data[s].isLoggedIn

IInv == TypeInv /\ Served /\ OutInv

-----------------------------------------------------------------------------
LEMMA Parameters == MaxAge \in Nat /\ MaxSessions \in Nat /\ NoUser \notin User
BY SessionsAssumption

LEMMA InitHolds ==
  ASSUME Init  PROVE  IInv
<1>1. Empty \in Values /\ Idle \in Request
  BY DEF Empty, Values, Idle, Request, Stage
<1>2. TypeInv
  BY <1>1, Parameters DEF Init, TypeInv, Idle
<1>3. Served /\ OutInv
  BY DEF Init, Served, OutInv, Idle
<1> QED
  BY <1>2, <1>3 DEF IInv

LEMMA AtItsSession ==
  ASSUME IInv, NEW t \in Thread, request[t].pc \notin {"idle", "load", "check"}
  PROVE  request[t].id \in 1..made /\ request[t].id \in Id
BY Parameters DEF IInv, TypeInv, Served, Id

(* Thread t's request becomes r. *)
LEMMA RequestMoves ==
  ASSUME IInv, NEW t \in Thread, NEW r \in Request, request' = [request EXCEPT ![t] = r],
         made' \in Nat, made <= made', r.id \in 0..made',
         r.pc \notin {"idle", "load", "check"} => r.id # 0
  PROVE  /\ request' \in [Thread -> Request] /\ Served'
         /\ \A o \in Thread : request'[o].id \in 0..made'
         /\ \A o \in Thread : request'[o] = IF o = t THEN r ELSE request[o]
<1>1. \A o \in Thread : request'[o] = IF o = t THEN r ELSE request[o]
  BY DEF IInv, TypeInv
<1>2. request' \in [Thread -> Request]
  BY DEF IInv, TypeInv
<1>3. Served'
  BY <1>1 DEF IInv, Served
<1>4. ASSUME NEW o \in Thread PROVE request'[o].id \in 0..made'
  <2>1. request[o].id \in 0..made /\ made \in Nat
    BY Parameters DEF IInv, TypeInv
  <2> QED
    BY <1>1, <2>1
<1> QED
  BY <1>1, <1>2, <1>3, <1>4

(* It goes on to pc at its session. *)
LEMMA GoesOn ==
  ASSUME IInv, NEW t \in Thread, NEW pc \in Stage \ {"idle"}, Goto(t, pc),
         request[t].id # 0, UNCHANGED made
  PROVE  /\ request' \in [Thread -> Request] /\ Served'
         /\ \A o \in Thread : request'[o].id \in 0..made'
         /\ \A o \in Thread \ {t} : request'[o] = request[o]
         /\ request'[t].pc = pc /\ request'[t].id = request[t].id
<1>1. PICK r : r = [request[t] EXCEPT !.pc = pc]
  OBVIOUS
<1>2. request[t] \in Request /\ request[t].id \in 0..made /\ made \in Nat
  BY Parameters DEF IInv, TypeInv
<1>3. r \in Request /\ r.pc = pc /\ r.id = request[t].id
  BY <1>1, <1>2 DEF Request
<1>4. request' = [request EXCEPT ![t] = r]
  BY <1>1 DEF Goto
<1>5. made' \in Nat /\ made <= made' /\ r.id \in 0..made'
  BY <1>2, <1>3
<1>6. r.pc \notin {"idle", "load", "check"} => r.id # 0
  BY <1>3
<1>7. /\ request' \in [Thread -> Request] /\ Served'
      /\ \A o \in Thread : request'[o].id \in 0..made'
      /\ \A o \in Thread : request'[o] = IF o = t THEN r ELSE request[o]
  BY <1>3, <1>4, <1>5, <1>6, RequestMoves
<1> QED
  BY <1>3, <1>7

-----------------------------------------------------------------------------
(* The steps of a request, one by one. *)
LEMMA SendKeeps ==
  ASSUME IInv, NEW t \in Thread, NEW b \in Browser, NEW kind \in {"page", "login", "logout"},
         NEW u \in User \cup {NoUser}, Send(t, b, kind, u)
  PROVE  IInv'
<1> DEFINE r == [pc |-> "load", kind |-> kind, browser |-> b, user |-> u,
                 id |-> cookie[b], setCookie |-> FALSE]
<1>1. /\ request' = [request EXCEPT ![t] = r]
      /\ UNCHANGED <<sessions, made, data, expiry, cookie, now, loggedOut>>
  BY DEF Send
<1>2. cookie[b] \in 0..made /\ made \in Nat
  BY Parameters DEF IInv, TypeInv
<1>3. r \in Request /\ r.pc = "load" /\ r.id \in 0..made
  BY <1>2 DEF Request, Stage
<1> HIDE DEF r
<1>4. made' \in Nat /\ made <= made' /\ r.id \in 0..made'
  BY <1>1, <1>2, <1>3
<1>5. /\ request' \in [Thread -> Request] /\ Served'
      /\ \A o \in Thread : request'[o].id \in 0..made'
  BY <1>1, <1>3, <1>4, RequestMoves
<1> QED
  BY <1>1, <1>5 DEF IInv, TypeInv, OutInv

LEMMA LoadKeeps ==
  ASSUME IInv, NEW t \in Thread, Load(t)
  PROVE  IInv' /\ \A o \in Thread \ {t} : request'[o] = request[o]
<1>1. PICK q, n : /\ q = request[t] /\ n \in {0, q.id}
                  /\ request' = [request EXCEPT ![t].pc = "check", ![t].id = n]
  BY DEF Load
<1>2. UNCHANGED <<made, data, expiry, cookie, now, loggedOut>>
  BY DEF Load
<1>3. PICK p : p = [q EXCEPT !.pc = "check"]
  OBVIOUS
<1>4. PICK r : r = [p EXCEPT !.id = n]
  OBVIOUS
<1>5. q \in Request /\ q.id \in 0..made /\ made \in Nat /\ n \in 0..made /\ n \in Nat
  BY <1>1, Parameters DEF IInv, TypeInv
<1>6. p \in Request /\ p.pc = "check"
  BY <1>3, <1>5 DEF Request, Stage
<1>7. r \in Request /\ r.pc = "check" /\ r.id = n
  BY <1>4, <1>5, <1>6 DEF Request
<1>8. request' = [request EXCEPT ![t] = r]
  BY <1>1, <1>3, <1>4
<1>9. made' \in Nat /\ made <= made' /\ r.id \in 0..made'
  BY <1>2, <1>5, <1>7
<1>10. /\ request' \in [Thread -> Request] /\ Served'
       /\ \A o \in Thread : request'[o].id \in 0..made'
       /\ \A o \in Thread : request'[o] = IF o = t THEN r ELSE request[o]
  BY <1>7, <1>8, <1>9, RequestMoves
<1> QED
  BY <1>2, <1>10 DEF IInv, TypeInv, OutInv

LEMMA CreateKeeps ==
  ASSUME IInv, NEW t \in Thread, Create(t)
  PROVE  IInv' /\ \A o \in Thread \ {t} : request'[o] = request[o]
<1>1. /\ UNCHANGED <<sessions, data, expiry, cookie, now, loggedOut>>
      /\ made < MaxSessions /\ made' = made + 1
      /\ request' = [request EXCEPT ![t].pc = "refresh", ![t].id = made + 1,
                                    ![t].setCookie = TRUE]
  BY DEF Create
<1>2. PICK q, n : q = request[t] /\ n = made + 1
  OBVIOUS
<1>3. PICK r : r = [q EXCEPT !.pc = "refresh", !.id = n, !.setCookie = TRUE]
  OBVIOUS
<1>4. q \in Request /\ made \in Nat /\ n \in Nat /\ n # 0 /\ made' = n /\ MaxSessions \in Nat
  BY <1>1, <1>2, Parameters DEF IInv, TypeInv
<1>5. r \in Request /\ r.pc = "refresh" /\ r.id = n
  BY <1>3, <1>4 DEF Request, Stage
<1>6. request' = [request EXCEPT ![t] = r]
  BY <1>1, <1>2, <1>3
<1>7. made <= made' /\ n \in 0..made' /\ made' \in 0..MaxSessions
  BY <1>1, <1>2, <1>4
<1>8. /\ request' \in [Thread -> Request] /\ Served'
      /\ \A o \in Thread : request'[o].id \in 0..made'
      /\ \A o \in Thread : request'[o] = IF o = t THEN r ELSE request[o]
  BY <1>4, <1>5, <1>6, <1>7, RequestMoves
<1>9. cookie' \in [Browser -> 0..made']
  BY <1>1, <1>4, <1>7 DEF IInv, TypeInv
<1> QED
  BY <1>1, <1>7, <1>8, <1>9 DEF IInv, TypeInv, OutInv

(* Keep, Save, NotLoggedIn, Destroy: only the stage and the storage move.  *)
LEMMA StoringKeeps ==
  ASSUME IInv, NEW t \in Thread, NEW pc \in Stage \ {"idle"}, Goto(t, pc), request[t].id # 0,
         UNCHANGED <<made, data, expiry, cookie, now, loggedOut>>
  PROVE  IInv'
<1>1. /\ request' \in [Thread -> Request] /\ Served'
      /\ \A o \in Thread : request'[o].id \in 0..made'
  BY GoesOn
<1> QED
  BY <1>1 DEF IInv, TypeInv, OutInv

LEMMA RefreshKeeps ==
  ASSUME IInv, NEW t \in Thread, Refresh(t)
  PROVE  IInv'
<1>1. "save" \in Stage \ {"idle"} /\ request[t].id \in Id /\ request[t].id # 0
  BY AtItsSession DEF Refresh, Stage
<1>2. /\ request' \in [Thread -> Request] /\ Served'
      /\ \A o \in Thread : request'[o].id \in 0..made'
  BY <1>1, GoesOn DEF Refresh
<1>3. expiry' \in [Id -> Nat]
  BY <1>1, Parameters DEF Refresh, IInv, TypeInv
<1> QED
  BY <1>2, <1>3 DEF IInv, TypeInv, OutInv, Refresh

LEMMA SetValueKeeps ==
  ASSUME IInv, NEW t \in Thread, NEW key \in DOMAIN Empty, SetValue(t, key)
  PROVE  IInv'
<1>1. PICK s, x : /\ s = request[t].id
                  /\ x = IF key = "isLoggedIn" THEN TRUE ELSE request[t].user
  OBVIOUS
<1>2. key \in {"userId", "username", "isLoggedIn"} /\ request[t].pc = key
  BY DEF Empty, SetValue
<1>3. s \in Id /\ s # 0
  BY <1>1, <1>2, AtItsSession
<1>4. PICK pc \in Stage \ {"idle"} : Goto(t, pc)
  BY <1>2 DEF SetValue, NextKey, Stage
<1>5. UNCHANGED <<made, expiry, cookie, now>> /\ loggedOut' = loggedOut \ {s}
  BY <1>1 DEF SetValue
<1>6. /\ request' \in [Thread -> Request] /\ Served'
      /\ \A o \in Thread : request'[o].id \in 0..made'
  BY <1>1, <1>3, <1>4, <1>5, GoesOn
<1>7. PICK v : v = [data[s] EXCEPT ![key] = x]
  OBVIOUS
<1>8. v \in Values
  <2>1. data[s] \in Values /\ request[t].user \in User \cup {NoUser}
    BY <1>3 DEF IInv, TypeInv, Request
  <2>2. CASE key = "userId"
    BY <1>1, <1>7, <2>1, <2>2 DEF Values
  <2>3. CASE key = "username"
    BY <1>1, <1>7, <2>1, <2>3 DEF Values
  <2>4. CASE key = "isLoggedIn"
    BY <1>1, <1>7, <2>1, <2>4 DEF Values
  <2> QED
    BY <1>2, <2>2, <2>3, <2>4
<1>9. data' = [data EXCEPT ![s] = v]
  BY <1>1, <1>7 DEF SetValue
<1>10. data' \in [Id -> Values] /\ \A i \in Id : i # s => data'[i] = data[i]
  BY <1>3, <1>8, <1>9 DEF IInv, TypeInv
<1>11. OutInv'
  BY <1>5, <1>10 DEF IInv, TypeInv, OutInv
<1> QED
  BY <1>5, <1>6, <1>10, <1>11 DEF IInv, TypeInv

LEMMA ClearKeeps ==
  ASSUME IInv, NEW t \in Thread, Clear(t)
  PROVE  IInv'
<1>1. "destroy" \in Stage \ {"idle"} /\ request[t].id \in Id /\ request[t].id # 0
  BY AtItsSession DEF Clear, Stage
<1>2. /\ request' \in [Thread -> Request] /\ Served'
      /\ \A o \in Thread : request'[o].id \in 0..made'
  BY <1>1, GoesOn DEF Clear
<1>3. Empty \in Values /\ ~Empty.isLoggedIn
  BY DEF Empty, Values
<1>4. /\ data' = [data EXCEPT ![request[t].id] = Empty]
      /\ loggedOut' = loggedOut \cup {request[t].id}
      /\ UNCHANGED <<made, expiry, cookie, now>>
  BY DEF Clear
<1>5. /\ data' \in [Id -> Values]
      /\ \A i \in Id : data'[i] = IF i = request[t].id THEN Empty ELSE data[i]
  BY <1>1, <1>3, <1>4 DEF IInv, TypeInv
<1>6. OutInv'
  BY <1>1, <1>3, <1>4, <1>5 DEF IInv, TypeInv, OutInv
<1> QED
  BY <1>1, <1>2, <1>4, <1>5, <1>6 DEF IInv, TypeInv

LEMMA AnswerKeeps ==
  ASSUME IInv, NEW t \in Thread, Answer(t)
  PROVE  IInv' /\ \A o \in Thread \ {t} : request'[o] = request[o]
<1>1. /\ UNCHANGED <<sessions, made, data, expiry, now, loggedOut>>
      /\ cookie' \in {cookie, [cookie EXCEPT ![request[t].browser] = request[t].id]}
      /\ request' = [request EXCEPT ![t] = Idle]
  BY DEF Answer
<1>2. Idle \in Request /\ Idle.pc = "idle" /\ Idle.id = 0
  BY DEF Idle, Request, Stage
<1>3. made \in Nat /\ request[t].id \in 0..made
  BY Parameters DEF IInv, TypeInv
<1>4. /\ request' \in [Thread -> Request] /\ Served'
      /\ \A o \in Thread : request'[o].id \in 0..made'
      /\ \A o \in Thread : request'[o] = IF o = t THEN Idle ELSE request[o]
  <2>1. made' \in Nat /\ made <= made' /\ Idle.id \in 0..made'
    BY <1>1, <1>2, <1>3
  <2> QED
    BY <1>1, <1>2, <2>1, RequestMoves
<1>5. cookie' \in [Browser -> 0..made]
  BY <1>1, <1>3 DEF IInv, TypeInv
<1> QED
  BY <1>1, <1>4, <1>5 DEF IInv, TypeInv, OutInv

LEMMA TickKeeps ==
  ASSUME IInv, Tick
  PROVE  IInv'
BY DEF Tick, IInv, TypeInv, Served, OutInv

LEMMA NextKeeps ==
  ASSUME IInv, [Next]_vars
  PROVE  IInv'
<1>1. CASE UNCHANGED vars
  BY <1>1 DEF vars, IInv, TypeInv, Served, OutInv
<1>2. ASSUME NEW t \in Thread, NEW b \in Browser, NEW kind \in {"page", "logout"},
             Send(t, b, kind, NoUser)
      PROVE  IInv'
  BY <1>2, SendKeeps
<1>3. ASSUME NEW t \in Thread, NEW b \in Browser, NEW u \in User, Send(t, b, "login", u)
      PROVE  IInv'
  BY <1>3, SendKeeps
<1>4. ASSUME NEW t \in Thread, Load(t)  PROVE IInv'
  BY <1>4, LoadKeeps
<1>5. ASSUME NEW t \in Thread, Create(t)  PROVE IInv'
  BY <1>5, CreateKeeps
<1>6. ASSUME NEW t \in Thread, Keep(t)  PROVE IInv'
  BY <1>6, StoringKeeps DEF Keep, Usable, Stage
<1>7. ASSUME NEW t \in Thread, Refresh(t)  PROVE IInv'
  BY <1>7, RefreshKeeps
<1>8. ASSUME NEW t \in Thread, Save(t)  PROVE IInv'
  <2>1. request[t].id # 0 /\ request[t].kind \in {"page", "login", "logout"}
    BY <1>8 DEF Save, IInv, Served, TypeInv, Request
  <2>2. PICK pc \in Stage \ {"idle"} : Goto(t, pc)
    BY <1>8, <2>1 DEF Save, AfterSave, Stage
  <2> QED
    BY <1>8, <2>1, <2>2, StoringKeeps DEF Save
<1>9. ASSUME NEW t \in Thread, NEW key \in DOMAIN Empty, SetValue(t, key)  PROVE IInv'
  BY <1>9, SetValueKeeps
<1>10. ASSUME NEW t \in Thread, NotLoggedIn(t)  PROVE IInv'
  <2>1. request[t].id # 0
    BY <1>10 DEF NotLoggedIn, IInv, Served
  <2> QED
    BY <1>10, <2>1, StoringKeeps DEF NotLoggedIn, Stage
<1>11. ASSUME NEW t \in Thread, Clear(t)  PROVE IInv'
  BY <1>11, ClearKeeps
<1>12. ASSUME NEW t \in Thread, Destroy(t)  PROVE IInv'
  <2>1. request[t].id # 0
    BY <1>12 DEF Destroy, IInv, Served
  <2> QED
    BY <1>12, <2>1, StoringKeeps DEF Destroy, Stage
<1>13. ASSUME NEW t \in Thread, Answer(t)  PROVE IInv'
  BY <1>13, AnswerKeeps
<1>14. CASE Tick
  BY <1>14, TickKeeps
<1> QED
  BY <1>1, <1>2, <1>3, <1>4, <1>5, <1>6, <1>7, <1>8, <1>9, <1>10, <1>11, <1>12, <1>13, <1>14
  DEF Next

LEMMA Inductive == Spec => []IInv
<1>1. Init => IInv
  BY InitHolds
<1>2. IInv /\ [Next]_vars => IInv'
  BY NextKeeps
<1> QED
  BY <1>1, <1>2, PTL DEF Spec

-----------------------------------------------------------------------------
(***************************************************************************)
(* A request that is older than a logout and saves the session after it    *)
(* (SessionManager.cpp:41) does not bring the login back, from whichever   *)
(* tab it comes.                                                           *)
(***************************************************************************)
THEOREM LogoutIsFinal == Spec => []LoggedOutStaysOut
<1>1. IInv => LoggedOutStaysOut
  BY DEF IInv, OutInv, LoggedOutStaysOut
<1> QED
  BY <1>1, Inductive, PTL

(* A step of t that leaves the values and the end of session s alone,      *)
(* takes it out of no storage, and is not t's save of it.                  *)
LEMMA LostBefore ==
  ASSUME NEW t \in Thread, NEW s, Lost(s)', UNCHANGED now, data'[s] = data[s],
         expiry'[s] = expiry[s], s \in sessions => s \in sessions',
         \A o \in Thread \ {t} : request'[o] = request[o],
         request[t].pc = "save" => request[t].id # s
  PROVE  Lost(s)
BY DEF Lost, Expired

(***************************************************************************)
(* A logged-in session in use is in the storage or about to be saved,      *)
(* whichever request took it out (SessionStorage.cpp, load of an expired   *)
(* session), until a logout destroys it.                                   *)
(***************************************************************************)
THEOREM LiveSessionsKept == Spec => LiveIsKept
<1> DEFINE Destroyed(s) == \E t \in Thread : request[t].id = s /\ Destroy(t)
           Keeps == \A s \in 1..made : Lost(s)' => Lost(s) \/ Destroyed(s)
<1>1. IInv /\ [Next]_vars => [Keeps]_vars
  <2> SUFFICES ASSUME IInv, Next, NEW s \in 1..made, Lost(s)'
               PROVE  Lost(s) \/ Destroyed(s)
    OBVIOUS
  <2>1. s \in Id /\ data \in [Id -> Values] /\ expiry \in [Id -> Nat] /\ now \in Nat
    BY Parameters DEF IInv, TypeInv, Id
  <2>2. /\ ~Expired(s)' /\ s \notin sessions' /\ data'[s].isLoggedIn
        /\ \A t \in Thread : request'[t].pc = "save" => request'[t].id # s
    BY DEF Lost
  <2>3. ASSUME NEW t \in Thread, NEW b \in Browser, NEW kind, NEW u, Send(t, b, kind, u)
        PROVE  Lost(s)
    <3>1. \A o \in Thread \ {t} : request'[o] = request[o]
      BY <2>3 DEF Send, IInv, TypeInv
    <3> QED
      BY <2>3, <3>1, LostBefore DEF Send
  <2>4. ASSUME NEW t \in Thread, Load(t)  PROVE Lost(s)
    <3>1. UNCHANGED <<data, expiry, now>> /\ request[t].pc = "load" /\ ~Expired(s)
      BY <2>2, <2>4 DEF Load, Expired
    <3>2. s \in sessions => s \in sessions'
      BY <2>4, <3>1 DEF Load
    <3> QED
      BY <2>4, <3>1, <3>2, LoadKeeps, LostBefore
  <2>5. ASSUME NEW t \in Thread, Create(t)  PROVE Lost(s)
    BY <2>5, CreateKeeps, LostBefore DEF Create
  <2>6. ASSUME NEW t \in Thread, Keep(t)  PROVE Lost(s)
    <3>1. \A o \in Thread \ {t} : request'[o] = request[o]
      BY <2>6 DEF Keep, Goto, IInv, TypeInv
    <3> QED
      BY <2>6, <3>1, LostBefore DEF Keep
  <2>7. ASSUME NEW t \in Thread, Refresh(t)  PROVE Lost(s)
    <3>1. "save" \in Stage \ {"idle"} /\ request[t].id # 0
      BY <2>7, AtItsSession DEF Refresh, Stage
    <3>2. /\ \A o \in Thread \ {t} : request'[o] = request[o]
          /\ request'[t].pc = "save" /\ request'[t].id = request[t].id
      BY <2>7, <3>1, GoesOn DEF Refresh
    <3>3. request[t].id # s
      BY <2>2, <3>2
    <3> QED
      BY <2>1, <2>7, <3>2, <3>3, LostBefore DEF Refresh
  <2>8. ASSUME NEW t \in Thread, Save(t)  PROVE Lost(s)
    <3>1. \A o \in Thread \ {t} : request'[o] = request[o]
      BY <2>8 DEF Save, Goto, IInv, TypeInv
    <3>2. sessions' = sessions \cup {request[t].id}
      BY <2>8 DEF Save, Store
    <3> QED
      BY <2>2, <2>8, <3>1, <3>2, LostBefore DEF Save
  <2>9. ASSUME NEW t \in Thread, NEW key \in DOMAIN Empty, SetValue(t, key)  PROVE Lost(s)
    <3>1. \A o \in Thread \ {t} : request'[o] = request[o]
      BY <2>9 DEF SetValue, Goto, IInv, TypeInv
    <3>2. sessions' = sessions \cup {request[t].id} /\ request[t].pc \in DOMAIN Empty
      BY <2>9 DEF SetValue, Store
    <3>3. request[t].id # s /\ request[t].pc # "save"
      BY <2>2, <3>2 DEF Empty
    <3>4. data'[s] = data[s]
      BY <2>1, <2>9, <3>3 DEF SetValue
    <3> QED
      BY <2>9, <3>1, <3>2, <3>3, <3>4, LostBefore DEF SetValue
  <2>10. ASSUME NEW t \in Thread, NotLoggedIn(t)  PROVE Lost(s)
    <3>1. \A o \in Thread \ {t} : request'[o] = request[o]
      BY <2>10 DEF NotLoggedIn, Goto, IInv, TypeInv
    <3> QED
      BY <2>10, <3>1, LostBefore DEF NotLoggedIn
  <2>11. ASSUME NEW t \in Thread, Clear(t)  PROVE Lost(s)
    <3>1. \A o \in Thread \ {t} : request'[o] = request[o]
      BY <2>11 DEF Clear, Goto, IInv, TypeInv
    <3>2. request[t].id # s
      BY <2>1, <2>2, <2>11 DEF Clear, Empty
    <3>3. data'[s] = data[s]
      BY <2>1, <2>11, <3>2 DEF Clear
    <3> QED
      BY <2>11, <3>1, <3>3, LostBefore DEF Clear
  <2>12. ASSUME NEW t \in Thread, Destroy(t)  PROVE Lost(s) \/ Destroyed(s)
    <3>1. CASE request[t].id = s
      BY <2>12, <3>1
    <3>2. CASE request[t].id # s
      <4>1. \A o \in Thread \ {t} : request'[o] = request[o]
        BY <2>12 DEF Destroy, Goto, IInv, TypeInv
      <4> QED
        BY <2>12, <3>2, <4>1, LostBefore DEF Destroy
    <3> QED
      BY <3>1, <3>2
  <2>13. ASSUME NEW t \in Thread, Answer(t)  PROVE Lost(s)
    BY <2>13, AnswerKeeps, LostBefore DEF Answer
  <2>14. CASE Tick
    <3>1. ~Expired(s)
      BY <2>1, <2>2, <2>14 DEF Tick, Expired
    <3> QED
      BY <2>2, <2>14, <3>1 DEF Tick, Lost
  <2> HIDE DEF Destroyed
  <2> QED
    BY <2>3, <2>4, <2>5, <2>6, <2>7, <2>8, <2>9, <2>10, <2>11, <2>12, <2>13, <2>14 DEF Next
<1> QED
  BY <1>1, Inductive, PTL DEF Spec, LiveIsKept

-----------------------------------------------------------------------------
(* A login has somebody to log in, and only logins set values; *)
Logins ==
  \A t \in Thread :
    /\ request[t].kind = "login" => request[t].user # NoUser
    /\ request[t].pc = "userId" => request[t].kind = "login"

(* one that has set its first value finds it, or its session is torn; *)
MidLogin ==
  \A t \in Thread : request[t].pc \in {"username", "isLoggedIn"} =>
    data[request[t].id].userId # NoUser \/ request[t].id \in torn

(* and so does whoever finds the flag. *)
FlagInv == \A s \in Id : data[s].isLoggedIn => data[s].userId # NoUser \/ s \in torn

FInv == Logins /\ MidLogin /\ FlagInv

LEMMA FlagInit ==
  ASSUME Init  PROVE  FInv
BY DEF Init, FInv, Logins, MidLogin, FlagInv, Idle, Empty

(* Thread t's request becomes r, which is not between the values of a      *)
(* login, and the values stay.                                             *)
LEMMA ValuesStay ==
  ASSUME IInv, FInv, NEW t \in Thread, NEW r, request' = [request EXCEPT ![t] = r],
         r.pc \notin {"username", "isLoggedIn"}, r.pc = "userId" => r.kind = "login",
         r.kind = "login" => r.user # NoUser, UNCHANGED <<data, torn>>
  PROVE  FInv'
<1>1. \A o \in Thread : request'[o] = IF o = t THEN r ELSE request[o]
  BY DEF IInv, TypeInv
<1>2. Logins'
  BY <1>1 DEF FInv, Logins
<1>3. MidLogin'
  BY <1>1 DEF FInv, MidLogin
<1>4. FlagInv'
  BY DEF FInv, FlagInv
<1> QED
  BY <1>2, <1>3, <1>4 DEF FInv

(* It goes on to pc. *)
LEMMA StageStays ==
  ASSUME IInv, FInv, NEW t \in Thread, NEW pc, Goto(t, pc),
         pc \notin {"username", "isLoggedIn"}, pc = "userId" => request[t].kind = "login",
         UNCHANGED <<data, torn>>
  PROVE  FInv'
<1>1. PICK r : r = [request[t] EXCEPT !.pc = pc]
  OBVIOUS
<1>2. request' = [request EXCEPT ![t] = r]
  BY <1>1 DEF Goto
<1>3. request[t] \in Request /\ (request[t].kind = "login" => request[t].user # NoUser)
  BY DEF IInv, TypeInv, FInv, Logins
<1>4. r.pc = pc /\ r.kind = request[t].kind /\ r.user = request[t].user
  BY <1>1, <1>3 DEF Request
<1> QED
  BY <1>2, <1>3, <1>4, ValuesStay

LEMMA SetValueFlags ==
  ASSUME IInv, FInv, NEW t \in Thread, NEW key \in DOMAIN Empty, SetValue(t, key)
  PROVE  FInv'
<1>1. PICK s, x : /\ s = request[t].id
                  /\ x = IF key = "isLoggedIn" THEN TRUE ELSE request[t].user
  OBVIOUS
<1>2. key \in {"userId", "username", "isLoggedIn"} /\ request[t].pc = key
  BY DEF Empty, SetValue
<1>3. s \in Id /\ data[s] \in Values /\ request[t] \in Request
  BY <1>1, <1>2, AtItsSession DEF IInv, TypeInv
<1>4. PICK v : v = [data[s] EXCEPT ![key] = x]
  OBVIOUS
<1>5. \A i \in Id : data'[i] = IF i = s THEN v ELSE data[i]
  BY <1>1, <1>3, <1>4 DEF SetValue, IInv, TypeInv
<1>6. PICK pc : pc = NextKey[key]
  OBVIOUS
<1>7. PICK r : r = [request[t] EXCEPT !.pc = pc]
  OBVIOUS
<1>8. r.pc = pc /\ r.id = s /\ r.kind = request[t].kind /\ r.user = request[t].user
  BY <1>1, <1>3, <1>7 DEF Request
<1>9. \A o \in Thread : request'[o] = IF o = t THEN r ELSE request[o]
  BY <1>6, <1>7 DEF SetValue, Goto, IInv, TypeInv
<1>10. \A o \in Thread : request[o].pc \in {"username", "isLoggedIn"} => request[o].id \in Id
  BY AtItsSession
<1>11. pc # "userId"
  BY <1>2, <1>6 DEF NextKey
<1>12. Logins'
  BY <1>8, <1>9, <1>11 DEF FInv, Logins
<1>13. CASE key = "userId"
  <2>1. v.userId = request[t].user /\ v.userId # NoUser
    BY <1>1, <1>2, <1>3, <1>4, <1>13 DEF FInv, Logins, Values
  <2>2. torn' = torn \ {s}
    BY <1>1, <1>13 DEF SetValue
  <2>3. MidLogin'
    BY <1>3, <1>5, <1>8, <1>9, <1>10, <2>1, <2>2 DEF FInv, MidLogin
  <2>4. FlagInv'
    BY <1>5, <2>1, <2>2 DEF FInv, FlagInv
  <2> QED
    BY <1>12, <2>3, <2>4 DEF FInv
<1>14. CASE key \in {"username", "isLoggedIn"}
  <2>1. v.userId = data[s].userId
    BY <1>3, <1>4, <1>14 DEF Values
  <2>2. torn' = torn
    BY <1>14 DEF SetValue
  <2>3. data[s].userId # NoUser \/ s \in torn
    BY <1>1, <1>2, <1>14 DEF FInv, MidLogin
  <2>4. MidLogin'
    BY <1>3, <1>5, <1>8, <1>9, <1>10, <2>1, <2>2, <2>3 DEF FInv, MidLogin
  <2>5. FlagInv'
    BY <1>5, <2>1, <2>2, <2>3 DEF FInv, FlagInv
  <2> QED
    BY <1>12, <2>4, <2>5 DEF FInv
<1> QED
  BY <1>2, <1>13, <1>14

LEMMA ClearFlags ==
  ASSUME IInv, FInv, NEW t \in Thread, Clear(t)
  PROVE  FInv'
<1>1. PICK s : s = request[t].id
  OBVIOUS
<1>2. s \in Id /\ request[t] \in Request
  BY <1>1, AtItsSession DEF Clear, IInv, TypeInv
<1>3. \A i \in Id : data'[i] = IF i = s THEN Empty ELSE data[i]
  BY <1>1, <1>2 DEF Clear, IInv, TypeInv
<1>4. PICK r : r = [request[t] EXCEPT !.pc = "destroy"]
  OBVIOUS
<1>5. r.pc = "destroy" /\ r.kind = request[t].kind /\ r.user = request[t].user
  BY <1>2, <1>4 DEF Request
<1>6. \A o \in Thread : request'[o] = IF o = t THEN r ELSE request[o]
  BY <1>4 DEF Clear, Goto, IInv, TypeInv
<1>7. torn' = IF Midway(s) THEN torn \cup {s} ELSE torn
  BY <1>1 DEF Clear
<1>8. Logins'
  BY <1>5, <1>6 DEF FInv, Logins
<1>9. MidLogin'
  <2> SUFFICES ASSUME NEW o \in Thread, request'[o].pc \in {"username", "isLoggedIn"}
               PROVE  data'[request'[o].id].userId # NoUser \/ request'[o].id \in torn'
    BY DEF MidLogin
  <2>1. request'[o] = request[o] /\ request[o].id \in Id
    BY <1>5, <1>6, AtItsSession
  <2>2. CASE request[o].id = s
    BY <1>7, <2>1, <2>2 DEF Midway
  <2>3. CASE request[o].id # s
    BY <1>3, <1>7, <2>1, <2>3 DEF FInv, MidLogin
  <2> QED
    BY <2>2, <2>3
<1>10. FlagInv'
  BY <1>3, <1>7 DEF FInv, FlagInv, Empty
<1> QED
  BY <1>8, <1>9, <1>10 DEF FInv

LEMMA FlagKeeps ==
  ASSUME IInv, FInv, [Next]_vars
  PROVE  FInv'
<1>1. CASE UNCHANGED vars
  BY <1>1 DEF vars, FInv, Logins, MidLogin, FlagInv
<1>2. ASSUME NEW t \in Thread, NEW b \in Browser, NEW kind \in {"page", "logout"},
             Send(t, b, kind, NoUser)
      PROVE  FInv'
  BY <1>2, ValuesStay DEF Send
<1>3. ASSUME NEW t \in Thread, NEW b \in Browser, NEW u \in User, Send(t, b, "login", u)
      PROVE  FInv'
  BY <1>3, Parameters, ValuesStay DEF Send
<1>4. ASSUME NEW t \in Thread, Load(t)  PROVE FInv'
  <2>1. PICK n : request' = [request EXCEPT ![t].pc = "check", ![t].id = n]
    BY <1>4 DEF Load
  <2>2. PICK r : r = [request[t] EXCEPT !.pc = "check", !.id = n]
    OBVIOUS
  <2>3. request[t] \in Request /\ (request[t].kind = "login" => request[t].user # NoUser)
    BY DEF IInv, TypeInv, FInv, Logins
  <2>4. r.pc = "check" /\ r.kind = request[t].kind /\ r.user = request[t].user
    BY <2>2, <2>3 DEF Request
  <2>5. request' = [request EXCEPT ![t] = r]
    BY <2>1, <2>2
  <2> QED
    BY <1>4, <2>3, <2>4, <2>5, ValuesStay DEF Load
<1>5. ASSUME NEW t \in Thread, Create(t)  PROVE FInv'
  <2>1. PICK r : r = [request[t] EXCEPT !.pc = "refresh", !.id = made + 1, !.setCookie = TRUE]
    OBVIOUS
  <2>2. request[t] \in Request /\ (request[t].kind = "login" => request[t].user # NoUser)
    BY DEF IInv, TypeInv, FInv, Logins
  <2>3. r.pc = "refresh" /\ r.kind = request[t].kind /\ r.user = request[t].user
    BY <2>1, <2>2 DEF Request
  <2>4. request' = [request EXCEPT ![t] = r]
    BY <1>5, <2>1 DEF Create
  <2> QED
    BY <1>5, <2>2, <2>3, <2>4, ValuesStay DEF Create
<1>6. ASSUME NEW t \in Thread, Keep(t)  PROVE FInv'
  BY <1>6, StageStays DEF Keep
<1>7. ASSUME NEW t \in Thread, Refresh(t)  PROVE FInv'
  BY <1>7, StageStays DEF Refresh
<1>8. ASSUME NEW t \in Thread, Save(t)  PROVE FInv'
  <2>1. request[t].kind \in {"page", "login", "logout"}
    BY DEF IInv, TypeInv, Request
  <2>2. PICK pc : pc = AfterSave(t)
    OBVIOUS
  <2>3. /\ pc \notin {"username", "isLoggedIn"}
        /\ pc = "userId" => request[t].kind = "login"
    BY <2>1, <2>2 DEF AfterSave
  <2> QED
    BY <1>8, <2>2, <2>3, StageStays DEF Save
<1>9. ASSUME NEW t \in Thread, NEW key \in DOMAIN Empty, SetValue(t, key)  PROVE FInv'
  BY <1>9, SetValueFlags
<1>10. ASSUME NEW t \in Thread, NotLoggedIn(t)  PROVE FInv'
  BY <1>10, StageStays DEF NotLoggedIn
<1>11. ASSUME NEW t \in Thread, Clear(t)  PROVE FInv'
  BY <1>11, ClearFlags
<1>12. ASSUME NEW t \in Thread, Destroy(t)  PROVE FInv'
  BY <1>12, StageStays DEF Destroy
<1>13. ASSUME NEW t \in Thread, Answer(t)  PROVE FInv'
  <2>1. Idle.pc = "idle" /\ Idle.kind = "page"
    BY DEF Idle
  <2> QED
    BY <1>13, <2>1, ValuesStay DEF Answer
<1>14. CASE Tick
  BY <1>14 DEF Tick, FInv, Logins, MidLogin, FlagInv
<1> QED
  BY <1>1, <1>2, <1>3, <1>4, <1>5, <1>6, <1>7, <1>8, <1>9, <1>10, <1>11, <1>12, <1>13, <1>14
  DEF Next

(***************************************************************************)
(* Whatever logins and logouts overlap on a session: whoever finds the     *)
(* flag finds a userId (ChatLoginHandler.cpp:32-34), unless a logout       *)
(* cleared the session between the values that a login set.                *)
(***************************************************************************)
THEOREM FlagIsSafe == Spec => []FlagMeansUser
<1>1. Init => FInv
  BY FlagInit
<1>2. IInv /\ FInv /\ [Next]_vars => FInv'
  BY FlagKeeps
<1>3. IInv /\ FInv => FlagMeansUser
  BY Parameters DEF IInv, TypeInv, Id, FInv, FlagInv, FlagMeansUser
<1> QED
  BY <1>1, <1>2, <1>3, Inductive, PTL DEF Spec
=============================================================================

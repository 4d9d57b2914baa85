----------------------------- MODULE HttpSessions -----------------------------
(***************************************************************************)
(* The sessions behind the cookie: SessionManager over MemorySessionStorage*)
(* with the requests that overlap on one cookie: pages, login, logout.     *)
(* Only the storage has a mutex: getSession loads, checks, refreshes and   *)
(* saves in steps of its own, and the values of a session are set one by   *)
(* one.  (The unordered_map inside a session has no lock either; what a    *)
(* torn access of it would do is left out.)                                *)
(*                                                                         *)
(* A session object is made once for its id and never copied, so an object *)
(* is named by its id.  Ids are random and 128 bits long: they are taken   *)
(* as new.  What the database says of a password is the environment's.     *)
(***************************************************************************)
EXTENDS Naturals, FiniteSets

CONSTANTS Thread, Browser, User,
          MaxAge,       \* maxAge_
          MaxSessions,  \* bound on the sessions ever made
          MaxNow        \* bound on the clock

NoUser == "none"

ASSUME SessionsAssumption ==
  /\ IsFiniteSet(Thread) /\ NoUser \notin User
  /\ {MaxAge, MaxSessions, MaxNow} \subseteq Nat

VARIABLES sessions,  \* MemorySessionStorage::sessions_
          made,      \* how many sessions were made; the latest one's id
          data,      \* data_ of each session
          expiry,    \* expiryTime_ of each session
          cookie,    \* the id each browser has; 0: none
          request,   \* the request each thread is in
          now,
          loggedOut, \* observer: sessions cleared by a logout since a login
          torn       \* observer: sessions cleared in the middle of a login

vars == <<sessions, made, data, expiry, cookie, request, now, loggedOut, torn>>

Id == 1..MaxSessions

Empty == [userId |-> NoUser, username |-> NoUser, isLoggedIn |-> FALSE]

Idle == [pc |-> "idle", kind |-> "page", browser |-> NoUser, user |-> NoUser,
         id |-> 0, setCookie |-> FALSE]

Init ==
  /\ sessions = {} /\ made = 0
  /\ data = [s \in Id |-> Empty] /\ expiry = [s \in Id |-> 0]
  /\ cookie = [b \in Browser |-> 0]
  /\ request = [t \in Thread |-> Idle]
  /\ now = 0 /\ loggedOut = {} /\ torn = {}

Expired(s) == now > expiry[s]

Usable(s) == s # 0 /\ ~Expired(s)

Goto(t, pc) == request' = [request EXCEPT ![t].pc = pc]

-----------------------------------------------------------------------------
(* A browser sends a request with the cookie it has, from any of its tabs. *)
Send(t, b, kind, u) ==
  /\ request[t].pc = "idle"
  /\ request' = [request EXCEPT ![t] =
                   [pc |-> "load", kind |-> kind, browser |-> b, user |-> u,
                    id |-> cookie[b], setCookie |-> FALSE]]
  /\ UNCHANGED <<sessions, made, data, expiry, cookie, now, loggedOut, torn>>

(* getSession, storage_->load(): an expired session is taken out. *)
Load(t) ==
  LET s == request[t].id
      found == s \in sessions /\ ~Expired(s)
  IN  /\ request[t].pc = "load"
      /\ sessions' = IF found THEN sessions ELSE sessions \ {s}
      /\ request' = [request EXCEPT ![t].pc = "check", ![t].id = IF found THEN s ELSE 0]
      /\ UNCHANGED <<made, data, expiry, cookie, now, loggedOut, torn>>

(* getSession: a session that is missing, or has expired meanwhile, is     *)
(* replaced by a new one (the refresh of its constructor is overtaken by   *)
(* getSession's before anybody has the id); *)
Create(t) ==
  /\ request[t].pc = "check"
  /\ ~Usable(request[t].id)
  /\ made < MaxSessions /\ made' = made + 1
  /\ request' = [request EXCEPT ![t].pc = "refresh", ![t].id = made + 1,
                                ![t].setCookie = TRUE]
  /\ UNCHANGED <<sessions, data, expiry, cookie, now, loggedOut, torn>>

(* one that is there is kept; *)
Keep(t) ==
  /\ request[t].pc = "check" /\ Usable(request[t].id)
  /\ Goto(t, "refresh")
  /\ UNCHANGED <<sessions, made, data, expiry, cookie, now, loggedOut, torn>>

(* either is refreshed, *)
Refresh(t) ==
  /\ request[t].pc = "refresh"
  /\ expiry' = [expiry EXCEPT ![request[t].id] = now + MaxAge]
  /\ Goto(t, "save")
  /\ UNCHANGED <<sessions, made, data, cookie, now, loggedOut, torn>>

(* and saved. *)
Store(s) == sessions' = sessions \cup {s}

AfterSave(t) ==
  CASE request[t].kind = "page"   -> "answer"
    [] request[t].kind = "login"  -> "userId"
    [] request[t].kind = "logout" -> "clear"

(* Variant of Save: getSession leaves saving to setValue. *)
NoSave(t) ==
  /\ request[t].pc = "save"
  /\ sessions' = IF request[t].setCookie THEN sessions \cup {request[t].id} ELSE sessions
  /\ Goto(t, AfterSave(t))
  /\ UNCHANGED <<made, data, expiry, cookie, now, loggedOut, torn>>

Save(t) ==
  /\ request[t].pc = "save"
  /\ Store(request[t].id)
  /\ Goto(t, AfterSave(t))
  /\ UNCHANGED <<made, data, expiry, cookie, now, loggedOut, torn>>

-----------------------------------------------------------------------------
(* ChatLoginHandler sets three values in this order. *)
NextKey == [userId |-> "username", username |-> "isLoggedIn", isLoggedIn |-> "answer"]

(* Variant of SetValue: the flag is set first and the id last. *)
SetFlagFirst(t, key) ==
  LET s == request[t].id
      set == CASE key = "userId"     -> "isLoggedIn"
               [] key = "username"   -> "username"
               [] key = "isLoggedIn" -> "userId"
  IN  /\ request[t].pc = key
      /\ data' = [data EXCEPT ![s][set] = IF set = "isLoggedIn" THEN TRUE
                                                                 ELSE request[t].user]
      /\ Store(s)
      /\ loggedOut' = loggedOut \ {s}
      /\ torn' = IF set = "userId" THEN torn \ {s} ELSE torn
      /\ Goto(t, NextKey[key])
      /\ UNCHANGED <<made, expiry, cookie, now>>

(* setValue: the value, and a save. *)
SetValue(t, key) ==
  LET s == request[t].id
  IN  /\ request[t].pc = key
      /\ data' = [data EXCEPT ![s][key] = IF key = "isLoggedIn" THEN TRUE
                                                                 ELSE request[t].user]
      /\ Store(s)
      /\ loggedOut' = loggedOut \ {s}
      /\ torn' = IF key = "userId" THEN torn \ {s} ELSE torn
      /\ Goto(t, NextKey[key])
      /\ UNCHANGED <<made, expiry, cookie, now>>

(* ChatLogoutHandler: without a userId stoi throws, and the answer is 400; *)
NotLoggedIn(t) ==
  /\ request[t].pc = "clear" /\ data[request[t].id].userId = NoUser
  /\ Goto(t, "answer")
  /\ UNCHANGED <<sessions, made, data, expiry, cookie, now, loggedOut, torn>>

(* A login of session s has set its first value and not its last. *)
Midway(s) == \E t \in Thread : request[t].id = s /\ request[t].pc \in {"username", "isLoggedIn"}

(* Variant of Clear: the session is destroyed, its values stay. *)
ClearNothing(t) ==
  /\ request[t].pc = "clear" /\ data[request[t].id].userId # NoUser
  /\ loggedOut' = loggedOut \cup {request[t].id}
  /\ Goto(t, "destroy")
  /\ UNCHANGED <<sessions, made, data, expiry, cookie, now, torn>>

(* else the session is cleared *)
Clear(t) ==
  /\ request[t].pc = "clear" /\ data[request[t].id].userId # NoUser
  /\ data' = [data EXCEPT ![request[t].id] = Empty]
  /\ loggedOut' = loggedOut \cup {request[t].id}
  /\ torn' = IF Midway(request[t].id) THEN torn \cup {request[t].id} ELSE torn
  /\ Goto(t, "destroy")
  /\ UNCHANGED <<sessions, made, expiry, cookie, now>>

(* and taken out of the storage. *)
Destroy(t) ==
  /\ request[t].pc = "destroy"
  /\ sessions' = sessions \ {request[t].id}
  /\ Goto(t, "answer")
  /\ UNCHANGED <<made, data, expiry, cookie, now, loggedOut, torn>>

(* The answer reaches the browser, with Set-Cookie if the session is new. *)
Answer(t) ==
  LET r == request[t]
  IN  /\ r.pc = "answer"
      /\ cookie' = IF r.setCookie THEN [cookie EXCEPT ![r.browser] = r.id] ELSE cookie
      /\ request' = [request EXCEPT ![t] = Idle]
      /\ UNCHANGED <<sessions, made, data, expiry, now, loggedOut, torn>>

Tick ==
  /\ now < MaxNow /\ now' = now + 1
  /\ UNCHANGED <<sessions, made, data, expiry, cookie, request, loggedOut, torn>>

Next ==
  \/ \E t \in Thread :
       \/ \E b \in Browser : \/ \E kind \in {"page", "logout"} : Send(t, b, kind, NoUser)
                             \/ \E u \in User : Send(t, b, "login", u)
       \/ Load(t) \/ Create(t) \/ Keep(t) \/ Refresh(t) \/ Save(t)
       \/ \E key \in DOMAIN Empty : SetValue(t, key)
       \/ NotLoggedIn(t) \/ Clear(t) \/ Destroy(t) \/ Answer(t)
  \/ Tick

Spec == Init /\ [][Next]_vars

-----------------------------------------------------------------------------
(***************************************************************************)
(* A request that loaded the session before a logout may save it again     *)
(* after it: what the cookie then finds must not be logged in, until a     *)
(* login says so.                                                          *)
(***************************************************************************)
LoggedOutStaysOut == \A s \in loggedOut \cap sessions : ~data[s].isLoggedIn

(***************************************************************************)
(* A logged-in session that is not over and yet not in the storage, nor    *)
(* about to be saved.                                                      *)
(***************************************************************************)
Lost(s) ==
  /\ data[s].isLoggedIn /\ ~Expired(s) /\ s \notin sessions
  /\ ~\E t \in Thread : request[t].pc = "save" /\ request[t].id = s

(***************************************************************************)
(* A logged-in session in use is lost to a logout of its browser only      *)
(* (which may overlap with the login of another tab), never to a request   *)
(* that came too late and takes it out while an earlier one refreshes it.  *)
(***************************************************************************)
LiveIsKept ==
  [][\A s \in 1..made : Lost(s)' =>
       Lost(s) \/ \E t \in Thread : request[t].id = s /\ Destroy(t)]_vars

(***************************************************************************)
(* Every handler takes isLoggedIn as leave to read userId (stoi throws on  *)
(* nothing).  Logins and logouts of any tabs may overlap, and still the    *)
(* flag means that the id is there, unless a logout cleared the session    *)
(* between the values that a login set; and then only until the next       *)
(* login.                                                                  *)
(***************************************************************************)
FlagMeansUser ==
  \A s \in 1..made : data[s].isLoggedIn => data[s].userId # NoUser \/ s \in torn
=============================================================================

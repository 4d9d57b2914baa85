--------------------------- MODULE DbConnectionPool ---------------------------
(***************************************************************************)
(* The pool of MySQL connections: business threads take the connection     *)
(* that came back last and wait on a condition variable when there is      *)
(* none; a check thread takes cold connections out at the other end, one   *)
(* at a time, and pings them without the mutex.  Every section under the   *)
(* mutex is one action, and so is the pinging, which nobody else sees.     *)
(*                                                                         *)
(* A connection that is closed and made anew keeps its number.  Time runs  *)
(* in units of the 60 seconds that the check thread sleeps.                *)
(***************************************************************************)
EXTENDS Integers, FiniteSets, Sequences, SequencesExt

CONSTANTS Thread,
          poolSize,
          idleThreshold,        \* a connection idle for less is not cold
          healthCheckInterval,  \* a connection is not checked sooner again
          maxCheckPerRound,
          MaxTime,              \* bound on the clock
          MaxLost               \* bound on connections that cannot be replaced

ASSUME PoolAssumption ==
  /\ IsFiniteSet(Thread)
  /\ {poolSize, maxCheckPerRound} \subseteq Nat \ {0}
  /\ {idleThreshold, healthCheckInterval, MaxTime, MaxLost} \subseteq Nat

VARIABLES connections,  \* the deque: what is in the pool, the coldest first
          user,         \* what each business thread does, and with which one
          notified,     \* waiting threads that a notify_one has woken
          checker,      \* where the check thread is in its round
          now,
          lost          \* connections that are gone for good

vars == <<connections, user, notified, checker, now, lost>>

Conn == 1..poolSize
None == 0

Entry(c, returned, checked) ==
  [conn |-> c, lastReturned |-> returned, lastChecked |-> checked]

Asleep == [pc |-> "sleep", i |-> 0, checked |-> 0, since |-> now, entry |-> <<>>]

(* init(): the pool is filled before any thread uses it. *)
Init ==
  /\ now = 0
  /\ connections = [c \in Conn |-> Entry(c, 0, 0)]
  /\ user = [t \in Thread |-> [pc |-> "idle", conn |-> None]]
  /\ notified = {} /\ lost = {}
  /\ checker = Asleep

Waiting == {t \in Thread : user[t].pc = "wait"}

(* notify_one wakes some waiting thread, if one is not awake yet. *)
NotifyOne ==
  IF Waiting \subseteq notified
  THEN notified' = notified
  ELSE \E t \in Waiting \ notified : notified' = notified \cup {t}

-----------------------------------------------------------------------------
(* Thread t takes the last connection. *)
TakeLast(t) ==
  /\ connections # <<>>
  /\ user' = [user EXCEPT ![t] = [pc |-> "ping", conn |-> Last(connections).conn]]
  /\ connections' = Front(connections)

(* getConnection(), when it is called, *)
Ask(t) ==
  /\ user[t].pc = "idle"
  /\ IF connections # <<>>
     THEN TakeLast(t)
     ELSE /\ user' = [user EXCEPT ![t].pc = "wait"]
          /\ UNCHANGED connections
  /\ UNCHANGED <<notified, checker, now, lost>>

(* when it is notified, *)
Wake(t) ==
  /\ t \in notified
  /\ TakeLast(t) \/ (connections = <<>> /\ UNCHANGED <<connections, user>>)
  /\ notified' = notified \ {t}
  /\ UNCHANGED <<checker, now, lost>>

(* and after acquireTimeout, when it looks once more before it throws. *)
TimeOut(t) ==
  /\ user[t].pc = "wait"
  /\ \/ TakeLast(t)
     \/ /\ connections = <<>>
        /\ user' = [user EXCEPT ![t].pc = "idle"]
        /\ UNCHANGED connections
  /\ notified' = notified \ {t}
  /\ UNCHANGED <<checker, now, lost>>

(* The connection answers, or is reconnected, or replaced, *)
Obtain(t) ==
  /\ user[t].pc = "ping"
  /\ user' = [user EXCEPT ![t].pc = "use"]
  /\ UNCHANGED <<connections, notified, checker, now, lost>>

(* or was closed and no other could be made: getConnection throws.         *)
Lose(t) ==
  /\ user[t].pc = "ping"
  /\ Cardinality(lost) < MaxLost
  /\ lost' = lost \cup {user[t].conn}
  /\ user' = [user EXCEPT ![t] = [pc |-> "idle", conn |-> None]]
  /\ UNCHANGED <<connections, notified, checker, now>>

(* The smart pointer's deleter calls returnConnection(). *)
Return(t) ==
  /\ user[t].pc = "use"
  /\ connections' = Append(connections, Entry(user[t].conn, now, now))
  /\ user' = [user EXCEPT ![t] = [pc |-> "idle", conn |-> None]]
  /\ NotifyOne
  /\ UNCHANGED <<checker, now, lost>>

-----------------------------------------------------------------------------
StartRound ==
  /\ checker.pc = "sleep" /\ checker.since < now
  /\ checker' = [Asleep EXCEPT !.pc = "scan", !.i = 1]
  /\ UNCHANGED <<connections, user, notified, now, lost>>

Cold(e) == now - e.lastReturned >= idleThreshold
Due(e) == now - e.lastChecked >= healthCheckInterval

(* Variant of More: one check too many. *)
OneMore == checker.checked <= maxCheckPerRound /\ checker.i <= Len(connections)

More == checker.checked < maxCheckPerRound /\ checker.i <= Len(connections)

(* Variant of Scan: a connection that is not due is looked at for ever. *)
ScanInPlace ==
  /\ checker.pc = "scan"
  /\ LET i == checker.i
     IN  \/ /\ More => ~Cold(connections[i])
            /\ checker' = Asleep
            /\ UNCHANGED connections
         \/ /\ More /\ Cold(connections[i]) /\ Due(connections[i])
            /\ checker' = [checker EXCEPT !.pc = "ping", !.entry = connections[i]]
            /\ connections' = RemoveAt(connections, i)
  /\ UNCHANGED <<user, notified, now, lost>>

(* One turn of the scan, under the mutex: the round ends, or the entry is  *)
(* passed over, or it is taken out.                                        *)
Scan ==
  /\ checker.pc = "scan"
  /\ LET i == checker.i
     IN  \/ /\ More => ~Cold(connections[i])
            /\ checker' = Asleep
            /\ UNCHANGED connections
         \/ /\ More /\ Cold(connections[i]) /\ ~Due(connections[i])
            /\ checker' = [checker EXCEPT !.i = i + 1]
            /\ UNCHANGED connections
         \/ /\ More /\ Cold(connections[i]) /\ Due(connections[i])
            /\ checker' = [checker EXCEPT !.pc = "ping", !.entry = connections[i]]
            /\ connections' = RemoveAt(connections, i)
  /\ UNCHANGED <<user, notified, now, lost>>

(* Variant of PutBack: the waiting threads are not told. *)
PutBackSilently ==
  /\ checker.pc = "ping"
  /\ LET place == IF checker.i > Len(connections) THEN Len(connections) + 1
                                                  ELSE checker.i
     IN  connections' = InsertAt(connections, place,
                                 [checker.entry EXCEPT !.lastChecked = now])
  /\ checker' = [checker EXCEPT !.pc = "scan", !.entry = <<>>,
                                !.checked = @ + 1, !.i = @ + 1]
  /\ UNCHANGED <<user, notified, now, lost>>

(* The connection is good, or good again, and goes back to its place.      *)
PutBack ==
  /\ checker.pc = "ping"
  /\ LET place == IF checker.i > Len(connections) THEN Len(connections) + 1
                                                  ELSE checker.i
     IN  connections' = InsertAt(connections, place,
                                 [checker.entry EXCEPT !.lastChecked = now])
  /\ NotifyOne
  /\ checker' = [checker EXCEPT !.pc = "scan", !.entry = <<>>,
                                !.checked = @ + 1, !.i = @ + 1]
  /\ UNCHANGED <<user, now, lost>>

(* Variant of CheckFails: the smart pointer still holds what was deleted,  *)
(* and its deleter returns it to the pool.                                 *)
CheckFailsReturning ==
  /\ checker.pc = "ping"
  /\ Cardinality(lost) < MaxLost
  /\ lost' = lost \cup {checker.entry.conn}
  /\ connections' = Append(connections, Entry(checker.entry.conn, now, now))
  /\ NotifyOne
  /\ checker' = Asleep
  /\ UNCHANGED <<user, now>>

(* Or it was closed and no other could be made: the round ends there. *)
CheckFails ==
  /\ checker.pc = "ping"
  /\ Cardinality(lost) < MaxLost
  /\ lost' = lost \cup {checker.entry.conn}
  /\ checker' = Asleep
  /\ UNCHANGED <<connections, user, notified, now>>

Tick ==
  /\ now < MaxTime
  /\ now' = now + 1
  /\ UNCHANGED <<connections, user, notified, checker, lost>>

Check == StartRound \/ Scan \/ PutBack \/ CheckFails

Finish(t) == Wake(t) \/ TimeOut(t) \/ Obtain(t) \/ Lose(t) \/ Return(t)

Next ==
  \/ \E t \in Thread : Ask(t) \/ Finish(t)
  \/ Check \/ Tick

Spec == Init /\ [][Next]_vars

(* Threads go on with what they have begun; the timeout comes.  *)
FairSpec == Spec /\ (\A t \in Thread : WF_vars(Finish(t))) /\ WF_vars(Check)

-----------------------------------------------------------------------------
Pooled == {connections[i].conn : i \in DOMAIN connections}
Lent == {user[t].conn : t \in Thread} \ {None}
InCheck == IF checker.pc = "ping" THEN {checker.entry.conn} ELSE {}

EntryType == [conn : Conn, lastReturned : 0..MaxTime, lastChecked : 0..MaxTime]

TypeOK ==
  /\ connections \in Seq(EntryType)
  /\ user \in [Thread -> [pc : {"idle", "wait", "ping", "use"}, conn : 0..poolSize]]
  /\ \A t \in Thread : user[t].pc \in {"ping", "use"} <=> user[t].conn # None
  /\ notified \subseteq Waiting
  /\ checker \in [pc : {"sleep", "scan", "ping"}, i : 0..(poolSize + 1),
                  checked : 0..maxCheckPerRound, since : 0..MaxTime,
                  entry : EntryType \cup {<<>>}]
  /\ checker.pc = "ping" <=> checker.entry # <<>>
  /\ now \in 0..MaxTime /\ lost \subseteq Conn

(***************************************************************************)
(* Every connection is at exactly one place: in the deque, with one        *)
(* business thread, with the check thread, or gone because it could not be *)
(* replaced.  Nothing else shrinks the pool and nothing is handed out twice. *)
(***************************************************************************)
OnePlaceEach ==
  /\ Pooled \cup Lent \cup InCheck \cup lost = Conn
  /\ Pooled \cap Lent = {} /\ InCheck \cap (Pooled \cup Lent) = {}
  /\ lost \cap (Pooled \cup Lent \cup InCheck) = {}
  /\ \A i, j \in DOMAIN connections :
       connections[i].conn = connections[j].conn => i = j
  /\ \A t, u \in Thread :
       user[t].conn # None /\ user[t].conn = user[u].conn => t = u

(***************************************************************************)
(* No wake-up is lost: while a thread sleeps that nobody has notified,     *)
(* every connection in the deque has a notified thread on its way to it,   *)
(* whatever threads come in between, time out, or find the deque empty.    *)
(***************************************************************************)
NoLostWakeup ==
  Waiting \subseteq notified \/ Len(connections) <= Cardinality(notified)

(***************************************************************************)
(* However the deque shrinks and grows behind its index, a round of checks *)
(* ends.                                                                   *)
(***************************************************************************)
RoundsEnd == checker.pc # "sleep" ~> checker.pc = "sleep"

=============================================================================

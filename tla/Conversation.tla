----------------------------- MODULE Conversation -----------------------------
(***************************************************************************)
(* The chat sessions of one user: the AIHelper of each session with its    *)
(* message list and mutex, the requests that use them (send, new session,  *)
(* history, delete), the publishing of every message to Persistence, and   *)
(* the rebuilding of the sessions from chat_message when the process       *)
(* starts.  A thread is one of the business or I/O threads.                *)
(*                                                                         *)
(* What the model says, a tool answers, and how a call of the gateway ends *)
(* are the environment's choice.  A prompt that chat() pushes and pops     *)
(* again under the helper's mutex is seen by nobody and is left out.  The  *)
(* code has only the positions of the messages; who said each one, and in  *)
(* which turn, is noted here to compare the positions with.                *)
(***************************************************************************)
EXTENDS Persistence, Sequences, SequencesExt

CONSTANTS Thread, Session,
          NotNumeric,    \* sessions whose id is not a number, as the empty
                         \* one: the INSERT has it unquoted, and fails
          MaxRequests    \* bound on the requests of all kinds

Free == "free"   \* the owner of a mutex that nobody has

ASSUME ConversationAssumption ==
  /\ IsFiniteSet(Thread) /\ NotNumeric \subseteq Session
  /\ MaxRequests \in Nat
  /\ Free \notin Thread

VARIABLES chatInformation,  \* the helper of each session; 0: none
          helpers,          \* every AIHelper object: its mutex and messages
          chatMutex,        \* mutexForChatInformation
          sessionsIds,      \* sessionsIdsMap[user]
          task,             \* the request each thread is in
          row,              \* what statement n inserts
          clock,            \* system_clock; it moves where time is sure to
                            \* pass, so that messages in between may tie
          requests,         \* requests so far; also numbers their turns
          erased,           \* observer: sessions that were deleted once
          deleted           \* observer: deleted, and not used again since

cvars == <<chatInformation, helpers, chatMutex, sessionsIds, task, row, clock,
           requests, erased, deleted>>
vars == <<pvars, cvars>>

Idle == [pc |-> "idle", session |-> "none", helper |-> 0, turn |-> 0,
         replied |-> FALSE]

NewHelper == [owner |-> Free, messages |-> <<>>]

Init ==
  /\ PInit
  /\ chatInformation = [s \in Session |-> 0]
  /\ helpers = <<>> /\ chatMutex = Free /\ sessionsIds = <<>>
  /\ task = [t \in Thread |-> Idle]
  /\ row = <<>> /\ clock = 1 /\ requests = 0
  /\ erased = {} /\ deleted = {}

-----------------------------------------------------------------------------
(* Thread t takes up a request about session s, with the map's mutex free. *)
Arrives(t, s) ==
  /\ up /\ task[t].pc = "idle"
  /\ requests < MaxRequests
  /\ requests' = requests + 1
  /\ deleted' = deleted \ {s}

(* Variant of HelperNo: the entry is made before it is looked for. *)
AlwaysNewHelperNo(s) == Len(helpers) + 1

(* The object session s is found to have, or will have. *)
HelperNo(s) ==
  IF chatInformation[s] # 0 THEN chatInformation[s] ELSE Len(helpers) + 1

FindOrCreate(s) ==
  /\ chatInformation' = [chatInformation EXCEPT ![s] = HelperNo(s)]
  /\ helpers' = IF HelperNo(s) > Len(helpers) THEN Append(helpers, NewHelper)
                                              ELSE helpers

(* /chat/send and /chat/send-new-session, up to the call of chat().  A     *)
(* fresh id is listed; one that the client names is not.                   *)
Enter(t, s, fresh) ==
  /\ chatMutex = Free
  /\ fresh => /\ chatInformation[s] = 0 /\ s \notin erased
              /\ \A n \in 1..published : row[n].session # s
  /\ Arrives(t, s)
  /\ FindOrCreate(s)
  /\ sessionsIds' = IF fresh THEN Append(sessionsIds, s) ELSE sessionsIds
  /\ task' = [task EXCEPT ![t] = [pc |-> "wait", session |-> s,
                                  helper |-> HelperNo(s), turn |-> requests + 1,
                                  replied |-> FALSE]]
  /\ UNCHANGED <<pvars, chatMutex, row, clock, erased>>

Owner(t) == helpers[task[t].helper].owner

Unlocked(t) == [helpers EXCEPT ![task[t].helper].owner = Free]

(* Variant of TakeHelper: chat() leaves locking to its callees. *)
TakeHelperShared(t) ==
  /\ task[t].pc = "wait"
  /\ helpers' = [helpers EXCEPT ![task[t].helper].owner = t]
  /\ \E pc \in {"ask", "route"} : task' = [task EXCEPT ![t].pc = pc]
  /\ UNCHANGED <<pvars, chatInformation, chatMutex, sessionsIds, row, clock,
                 requests, erased, deleted>>

(* chat() takes the helper's mutex and keeps it to its end.  It answers    *)
(* directly, or first asks the model which tool to use.                    *)
TakeHelper(t) ==
  /\ task[t].pc = "wait" /\ Owner(t) = Free
  /\ helpers' = [helpers EXCEPT ![task[t].helper].owner = t]
  /\ \E pc \in {"ask", "route"} : task' = [task EXCEPT ![t].pc = pc]
  /\ UNCHANGED <<pvars, chatInformation, chatMutex, sessionsIds, row, clock,
                 requests, erased, deleted>>

(* The model is unknown: prepareStrategy throws. *)
UnknownModel(t) ==
  /\ task[t].pc = "wait" /\ Owner(t) = Free
  /\ task' = [task EXCEPT ![t] = Idle]
  /\ UNCHANGED <<pvars, chatInformation, helpers, chatMutex, sessionsIds, row,
                 clock, requests, erased, deleted>>

(* The tool is chosen and has run, or is found not to be needed; or either *)
(* fails, which becomes the reply.                                         *)
Route(t) ==
  /\ task[t].pc = "route"
  /\ task' \in {[task EXCEPT ![t].pc = "stream-then-ask"],
                [task EXCEPT ![t].pc = "ask", ![t].replied = TRUE]}
  /\ UNCHANGED <<pvars, chatInformation, helpers, chatMutex, sessionsIds, row,
                 clock, requests, erased, deleted>>

(* The stream of the reply ends well, *)
StreamEnds(t) ==
  /\ task' = CASE task[t].pc = "stream" ->
                    [task EXCEPT ![t].pc = "answer", ![t].replied = TRUE]
               [] task[t].pc = "stream-then-ask" ->
                    [task EXCEPT ![t].pc = "ask", ![t].replied = TRUE]
               [] OTHER -> task
  /\ task' # task
  /\ clock' = clock + 1
  /\ UNCHANGED <<pvars, chatInformation, helpers, chatMutex, sessionsIds, row,
                 requests, erased, deleted>>

(* or with an exception of the gateway, which leaves chat(). *)
StreamFails(t) ==
  /\ task[t].pc \in {"stream", "stream-then-ask"}
  /\ task' = [task EXCEPT ![t] = Idle]
  /\ helpers' = Unlocked(t)
  /\ UNCHANGED <<pvars, chatInformation, chatMutex, sessionsIds, row, clock,
                 requests, erased, deleted>>

-----------------------------------------------------------------------------
(* addMessage(): the message is appended with the present time, *)
Said(t, h, role) ==
  [h EXCEPT ![task[t].helper].messages =
     Append(@, [role |-> role, turn |-> task[t].turn])]

(* and its INSERT published, or publish() throws and chat() ends there.    *)
Published(t, role) ==
  /\ row' = Append(row, [session |-> task[t].session, role |-> role, ts |-> clock])
  /\ Publish(task[t].session \in NotNumeric)

AddQuestion(t) ==
  /\ task[t].pc = "ask"
  /\ Published(t, "user")
  /\ helpers' = Said(t, helpers, "user")
  /\ task' = [task EXCEPT ![t].pc = IF task[t].replied THEN "answer" ELSE "stream"]
  /\ UNCHANGED <<chatInformation, chatMutex, sessionsIds, clock, requests, erased,
                 deleted>>

(* Variant of AddAnswer: chat() takes the map's mutex inside the helper's. *)
AddAnswerUnderMap(t) ==
  /\ task[t].pc = "answer" /\ chatMutex = Free
  /\ Published(t, "ai")
  /\ helpers' = Said(t, Unlocked(t), "ai")
  /\ task' = [task EXCEPT ![t] = Idle]
  /\ UNCHANGED <<chatInformation, chatMutex, sessionsIds, clock, requests, erased,
                 deleted>>

AddAnswer(t) ==
  /\ task[t].pc = "answer"
  /\ Published(t, "ai")
  /\ helpers' = Said(t, Unlocked(t), "ai")
  /\ task' = [task EXCEPT ![t] = Idle]
  /\ UNCHANGED <<chatInformation, chatMutex, sessionsIds, clock, requests, erased,
                 deleted>>

PublishFails(t) ==
  /\ task[t].pc \in {"ask", "answer"}
  /\ faults < MaxFaults /\ faults' = faults + 1
  /\ helpers' = Said(t, Unlocked(t), IF task[t].pc = "ask" THEN "user" ELSE "ai")
  /\ task' = [task EXCEPT ![t] = Idle]
  /\ UNCHANGED <<published, poison, ready, hand, written, alive, stored, up,
                 chatInformation, chatMutex, sessionsIds, row, clock, requests,
                 erased, deleted>>

-----------------------------------------------------------------------------
(* /chat/history keeps the map's mutex while it waits for the helper's. *)
HistoryEnter(t, s) ==
  /\ chatMutex = Free
  /\ Arrives(t, s)
  /\ FindOrCreate(s)
  /\ chatMutex' = t
  /\ task' = [task EXCEPT ![t] = [Idle EXCEPT !.pc = "read", !.session = s,
                                              !.helper = HelperNo(s)]]
  /\ UNCHANGED <<pvars, sessionsIds, row, clock, erased>>

HistoryRead(t) ==
  /\ task[t].pc = "read" /\ Owner(t) = Free
  /\ chatMutex' = Free
  /\ task' = [task EXCEPT ![t] = Idle]
  /\ UNCHANGED <<pvars, chatInformation, helpers, sessionsIds, row, clock,
                 requests, erased, deleted>>

(* /chat/delete-session: the rows, the helper, the id, each on its own. *)
DeleteRows(t, s) ==
  /\ Arrives(t, s)
  /\ stored' = [n \in 1..published |-> IF row[n].session = s THEN 0 ELSE stored[n]]
  /\ erased' = erased \cup {s}
  /\ task' = [task EXCEPT ![t] = [Idle EXCEPT !.pc = "drop", !.session = s]]
  /\ UNCHANGED <<published, poison, ready, hand, written, alive, up, faults,
                 chatInformation, helpers, chatMutex, sessionsIds, row, clock>>

DropHelper(t) ==
  /\ task[t].pc = "drop" /\ chatMutex = Free
  /\ chatInformation' = [chatInformation EXCEPT ![task[t].session] = 0]
  /\ task' = [task EXCEPT ![t].pc = "unlist"]
  /\ UNCHANGED <<pvars, helpers, chatMutex, sessionsIds, row, clock, requests,
                 erased, deleted>>

Unlist(t) ==
  /\ task[t].pc = "unlist"
  /\ sessionsIds' = SelectSeq(sessionsIds, LAMBDA s : s # task[t].session)
  /\ deleted' = deleted \cup {task[t].session}
  /\ task' = [task EXCEPT ![t] = Idle]
  /\ UNCHANGED <<pvars, chatInformation, helpers, chatMutex, row, clock,
                 requests, erased>>

-----------------------------------------------------------------------------
(* The rows of chat_message, each with its copies, in an order that        *)
(* ORDER BY ts ASC, id ASC may give: id is the user's, so ties are open.   *)
Rows == {rw \in Stored \X (1..(MaxFaults + 1)) : rw[2] <= stored[rw[1]]}

Selections ==
  {q \in SetToSeqs(Rows) :
     \A i \in 1..(Len(q) - 1) : row[q[i][1]].ts <= row[q[i + 1][1]].ts}

Crash ==
  /\ PCrash
  /\ chatInformation' = [s \in Session |-> 0]
  /\ helpers' = <<>> /\ chatMutex' = Free /\ sessionsIds' = <<>>
  /\ task' = [t \in Thread |-> Idle]
  /\ UNCHANGED <<row, clock, requests, erased, deleted>>

SessionOf(rw) == row[rw[1]].session

(* The messages of session s, in the order of the rows that q selects.  In *)
(* which turn a message was said is not in the table.                      *)
RowsOf(q, s) == {i \in 1..Len(q) : SessionOf(q[i]) = s}

RoleAt(q, places, k) == row[q[SetToSortSeq(places, <)[k]][1]].role

Restored(q, s) ==
  [k \in 1..Cardinality(RowsOf(q, s)) |-> [role |-> RoleAt(q, RowsOf(q, s), k),
                                           turn |-> 0]]

(* readDataFromMySQL, before the consumers start: a helper for each        *)
(* session that has a row, and an entry in sessionsIdsMap for each row.    *)
Restart ==
  /\ PRestart
  /\ \E q \in Selections :
       LET found == SetToSeq({SessionOf(q[i]) : i \in 1..Len(q)})
       IN  /\ sessionsIds' = [i \in 1..Len(q) |-> SessionOf(q[i])]
           /\ helpers' = [i \in 1..Len(found) |->
                            [owner |-> Free, messages |-> Restored(q, found[i])]]
           /\ chatInformation' = [s \in Session |->
                IF s \in ToSet(found) THEN CHOOSE i \in 1..Len(found) : found[i] = s
                                      ELSE 0]
  /\ UNCHANGED <<chatMutex, task, row, clock, requests, erased, deleted>>

Proceed(t) ==
  \/ TakeHelper(t) \/ UnknownModel(t) \/ Route(t) \/ StreamEnds(t) \/ StreamFails(t)
  \/ AddQuestion(t) \/ AddAnswer(t) \/ HistoryRead(t) \/ DropHelper(t) \/ Unlist(t)

Background ==
  /\ \E w \in Worker : Consume(w) \/ Break(w)
  /\ UNCHANGED cvars

Next ==
  \/ \E t \in Thread, s \in Session :
       \/ \E fresh \in BOOLEAN : Enter(t, s, fresh)
       \/ HistoryEnter(t, s) \/ DeleteRows(t, s)
  \/ \E t \in Thread : Proceed(t) \/ PublishFails(t)
  \/ Background
  \/ Crash \/ Restart

Spec == Init /\ [][Next]_vars

(* Threads run what they have started and the gateway's calls end; a       *)
(* consumer that is alive goes on.  Nobody restarts a worker.              *)
FairSpec ==
  /\ Spec
  /\ \A t \in Thread : WF_vars(Proceed(t))
  /\ \A w \in Worker : WF_vars(Consume(w) /\ UNCHANGED cvars)

-----------------------------------------------------------------------------
Chatting ==
  {t \in Thread : task[t].pc \notin {"idle", "read", "drop", "unlist"}}

(***************************************************************************)
(* Two requests for one session may overlap, yet every answer directly     *)
(* follows the question of its own turn.                                   *)
(***************************************************************************)
AnswersFollowQuestions ==
  \A h \in 1..Len(helpers) : \A i \in 1..Len(helpers[h].messages) :
    LET m == helpers[h].messages
    IN  m[i].role = "ai" /\ m[i].turn > 0 =>
          i > 1 /\ m[i - 1] = [role |-> "user", turn |-> m[i].turn]

(***************************************************************************)
(* Whoever speaks in a session speaks to the object that the others see,   *)
(* unless the session was deleted.                                         *)
(***************************************************************************)
OneHelperPerSession ==
  \A t \in Chatting : \/ task[t].helper = chatInformation[task[t].session]
                      \/ task[t].session \in erased

(***************************************************************************)
(* Whatever thread or process dies when, a published statement is in the   *)
(* queue, with a consumer, or in the table, unless its session was deleted. *)
(***************************************************************************)
NothingLost ==
  \A n \in 1..published :
    n \in ready \cup InHand \cup Stored \/ row[n].session \in erased

(***************************************************************************)
(* Two consumers share the queue and yet, without a fault, insert no       *)
(* message twice.                                                          *)
(***************************************************************************)
WrittenOnceWhenCalm == faults = 0 => \A n \in 1..published : stored[n] <= 1

(***************************************************************************)
(* What is published is consumed as long as a consumer is left.            *)
(***************************************************************************)
DrainsWhileAWorkerLives ==
  ready \cup InHand # {} ~> \/ ready \cup InHand = {}
                            \/ \A w \in Worker : ~alive[w]

(***************************************************************************)
(* No request waits for ever for the two mutexes.                          *)
(***************************************************************************)
RequestsEnd == \A t \in Thread : task[t].pc # "idle" ~> task[t].pc = "idle"

(***************************************************************************)
(* README.md:299: /chat/delete-session deletes the session and its past    *)
(* messages.                                                               *)
(***************************************************************************)
DeletedStaysDeleted ==
  \A n \in 1..published : row[n].session \in deleted => stored[n] = 0
=============================================================================

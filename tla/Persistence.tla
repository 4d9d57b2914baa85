----------------------------- MODULE Persistence -----------------------------
(***************************************************************************)
(* How a chat message reaches the chat_message table: an INSERT statement  *)
(* is published to the durable queue sql_queue, one of the consumer        *)
(* threads fetches it, executes it, and only then acknowledges it.  What   *)
(* is not acknowledged when a thread or the process ends is back in the    *)
(* queue, at its old place.  Statements are numbered in publishing order,  *)
(* so that the queue is a set of numbers whose least is its head.          *)
(*                                                                         *)
(* RabbitMQ and MySQL are external and survive every fault modelled here.  *)
(***************************************************************************)
EXTENDS Integers, FiniteSets, FiniteSetsExt

CONSTANTS Worker,     \* the consumer threads
          MaxFaults   \* bound on exceptions and crashes

ASSUME PersistenceAssumption == IsFiniteSet(Worker) /\ MaxFaults \in Nat

VARIABLES published,  \* number of statements published
          poison,     \* statements that MySQL rejects
          ready,      \* sql_queue: published and not with a consumer
          hand,       \* the statement each worker is at; 0: none
          written,    \* has the worker's handler returned?
          alive,      \* workers in their loop
          stored,     \* rows in chat_message for each statement
          up,         \* the process runs
          faults      \* exceptions and crashes so far

pvars == <<published, poison, ready, hand, written, alive, stored, up, faults>>

PInit ==
  /\ published = 0 /\ poison = {} /\ ready = {}
  /\ hand = [w \in Worker |-> 0]
  /\ written = [w \in Worker |-> FALSE]
  /\ alive = [w \in Worker |-> TRUE]
  /\ stored = <<>>
  /\ up = TRUE /\ faults = 0

(* publish(): BasicPublish to sql_queue. *)
Publish(rejected) ==
  /\ published' = published + 1
  /\ ready' = ready \cup {published + 1}
  /\ poison' = IF rejected THEN poison \cup {published + 1} ELSE poison
  /\ stored' = [n \in 1..(published + 1) |-> IF n <= published THEN stored[n] ELSE 0]
  /\ UNCHANGED <<hand, written, alive, up, faults>>

(* BasicConsumeMessage, with a prefetch count of one. *)
Fetch(w) ==
  /\ alive[w] /\ hand[w] = 0
  /\ ready # {}
  /\ hand' = [hand EXCEPT ![w] = Min(ready)]
  /\ ready' = ready \ {Min(ready)}
  /\ UNCHANGED <<published, poison, written, alive, stored, up, faults>>

(* The handler executes the INSERT and returns. *)
Execute(w) ==
  /\ hand[w] # 0 /\ ~written[w]
  /\ hand[w] \notin poison
  /\ stored' = [stored EXCEPT ![hand[w]] = @ + 1]
  /\ written' = [written EXCEPT ![w] = TRUE]
  /\ UNCHANGED <<published, poison, ready, hand, alive, up, faults>>

(* Variant of Acknowledge: the message is given back instead. *)
GiveBack(w) ==
  /\ written[w]
  /\ ready' = ready \cup {hand[w]}
  /\ hand' = [hand EXCEPT ![w] = 0]
  /\ written' = [written EXCEPT ![w] = FALSE]
  /\ UNCHANGED <<published, poison, alive, stored, up, faults>>

(* Variant of Acknowledge: it is forgotten, and the prefetch count stands. *)
NeverAcknowledge(w) == written[w] /\ UNCHANGED pvars

(* BasicAck. *)
Acknowledge(w) ==
  /\ written[w]
  /\ hand' = [hand EXCEPT ![w] = 0]
  /\ written' = [written EXCEPT ![w] = FALSE]
  /\ UNCHANGED <<published, poison, ready, alive, stored, up, faults>>

(* Variant of Exit: what the worker was at is not delivered again. *)
ExitDropping(w) ==
  /\ alive' = [alive EXCEPT ![w] = FALSE]
  /\ hand' = [hand EXCEPT ![w] = 0]
  /\ written' = [written EXCEPT ![w] = FALSE]
  /\ UNCHANGED <<published, poison, ready, stored, up>>

(* An exception leaves the loop: the thread ends, for good, its channel    *)
(* closes, and the broker takes back what was not acknowledged.            *)
Exit(w) ==
  /\ alive' = [alive EXCEPT ![w] = FALSE]
  /\ hand' = [hand EXCEPT ![w] = 0]
  /\ written' = [written EXCEPT ![w] = FALSE]
  /\ ready' = ready \cup ({hand[w]} \ {0})
  /\ UNCHANGED <<published, poison, stored, up>>

(* executeUpdate throws because MySQL rejects the statement. *)
Reject(w) ==
  /\ hand[w] \in poison
  /\ Exit(w)
  /\ UNCHANGED faults

(* The connection to the broker or to MySQL breaks, at any point. *)
Break(w) ==
  /\ alive[w]
  /\ faults < MaxFaults
  /\ Exit(w)
  /\ faults' = faults + 1

InHand == {hand[w] : w \in Worker} \ {0}

(* The process dies; with it all its consumers. *)
PCrash ==
  /\ up /\ faults < MaxFaults
  /\ up' = FALSE
  /\ faults' = faults + 1
  /\ alive' = [w \in Worker |-> FALSE]
  /\ hand' = [w \in Worker |-> 0]
  /\ written' = [w \in Worker |-> FALSE]
  /\ ready' = ready \cup InHand
  /\ UNCHANGED <<published, poison, stored>>

(* The process starts: RabbitMQThreadPool::start. *)
PRestart ==
  /\ ~up
  /\ up' = TRUE
  /\ alive' = [w \in Worker |-> TRUE]
  /\ UNCHANGED <<published, poison, ready, hand, written, stored, faults>>

Consume(w) == Fetch(w) \/ Execute(w) \/ Acknowledge(w) \/ Reject(w)

-----------------------------------------------------------------------------
Stored == {n \in 1..published : stored[n] > 0}
=============================================================================

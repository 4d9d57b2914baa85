--------------------------- MODULE BreakerContract ---------------------------
(***************************************************************************)
(* What a circuit breaker promises its callers, with no generation, permit *)
(* or success count: an open breaker is probed in rounds of at most        *)
(* MaxProbes admissions; any failed probe re-opens it at once; it closes   *)
(* only when every probe it admitted has succeeded and they are at least   *)
(* MinProbes.  Results of other calls have no effect on a round.           *)
(***************************************************************************)
EXTENDS Naturals

CONSTANTS Caller, MaxProbes, MinProbes

VARIABLES mode,      \* CLOSED, OPEN or HALF_OPEN
          probing,   \* callers whose probe is out
          admitted   \* probes admitted in this round

Init == mode = "CLOSED" /\ probing = {} /\ admitted = 0

Trip ==
  /\ mode = "CLOSED"
  /\ mode' = "OPEN"
  /\ UNCHANGED <<probing, admitted>>

StartRound(c) ==
  /\ mode = "OPEN"
  /\ mode' = "HALF_OPEN"
  /\ probing' = {c}
  /\ admitted' = 1

JoinRound(c) ==
  /\ mode = "HALF_OPEN"
  /\ c \notin probing
  /\ admitted < MaxProbes
  /\ probing' = probing \cup {c}
  /\ admitted' = admitted + 1
  /\ UNCHANGED mode

ProbeSucceeds(c) ==
  /\ mode = "HALF_OPEN"
  /\ c \in probing
  /\ probing' = probing \ {c}
  /\ IF probing' = {} /\ admitted >= MinProbes
       THEN mode' = "CLOSED" /\ admitted' = 0
       ELSE UNCHANGED <<mode, admitted>>

ProbeFails(c) ==
  /\ mode = "HALF_OPEN"
  /\ c \in probing
  /\ mode' = "OPEN"
  /\ probing' = {}
  /\ admitted' = 0

Next ==
  \/ Trip
  \/ \E c \in Caller :
       StartRound(c) \/ JoinRound(c) \/ ProbeSucceeds(c) \/ ProbeFails(c)

Spec == Init /\ [][Next]_<<mode, probing, admitted>>
=============================================================================

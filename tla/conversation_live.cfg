\* Liveness: both threads work in the one session, a consumer or the process fails.
\* Deadlock is off: after the last request and the last consumer all is at rest.
CONSTANTS
  Thread = {t1, t2}
  Session = {s1}
  NotNumeric = {}
  Worker = {w1, w2}
  MaxFaults = 1
  MaxRequests = 2
SPECIFICATION FairSpec
PROPERTIES DrainsWhileAWorkerLives RequestsEnd
CHECK_DEADLOCK FALSE

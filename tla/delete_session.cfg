\* One thread, one consumer, one session that is used and deleted; no fault.
CONSTANTS
  Thread = {t1}
  Session = {s1}
  NotNumeric = {}
  Worker = {w1}
  MaxFaults = 0
  MaxRequests = 2
SPECIFICATION Spec
INVARIANTS DeletedStaysDeleted
CHECK_DEADLOCK FALSE

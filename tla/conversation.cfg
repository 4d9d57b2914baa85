\* Safety: two threads, two requests of any kind, one fault; s2 has no numeric id.
\* Deadlock is off: after the last request and the last consumer all is at rest.
CONSTANTS
  Thread = {t1, t2}
  Session = {s1, s2}
  NotNumeric = {s2}
  Worker = {w1, w2}
  MaxFaults = 1
  MaxRequests = 2
SPECIFICATION Spec
INVARIANTS AnswersFollowQuestions OneHelperPerSession NothingLost WrittenOnceWhenCalm
CHECK_DEADLOCK FALSE

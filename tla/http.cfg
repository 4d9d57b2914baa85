\* A patient and a hasty client share one worker; the hasty one's chats meet
\* texts that are not UTF-8.  Deadlock is off: the clients stop asking.
CONSTANTS
  Conn = {c1, c2}
  Hasty = {c2}
  Garbled = {c2}
  Asserts = TRUE
  Wants <- MCWants
  Worker = {w1}
  MaxRequests = 2
  MaxChunks = 1
SPECIFICATION Spec
INVARIANTS AnswersInTurn RequestIsItsOwn NoTaskStranded AnsweredWhenQuiet
CHECK_DEADLOCK FALSE

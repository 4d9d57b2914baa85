\* One browser with three requests at once; deadlock is off: at the bound of
\* the sessions no other is made.
CONSTANTS
  Thread = {t1, t2, t3}
  Browser = {b1}
  User = {u1}
  MaxAge = 0
  MaxSessions = 2
  MaxNow = 1
SYMMETRY Symmetry
SPECIFICATION Spec
INVARIANTS LoggedOutStaysOut FlagMeansUser
PROPERTY LiveIsKept
CHECK_DEADLOCK FALSE

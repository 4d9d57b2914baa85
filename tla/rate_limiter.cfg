\* A backend of 2/3 token a ms and bursts of 5/3 tokens, a user of 1/3 token
\* a ms and bursts of 7/3 tokens.
CONSTANTS
  Unit = 3
  Backend = {b1}
  User = {u1}
  BackendRps = 2
  BackendBurst = 5
  UserRps = 1
  UserBurst = 7
  MaxNow = 7
SPECIFICATION Spec
INVARIANTS TypeOK WindowBound
PROPERTIES LeakySpec

\* ChatServer's routes and five more in any order, two loops, three requests;
\* deadlock is off: at the bound of the requests nobody sends another.
CONSTANTS
  Loop = {l1, l2}
  MoreRoutes <- MCMoreRoutes
  Requests <- MCRequests
  Files = {"AI.html"}
  AllowedOrigins <- MCAllowedOrigins
  UniqueNames = FALSE
  max_loops = 1
  MaxRequests = 3
  MaxFaults = 1
SYMMETRY Symmetry
SPECIFICATION Spec
INVARIANTS ServedByTheRightOne ClientCanRead OneAccount
CHECK_DEADLOCK FALSE

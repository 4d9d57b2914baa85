\* Two threads, one user of two tokens; qwen falls back to deepseek, which is
\* limited; deepseek falls back to qwen, which the "backends" section lacks;
\* one failure trips, two probes a round.
CONSTANTS
  qwen = qwen
  deepseek = deepseek
  Caller = {c1, c2}
  User = {u1}
  Backend = {qwen, deepseek}
  Configured = {deepseek}
  Limited = {deepseek}
  Route <- MCRoute
  BackendRps = 1
  BackendBurst = 1
  UserRps = 1
  UserBurst = 2
  Unit = 1
  FailureThreshold = 1
  FailureResetTimeoutMs = 2
  RecoveryTimeoutMs = 1
  HalfOpenMaxCalls = 2
  SuccessThreshold = 2
  MaxNow = 3
SPECIFICATION FairSpec
INVARIANTS TypeOK PermitAccounting FaultsStayApart 
PROPERTIES HealthyFallbackServes BreakersKeepContract RequestsEnd

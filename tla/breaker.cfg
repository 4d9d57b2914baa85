\* Three callers; three failures trip; two probes a round; the success
\* threshold is above the probe limit, so that configure() has to correct it.
CONSTANTS
  Caller = {c1, c2, c3}
  FailureThreshold = 3
  FailureResetTimeoutMs = 2
  RecoveryTimeoutMs = 2
  HalfOpenMaxCalls = 2
  SuccessThreshold = 3
  MaxNow = 9
  MaxGeneration = 8
SPECIFICATION TripSpec
INVARIANTS TypeOK ProbeAccounting NeverWedged OpenIsSettled OpensExactlyOnClusters
PROPERTIES SaturatedRoundEnds ContractSpec
CHECK_DEADLOCK FALSE

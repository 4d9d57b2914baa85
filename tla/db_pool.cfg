\* Four threads for three connections, of which one may get lost.
\* A cold connection need not be due, so that the scan has some to pass over.
CONSTANTS
  Thread = {t1, t2, t3, t4}
  poolSize = 3
  idleThreshold = 1
  healthCheckInterval = 2
  maxCheckPerRound = 2
  MaxTime = 2
  MaxLost = 1
SPECIFICATION FairSpec
INVARIANTS TypeOK OnePlaceEach NoLostWakeup
PROPERTIES RoundsEnd

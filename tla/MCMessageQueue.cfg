\* Two producers on a queue of two, with retries and a shutdown at any time.
SPECIFICATION FairSpec
CONSTANTS
  Producers = {p1, p2}
  QueueSize = 2
  MaxAttempts = 2
  MaxMessages = 3
INVARIANTS TypeOK WorkerHoldsHead NoLostWakeup AtMostOneLateCall
PROPERTIES FifoImplemented AcceptedSettled
\* After the shutdown, or with all message ids used, the system stops.
CHECK_DEADLOCK FALSE

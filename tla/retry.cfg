\* One call with the defaults of genericRetryStrategy, other requests calling about the same
\* payment.
CONSTANTS
  Ids = {i1}
  NoId = NoId
  Faults = {}
  Key = i1
  MaxRetryAttempts = 3
  TimeoutDuration = 30
  AnswerTimes <- SoonOrLate
SPECIFICATION RSpec
INVARIANTS RetryTypeOK GivesUpInTime
PROPERTIES IsOneCall Settles
CHECK_DEADLOCK FALSE

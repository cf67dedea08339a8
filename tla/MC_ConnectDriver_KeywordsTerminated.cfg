\* main()'s connections, checked against KeywordsTerminated.
CONSTANTS
  MaxAttempts = 3
SPECIFICATION Spec
INVARIANT KeywordsTerminated
CHECK_DEADLOCK FALSE

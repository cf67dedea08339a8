\* main()'s connections, checked against SentPasswordIsTyped.
CONSTANTS
  MaxAttempts = 3
SPECIFICATION Spec
INVARIANT SentPasswordIsTyped
CHECK_DEADLOCK FALSE

\* fmtId() on every name of up to 4 characters over a, A, 0, _, " and space, against the two forms the server reads back.
CONSTANTS
  a = a  A = A  zero = zero  us = us  dq = dq  sp = sp  NUL = NUL
  Chars <- MCChars
  Lower = {a}
  Digits = {zero}
  Underscore = us
  DQuote = dq
  MaxLen = 4
INIT Init
NEXT Next
INVARIANTS TypeOK IdentifierSafe
CHECK_DEADLOCK FALSE

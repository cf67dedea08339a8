\* parsePGArray() on every text of up to 7 characters over { } , " \ and a, against the server's array_out() format.
CONSTANTS
  LBrace = LBrace  RBrace = RBrace  Comma = Comma  DQuote = DQuote
  BSlash = BSlash  NUL = NUL  a = a
  Chars <- MCChars
  ItemChars <- MCItemChars
  MaxLen = 7
  MaxItems = 2
  MaxItemLen = 2
INIT Init
NEXT Next
INVARIANTS TypeOK StorageBound DecodesArrayOut
CHECK_DEADLOCK FALSE

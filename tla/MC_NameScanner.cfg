\* The tokenizer of parseAclItem() on every item of up to 7 characters over a r = / ", against the server's aclitemout() format.
CONSTANTS
  Eq = Eq  Slash = Slash  DQuote = DQuote  NUL = NUL  a = a  r = r
  Chars <- MCChars
  NameChars <- MCNameChars
  Alnum <- MCAlnum
  CodeTexts <- MCCodeTexts
  MaxLen = 7
  MaxNameLen = 2
INIT Init
NEXT Next
INVARIANTS TypeOK ScansAclItemOut
CHECK_DEADLOCK FALSE

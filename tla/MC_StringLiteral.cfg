\* appendStringLiteralConn() on every value of up to 4 bytes, for a server before and after 8.1.
CONSTANTS
  a = a  q = q  bs = bs  l2 = l2  l3 = l3  ct = ct  sp = sp  e = e  nul = nul
  Bytes <- MCBytes
  Plain = a  Quote = q  BSlash = bs  Lead2 = l2  Lead3 = l3  Cont = ct
  Space = sp  LetterE = e  NUL = nul
  Versions = {80000, 80100}
  MaxLen = 4
  MaxSlack = 2
SPECIFICATION Spec
INVARIANTS TypeOK WithinBuffer OnePadAtLeast PadRoom LiteralReadsBack
CHECK_DEADLOCK FALSE

CONSTANTS
  Lower <- MCLower
  Other <- MCOther
  MaxChars = 5
  DigestLen = 1
  HexChar = "0"
  MaxKeyLen = 6

SPECIFICATION Spec

INVARIANT TypeOK
INVARIANT NameLength

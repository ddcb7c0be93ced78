SPECIFICATION Spec
CONSTANTS
  Tokens <- TokensUsed
  Escape <- EscapeUsed
  HostEscaped <- HostEscapedUsed
  Forbidden <- ForbiddenUsed
  Dropped <- DroppedUsed
  ServerIds <- Addresses
  KeyPairs <- OnePlain
  HandWritten <- NoTexts
  MaxHeld = 1
  MaxSaved = 2
  Err = Err
INVARIANTS AddressesWork

SPECIFICATION Spec
CONSTANTS
  Tokens <- TokensUsed
  Escape <- EscapeUsed
  HostEscaped <- HostEscapedUsed
  Forbidden <- ForbiddenUsed
  Dropped <- DroppedUsed
  ServerIds <- Servers
  KeyPairs <- Imported
  HandWritten <- ByHand
  MaxHeld = 1
  MaxSaved = 2
  Err = Err
INVARIANTS TypeOK SavedIsRestored RestoredIsStable HalvesAgree

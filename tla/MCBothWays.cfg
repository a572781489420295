SPECIFICATION ArqSpec
CONSTANTS
  SeqNumbers = 4
  MaxMessage = 3
  Window = 2
  MaxRetransmits = 1
  MaxAir = 2
  LateAcks = FALSE
  BothWays = TRUE
PROPERTY ImplementsTransfer
CHECK_DEADLOCK FALSE

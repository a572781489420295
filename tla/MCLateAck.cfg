SPECIFICATION PatientSpec
CONSTANTS
  SeqNumbers = 4
  MaxMessage = 3
  Window = 2
  MaxRetransmits = 1
  MaxAir = 1
  LateAcks = FALSE
  BothWays = FALSE
PROPERTY TransferEnds
CHECK_DEADLOCK FALSE

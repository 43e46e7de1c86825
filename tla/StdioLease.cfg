CONSTANTS
  MaxLeases = 2
  MaxFaults = 3
  MaxSpeech = 3
SPECIFICATION Spec
INVARIANTS
  TypeOK
  TextStaysOnItsSide
  LeasedTextReachesLedger
  DescriptorsComeBack
CHECK_DEADLOCK FALSE

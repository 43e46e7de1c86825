CONSTANTS
  MaxLeases = 1
  MaxFaults = 0
  MaxSpeech = 1
SPECIFICATION Spec
INVARIANT NoBackendTextOnTerminal
CHECK_DEADLOCK FALSE

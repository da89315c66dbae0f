CONSTANTS
  AddrSize = 16
  PCVal = 4096
  NextPCVal = 4100
  BaseVal = 8
  SegmentAddrs <- MCSegmentAddrs
  Instructions <- MCInstructions
  BlockLen = 1
INIT Init
NEXT Next
INVARIANTS
  TypeOK
  EffectiveValuePreserved
  UnusedRefReported

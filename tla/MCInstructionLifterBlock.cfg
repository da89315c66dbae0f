CONSTANTS
  AddrSize = 16
  PCVal = 4096
  NextPCVal = 4100
  BaseVal = 8
  SegmentAddrs <- MCSegmentAddrs
  Instructions <- MCShortInstructions
  BlockLen = 2
INIT Init
NEXT Next
INVARIANTS
  EffectiveValuePreserved
  UnusedRefReported

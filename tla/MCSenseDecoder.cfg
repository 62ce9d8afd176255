CONSTANTS
  Buffers <- MCBuffers
  Registers <- MCRegisters
  Leading <- MCLeading
SPECIFICATION FairSpec
INVARIANTS NoPanic AnswersFirstReturn ReportsDecoded
PROPERTIES Returns
CHECK_DEADLOCK FALSE

CONSTANTS
  Bits = 3
  MemSize = 24
  ProgramLength = 4
  Pow2 <- MCPow2
  LogicTable <- MCLogicTable
  IndexField <- MCIndexField
  OpcodeTable <- CallTable
  Boot <- CallBoot
SPECIFICATION CallsSpec
PROPERTIES RtsResumesCaller UnlkRestoresFrame
CONSTRAINT CallsNear

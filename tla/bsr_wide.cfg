CONSTANTS
  Bits = 3
  MemSize = 24
  ProgramLength = 4
  Pow2 <- MCPow2
  LogicTable <- MCLogicTable
  IndexField <- MCIndexField
  OpcodeTable <- WideTable
  Boot <- WideBoot
SPECIFICATION CallsSpec
PROPERTY RtsResumesCaller
CONSTRAINT CallsNear

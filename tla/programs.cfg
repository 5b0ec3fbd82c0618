CONSTANTS
  Bits = 3
  MemSize = 32
  Pow2 <- MCPow2
  LogicTable <- MCLogicTable
  IndexField <- MCIndexField
  OpcodeTable <- ProgramTable
  Boot <- ProgramBoot
SPECIFICATION ProgramsSpec
INVARIANTS WideArithmetic UnsignedOrder QuotientTimesDivisor LoadFindsStore
CHECK_DEADLOCK FALSE

CONSTANTS
  Bits = 3
  MemSize = 32
  Pow2 <- MCPow2
  LogicTable <- MCLogicTable
  IndexField <- MCIndexField
  OpcodeTable <- SignedTable
  Boot <- SignedBoot
SPECIFICATION ProgramsSpec
INVARIANTS SignedOrder
CHECK_DEADLOCK FALSE

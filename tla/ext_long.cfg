CONSTANTS
  Bits = 3
  MemSize = 16
  Pow2 <- MCPow2
  LogicTable <- MCLogicTable
  IndexField <- MCIndexField
  OpcodeTable <- OperandTable
  Boot <- OperandBoot
SPECIFICATION Spec
PROPERTY ExtLongKeepsWord

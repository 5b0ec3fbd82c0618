CONSTANTS
  Bits = 3
  MemSize = 16
  Pow2 <- MCPow2
  LogicTable <- MCLogicTable
  IndexField <- MCIndexField
  OpcodeTable <- OperandTable
  Boot <- OperandBoot
SPECIFICATION Spec
INVARIANTS TypeOK WriteBackHitsOperand
PROPERTIES FailedStepIsQuiet StackBanksSeparate StackStaysAligned PcPassesInstruction
CHECK_DEADLOCK FALSE

CONSTANTS
  Bits = 3
  MemSize = 16
  Pow2 <- MCPow2
  LogicTable <- MCLogicTable
  IndexField <- MCIndexField
  OpcodeTable <- FlowTable
  Boot <- FlowBoot
SPECIFICATION Spec
INVARIANTS TypeOK
PROPERTIES FailedStepIsQuiet StackBanksSeparate StackStaysAligned PcPassesInstruction
CONSTRAINT AddressesNear

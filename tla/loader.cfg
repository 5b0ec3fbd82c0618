CONSTANTS
  Bits = 2
  MemSize = 12
  Pow2 <- MCPow2
  LogicTable <- MCLogicTable
  IndexField <- MCIndexField
  OpcodeTable <- LoadTable
  Boot <- LoadBoot
  Files <- MCFiles
SPECIFICATION LoaderSpec
CONSTRAINT LoadNear
INVARIANTS ReadyToRun
PROPERTIES KeepsPromise LoadReturns

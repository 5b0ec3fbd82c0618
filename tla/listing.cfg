CONSTANTS
  Bits = 3
  MemSize = 16
  Pow2 <- MCPow2
  LogicTable <- MCLogicTable
  IndexField <- MCIndexField
  OpcodeTable <- ListTable
  Boot <- ListBoot
SPECIFICATION ListSpec
CONSTRAINT ListNear
PROPERTIES ListingMovesOnlyPC ExecutionFollowsListing
CHECK_DEADLOCK FALSE

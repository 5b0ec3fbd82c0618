CONSTANTS
  FirstOpcode = 0
  LastOpcode = 65535
SPECIFICATION Spec
INVARIANTS EntriesWellFormed EntryIsForItsOpcode NoShadowedEncoding
PROPERTY TableCompleted

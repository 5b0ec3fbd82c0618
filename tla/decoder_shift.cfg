CONSTANTS
  FirstOpcode = 57344
  LastOpcode = 65535
SPECIFICATION Spec
INVARIANT ShiftTypeIsTheRows

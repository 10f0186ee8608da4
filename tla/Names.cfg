SPECIFICATION NamesSpec
CONSTANTS
  instr = instr
  lib = lib
  m1 = m1
  m2 = m2
  c1 = c1
  c2 = c2
  x = x
  A = A
  P = P
  S = S
  None = None
  Unused = Unused
  Base = {instr, lib}
  Instruction = {instr}
  Macro = {m1, m2}
  Library <- MCLibrary
  Member = {instr, lib}
  MaxGen = 4
CHECK_DEADLOCK FALSE
INVARIANTS
  ReadAsWritten
  MacrosAsWritten
  VariablesAsWritten
PROPERTY
  ReadsTheStream

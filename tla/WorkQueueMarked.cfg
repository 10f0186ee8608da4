SPECIFICATION Spec
CONSTANTS
  source = source
  member = member
  folder = folder
  File = {source}
  Folder = {folder}
  Query = {q}
  Session = {}
  Implicit = Implicit
  Home <- MCHome
  MayUse <- MCMayUse
  Parses = {0, 1}
  MaxMessages = 4
  MaxSettings = 2
CHECK_DEADLOCK FALSE
INVARIANT
  NothingLeftMarked

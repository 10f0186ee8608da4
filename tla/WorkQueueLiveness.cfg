SPECIFICATION FairSpec
CONSTANTS
  source = source
  member = member
  folder = folder
  File = {source, member}
  Folder = {folder}
  Query = {q}
  Session = {d}
  Implicit = Implicit
  Home <- MCHome
  MayUse <- MCMayUse
  Parses = {0, 1}
  MaxMessages = 3
  MaxSettings = 2
CHECK_DEADLOCK FALSE
PROPERTIES
  EverythingIsServed

SPECIFICATION FilesSpec
CONSTANTS
  Thread = {lsp, debug}
  Answer = {text, error}
  None = None
  MaxRequests = 2
  MaxMessages = 1
  lsp = lsp
  debug = debug
  Unused = Unused
  NoPart = NoPart
  doc = doc
  t1 = t1
  t2 = t2
  o1 = o1
  o2 = o2
  o3 = o3
  Error = Error
  P = P
  Q = Q
  F = F
  G = G
  H = H
  X = X
  NP = NP
CHECK_DEADLOCK FALSE
INVARIANTS
  NoAnswerIsLost
  RightAnswer
  FilesAreTrue
  AnalysedAsConfigured
PROPERTIES
  HandedOutIsKept
  LibraryChangeIsSeen

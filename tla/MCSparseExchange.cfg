SPECIFICATION FairSpec

CONSTANTS
  p1 = p1
  p2 = p2
  p3 = p3
  d = d
  Proc <- MCProc
  Payload <- MCPayload
  TagMod = 2
  MaxRound = 3

INVARIANTS
  ExchangeInv
  NothingLeftBehind
  RightCall

PROPERTIES
  Promise
  EveryCallReturns

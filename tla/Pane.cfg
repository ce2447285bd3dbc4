SPECIFICATION Spec
CONSTANTS
  c1 = c1
  c2 = c2
  qa = qa
  qb = qb
  NoChan = NoChan
  Blank = Blank
  Query <- Queries
  Matches <- Matching2
  SearchPage = 2
  First = c1
  Chan <- Chans
  Page = 2
  Half = 1
  MaxLog = 6
  MaxTexts = 2
  MaxMoves = 3
  MaxFaults = 1
  Limits <- Small
INVARIANTS WindowWhole RowsMatch DraftKept HitsAnswer
CHECK_DEADLOCK FALSE

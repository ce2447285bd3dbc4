SPECIFICATION FairSpec
CONSTANTS
  l1 = l1
  h1 = h1
  h2 = h2
  None = None
  Tab <- Tabs
  Low <- LowOne
  MaxOffers = 2
  MaxTexts = 2
  MaxFaults = 1
  Limits <- Small
INVARIANTS KeysAgree 
 
CHECK_DEADLOCK FALSE

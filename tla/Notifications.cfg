CONSTANTS
  Background = Background
  Desk = Desk
  Nobody = Nobody
  MaxPackages = 2
  MaxPosts = 2
  MaxTurns = 1
  Faults = {}
SPECIFICATION FairSpec
INVARIANTS TypeOK OneSendAtATime AutomaticIsNew ReceiptIsTrue 
PROPERTIES DecisionStands
CHECK_DEADLOCK FALSE

CONSTANTS
  Background = Background
  Desk = Desk
  Nobody = Nobody
  MaxPackages = 1
  MaxPosts = 1
  MaxTurns = 2
  Faults = {"name_conflict"}
SPECIFICATION FairSpec
PROPERTIES DecisionStands
CHECK_DEADLOCK FALSE

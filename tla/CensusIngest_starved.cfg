CONSTANTS
  w1 = w1
  w2 = w2
  Characters = {1, 2}
  Milestones = {1}
  Workers = {w1}
  Events <- Profiles
  Limit = 1
  Publishers = {"character-census"}
  MaxRetries = 1
  Changing = {1, 2}
  MaxChanges = 3
  MaxFaults = 0
SPECIFICATION FairSpec

PROPERTIES Resurrected
CHECK_DEADLOCK FALSE

CONSTANTS
  w1 = w1
  w2 = w2
  Characters = {1, 2}
  Milestones = {1, 2}
  Workers = {w1, w2}
  Events <- Subscribed
  Limit = 1
  Publishers = {"character-census", "achievement-census"}
  MaxRetries = 1
  Changing = {2}
  MaxChanges = 1
  MaxFaults = 1
SPECIFICATION FairSpec
INVARIANTS TypeOK SweepComplete ChainKept NoFalseDeath
PROPERTIES Converges
CHECK_DEADLOCK FALSE

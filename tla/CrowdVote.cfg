SPECIFICATION FairSpec
CONSTANTS
  Threads = {t1, t2}
  Initials = {AB, CD, EF}
  CROWD_CAP = 1
  NoVote = NoVote
INVARIANTS
  TypeOK
  CapIsNearlyKept
  TallyIsPossible
PROPERTY
  FreezeTakesHold

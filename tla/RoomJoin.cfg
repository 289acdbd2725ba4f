SPECIFICATION FairSpec
CONSTANTS
  Requests = {r1, r2}
  Initials = {"AB", "1"}
  Digits = {"1"}
  Stances = {"strict"}
  FixedVoters <- RoomFixedVoters
  ATTENDEE_CAP = 1
  MaxTries = 2
  Seed = Seed
  None = None
  NoNote = NoNote
  ErrorText = ErrorText
CHECK_DEADLOCK FALSE
INVARIANTS
  TypeOK
  ReportedVoterIsOwn
  OneServerPerRequest
  
PROPERTY
  EveryRequestIsAnswered

SPECIFICATION AllFairSpec
CONSTANTS
  Parts = {"sockets", "pairing", "talking"}
  Sockets = {"c1", "c2"}
  Addr <- OneAddr
  Limit = 2
  PerAddr = 1
  MaxSessions = 2
  MaxTokens = 2
  MaxReports = 1
INVARIANT TypesOK
INVARIANT SlotsAreCounted
INVARIANT SessionsAreHeld
INVARIANT GoneIsGone
INVARIANT BothMeantIt
INVARIANT AcceptanceIsLast
PROPERTY ExpiredClientsLeave
PROPERTY SealedConversation
PROPERTY Answered
CHECK_DEADLOCK FALSE

SPECIFICATION CalledAgain
CONSTANTS
  NoChat = NoChat
  Chats = {c1}
  Runners = {p1}
  Cleaners = {k1}
  DeleteFails = TRUE
  TasksDie = FALSE
PROPERTIES FailedRetried
CHECK_DEADLOCK FALSE

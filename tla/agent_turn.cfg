SPECIFICATION FairSpec
CONSTANTS
  mine = mine  other = other  foreign = foreign  m1 = m1  m2 = m2  m3 = m3
  Orders <- MCOrders
  Mine <- MCMine
  Ours <- MCOurs
  Actions = {"refund", "return_address"}
  Staff = {"agent", "admin", "approver"}
  Roles = {"customer"}
  Models <- MCModels
  DevModels = {m1}
  Answers <- MCAnswers
  Deployments <- MCDeployments
  Hits = {0, 2, 3}
  RagMaxRetries = 3
  HallucinationMaxRetries = 2
  MaxOps = 2
  MaxTurns = 2
  MaxFaults = 1
  MaxDeploys = 1
INVARIANTS FreshHold FaithfulOnly AnswersThisTurn
PROPERTIES EvaluatedOnly TurnEnds

CHECK_DEADLOCK FALSE

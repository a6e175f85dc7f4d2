SPECIFICATION MCFairSpec
CONSTANTS
  Events <- MCKey
  MaxEvents = 1
  Screens <- MCTwoSizes
  MaxEcho = 0
  State <- MCState
  InitialState <- MCInitialState
  DiffFrom <- MCDiffFrom
  ApplyString <- MCApplyString
  Subtract <- MCSubtract
  Extends <- MCExtends
  EmptyDiff <- MCEmptyDiff
  SHUTDOWN_NUM = 3
  SENT_STATES_MAX = 3
  SENT_STATES_KEEP = 3
  RECEIVED_STATES_MAX = 1
  MAX_NUM <- MCMaxNum
  ClientNum = 1
  ServerNum = 2
  MAX_IN_FLIGHT <- MCInFlight
  CLOSERS = {"server"}
  ClientFlight = 1
  ServerFlight = 2
PROPERTIES ImplementsScreen Converges

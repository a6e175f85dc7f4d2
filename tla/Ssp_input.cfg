SPECIFICATION Spec
CONSTANTS
  Events <- MCKeyAndResize
  MaxEvents = 2
  Screens <- MCOneScreen
  MaxEcho = 0
  State <- MCState
  InitialState <- MCInitialState
  DiffFrom <- MCDiffFrom
  ApplyString <- MCApplyString
  Subtract <- MCSubtract
  Extends <- MCExtends
  EmptyDiff <- MCEmptyDiff
  SHUTDOWN_NUM = 3
  SENT_STATES_MAX = 3
  SENT_STATES_KEEP = 3
  RECEIVED_STATES_MAX = 1
  MAX_NUM <- MCMaxNum
  ClientNum = 2
  ServerNum = 1
  MAX_IN_FLIGHT <- MCInFlight
  CLOSERS = {"client"}
  ClientFlight = 2
  ServerFlight = 1
INVARIANTS TypeOK Agreement FloorHeld FinalStateComplete Inv HandedOutOnce HistoryBounded
PROPERTIES NeverBack ImplementsInput

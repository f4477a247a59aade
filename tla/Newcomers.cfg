\* One booking, under which branch, department and service go and are created again.
CONSTANTS
  Undefined = Undefined
  Null = Null
  VS = VS
  TS = TS
  a = a
  CodeInputs <- MCOneCode
  TypeInputs <- MCServiceOnly
  ParentInputs <- MCFirstId
  ActiveInputs <- MCOn
  MaxServiceId = 4
  BranchCodeInputs <- MCBranchCode
  BranchIdInputs <- MCTwoIds
  DirectoryActiveInputs <- MCOn
  MaxBranchId = 2
  MaxDepartmentId = 2
  Channels = {"booking"}
  LinkActiveInputs <- MCOn
  ChannelInputs <- MCOn
  MaxLinkId = 2
  Requested <- MCOneTime
  Dates <- MCOneTime
  DayLength = 2
  FirstSlot = 1
  SlotCount = 1
  QrTtl = 1
  NaN = NaN
  MaxBookingId = 1
  MaxTime = 1
SPECIFICATION GatewaySpec
\* ids and time run out in the end
CHECK_DEADLOCK FALSE
PROPERTIES
  NewcomersUnbooked

\* Two bookings over two days while the directory changes under them.
CONSTANTS
  Undefined = Undefined
  Null = Null
  VS = VS
  TS = TS
  a = a
  CodeInputs <- MCOneCode
  TypeInputs <- MCServiceOnly
  ParentInputs <- MCFirstId
  ActiveInputs <- MCOn
  MaxServiceId = 3
  BranchCodeInputs <- MCBranchCode
  BranchIdInputs <- MCFirstId
  DirectoryActiveInputs <- MCSwitch
  MaxBranchId = 1
  MaxDepartmentId = 1
  Channels = {"booking"}
  LinkActiveInputs <- MCOn
  ChannelInputs <- MCSwitch
  MaxLinkId = 1
  Requested <- MCRequested
  Dates <- MCDates
  DayLength = 2
  FirstSlot = 1
  SlotCount = 1
  QrTtl = 1
  NaN = NaN
  MaxBookingId = 2
  MaxTime = 5
SPECIFICATION FairGatewaySpec
\* ids and time run out in the end
CHECK_DEADLOCK FALSE
INVARIANTS
  BookingsTypeOK
  SlotExclusive
  OfferedIsBookable
  BookingsAudited
PROPERTIES
  CancelledIsFinal
  QrSingleUse
  DeskSpec
  QrEndsEventually

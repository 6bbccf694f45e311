CONSTANTS
  MaxSlot = 3
  FollowDistance = 1
  SlotWidth = 2
  DepositSlots <- MCDepositSlots
SPECIFICATION Spec
PROPERTIES
  FeedSendCompletes
CHECK_DEADLOCK FALSE

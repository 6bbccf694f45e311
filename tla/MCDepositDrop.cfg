CONSTANTS
  MaxSlot = 3
  FollowDistance = 1
  SlotWidth = 2
  DepositSlots <- MCDepositSlots
SPECIFICATION Spec
PROPERTIES
  DepositsEventuallyEnqueued
CHECK_DEADLOCK FALSE

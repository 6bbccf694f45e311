CONSTANTS
  MaxSlot = 3
  FollowDistance = 1
  SlotWidth = 2
  DepositSlots <- MCDepositSlots
SPECIFICATION Spec
INVARIANTS
  NoWrappedSlotRequest
CHECK_DEADLOCK FALSE

SPECIFICATION FairSpec
CONSTANTS
  wood = wood  iron = iron
  old = old  r1 = r1  r2 = r2
  Absent = Absent  NoReceipt = NoReceipt  NoSnapshot = NoSnapshot
  Names = {iron}
  ReceiptIds = {old, r1}
  Requests <- MCOneRequest
  StoredAtStart <- MCStored
  Limit = 2
  Capacity = 2
PROPERTY ListenerStops

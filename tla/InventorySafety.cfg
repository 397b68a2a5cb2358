SPECIFICATION FairSpec
CONSTANTS
  wood = wood  iron = iron
  old = old  r1 = r1  r2 = r2
  Absent = Absent  NoReceipt = NoReceipt  NoSnapshot = NoSnapshot
  Names = {wood, iron}
  ReceiptIds = {old, r1, r2}
  Requests <- MCRequests
  StoredAtStart <- MCStored
  Limit = 2
  Capacity = 2
INVARIANTS TypeOK GapHolds PanicNeedsRestore ReceiptsExact CleanStop StoreSound
PROPERTIES Conserved ImplementsLedger StopReturns

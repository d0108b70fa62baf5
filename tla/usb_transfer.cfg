SPECIFICATION Spec
CONSTANTS
  Sectors = 3
  MaxCount = 3
  One_transfer = 2
  Requests <- MCRequests
  Payloads <- MCPayloads
  MaxFaults = 2
INVARIANT SuccessIsReal
INVARIANT FaultsNeeded
PROPERTY OnlyRequestedSectors
PROPERTY CallsReturn

SPECIFICATION Spec
CONSTANTS
  Sectors = 3
  MaxCount = 2
  One_transfer = 2
  Requests <- FewRequests
  Payloads <- OnePayload
  MaxFaults = 2
INVARIANT ReadsAreReal

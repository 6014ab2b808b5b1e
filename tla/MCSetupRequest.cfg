SPECIFICATION Spec
CONSTANTS
  None = None
  capacity = 18
  MAX_SSID_LEN = 2
  MIN_PASSWORD_LEN = 2
  MAX_PASSWORD_LEN = 4
  MIN_TOKEN_LEN = 2
  MAX_TOKEN_LEN = 3
  Requests <- MCRequests
  Entries <- MCEntries
INVARIANTS
  RequestTypeOK
  CutIndependent
  FullBufferIsDecided
  FormRoundTrip
PROPERTY EveryRequestDecided

SPECIFICATION RelayFairSpec
CONSTANTS
  Ends <- Requests
  PartsOf <- Groups
  Answer = 2
  Header = 2
  BufSize = 5
  WaitSend = FALSE
  AutoReconnect = TRUE
  Tls = TRUE
  KernelShort = TRUE
  MaxSent = 4
INVARIANTS
  RelayTypeOK
  
  
  ReplyWhole

  
CHECK_DEADLOCK FALSE

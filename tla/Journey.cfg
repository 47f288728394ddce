SPECIFICATION FairSpec
CONSTANTS
  n1 = n1
  n2 = n2
  Nodes = {n1, n2}
  FileA = a
  FileB = b
  Target = "RCLONE"
  MaxLegs = 2
  Setups <- MCSetups
INVARIANTS TypeOK WholeFiles FileAwaitsUpload NoLitter LiveIsLive RetryAsksAnew
PROPERTIES LegsEnd
CHECK_DEADLOCK FALSE

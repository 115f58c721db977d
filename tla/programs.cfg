SPECIFICATION ProgramsSpec
CONSTANTS
  Tick = 20
  Deadlines = {0, 10, 40}
  MaxReap = 3
  Codes = {0, 3, 124}
  Sig = 15
  XargsCalls <- MCCalls
  XargsCodes = {0, 3, 127}
  ReplSize = 1
  NoMemory = TRUE
  Pids = {1, 2, 3, 4}
  Names = {"x", "y"}
  Asked = {"x"}
  Piece = 2
  MaxFound = 3
  MaxChanges = 2
  Tools = {"t1", "t2", "t3"}
  Requests <- MCRequests
  MaxLine = 5
  PipeBuf = 4
  NoChannel = {"t3"}
  Journeys <- MCJourneys
  BufSize = 4
  MaxRedirects = 3
  TmpSize = 2
  MaxWgetFaults = 1
  Stdins <- MCStdins
  PeerTexts <- MCTexts
  MaxNcFaults = 1
  IpCommands <- MCIp
  Nic = "eth0"
  IpStarts <- MCStarts
  Clients = {"p", "q", "r"}
  MaxIpFaults = 1
INVARIANTS TimeoutKeepsTrack BatchesRunEachItem NamedAreFound RequestsArriveWhole BodyIsWhole RelayKeepsBytes CommandsAddUp
CHECK_DEADLOCK FALSE

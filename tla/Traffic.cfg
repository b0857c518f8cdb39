SPECIFICATION TrafficSpec
CONSTANTS
  Users = {"u1"}
  Targets = {"kube1", "kube2", "web"}
  Addresses = {"a1"}
  Flavor <- MCFlavor
  UpstreamAuth <- MCUpstreamAuth
  UpstreamUrl <- MCUpstreamUrl
  RequestHeaders <- MCRequestHeaders
  NUM_REQUESTS = 2
  MAX_WRITERS = 2
  CHANNEL = 1
  MAX_MSGS = 2
  RECORDER = 1
  Paths = {"a"}
  Handles = {"h1", "h2"}
  MAX_REQUESTS = 4
INVARIANTS  ExecRecorded DrainedIsOnDisk TransferReported
CHECK_DEADLOCK FALSE

SPECIFICATION FairSpec
CONSTANTS
  Clients = {c1, c2}
  InfoLen = 2
  BufSize = 2
  SockBuf = 1
  Backlog = 1
  BaseFds = 1
  SoftLimit = 4
  HardLimit = 5
  Ports = 2
  Flaky = {c1}
  c1 = c1
  c2 = c2
PROPERTIES
  ClientsFinish
  GiveUpEndsProgram

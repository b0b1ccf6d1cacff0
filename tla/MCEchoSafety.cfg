SPECIFICATION Spec
CONSTANTS
  Clients = {c1, c2, c3}
  InfoLen = 2
  BufSize = 1
  SockBuf = 1
  Backlog = 1
  BaseFds = 1
  SoftLimit = 4
  HardLimit = 6
  Ports = 2
  Flaky = {c1, c2}
  c1 = c1
  c2 = c2
  c3 = c3
SYMMETRY Symmetry
INVARIANTS
  TypeOK
  EchoComplete
  BytesInOrder
  SocketsReleased
  StopsOnlyWhenDone

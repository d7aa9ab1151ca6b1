SPECIFICATION Spec
CONSTANTS
  KeepAlive = 2
  SocketTimeout = 1
  BufferSize = 2
  LengthWrap = 4
  MaxSize = 5
  MaxSends = 1
  MaxConnects = 2
INVARIANT NothingMisread
PROPERTIES LivePeerIsKept DeadPeerIsLeft
CHECK_DEADLOCK FALSE

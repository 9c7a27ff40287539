SPECIFICATION Spec
CONSTANTS
  CheckInterval = 2
  RpcTimeout = 3
  HeartBeat = 3
  MaxLogins = 2
INVARIANTS ConnectionIsSound UserIsAskedOnce
PROPERTIES Reconnects DeadPeerIsNoticed ClosedStaysClosed

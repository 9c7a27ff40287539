CONSTANTS
  Conns <- ThreeConns
  MountOf <- Neighbours
SPECIFICATION Spec
CHECK_DEADLOCK FALSE
INVARIANTS TreeIsSound MountedDeviceIsReachable LastNotificationIsRight
PROPERTIES LoginPhaseEnds

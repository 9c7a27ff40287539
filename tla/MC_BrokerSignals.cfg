CONSTANTS
  Clients = {c1, c2}
  Mount <- MCMount
  Exported <- ExportedDir
  Subs <- MCSubs
  Signals <- MCSignals
  MaxQueue = 2
  MaxLosses = 1
SPECIFICATION Spec
CHECK_DEADLOCK FALSE
INVARIANTS SlaveSendsWhatIsWanted
PROPERTIES UnwantedSignalsStop

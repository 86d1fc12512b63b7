\* Two channels over one frame of six lines; MCBounds bounds bursts and writes.
CONSTANTS
  ByteSize = 8
  Channels = {0, 1}
  RingCapacity = 2
  LastVisibleV = 5
  Rom <- MCRom
  DeviceByte <- MCDeviceByte
  Setups <- MCSetups
  Writes <- MCWrites
  Masks <- MCMasks
  Bounds <- MCBounds
SPECIFICATION Spec
INVARIANTS
  BurstCopies
  WramThroughPort
  HdmaFollowsTable
  RingShowsHistory
CHECK_DEADLOCK FALSE

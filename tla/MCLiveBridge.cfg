CONSTANTS
  Lines <- MCLines
  MaxLines = 4
  LayerOrder <- MCLayerOrder
  CacheSize = 4
  Ubatches <- MCUbatches
  Views = {1}
  MaxCommands = 3
  MaxShadow = 3
  MaxStaging = 2
  Buffers = {p1, p2, p3, p4, p5}
  NoBuffer = NoBuffer
  NoEvent = NoEvent
  NoGate = NoGate
  Environments <- MCEnvironments
  Tensor <- MCTensor
SYMMETRY BufferSymmetry
SPECIFICATION Spec
INVARIANTS
  BuffersOwned
  StagedBytesBelongToBlock
  StagingFollowsPlan
  JourneysNeedNoSeeding
  ShadowFollowsPlan
  MutatedAtMostOnce
  GateBlocksForCause

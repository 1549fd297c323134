SPECIFICATION TeleopSpec
CONSTANTS
  ProtocolNames <- MCProtocolNames
  ActuatorOrders <- MCActuatorOrders
  Poses <- MCPosesFromZero
  Rest <- MCZero
  NaN = NaN
  Commands <- MCCommands
  MaxStep = 1
  NodeKeys <- MCNodeKeys
  Bones <- MCBones
  Palm <- MCPalm
  BadPoint = BadPoint
  MinimumRetargeting <- MCMinimum
  PinnedSdk <- MCMinimum
  PinnedCommit = "pinned"
  Incompatible <- MCIncompatible
  Frames <- MCFrames
  Environments <- MCEnvironments
  Angles <- MCAngles
  Limit = 2
PROPERTIES SlewLimited
CHECK_DEADLOCK FALSE

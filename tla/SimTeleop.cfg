SPECIFICATION TeleopSpec
CONSTANTS
  ProtocolNames <- MCProtocolNames
  ActuatorOrders <- MCActuatorOrders
  Poses <- MCPoses
  Rest <- MCRest
  NaN = NaN
  Commands <- MCCommands
  MaxStep = 1
  NodeKeys <- MCNodeKeys
  Bones <- MCBones
  Palm <- MCPalm
  BadPoint = BadPoint
  MinimumRetargeting <- MCMinimum
  PinnedSdk <- MCMinimum
  PinnedCommit = "pinned"
  Incompatible <- MCIncompatible
  Frames <- MCFrames
  Environments <- MCEnvironments
  Angles <- MCAngles
  Limit = 2
INVARIANTS TypeOK DisarmedHolds FollowsCommand DrivenOnlyUnread
PROPERTIES SlewWhileDriven
CHECK_DEADLOCK FALSE

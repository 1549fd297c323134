\* One hand, three lines: a hello, an arm and a command; room for one message.
SPECIFICATION FairSpec
CONSTANTS
  Hands = {left}
  MaxLines = 3
  OutRoom = 1
  MaxPushes = 1
INVARIANTS TypeOK LinesInOrder AnsweredOnce OkMeansArmed NoLeaseAfterEnd
PROPERTY AbandonedSessionEnds

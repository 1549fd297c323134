SPECIFICATION FairSpec
INVARIANTS TypeOK PowerIsKnown ReleasedIsCold SilentWhenDisarmed
PROPERTIES SendsOnlyNewTargets WithdrawnGoesCold ImplementsInterface
CHECK_DEADLOCK FALSE

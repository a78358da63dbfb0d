\* The worker and a UI that cancels, answers and leaves at any moment, both threads scheduled.
CONSTANT MayLeave = TRUE
SPECIFICATION FairSpec
INVARIANT WritesOnlyOnApproval
INVARIANT UnaskedCancelSparesTheWrite
INVARIANT RemovalAfterTheWrite
PROPERTY TheEndIsFinal
PROPERTY GivenUpOperationEnds
PROPERTY TheUILearnsTheEnd
CHECK_DEADLOCK FALSE

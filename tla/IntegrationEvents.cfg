CHECK_DEADLOCK FALSE
SPECIFICATION FairSpec
CONSTANTS
    Events = {e1}
    RetryCount = 3
INVARIANTS
    TypeOK
    DeliveriesBounded
    AnswerIsCurrent
PROPERTIES
    PublishSettles

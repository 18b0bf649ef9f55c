SPECIFICATION Spec
CONSTANTS
    Size = 2
    Kinds <- MCKinds
    Reject = "reject"
    MaxEvents = 4
    Requests = {c1, c2}
    StatePage = 1
    EventPage = 2
    Clicks = 1

INVARIANTS AnswersTheNewest NothingSkipped
PROPERTY FeedCatchesUp
CHECK_DEADLOCK FALSE

\* One event for two endpoints, two attempts each, with one worker lost, one
\* manual retry and one malformed answer.
SPECIFICATION FairSpec
CONSTANTS
    Event = {e1}
    NoEvent = NoEvent
    Endpoint = {p1, p2}
    Broken = {p2}
    MAX_ATTEMPTS = 2
    Batch = 2
    MaxTrouble = 1
INVARIANTS TypeOK AcceptedOnce NeverGivesUpEarly
PROPERTIES DeliveredStaysDelivered FailedSettle QueuedSettles
CHECK_DEADLOCK FALSE

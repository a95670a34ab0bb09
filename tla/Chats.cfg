SPECIFICATION FairSpec
CONSTANTS
    c1 = c1
    c2 = c2
    m1 = m1
    m2 = m2
    e1 = e1
    Chat = {c1, c2}
    Message = {m1, m2}
    Event = {e1}
    To <- MCTo
    Troubled = {c1}
    Retries = 1
    Backoffs = 1
    MaxLosses = 1
INVARIANTS ChatsAreSound NothingIsDropped
PROPERTIES QueuedIsSent
CHECK_DEADLOCK FALSE

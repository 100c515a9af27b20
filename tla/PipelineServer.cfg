SPECIFICATION FairSpec
CONSTANTS
    r1 = r1  c1 = c1  c2 = c2  q1 = q1
    Run = {r1}
    Client = {c1, c2}
    Question = {q1}
    MaxEvents = 2
    Headroom = 1
INVARIANTS TypeOK ClientsAreOpen StreamInOrder EndedStreams QuestionsSettle StopReachesAll
PROPERTIES CancelEnds StreamsEnd
CHECK_DEADLOCK FALSE

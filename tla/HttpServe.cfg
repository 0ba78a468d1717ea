SPECIFICATION FairSpec
CONSTANTS
    None = None
    Client = {c1, c2}
    Handler = {"example", "connection"}
    Word <- MCWords
    Requests <- MCRequests
    BUFFER_SIZE = 15
    MaxSegments = 2
    MaxInterrupts = 1
INVARIANTS  AnswerExact
PROPERTY ServedToTheEnd
CHECK_DEADLOCK FALSE

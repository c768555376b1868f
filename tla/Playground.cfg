SPECIFICATION FairSpec
CONSTANTS
    Requests = {r1, r2}
    ChatBatches <- MCChatBatches
    ResponsesBatches <- MCResponsesBatches
    MaxChunks = 2
    MaxChanges = 2
    MaxSaveFaults = 1
INVARIANTS
    TypeOK
    AnswersExact
    Stoppable
PROPERTIES
    FinalStaysFinal
    AnswersSettle
CHECK_DEADLOCK FALSE

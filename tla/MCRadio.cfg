SPECIFICATION WorkersSpec
CONSTANTS
    Freqs = {1, 2}
    Modes = {"USB", "FMW"}
    Powers = {10, 100}
    Channels <- SomeChannels
    AvoidRelayClick = TRUE
    PttType = "CAT"
    QueueMax = 3
    Budget = 3
    Guis = {"g", "h"}
    Free = "no"
    Page = "page"
    Slots = 1
    Limit = 1
    Messages = 2
    Tls = FALSE
    Places = 2
    Visits = 3
    Lines = 2
INVARIANTS CommandsWhole AnsweredInOrder
PROPERTIES KeyedWhereAsked FlushReturns CommandsHandled
CHECK_DEADLOCK FALSE

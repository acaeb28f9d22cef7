SPECIFICATION FairSpec
CONSTANTS
    Crtn = {c1, c2}
    Main = c1
    Observer <- TwoObservers
    Event = {"ev"}
    Forgettable = {"ev", "lastMsg"}
    MaxQueue = 1
    MaxTasks = 1
    None = None
INVARIANTS NoAssertFails LastMsgOnce ToldInOrder CallAnswered
PROPERTIES CallReturns ExitedIsDestroyed TasksStart
CHECK_DEADLOCK FALSE

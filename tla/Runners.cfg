SPECIFICATION FairSpec
CONSTANTS
    Name = {a, b}
    Main = Main
    Mgr = Mgr
    None = None
    MaxBorn = 2
    MaxCrtn = 1
    MainCalls = 3
    OtherCalls = 1
    MaxCalls <- CallBound
    MaxMsgs = 2
    Timed <- MayTimeOut
    Refusing <- Others
INVARIANTS RecordsExact
PROPERTIES LastOneGone WaitEnds MainEnds
CHECK_DEADLOCK FALSE

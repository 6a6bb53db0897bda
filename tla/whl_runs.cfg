SPECIFICATION FairSpec
CONSTANTS
    t1 = t1
    t2 = t2
    scheduler = scheduler
    popper = popper
    Timers = {t1, t2}
    Tickers = {scheduler, popper}
    Silent = {popper}
    Slots = 2
    Levels = 3
    TickLen = 2
    Delays = {1, 5, 13}
    MaxClock = 17
    MaxLag = 4
INVARIANTS TypeOK OnTime
PROPERTIES ImplementsAlarms AllFire

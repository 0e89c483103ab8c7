CONSTANTS
    h = h
    a = a
    b = b
    bot = bot
    Host = h
    Guests = {a, b}
    Bots = {bot}
    MinRacers = 2
    MaxRacers = 3
    MaxTabs = 2
SPECIFICATION Spec
INVARIANTS RaceTypeOK EachRacesOnce ResultsBeforeFinish
PROPERTY RoomsComeToAnEnd
CHECK_DEADLOCK FALSE

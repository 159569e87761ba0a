SPECIFICATION Spec
CONSTANTS
    Sessions = {s1}
    MonsterCount = 1
    MaxHp = 2
    Damages = {1, 2}
    Positions = {p1}
    Start = p0
    MaxMonsterId = 2
    MaxActions = 4
    MaxPlayers = 3
PROPERTIES
    EnteredPlayerLeaves
    OrderlyDeparture
CHECK_DEADLOCK FALSE

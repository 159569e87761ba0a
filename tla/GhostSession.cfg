SPECIFICATION SafeSpec
CONSTANTS
    Sessions = {s1, s2}
    MonsterCount = 1
    MaxHp = 2
    Damages = {1, 2}
    Positions = {p1}
    Start = p0
    MaxMonsterId = 2
    MaxActions = 2
    MaxPlayers = 2
INVARIANTS
    GoneIsReleased
CHECK_DEADLOCK FALSE

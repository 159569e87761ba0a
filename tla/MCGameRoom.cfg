SPECIFICATION SafeSpec
CONSTANTS
    Sessions = {s1, s2}
    MonsterCount = 1
    MaxHp = 2
    Damages = {1, 2}
    Positions = {p1}
    Start = p0
    MaxMonsterId = 2
    MaxActions = 2
    MaxPlayers = 2
INVARIANTS
    TypeOK
    ViewsAgree
    MonstersKept
PROPERTIES
    CrashCauses
CHECK_DEADLOCK FALSE
SYMMETRY SessionSymmetry

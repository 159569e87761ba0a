SPECIFICATION MonsterSpec
CONSTANTS
    Players = {p1, p2}
    Monsters = {m1}
    NoPlayer = NoPlayer
    Positions = {2, 7}
    Start = 2
    Home = 1
    MinX = 0
    MaxX = 4
    Speed = 1
    Near = 2
    MaxHp = 3
    Damages = {1, 2}
    Second = 1
PROPERTIES
    StunLasts
CHECK_DEADLOCK FALSE

CONSTANTS
    Client = {c1, c2}
    Name = {n1}
    Fd = {f1, f2}
    Game = {g1}
    a = a
    z = z
    Letter <- MC_Letters
    WordPool <- MC_Words
    STARTING_HP = 1
    LOBBY_SIZE = 2
    MAX_WRONG_MSGS = 2
    MISSED_PING_TO_FULL_DISCONNECT = 2
    NoClient = NoClient
    NoName = NoName
    NoFd = NoFd
    NoGame = NoGame
SPECIFICATION FairLoopSpec
INVARIANT SnapshotIsCurrent
PROPERTIES
    InputIsTaken
    CloseIsNoticed
    OfflineIsResolved

CONSTANTS
    Client = {c1, c2, c3}
    Name = {n1, n2, n3}
    Fd = {f1, f2, f3}
    Game = {g1, g2}
    a = a
    z = z
    Letter <- MC_Letters
    WordPool <- MC_Words
    STARTING_HP = 1
    LOBBY_SIZE = 3
    MAX_WRONG_MSGS = 2
    MISSED_PING_TO_FULL_DISCONNECT = 3
    NoClient = NoClient
    NoName = NoName
    NoFd = NoFd
    NoGame = NoGame
SPECIFICATION Spec
SYMMETRY Symmetry
INVARIANTS
    PlayersAreConnected
    SessionsTypeOK
    SocketsAgree
    NamesAgree
    OfflineHasSeat
    LimitsAreKept
PROPERTIES
    GamesSpec
    NameKeepsItsSeat
    WrongMsgsStayCounted

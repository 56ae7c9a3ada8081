CONSTANTS
    Client = {c1, c2}
    Name = {n1, n2}
    Fd = {f1, f2}
    Game = {g1}
    a = a
    z = z
    Letter <- MC_Letters
    WordPool <- MC_Words
    STARTING_HP = 1
    LOBBY_SIZE = 2
    MAX_WRONG_MSGS = 1
    MISSED_PING_TO_FULL_DISCONNECT = 2
    NoClient = NoClient
    NoName = NoName
    NoFd = NoFd
    NoGame = NoGame
SPECIFICATION LoopSpec
SYMMETRY Symmetry
INVARIANT ServerSurvives

CONSTANTS
    Client = {me, o1, o2}
    Me = me
    Game = {g1}
    a = a
    b = b
    Letter <- MC_Letters
    WordPool <- MC_Words
    STARTING_HP = 2
    LOBBY_SIZE = 2
    MAX_WRONG_MSGS = 1
    MISSED_PING_TO_FULL_DISCONNECT = 2
    NoClient = NoClient
    NoGame = NoGame
    MaxAttempts = 1
    NoSocket = NoSocket
    Unconnected = Unconnected
    Conn = {k1, k2}
    InBound = 1
    OutBound = 2
    Failures = FALSE
SYMMETRY Symmetry
VIEW View
CONSTRAINTS
    CleanAndShort
    LettersInOrder
ACTION_CONSTRAINT OthersLogInFirst
SPECIFICATION Spec
INVARIANTS
    TypeOK
    StatesAgree
    PlayersAgree
    RoundAgrees
PROPERTY
    LinesAreExpected

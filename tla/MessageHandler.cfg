CONSTANTS
    Client = {c1, c2}
    Fd = {f1, f2}
    Game = {g1}
    Word <- MC_Words
    LengthOf <- MC_Lengths
    Capital = {"A", "Z"}
    Letter = {"A", "Z"}
    WordPool <- MC_WordPool
    NAME_LENGHT = 7
    Message <- MC_Messages
    MaxMerge = 2
    Piece <- MC_Pieces
    MaxPieces = 6
    Name <- MC_Names
    STARTING_HP = 2
    LOBBY_SIZE = 2
    MAX_WRONG_MSGS = 1
    MISSED_PING_TO_FULL_DISCONNECT = 2
    NoClient = NoClient
    NoName = NoName
    NoFd = NoFd
    NoGame = NoGame
SPECIFICATION TextSpec
SYMMETRY Symmetry
VIEW View
INVARIANT GrammarIsAccepted
PROPERTY MergedPlayNothing

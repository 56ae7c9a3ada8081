CONSTANTS
    Client = {c1, c2, c3, c4}
    Game = {g1, g2}
    a = a
    b = b
    z = z
    Letter <- MC_Letters
    WordPool <- MC_Words
    STARTING_HP = 2
    LOBBY_SIZE = 3
    NoClient = NoClient
    NoGame = NoGame
SPECIFICATION FairSpec
INVARIANTS
    TypeOK
    SeatsMatchStates
    ListsMatchGames
    OneAliveOnTurn
    FoundCharsCount
    LobbyIsHealed
PROPERTIES
    RoundKeepsItsTerms
    TurnPassesNobodyAlive
    RoundEndsByTheRules
    GamesAreRounds
    GuessedRoundsEnd

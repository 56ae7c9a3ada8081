------------------------------ MODULE GameManager ------------------------------
(***************************************************************************)
(* The game side of the hangman server: class GameManager, class Game, the *)
(* game fields of class Client, and what Server::disconnet does to the     *)
(* game of the client it deletes.                                          *)
(*                                                                         *)
(* The server runs every handler to its end before it looks at the next    *)
(* socket, so each handler is one action.  A Client or a Game stands for a *)
(* pointer: an element that is not in use has the values of a fresh        *)
(* object.  Sending messages changes no state of the server and is left    *)
(* out.                                                                    *)
(***************************************************************************)
EXTENDS ClientState, Lists, Integers, FiniteSets, Sequences, SequencesExt

CONSTANTS
    Client,       \* client objects
    Game,         \* game objects
    Letter,       \* the letters A..Z a player may name
    WordPool,     \* WORD_POOL of config.h, each word a sequence of letters
    STARTING_HP,  \* config.h
    LOBBY_SIZE,   \* the literal 4 of GameManager.cpp and Server.cpp: a full game
    NoClient,     \* the null Client pointer
    NoGame        \* the null Game pointer

ASSUME NullAssumption == NoClient \notin Client /\ NoGame \notin Game
ASSUME WordAssumption == WordPool # {} /\ WordPool \subseteq Seq(Letter) \ {<<>>}
ASSUME HPAssumption == STARTING_HP \in Nat \ {0}
ASSUME LobbyAssumption == LOBBY_SIZE \in Nat /\ LOBBY_SIZE >= 2

VARIABLES
    client_state,           \* Client::client_state
    game,                   \* Client::game
    hp,                     \* Client::hp
    players,                \* Game::client_list, in the order of joining
    client_on_turn,         \* Game::client_on_turn
    word,                   \* Game::word
    quessed_chars,          \* Game::quessed_chars: letter -> positions, {} if absent
    found_chars,            \* Game::found_chars
    not_started_games,      \* the list whose front JOIN picks
    not_started_games_full, \* std::list that is only pushed to and removed from
    started_games,          \* likewise
    spinning                \* the thread never leaves the loop of Game::nextClient

roundVars == <<word, quessed_chars, found_chars>>
listVars  == <<not_started_games, not_started_games_full, started_games>>
vars == <<client_state, game, hp, players, client_on_turn, roundVars, listVars, spinning>>

-----------------------------------------------------------------------------
(* Plausible mistakes.  No action uses them: each replaces the definition  *)
(* it is named after, to see that a property notices.                      *)

\* The loop condition of nextClient as hp < 0.
IsAliveAtZero(c, h) == h[c] >= 0

\* lastAliveClient counts hp > 1.
AliveWithTwo(ps, h) == {c \in Range(ps) : h[c] > 1}

\* nextClient advances once before the loop.
VisitedSkippingOne(ps, i, k) == ps[((i + k) % Len(ps)) + 1]

\* announceWinner without initHP.
HealedNobody(ps) == hp

\* checkQuess without the test for a letter already found.
RevealedAgain(g, ch) == {i \in DOMAIN word[g] : word[g][i] = ch}

\* quess without decHP.
HurtNot(c) == hp

\* joinGame takes any game with room, a started one too.
JoinableWithRoom(g) ==
    IF not_started_games = <<>> THEN Len(players[g]) < LOBBY_SIZE
                                ELSE g = Head(not_started_games)

\* announceWinner without the case of a full game.
AnnounceWinnerAlwaysOpen(g, ps) ==
    /\ started_games' = started_games \ {g}
    /\ not_started_games' = Append(not_started_games, g)
    /\ UNCHANGED not_started_games_full

\* disconnectClient without removeClient for a client in the lobby.
LeaveUnseatedOrLobby(c) ==
    /\ ~spinning
    /\ client_state[c] \in {"UNLOGED", "LOGGED", "LOBBY"}
    /\ client_state' = [client_state EXCEPT ![c] = "UNLOGED"]
    /\ UNCHANGED <<game, hp, players, client_on_turn, roundVars, listVars, spinning>>

-----------------------------------------------------------------------------
(* Helpers *)

Members(g) == Range(players[g])

Positions(w, ch) == {i \in DOMAIN w : w[i] = ch}

\* The game objects that exist: one is created with its first player and
\* deleted with its last one.
Live(g) == players[g] # <<>>

\* Game::addClient: who comes last is last in turn.
AddClient(g, c) == Append(players[g], c)

\* Every client of the list ps gets state s.
SetStates(ps, s) == [c \in Client |-> IF c \in Range(ps) THEN s ELSE client_state[c]]

IsAlive(c, h) == h[c] > 0

Alive(ps, h) == {c \in Range(ps) : IsAlive(c, h)}

\* The k-th element that the loop of Game::nextClient looks at when it starts
\* from index i.  libstdc++ keeps std::list circular with end() as one more
\* node, so std::next(end()) is begin(): index 0 leads to the front.
Visited(ps, i, k) == IF i + k <= Len(ps) THEN ps[i + k] ELSE ps[i + k - Len(ps)]

\* Game::nextClient with the life points h: the first one visited that is alive.
\* Without anyone alive the do-while never ends (action branches with spinning').
NextClient(ps, i, h) ==
    LET first == CHOOSE k \in 1..Len(ps) :
                    /\ IsAlive(Visited(ps, i, k), h)
                    /\ \A j \in 1..(k - 1) : ~IsAlive(Visited(ps, i, j), h)
    IN Visited(ps, i, first)

\* Game::getRandomWord: any word of the pool.
RandomWords == IF WordPool = {} THEN {<<>>} ELSE WordPool

\* Client::initHP for every client of the list ps.
Healed(ps) == [c \in Client |-> IF c \in Range(ps) THEN STARTING_HP ELSE hp[c]]

-----------------------------------------------------------------------------
Init ==
    /\ client_state = [c \in Client |-> "UNLOGED"]
    /\ game = [c \in Client |-> NoGame]
    /\ hp = [c \in Client |-> 0]
    /\ players = [g \in Game |-> <<>>]
    /\ client_on_turn = [g \in Game |-> NoClient]
    /\ word = [g \in Game |-> <<>>]
    /\ quessed_chars = [g \in Game |-> [ch \in Letter |-> {}]]
    /\ found_chars = [g \in Game |-> 0]
    /\ not_started_games = <<>>
    /\ not_started_games_full = {}
    /\ started_games = {}
    /\ spinning = FALSE

\* ClientManager::logClient for a name nobody has: the client may now JOIN.
LogIn(c) ==
    /\ ~spinning
    /\ client_state[c] = "UNLOGED"
    /\ client_state' = [client_state EXCEPT ![c] = "LOGGED"]
    /\ UNCHANGED <<game, hp, players, client_on_turn, roundVars, listVars, spinning>>

\* JOIN: the game at the front of not_started_games, or a new one.
JoinableGame(g) ==
    IF not_started_games = <<>> THEN ~Live(g) ELSE g = Head(not_started_games)

\* GameManager::joinGame and addClient.  A game that becomes full leaves
\* the list of joinable games.
JoinGame(c) ==
    /\ ~spinning
    /\ client_state[c] = "LOGGED"
    /\ \E g \in Game :
        /\ JoinableGame(g)
        /\ LET seats == AddClient(g, c)
               open  == IF not_started_games = <<>> THEN <<g>> ELSE not_started_games
           IN /\ players' = [players EXCEPT ![g] = seats]
              /\ IF Len(seats) = LOBBY_SIZE
                 THEN /\ not_started_games' = Without(open, g)
                      /\ not_started_games_full' = not_started_games_full \cup {g}
                 ELSE /\ not_started_games' = open
                      /\ UNCHANGED not_started_games_full
        /\ game' = [game EXCEPT ![c] = g]
    /\ hp' = [hp EXCEPT ![c] = STARTING_HP]
    /\ client_state' = [client_state EXCEPT ![c] = "LOBBY"]
    /\ UNCHANGED <<client_on_turn, roundVars, started_games, spinning>>

\* Game::gameStart: a word, no letter known, the first player on turn.  The life
\* points are as the lobby left them.
GameStart(g) ==
    /\ found_chars' = [found_chars EXCEPT ![g] = 0]
    /\ \E w \in RandomWords : word' = [word EXCEPT ![g] = w]
    /\ client_on_turn' = [client_on_turn EXCEPT ![g] = Head(players[g])]
    /\ quessed_chars' = [quessed_chars EXCEPT ![g] = [ch \in Letter |-> {}]]
    /\ client_state' = [SetStates(players[g], "WAITING_FOR_TURN")
                            EXCEPT ![Head(players[g])] = "ON_TURN"]

\* START from a lobby of at least two: GameManager::startGame.
StartGame(c) ==
    /\ ~spinning
    /\ client_state[c] = "LOBBY"
    /\ LET g == game[c] IN
        /\ Len(players[g]) >= 2
        /\ IF Len(players[g]) = LOBBY_SIZE
           THEN /\ not_started_games_full' = not_started_games_full \ {g}
                /\ UNCHANGED not_started_games
           ELSE /\ not_started_games' = Without(not_started_games, g)
                /\ UNCHANGED not_started_games_full
        /\ started_games' = started_games \cup {g}
        /\ GameStart(g)
    /\ UNCHANGED <<game, hp, players, spinning>>

\* GameManager::announceWinner for the game g with the players ps: back to the
\* lists of games that are not started, everyone in the lobby with full hp.
AnnounceWinner(g, ps) ==
    /\ started_games' = started_games \ {g}
    /\ IF Len(ps) = LOBBY_SIZE
       THEN /\ not_started_games_full' = not_started_games_full \cup {g}
            /\ UNCHANGED not_started_games
       ELSE /\ not_started_games' = Append(not_started_games, g)
            /\ UNCHANGED not_started_games_full

-----------------------------------------------------------------------------
(* QUESS by the client on turn *)

\* Game::checkQuess: what the letter reveals, nothing if it is already known.
Revealed(g, ch) == IF quessed_chars[g][ch] # {} THEN {} ELSE Positions(word[g], ch)

Hurt(c) == [hp EXCEPT ![c] = @ - 1]

MayQuess(c) == ~spinning /\ client_state[c] = "ON_TURN"

\* A wrong letter while some player stays alive: the turn moves on, and if only
\* one is alive, that one wins (Game::lastAliveClient).
BadQuess(c, ch) ==
    /\ MayQuess(c)
    /\ LET g    == game[c]
           ps   == players[g]
           next == NextClient(ps, Find(ps, client_on_turn[g]), Hurt(c))
       IN /\ Revealed(g, ch) = {}
          /\ Alive(ps, Hurt(c)) # {}
          /\ client_on_turn' = [client_on_turn EXCEPT ![g] = next]
          /\ IF Cardinality(Alive(ps, Hurt(c))) = 1
             THEN /\ AnnounceWinner(g, ps)
                  /\ client_state' = SetStates(ps, "LOBBY")
                  /\ hp' = Healed(ps)
             ELSE /\ client_state' = [client_state EXCEPT ![c] = "WAITING_FOR_TURN",
                                                          ![next] = "ON_TURN"]
                  /\ hp' = Hurt(c)
                  /\ UNCHANGED listVars
    /\ UNCHANGED <<game, players, roundVars, spinning>>

\* A wrong letter that leaves nobody alive: Game::nextClient never returns.
BadQuessSpins(c, ch) ==
    /\ MayQuess(c)
    /\ Revealed(game[c], ch) = {}
    /\ Alive(players[game[c]], Hurt(c)) = {}
    /\ hp' = Hurt(c)
    /\ client_state' = [client_state EXCEPT ![c] = "WAITING_FOR_TURN"]
    /\ spinning' = TRUE
    /\ UNCHANGED <<game, players, client_on_turn, roundVars, listVars>>

\* Game::isClientWinner, for the number of positions found by now.
IsClientWinner(g, found) == found = Len(word[g])

\* A letter of the word that is not yet known: the player stays on turn, or wins
\* when it was the last one.
GoodQuess(c, ch) ==
    /\ MayQuess(c)
    /\ LET g == game[c]
           found == found_chars[g] + Cardinality(Revealed(g, ch))
       IN /\ Revealed(g, ch) # {}
          /\ quessed_chars' = [quessed_chars EXCEPT ![g][ch] = Revealed(g, ch)]
          /\ found_chars' = [found_chars EXCEPT ![g] = found]
          /\ IF IsClientWinner(g, found)
             THEN /\ AnnounceWinner(g, players[g])
                  /\ client_state' = SetStates(players[g], "LOBBY")
                  /\ hp' = Healed(players[g])
             ELSE UNCHANGED <<client_state, hp, listVars>>
    /\ UNCHANGED <<game, players, client_on_turn, word, spinning>>

Quess(c, ch) == BadQuess(c, ch) \/ BadQuessSpins(c, ch) \/ GoodQuess(c, ch)

-----------------------------------------------------------------------------
(* Server::disconnet: the client leaves its game and its object is deleted *)

\* The client had no seat.
LeaveUnseated(c) ==
    /\ ~spinning
    /\ client_state[c] \in {"UNLOGED", "LOGGED"}
    /\ client_state' = [client_state EXCEPT ![c] = "UNLOGED"]
    /\ UNCHANGED <<game, hp, players, client_on_turn, roundVars, listVars, spinning>>

\* The client sat in a lobby.  A full lobby becomes joinable again, an empty
\* one is deleted.
LeaveLobby(c) ==
    /\ ~spinning
    /\ client_state[c] = "LOBBY"
    /\ LET g    == game[c]
           left == Without(players[g], c)
           full == Len(players[g]) = LOBBY_SIZE
           open == IF full THEN Append(not_started_games, g) ELSE not_started_games
       IN /\ players' = [players EXCEPT ![g] = left]
          /\ not_started_games_full' = IF full THEN not_started_games_full \ {g}
                                               ELSE not_started_games_full
          /\ IF left = <<>>
             THEN /\ not_started_games' = Without(open, g)
                  /\ client_on_turn' = [client_on_turn EXCEPT ![g] = NoClient]
                  /\ word' = [word EXCEPT ![g] = <<>>]
                  /\ quessed_chars' = [quessed_chars EXCEPT ![g] = [ch \in Letter |-> {}]]
                  /\ found_chars' = [found_chars EXCEPT ![g] = 0]
             ELSE /\ not_started_games' = open
                  /\ client_on_turn' = IF Len(left) = 1
                                       THEN [client_on_turn EXCEPT ![g] = left[1]]
                                       ELSE client_on_turn
                  /\ UNCHANGED roundVars
    /\ client_state' = [client_state EXCEPT ![c] = "UNLOGED"]
    /\ hp' = [hp EXCEPT ![c] = 0]
    /\ game' = [game EXCEPT ![c] = NoGame]
    /\ UNCHANGED <<started_games, spinning>>

\* Game::removeClient looks for a new client on turn and finds nobody alive.
LeaveSpins(c) ==
    /\ ~spinning
    /\ client_state[c] = "ON_TURN"
    /\ LET g == game[c]
           left == Without(players[g], c)
       IN /\ Alive(left, hp) = {}
          /\ players' = [players EXCEPT ![g] = left]
    /\ spinning' = TRUE
    /\ UNCHANGED <<client_state, game, hp, client_on_turn, roundVars, listVars>>

\* The client played in a started game: the turn it held goes to the first one
\* alive from the front of the list, and a player left alone wins.  A started
\* game has two players (SeatsMatchStates), so one of them stays.
LeaveGame(c) ==
    /\ ~spinning
    /\ client_state[c] \in InGame
    /\ LET g    == game[c]
           left == Without(players[g], c)
           turn == IF client_state[c] = "ON_TURN"
                   THEN NextClient(left, Find(left, c), hp)
                   ELSE client_on_turn[g]
       IN /\ client_state[c] = "ON_TURN" => Alive(left, hp) # {}
          /\ players' = [players EXCEPT ![g] = left]
          /\ IF Len(left) = 1
             THEN /\ client_on_turn' = [client_on_turn EXCEPT ![g] = left[1]]
                  /\ AnnounceWinner(g, left)
                  /\ client_state' = [client_state EXCEPT ![c] = "UNLOGED", ![left[1]] = "LOBBY"]
                  /\ hp' = [Healed(left) EXCEPT ![c] = 0]
             ELSE /\ client_on_turn' = [client_on_turn EXCEPT ![g] = turn]
                  /\ client_state' = [client_state EXCEPT ![turn] = "ON_TURN", ![c] = "UNLOGED"]
                  /\ hp' = [hp EXCEPT ![c] = 0]
                  /\ UNCHANGED listVars
    /\ game' = [game EXCEPT ![c] = NoGame]
    /\ UNCHANGED <<roundVars, spinning>>

Leave(c) == LeaveUnseated(c) \/ LeaveLobby(c) \/ LeaveGame(c) \/ LeaveSpins(c)

\* The thread is lost in Game::nextClient: no handler runs any more.
Spin == spinning /\ UNCHANGED vars

Next ==
    \/ \E c \in Client : LogIn(c) \/ JoinGame(c) \/ StartGame(c) \/ Leave(c)
    \/ \E c \in Client, ch \in Letter : Quess(c, ch)
    \/ Spin

Spec == Init /\ [][Next]_vars

-----------------------------------------------------------------------------
(* What makes the game side correct.  Once the thread spins nothing is   *)
(* repaired any more, so the invariants speak of the server that runs.     *)

TypeOK ==
    /\ client_state \in [Client -> ClientState]
    /\ game \in [Client -> Game \cup {NoGame}]
    /\ hp \in [Client -> 0..STARTING_HP]
    /\ players \in [Game -> Seq(Client)]
    /\ client_on_turn \in [Game -> Client \cup {NoClient}]
    /\ word \in [Game -> Seq(Letter)]
    /\ quessed_chars \in [Game -> [Letter -> SUBSET Nat]]
    /\ found_chars \in [Game -> Nat]
    /\ not_started_games \in Seq(Game)
    /\ not_started_games_full \subseteq Game
    /\ started_games \subseteq Game
    /\ spinning \in BOOLEAN

\* A client has a seat exactly when it is in the list of the one game its game
\* pointer names, and it is there once: no dangling pointer in either
\* direction (Client::game against Game::client_list).
SeatsMatchStates ==
    ~spinning =>
        /\ \A g \in Game : IsInjective(players[g])
        /\ \A c \in Client : client_state[c] \in Seated => game[c] # NoGame
        /\ \A c \in Client, g \in Game :
              c \in Members(g) <=> client_state[c] \in Seated /\ game[c] = g

InLobby(g) == \A c \in Members(g) : client_state[c] = "LOBBY"
Playing(g) == \A c \in Members(g) : client_state[c] \in InGame

\* The list that a game is in fits its players: how many and in which state.
Placed(g) ==
    /\ g \in Range(not_started_games) <=>
          Live(g) /\ InLobby(g) /\ Len(players[g]) < LOBBY_SIZE
    /\ g \in not_started_games_full <=>
          InLobby(g) /\ Len(players[g]) = LOBBY_SIZE
    /\ g \in started_games <=>
          Playing(g) /\ Len(players[g]) \in 2..LOBBY_SIZE
    /\ Live(g) =>
          g \in Range(not_started_games) \cup not_started_games_full \cup started_games

\* Every game object is in exactly one of the three lists of GameManager, once,
\* and in the one that fits.  Six handlers move games between the lists, two of
\* them on the size alone.
ListsMatchGames ==
    ~spinning => IsInjective(not_started_games) /\ \A g \in Game : Placed(g)

\* In a started game one player is on turn, it is the one the game points to,
\* and it is alive: a dead or a second player on turn could QUESS for the others.
OneAliveOnTurn ==
    ~spinning =>
        \A g \in started_games :
            /\ {c \in Members(g) : client_state[c] = "ON_TURN"} = {client_on_turn[g]}
            /\ hp[client_on_turn[g]] > 0

\* The counter that decides who wins counts the positions the players see, each
\* once, and a round in which all of them are seen is over.
FoundCharsCount ==
    ~spinning =>
        \A g \in started_games :
            /\ \A ch \in Letter :
                  quessed_chars[g][ch] \in {{}, Positions(word[g], ch)}
            /\ found_chars[g] = Cardinality(UNION Range(quessed_chars[g]))
            /\ found_chars[g] < Len(word[g])

\* Whoever waits in a lobby starts the next round with all life points, whatever
\* the last round left: gameStart does not set them, joinGame and
\* announceWinner do.
LobbyIsHealed ==
    ~spinning => \A c \in Client : client_state[c] = "LOBBY" => hp[c] = STARTING_HP

StillStarted(g) == g \in started_games /\ g \in started_games'

KeepsItsTerms(g) ==
    /\ Range(players[g]') \subseteq Members(g)
    /\ word[g]' = word[g]
    /\ \A ch \in Letter : quessed_chars[g][ch] \subseteq quessed_chars[g][ch]'

\* During a round nobody joins, no word is exchanged, and no letter the players
\* have seen is hidden again.
RoundKeepsItsTerms == [][\A g \in Game : StillStarted(g) => KeepsItsTerms(g)]_vars

\* While the players stay the same, the turn moves on only past the dead: the
\* players between the old and the new one have no life points left.
TurnPassesNobodyAlive ==
    [][\A g \in Game :
        (StillStarted(g) /\ players[g]' = players[g] /\ client_on_turn[g]' # client_on_turn[g]) =>
            LET from == Find(players[g], client_on_turn[g])
                \* the distance of the player p from the old one, in the order of turns
                Steps(p) == (Find(players[g], p) - from + Len(players[g])) % Len(players[g])
            IN \A p \in Members(g) :
                  Steps(p) \in 1..(Steps(client_on_turn[g]') - 1) => hp[p] = 0]_vars

\* A round ends for a reason of the rules only: the word is complete, one
\* player is alive after a wrong guess, or one player is left.
RoundEndsByTheRules ==
    [][\A g \in started_games \ started_games' :
        \/ UNION Range(quessed_chars[g]') = DOMAIN word[g]
        \/ Len(players[g]') = 1
        \/ \E w \in Members(g) : \A p \in Members(g) \ {w} :
              hp[p] = 0 \/ (p = client_on_turn[g] /\ hp[p] = 1)]_vars

\* Every guess brings the round nearer to its end, a repeated letter too: if the
\* players of a game keep guessing, its round ends (or the server is lost).
FairSpec ==
    /\ Spec
    /\ \A g \in Game : WF_vars(\E c \in Client, ch \in Letter : game[c] = g /\ Quess(c, ch))

GuessedRoundsEnd ==
    \A g \in Game : (g \in started_games) ~> (g \notin started_games \/ spinning)

=============================================================================

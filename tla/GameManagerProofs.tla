---------------------------- MODULE GameManagerProofs ----------------------------
(***************************************************************************)
(* Proofs about GameManager for any number of clients, games, letters and  *)
(* words.                                                                  *)
(***************************************************************************)
EXTENDS GameManager, ListLemmas, FiniteSetTheorems

-----------------------------------------------------------------------------
(* The inductive invariant *)

\* The game of the client c points to the one of its players that is on turn, and
\* that one is alive.
Held(c) ==
    \E t \in Client :
        /\ t = client_on_turn[game[c]]
        /\ game[t] = game[c]
        /\ client_state[t] = "ON_TURN"
        /\ hp[t] > 0
        /\ client_state[c] = "ON_TURN" => c = t

\* So it is for every player in a round.
TurnHolder ==
    ~spinning => \A c \in Client : client_state[c] \in InGame => Held(c)

IInv ==
    /\ TypeOK
    /\ SeatsMatchStates
    /\ ListsMatchGames
    /\ TurnHolder
    /\ LobbyIsHealed

-----------------------------------------------------------------------------
(* Lemmas about the operators of the model *)

\* The loop of nextClient looks at elements of the list only, and at each of them.
LEMMA VisitedCovers ==
    ASSUME NEW ps \in Seq(Client), NEW i \in 0..Len(ps)
    PROVE  /\ \A k \in 1..Len(ps) : Visited(ps, i, k) \in Range(ps)
           /\ \A c \in Range(ps) : \E k \in 1..Len(ps) : Visited(ps, i, k) = c
<1>1. Len(ps) \in Nat /\ Range(ps) = {ps[k] : k \in 1..Len(ps)}
  BY SeqFacts
<1>2. ASSUME NEW k \in 1..Len(ps) PROVE Visited(ps, i, k) \in Range(ps)
  <2>1. CASE i + k <= Len(ps)
    BY <1>1, <2>1, i + k \in 1..Len(ps) DEF Visited
  <2>2. CASE ~(i + k <= Len(ps))
    BY <1>1, <2>2, i + k - Len(ps) \in 1..Len(ps) DEF Visited
  <2>. QED
    BY <2>1, <2>2
<1>3. ASSUME NEW c \in Range(ps) PROVE \E k \in 1..Len(ps) : Visited(ps, i, k) = c
  <2>1. PICK m \in 1..Len(ps) : ps[m] = c
    BY <1>1
  <2>2. CASE m > i
    <3>1. m - i \in 1..Len(ps) /\ i + (m - i) = m /\ m <= Len(ps)
      BY <1>1, <2>2
    <3>2. Visited(ps, i, m - i) = c
      BY <2>1, <3>1 DEF Visited
    <3>. QED
      BY <3>1, <3>2
  <2>3. CASE ~(m > i)
    <3> DEFINE k == m - i + Len(ps)
    <3>1. k \in 1..Len(ps) /\ ~(i + k <= Len(ps)) /\ i + k - Len(ps) = m
      BY <1>1, <2>3
    <3>2. Visited(ps, i, k) = c
      BY <2>1, <3>1 DEF Visited
    <3>. QED
      BY <3>1, <3>2
  <2>. QED
    BY <2>2, <2>3
<1>. QED
  BY <1>2, <1>3

\* nextClient stops at the first one that is alive: nobody before it is.
LEMMA NextClientIsFirst ==
    ASSUME NEW ps \in Seq(Client), NEW i \in 0..Len(ps), NEW h \in [Client -> Int],
           Alive(ps, h) # {}
    PROVE  \E k \in 1..Len(ps) :
              /\ NextClient(ps, i, h) = Visited(ps, i, k)
              /\ IsAlive(Visited(ps, i, k), h)
              /\ \A j \in 1..(k - 1) : ~IsAlive(Visited(ps, i, j), h)
<1> DEFINE I == {k \in 1..Len(ps) : IsAlive(Visited(ps, i, k), h)}
           First(k) == /\ IsAlive(Visited(ps, i, k), h)
                       /\ \A j \in 1..(k - 1) : ~IsAlive(Visited(ps, i, j), h)
<1>1. Len(ps) \in Nat /\ Range(ps) \subseteq Client
  BY SeqFacts
<1>2. I # {} /\ I \subseteq Nat
  <2>1. PICK c \in Range(ps) : IsAlive(c, h)
    BY DEF Alive
  <2>2. PICK k \in 1..Len(ps) : Visited(ps, i, k) = c
    BY VisitedCovers
  <2>. QED
    BY <1>1, <2>1, <2>2
<1>3. PICK m \in I : \A k \in I : m <= k
  BY <1>2, LeastNumber
<1>4. First(m)
  <2> SUFFICES ASSUME NEW j \in 1..(m - 1), j \in I
               PROVE  FALSE
    BY <1>1, <1>3
  <2>. QED
    BY <1>1, <1>3
<1>5. \E k \in 1..Len(ps) : First(k)
  BY <1>3, <1>4
<1> DEFINE first == CHOOSE k \in 1..Len(ps) : First(k)
<1>6. first \in 1..Len(ps) /\ First(first)
  <2> HIDE DEF First
  <2>. QED
    BY <1>5
<1>7. NextClient(ps, i, h) = Visited(ps, i, first)
  BY DEF NextClient
<1> HIDE DEF first
<1>. QED
  BY <1>6, <1>7

\* If some player of the list is alive, nextClient returns one that is.
LEMMA NextClientIsAlive ==
    ASSUME NEW ps \in Seq(Client), NEW i \in 0..Len(ps), NEW h \in [Client -> Int],
           Alive(ps, h) # {}
    PROVE  /\ NextClient(ps, i, h) \in Range(ps)
           /\ NextClient(ps, i, h) \in Client
           /\ h[NextClient(ps, i, h)] > 0
<1>1. Range(ps) \subseteq Client
  BY SeqFacts
<1>2. PICK k \in 1..Len(ps) : /\ NextClient(ps, i, h) = Visited(ps, i, k)
                              /\ IsAlive(Visited(ps, i, k), h)
  BY NextClientIsFirst
<1>3. Visited(ps, i, k) \in Range(ps)
  BY VisitedCovers
<1>. QED
  BY <1>1, <1>2, <1>3 DEF IsAlive

\* Find is a place of the list or the end.
LEMMA FindInBounds ==
    ASSUME NEW ps \in Seq(Client), NEW c
    PROVE  Find(ps, c) \in 0..Len(ps)
<1>1. CASE c \in Range(ps)
  BY <1>1, FindFinds, SeqFacts
<1>2. CASE c \notin Range(ps)
  BY <1>2, SeqFacts DEF Find
<1>. QED
  BY <1>1, <1>2

\* The members of the list of a game are clients with a seat in that game.
LEMMA SeatFacts ==
    ASSUME TypeOK, SeatsMatchStates, ~spinning
    PROVE  /\ \A g \in Game : /\ players[g] \in Seq(Client)
                             /\ IsInjective(players[g])
                             /\ Range(players[g]) \subseteq Client
           /\ \A c \in Client : client_state[c] \in Seated =>
                 game[c] \in Game /\ c \in Range(players[game[c]])
           /\ \A c \in Client, g \in Game :
                 c \in Range(players[g]) <=> client_state[c] \in Seated /\ game[c] = g
<1>1. \A g \in Game : players[g] \in Seq(Client)
  BY DEF TypeOK
<1>2. \A g \in Game : Range(players[g]) \subseteq Client
  BY <1>1, SeqFacts
<1>. QED
  BY <1>1, <1>2 DEF SeatsMatchStates, Members, TypeOK

\* Who waits in a lobby shares it with all players of the game, and the game
\* is in one of the lists of games that are not started.
LEMMA LobbyMates ==
    ASSUME IInv, ~spinning, NEW c \in Client, client_state[c] = "LOBBY"
    PROVE  /\ game[c] \in Game /\ c \in Range(players[game[c]])
           /\ InLobby(game[c]) /\ game[c] \notin started_games
           /\ Len(players[game[c]]) \in 1..LOBBY_SIZE
           /\ game[c] \in Range(not_started_games) <=> Len(players[game[c]]) < LOBBY_SIZE
           /\ game[c] \in not_started_games_full <=> Len(players[game[c]]) = LOBBY_SIZE
<1>1. game[c] \in Game /\ c \in Range(players[game[c]])
  BY SeatFacts DEF IInv, Seated
<1>2. Placed(game[c])
  BY <1>1 DEF IInv, ListsMatchGames
<1>3. /\ players[game[c]] \in Seq(Client) /\ Live(game[c])
      /\ Len(players[game[c]]) \in Nat /\ Len(players[game[c]]) # 0
  BY <1>1, EmptyList, SeqFacts DEF IInv, TypeOK, Live
<1>4. ~Playing(game[c])
  BY <1>1 DEF Playing, Members, InGame
<1>. QED
  BY <1>1, <1>2, <1>3, <1>4, LobbyAssumption DEF Placed

\* Who plays in a round shares it with all players of the game, at least one
\* more, and the game is started.
LEMMA RoundMates ==
    ASSUME IInv, ~spinning, NEW c \in Client, client_state[c] \in InGame
    PROVE  /\ game[c] \in Game /\ c \in Range(players[game[c]])
           /\ Playing(game[c]) /\ game[c] \in started_games
           /\ Len(players[game[c]]) \in 2..LOBBY_SIZE
           /\ game[c] \notin Range(not_started_games)
           /\ game[c] \notin not_started_games_full
<1>1. game[c] \in Game /\ c \in Range(players[game[c]])
  BY SeatFacts DEF IInv, Seated
<1>2. Placed(game[c])
  BY <1>1 DEF IInv, ListsMatchGames
<1>3. Live(game[c])
  BY <1>1, EmptyList DEF IInv, TypeOK, Live
<1>4. ~InLobby(game[c])
  BY <1>1 DEF InLobby, Members, InGame
<1>. QED
  BY <1>1, <1>2, <1>3, <1>4 DEF Placed

\* A game whose players, their states and its place a step leaves alone stays
\* placed.
LEMMA PlacedElsewhere ==
    ASSUME NEW h \in Game, Placed(h), players[h]' = players[h],
           \A d \in Range(players[h]) : client_state[d]' = client_state[d],
           h \in Range(not_started_games') <=> h \in Range(not_started_games),
           h \in not_started_games_full' <=> h \in not_started_games_full,
           h \in started_games' <=> h \in started_games
    PROVE  Placed(h)'
<1>1. /\ InLobby(h)' <=> InLobby(h)
      /\ Playing(h)' <=> Playing(h)
      /\ Live(h)' <=> Live(h)
  BY DEF InLobby, Playing, Members, Live
<1>. QED
  BY <1>1 DEF Placed

\* A turn is still held if the step leaves the players of the game alone.
LEMMA HeldElsewhere ==
    ASSUME NEW d \in Client, Held(d), game[d]' = game[d],
           client_state[d]' = client_state[d],
           client_on_turn[game[d]]' = client_on_turn[game[d]],
           \A e \in Client :
              client_state[e] \in InGame /\ game[e] = game[d] =>
                /\ client_state[e]' = client_state[e]
                /\ hp[e]' = hp[e]
                /\ game[e]' = game[e]
    PROVE  Held(d)'
<1>1. PICK t \in Client :
        /\ t = client_on_turn[game[d]] /\ game[t] = game[d]
        /\ client_state[t] = "ON_TURN" /\ hp[t] > 0
        /\ client_state[d] = "ON_TURN" => d = t
  BY DEF Held
<1>2. t = client_on_turn[game[d]]'
  BY <1>1
<1>3. client_state[t]' = client_state[t] /\ hp[t]' = hp[t] /\ game[t]' = game[t]
  BY <1>1 DEF InGame
<1>. QED
  BY <1>1, <1>2, <1>3 DEF Held

\* A started game has players, all of them play, and it is in no other list.
LEMMA StartedFacts ==
    ASSUME IInv, ~spinning, NEW g \in started_games
    PROVE  /\ g \in Game /\ Playing(g)
           /\ Len(players[g]) \in 2..LOBBY_SIZE
           /\ g \notin Range(not_started_games)
           /\ g \notin not_started_games_full
           /\ \E c \in Client : c \in Range(players[g]) /\ client_state[c] \in InGame /\ game[c] = g
<1>1. g \in Game
  BY DEF IInv, TypeOK
<1>2. Placed(g)
  BY <1>1 DEF IInv, ListsMatchGames
<1>3. Playing(g) /\ Len(players[g]) \in 2..LOBBY_SIZE
  BY <1>2 DEF Placed
<1>4. players[g] \in Seq(Client) /\ Len(players[g]) # 0
  BY <1>1, <1>3 DEF IInv, TypeOK
<1>5. PICK c : c \in Range(players[g])
  BY <1>4, EmptyList
<1>6. c \in Client /\ client_state[c] \in InGame /\ game[c] = g
  BY <1>1, <1>3, <1>4, <1>5, SeqFacts, SeatFacts DEF Playing, Members, IInv
<1>. QED
  BY <1>1, <1>3, <1>5, <1>6, RoundMates

\* announceWinner for the players ps that a step leaves in the started game g:
\* they are in the lobby together, and nobody else is touched.
LEMMA RoundEnds ==
    ASSUME IInv, ~spinning, NEW g \in started_games, NEW ps \in Seq(Client),
           IsInjective(ps), ps # <<>>, Len(ps) <= LOBBY_SIZE,
           Range(ps) \subseteq Range(players[g]),
           AnnounceWinner(g, ps),
           players' = [players EXCEPT ![g] = ps],
           spinning' = spinning,
           \A h \in Game : h # g => client_on_turn[h]' = client_on_turn[h],
           \A d \in Client : client_state[d]' =
              IF d \in Range(ps) THEN "LOBBY"
              ELSE IF d \in Range(players[g]) THEN "UNLOGED" ELSE client_state[d],
           \A d \in Client : d \in Range(ps) => hp[d]' = STARTING_HP,
           \A d \in Client : d \notin Range(players[g]) => hp[d]' = hp[d],
           \A d \in Client : game[d]' =
              IF d \in Range(players[g]) \ Range(ps) THEN NoGame ELSE game[d]
    PROVE  /\ SeatsMatchStates' /\ ListsMatchGames' /\ TurnHolder' /\ LobbyIsHealed'
           /\ not_started_games' \in Seq(Game)
           /\ not_started_games_full' \subseteq Game
           /\ started_games' \subseteq Game
<1> USE DEF IInv
<1>1. /\ g \in Game /\ Playing(g)
      /\ g \notin Range(not_started_games) /\ g \notin not_started_games_full
  BY StartedFacts
<1>2. \A d \in Client, h \in Game :
        d \in Range(players[h]) <=> client_state[d] \in Seated /\ game[d] = h
  BY SeatFacts
<1>3. /\ players[g]' = ps
      /\ \A h \in Game : h # g => players[h]' = players[h]
  BY <1>1 DEF TypeOK
<1>4. Len(ps) \in Nat /\ Len(ps) # 0 /\ Range(ps) \subseteq Client /\ Range(ps) # {}
  BY EmptyList, SeqFacts
<1>5. \A d \in Client : d \in Range(players[g]) => client_state[d] \in InGame
  BY <1>1 DEF Playing, Members
\* The lists of games.
<1>6. /\ not_started_games' \in Seq(Game) /\ IsInjective(not_started_games')
      /\ Range(not_started_games') =
            Range(not_started_games) \cup (IF Len(ps) = LOBBY_SIZE THEN {} ELSE {g})
      /\ not_started_games_full' =
            not_started_games_full \cup (IF Len(ps) = LOBBY_SIZE THEN {g} ELSE {})
      /\ started_games' = started_games \ {g}
  <2>1. not_started_games \in Seq(Game) /\ IsInjective(not_started_games)
    BY DEF TypeOK, ListsMatchGames
  <2>2. CASE Len(ps) = LOBBY_SIZE
    BY <2>1, <2>2 DEF AnnounceWinner
  <2>3. CASE Len(ps) # LOBBY_SIZE
    <3>1. /\ not_started_games' = Append(not_started_games, g)
          /\ not_started_games_full' = not_started_games_full
          /\ started_games' = started_games \ {g}
      BY <2>3 DEF AnnounceWinner
    <3>. QED
      BY <1>1, <2>1, <2>3, <3>1, AppendAdds
  <2>. QED
    BY <2>2, <2>3
<1>7. SeatsMatchStates'
  <2>1. \A h \in Game : IsInjective(players[h]')
    BY <1>3, SeatFacts
  <2>2. \A d \in Client : client_state[d]' \in Seated => game[d]' # NoGame
    BY <1>1, <1>2, NullAssumption DEF SeatsMatchStates, Seated, InGame
  <2>3. ASSUME NEW d \in Client, NEW h \in Game
        PROVE  d \in Range(players[h]') <=> client_state[d]' \in Seated /\ game[d]' = h
    <3>1. CASE d \in Range(ps)
      BY <1>1, <1>2, <1>3, <3>1 DEF Seated
    <3>2. CASE d \notin Range(ps) /\ d \in Range(players[g])
      <4>1. client_state[d]' = "UNLOGED"
        BY <3>2
      <4>2. d \notin Range(players[h]')
        BY <1>1, <1>2, <1>3, <3>2
      <4>. QED
        BY <4>1, <4>2 DEF Seated, InGame
    <3>3. CASE d \notin Range(players[g])
      BY <1>1, <1>2, <1>3, <3>3
    <3>. QED
      BY <3>1, <3>2, <3>3
  <2>. QED
    BY <2>1, <2>2, <2>3 DEF SeatsMatchStates, Members
<1>8. ListsMatchGames'
  <2>1. ASSUME NEW h \in Game, h # g
        PROVE  Placed(h)'
    <3>1. \A d \in Range(players[h]) : d \in Client /\ d \notin Range(players[g])
      BY <1>1, <1>2, <2>1, SeatFacts
    <3>2. \A d \in Range(players[h]) : client_state[d]' = client_state[d]
      BY <3>1
    <3>3. Placed(h)
      BY DEF ListsMatchGames
    <3>. QED
      BY <1>3, <1>6, <2>1, <3>2, <3>3, PlacedElsewhere
  <2>2. Placed(g)'
    <3>1. \A d \in Range(ps) : client_state[d]' = "LOBBY"
      BY <1>4
    <3>2. InLobby(g)' /\ ~Playing(g)' /\ Live(g)'
      BY <1>3, <1>4, <3>1 DEF InLobby, Playing, Members, InGame, Live
    <3>. QED
      BY <1>1, <1>3, <1>4, <1>6, <3>2, LobbyAssumption DEF Placed
  <2>. QED
    BY <1>6, <2>1, <2>2 DEF ListsMatchGames
<1>9. TurnHolder'
  <2> SUFFICES ASSUME NEW d \in Client, client_state[d]' \in InGame
               PROVE  Held(d)'
    BY DEF TurnHolder
  <2>1. d \notin Range(players[g]) /\ d \notin Range(ps)
    BY DEF InGame
  <2>2. /\ client_state[d]' = client_state[d] /\ client_state[d] \in InGame
        /\ game[d]' = game[d] /\ game[d] # g /\ game[d] \in Game
    BY <1>1, <1>2, <2>1, SeatFacts DEF Seated
  <2>3. \A e \in Client : client_state[e] \in InGame /\ game[e] = game[d]
                            => e \notin Range(players[g]) /\ e \notin Range(ps)
    BY <1>1, <1>2, <2>2
  <2>4. client_on_turn[game[d]]' = client_on_turn[game[d]]
    BY <2>2
  <2>. QED
    BY <2>2, <2>3, <2>4, HeldElsewhere DEF TurnHolder
<1>10. LobbyIsHealed'
  <2> SUFFICES ASSUME NEW d \in Client, client_state[d]' = "LOBBY"
               PROVE  hp[d]' = STARTING_HP
    BY DEF LobbyIsHealed
  <2>. QED
    BY DEF LobbyIsHealed
<1>. QED
  BY <1>6, <1>7, <1>8, <1>9, <1>10 DEF TypeOK

-----------------------------------------------------------------------------
(* The initial state *)

\* The server starts without games: the invariant holds.
LEMMA InitIInv == Init => IInv
<1> SUFFICES ASSUME Init PROVE IInv
  OBVIOUS
<1>1. <<>> \in Seq(Client) /\ <<>> \in Seq(Letter) /\ <<>> \in Seq(Game)
  BY EmptySeq
<1>2. Range(<<>>) = {} /\ IsInjective(<<>>)
  BY DEF Range, IsInjective
<1>3. TypeOK
  <2>1. 0 \in 0..STARTING_HP
    BY HPAssumption
  <2>2. /\ client_state \in [Client -> ClientState]
        /\ game \in [Client -> Game \cup {NoGame}]
        /\ hp \in [Client -> 0..STARTING_HP]
    BY <2>1 DEF Init, ClientState
  <2>3. /\ players \in [Game -> Seq(Client)]
        /\ client_on_turn \in [Game -> Client \cup {NoClient}]
        /\ word \in [Game -> Seq(Letter)]
    BY <1>1 DEF Init
  <2>4. /\ quessed_chars \in [Game -> [Letter -> SUBSET Nat]]
        /\ found_chars \in [Game -> Nat]
    BY DEF Init
  <2>5. /\ not_started_games \in Seq(Game)
        /\ not_started_games_full \subseteq Game
        /\ started_games \subseteq Game
        /\ spinning \in BOOLEAN
    BY <1>1 DEF Init
  <2>. QED
    BY <2>2, <2>3, <2>4, <2>5 DEF TypeOK
<1>4. SeatsMatchStates
  BY <1>2 DEF Init, SeatsMatchStates, Members, Seated, InGame
<1>5. TurnHolder /\ LobbyIsHealed
  BY DEF Init, TurnHolder, LobbyIsHealed, InGame
<1>6. ListsMatchGames
  BY <1>2, LobbyAssumption DEF Init, ListsMatchGames, Placed, Live
<1>. QED
  BY <1>3, <1>4, <1>5, <1>6 DEF IInv

-----------------------------------------------------------------------------
(* The steps *)

\* Logging in gives no seat.
LEMMA LogInStep ==
    ASSUME IInv, NEW c \in Client, LogIn(c)
    PROVE  IInv'
<1>1. TypeOK'
  BY DEF IInv, TypeOK, LogIn, ClientState, roundVars, listVars
<1>2. /\ ~spinning /\ client_state[c] = "UNLOGED"
      /\ client_state' = [client_state EXCEPT ![c] = "LOGGED"]
      /\ UNCHANGED <<game, hp, players, client_on_turn, spinning>>
      /\ UNCHANGED <<not_started_games, not_started_games_full, started_games>>
  BY DEF LogIn, listVars
<1>3. /\ client_state \in [Client -> ClientState]
      /\ SeatsMatchStates /\ ListsMatchGames /\ TurnHolder /\ LobbyIsHealed
  BY DEF IInv, TypeOK
<1>4. SeatsMatchStates'
  BY <1>2, <1>3 DEF SeatsMatchStates, Members, Seated, InGame
<1>5. ListsMatchGames'
  <2>1. \A g \in Game : \A d \in Range(players[g]) : client_state[d]' = client_state[d]
    BY <1>2, <1>3, SeatFacts DEF IInv, Seated, InGame
  <2>2. \A g \in Game : (InLobby(g)' <=> InLobby(g)) /\ (Playing(g)' <=> Playing(g))
    BY <1>2, <2>1 DEF InLobby, Playing, Members
  <2>. QED
    BY <1>2, <1>3, <2>2 DEF ListsMatchGames, Placed, Live
<1>6. TurnHolder'
  <2> SUFFICES ASSUME NEW d \in Client, client_state[d]' \in InGame
               PROVE  Held(d)'
    BY DEF TurnHolder
  <2>1. client_state[d]' = client_state[d]
    BY <1>2, <1>3 DEF InGame
  <2>2. \A e \in Client : client_state[e] \in InGame => client_state[e]' = client_state[e]
    BY <1>2, <1>3 DEF InGame
  <2>. QED
    BY <1>2, <1>3, <2>1, <2>2, HeldElsewhere DEF TurnHolder
<1>7. LobbyIsHealed'
  BY <1>2, <1>3 DEF LobbyIsHealed
<1>. QED
  BY <1>1, <1>4, <1>5, <1>6, <1>7 DEF IInv

\* A client that joins is new to every list, and the game it joins is in the lobby.
LEMMA JoinGameStep ==
    ASSUME IInv, NEW c \in Client, JoinGame(c)
    PROVE  IInv'
<1> USE DEF IInv
<1>1. /\ ~spinning /\ client_state[c] = "LOGGED"
      /\ client_state' = [client_state EXCEPT ![c] = "LOBBY"]
      /\ hp' = [hp EXCEPT ![c] = STARTING_HP]
      /\ UNCHANGED <<client_on_turn, word, quessed_chars, found_chars, started_games, spinning>>
  BY DEF JoinGame, roundVars
<1> DEFINE open(x) == IF not_started_games = <<>> THEN <<x>> ELSE not_started_games
<1>2. PICK g \in Game :
        /\ JoinableGame(g)
        /\ players' = [players EXCEPT ![g] = Append(players[g], c)]
        /\ game' = [game EXCEPT ![c] = g]
        /\ IF Len(Append(players[g], c)) = LOBBY_SIZE
           THEN /\ not_started_games' = Without(open(g), g)
                /\ not_started_games_full' = not_started_games_full \cup {g}
           ELSE /\ not_started_games' = open(g)
                /\ UNCHANGED not_started_games_full
  BY DEF JoinGame, AddClient
<1>3. c \notin Range(players[g]) /\ \A h \in Game : c \notin Range(players[h])
  BY <1>1, SeatFacts DEF Seated, InGame
<1>4. /\ players[g]' \in Seq(Client)
      /\ Range(players[g]') = Range(players[g]) \cup {c}
      /\ IsInjective(players[g]')
      /\ Len(players[g]') = Len(players[g]) + 1
      /\ Len(players[g]) \in Nat
  BY <1>1, <1>2, <1>3, SeatFacts, AppendAdds, SeqFacts DEF TypeOK
\* The joined game is in the list of joinable ones, or new.
<1>5. /\ open(g) \in Seq(Game) /\ IsInjective(open(g))
      /\ Range(open(g)) = Range(not_started_games) \cup {g}
      /\ Live(g) => g \in Range(not_started_games)
  <2>1. CASE not_started_games = <<>>
    <3>1. /\ <<g>> \in Seq(Game) /\ DOMAIN <<g>> = {1} /\ <<g>>[1] = g
      OBVIOUS
    <3>2. IsInjective(<<g>>) /\ Range(<<g>>) = {g}
      BY <3>1 DEF IsInjective, Range
    <3>3. Range(not_started_games) = {}
      BY <2>1, EmptyList DEF TypeOK
    <3>. QED
      BY <1>2, <2>1, <3>1, <3>2, <3>3 DEF JoinableGame
  <2>2. CASE not_started_games # <<>>
    <3>1. g \in Range(not_started_games)
      BY <1>2, <2>2, FrontOfList DEF JoinableGame, TypeOK
    <3>. QED
      BY <1>1, <2>2, <3>1 DEF TypeOK, ListsMatchGames
  <2>. QED
    BY <2>1, <2>2
<1> HIDE DEF open
<1>6. /\ Without(open(g), g) \in Seq(Game) /\ IsInjective(Without(open(g), g))
      /\ Range(Without(open(g), g)) = Range(not_started_games) \ {g}
  BY <1>5, WithoutRemoves
<1>7. TypeOK'
  <2>1. /\ not_started_games' \in Seq(Game)
        /\ not_started_games_full' \subseteq Game
    BY <1>2, <1>5, <1>6 DEF TypeOK
  <2>2. STARTING_HP \in 0..STARTING_HP
    BY HPAssumption
  <2>3. /\ client_state' \in [Client -> ClientState]
        /\ game' \in [Client -> Game \cup {NoGame}]
        /\ hp' \in [Client -> 0..STARTING_HP]
        /\ players' \in [Game -> Seq(Client)]
    BY <1>1, <1>2, <1>4, <2>2 DEF TypeOK, ClientState
  <2>. QED
    BY <1>1, <2>1, <2>3 DEF TypeOK
<1>8. SeatsMatchStates'
  <2>1. \A h \in Game : IsInjective(players[h]')
    BY <1>1, <1>2, <1>4 DEF SeatsMatchStates, TypeOK
  <2>2. \A d \in Client : client_state[d]' \in Seated => game[d]' # NoGame
    BY <1>1, <1>2, NullAssumption DEF SeatsMatchStates, TypeOK
  <2>3. ASSUME NEW d \in Client, NEW h \in Game
        PROVE  d \in Range(players[h]') <=> client_state[d]' \in Seated /\ game[d]' = h
    <3>1. CASE d = c
      BY <1>1, <1>2, <1>3, <1>4, <3>1 DEF TypeOK, Seated
    <3>2. CASE d # c
      <4>1. client_state[d]' = client_state[d] /\ game[d]' = game[d]
        BY <1>1, <1>2, <3>2 DEF TypeOK
      <4>2. d \in Range(players[h]') <=> d \in Range(players[h])
        BY <1>2, <1>4, <3>2 DEF TypeOK
      <4>. QED
        BY <1>1, <4>1, <4>2, SeatFacts
    <3>. QED
      BY <3>1, <3>2
  <2>. QED
    BY <2>1, <2>2, <2>3 DEF SeatsMatchStates, Members
<1>9. ListsMatchGames'
  <2>1. InLobby(g) /\ Len(players[g]) < LOBBY_SIZE
    <3>1. CASE Live(g)
      BY <1>1, <1>5, <3>1 DEF ListsMatchGames, Placed
    <3>2. CASE ~Live(g)
      BY <3>2, EmptyList, LobbyAssumption DEF Live, InLobby, Members, TypeOK
    <3>. QED
      BY <3>1, <3>2
  <2>2. InLobby(g)' /\ ~Playing(g)' /\ Live(g)'
    <3>1. c \in Range(players[g]')
      BY <1>4
    <3>2. \A d \in Range(players[g]') : client_state[d]' = "LOBBY"
      BY <1>1, <1>4, <2>1, SeatFacts DEF InLobby, Members, TypeOK
    <3>3. Live(g)'
      BY <1>4, <3>1, EmptyList DEF Live
    <3>. QED
      BY <3>1, <3>2, <3>3 DEF InLobby, Playing, Members, InGame
  <2>3. ASSUME NEW h \in Game, h # g
        PROVE  /\ players[h]' = players[h]
               /\ InLobby(h)' <=> InLobby(h)
               /\ Playing(h)' <=> Playing(h)
               /\ Live(h)' <=> Live(h)
    <3>1. players[h]' = players[h]
      BY <1>2, <2>3 DEF TypeOK
    <3>2. \A d \in Range(players[h]) : client_state[d]' = client_state[d]
      BY <1>1, <1>3, SeatFacts DEF TypeOK
    <3>. QED
      BY <3>1, <3>2 DEF InLobby, Playing, Members, Live
  <2>4. g \notin started_games
    <3>1. CASE Live(g)
      <4>1. PICK d : d \in Range(players[g])
        BY <3>1, EmptyList DEF Live, TypeOK
      <4>. QED
        BY <1>1, <2>1, <4>1 DEF ListsMatchGames, Placed, InLobby, Playing, Members, InGame
    <3>2. CASE ~Live(g)
      BY <1>1, <3>2, EmptyList DEF ListsMatchGames, Placed, Live, TypeOK
    <3>. QED
      BY <3>1, <3>2
  <2>5. g \notin not_started_games_full
    BY <1>1, <2>1, <1>4, LobbyAssumption DEF ListsMatchGames, Placed
  <2>6. CASE Len(players[g]') = LOBBY_SIZE
    <3>1. /\ not_started_games' = Without(open(g), g)
          /\ not_started_games_full' = not_started_games_full \cup {g}
      BY <1>2, <2>6 DEF TypeOK
    <3>2. ASSUME NEW h \in Game
          PROVE  Placed(h)'
      <4>1. CASE h = g
        BY <1>1, <1>6, <2>2, <2>4, <2>6, <3>1, <4>1, LobbyAssumption DEF Placed
      <4>2. CASE h # g
        BY <1>1, <1>6, <2>3, <3>1, <4>2 DEF ListsMatchGames, Placed
      <4>. QED
        BY <4>1, <4>2
    <3>. QED
      BY <1>6, <3>1, <3>2 DEF ListsMatchGames
  <2>7. CASE Len(players[g]') # LOBBY_SIZE
    <3>1. /\ not_started_games' = open(g)
          /\ not_started_games_full' = not_started_games_full
      BY <1>2, <2>7 DEF TypeOK
    <3>2. ASSUME NEW h \in Game
          PROVE  Placed(h)'
      <4>1. CASE h = g
        BY <1>1, <1>4, <1>5, <2>1, <2>2, <2>4, <2>5, <2>7, <3>1, <4>1, LobbyAssumption DEF Placed
      <4>2. CASE h # g
        BY <1>1, <1>5, <2>3, <3>1, <4>2 DEF ListsMatchGames, Placed
      <4>. QED
        BY <4>1, <4>2
    <3>. QED
      BY <1>5, <3>1, <3>2 DEF ListsMatchGames
  <2>. QED
    BY <2>6, <2>7
<1>10. TurnHolder'
  <2> SUFFICES ASSUME NEW d \in Client, client_state[d]' \in InGame
               PROVE  Held(d)'
    BY DEF TurnHolder
  <2>1. \A e \in Client : e # c => /\ client_state[e]' = client_state[e]
                                  /\ hp[e]' = hp[e] /\ game[e]' = game[e]
    BY <1>1, <1>2 DEF TypeOK
  <2>2. d # c /\ client_state[c] \notin InGame
    BY <1>1 DEF InGame, TypeOK
  <2>3. client_on_turn[game[d]]' = client_on_turn[game[d]]
    BY <1>1, <2>1, <2>2
  <2>. QED
    BY <1>1, <2>1, <2>2, <2>3, HeldElsewhere DEF TurnHolder
<1>11. LobbyIsHealed'
  BY <1>1 DEF LobbyIsHealed, TypeOK
<1>. QED
  BY <1>7, <1>8, <1>9, <1>10, <1>11

\* A round starts with everyone of the lobby, the first player on turn.
LEMMA StartGameStep ==
    ASSUME IInv, NEW c \in Client, StartGame(c)
    PROVE  IInv'
<1> USE DEF IInv
<1>a. PICK g : g = game[c]
  OBVIOUS
<1>b. PICK ps : ps = players[g]
  OBVIOUS
<1>c. PICK first : first = Head(ps)
  OBVIOUS
<1>1. /\ ~spinning /\ client_state[c] = "LOBBY"
      /\ Len(ps) >= 2
      /\ IF Len(ps) = LOBBY_SIZE
         THEN /\ not_started_games_full' = not_started_games_full \ {g}
              /\ UNCHANGED not_started_games
         ELSE /\ not_started_games' = Without(not_started_games, g)
              /\ UNCHANGED not_started_games_full
      /\ started_games' = started_games \cup {g}
      /\ found_chars' = [found_chars EXCEPT ![g] = 0]
      /\ \E w \in RandomWords : word' = [word EXCEPT ![g] = w]
      /\ client_on_turn' = [client_on_turn EXCEPT ![g] = first]
      /\ quessed_chars' = [quessed_chars EXCEPT ![g] = [ch \in Letter |-> {}]]
      /\ client_state' = [SetStates(ps, "WAITING_FOR_TURN") EXCEPT ![first] = "ON_TURN"]
      /\ UNCHANGED <<game, hp, players, spinning>>
  BY <1>a, <1>b, <1>c DEF StartGame, GameStart
<1>2. /\ g \in Game /\ c \in Range(ps) /\ InLobby(g) /\ g \notin started_games
      /\ Len(ps) \in 1..LOBBY_SIZE
      /\ g \in Range(not_started_games) <=> Len(ps) < LOBBY_SIZE
      /\ g \in not_started_games_full <=> Len(ps) = LOBBY_SIZE
  BY <1>a, <1>b, <1>1, LobbyMates
<1>3. /\ ps \in Seq(Client) /\ Range(ps) \subseteq Client
      /\ first \in Range(ps) /\ first \in Client
  <2>1. ps \in Seq(Client)
    BY <1>b, <1>2 DEF TypeOK
  <2>. QED
    BY <1>c, <1>2, <2>1, EmptyList, FrontOfList, SeqFacts
<1>4. \A d \in Client : d \in Range(ps) <=> client_state[d] \in Seated /\ game[d] = g
  BY <1>b, <1>1, <1>2, SeatFacts
<1>5. \A d \in Range(ps) : client_state[d] = "LOBBY" /\ hp[d] = STARTING_HP
  BY <1>b, <1>1, <1>2, <1>3 DEF InLobby, Members, LobbyIsHealed
<1>6. \A d \in Client : client_state[d]' = IF d = first THEN "ON_TURN"
                                         ELSE IF d \in Range(ps) THEN "WAITING_FOR_TURN"
                                         ELSE client_state[d]
  BY <1>1, <1>3 DEF SetStates
<1>7. /\ not_started_games' \in Seq(Game) /\ IsInjective(not_started_games')
      /\ Range(not_started_games') = Range(not_started_games) \ {g}
      /\ not_started_games_full' = not_started_games_full \ {g}
  <2>1. not_started_games \in Seq(Game) /\ IsInjective(not_started_games)
    BY <1>1 DEF TypeOK, ListsMatchGames
  <2>2. CASE Len(ps) = LOBBY_SIZE
    BY <1>1, <1>2, <2>1, <2>2
  <2>3. CASE Len(ps) # LOBBY_SIZE
    <3>1. /\ not_started_games' = Without(not_started_games, g)
          /\ not_started_games_full' = not_started_games_full
      BY <1>1, <2>3
    <3>. QED
      BY <1>2, <2>1, <2>3, <3>1, WithoutRemoves
  <2>. QED
    BY <2>2, <2>3
<1>8. TypeOK'
  <2>1. client_state' \in [Client -> ClientState]
    BY <1>1, <1>3 DEF TypeOK, ClientState, SetStates
  <2>2. word' \in [Game -> Seq(Letter)]
    BY <1>1, <1>2, WordAssumption DEF TypeOK, RandomWords
  <2>3. client_on_turn' \in [Game -> Client \cup {NoClient}]
    BY <1>1, <1>2, <1>3 DEF TypeOK
  <2>4. quessed_chars' \in [Game -> [Letter -> SUBSET Nat]]
    BY <1>1, <1>2 DEF TypeOK
  <2>5. found_chars' \in [Game -> Nat]
    BY <1>1, <1>2 DEF TypeOK
  <2>. QED
    BY <1>1, <1>2, <1>7, <2>1, <2>2, <2>3, <2>4, <2>5 DEF TypeOK
<1>9. SeatsMatchStates'
  <2>1. \A d \in Client : client_state[d]' \in Seated <=> client_state[d] \in Seated
    BY <1>3, <1>5, <1>6 DEF Seated, InGame
  <2>. QED
    BY <1>1, <2>1 DEF SeatsMatchStates, Members
<1>10. ListsMatchGames'
  <2>1. ASSUME NEW h \in Game, h # g
        PROVE  Placed(h)'
    <3>1. \A d \in Range(players[h]) : client_state[d]' = client_state[d]
      BY <1>1, <1>3, <1>4, <1>6, <2>1, SeatFacts
    <3>2. Placed(h)
      BY <1>1 DEF ListsMatchGames
    <3>. QED
      BY <1>1, <1>7, <2>1, <3>1, <3>2, PlacedElsewhere
  <2>2. Placed(g)'
    <3>1. /\ players[g]' = ps
          /\ \A d \in Range(ps) : client_state[d]' \in InGame
      BY <1>b, <1>1, <1>3, <1>6 DEF InGame
    <3>2. Playing(g)' /\ ~InLobby(g)'
      BY <1>2, <3>1 DEF Playing, InLobby, Members, InGame
    <3>3. g \in started_games' /\ Len(players[g]') \in 2..LOBBY_SIZE
      BY <1>1, <1>2, <3>1
    <3>. QED
      BY <1>7, <3>2, <3>3 DEF Placed
  <2>. QED
    BY <1>1, <1>7, <2>1, <2>2 DEF ListsMatchGames
<1>11. TurnHolder'
  <2> SUFFICES ASSUME NEW d \in Client, client_state[d]' \in InGame
               PROVE  Held(d)'
    BY DEF TurnHolder
  <2>1. CASE d \in Range(ps)
    <3>1. game[d]' = g /\ client_on_turn[g]' = first
      BY <1>1, <1>2, <1>4, <2>1 DEF TypeOK
    <3>2. game[first]' = g /\ hp[first]' > 0
      BY <1>1, <1>3, <1>4, <1>5, HPAssumption
    <3>3. client_state[first]' = "ON_TURN" /\ (client_state[d]' = "ON_TURN" => d = first)
      BY <1>3, <1>6, <2>1
    <3>. QED
      BY <1>3, <3>1, <3>2, <3>3 DEF Held
  <2>2. CASE d \notin Range(ps)
    <3>1. client_state[d]' = client_state[d] /\ client_state[d] \in InGame
      BY <1>3, <1>6, <2>2
    <3>2. game[d] # g
      BY <1>4, <2>2, <3>1 DEF Seated
    <3>3. client_on_turn[game[d]]' = client_on_turn[game[d]]
      BY <1>1, <3>1, <3>2, SeatFacts DEF TypeOK, Seated
    <3>4. \A e \in Client : game[e] = game[d] => client_state[e]' = client_state[e]
      BY <1>3, <1>4, <1>6, <3>2
    <3>. QED
      BY <1>1, <3>1, <3>3, <3>4, HeldElsewhere DEF TurnHolder
  <2>. QED
    BY <2>1, <2>2
<1>12. LobbyIsHealed'
  BY <1>1, <1>6 DEF LobbyIsHealed
<1>. QED
  BY <1>8, <1>9, <1>10, <1>11, <1>12

\* The letters revealed are positions of the word, finitely many.
LEMMA RevealedFacts ==
    ASSUME TypeOK, NEW g \in Game, NEW ch \in Letter
    PROVE  Revealed(g, ch) \subseteq Nat /\ Cardinality(Revealed(g, ch)) \in Nat
<1>1. word[g] \in Seq(Letter) /\ Len(word[g]) \in Nat /\ DOMAIN word[g] = 1..Len(word[g])
  BY SeqFacts DEF TypeOK
<1>2. Revealed(g, ch) \subseteq 1..Len(word[g])
  BY <1>1 DEF Revealed, Positions
<1>3. IsFiniteSet(1..Len(word[g]))
  BY <1>1, FS_Interval
<1>4. IsFiniteSet(Revealed(g, ch))
  BY <1>2, <1>3, FS_Subset
<1>. QED
  BY <1>1, <1>2, <1>4, FS_CardinalityType

\* A guessed letter leaves the round as it is, or ends it.
LEMMA GoodQuessStep ==
    ASSUME IInv, NEW c \in Client, NEW ch \in Letter, GoodQuess(c, ch)
    PROVE  IInv'
<1> USE DEF IInv
<1>a. PICK g : g = game[c]
  OBVIOUS
<1>b. PICK ps : ps = players[g]
  OBVIOUS
<1>c. PICK new : new = Revealed(g, ch)
  OBVIOUS
<1>1. /\ ~spinning /\ client_state[c] = "ON_TURN"
      /\ quessed_chars' = [quessed_chars EXCEPT ![g][ch] = new]
      /\ found_chars' = [found_chars EXCEPT ![g] = found_chars[g] + Cardinality(new)]
      /\ UNCHANGED <<game, players, client_on_turn, word, spinning>>
  BY <1>a, <1>c DEF GoodQuess, MayQuess
<1>2. \/ /\ AnnounceWinner(g, ps)
         /\ client_state' = SetStates(ps, "LOBBY")
         /\ hp' = Healed(ps)
      \/ UNCHANGED <<client_state, hp, not_started_games, not_started_games_full, started_games>>
  BY <1>a, <1>b DEF GoodQuess, listVars
<1>3. /\ g \in Game /\ g \in started_games /\ c \in Range(ps)
      /\ Len(ps) \in 2..LOBBY_SIZE /\ ps \in Seq(Client) /\ IsInjective(ps)
      /\ Range(ps) \subseteq Client
  BY <1>a, <1>b, <1>1, RoundMates, SeatFacts DEF InGame
<1>4. /\ quessed_chars' \in [Game -> [Letter -> SUBSET Nat]]
      /\ found_chars' \in [Game -> Nat]
  <2>1. new \in SUBSET Nat /\ Cardinality(new) \in Nat
    BY <1>c, <1>3, RevealedFacts
  <2>2. quessed_chars' \in [Game -> [Letter -> SUBSET Nat]]
    BY <1>1, <1>3, <2>1 DEF TypeOK
  <2>3. found_chars[g] + Cardinality(new) \in Nat
    BY <1>3, <2>1 DEF TypeOK
  <2>. QED
    BY <1>1, <1>3, <2>2, <2>3 DEF TypeOK
<1>5. CASE UNCHANGED <<client_state, hp, not_started_games, not_started_games_full, started_games>>
  <2>1. TypeOK'
    BY <1>1, <1>4, <1>5 DEF TypeOK
  <2>2. SeatsMatchStates' /\ LobbyIsHealed'
    BY <1>1, <1>5 DEF SeatsMatchStates, LobbyIsHealed, Members
  <2>3. ListsMatchGames'
    BY <1>1, <1>5 DEF ListsMatchGames, Placed, InLobby, Playing, Members, Live
  <2>4. TurnHolder'
    BY <1>1, <1>5 DEF TurnHolder, Held
  <2>. QED
    BY <2>1, <2>2, <2>3, <2>4
<1>6. CASE /\ AnnounceWinner(g, ps)
           /\ client_state' = SetStates(ps, "LOBBY")
           /\ hp' = Healed(ps)
  <2>1. players' = [players EXCEPT ![g] = ps]
    BY <1>b, <1>1, <1>3 DEF TypeOK
  <2>2. ps # <<>> /\ Len(ps) <= LOBBY_SIZE
    BY <1>3, LobbyAssumption
  <2>3. \A d \in Client : /\ client_state[d]' = IF d \in Range(ps) THEN "LOBBY" ELSE client_state[d]
                          /\ hp[d]' = IF d \in Range(ps) THEN STARTING_HP ELSE hp[d]
    BY <1>6 DEF SetStates, Healed
  <2>4. /\ SeatsMatchStates' /\ ListsMatchGames' /\ TurnHolder' /\ LobbyIsHealed'
        /\ not_started_games' \in Seq(Game)
        /\ not_started_games_full' \subseteq Game
        /\ started_games' \subseteq Game
    BY <1>b, <1>1, <1>3, <1>6, <2>1, <2>2, <2>3, RoundEnds
  <2>5. client_state' \in [Client -> ClientState] /\ hp' \in [Client -> 0..STARTING_HP]
    BY <1>6, HPAssumption DEF TypeOK, SetStates, Healed, ClientState
  <2>. QED
    BY <1>1, <1>4, <2>4, <2>5 DEF TypeOK
<1>. QED
  BY <1>2, <1>5, <1>6

\* A wrong letter costs the player on turn a life point that it has.
LEMMA HurtFacts ==
    ASSUME IInv, ~spinning, NEW c \in Client, client_state[c] = "ON_TURN"
    PROVE  /\ Hurt(c) \in [Client -> 0..STARTING_HP]
           /\ Hurt(c) \in [Client -> Int]
           /\ \A d \in Client : d # c => Hurt(c)[d] = hp[d]
<1>1. hp \in [Client -> 0..STARTING_HP] /\ STARTING_HP \in Nat
  BY HPAssumption DEF IInv, TypeOK
<1>2. hp[c] > 0
  BY DEF IInv, TurnHolder, Held, InGame
<1>. QED
  BY <1>1, <1>2 DEF Hurt

\* After a wrong letter the turn goes to a player of the game that is alive.
LEMMA NextAfterBadQuess ==
    ASSUME IInv, ~spinning, NEW c \in Client, client_state[c] = "ON_TURN",
           NEW next,
           next = NextClient(players[game[c]],
                             Find(players[game[c]], client_on_turn[game[c]]), Hurt(c)),
           Alive(players[game[c]], Hurt(c)) # {}
    PROVE  next \in Range(players[game[c]]) /\ next \in Client /\ Hurt(c)[next] > 0
<1>1. players[game[c]] \in Seq(Client)
  BY RoundMates, SeatFacts DEF InGame, IInv
<1>2. Find(players[game[c]], client_on_turn[game[c]]) \in 0..Len(players[game[c]])
  BY <1>1, FindInBounds
<1>. QED
  BY <1>1, <1>2, HurtFacts, NextClientIsAlive

\* A wrong letter passes the turn to someone alive, or ends the round.
LEMMA BadQuessStep ==
    ASSUME IInv, NEW c \in Client, NEW ch \in Letter, BadQuess(c, ch)
    PROVE  IInv'
<1> USE DEF IInv
<1>a. PICK g : g = game[c]
  OBVIOUS
<1>b. PICK ps : ps = players[g]
  OBVIOUS
<1>c. PICK h : h = Hurt(c)
  OBVIOUS
<1>d. PICK next : next = NextClient(ps, Find(ps, client_on_turn[g]), h)
  OBVIOUS
<1>1. /\ ~spinning /\ client_state[c] = "ON_TURN"
      /\ Alive(ps, h) # {}
      /\ client_on_turn' = [client_on_turn EXCEPT ![g] = next]
      /\ UNCHANGED <<game, players, word, quessed_chars, found_chars, spinning>>
  BY <1>a, <1>b, <1>c, <1>d DEF BadQuess, MayQuess, roundVars
<1>2. \/ /\ AnnounceWinner(g, ps)
         /\ client_state' = SetStates(ps, "LOBBY")
         /\ hp' = Healed(ps)
      \/ /\ client_state' = [client_state EXCEPT ![c] = "WAITING_FOR_TURN", ![next] = "ON_TURN"]
         /\ hp' = h
         /\ UNCHANGED <<not_started_games, not_started_games_full, started_games>>
  BY <1>a, <1>b, <1>c, <1>d DEF BadQuess, listVars
<1>3. /\ g \in Game /\ g \in started_games /\ c \in Range(ps) /\ Playing(g)
      /\ Len(ps) \in 2..LOBBY_SIZE /\ ps \in Seq(Client) /\ IsInjective(ps)
      /\ Range(ps) \subseteq Client
  BY <1>a, <1>b, <1>1, RoundMates, SeatFacts DEF InGame
<1>4. /\ h \in [Client -> 0..STARTING_HP] /\ h \in [Client -> Int]
      /\ \A d \in Client : d # c => h[d] = hp[d]
  BY <1>c, <1>1, HurtFacts
<1>5. next \in Range(ps) /\ next \in Client /\ h[next] > 0
  BY <1>a, <1>b, <1>c, <1>d, <1>1, NextAfterBadQuess
<1>6. client_on_turn' \in [Game -> Client \cup {NoClient}]
  BY <1>1, <1>3, <1>5 DEF TypeOK
<1>7. CASE /\ AnnounceWinner(g, ps)
           /\ client_state' = SetStates(ps, "LOBBY")
           /\ hp' = Healed(ps)
  <2>1. players' = [players EXCEPT ![g] = ps]
    BY <1>b, <1>1, <1>3 DEF TypeOK
  <2>2. ps # <<>> /\ Len(ps) <= LOBBY_SIZE
    BY <1>3, LobbyAssumption
  <2>3. \A d \in Client : /\ client_state[d]' = IF d \in Range(ps) THEN "LOBBY" ELSE client_state[d]
                          /\ hp[d]' = IF d \in Range(ps) THEN STARTING_HP ELSE hp[d]
    BY <1>7 DEF SetStates, Healed
  <2>4. \A k \in Game : k # g => client_on_turn[k]' = client_on_turn[k]
    BY <1>1 DEF TypeOK
  <2>5. /\ SeatsMatchStates' /\ ListsMatchGames' /\ TurnHolder' /\ LobbyIsHealed'
        /\ not_started_games' \in Seq(Game)
        /\ not_started_games_full' \subseteq Game
        /\ started_games' \subseteq Game
    BY <1>b, <1>1, <1>3, <1>7, <2>1, <2>2, <2>3, <2>4, RoundEnds
  <2>6. client_state' \in [Client -> ClientState] /\ hp' \in [Client -> 0..STARTING_HP]
    BY <1>7, HPAssumption DEF TypeOK, SetStates, Healed, ClientState
  <2>. QED
    BY <1>1, <1>6, <2>5, <2>6 DEF TypeOK
<1>8. CASE /\ client_state' = [client_state EXCEPT ![c] = "WAITING_FOR_TURN", ![next] = "ON_TURN"]
           /\ hp' = h
           /\ UNCHANGED <<not_started_games, not_started_games_full, started_games>>
  <2>1. \A d \in Client : client_state[d]' = IF d = next THEN "ON_TURN"
                                            ELSE IF d = c THEN "WAITING_FOR_TURN"
                                            ELSE client_state[d]
    BY <1>8 DEF TypeOK
  <2>2. \A d \in Range(ps) : client_state[d] \in InGame
    BY <1>b, <1>3 DEF Playing, Members
  <2>3. \A d \in Client : d \in Range(ps) <=> client_state[d] \in Seated /\ game[d] = g
    BY <1>b, <1>1, <1>3, SeatFacts
  <2>4. /\ \A d \in Client : client_state[d]' \in InGame <=> client_state[d] \in InGame
        /\ \A d \in Client : client_state[d]' = "LOBBY" <=> client_state[d] = "LOBBY"
        /\ \A d \in Client : client_state[d]' \in Seated <=> client_state[d] \in Seated
    BY <1>3, <1>5, <2>1, <2>2 DEF InGame, Seated
  <2>5. TypeOK'
    <3>1. client_state' \in [Client -> ClientState]
      BY <1>8 DEF TypeOK, ClientState
    <3>. QED
      BY <1>1, <1>4, <1>6, <1>8, <3>1 DEF TypeOK
  <2>6. SeatsMatchStates'
    BY <1>1, <2>4 DEF SeatsMatchStates, Members
  <2>7. ListsMatchGames'
    <3>1. ASSUME NEW k \in Game PROVE Placed(k)'
      <4>1. /\ Range(players[k]) \subseteq Client
            /\ Placed(k)
        BY <1>1, SeatFacts DEF ListsMatchGames
      <4>2. InLobby(k)' <=> InLobby(k)
        BY <1>1, <2>4, <4>1 DEF InLobby, Members
      <4>3. Playing(k)' <=> Playing(k)
        BY <1>1, <2>4, <4>1 DEF Playing, Members
      <4>. QED
        BY <1>1, <1>8, <4>1, <4>2, <4>3 DEF Placed, Live
    <3>. QED
      BY <1>1, <1>8, <3>1 DEF ListsMatchGames
  <2>8. TurnHolder'
    <3> SUFFICES ASSUME NEW d \in Client, client_state[d]' \in InGame
                 PROVE  Held(d)'
      BY DEF TurnHolder
    <3>1. client_state[d] \in InGame /\ game[d] \in Game
      BY <1>1, <2>4, SeatFacts DEF Seated
    <3>2. CASE game[d] = g
      <4>1. /\ client_on_turn[game[d]]' = next /\ game[next]' = g /\ game[d]' = g
            /\ client_state[next]' = "ON_TURN" /\ hp[next]' > 0
        BY <1>1, <1>3, <1>5, <1>8, <2>1, <2>3, <3>2 DEF TypeOK
      <4>2. client_state[d]' = "ON_TURN" => d = next
        <5> SUFFICES ASSUME client_state[d]' = "ON_TURN", d # next PROVE FALSE
          OBVIOUS
        <5>1. d # c /\ client_state[d] = "ON_TURN"
          BY <2>1
        <5>2. Held(c) /\ Held(d)
          BY <1>1, <3>1 DEF TurnHolder, InGame
        <5>. QED
          BY <1>a, <1>1, <3>2, <5>1, <5>2 DEF Held
      <4>. QED
        BY <1>5, <4>1, <4>2 DEF Held
    <3>3. CASE game[d] # g
      <4>1. /\ client_on_turn[game[d]]' = client_on_turn[game[d]]
            /\ d # c /\ d # next
        BY <1>a, <1>1, <1>5, <2>3, <3>1, <3>3 DEF TypeOK
      <4>2. \A e \in Client : game[e] = game[d] =>
               /\ client_state[e]' = client_state[e] /\ hp[e]' = hp[e]
        BY <1>a, <1>4, <1>5, <1>8, <2>1, <2>3, <3>3
      <4>. QED
        BY <1>1, <2>1, <3>1, <4>1, <4>2, HeldElsewhere DEF TurnHolder
    <3>. QED
      BY <3>2, <3>3
  <2>9. LobbyIsHealed'
    BY <1>1, <1>4, <1>8, <2>4 DEF LobbyIsHealed
  <2>. QED
    BY <2>5, <2>6, <2>7, <2>8, <2>9
<1>. QED
  BY <1>2, <1>7, <1>8

\* The handler that never returns: nothing but the types matters any more.
LEMMA BadQuessSpinsStep ==
    ASSUME IInv, NEW c \in Client, NEW ch \in Letter, BadQuessSpins(c, ch)
    PROVE  IInv'
<1> USE DEF IInv
<1>1. /\ ~spinning /\ client_state[c] = "ON_TURN" /\ spinning' = TRUE
      /\ hp' = Hurt(c)
      /\ client_state' = [client_state EXCEPT ![c] = "WAITING_FOR_TURN"]
      /\ UNCHANGED <<game, players, client_on_turn, word, quessed_chars, found_chars,
                     not_started_games, not_started_games_full, started_games>>
  BY DEF BadQuessSpins, MayQuess, roundVars, listVars
<1>2. hp' \in [Client -> 0..STARTING_HP]
  BY <1>1, HurtFacts
<1>3. client_state' \in [Client -> ClientState]
  BY <1>1 DEF TypeOK, ClientState
<1>4. TypeOK'
  BY <1>1, <1>2, <1>3 DEF TypeOK
<1>. QED
  BY <1>1, <1>4 DEF SeatsMatchStates, ListsMatchGames, TurnHolder, LobbyIsHealed

\* A client without a seat leaves no trace.
LEMMA LeaveUnseatedStep ==
    ASSUME IInv, NEW c \in Client, LeaveUnseated(c)
    PROVE  IInv'
<1>1. /\ ~spinning /\ client_state[c] \in {"UNLOGED", "LOGGED"}
      /\ client_state' = [client_state EXCEPT ![c] = "UNLOGED"]
      /\ UNCHANGED <<game, hp, players, client_on_turn, word, quessed_chars, found_chars, spinning>>
      /\ UNCHANGED <<not_started_games, not_started_games_full, started_games>>
  BY DEF LeaveUnseated, listVars, roundVars
<1>2. TypeOK'
  BY <1>1 DEF IInv, TypeOK, ClientState
<1>3. /\ client_state \in [Client -> ClientState]
      /\ SeatsMatchStates /\ ListsMatchGames /\ TurnHolder /\ LobbyIsHealed
  BY DEF IInv, TypeOK
<1>4. \A d \in Client : \/ client_state[d]' = client_state[d]
                        \/ client_state[d] \notin Seated /\ client_state[d]' \notin Seated
  BY <1>1, <1>3 DEF Seated, InGame
<1>5. SeatsMatchStates'
  <2>1. \A d \in Client : client_state[d]' \in Seated <=> client_state[d] \in Seated
    BY <1>4
  <2>. QED
    BY <1>1, <1>3, <2>1 DEF SeatsMatchStates, Members
<1>6. ListsMatchGames'
  <2>1. \A g \in Game : \A d \in Range(players[g]) : client_state[d]' = client_state[d]
    BY <1>1, <1>3, <1>4, SeatFacts DEF IInv
  <2>2. \A g \in Game : (InLobby(g)' <=> InLobby(g)) /\ (Playing(g)' <=> Playing(g))
    BY <1>1, <2>1 DEF InLobby, Playing, Members
  <2>. QED
    BY <1>1, <1>3, <2>2 DEF ListsMatchGames, Placed, Live
<1>7. TurnHolder'
  <2> SUFFICES ASSUME NEW d \in Client, client_state[d]' \in InGame
               PROVE  Held(d)'
    BY DEF TurnHolder
  <2>1. client_state[d]' = client_state[d]
    BY <1>1, <1>3 DEF InGame
  <2>2. \A e \in Client : client_state[e] \in InGame => client_state[e]' = client_state[e]
    BY <1>1, <1>3 DEF InGame
  <2>. QED
    BY <1>1, <1>3, <2>1, <2>2, HeldElsewhere DEF TurnHolder
<1>8. LobbyIsHealed'
  BY <1>1, <1>3 DEF LobbyIsHealed
<1>. QED
  BY <1>2, <1>5, <1>6, <1>7, <1>8 DEF IInv

\* A client that leaves game g of its own: the seats of the others stay as they are.
LEMMA SeatsAfterLeaving ==
    ASSUME TypeOK, SeatsMatchStates, ~spinning,
           NEW c \in Client, client_state[c] \in Seated, NEW g \in Game, g = game[c],
           players' = [players EXCEPT ![g] = Without(players[g], c)],
           game' = [game EXCEPT ![c] = NoGame],
           client_state[c]' = "UNLOGED",
           \A d \in Client : d # c => client_state[d]' \in Seated <=> client_state[d] \in Seated
    PROVE  /\ SeatsMatchStates'
           /\ players[g]' = Without(players[g], c) /\ players[g]' \in Seq(Client)
           /\ Range(players[g]') = Range(players[g]) \ {c}
           /\ Len(players[g]') = Len(players[g]) - 1
           /\ \A h \in Game : h # g => players[h]' = players[h]
           /\ \A h \in Game : c \notin Range(players[h]')
<1>1. /\ players[g] \in Seq(Client) /\ IsInjective(players[g])
      /\ c \in Range(players[g])
  BY SeatFacts
<1>2. players[g]' = Without(players[g], c) /\ \A h \in Game : h # g => players[h]' = players[h]
  BY DEF TypeOK
<1>3. /\ Without(players[g], c) \in Seq(Client)
      /\ IsInjective(Without(players[g], c))
      /\ Range(Without(players[g], c)) = Range(players[g]) \ {c}
      /\ Len(Without(players[g], c)) = Len(players[g]) - 1
  BY <1>1, WithoutRemoves
<1>4. \A h \in Game : c \notin Range(players[h]')
  BY <1>2, <1>3, SeatFacts
<1>5. game[c]' = NoGame /\ \A d \in Client : d # c => game[d]' = game[d]
  BY DEF TypeOK
<1>6. client_state[c]' \notin Seated
  BY DEF Seated, InGame
<1>7. ASSUME NEW d \in Client, NEW h \in Game
      PROVE  d \in Range(players[h]') <=> client_state[d]' \in Seated /\ game[d]' = h
  <2>1. CASE d = c
    BY <1>4, <1>6, <2>1
  <2>2. CASE d # c
    <3>1. d \in Range(players[h]') <=> d \in Range(players[h])
      BY <1>2, <1>3, <2>2
    <3>. QED
      BY <1>5, <2>2, <3>1, SeatFacts
  <2>. QED
    BY <2>1, <2>2
<1>8. \A h \in Game : IsInjective(players[h]')
  BY <1>2, <1>3, SeatFacts
<1>9. \A d \in Client : client_state[d]' \in Seated => game[d]' # NoGame
  BY <1>5, <1>6 DEF SeatsMatchStates
<1>. QED
  BY <1>2, <1>3, <1>4, <1>7, <1>8, <1>9 DEF SeatsMatchStates, Members

\* A player leaves a lobby: a full one is joinable again, an empty one is gone.
LEMMA LeaveLobbyStep ==
    ASSUME IInv, NEW c \in Client, LeaveLobby(c)
    PROVE  IInv'
<1> USE DEF IInv
<1>a. PICK g : g = game[c]
  OBVIOUS
<1>b. PICK left : left = Without(players[g], c)
  OBVIOUS
<1>c. PICK open : open = IF Len(players[g]) = LOBBY_SIZE THEN Append(not_started_games, g)
                                                         ELSE not_started_games
  OBVIOUS
<1>1. /\ ~spinning /\ client_state[c] = "LOBBY"
      /\ players' = [players EXCEPT ![g] = left]
      /\ not_started_games_full' = IF Len(players[g]) = LOBBY_SIZE
                                   THEN not_started_games_full \ {g}
                                   ELSE not_started_games_full
      /\ client_state' = [client_state EXCEPT ![c] = "UNLOGED"]
      /\ hp' = [hp EXCEPT ![c] = 0]
      /\ game' = [game EXCEPT ![c] = NoGame]
      /\ UNCHANGED <<started_games, spinning>>
  BY <1>a, <1>b DEF LeaveLobby
<1>2. IF left = <<>>
      THEN /\ not_started_games' = Without(open, g)
           /\ client_on_turn' = [client_on_turn EXCEPT ![g] = NoClient]
           /\ word' = [word EXCEPT ![g] = <<>>]
           /\ quessed_chars' = [quessed_chars EXCEPT ![g] = [ch \in Letter |-> {}]]
           /\ found_chars' = [found_chars EXCEPT ![g] = 0]
      ELSE /\ not_started_games' = open
           /\ client_on_turn' = IF Len(left) = 1
                                THEN [client_on_turn EXCEPT ![g] = left[1]]
                                ELSE client_on_turn
           /\ UNCHANGED <<word, quessed_chars, found_chars>>
  BY <1>a, <1>b, <1>c DEF LeaveLobby, roundVars
<1>3. /\ g \in Game /\ c \in Range(players[g]) /\ InLobby(g) /\ g \notin started_games
      /\ Len(players[g]) \in 1..LOBBY_SIZE
      /\ g \in Range(not_started_games) <=> Len(players[g]) < LOBBY_SIZE
      /\ g \in not_started_games_full <=> Len(players[g]) = LOBBY_SIZE
  BY <1>a, <1>1, LobbyMates
<1>4. /\ client_state[c]' = "UNLOGED"
      /\ \A d \in Client : d # c => /\ client_state[d]' = client_state[d]
                                    /\ hp[d]' = hp[d] /\ game[d]' = game[d]
  BY <1>1 DEF TypeOK
<1>5. /\ SeatsMatchStates'
      /\ players[g]' = left /\ left \in Seq(Client)
      /\ Range(left) = Range(players[g]) \ {c}
      /\ Len(left) = Len(players[g]) - 1
      /\ \A h \in Game : h # g => players[h]' = players[h]
      /\ \A h \in Game : c \notin Range(players[h]')
  <2>1. client_state[c] \in Seated
    BY <1>1 DEF Seated
  <2>2. \A d \in Client : d # c => client_state[d]' \in Seated <=> client_state[d] \in Seated
    BY <1>4
  <2>3. players' = [players EXCEPT ![g] = Without(players[g], c)]
    BY <1>b, <1>1
  <2>. /\ TypeOK /\ SeatsMatchStates /\ ~spinning /\ g \in Game /\ client_state[c]' = "UNLOGED"
       /\ game' = [game EXCEPT ![c] = NoGame]
    BY <1>1, <1>3, <1>4
  <2>4. /\ SeatsMatchStates'
        /\ players[g]' = Without(players[g], c) /\ players[g]' \in Seq(Client)
        /\ Range(players[g]') = Range(players[g]) \ {c}
        /\ Len(players[g]') = Len(players[g]) - 1
        /\ \A h \in Game : h # g => players[h]' = players[h]
        /\ \A h \in Game : c \notin Range(players[h]')
    BY <1>a, <2>1, <2>2, <2>3, SeatsAfterLeaving
  <2>5. players[g]' = left
    BY <1>b, <2>4
  <2>. QED
    BY <2>4, <2>5
<1>6. /\ open \in Seq(Game) /\ IsInjective(open)
      /\ Range(open) = Range(not_started_games) \cup {g}
  <2>1. not_started_games \in Seq(Game) /\ IsInjective(not_started_games)
    BY <1>1 DEF TypeOK, ListsMatchGames
  <2>2. CASE Len(players[g]) = LOBBY_SIZE
    <3>1. open = Append(not_started_games, g)
      BY <1>c, <2>2
    <3>. QED
      BY <1>3, <2>1, <2>2, <3>1, LobbyAssumption, AppendAdds
  <2>3. CASE Len(players[g]) # LOBBY_SIZE
    <3>1. open = not_started_games /\ Len(players[g]) < LOBBY_SIZE
      BY <1>c, <1>3, <2>3, LobbyAssumption
    <3>. QED
      BY <1>3, <2>1, <3>1
  <2>. QED
    BY <2>2, <2>3
<1>7. /\ not_started_games' \in Seq(Game) /\ IsInjective(not_started_games')
      /\ Range(not_started_games') = IF left = <<>> THEN Range(not_started_games) \ {g}
                                                   ELSE Range(not_started_games) \cup {g}
  <2>1. CASE left = <<>>
    <3>1. not_started_games' = Without(open, g)
      BY <1>2, <2>1
    <3>. QED
      BY <1>6, <2>1, <3>1, WithoutRemoves
  <2>2. CASE left # <<>>
    BY <1>2, <1>6, <2>2
  <2>. QED
    BY <2>1, <2>2
<1>8. g \notin not_started_games_full' /\ \A h \in Game : h # g =>
         (h \in not_started_games_full' <=> h \in not_started_games_full)
  BY <1>1, <1>3
<1>9. TypeOK'
  <2>1. client_state' \in [Client -> ClientState] /\ game' \in [Client -> Game \cup {NoGame}]
    BY <1>1 DEF TypeOK, ClientState
  <2>2. hp' \in [Client -> 0..STARTING_HP]
    <3>1. 0 \in 0..STARTING_HP
      BY HPAssumption
    <3>. QED
      BY <1>1, <3>1 DEF TypeOK
  <2>3. players' \in [Game -> Seq(Client)]
    BY <1>1, <1>5 DEF TypeOK
  <2>4. /\ client_on_turn' \in [Game -> Client \cup {NoClient}]
        /\ word' \in [Game -> Seq(Letter)]
        /\ quessed_chars' \in [Game -> [Letter -> SUBSET Nat]]
        /\ found_chars' \in [Game -> Nat]
    <3>1. CASE left = <<>>
      <4>1. <<>> \in Seq(Letter)
        BY EmptySeq
      <4>2. /\ client_on_turn' = [client_on_turn EXCEPT ![g] = NoClient]
            /\ word' = [word EXCEPT ![g] = <<>>]
            /\ quessed_chars' = [quessed_chars EXCEPT ![g] = [ch \in Letter |-> {}]]
            /\ found_chars' = [found_chars EXCEPT ![g] = 0]
        BY <1>2, <3>1
      <4>3. /\ word' \in [Game -> Seq(Letter)]
            /\ client_on_turn' \in [Game -> Client \cup {NoClient}]
        BY <4>1, <4>2 DEF TypeOK
      <4>4. quessed_chars' \in [Game -> [Letter -> SUBSET Nat]]
        BY <4>2 DEF TypeOK
      <4>. QED
        BY <4>2, <4>3, <4>4 DEF TypeOK
    <3>2. CASE left # <<>>
      <4>1. Len(left) = 1 => left[1] \in Client
        BY <1>5, SeqFacts
      <4>2. client_on_turn' \in [Game -> Client \cup {NoClient}]
        BY <1>2, <3>2, <4>1 DEF TypeOK
      <4>. QED
        BY <1>2, <3>2, <4>2 DEF TypeOK
    <3>. QED
      BY <3>1, <3>2
  <2>5. not_started_games_full' \subseteq Game
    BY <1>1 DEF TypeOK
  <2>. QED
    BY <1>1, <1>7, <2>1, <2>2, <2>3, <2>4, <2>5 DEF TypeOK
<1>10. ListsMatchGames'
  <2>1. ASSUME NEW h \in Game, h # g
        PROVE  Placed(h)'
    <3>1. Range(players[h]) \subseteq Client /\ players[h]' = players[h]
      BY <1>1, <1>5, <2>1, SeatFacts
    <3>2. c \notin Range(players[h])
      BY <1>5, <3>1
    <3>3. \A d \in Range(players[h]) : client_state[d]' = client_state[d]
      BY <1>4, <3>1, <3>2
    <3>4. Placed(h)
      BY <1>1 DEF ListsMatchGames
    <3>5. h \in Range(not_started_games') <=> h \in Range(not_started_games)
      BY <1>7, <2>1
    <3>. QED
      BY <1>1, <1>8, <2>1, <3>1, <3>3, <3>4, <3>5, PlacedElsewhere
  <2>2. Placed(g)'
    <3>1. \A d \in Range(left) : client_state[d]' = "LOBBY"
      BY <1>1, <1>3, <1>4, <1>5, SeatFacts DEF InLobby, Members
    <3>2. InLobby(g)'
      BY <1>5, <3>1 DEF InLobby, Members
    <3>3. Len(left) < LOBBY_SIZE /\ Len(left) # LOBBY_SIZE
      BY <1>3, <1>5, LobbyAssumption
    <3>4. g \notin started_games'
      BY <1>1, <1>3
    <3>5. CASE left = <<>>
      <4>1. ~Live(g)' /\ Len(players[g]') = 0
        BY <1>5, <3>5, EmptyList DEF Live
      <4>. QED
        BY <1>7, <1>8, <3>4, <3>5, <4>1, LobbyAssumption DEF Placed
    <3>6. CASE left # <<>>
      <4>1. Live(g)' /\ Range(left) # {}
        BY <1>5, <3>6, EmptyList DEF Live
      <4>2. ~Playing(g)'
        BY <1>5, <3>1, <4>1 DEF Playing, Members, InGame
      <4>. QED
        BY <1>5, <1>7, <1>8, <3>2, <3>3, <3>4, <3>6, <4>1, <4>2 DEF Placed
    <3>. QED
      BY <3>5, <3>6
  <2>. QED
    BY <1>7, <2>1, <2>2 DEF ListsMatchGames
<1>11. TurnHolder'
  <2> SUFFICES ASSUME NEW d \in Client, client_state[d]' \in InGame
               PROVE  Held(d)'
    BY DEF TurnHolder
  <2>1. d # c /\ client_state[c] \notin InGame
    BY <1>1, <1>4 DEF InGame
  <2>2. client_state[d]' = client_state[d] /\ client_state[d] \in InGame
    BY <1>4, <2>1
  <2>3. game[d] \in Game /\ game[d] # g
    BY <1>1, <1>3, <2>2, RoundMates
  <2>4. \A h \in Game : h # g => client_on_turn[h]' = client_on_turn[h]
    <3>1. \/ client_on_turn' = client_on_turn
          \/ \E x : client_on_turn' = [client_on_turn EXCEPT ![g] = x]
      BY <1>2
    <3>. QED
      BY <3>1 DEF TypeOK
  <2>5. client_on_turn[game[d]]' = client_on_turn[game[d]]
    BY <1>4, <2>1, <2>3, <2>4
  <2>. QED
    BY <1>1, <1>4, <2>1, <2>2, <2>5, HeldElsewhere DEF TurnHolder
<1>12. LobbyIsHealed'
  BY <1>1, <1>4 DEF LobbyIsHealed
<1>. QED
  BY <1>5, <1>9, <1>10, <1>11, <1>12

\* When a player leaves a round, the turn is with a player that stays and is
\* alive, and nobody else that stays is on turn.
LEMMA TurnAfterLeaving ==
    ASSUME IInv, ~spinning, NEW c \in Client, client_state[c] \in InGame,
           NEW g, g = game[c],
           NEW left, left = Without(players[g], c),
           client_state[c] = "ON_TURN" => Alive(left, hp) # {},
           NEW turn,
           turn = IF client_state[c] = "ON_TURN"
                  THEN NextClient(left, Find(left, c), hp)
                  ELSE client_on_turn[g]
    PROVE  /\ turn \in Range(left) /\ turn \in Client /\ hp[turn] > 0
           /\ client_state[c] # "ON_TURN" => client_state[turn] = "ON_TURN"
           /\ \A d \in Range(left) : client_state[d] = "ON_TURN" => d = turn
<1> USE DEF IInv
<1>1. g \in Game /\ g \in started_games /\ c \in Range(players[g]) /\ Playing(g)
  BY RoundMates
<1>2. /\ players[g] \in Seq(Client) /\ IsInjective(players[g])
      /\ Range(players[g]) \subseteq Client
      /\ \A d \in Client : d \in Range(players[g]) <=> client_state[d] \in Seated /\ game[d] = g
  BY <1>1, SeatFacts
<1>3. /\ left \in Seq(Client)
      /\ Range(left) = Range(players[g]) \ {c}
  BY <1>2, WithoutRemoves
<1>4. \A d \in Range(left) : d \in Client /\ client_state[d] \in InGame
  BY <1>1, <1>2, <1>3 DEF Playing, Members
<1>5. Held(c) /\ \A d \in Range(left) : Held(d)
  BY <1>4 DEF TurnHolder
<1>6. PICK t \in Client : /\ t = client_on_turn[g] /\ game[t] = g
                          /\ client_state[t] = "ON_TURN" /\ hp[t] > 0
                          /\ client_state[c] = "ON_TURN" => c = t
  BY <1>5 DEF Held
<1>7. \A d \in Range(left) : client_state[d] = "ON_TURN" => d = t
  BY <1>2, <1>3, <1>5, <1>6 DEF Held
<1>8. CASE client_state[c] = "ON_TURN"
  <2>1. hp \in [Client -> Int]
    BY HPAssumption DEF TypeOK
  <2>2. Find(left, c) \in 0..Len(left)
    BY <1>3, FindInBounds
  <2>3. turn = NextClient(left, Find(left, c), hp) /\ Alive(left, hp) # {}
    BY <1>8
  <2>4. turn \in Range(left) /\ turn \in Client /\ hp[turn] > 0
    BY <1>3, <2>1, <2>2, <2>3, NextClientIsAlive
  <2>5. \A d \in Range(left) : client_state[d] # "ON_TURN"
    BY <1>3, <1>6, <1>7, <1>8
  <2>. QED
    BY <1>8, <2>4, <2>5
<1>9. CASE client_state[c] # "ON_TURN"
  <2>1. turn = t /\ t # c
    BY <1>6, <1>9
  <2>2. t \in Range(left)
    BY <1>2, <1>3, <1>6, <2>1 DEF Seated, InGame
  <2>. QED
    BY <1>6, <1>7, <1>9, <2>1, <2>2
<1>. QED
  BY <1>8, <1>9

\* A player leaves a round: the turn it held goes to someone alive, and who is
\* left alone has won.
LEMMA LeaveGameStep ==
    ASSUME IInv, NEW c \in Client, LeaveGame(c)
    PROVE  IInv'
<1> USE DEF IInv
<1>a. PICK g : g = game[c]
  OBVIOUS
<1>b. PICK left : left = Without(players[g], c)
  OBVIOUS
<1>c. PICK turn : turn = IF client_state[c] = "ON_TURN"
                         THEN NextClient(left, Find(left, c), hp)
                         ELSE client_on_turn[g]
  OBVIOUS
<1>1. /\ ~spinning /\ client_state[c] \in InGame
      /\ client_state[c] = "ON_TURN" => Alive(left, hp) # {}
      /\ players' = [players EXCEPT ![g] = left]
      /\ game' = [game EXCEPT ![c] = NoGame]
      /\ UNCHANGED <<word, quessed_chars, found_chars, spinning>>
  BY <1>a, <1>b DEF LeaveGame, roundVars
<1>2. IF Len(left) = 1
      THEN /\ client_on_turn' = [client_on_turn EXCEPT ![g] = left[1]]
           /\ AnnounceWinner(g, left)
           /\ client_state' = [client_state EXCEPT ![c] = "UNLOGED", ![left[1]] = "LOBBY"]
           /\ hp' = [Healed(left) EXCEPT ![c] = 0]
      ELSE /\ client_on_turn' = [client_on_turn EXCEPT ![g] = turn]
           /\ client_state' = [client_state EXCEPT ![turn] = "ON_TURN", ![c] = "UNLOGED"]
           /\ hp' = [hp EXCEPT ![c] = 0]
           /\ UNCHANGED <<not_started_games, not_started_games_full, started_games>>
  BY <1>a, <1>b, <1>c DEF LeaveGame, listVars
<1>3. /\ g \in Game /\ g \in started_games /\ c \in Range(players[g]) /\ Playing(g)
      /\ Len(players[g]) \in 2..LOBBY_SIZE
      /\ g \notin Range(not_started_games) /\ g \notin not_started_games_full
  BY <1>a, <1>1, RoundMates
<1>4. /\ players[g] \in Seq(Client) /\ IsInjective(players[g])
      /\ Range(players[g]) \subseteq Client
      /\ \A d \in Client : d \in Range(players[g]) <=> client_state[d] \in Seated /\ game[d] = g
  BY <1>1, <1>3, SeatFacts
<1>5. /\ left \in Seq(Client) /\ IsInjective(left)
      /\ Range(left) = Range(players[g]) \ {c}
      /\ Len(left) = Len(players[g]) - 1
  BY <1>b, <1>3, <1>4, WithoutRemoves
<1>6. \A d \in Range(left) : d \in Client /\ client_state[d] \in InGame
  BY <1>3, <1>4, <1>5 DEF Playing, Members
<1>7. /\ turn \in Range(left) /\ turn \in Client /\ hp[turn] > 0
      /\ client_state[c] # "ON_TURN" => client_state[turn] = "ON_TURN"
      /\ \A d \in Range(left) : client_state[d] = "ON_TURN" => d = turn
  BY <1>a, <1>b, <1>c, <1>1, TurnAfterLeaving
<1>8. 0 \in 0..STARTING_HP
  BY HPAssumption
<1>9. CASE Len(left) = 1
  <2>1. /\ client_on_turn' = [client_on_turn EXCEPT ![g] = left[1]]
        /\ AnnounceWinner(g, left)
        /\ client_state' = [client_state EXCEPT ![c] = "UNLOGED", ![left[1]] = "LOBBY"]
        /\ hp' = [Healed(left) EXCEPT ![c] = 0]
    BY <1>2, <1>9
  <2>2. Range(left) = {left[1]} /\ left[1] \in Client
    <3>1. Range(left) = {left[k] : k \in 1..Len(left)} /\ \A k \in 1..Len(left) : left[k] \in Client
      BY <1>5, SeqFacts
    <3>2. 1..Len(left) = {1}
      BY <1>9
    <3>. QED
      BY <3>1, <3>2
  <2>3. /\ left[1] # c /\ c \notin Range(left)
        /\ Range(players[g]) = {c, left[1]}
    BY <1>3, <1>5, <2>2
  <2>4. client_state' \in [Client -> ClientState]
    BY <2>1 DEF TypeOK, ClientState
  <2>5. Healed(left) \in [Client -> 0..STARTING_HP]
    BY HPAssumption DEF TypeOK, Healed
  <2>6. hp' \in [Client -> 0..STARTING_HP]
    BY <1>8, <2>1, <2>5 DEF TypeOK
  <2>7. \A d \in Client : client_state[d]' =
            IF d \in Range(left) THEN "LOBBY"
            ELSE IF d \in Range(players[g]) THEN "UNLOGED" ELSE client_state[d]
    BY <2>1, <2>2, <2>3 DEF TypeOK
  <2>8. /\ \A d \in Client : d \in Range(left) => hp[d]' = STARTING_HP
        /\ \A d \in Client : d \notin Range(players[g]) => hp[d]' = hp[d]
    BY <2>1, <2>2, <2>3, <2>5 DEF Healed
  <2>9. \A d \in Client : game[d]' = IF d \in Range(players[g]) \ Range(left)
                                     THEN NoGame ELSE game[d]
    BY <1>1, <2>2, <2>3 DEF TypeOK
  <2>10. \A k \in Game : k # g => client_on_turn[k]' = client_on_turn[k]
    BY <2>1 DEF TypeOK
  <2>11. left # <<>> /\ Len(left) <= LOBBY_SIZE /\ Range(left) \subseteq Range(players[g])
    BY <1>9, <2>3, <1>5, LobbyAssumption
  <2>12. /\ SeatsMatchStates' /\ ListsMatchGames' /\ TurnHolder' /\ LobbyIsHealed'
         /\ not_started_games' \in Seq(Game)
         /\ not_started_games_full' \subseteq Game
         /\ started_games' \subseteq Game
    BY <1>1, <1>3, <1>5, <2>1, <2>7, <2>8, <2>9, <2>10, <2>11, RoundEnds
  <2>13. client_on_turn' \in [Game -> Client \cup {NoClient}]
    BY <2>1, <2>2 DEF TypeOK
  <2>14. players' \in [Game -> Seq(Client)] /\ game' \in [Client -> Game \cup {NoGame}]
    BY <1>1, <1>5 DEF TypeOK
  <2>. QED
    BY <1>1, <2>4, <2>6, <2>12, <2>13, <2>14 DEF TypeOK
<1>10. CASE Len(left) # 1
  <2>1. /\ client_on_turn' = [client_on_turn EXCEPT ![g] = turn]
        /\ client_state' = [client_state EXCEPT ![turn] = "ON_TURN", ![c] = "UNLOGED"]
        /\ hp' = [hp EXCEPT ![c] = 0]
        /\ UNCHANGED <<not_started_games, not_started_games_full, started_games>>
    BY <1>2, <1>10
  <2>2. turn # c /\ turn \in Range(players[g])
    BY <1>5, <1>7
  <2>3. /\ client_state[c]' = "UNLOGED" /\ client_state[turn]' = "ON_TURN"
        /\ \A d \in Client : d # c /\ d # turn => client_state[d]' = client_state[d]
        /\ \A d \in Client : d # c => hp[d]' = hp[d] /\ game[d]' = game[d]
    BY <1>1, <1>7, <2>1, <2>2 DEF TypeOK
  <2>4. \A d \in Client : d # c =>
            /\ client_state[d]' \in InGame <=> client_state[d] \in InGame
            /\ client_state[d]' \in Seated <=> client_state[d] \in Seated
            /\ client_state[d]' = "LOBBY" <=> client_state[d] = "LOBBY"
    BY <1>6, <1>7, <2>3 DEF InGame, Seated
  <2>5. /\ SeatsMatchStates'
        /\ players[g]' = left
        /\ \A h \in Game : h # g => players[h]' = players[h]
        /\ \A h \in Game : c \notin Range(players[h]')
    <3>1. client_state[c] \in Seated
      BY <1>1 DEF Seated
    <3>2. players' = [players EXCEPT ![g] = Without(players[g], c)]
      BY <1>b, <1>1
    <3>. /\ TypeOK /\ SeatsMatchStates /\ ~spinning /\ g \in Game
         /\ game' = [game EXCEPT ![c] = NoGame]
      BY <1>1, <1>3
    <3>3. /\ SeatsMatchStates'
          /\ players[g]' = Without(players[g], c)
          /\ \A h \in Game : h # g => players[h]' = players[h]
          /\ \A h \in Game : c \notin Range(players[h]')
      BY <1>a, <2>3, <2>4, <3>1, <3>2, SeatsAfterLeaving
    <3>. QED
      BY <1>b, <3>3
  <2>6. TypeOK'
    <3>1. client_state' \in [Client -> ClientState] /\ game' \in [Client -> Game \cup {NoGame}]
      BY <1>1, <2>1 DEF TypeOK, ClientState
    <3>2. hp' \in [Client -> 0..STARTING_HP]
      BY <1>8, <2>1 DEF TypeOK
    <3>3. players' \in [Game -> Seq(Client)]
      BY <1>1, <1>5 DEF TypeOK
    <3>4. client_on_turn' \in [Game -> Client \cup {NoClient}]
      BY <1>7, <2>1 DEF TypeOK
    <3>. QED
      BY <1>1, <2>1, <3>1, <3>2, <3>3, <3>4 DEF TypeOK
  <2>7. ListsMatchGames'
    <3>1. ASSUME NEW h \in Game, h # g
          PROVE  Placed(h)'
      <4>1. Range(players[h]) \subseteq Client /\ players[h]' = players[h]
        BY <1>1, <2>5, <3>1, SeatFacts
      <4>2. c \notin Range(players[h]) /\ turn \notin Range(players[h])
        BY <1>1, <1>3, <1>4, <1>7, <2>2, <3>1, SeatFacts
      <4>3. \A d \in Range(players[h]) : client_state[d]' = client_state[d]
        BY <2>3, <4>1, <4>2
      <4>4. Placed(h)
        BY <1>1 DEF ListsMatchGames
      <4>. QED
        BY <2>1, <3>1, <4>1, <4>3, <4>4, PlacedElsewhere
    <3>2. Placed(g)'
      <4>1. /\ \A d \in Range(left) : client_state[d]' \in InGame
            /\ turn \in Range(left)
        BY <1>5, <1>6, <1>7, <2>4
      <4>2. Playing(g)' /\ ~InLobby(g)'
        BY <2>5, <4>1 DEF Playing, InLobby, Members, InGame
      <4>3. Len(left) \in 2..LOBBY_SIZE
        <5>1. PICK n : n = Len(players[g])
          OBVIOUS
        <5>2. n \in 2..LOBBY_SIZE /\ Len(left) = n - 1
          BY <1>3, <1>5, <5>1
        <5>. QED
          BY <1>10, <5>2, LobbyAssumption
      <4>. QED
        BY <1>3, <2>1, <2>5, <4>2, <4>3 DEF Placed
    <3>. QED
      BY <1>1, <2>1, <3>1, <3>2 DEF ListsMatchGames
  <2>8. TurnHolder'
    <3> SUFFICES ASSUME NEW d \in Client, client_state[d]' \in InGame
                 PROVE  Held(d)'
      BY DEF TurnHolder
    <3>1. d # c
      BY <2>3 DEF InGame
    <3>2. client_state[d] \in InGame /\ game[d]' = game[d]
      BY <2>3, <2>4, <3>1
    <3>3. CASE game[d] = g
      <4>1. d \in Range(left)
        BY <1>4, <1>5, <3>1, <3>2, <3>3 DEF Seated
      <4>2. game[turn]' = g /\ hp[turn]' > 0 /\ client_state[turn]' = "ON_TURN"
        BY <1>4, <1>7, <2>2, <2>3
      <4>3. client_on_turn[game[d]]' = turn /\ game[d]' = g
        BY <1>3, <2>1, <3>2, <3>3 DEF TypeOK
      <4>4. client_state[d]' = "ON_TURN" => d = turn
        BY <1>7, <2>3, <3>1, <4>1
      <4>. QED
        BY <1>7, <4>2, <4>3, <4>4 DEF Held
    <3>4. CASE game[d] # g
      <4>1. /\ client_on_turn[game[d]]' = client_on_turn[game[d]]
            /\ client_state[d]' = client_state[d]
        <5>1. game[d] \in Game /\ d # turn
          BY <1>1, <1>4, <2>2, <3>2, <3>4, SeatFacts DEF Seated
        <5>. QED
          BY <2>1, <2>3, <3>1, <3>2, <3>4, <5>1 DEF TypeOK
      <4>2. \A e \in Client : game[e] = game[d] =>
                /\ client_state[e]' = client_state[e] /\ hp[e]' = hp[e] /\ game[e]' = game[e]
        BY <1>a, <1>4, <2>2, <2>3, <3>4
      <4>. QED
        BY <1>1, <3>2, <4>1, <4>2, HeldElsewhere DEF TurnHolder
    <3>. QED
      BY <3>3, <3>4
  <2>9. LobbyIsHealed'
    BY <1>1, <2>3, <2>4 DEF LobbyIsHealed
  <2>. QED
    BY <2>5, <2>6, <2>7, <2>8, <2>9
<1>. QED
  BY <1>9, <1>10

\* The handler that never returns, after a player left.
LEMMA LeaveSpinsStep ==
    ASSUME IInv, NEW c \in Client, LeaveSpins(c)
    PROVE  IInv'
<1> USE DEF IInv
<1>1. /\ ~spinning /\ client_state[c] = "ON_TURN" /\ spinning' = TRUE
      /\ players' = [players EXCEPT ![game[c]] = Without(players[game[c]], c)]
      /\ UNCHANGED <<client_state, game, hp, client_on_turn, word, quessed_chars, found_chars,
                     not_started_games, not_started_games_full, started_games>>
  BY DEF LeaveSpins, roundVars, listVars
<1>2. players' \in [Game -> Seq(Client)]
  <2>1. game[c] \in Game /\ players[game[c]] \in Seq(Client)
    BY <1>1, RoundMates, SeatFacts DEF InGame
  <2>2. Without(players[game[c]], c) \in Seq(Client)
    BY <2>1, WithoutType
  <2>. QED
    BY <1>1, <2>1, <2>2 DEF TypeOK
<1>3. TypeOK'
  BY <1>1, <1>2 DEF TypeOK
<1>. QED
  BY <1>1, <1>3 DEF SeatsMatchStates, ListsMatchGames, TurnHolder, LobbyIsHealed

\* A step that changes nothing.
LEMMA StutterStep ==
    ASSUME IInv, UNCHANGED vars
    PROVE  IInv'
<1>1. UNCHANGED <<client_state, game, hp, players, client_on_turn, word, quessed_chars, found_chars,
                  not_started_games, not_started_games_full, started_games, spinning>>
  BY DEF vars, roundVars, listVars
<1>2. TypeOK'
  BY <1>1 DEF IInv, TypeOK
<1>3. SeatsMatchStates' /\ LobbyIsHealed'
  BY <1>1 DEF IInv, SeatsMatchStates, LobbyIsHealed, Members
<1>4. ListsMatchGames'
  BY <1>1 DEF IInv, ListsMatchGames, Placed, InLobby, Playing, Members, Live
<1>5. TurnHolder'
  BY <1>1 DEF IInv, TurnHolder, Held
<1>. QED
  BY <1>2, <1>3, <1>4, <1>5 DEF IInv

\* Every step keeps the inductive invariant.
LEMMA NextIInv == IInv /\ [Next]_vars => IInv'
<1> SUFFICES ASSUME IInv, [Next]_vars
             PROVE  IInv'
  OBVIOUS
<1>1. ASSUME NEW c \in Client, LogIn(c) PROVE IInv'
  BY <1>1, LogInStep
<1>2. ASSUME NEW c \in Client, JoinGame(c) PROVE IInv'
  BY <1>2, JoinGameStep
<1>3. ASSUME NEW c \in Client, StartGame(c) PROVE IInv'
  BY <1>3, StartGameStep
<1>4. ASSUME NEW c \in Client, Leave(c) PROVE IInv'
  BY <1>4, LeaveUnseatedStep, LeaveLobbyStep, LeaveGameStep, LeaveSpinsStep DEF Leave
<1>5. ASSUME NEW c \in Client, NEW ch \in Letter, Quess(c, ch) PROVE IInv'
  BY <1>5, BadQuessStep, BadQuessSpinsStep, GoodQuessStep DEF Quess
<1>6. CASE Spin
  BY <1>6, StutterStep DEF Spin
<1>7. CASE UNCHANGED vars
  BY <1>7, StutterStep
<1>. QED
  BY <1>1, <1>2, <1>3, <1>4, <1>5, <1>6, <1>7 DEF Next

-----------------------------------------------------------------------------
(* The theorems *)

\* The inductive invariant holds in every reachable state.
LEMMA Invariance == Spec => []IInv
<1>. QED
  BY InitIInv, NextIInv, PTL DEF Spec

\* No handler leaves the types of the objects' fields: life points never drop
\* below zero.
THEOREM TypeCorrect == Spec => []TypeOK
<1>1. IInv => TypeOK
  BY DEF IInv
<1>. QED
  BY <1>1, Invariance, PTL

\* No client and no game ever points to one that does not point back
\* (Client::game, Game::client_list).
THEOREM SeatsCorrect == Spec => []SeatsMatchStates
<1>1. IInv => SeatsMatchStates
  BY DEF IInv
<1>. QED
  BY <1>1, Invariance, PTL

\* Every game is in the one list of GameManager that fits its players.
THEOREM ListsCorrect == Spec => []ListsMatchGames
<1>1. IInv => ListsMatchGames
  BY DEF IInv
<1>. QED
  BY <1>1, Invariance, PTL

\* In every round exactly one player is on turn, the one the game points to, and
\* it is alive.
THEOREM TurnCorrect == Spec => []OneAliveOnTurn
<1>1. IInv => OneAliveOnTurn
  <2> SUFFICES ASSUME IInv, ~spinning, NEW g \in started_games
               PROVE  /\ {d \in Members(g) : client_state[d] = "ON_TURN"} = {client_on_turn[g]}
                      /\ hp[client_on_turn[g]] > 0
    BY DEF OneAliveOnTurn
  <2>1. g \in Game
    BY StartedFacts
  <2>2. PICK c \in Client : client_state[c] \in InGame /\ game[c] = g
    BY StartedFacts
  <2>3. PICK t \in Client : /\ t = client_on_turn[g] /\ game[t] = g
                            /\ client_state[t] = "ON_TURN" /\ hp[t] > 0
    BY <2>2 DEF IInv, TurnHolder, Held
  <2>4. \A d \in Client : d \in Members(g) <=> client_state[d] \in Seated /\ game[d] = g
    BY <2>1 DEF IInv, SeatsMatchStates
  <2>5. Members(g) \subseteq Client
    BY <2>1, SeatFacts DEF IInv, Members
  <2>6. t \in Members(g)
    BY <2>3, <2>4 DEF Seated, InGame
  <2>7. ASSUME NEW d \in Members(g), client_state[d] = "ON_TURN"
        PROVE  d = t
    <3>1. d \in Client /\ game[d] = g /\ client_state[d] \in InGame
      BY <2>4, <2>5, <2>7 DEF InGame
    <3>2. Held(d)
      BY <3>1 DEF IInv, TurnHolder
    <3>. QED
      BY <2>3, <2>7, <3>1, <3>2 DEF Held
  <2>. QED
    BY <2>3, <2>6, <2>7
<1>. QED
  BY <1>1, Invariance, PTL

\* Who waits in a lobby has all life points, however the last round ended.
THEOREM HealedCorrect == Spec => []LobbyIsHealed
<1>1. IInv => LobbyIsHealed
  BY DEF IInv
<1>. QED
  BY <1>1, Invariance, PTL

-----------------------------------------------------------------------------
(* What the handlers do to the seats: facts for the server around the games. *)

\* START and QUESS move players between the states of a seat, and nobody else.
LEMMA SeatsStay ==
    ASSUME IInv, NEW c \in Client,
           StartGame(c) \/ \E ch \in Letter : Quess(c, ch)
    PROVE  /\ ~spinning /\ client_state[c] \in Seated
           /\ game' = game /\ players' = players
           /\ \A d \in Client : \/ client_state[d]' = client_state[d]
                                \/ client_state[d] \in Seated /\ client_state[d]' \in Seated
<1> USE DEF IInv
<1>a. PICK g : g = game[c]
  OBVIOUS
<1> DEFINE Stays(d) == \/ client_state[d]' = client_state[d]
                       \/ client_state[d] \in Seated /\ client_state[d]' \in Seated
<1>1. ~spinning /\ client_state[c] \in Seated /\ game' = game /\ players' = players
  BY DEF StartGame, Quess, BadQuess, BadQuessSpins, GoodQuess, MayQuess, Seated, InGame
<1>2. /\ g \in Game /\ c \in Range(players[g]) /\ players[g] \in Seq(Client)
      /\ \A d \in Client : d \in Range(players[g]) => client_state[d] \in Seated
  BY <1>a, <1>1, SeatFacts
<1>3. ASSUME NEW s \in Seated, client_state' = SetStates(players[g], s), NEW d \in Client
      PROVE  Stays(d)
  BY <1>2, <1>3 DEF SetStates
<1>4. CASE StartGame(c)
  <2>1. client_state' = [SetStates(players[g], "WAITING_FOR_TURN")
                            EXCEPT ![Head(players[g])] = "ON_TURN"]
    BY <1>a, <1>4 DEF StartGame, GameStart
  <2>2. Head(players[g]) \in Range(players[g])
    BY <1>2, EmptyList, FrontOfList
  <2>3. ASSUME NEW d \in Client PROVE Stays(d)
    BY <1>2, <2>1, <2>2 DEF SetStates, Seated, InGame
  <2>. QED
    BY <1>1, <2>3
<1>5. CASE \E ch \in Letter : BadQuess(c, ch)
  <2>a. PICK next : next = NextClient(players[g], Find(players[g], client_on_turn[g]), Hurt(c))
    OBVIOUS
  <2>1. PICK ch \in Letter : BadQuess(c, ch)
    BY <1>5
  <2>2. /\ client_state[c] = "ON_TURN" /\ Alive(players[g], Hurt(c)) # {}
        /\ \/ client_state' = SetStates(players[g], "LOBBY")
           \/ client_state' = [client_state EXCEPT ![c] = "WAITING_FOR_TURN", ![next] = "ON_TURN"]
    BY <1>a, <2>a, <2>1 DEF BadQuess, MayQuess
  <2>3. next \in Range(players[g]) /\ next \in Client
    BY <1>a, <1>1, <2>a, <2>2, NextAfterBadQuess
  <2>4. ASSUME NEW d \in Client PROVE Stays(d)
    <3>1. CASE client_state' = SetStates(players[g], "LOBBY")
      BY <1>3, <3>1 DEF Seated
    <3>2. CASE client_state' = [client_state EXCEPT ![c] = "WAITING_FOR_TURN", ![next] = "ON_TURN"]
      <4>1. client_state[d]' = IF d = next THEN "ON_TURN" ELSE
                               IF d = c THEN "WAITING_FOR_TURN" ELSE client_state[d]
        BY <3>2 DEF TypeOK
      <4>. QED
        BY <1>1, <1>2, <2>3, <4>1 DEF Seated, InGame
    <3>. QED
      BY <2>2, <3>1, <3>2
  <2>. QED
    BY <1>1, <2>4
<1>6. CASE \E ch \in Letter : BadQuessSpins(c, ch)
  <2>1. client_state' = [client_state EXCEPT ![c] = "WAITING_FOR_TURN"]
    BY <1>6 DEF BadQuessSpins
  <2>2. ASSUME NEW d \in Client PROVE Stays(d)
    BY <1>1, <2>1 DEF TypeOK, Seated, InGame
  <2>. QED
    BY <1>1, <2>2
<1>7. CASE \E ch \in Letter : GoodQuess(c, ch)
  <2>1. client_state' = client_state \/ client_state' = SetStates(players[g], "LOBBY")
    BY <1>a, <1>7 DEF GoodQuess
  <2>2. ASSUME NEW d \in Client PROVE Stays(d)
    BY <1>3, <2>1 DEF Seated
  <2>. QED
    BY <1>1, <2>2
<1>. QED
  BY <1>4, <1>5, <1>6, <1>7 DEF Quess

\* A departure takes the seat of the client that leaves, and of nobody else.  If
\* the thread hangs in it, the client is out of its game and no more is done.
LEMMA OneSeatLess ==
    ASSUME IInv, NEW c \in Client, Leave(c)
    PROVE  /\ ~spinning
           /\ \A g \in Game : Range(players[g]') \subseteq Range(players[g])
           /\ \A d \in Client \ {c} :
                 /\ game[d]' = game[d]
                 /\ \/ client_state[d]' = client_state[d]
                    \/ client_state[d] \in Seated /\ client_state[d]' \in Seated
           /\ spinning' => client_state[c] \in Seated /\ UNCHANGED <<client_state, game>>
           /\ ~spinning' => client_state[c]' = "UNLOGED"
<1> USE DEF IInv
<1>a. PICK g : g = game[c]
  OBVIOUS
<1>b. PICK left : left = Without(players[g], c)
  OBVIOUS
<1>1. ~spinning
  BY DEF Leave, LeaveUnseated, LeaveLobby, LeaveGame, LeaveSpins
<1>2. CASE LeaveUnseated(c)
  BY <1>1, <1>2 DEF LeaveUnseated, TypeOK
<1>3. ASSUME client_state[c] \in Seated, players' = [players EXCEPT ![g] = left]
      PROVE  \A h \in Game : Range(players[h]') \subseteq Range(players[h])
  <2>1. g \in Game /\ players[g] \in Seq(Client) /\ IsInjective(players[g])
    BY <1>a, <1>1, <1>3, SeatFacts
  <2>2. Range(left) \subseteq Range(players[g])
    BY <1>b, <2>1, WithoutRemoves
  <2>. QED
    BY <1>3, <2>1, <2>2 DEF TypeOK
<1>4. CASE LeaveLobby(c)
  <2>1. /\ client_state[c] = "LOBBY"
        /\ players' = [players EXCEPT ![g] = left]
        /\ client_state' = [client_state EXCEPT ![c] = "UNLOGED"]
        /\ game' = [game EXCEPT ![c] = NoGame]
        /\ spinning' = spinning
    BY <1>a, <1>b, <1>4 DEF LeaveLobby
  <2>2. \A h \in Game : Range(players[h]') \subseteq Range(players[h])
    BY <1>3, <2>1 DEF Seated
  <2>. QED
    BY <1>1, <2>1, <2>2 DEF TypeOK
<1>5. CASE LeaveSpins(c)
  <2>1. /\ client_state[c] = "ON_TURN"
        /\ players' = [players EXCEPT ![g] = left]
        /\ UNCHANGED <<client_state, game>>
        /\ spinning' = TRUE
    BY <1>a, <1>b, <1>5 DEF LeaveSpins
  <2>2. \A h \in Game : Range(players[h]') \subseteq Range(players[h])
    BY <1>3, <2>1 DEF Seated, InGame
  <2>. QED
    BY <1>1, <2>1, <2>2 DEF Seated, InGame
<1>6. CASE LeaveGame(c)
  <2>a. PICK turn : turn = IF client_state[c] = "ON_TURN"
                           THEN NextClient(left, Find(left, c), hp)
                           ELSE client_on_turn[g]
    OBVIOUS
  <2>1. /\ client_state[c] \in InGame
        /\ client_state[c] = "ON_TURN" => Alive(left, hp) # {}
        /\ players' = [players EXCEPT ![g] = left]
        /\ game' = [game EXCEPT ![c] = NoGame]
        /\ spinning' = spinning
    BY <1>a, <1>b, <1>6 DEF LeaveGame
  <2>2. IF Len(left) = 1
        THEN client_state' = [client_state EXCEPT ![c] = "UNLOGED", ![left[1]] = "LOBBY"]
        ELSE client_state' = [client_state EXCEPT ![turn] = "ON_TURN", ![c] = "UNLOGED"]
    BY <1>a, <1>b, <2>a, <1>6 DEF LeaveGame
  <2>3. \A h \in Game : Range(players[h]') \subseteq Range(players[h])
    BY <1>3, <2>1 DEF Seated
  <2>4. turn \in Range(left)
    BY <1>a, <1>b, <1>1, <2>a, <2>1, TurnAfterLeaving
  <2>5. /\ left \in Seq(Client) /\ Range(left) = Range(players[g]) \ {c}
        /\ \A d \in Range(left) : d \in Client /\ client_state[d] \in Seated
    <3>1. g \in Game /\ players[g] \in Seq(Client) /\ IsInjective(players[g])
      BY <1>a, <1>1, <2>1, SeatFacts DEF Seated
    <3>2. left \in Seq(Client) /\ Range(left) = Range(players[g]) \ {c}
      BY <1>b, <3>1, WithoutRemoves
    <3>. QED
      BY <1>1, <3>1, <3>2, SeatFacts
  <2>6. Len(left) = 1 => left[1] \in Range(left)
    BY <2>5, SeqFacts
  <2>7. client_state[c]' = "UNLOGED"
    BY <2>2, <2>4, <2>5, <2>6 DEF TypeOK
  <2>8. ASSUME NEW d \in Client, d # c
        PROVE  \/ client_state[d]' = client_state[d]
               \/ client_state[d] \in Seated /\ client_state[d]' \in Seated
    BY <2>2, <2>4, <2>5, <2>6, <2>8 DEF TypeOK, Seated, InGame
  <2>. QED
    BY <1>1, <2>1, <2>3, <2>7, <2>8 DEF TypeOK
<1>. QED
  BY <1>2, <1>4, <1>5, <1>6 DEF Leave

-----------------------------------------------------------------------------
(* What a step may not do to a round *)

\* A game in the lobby is not started, so a step that touches only such a game
\* touches no round.
LEMMA OtherGame ==
    ASSUME TypeOK, NEW g \in Game, NEW h \in Game, g # h,
           \/ players' = players
           \/ \E ps : players' = [players EXCEPT ![h] = ps],
           \/ word' = word
           \/ \E w : word' = [word EXCEPT ![h] = w],
           \/ quessed_chars' = quessed_chars
           \/ \E q : quessed_chars' = [quessed_chars EXCEPT ![h] = q]
    PROVE  KeepsItsTerms(g)
<1>1. players[g]' = players[g] /\ word[g]' = word[g] /\ quessed_chars[g]' = quessed_chars[g]
  BY DEF TypeOK
<1>2. \A ch \in Letter : quessed_chars[g][ch]' = quessed_chars[g][ch]
  BY <1>1
<1>. QED
  BY <1>1, <1>2 DEF KeepsItsTerms, Members

\* A step that takes at most a player away keeps the terms.
LEMMA OnlyFewer ==
    ASSUME NEW g \in Game, Range(players[g]') \subseteq Range(players[g]),
           UNCHANGED <<word, quessed_chars>>
    PROVE  KeepsItsTerms(g)
BY DEF KeepsItsTerms, Members

\* JOIN picks a game that is not started.
LEMMA JoinKeepsTerms ==
    ASSUME IInv, NEW c \in Client, JoinGame(c), NEW g \in started_games
    PROVE  KeepsItsTerms(g)
<1> USE DEF IInv
<1>1. PICK h \in Game : JoinableGame(h) /\ \E ps : players' = [players EXCEPT ![h] = ps]
  BY DEF JoinGame, AddClient
<1>2. ~spinning /\ UNCHANGED <<word, quessed_chars>>
  BY DEF JoinGame, roundVars
<1>3. g \in Game /\ g \notin Range(not_started_games) /\ Len(players[g]) \in 2..LOBBY_SIZE
  BY <1>2, StartedFacts
<1>4. g # h
  <2>1. CASE not_started_games = <<>>
    <3>1. players[h] = <<>>
      BY <1>1, <2>1 DEF JoinableGame, Live
    <3>. QED
      BY <1>3, <3>1, EmptySeq
  <2>2. CASE not_started_games # <<>>
    BY <1>1, <1>3, <2>2, FrontOfList DEF JoinableGame, TypeOK
  <2>. QED
    BY <2>1, <2>2
<1>. QED
  BY <1>1, <1>2, <1>3, <1>4, OtherGame

\* START exchanges the word of a game that is not started.
LEMMA StartKeepsTerms ==
    ASSUME IInv, NEW c \in Client, StartGame(c), NEW g \in started_games
    PROVE  KeepsItsTerms(g)
<1> USE DEF IInv
<1>a. PICK h : h = game[c]
  OBVIOUS
<1>1. /\ ~spinning /\ client_state[c] = "LOBBY" /\ players' = players
      /\ \E w : word' = [word EXCEPT ![h] = w]
      /\ \E q : quessed_chars' = [quessed_chars EXCEPT ![h] = q]
  BY <1>a DEF StartGame, GameStart
<1>2. h \in Game /\ g # h /\ g \in Game
  BY <1>a, <1>1, LobbyMates, StartedFacts
<1>. QED
  BY <1>1, <1>2, OtherGame

\* A departure takes one player away and touches no letter of a round.
LEMMA LeaveKeepsTerms ==
    ASSUME IInv, NEW c \in Client, Leave(c), NEW g \in started_games
    PROVE  KeepsItsTerms(g)
<1> USE DEF IInv
<1>1. ~spinning /\ g \in Game
  BY DEF Leave, LeaveUnseated, LeaveLobby, LeaveGame, LeaveSpins, TypeOK
<1>2. CASE LeaveUnseated(c)
  BY <1>1, <1>2, OnlyFewer DEF LeaveUnseated, roundVars
<1>3. CASE LeaveLobby(c)
  <2>a. PICK h : h = game[c]
    OBVIOUS
  <2>1. /\ client_state[c] = "LOBBY"
        /\ \E ps : players' = [players EXCEPT ![h] = ps]
        /\ word' = word \/ \E w : word' = [word EXCEPT ![h] = w]
        /\ quessed_chars' = quessed_chars \/ \E q : quessed_chars' = [quessed_chars EXCEPT ![h] = q]
    BY <1>3, <2>a DEF LeaveLobby, roundVars
  <2>2. h \in Game /\ g # h
    BY <1>1, <2>a, <2>1, LobbyMates
  <2>. QED
    BY <1>1, <2>1, <2>2, OtherGame
<1>4. CASE LeaveGame(c) \/ LeaveSpins(c)
  <2>1. /\ client_state[c] \in InGame
        /\ players' = [players EXCEPT ![game[c]] = Without(players[game[c]], c)]
        /\ UNCHANGED <<word, quessed_chars>>
    BY <1>4 DEF LeaveGame, LeaveSpins, InGame, roundVars
  <2>2. game[c] \in Game /\ players[game[c]] \in Seq(Client) /\ IsInjective(players[game[c]])
    BY <1>1, <2>1, RoundMates, SeatFacts
  <2>3. Range(Without(players[game[c]], c)) \subseteq Range(players[game[c]])
    BY <2>2, WithoutRemoves
  <2>4. Range(players[g]') \subseteq Range(players[g])
    BY <1>1, <2>1, <2>2, <2>3 DEF TypeOK
  <2>. QED
    BY <1>1, <2>1, <2>4, OnlyFewer
<1>. QED
  BY <1>2, <1>3, <1>4 DEF Leave

\* A step plays nothing in the game g: nobody joins, no round starts, no letter is
\* named, and no player loses a life.
PlaysNothing(g) ==
    /\ Range(players[g]') \subseteq Members(g)
    /\ g \in started_games' => g \in started_games /\ quessed_chars[g]' = quessed_chars[g]
    /\ \A p \in Range(players[g]') : hp[p]' >= hp[p]

\* A departure takes one seat, and the life points of those who stay are kept or
\* restored.
LEMMA LeavePlaysNothing ==
    ASSUME IInv, NEW c \in Client, Leave(c), NEW g \in Game
    PROVE  PlaysNothing(g)
<1> USE DEF IInv
<1>1. ~spinning
  BY DEF Leave, LeaveUnseated, LeaveLobby, LeaveGame, LeaveSpins
<1>a. PICK h : h = game[c]
  OBVIOUS
<1>b. PICK left : left = Without(players[h], c)
  OBVIOUS
<1>2. \A p \in Client : hp[p] \in Nat /\ hp[p] <= STARTING_HP
  BY DEF TypeOK
<1>3. Range(players[g]) \subseteq Client
  BY <1>1, SeatFacts
<1>4. ASSUME client_state[c] \in Seated, players' = [players EXCEPT ![h] = left]
      PROVE  Range(players[g]') \subseteq Range(players[g]) \ {c}
  <2>1. h \in Game /\ players[h] \in Seq(Client) /\ IsInjective(players[h])
    BY <1>a, <1>1, <1>4, SeatFacts
  <2>2. Range(left) = Range(players[h]) \ {c}
    BY <1>b, <2>1, WithoutRemoves
  <2>3. players[g]' = IF g = h THEN left ELSE players[g]
    BY <1>4, <2>1 DEF TypeOK
  <2>4. g # h => c \notin Range(players[g])
    BY <1>a, <1>1, SeatFacts
  <2>. QED
    BY <2>2, <2>3, <2>4
<1>5. ASSUME Range(players[g]') \subseteq Range(players[g]) \ {c},
             \A p \in Client \ {c} : hp[p]' = hp[p] \/ hp[p]' = STARTING_HP
      PROVE  \A p \in Range(players[g]') : hp[p]' >= hp[p]
  BY <1>2, <1>3, <1>5, LobbyAssumption
<1>6. CASE LeaveUnseated(c)
  BY <1>2, <1>3, <1>6 DEF LeaveUnseated, PlaysNothing, Members, roundVars, listVars
<1>7. CASE LeaveLobby(c)
  <2>1. /\ client_state[c] = "LOBBY"
        /\ players' = [players EXCEPT ![h] = left]
        /\ hp' = [hp EXCEPT ![c] = 0]
        /\ started_games' = started_games
        /\ quessed_chars' = quessed_chars \/ \E q : quessed_chars' = [quessed_chars EXCEPT ![h] = q]
    BY <1>a, <1>b, <1>7 DEF LeaveLobby, roundVars
  <2>2. h \notin started_games
    BY <1>a, <1>1, <2>1, LobbyMates
  <2>3. Range(players[g]') \subseteq Range(players[g]) \ {c}
    BY <1>4, <2>1 DEF Seated
  <2>4. \A p \in Client \ {c} : hp[p]' = hp[p]
    BY <2>1 DEF TypeOK
  <2>5. \A p \in Range(players[g]') : hp[p]' >= hp[p]
    BY <1>5, <2>3, <2>4
  <2>6. g \in started_games' => quessed_chars[g]' = quessed_chars[g]
    BY <2>1, <2>2 DEF TypeOK
  <2>. QED
    BY <2>1, <2>3, <2>5, <2>6 DEF PlaysNothing, Members
<1>8. CASE LeaveSpins(c)
  <2>1. /\ client_state[c] = "ON_TURN"
        /\ players' = [players EXCEPT ![h] = left]
        /\ UNCHANGED <<hp, started_games, quessed_chars>>
    BY <1>a, <1>b, <1>8 DEF LeaveSpins, roundVars, listVars
  <2>2. Range(players[g]') \subseteq Range(players[g]) \ {c}
    BY <1>4, <2>1 DEF Seated, InGame
  <2>3. \A p \in Range(players[g]') : hp[p]' >= hp[p]
    BY <1>5, <2>1, <2>2
  <2>. QED
    BY <2>1, <2>2, <2>3 DEF PlaysNothing, Members
<1>9. CASE LeaveGame(c)
  <2>1. /\ client_state[c] \in InGame
        /\ players' = [players EXCEPT ![h] = left]
        /\ quessed_chars' = quessed_chars
    BY <1>a, <1>b, <1>9 DEF LeaveGame, roundVars
  <2>2. \/ AnnounceWinner(h, left) /\ hp' = [Healed(left) EXCEPT ![c] = 0]
        \/ hp' = [hp EXCEPT ![c] = 0] /\ UNCHANGED listVars
    BY <1>a, <1>b, <1>9 DEF LeaveGame
  <2>3. started_games' \subseteq started_games
    BY <2>2 DEF AnnounceWinner, listVars
  <2>4. \A p \in Client \ {c} : hp[p]' = hp[p] \/ hp[p]' = STARTING_HP
    BY <2>2 DEF Healed, TypeOK
  <2>5. Range(players[g]') \subseteq Range(players[g]) \ {c}
    BY <1>4, <2>1 DEF Seated
  <2>6. \A p \in Range(players[g]') : hp[p]' >= hp[p]
    BY <1>5, <2>4, <2>5
  <2>. QED
    BY <2>1, <2>3, <2>5, <2>6 DEF PlaysNothing, Members
<1>. QED
  BY <1>6, <1>7, <1>8, <1>9 DEF Leave

\* A guess reveals letters that were not known before.
LEMMA QuessKeepsTerms ==
    ASSUME IInv, NEW c \in Client, NEW ch \in Letter, Quess(c, ch), NEW g \in started_games
    PROVE  KeepsItsTerms(g)
<1> USE DEF IInv
<1>1. g \in Game /\ players' = players /\ word' = word
  BY DEF Quess, BadQuess, BadQuessSpins, GoodQuess, roundVars, TypeOK
<1>2. CASE quessed_chars' = quessed_chars
  BY <1>1, <1>2, OnlyFewer
<1>3. CASE GoodQuess(c, ch)
  <2>a. PICK h : h = game[c]
    OBVIOUS
  <2>b. PICK new : new = Revealed(h, ch)
    OBVIOUS
  <2>1. /\ ~spinning /\ client_state[c] = "ON_TURN" /\ new # {}
        /\ quessed_chars' = [quessed_chars EXCEPT ![h][ch] = new]
    BY <1>3, <2>a, <2>b DEF GoodQuess, MayQuess
  <2>2. quessed_chars[h][ch] = {}
    BY <2>b, <2>1 DEF Revealed
  <2>3. h \in Game
    BY <2>a, <2>1, RoundMates DEF InGame
  <2>4. \A k \in Letter : quessed_chars[g][k] \subseteq quessed_chars[g][k]'
    <3> TAKE k \in Letter
    <3>1. CASE g = h /\ k = ch
      BY <2>2, <3>1
    <3>2. CASE ~(g = h /\ k = ch)
      BY <1>1, <2>1, <2>3, <3>2 DEF TypeOK
    <3>. QED
      BY <3>1, <3>2
  <2>. QED
    BY <1>1, <2>4 DEF KeepsItsTerms, Members
<1>4. BadQuess(c, ch) \/ BadQuessSpins(c, ch) => quessed_chars' = quessed_chars
  BY DEF BadQuess, BadQuessSpins, roundVars
<1>. QED
  BY <1>2, <1>3, <1>4 DEF Quess

\* During a round nobody joins, the word stays, and the letters seen stay seen,
\* whoever leaves or guesses (GameManager::joinGame picks no started game).
THEOREM TermsKept == Spec => RoundKeepsItsTerms
<1>1. IInv /\ [Next]_vars => [\A g \in Game : StillStarted(g) => KeepsItsTerms(g)]_vars
  <2> SUFFICES ASSUME IInv, Next, NEW g \in Game, StillStarted(g)
               PROVE  KeepsItsTerms(g)
    OBVIOUS
  <2>0. g \in started_games
    BY DEF StillStarted
  <2>1. ASSUME NEW c \in Client, LogIn(c) PROVE KeepsItsTerms(g)
    BY <2>1, OnlyFewer DEF LogIn, roundVars
  <2>2. ASSUME NEW c \in Client, JoinGame(c) PROVE KeepsItsTerms(g)
    BY <2>0, <2>2, JoinKeepsTerms
  <2>3. ASSUME NEW c \in Client, StartGame(c) PROVE KeepsItsTerms(g)
    BY <2>0, <2>3, StartKeepsTerms
  <2>4. ASSUME NEW c \in Client, Leave(c) PROVE KeepsItsTerms(g)
    BY <2>0, <2>4, LeaveKeepsTerms
  <2>5. ASSUME NEW c \in Client, NEW ch \in Letter, Quess(c, ch) PROVE KeepsItsTerms(g)
    BY <2>0, <2>5, QuessKeepsTerms
  <2>6. CASE Spin
    BY <2>6, OnlyFewer DEF Spin, vars, roundVars
  <2>. QED
    BY <2>1, <2>2, <2>3, <2>4, <2>5, <2>6 DEF Next
<1>. QED
  BY <1>1, Invariance, PTL DEF Spec, RoundKeepsItsTerms
=============================================================================

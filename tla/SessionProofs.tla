----------------------------- MODULE SessionProofs -----------------------------
(***************************************************************************)
(* Proofs about Session, for any number of other players, games and        *)
(* connections and any bounds: what the server and the client keep of each *)
(* other has its type, the player's name is on one connection at a time,   *)
(* and the games are used only as GameManager describes.                   *)
(***************************************************************************)
EXTENDS Session, ListLemmas, FiniteSetTheorems

\* The games of the session, with what is proved of them.
P == INSTANCE GameManagerProofs

-----------------------------------------------------------------------------
(* Types *)

\* What the client can send.
Message == {"LOGIN", "JOIN", "START", "QUESS", "PONG"}

\* What the server can send, and what the client makes of the rest of a cut line.
ServerLine ==
    [type : {"ACCEPT|1", "ACCEPT|2", "ERROR|1", "ERROR", "WINNER", "PING", "REST"}]
      \cup [type : {"LOBBYUPDATE"}, clients : Seq(Client)]
      \cup [type : {"GAMEUPDATE"}, clients : Seq(Client), turn : Client \cup {NoClient}]
      \cup [type : {"STARTING"}, turn : Client \cup {NoClient}, len : Nat]
      \cup [type : {"CORRECTQUESS"}, positions : SUBSET Nat]
      \cup [type : {"BADQUESS"}, by : Client, turn : Client \cup {NoClient}]
      \cup [type : {"RECONNECT"}, state : {"LOBBY", "GAME"}]
      \cup [type : {"QUESSED"}, len : Nat, positions : SUBSET Nat]

Instructions == {<<>>} \cup {<<i>> : i \in {"CONNECT", "JOIN", "START", "QUESS"}}

Connection ==
    [holder : {"none", "fresh", "player"}, open : BOOLEAN, reset : BOOLEAN,
     didPingedBack : BOOLEAN, in : Seq(Message), out : Seq(ServerLine)]

ThreadRecord ==
    [alive : BOOLEAN, connected : BOOLEAN,
     client_socket : Conn \cup {NoSocket, Unconnected},
     client_state : {"UNLOGGED", "LOGGED", "LOBBY", "GAME"},
     number_of_wrong_msg : Nat, got_server_ping : BOOLEAN, missed_pings : 0..2,
     clients : Seq(Client), number_of_clients : Nat, word_len : Nat, word : SUBSET Nat,
     scene : {"login_frame", "join_frame", "lobby_frame", "game_frame", "temp_dis_frame"},
     start_button : BOOLEAN, quess_entry : BOOLEAN, received : BOOLEAN,
     data : Seq(ServerLine), lines : Seq(ServerLine), attempts : 0..MaxAttempts]

SessionFields ==
    [wrong_msgs : 0..(MAX_WRONG_MSGS - 1), didPingedBack : BOOLEAN,
     missedPings : 0..(MISSED_PING_TO_FULL_DISCONNECT - 1)]

Types ==
    /\ mine \in SessionFields
    /\ conn \in [Conn -> Connection]
    /\ thread \in ThreadRecord
    /\ instructions \in Instructions
    /\ clean \in BOOLEAN

-----------------------------------------------------------------------------
(* The inductive invariant *)

\* The name is on one connection at most.
Alone == \A j, k \in Conn : Holder(j) = "player" /\ Holder(k) = "player" => j = k

\* A player with a connection is one that logged in and has missed no ping, one
\* without a connection has a seat, and one without a seat has no game.
Linked ==
    ~spinning =>
        /\ Online => client_state[Me] # "UNLOGED" /\ mine.missedPings = 0
        /\ client_state[Me] = "LOGGED" => Online
        /\ client_state[Me] \notin Seated => game[Me] = NoGame

SIInv == P!IInv /\ Types /\ Alone /\ Linked

-----------------------------------------------------------------------------
(* The games of the session are those of GameManager.  GM and P are two    *)
(* instances of the same definitions, so each lemma only expands both.     *)

\* The search in a list and the removal from it.
LEMMA SameLists ==
    /\ \A s, e : GM!Find(s, e) = P!Find(s, e) /\ GM!Without(s, e) = P!Without(s, e)
    /\ \A S : GM!Cardinality(S) = P!Cardinality(S)
BY DEF GM!Find, GM!Without, GM!Range, GM!RemoveAt, GM!Cardinality,
       P!Find, P!Without, P!Range, P!RemoveAt, P!Cardinality

\* Who is alive, whose turn is next, and what the handlers make of the states
\* and the life points.
LEMMA SameHelpers ==
    /\ \A ps, h : GM!Alive(ps, h) = P!Alive(ps, h)
    /\ \A ps, i, h : GM!NextClient(ps, i, h) = P!NextClient(ps, i, h)
    /\ \A g, ch : GM!Revealed(g, ch) = P!Revealed(g, ch)
    /\ \A ps : GM!Healed(ps) = P!Healed(ps)
    /\ \A ps, s : GM!SetStates(ps, s) = P!SetStates(ps, s)
    /\ \A c : GM!Hurt(c) = P!Hurt(c)
    /\ \A g, ps : GM!AnnounceWinner(g, ps) <=> P!AnnounceWinner(g, ps)
<1>1. \A ps, h : GM!Alive(ps, h) = P!Alive(ps, h)
  BY DEF GM!Alive, GM!IsAlive, GM!Range, P!Alive, P!IsAlive, P!Range
<1>2. \A ps, i, h : GM!NextClient(ps, i, h) = P!NextClient(ps, i, h)
  BY DEF GM!NextClient, GM!IsAlive, GM!Visited, P!NextClient, P!IsAlive, P!Visited
<1>3. \A g, ch : GM!Revealed(g, ch) = P!Revealed(g, ch)
  BY DEF GM!Revealed, GM!Positions, P!Revealed, P!Positions
<1>4. \A ps : GM!Healed(ps) = P!Healed(ps)
  BY DEF GM!Healed, GM!Range, P!Healed, P!Range
<1>5. \A ps, s : GM!SetStates(ps, s) = P!SetStates(ps, s)
  BY DEF GM!SetStates, GM!Range, P!SetStates, P!Range
<1>6. \A c : GM!Hurt(c) = P!Hurt(c)
  BY DEF GM!Hurt, P!Hurt
<1>7. \A g, ps : GM!AnnounceWinner(g, ps) <=> P!AnnounceWinner(g, ps)
  BY DEF GM!AnnounceWinner, P!AnnounceWinner
<1>. QED
  BY <1>1, <1>2, <1>3, <1>4, <1>5, <1>6, <1>7

\* LOGIN, JOIN and START.
LEMMA SameLobbySteps ==
    ASSUME NEW c
    PROVE  /\ GM!LogIn(c) => P!LogIn(c)
           /\ GM!JoinGame(c) => P!JoinGame(c)
           /\ GM!StartGame(c) => P!StartGame(c)
<1>1. GM!LogIn(c) => P!LogIn(c)
  BY DEF GM!LogIn, GM!roundVars, GM!listVars, P!LogIn, P!roundVars, P!listVars
<1>2. GM!JoinGame(c) => P!JoinGame(c)
  BY SameLists DEF GM!JoinGame, GM!JoinableGame, GM!AddClient, GM!Live, GM!roundVars,
                   P!JoinGame, P!JoinableGame, P!AddClient, P!Live, P!roundVars
<1>3. GM!StartGame(c) => P!StartGame(c)
  BY SameLists, SameHelpers DEF GM!StartGame, GM!GameStart, GM!RandomWords,
                                P!StartGame, P!GameStart, P!RandomWords
<1>. QED
  BY <1>1, <1>2, <1>3

\* QUESS.
LEMMA SameQuess ==
    ASSUME NEW c, NEW ch, GM!Quess(c, ch)
    PROVE  P!Quess(c, ch)
<1>1. GM!BadQuess(c, ch) => P!BadQuess(c, ch)
  BY SameLists, SameHelpers DEF GM!BadQuess, GM!MayQuess, GM!roundVars, GM!listVars,
                                P!BadQuess, P!MayQuess, P!roundVars, P!listVars
<1>2. GM!BadQuessSpins(c, ch) => P!BadQuessSpins(c, ch)
  BY SameHelpers DEF GM!BadQuessSpins, GM!MayQuess, GM!roundVars, GM!listVars,
                     P!BadQuessSpins, P!MayQuess, P!roundVars, P!listVars
<1>3. GM!GoodQuess(c, ch) => P!GoodQuess(c, ch)
  BY SameLists, SameHelpers DEF GM!GoodQuess, GM!MayQuess, GM!IsClientWinner, GM!listVars,
                                P!GoodQuess, P!MayQuess, P!IsClientWinner, P!listVars
<1>. QED
  BY <1>1, <1>2, <1>3 DEF GM!Quess, P!Quess

\* The game part of Server::disconnet.
LEMMA SameLeave ==
    ASSUME NEW c, GM!Leave(c)
    PROVE  P!Leave(c)
<1> USE SameLists, SameHelpers
        DEF GM!roundVars, GM!listVars, P!roundVars, P!listVars
<1>1. GM!LeaveUnseated(c) => P!LeaveUnseated(c)
  BY DEF GM!LeaveUnseated, P!LeaveUnseated
<1>2. GM!LeaveLobby(c) => P!LeaveLobby(c)
  BY DEF GM!LeaveLobby, P!LeaveLobby
<1>3. GM!LeaveGame(c) => P!LeaveGame(c)
  BY DEF GM!LeaveGame, GM!InGame, P!LeaveGame, P!InGame
<1>4. GM!LeaveSpins(c) => P!LeaveSpins(c)
  BY DEF GM!LeaveSpins, P!LeaveSpins
<1>. QED
  BY <1>1, <1>2, <1>3, <1>4 DEF GM!Leave, P!Leave

\* A step of the games keeps what is proved of them (GameManagerProofs).
LEMMA GamesKeepIInv ==
    ASSUME P!IInv, GM!Next \/ UNCHANGED gameVars
    PROVE  P!IInv'
<1>1. GM!Next => P!Next
  BY SameLobbySteps, SameQuess, SameLeave
     DEF GM!Next, GM!Spin, GM!vars, GM!roundVars, GM!listVars,
         P!Next, P!Spin, P!vars, P!roundVars, P!listVars
<1>2. UNCHANGED gameVars => UNCHANGED P!vars
  BY DEF gameVars, P!vars, P!roundVars, P!listVars
<1>. QED
  BY <1>1, <1>2, GamesAssumption, P!NextIInv

\* At the start there are no games.
LEMMA GamesInitIInv ==
    ASSUME GM!Init
    PROVE  P!IInv
<1>1. P!Init
  BY DEF GM!Init, P!Init
<1>. QED
  BY <1>1, GamesAssumption, P!InitIInv

\* The types of the games, in the words of Session.
LEMMA GameTypes ==
    ASSUME P!IInv
    PROVE  /\ client_state \in [Client -> ClientState]
           /\ game \in [Client -> Game \cup {NoGame}]
           /\ players \in [Game -> Seq(Client)]
           /\ client_on_turn \in [Game -> Client \cup {NoClient}]
           /\ word \in [Game -> Seq(Letter)]
           /\ quessed_chars \in [Game -> [Letter -> SUBSET Nat]]
           /\ started_games \subseteq Game
           /\ spinning \in BOOLEAN
BY DEF P!IInv, P!TypeOK, P!ClientState, ClientState

\* The same after a step.
LEMMA GameTypesAfter ==
    ASSUME P!IInv'
    PROVE  /\ client_state' \in [Client -> ClientState]
           /\ game' \in [Client -> Game \cup {NoGame}]
           /\ players' \in [Game -> Seq(Client)]
           /\ client_on_turn' \in [Game -> Client \cup {NoClient}]
           /\ word' \in [Game -> Seq(Letter)]
           /\ quessed_chars' \in [Game -> [Letter -> SUBSET Nat]]
           /\ started_games' \subseteq Game
           /\ spinning' \in BOOLEAN
BY DEF P!IInv, P!TypeOK, P!ClientState, ClientState

\* Who has a seat has a game.
LEMMA SeatedHasGame ==
    ASSUME P!IInv, ~spinning, NEW c \in Client, client_state[c] \in Seated
    PROVE  game[c] \in Game
<1>1. game[c] # NoGame
  BY DEF P!IInv, P!SeatsMatchStates, P!Seated, P!InGame, Seated, InGame
<1>. QED
  BY <1>1, GameTypes

\* What START and QUESS do to the seats.
LEMMA RoundSteps ==
    ASSUME P!IInv, NEW c \in Client,
           GM!StartGame(c) \/ \E ch \in Letter : GM!Quess(c, ch)
    PROVE  /\ ~spinning /\ client_state[c] \in Seated
           /\ game' = game /\ players' = players
           /\ \A d \in Client : \/ client_state[d]' = client_state[d]
                                \/ client_state[d] \in Seated /\ client_state[d]' \in Seated
<1>1. P!StartGame(c) \/ \E ch \in Letter : P!Quess(c, ch)
  BY SameLobbySteps, SameQuess
<1>2. Seated = P!Seated
  BY DEF Seated, InGame, P!Seated, P!InGame
<1>. QED
  BY <1>1, <1>2, GamesAssumption, P!SeatsStay

\* What a departure does to the seats, and to the game of who leaves.
LEMMA LeaveSteps ==
    ASSUME P!IInv, NEW c \in Client, GM!Leave(c)
    PROVE  /\ ~spinning
           /\ \A d \in Client \ {c} :
                 /\ game[d]' = game[d]
                 /\ \/ client_state[d]' = client_state[d]
                    \/ client_state[d] \in Seated /\ client_state[d]' \in Seated
           /\ ~spinning' => client_state[c]' = "UNLOGED"
           /\ ~spinning' /\ client_state[c] \in Seated => game[c]' = NoGame
           /\ client_state[c] \notin Seated => game' = game
<1>1. P!Leave(c)
  BY SameLeave
<1>2. Seated = P!Seated
  BY DEF Seated, InGame, P!Seated, P!InGame
<1>3. game \in [Client -> Game \cup {NoGame}]
  BY GameTypes
<1>4. \/ spinning'
      \/ game' = game /\ client_state[c] \notin Seated
      \/ game' = [game EXCEPT ![c] = NoGame] /\ client_state[c] \in Seated
  BY DEF GM!Leave, GM!LeaveUnseated, GM!LeaveLobby, GM!LeaveGame, GM!LeaveSpins, GM!InGame,
         Seated, InGame
<1>5. spinning' => client_state[c] \in Seated
  BY <1>1, <1>2, GamesAssumption, P!OneSeatLess
<1>. QED
  BY <1>1, <1>2, <1>3, <1>4, <1>5, GamesAssumption, P!OneSeatLess

-----------------------------------------------------------------------------
(* The lines of the server *)

\* Sequences of one, two and three elements.
LEMMA ShortLists ==
    ASSUME NEW S
    PROVE  /\ <<>> \in Seq(S)
           /\ \A a \in S : <<a>> \in Seq(S)
           /\ \A a, b \in S : <<a, b>> \in Seq(S)
           /\ \A a, b, c \in S : <<a, b, c>> \in Seq(S)
           /\ \A s, t \in Seq(S) : s \o t \in Seq(S)
OBVIOUS

\* Lines without anything but a type.
LEMMA BareLineType ==
    ASSUME NEW type \in {"ACCEPT|1", "ACCEPT|2", "ERROR|1", "ERROR", "WINNER", "PING", "REST"}
    PROVE  Line(type) \in ServerLine
BY DEF Line, ServerLine

\* The lists of players.
LEMMA UpdateLineTypes ==
    ASSUME NEW ps \in Seq(Client), NEW turn \in Client \cup {NoClient}
    PROVE  LobbyLine(ps) \in ServerLine /\ GameLine(ps, turn) \in ServerLine
BY DEF LobbyLine, GameLine, ServerLine

\* An update of a game as it is.
LEMMA UpdateLineType ==
    ASSUME P!IInv, NEW g \in Game
    PROVE  UpdateLine(g) \in ServerLine
BY GameTypes, UpdateLineTypes DEF UpdateLine

\* The lines at the end of a round.
LEMMA EndLinesType ==
    ASSUME P!IInv', NEW g \in Game
    PROVE  EndLines(g) \in Seq(ServerLine)
<1>1. players'[g] \in Seq(Client)
  BY GameTypesAfter
<1>2. Line("WINNER") \in ServerLine /\ LobbyLine(players'[g]) \in ServerLine
  BY <1>1, BareLineType, UpdateLineTypes
<1>. QED
  BY <1>2, ShortLists DEF EndLines

\* The lines of START.
LEMMA StartLinesType ==
    ASSUME P!IInv', NEW g \in Game
    PROVE  StartLines(g) \in Seq(ServerLine)
<1>1. client_on_turn'[g] \in Client \cup {NoClient} /\ Len(word'[g]) \in Nat
  BY GameTypesAfter, SeqFacts
<1>2. [type |-> "STARTING", turn |-> client_on_turn'[g], len |-> Len(word'[g])] \in ServerLine
  BY <1>1 DEF ServerLine
<1>. QED
  BY <1>2, ShortLists DEF StartLines

\* The positions of a word that a letter reveals.
LEMMA RevealedType ==
    ASSUME P!IInv, NEW g \in Game, NEW ch
    PROVE  GM!Revealed(g, ch) \subseteq 1..Len(word[g]) /\ Len(word[g]) \in Nat
BY GameTypes, SeqFacts DEF GM!Revealed, GM!Positions

\* The lines of QUESS.
LEMMA QuessLinesType ==
    ASSUME P!IInv, P!IInv', NEW c \in Client, game[c] \in Game, NEW ch \in Letter
    PROVE  QuessLines(c, ch) \in Seq(ServerLine)
<1>1. PICK g \in Game : g = game[c]
  OBVIOUS
<1>2. PICK found : found = GM!Revealed(g, ch)
  OBVIOUS
<1>3. found \subseteq Nat
  BY <1>2, RevealedType
<1>4. client_on_turn'[g] \in Client \cup {NoClient}
  BY GameTypesAfter
<1>5. [type |-> "BADQUESS", by |-> c, turn |-> client_on_turn'[g]] \in ServerLine
  BY <1>4 DEF ServerLine
<1>6. [type |-> "CORRECTQUESS", positions |-> found] \in ServerLine
  BY <1>3 DEF ServerLine
<1>7. EndLines(g) \in Seq(ServerLine)
  BY EndLinesType
<1>8. QuessLines(c, ch) =
        IF spinning' THEN <<>>
        ELSE IF found = {}
             THEN <<[type |-> "BADQUESS", by |-> c, turn |-> client_on_turn'[g]]>> \o EndLines(g)
             ELSE IF EndLines(g) # <<>> THEN EndLines(g)
                  ELSE <<[type |-> "CORRECTQUESS", positions |-> found]>>
  BY <1>1, <1>2 DEF QuessLines
<1>. QED
  BY <1>5, <1>6, <1>7, <1>8, ShortLists

\* The lines after a departure.
LEMMA LeaveLinesType ==
    ASSUME P!IInv', NEW g \in Game
    PROVE  LeaveLines(g) \in Seq(ServerLine)
<1>1. client_on_turn'[g] \in Client \cup {NoClient} /\ players'[g] \in Seq(Client)
  BY GameTypesAfter
<1>2. /\ GameLine(players'[g], client_on_turn'[g]) \in ServerLine
      /\ LobbyLine(players'[g]) \in ServerLine
  BY <1>1, UpdateLineTypes
<1>. QED
  BY <1>2, EndLinesType, ShortLists DEF LeaveLines

\* With the update before it.
LEMMA GoingLinesType ==
    ASSUME P!IInv, P!IInv', NEW g \in Game, NEW ls \in GoingLines(g)
    PROVE  ls \in Seq(ServerLine)
<1>1. PICK u \in Seq(ServerLine) : u = <<UpdateLine(g)>>
  BY UpdateLineType, ShortLists
<1>2. PICK v \in Seq(ServerLine) : v = LeaveLines(g)
  BY LeaveLinesType
<1>3. ls = v \/ ls = u \o v
  BY <1>1, <1>2 DEF GoingLines
<1>. QED
  BY <1>1, <1>2, <1>3, ShortLists

\* The positions that are known are numbers.
LEMMA KnownType ==
    ASSUME P!IInv, NEW g \in Game
    PROVE  Known(g) \subseteq Nat
BY GameTypes DEF Known, Range

\* The lines for a player that is back.
LEMMA BackLinesType ==
    ASSUME P!IInv, NEW g \in Game
    PROVE  BackLines(g) \in Seq(ServerLine)
<1>1. [type |-> "RECONNECT", state |-> "GAME"] \in ServerLine
  BY DEF ServerLine
<1>2. [type |-> "RECONNECT", state |-> "LOBBY"] \in ServerLine
  BY DEF ServerLine
<1>3. [type |-> "QUESSED", len |-> Len(word[g]), positions |-> Known(g)] \in ServerLine
  BY GameTypes, SeqFacts, KnownType DEF ServerLine
<1>. QED
  BY <1>1, <1>2, <1>3, UpdateLineType, ShortLists DEF BackLines

-----------------------------------------------------------------------------
(* One connection *)

\* What is sent leaves all but the lines on their way alone.
LEMMA SentFields ==
    ASSUME NEW c \in Connection, NEW ls \in Seq(ServerLine)
    PROVE  /\ Sent(c, ls) \in Connection
           /\ Sent(c, ls).holder = c.holder /\ Sent(c, ls).open = c.open
           /\ Sent(c, ls).reset = c.reset /\ Sent(c, ls).in = c.in
           /\ Sent(c, ls).out = IF c.open THEN c.out \o ls ELSE c.out
<1>1. c.out \in Seq(ServerLine)
  BY DEF Connection
<1>2. c.out \o ls \in Seq(ServerLine)
  BY <1>1
<1>. QED
  BY <1>1, <1>2 DEF Sent, Connection

\* The server reads the first n messages.
LEMMA ReadFields ==
    ASSUME NEW c \in Connection, NEW ms \in Seq(Message)
    PROVE  LET r == [c EXCEPT !.in = ms]
           IN  /\ r \in Connection
               /\ r.holder = c.holder /\ r.open = c.open /\ r.reset = c.reset
               /\ r.out = c.out /\ r.in = ms
BY DEF Connection

\* An answer to the first message.
LEMMA AnsweredFields ==
    ASSUME NEW k \in Conn, conn[k] \in Connection, conn[k].in # <<>>,
           NEW ls \in Seq(ServerLine)
    PROVE  /\ Answered(k, ls) \in Connection
           /\ Answered(k, ls).holder = conn[k].holder /\ Answered(k, ls).open = conn[k].open
           /\ Answered(k, ls).reset = conn[k].reset /\ Answered(k, ls).in = Tail(conn[k].in)
           /\ Answered(k, ls).out = IF conn[k].open THEN conn[k].out \o ls ELSE conn[k].out
<1>1. conn[k].in \in Seq(Message)
  BY DEF Connection
<1>2. PICK ms \in Seq(Message) : ms = Tail(conn[k].in)
  BY <1>1, HeadTailProperties
<1>3. PICK r : r = [conn[k] EXCEPT !.in = ms]
  OBVIOUS
<1>4. /\ r \in Connection
      /\ r.holder = conn[k].holder /\ r.open = conn[k].open /\ r.reset = conn[k].reset
      /\ r.out = conn[k].out /\ r.in = ms
  BY <1>3, ReadFields
<1>5. Answered(k, ls) = Sent(r, ls)
  BY <1>2, <1>3 DEF Answered
<1>. QED
  BY <1>2, <1>4, <1>5, SentFields

\* The server closes its end.
LEMMA ClosedFields ==
    ASSUME NEW c \in Connection
    PROVE  /\ ServerClosed(c) \in Connection
           /\ ServerClosed(c).holder = "none" /\ ServerClosed(c).open = c.open
           /\ ServerClosed(c).in = <<>> /\ ServerClosed(c).out = c.out
           /\ ServerClosed(c).reset => Failures
<1>1. <<>> \in Seq(Message)
  BY ShortLists
<1>2. PICK r \in BOOLEAN : r = (Failures /\ c.open /\ c.in # <<>>)
  OBVIOUS
<1>3. ServerClosed(c) = [c EXCEPT !.holder = "none", !.reset = r, !.in = <<>>,
                                  !.didPingedBack = TRUE]
  BY <1>2 DEF ServerClosed
<1>4. r => Failures
  BY <1>2
<1>. QED
  BY <1>1, <1>3, <1>4 DEF Connection

\* LOGIN succeeded.
LEMMA OfPlayerFields ==
    ASSUME NEW c \in Connection
    PROVE  /\ OfPlayer(c) \in Connection
           /\ OfPlayer(c).holder = "player" /\ OfPlayer(c).open = c.open
           /\ OfPlayer(c).reset = c.reset /\ OfPlayer(c).in = c.in /\ OfPlayer(c).out = c.out
BY DEF OfPlayer, Connection

\* A connection that nobody uses, and a new one.
LEMMA NewFields ==
    /\ NoConnection \in Connection /\ NewConnection \in Connection
    /\ NoConnection.holder = "none" /\ ~NoConnection.open /\ NoConnection.out = <<>>
    /\ NewConnection.holder = "fresh" /\ NewConnection.open /\ NewConnection.out = <<>>
    /\ ~NewConnection.reset /\ NewConnection.in = <<"LOGIN">>
    /\ \A broken \in BOOLEAN :
          LET c == [NewConnection EXCEPT !.in = <<>>, !.reset = broken]
          IN  c \in Connection /\ c.holder = "fresh" /\ c.open /\ c.out = <<>> /\ c.in = <<>>
<1>1. <<>> \in Seq(Message) /\ <<>> \in Seq(ServerLine) /\ <<"LOGIN">> \in Seq(Message)
  BY ShortLists DEF Message
<1>. QED
  BY <1>1 DEF NoConnection, NewConnection, Connection

-----------------------------------------------------------------------------
(* What a step of the server leaves of the invariant *)

\* Only the connection k changes, and it is not given to the player.
LEMMA OneConnection ==
    ASSUME Types, Alone, NEW k \in Conn, NEW c \in Connection,
           conn' = [conn EXCEPT ![k] = c],
           c.holder = "player" => Holder(k) = "player"
    PROVE  /\ conn' \in [Conn -> Connection] /\ Alone'
           /\ Online' => Online
           /\ Holder(k) = "player" /\ c.holder # "player" => ~Online'
           /\ c.holder = Holder(k) => (Online' <=> Online)
BY DEF Types, Alone, Online, Holder

\* The connection k is given to the player, who had none.
LEMMA GivenConnection ==
    ASSUME Types, ~Online, NEW k \in Conn, NEW c \in Connection,
           conn' = [conn EXCEPT ![k] = c],
           c.holder = "player"
    PROVE  conn' \in [Conn -> Connection] /\ Alone' /\ Online'
BY DEF Types, Alone, Online, Holder

\* What another player's step sends changes no holder.
LEMMA ToldConnections ==
    ASSUME Types, Alone, NEW g, NEW ls,
           g \in Game \/ ls = <<>>,
           g \in Game => ls \in Seq(ServerLine),
           Tell(g, ls)
    PROVE  conn' \in [Conn -> Connection] /\ Alone' /\ (Online' <=> Online)
<1>1. ls \in Seq(ServerLine)
  BY ShortLists
<1>2. ASSUME NEW j \in Conn
      PROVE  conn'[j] \in Connection /\ conn'[j].holder = conn[j].holder
  <2>1. conn[j] \in Connection
    BY DEF Types
  <2>2. conn'[j] = Sent(conn[j], ls) \/ conn'[j] = conn[j]
    BY DEF Tell
  <2>. QED
    BY <1>1, <2>1, <2>2, SentFields
<1>3. DOMAIN conn' = Conn /\ conn' = [j \in Conn |-> conn'[j]]
  BY DEF Tell
<1>. QED
  BY <1>2, <1>3 DEF Alone, Online, Holder

\* The types after a step of the server.
LEMMA TypesAfterServer ==
    ASSUME Types, conn' \in [Conn -> Connection], UNCHANGED clientVars,
           mine' \in SessionFields
    PROVE  Types'
BY DEF Types, clientVars

\* The fields of a new session.
LEMMA NewSessionFields ==
    /\ NewSession \in SessionFields
    /\ NewSession.missedPings = 0
BY LimitAssumption DEF NewSession, SessionFields

\* A step of the games that another player makes does not unseat the player Me.
LEMMA OthersLeaveMeAlone ==
    ASSUME SIInv, NEW c \in Client \ {Me},
           GM!LogIn(c) \/ GM!JoinGame(c) \/ GM!StartGame(c)
             \/ (\E ch \in Letter : GM!Quess(c, ch)) \/ GM!Leave(c)
    PROVE  /\ ~spinning /\ P!IInv'
           /\ game'[Me] = game[Me]
           /\ \/ client_state'[Me] = client_state[Me]
              \/ client_state[Me] \in Seated /\ client_state'[Me] \in Seated
<1>1. P!IInv'
  BY GamesKeepIInv DEF SIInv, GM!Next
<1>2. client_state \in [Client -> ClientState] /\ game \in [Client -> Game \cup {NoGame}]
  BY GameTypes DEF SIInv
<1>3. CASE GM!LogIn(c)
  BY <1>1, <1>2, <1>3, MeAssumption DEF GM!LogIn
<1>4. CASE GM!JoinGame(c)
  BY <1>1, <1>2, <1>4, MeAssumption DEF GM!JoinGame
<1>5. CASE GM!StartGame(c) \/ \E ch \in Letter : GM!Quess(c, ch)
  BY <1>1, <1>5, RoundSteps, MeAssumption DEF SIInv
<1>6. CASE GM!Leave(c)
  BY <1>1, <1>6, LeaveSteps, MeAssumption DEF SIInv
<1>. QED
  BY <1>3, <1>4, <1>5, <1>6

\* A step of another player.
LEMMA OtherStep ==
    ASSUME SIInv, Other
    PROVE  SIInv'
<1> USE DEF SIInv
<1>1. PICK c \in Client \ {Me} : OtherSteps(c) \/ OtherFlaps(c)
  BY DEF Other
<1>2. mine' = mine /\ UNCHANGED clientVars
  BY DEF Other
<1>3. game[c] \in Game \cup {NoGame} /\ (\A g : g = NoGame => ~(g \in Game))
  BY GameTypes, GamesAssumption
<1>4. CASE OtherFlaps(c)
  <2>1. game[c] \in Game
    BY <1>4, SeatedHasGame DEF OtherFlaps
  <2>2. <<UpdateLine(game[c])>> \in Seq(ServerLine)
    BY <2>1, UpdateLineType, ShortLists
  <2>3. conn' \in [Conn -> Connection] /\ Alone' /\ (Online' <=> Online)
    BY <1>4, <2>1, <2>2, ToldConnections DEF OtherFlaps
  <2>4. UNCHANGED gameVars
    BY <1>4 DEF OtherFlaps
  <2>5. Types'
    BY <1>2, <2>3, TypesAfterServer DEF Types
  <2>. QED
    BY <1>2, <2>3, <2>4, <2>5, GamesKeepIInv DEF Linked, gameVars
<1>5. CASE OtherSteps(c)
  <2>1. /\ GM!LogIn(c) \/ GM!JoinGame(c) \/ GM!StartGame(c)
             \/ (\E ch \in Letter : GM!Quess(c, ch)) \/ GM!Leave(c)
    BY <1>5 DEF OtherSteps
  <2>2. /\ ~spinning /\ P!IInv'
        /\ game'[Me] = game[Me]
        /\ \/ client_state'[Me] = client_state[Me]
           \/ client_state[Me] \in Seated /\ client_state'[Me] \in Seated
    BY <2>1, OthersLeaveMeAlone
  <2>3. conn' \in [Conn -> Connection] /\ Alone' /\ (Online' <=> Online)
    <3>1. CASE GM!LogIn(c) /\ UNCHANGED conn
      BY <3>1 DEF Types, Alone, Online, Holder
    <3>2. CASE GM!JoinGame(c) /\ Tell(game'[c], <<LobbyLine(players'[game'[c]])>>)
      <4>1. game'[c] \in Game
        BY <3>2, GameTypes DEF GM!JoinGame
      <4>2. players'[game'[c]] \in Seq(Client)
        BY <2>2, <4>1, GameTypesAfter
      <4>3. <<LobbyLine(players'[game'[c]])>> \in Seq(ServerLine)
        BY <4>2, UpdateLineTypes, ShortLists
      <4>. QED
        BY <3>2, <4>1, <4>3, ToldConnections
    <3>3. CASE GM!StartGame(c) /\ Tell(game[c], StartLines(game[c]))
      <4>1. game[c] \in Game
        BY <3>3, RoundSteps, SeatedHasGame
      <4>. QED
        BY <2>2, <3>3, <4>1, StartLinesType, ToldConnections
    <3>4. ASSUME NEW ch \in Letter, GM!Quess(c, ch), Tell(game[c], QuessLines(c, ch))
          PROVE  conn' \in [Conn -> Connection] /\ Alone' /\ (Online' <=> Online)
      <4>1. game[c] \in Game
        BY <3>4, RoundSteps, SeatedHasGame
      <4>. QED
        BY <2>2, <3>4, <4>1, QuessLinesType, ToldConnections
    <3>5. CASE GM!Leave(c) /\ game[c] = NoGame /\ UNCHANGED conn
      BY <3>5 DEF Types, Alone, Online, Holder
    <3>6. CASE GM!Leave(c) /\ game[c] # NoGame /\ \E ls \in GoingLines(game[c]) : Tell(game[c], ls)
      <4>1. game[c] \in Game
        BY <1>3, <3>6
      <4>2. PICK ls \in GoingLines(game[c]) : Tell(game[c], ls)
        BY <3>6
      <4>3. ls \in Seq(ServerLine)
        BY <2>2, <4>1, GoingLinesType
      <4>. QED
        BY <4>1, <4>2, <4>3, ToldConnections
    <3>. QED
      BY <1>5, <3>1, <3>2, <3>3, <3>4, <3>5, <3>6 DEF OtherSteps
  <2>4. Types'
    BY <1>2, <2>3, TypesAfterServer DEF Types
  <2>. QED
    BY <1>2, <2>2, <2>3, <2>4 DEF Linked, Seated, InGame
<1>. QED
  BY <1>1, <1>4, <1>5

-----------------------------------------------------------------------------
(* The steps of the server that concern the player *)

\* What is left of the invariant to show of such a step.
ServerKept ==
    /\ P!IInv' /\ Alone' /\ Linked'
    /\ conn' \in [Conn -> Connection] /\ mine' \in SessionFields

\* The player's object is deleted.
LEMMA DeletedSteps ==
    ASSUME SIInv, Deleted
    PROVE  /\ ~spinning /\ P!IInv' /\ mine' \in SessionFields
           /\ ~spinning' => client_state'[Me] = "UNLOGED" /\ game'[Me] = NoGame
<1>1. GM!Leave(Me) /\ mine' = NewSession
  BY DEF Deleted
<1>2. P!IInv'
  BY <1>1, GamesKeepIInv, MeAssumption DEF SIInv, GM!Next
<1>3. client_state[Me] \in Seated \/ game[Me] = NoGame
  BY <1>1, LeaveSteps, MeAssumption DEF SIInv, Linked
<1>. QED
  BY <1>1, <1>2, <1>3, LeaveSteps, MeAssumption, NewSessionFields DEF SIInv

\* A client that is deleted has no connection any more.
LEMMA DeletedKept ==
    ASSUME SIInv, Deleted, conn' \in [Conn -> Connection], Alone', ~Online'
    PROVE  ServerKept
BY DeletedSteps DEF ServerKept, Linked

\* A step that leaves the games and keeps the player's connection.
LEMMA GamesLeftAlone ==
    ASSUME SIInv, UNCHANGED gameVars, conn' \in [Conn -> Connection], Alone',
           Online' <=> Online, mine' \in SessionFields, Online => mine'.missedPings = 0
    PROVE  ServerKept
BY GamesKeepIInv DEF ServerKept, SIInv, Linked, gameVars

\* A step that leaves the games and the session but for connections that do not
\* belong to the player.
LEMMA FreshLeftAlone ==
    ASSUME SIInv, NEW k \in Conn, Holder(k) # "player", NEW c \in Connection,
           c.holder # "player", conn' = [conn EXCEPT ![k] = c],
           UNCHANGED <<gameVars, mine>>
    PROVE  ServerKept
<1>1. conn' \in [Conn -> Connection] /\ Alone'
  BY OneConnection DEF SIInv
<1>2. Online' <=> Online
  BY DEF SIInv, Types, Online, Holder
<1>3. ~spinning => (Online => mine.missedPings = 0)
  BY DEF SIInv, Linked
<1>. QED
  BY <1>1, <1>2, GamesKeepIInv DEF ServerKept, SIInv, Linked, gameVars, Types

\* LOGIN with the name free.
LEMMA LoginNewKept ==
    ASSUME SIInv, NEW k \in Conn, ~spinning, conn[k].in # <<>>, LoginNew(k)
    PROVE  ServerKept
<1>1. /\ GM!LogIn(Me) /\ client_state[Me] = "UNLOGED"
      /\ mine' = [NewSession EXCEPT !.didPingedBack = conn[k].didPingedBack]
      /\ conn' = [conn EXCEPT ![k] = OfPlayer(Answered(k, <<Line("ACCEPT|1")>>))]
  BY DEF LoginNew, GM!LogIn
<1>2. conn[k] \in Connection /\ <<Line("ACCEPT|1")>> \in Seq(ServerLine)
  BY BareLineType, ShortLists DEF SIInv, Types
<1>3. PICK c \in Connection :
         c = OfPlayer(Answered(k, <<Line("ACCEPT|1")>>)) /\ c.holder = "player"
  BY <1>2, AnsweredFields, OfPlayerFields
<1>4. ~Online
  BY <1>1 DEF SIInv, Linked
<1>5. conn' \in [Conn -> Connection] /\ Alone' /\ Online'
  BY <1>1, <1>3, <1>4, GivenConnection DEF SIInv
<1>6. P!IInv'
  BY <1>1, GamesKeepIInv, MeAssumption DEF SIInv, GM!Next
<1>7. mine' \in SessionFields /\ mine'.missedPings = 0
  <2>1. conn[k].didPingedBack \in BOOLEAN
    BY <1>2 DEF Connection
  <2>. QED
    BY <1>1, <2>1, LimitAssumption DEF NewSession, SessionFields
<1>8. /\ client_state'[Me] = "LOGGED" /\ game' = game /\ spinning' = spinning
      /\ client_state[Me] \notin Seated
  BY <1>1, GameTypes, MeAssumption DEF SIInv, GM!LogIn, Seated, InGame
<1>. QED
  BY <1>5, <1>6, <1>7, <1>8 DEF ServerKept, SIInv, Linked

\* LOGIN that brings the player back.
LEMMA LoginBackKept ==
    ASSUME SIInv, NEW k \in Conn, ~spinning, conn[k].in # <<>>, LoginBack(k)
    PROVE  ServerKept
<1>1. /\ client_state[Me] # "UNLOGED" /\ ~Online
      /\ mine' = [mine EXCEPT !.missedPings = 0, !.didPingedBack = TRUE]
      /\ conn' = [conn EXCEPT ![k] = OfPlayer(Answered(k, BackLines(game[Me])))]
      /\ UNCHANGED gameVars
  BY DEF LoginBack
<1>2. client_state[Me] \in Seated
  BY <1>1, GameTypes, MeAssumption DEF SIInv, Linked, ClientState, Seated, InGame
<1>3. game[Me] \in Game
  BY <1>2, SeatedHasGame, MeAssumption DEF SIInv
<1>4. conn[k] \in Connection /\ BackLines(game[Me]) \in Seq(ServerLine)
  BY <1>3, BackLinesType DEF SIInv, Types
<1>5. PICK c \in Connection :
         c = OfPlayer(Answered(k, BackLines(game[Me]))) /\ c.holder = "player"
  BY <1>4, AnsweredFields, OfPlayerFields
<1>6. conn' \in [Conn -> Connection] /\ Alone' /\ Online'
  BY <1>1, <1>5, GivenConnection DEF SIInv
<1>7. mine' \in SessionFields /\ mine'.missedPings = 0
  <2>1. 0 \in 0..(MISSED_PING_TO_FULL_DISCONNECT - 1) /\ mine \in SessionFields
    BY LimitAssumption DEF SIInv, Types
  <2>. QED
    BY <1>1, <2>1 DEF SessionFields
<1>. QED
  BY <1>1, <1>2, <1>6, <1>7, GamesKeepIInv
     DEF ServerKept, SIInv, Linked, gameVars, Seated, InGame

\* LOGIN while the name is on another connection.
LEMMA LoginRefusedKept ==
    ASSUME SIInv, NEW k \in Conn, Holder(k) = "fresh", conn[k].in # <<>>, LoginRefused(k)
    PROVE  ServerKept
<1>1. conn[k] \in Connection /\ <<Line("ERROR|1")>> \in Seq(ServerLine)
  BY BareLineType, ShortLists DEF SIInv, Types
<1>2. PICK c \in Connection :
         c = ServerClosed(Answered(k, <<Line("ERROR|1")>>)) /\ c.holder = "none"
  BY <1>1, AnsweredFields, ClosedFields
<1>. QED
  BY <1>2, FreshLeftAlone DEF LoginRefused

\* A wrong message.
LEMMA WrongKept ==
    ASSUME SIInv, NEW k \in Conn, Holder(k) = "player", ~spinning,
           NEW c \in Connection, c.holder = "player", Wrong(k, c)
    PROVE  ServerKept
<1>1. CASE mine.wrong_msgs + 1 >= MAX_WRONG_MSGS
  <2>1. Deleted /\ conn' = [conn EXCEPT ![k] = ServerClosed(c)]
    BY <1>1 DEF Wrong
  <2>2. ServerClosed(c) \in Connection /\ ServerClosed(c).holder = "none"
    BY ClosedFields
  <2>3. conn' \in [Conn -> Connection] /\ Alone' /\ ~Online'
    BY <2>1, <2>2, OneConnection DEF SIInv
  <2>. QED
    BY <2>1, <2>3, DeletedKept
<1>2. CASE ~(mine.wrong_msgs + 1 >= MAX_WRONG_MSGS)
  <2>1. /\ mine' = [mine EXCEPT !.wrong_msgs = @ + 1]
        /\ conn' = [conn EXCEPT ![k] = c]
        /\ UNCHANGED gameVars
    BY <1>2 DEF Wrong
  <2>2. conn' \in [Conn -> Connection] /\ Alone' /\ (Online' <=> Online)
    BY <2>1, OneConnection DEF SIInv
  <2>3. mine' \in SessionFields /\ mine'.missedPings = mine.missedPings
    BY <1>2, <2>1, LimitAssumption DEF SIInv, Types, SessionFields
  <2>4. Online => mine.missedPings = 0
    BY DEF SIInv, Linked
  <2>. QED
    BY <2>1, <2>2, <2>3, <2>4, GamesLeftAlone
<1>. QED
  BY <1>1, <1>2

\* A message of the player that is wrong is answered with ERROR.
LEMMA WrongAnswered ==
    ASSUME SIInv, NEW k \in Conn, Holder(k) = "player", ~spinning, conn[k].in # <<>>,
           Wrong(k, Answered(k, <<Line("ERROR")>>))
    PROVE  ServerKept
<1>1. conn[k] \in Connection /\ <<Line("ERROR")>> \in Seq(ServerLine)
  BY BareLineType, ShortLists DEF SIInv, Types
<1>2. PICK c \in Connection : c = Answered(k, <<Line("ERROR")>>) /\ c.holder = "player"
  BY <1>1, AnsweredFields DEF Holder
<1>. QED
  BY <1>2, WrongKept

\* The first message is read.
LEMMA ReceivesFacts ==
    ASSUME SIInv, NEW k \in Conn, NEW msg, Receives(k, msg)
    PROVE  /\ ~spinning /\ Holder(k) = "player" /\ Online
           /\ conn[k] \in Connection /\ conn[k].in # <<>>
           /\ client_state[Me] # "UNLOGED" /\ mine.missedPings = 0
<1>1. ~spinning /\ Holder(k) = "player" /\ Online /\ 1 <= Len(conn[k].in)
  BY DEF Receives, Reads, Online
<1>2. conn[k] \in Connection /\ conn[k].in \in Seq(Message)
  BY DEF SIInv, Types, Connection
<1>3. conn[k].in # <<>>
  BY <1>1, <1>2, EmptyList
<1>. QED
  BY <1>1, <1>2, <1>3 DEF SIInv, Linked

\* A step of the games by the player, who keeps its connection and a seat.
LEMMA PlayerKept ==
    ASSUME SIInv, NEW k \in Conn, NEW c \in Connection, Holder(k) = "player",
           c.holder = "player", conn' = [conn EXCEPT ![k] = c], ~spinning,
           GM!Next, mine' = mine, client_state'[Me] \in Seated
    PROVE  ServerKept
<1>1. conn' \in [Conn -> Connection] /\ Alone' /\ (Online' <=> Online)
  BY OneConnection DEF SIInv
<1>2. Online => mine.missedPings = 0
  BY DEF SIInv, Linked
<1>. QED
  BY <1>1, <1>2, GamesKeepIInv DEF ServerKept, SIInv, Linked, Types, Seated, InGame

\* JOIN.
LEMMA JoinKept ==
    ASSUME SIInv, NEW k \in Conn, Join(k)
    PROVE  ServerKept
<1>1. /\ ~spinning /\ Holder(k) = "player" /\ conn[k] \in Connection /\ conn[k].in # <<>>
  BY ReceivesFacts DEF Join
<1>2. CASE client_state[Me] = "LOGGED"
  <2>1. PICK g : g = game'[Me]
    OBVIOUS
  <2>2. PICK ls : ls = <<Line("ACCEPT|2"), LobbyLine(players'[g])>>
    OBVIOUS
  <2>3. GM!JoinGame(Me) /\ mine' = mine /\ conn' = [conn EXCEPT ![k] = Answered(k, ls)]
    BY <1>2, <2>1, <2>2 DEF Join
  <2>4. P!IInv' /\ GM!Next
    BY <2>3, GamesKeepIInv, MeAssumption DEF SIInv, GM!Next
  <2>5. g \in Game /\ client_state'[Me] \in Seated
    BY <2>1, <2>3, GameTypes, MeAssumption DEF SIInv, GM!JoinGame, Seated
  <2>6. ls \in Seq(ServerLine)
    BY <2>2, <2>4, <2>5, GameTypesAfter, BareLineType, UpdateLineTypes, ShortLists
  <2>7. PICK c \in Connection : c = Answered(k, ls) /\ c.holder = "player"
    BY <1>1, <2>6, AnsweredFields DEF Holder
  <2>. QED
    BY <1>1, <2>3, <2>4, <2>5, <2>7, PlayerKept
<1>3. CASE client_state[Me] # "LOGGED"
  BY <1>1, <1>3, WrongAnswered DEF Join
<1>. QED
  BY <1>2, <1>3

\* START.
LEMMA StartKept ==
    ASSUME SIInv, NEW k \in Conn, Start(k)
    PROVE  ServerKept
<1>1. /\ ~spinning /\ Holder(k) = "player" /\ conn[k] \in Connection /\ conn[k].in # <<>>
  BY ReceivesFacts DEF Start
<1>2. CASE client_state[Me] = "LOBBY" /\ Len(players[game[Me]]) >= 2
  <2>1. PICK ls : ls = StartLines(game[Me])
    OBVIOUS
  <2>2. GM!StartGame(Me) /\ mine' = mine /\ conn' = [conn EXCEPT ![k] = Answered(k, ls)]
    BY <1>2, <2>1 DEF Start
  <2>3. P!IInv' /\ GM!Next
    BY <2>2, GamesKeepIInv, MeAssumption DEF SIInv, GM!Next
  <2>4. client_state[Me] \in Seated /\ client_state'[Me] \in Seated
    BY <2>2, RoundSteps, MeAssumption DEF SIInv
  <2>5. ls \in Seq(ServerLine)
    BY <1>1, <2>1, <2>3, <2>4, SeatedHasGame, StartLinesType, MeAssumption DEF SIInv
  <2>6. PICK c \in Connection : c = Answered(k, ls) /\ c.holder = "player"
    BY <1>1, <2>5, AnsweredFields DEF Holder
  <2>. QED
    BY <1>1, <2>2, <2>3, <2>4, <2>6, PlayerKept
<1>3. CASE ~(client_state[Me] = "LOBBY" /\ Len(players[game[Me]]) >= 2)
  BY <1>1, <1>3, WrongAnswered DEF Start
<1>. QED
  BY <1>2, <1>3

\* QUESS.
LEMMA QuessKept ==
    ASSUME SIInv, NEW k \in Conn, Quess(k)
    PROVE  ServerKept
<1>1. /\ ~spinning /\ Holder(k) = "player" /\ conn[k] \in Connection /\ conn[k].in # <<>>
  BY ReceivesFacts DEF Quess
<1>2. CASE client_state[Me] = "ON_TURN"
  <2>1. PICK ch \in Letter :
          /\ GM!Quess(Me, ch) /\ mine' = mine
          /\ conn' = [conn EXCEPT ![k] = Answered(k, QuessLines(Me, ch))]
    BY <1>2 DEF Quess
  <2>2. PICK ls : ls = QuessLines(Me, ch)
    OBVIOUS
  <2>3. P!IInv' /\ GM!Next
    BY <2>1, GamesKeepIInv, MeAssumption DEF SIInv, GM!Next
  <2>4. client_state[Me] \in Seated /\ client_state'[Me] \in Seated
    BY <2>1, RoundSteps, MeAssumption DEF SIInv
  <2>5. ls \in Seq(ServerLine)
    BY <1>1, <2>2, <2>3, <2>4, SeatedHasGame, QuessLinesType, MeAssumption DEF SIInv
  <2>6. PICK c \in Connection : c = Answered(k, ls) /\ c.holder = "player"
    BY <1>1, <2>5, AnsweredFields DEF Holder
  <2>. QED
    BY <1>1, <2>1, <2>2, <2>3, <2>4, <2>6, PlayerKept
<1>3. CASE client_state[Me] # "ON_TURN"
  BY <1>1, <1>3, WrongAnswered DEF Quess
<1>. QED
  BY <1>2, <1>3

\* PONG.
LEMMA PongKept ==
    ASSUME SIInv, NEW k \in Conn, Pong(k)
    PROVE  ServerKept
<1>1. /\ ~spinning /\ Holder(k) = "player" /\ conn[k] \in Connection /\ conn[k].in # <<>>
      /\ mine.missedPings = 0
  BY ReceivesFacts DEF Pong
<1>2. PICK ls \in Seq(ServerLine) : ls = <<>>
  BY ShortLists
<1>3. PICK c \in Connection : c = Answered(k, ls) /\ c.holder = "player"
  BY <1>1, AnsweredFields DEF Holder
<1>4. /\ conn' = [conn EXCEPT ![k] = c] /\ UNCHANGED gameVars
      /\ mine' = [mine EXCEPT !.didPingedBack = TRUE]
  BY <1>2, <1>3 DEF Pong
<1>5. conn' \in [Conn -> Connection] /\ Alone' /\ (Online' <=> Online)
  BY <1>1, <1>3, <1>4, OneConnection DEF SIInv
<1>6. mine' \in SessionFields /\ mine'.missedPings = 0
  BY <1>1, <1>4 DEF SIInv, Types, SessionFields
<1>. QED
  BY <1>4, <1>5, <1>6, GamesLeftAlone

\* PONG of a connection that has not logged in.
LEMMA PongFreshKept ==
    ASSUME SIInv, NEW k \in Conn, PongFresh(k)
    PROVE  ServerKept
<1>1. ~spinning /\ Holder(k) = "fresh" /\ 1 <= Len(conn[k].in)
  BY DEF PongFresh, Reads
<1>2. conn[k] \in Connection /\ conn[k].in \in Seq(Message)
  BY DEF SIInv, Types, Connection
<1>3. conn[k].in # <<>>
  BY <1>1, <1>2, EmptyList
<1>4. PICK ls \in Seq(ServerLine) : ls = <<>>
  BY ShortLists
<1>5. PICK r \in Connection : r = Answered(k, ls) /\ r.holder = conn[k].holder
  BY <1>2, <1>3, AnsweredFields
<1>6. PICK c : c = [r EXCEPT !.didPingedBack = TRUE]
  OBVIOUS
<1>7. c \in Connection /\ c.holder = conn[k].holder
  BY <1>5, <1>6 DEF Connection
<1>8. conn' = [conn EXCEPT ![k] = c] /\ UNCHANGED <<gameVars, mine>>
  BY <1>4, <1>5, <1>6 DEF PongFresh
<1>. QED
  BY <1>1, <1>7, <1>8, FreshLeftAlone DEF Holder

\* Two or more messages are read as one.
LEMMA MergedKept ==
    ASSUME SIInv, NEW k \in Conn, Merged(k)
    PROVE  ServerKept
<1>1. conn[k] \in Connection /\ conn[k].in \in Seq(Message)
  BY DEF SIInv, Types, Connection
<1>2. PICK n \in 2..Len(conn[k].in), answer \in {<<Line("ERROR")>>, <<>>} :
        /\ Reads(k, n) /\ Holder(k) = "player"
        /\ Wrong(k, Sent([conn[k] EXCEPT !.in = SubSeq(@, n + 1, Len(@))], answer))
  BY DEF Merged
<1>3. ~spinning /\ answer \in Seq(ServerLine)
  BY <1>2, BareLineType, ShortLists DEF Reads
<1>4. PICK ms : ms = SubSeq(conn[k].in, n + 1, Len(conn[k].in))
  OBVIOUS
<1>5. ms \in Seq(Message)
  <2>1. \A j \in (n + 1)..Len(conn[k].in) : conn[k].in[j] \in Message
    BY <1>1, <1>2, SeqFacts
  <2>2. n + 1 \in Nat /\ Len(conn[k].in) \in Nat
    BY <1>1, <1>2, SeqFacts
  <2>. QED
    BY <1>1, <1>2, <1>4, <2>1, <2>2, SubSeqProperties
<1>6. PICK r \in Connection : r = [conn[k] EXCEPT !.in = ms] /\ r.holder = conn[k].holder
  BY <1>1, <1>5, ReadFields
<1>7. PICK c \in Connection : c = Sent(r, answer) /\ c.holder = "player"
  <2>1. Sent(r, answer) \in Connection /\ Sent(r, answer).holder = r.holder
    BY <1>3, <1>6, SentFields
  <2>. QED
    BY <1>2, <1>6, <2>1 DEF Holder
<1>8. Wrong(k, c)
  BY <1>2, <1>4, <1>6, <1>7
<1>. QED
  BY <1>2, <1>3, <1>7, <1>8, WrongKept

\* The end of the connection.
LEMMA EofKept ==
    ASSUME SIInv, NEW k \in Conn, Eof(k)
    PROVE  ServerKept
<1>1. /\ ~spinning /\ Holder(k) # "none"
      /\ conn' = [conn EXCEPT ![k] = ServerClosed(conn[k])]
      /\ IF Holder(k) = "player" /\ client_state[Me] = "LOGGED"
         THEN Deleted ELSE UNCHANGED <<gameVars, mine>>
  BY DEF Eof
<1>2. conn[k] \in Connection
  BY DEF SIInv, Types
<1>3. PICK c \in Connection : c = ServerClosed(conn[k]) /\ c.holder = "none"
  BY <1>2, ClosedFields
<1>4. conn' \in [Conn -> Connection] /\ Alone' /\ (Holder(k) = "player" => ~Online')
  BY <1>1, <1>3, OneConnection DEF SIInv
<1>5. CASE Holder(k) = "player" /\ client_state[Me] = "LOGGED"
  BY <1>1, <1>4, <1>5, DeletedKept
<1>6. CASE Holder(k) = "player" /\ client_state[Me] # "LOGGED"
  BY <1>1, <1>4, <1>6, GamesKeepIInv DEF ServerKept, SIInv, Linked, gameVars, Types
<1>7. CASE Holder(k) # "player"
  BY <1>1, <1>3, <1>7, FreshLeftAlone
<1>. QED
  BY <1>5, <1>6, <1>7

\* The ping round, at a connection that has not logged in.
LEMMA PingFreshKept ==
    ASSUME SIInv, NEW k \in Conn, PingFresh(k)
    PROVE  ServerKept
<1>1. conn[k] \in Connection /\ <<PingLine>> \in Seq(ServerLine)
  BY BareLineType, ShortLists DEF SIInv, Types, PingLine
<1>2. PICK r : r = [conn[k] EXCEPT !.didPingedBack = FALSE]
  OBVIOUS
<1>3. r \in Connection /\ r.holder = conn[k].holder
  BY <1>1, <1>2 DEF Connection
<1>4. PICK c : c = IF conn[k].didPingedBack THEN Sent(r, <<PingLine>>) ELSE ServerClosed(conn[k])
  OBVIOUS
<1>5. c \in Connection /\ c.holder \in {"none", conn[k].holder}
  BY <1>1, <1>3, <1>4, SentFields, ClosedFields
<1>6. /\ Holder(k) = "fresh" /\ conn' = [conn EXCEPT ![k] = c]
      /\ UNCHANGED <<gameVars, mine>>
  BY <1>2, <1>4 DEF PingFresh
<1>. QED
  BY <1>5, <1>6, FreshLeftAlone DEF Holder

\* At the player, who has answered the last one.
LEMMA PingAnsweredKept ==
    ASSUME SIInv, NEW k \in Conn, PingAnswered(k)
    PROVE  ServerKept
<1>1. conn[k] \in Connection /\ <<PingLine>> \in Seq(ServerLine)
  BY BareLineType, ShortLists DEF SIInv, Types, PingLine
<1>2. PICK c : c = Sent(conn[k], <<PingLine>>)
  OBVIOUS
<1>3. /\ Holder(k) = "player" /\ conn' = [conn EXCEPT ![k] = c] /\ UNCHANGED gameVars
      /\ mine' = [mine EXCEPT !.missedPings = 0, !.didPingedBack = FALSE]
  BY <1>2 DEF PingAnswered
<1>4. c \in Connection /\ c.holder = "player"
  BY <1>1, <1>2, <1>3, SentFields DEF Holder
<1>5. conn' \in [Conn -> Connection] /\ Alone' /\ (Online' <=> Online)
  BY <1>3, <1>4, OneConnection DEF SIInv
<1>6. mine' \in SessionFields /\ mine'.missedPings = 0
  <2>1. 0 \in 0..(MISSED_PING_TO_FULL_DISCONNECT - 1) /\ mine \in SessionFields
    BY LimitAssumption DEF SIInv, Types
  <2>. QED
    BY <1>3, <2>1 DEF SessionFields
<1>. QED
  BY <1>3, <1>5, <1>6, GamesLeftAlone

\* At the player, who has not: the first missed ping disconnects it.
LEMMA PingMissedKept ==
    ASSUME SIInv, NEW k \in Conn, PingMissed(k)
    PROVE  ServerKept
<1>1. /\ ~spinning /\ Holder(k) = "player"
      /\ conn' = [conn EXCEPT ![k] = ServerClosed(conn[k])]
      /\ IF client_state[Me] = "LOGGED" THEN Deleted
         ELSE mine' = [mine EXCEPT !.missedPings = @ + 1] /\ UNCHANGED gameVars
  BY DEF PingMissed
<1>2. conn[k] \in Connection
  BY DEF SIInv, Types
<1>3. PICK c \in Connection : c = ServerClosed(conn[k]) /\ c.holder = "none"
  BY <1>2, ClosedFields
<1>4. conn' \in [Conn -> Connection] /\ Alone' /\ ~Online'
  BY <1>1, <1>3, OneConnection DEF SIInv
<1>5. CASE client_state[Me] = "LOGGED"
  BY <1>1, <1>4, <1>5, DeletedKept
<1>6. CASE client_state[Me] # "LOGGED"
  <2>1. mine.missedPings = 0
    BY <1>1 DEF SIInv, Linked, Online
  <2>2. mine' \in SessionFields
    BY <1>1, <1>6, <2>1, LimitAssumption DEF SIInv, Types, SessionFields
  <2>. QED
    BY <1>1, <1>4, <1>6, <2>2, GamesKeepIInv DEF ServerKept, SIInv, Linked, gameVars
<1>. QED
  BY <1>5, <1>6

\* At the player, who is away.
LEMMA PingOfflineKept ==
    ASSUME SIInv, PingOffline
    PROVE  ServerKept
<1>1. PICK missed : missed = IF mine.didPingedBack THEN 0 ELSE mine.missedPings + 1
  OBVIOUS
<1>2. /\ ~spinning /\ ~Online /\ conn' = conn
      /\ IF missed >= MISSED_PING_TO_FULL_DISCONNECT THEN Deleted
         ELSE /\ mine' = [mine EXCEPT !.missedPings = missed, !.didPingedBack = FALSE]
              /\ UNCHANGED gameVars
  BY <1>1 DEF PingOffline
<1>3. conn' \in [Conn -> Connection] /\ Alone' /\ ~Online'
  BY <1>2 DEF SIInv, Types, Alone, Online, Holder
<1>4. CASE missed >= MISSED_PING_TO_FULL_DISCONNECT
  BY <1>2, <1>3, <1>4, DeletedKept
<1>5. CASE ~(missed >= MISSED_PING_TO_FULL_DISCONNECT)
  <2>1. missed \in 0..(MISSED_PING_TO_FULL_DISCONNECT - 1)
    BY <1>1, <1>5, LimitAssumption DEF SIInv, Types, SessionFields
  <2>2. mine' \in SessionFields
    BY <1>2, <1>5, <2>1 DEF SIInv, Types, SessionFields
  <2>. QED
    BY <1>2, <1>3, <1>5, <2>2, GamesLeftAlone
<1>. QED
  BY <1>4, <1>5

\* Every step of the server.
LEMMA ServerStep ==
    ASSUME SIInv, Server
    PROVE  SIInv'
<1>1. UNCHANGED clientVars
  BY DEF Server
<1>2. ASSUME NEW k \in Conn, Login(k) PROVE ServerKept
  <2>1. ~spinning /\ Holder(k) = "fresh" /\ 1 <= Len(conn[k].in)
    BY <1>2 DEF Login, Reads
  <2>2. conn[k].in \in Seq(Message)
    BY DEF SIInv, Types, Connection
  <2>3. conn[k].in # <<>>
    BY <2>1, <2>2, EmptyList
  <2>. QED
    BY <1>2, <2>1, <2>3, LoginNewKept, LoginBackKept, LoginRefusedKept DEF Login
<1>3. ServerKept
  BY <1>2, JoinKept, StartKept, QuessKept, PongKept, PongFreshKept, MergedKept, EofKept, PingFreshKept,
     PingAnsweredKept, PingMissedKept, PingOfflineKept DEF Server
<1>. QED
  BY <1>1, <1>3, TypesAfterServer DEF ServerKept, SIInv

-----------------------------------------------------------------------------
(* The client's thread *)

\* What a method of the thread returns, with the socket it had or none; it receives nothing.
Returns(t, u) ==
    /\ u \in ThreadRecord
    /\ u.client_socket \in {t.client_socket, NoSocket} /\ u.received = t.received

\* Losing the connection.
LEMMA DisconnectTypes ==
    ASSUME NEW t \in ThreadRecord
    PROVE  Returns(t, CH!Disconnect(t)) /\ Returns(t, CH!TempDisconnect(t))
<1>1. <<>> \in Seq(Client) /\ 0 \in Nat /\ {} \in SUBSET Nat
  BY ShortLists
<1>2. PICK f : f = CH!Forgotten(t)
  OBVIOUS
<1>3. /\ f \in ThreadRecord
      /\ f.client_socket = t.client_socket /\ f.received = t.received
  BY <1>1, <1>2 DEF CH!Forgotten, ThreadRecord
<1>4. Returns(t, CH!Disconnect(t))
  <2>1. PICK u : u = [f EXCEPT !.connected = FALSE, !.client_socket = NoSocket,
                   !.client_state = "UNLOGGED", !.number_of_wrong_msg = 0,
                   !.scene = "login_frame"]
    OBVIOUS
  <2>2. u \in ThreadRecord
    BY <1>1, <1>3, <2>1 DEF ThreadRecord
  <2>3. u.client_socket = NoSocket /\ u.received = t.received
    BY <1>3, <2>1 DEF ThreadRecord
  <2>4. CH!Disconnect(t) \in {t, u}
    BY <1>2, <2>1 DEF CH!Disconnect
  <2>. QED
    BY <2>2, <2>3, <2>4 DEF Returns
<1>5. Returns(t, CH!TempDisconnect(t))
  <2>1. PICK u : u = [f EXCEPT !.connected = FALSE, !.client_socket = NoSocket,
                   !.client_state = "UNLOGGED", !.scene = "temp_dis_frame",
                   !.attempts = MaxAttempts]
    OBVIOUS
  <2>2. MaxAttempts \in 0..MaxAttempts
    BY AttemptsAssumption
  <2>3. u \in ThreadRecord
    BY <1>1, <1>3, <2>1, <2>2 DEF ThreadRecord
  <2>4. u.client_socket = NoSocket /\ u.received = t.received
    BY <1>3, <2>1 DEF ThreadRecord
  <2>5. CH!TempDisconnect(t) \in {t, u}
    BY <1>2, <2>1 DEF CH!TempDisconnect
  <2>. QED
    BY <2>3, <2>4, <2>5 DEF Returns
<1>. QED
  BY <1>4, <1>5

\* A line that is counted as wrong.
LEMMA WrongMsgTypes ==
    ASSUME NEW t \in ThreadRecord
    PROVE  Returns(t, CH!WrongMsg(t))
<1>1. PICK m \in Nat : m = t.number_of_wrong_msg + 1
  BY DEF ThreadRecord
<1>2. PICK u : u = [t EXCEPT !.number_of_wrong_msg = m]
  OBVIOUS
<1>3. /\ u \in ThreadRecord
      /\ u.client_socket = t.client_socket /\ u.received = t.received
  BY <1>2 DEF ThreadRecord
<1>4. CH!WrongMsg(t) \in {u, CH!Disconnect(u)}
  BY <1>1, <1>2 DEF CH!WrongMsg
<1>. QED
  BY <1>3, <1>4, DisconnectTypes DEF Returns

\* The parts of a line, by its type.
LEMMA LineFields ==
    ASSUME NEW l \in ServerLine
    PROVE  /\ l.type \in {"LOBBYUPDATE", "GAMEUPDATE"} =>
                 l.clients \in Seq(Client) /\ Len(l.clients) \in Nat
           /\ l.type = "STARTING" => l.len \in Nat
           /\ l.type = "QUESSED" => l.len \in Nat /\ l.positions \subseteq Nat
           /\ l.type = "CORRECTQUESS" => l.positions \subseteq Nat
           /\ l.type = "RECONNECT" => l.state \in {"LOBBY", "GAME"}
           /\ l.type \in {"ACCEPT|1", "ERROR|1", "ERROR", "ACCEPT|2", "LOBBYUPDATE",
                          "STARTING", "CORRECTQUESS", "BADQUESS", "WINNER", "GAMEUPDATE",
                          "RECONNECT", "QUESSED", "PING", "REST"}
<1>1. \A s \in Seq(Client) : Len(s) \in Nat
  BY SeqFacts
<1>. QED
  BY <1>1 DEF ServerLine

\* A line that is refused.
LEMMA RejectedTypes ==
    ASSUME NEW t \in ThreadRecord
    PROVE  Returns(t, CH!Rejected(t))
<1>1. PICK u : u = CH!WrongMsg(t)
  OBVIOUS
<1>2. /\ u \in ThreadRecord
      /\ u.client_socket \in {t.client_socket, NoSocket} /\ u.received = t.received
  BY <1>1, WrongMsgTypes DEF Returns
<1>3. <<>> \in Seq(ServerLine)
  BY ShortLists
<1>. QED
  BY <1>1, <1>2, <1>3 DEF CH!Rejected, Returns, ThreadRecord

\* A new Game object, and an update of the old one.
LEMMA GameObjectTypes ==
    ASSUME NEW t \in ThreadRecord
    PROVE  /\ CH!NewGame(t) \in ThreadRecord
           /\ CH!NewGame(t).client_socket = t.client_socket
           /\ CH!NewGame(t).received = t.received
           /\ \A l : l.clients \in Seq(Client) =>
                /\ CH!Updated(t, l) \in ThreadRecord
                /\ CH!Updated(t, l).client_socket = t.client_socket
                /\ CH!Updated(t, l).received = t.received
<1>1. <<Me>> \in Seq(Client) /\ {} \in SUBSET Nat
  BY MeAssumption
<1>2. ASSUME NEW l, l.clients \in Seq(Client)
      PROVE  /\ CH!Updated(t, l) \in ThreadRecord
             /\ CH!Updated(t, l).client_socket = t.client_socket
             /\ CH!Updated(t, l).received = t.received
  <2>1. Len(l.clients) \in Nat
    BY <1>2, SeqFacts
  <2>. QED
    BY <1>2, <2>1 DEF CH!Updated, ThreadRecord
<1>. QED
  BY <1>1, <1>2 DEF CH!NewGame, ThreadRecord

\* The lines of the login and the lobby.
LEMMA LobbyLinesTypes ==
    ASSUME NEW t \in ThreadRecord, NEW l \in ServerLine
    PROVE  /\ Returns(t, CH!OnAccept1(t)) /\ Returns(t, CH!OnAccept2(t))
           /\ l.type = "LOBBYUPDATE" => Returns(t, CH!OnLobbyUpdate(t, l))
           /\ l.type = "STARTING" => Returns(t, CH!OnStarting(t, l))
<1>1. Returns(t, CH!OnAccept1(t))
  <2>1. PICK u : u = [t EXCEPT !.client_state = "LOGGED", !.scene = "join_frame"]
    OBVIOUS
  <2>2. /\ u \in ThreadRecord
        /\ u.client_socket = t.client_socket /\ u.received = t.received
    BY <2>1 DEF ThreadRecord
  <2>3. CH!OnAccept1(t) \in {u, CH!Rejected(t)}
    BY <2>1 DEF CH!OnAccept1
  <2>. QED
    BY <2>2, <2>3, RejectedTypes DEF Returns
<1>2. Returns(t, CH!OnAccept2(t))
  <2>1. PICK n \in ThreadRecord :
           /\ n = CH!NewGame(t)
           /\ n.client_socket = t.client_socket /\ n.received = t.received
    BY GameObjectTypes
  <2>2. PICK u : u = [n EXCEPT !.client_state = "LOBBY", !.scene = "lobby_frame"]
    OBVIOUS
  <2>3. /\ u \in ThreadRecord
        /\ u.client_socket = t.client_socket /\ u.received = t.received
    BY <2>1, <2>2 DEF ThreadRecord
  <2>4. CH!OnAccept2(t) \in {u, CH!Rejected(t)}
    BY <2>1, <2>2 DEF CH!OnAccept2
  <2>. QED
    BY <2>3, <2>4, RejectedTypes DEF Returns
<1>3. ASSUME l.type = "LOBBYUPDATE" PROVE Returns(t, CH!OnLobbyUpdate(t, l))
  <2>1. l.clients \in Seq(Client) /\ Len(l.clients) \in Nat
    BY <1>3, LineFields
  <2>2. PICK u \in {t, CH!WrongMsg(t)} :
           CH!OnLobbyUpdate(t, l) \in
             {CH!Rejected(t), [CH!Updated(u, l) EXCEPT !.start_button = Len(l.clients) >= 2]}
    BY DEF CH!OnLobbyUpdate
  <2>3. /\ u \in ThreadRecord
        /\ u.client_socket \in {t.client_socket, NoSocket} /\ u.received = t.received
    BY <2>2, WrongMsgTypes DEF Returns
  <2>4. PICK v \in ThreadRecord :
           /\ v = CH!Updated(u, l)
           /\ v.client_socket = u.client_socket /\ v.received = u.received
    BY <2>1, <2>3, GameObjectTypes
  <2>5. PICK b \in BOOLEAN : b = (Len(l.clients) >= 2)
    <3>1. \A n \in Nat : (n >= 2) \in BOOLEAN
      OBVIOUS
    <3>. QED
      BY <2>1, <3>1
  <2>6. PICK w : w = [v EXCEPT !.start_button = b]
    OBVIOUS
  <2>7. /\ w \in ThreadRecord
        /\ w.client_socket = u.client_socket /\ w.received = u.received
    BY <2>4, <2>6 DEF ThreadRecord
  <2>8. CH!OnLobbyUpdate(t, l) \in {CH!Rejected(t), w}
    BY <2>2, <2>4, <2>5, <2>6
  <2>. QED
    BY <2>3, <2>7, <2>8, RejectedTypes DEF Returns
<1>4. ASSUME l.type = "STARTING" PROVE Returns(t, CH!OnStarting(t, l))
  <2>1. l.len \in Nat /\ {} \in SUBSET Nat
    BY <1>4, LineFields
  <2>2. PICK b \in BOOLEAN : b = (l.turn = Me)
    OBVIOUS
  <2>3. PICK u : u = [t EXCEPT !.client_state = "GAME", !.scene = "game_frame",
                               !.word_len = l.len, !.word = {}, !.quess_entry = b]
    OBVIOUS
  <2>4. /\ u \in ThreadRecord
        /\ u.client_socket = t.client_socket /\ u.received = t.received
    BY <2>1, <2>3 DEF ThreadRecord
  <2>5. CH!OnStarting(t, l) \in {CH!Rejected(t), u}
    BY <2>2, <2>3 DEF CH!OnStarting
  <2>. QED
    BY <2>4, <2>5, RejectedTypes DEF Returns
<1>. QED
  BY <1>1, <1>2, <1>3, <1>4

\* The lines of a round.
LEMMA RoundLinesTypes ==
    ASSUME NEW t \in ThreadRecord, NEW l \in ServerLine
    PROVE  /\ l.type = "CORRECTQUESS" => Returns(t, CH!OnCorrectQuess(t, l))
           /\ Returns(t, CH!OnBadQuess(t, l))
           /\ Returns(t, CH!OnWinner(t))
           /\ l.type = "GAMEUPDATE" => Returns(t, CH!OnGameUpdate(t, l))
           /\ l.type = "RECONNECT" => Returns(t, CH!OnReconnect(t, l))
           /\ l.type = "QUESSED" => Returns(t, CH!OnQuessed(t, l))
<1>1. ASSUME l.type = "CORRECTQUESS" PROVE Returns(t, CH!OnCorrectQuess(t, l))
  <2>1. PICK w \in SUBSET Nat : w = t.word \cup l.positions
    BY <1>1, LineFields DEF ThreadRecord
  <2>2. PICK u : u = [t EXCEPT !.word = w]
    OBVIOUS
  <2>3. /\ u \in ThreadRecord
        /\ u.client_socket = t.client_socket /\ u.received = t.received
    BY <2>2 DEF ThreadRecord
  <2>4. CH!OnCorrectQuess(t, l) \in {CH!Rejected(t), u}
    BY <2>1, <2>2 DEF CH!OnCorrectQuess
  <2>. QED
    BY <2>3, <2>4, RejectedTypes DEF Returns
<1>2. Returns(t, CH!OnBadQuess(t, l))
  <2>1. PICK b \in BOOLEAN : b = (l.turn = Me)
    OBVIOUS
  <2>2. PICK u : u = [t EXCEPT !.quess_entry = b]
    OBVIOUS
  <2>3. /\ u \in ThreadRecord
        /\ u.client_socket = t.client_socket /\ u.received = t.received
    BY <2>2 DEF ThreadRecord
  <2>4. CH!OnBadQuess(t, l) \in {CH!Rejected(t), u}
    BY <2>1, <2>2 DEF CH!OnBadQuess
  <2>. QED
    BY <2>3, <2>4, RejectedTypes DEF Returns
<1>3. Returns(t, CH!OnWinner(t))
  <2>1. PICK u : u = [t EXCEPT !.client_state = "LOBBY", !.scene = "lobby_frame"]
    OBVIOUS
  <2>2. /\ u \in ThreadRecord
        /\ u.client_socket = t.client_socket /\ u.received = t.received
    BY <2>1 DEF ThreadRecord
  <2>3. CH!OnWinner(t) \in {CH!Rejected(t), u}
    BY <2>1 DEF CH!OnWinner
  <2>. QED
    BY <2>2, <2>3, RejectedTypes DEF Returns
<1>4. ASSUME l.type = "GAMEUPDATE" PROVE Returns(t, CH!OnGameUpdate(t, l))
  <2>1. l.clients \in Seq(Client) /\ Len(l.clients) \in Nat
    BY <1>4, LineFields
  <2>2. PICK u \in {t, CH!WrongMsg(t)} :
           CH!OnGameUpdate(t, l) \in
             {CH!Rejected(t), [CH!Updated(u, l) EXCEPT !.quess_entry = l.turn = Me]}
    BY DEF CH!OnGameUpdate
  <2>3. /\ u \in ThreadRecord
        /\ u.client_socket \in {t.client_socket, NoSocket} /\ u.received = t.received
    BY <2>2, WrongMsgTypes DEF Returns
  <2>4. PICK v \in ThreadRecord :
           /\ v = CH!Updated(u, l)
           /\ v.client_socket = u.client_socket /\ v.received = u.received
    BY <2>1, <2>3, GameObjectTypes
  <2>5. PICK b \in BOOLEAN : b = (l.turn = Me)
    OBVIOUS
  <2>6. PICK w : w = [v EXCEPT !.quess_entry = b]
    OBVIOUS
  <2>7. /\ w \in ThreadRecord
        /\ w.client_socket = u.client_socket /\ w.received = u.received
    BY <2>4, <2>6 DEF ThreadRecord
  <2>8. CH!OnGameUpdate(t, l) \in {CH!Rejected(t), w}
    BY <2>2, <2>4, <2>5, <2>6
  <2>. QED
    BY <2>3, <2>7, <2>8, RejectedTypes DEF Returns
<1>5. ASSUME l.type = "RECONNECT" PROVE Returns(t, CH!OnReconnect(t, l))
  <2>1. PICK n \in ThreadRecord :
           /\ n = CH!NewGame(t)
           /\ n.client_socket = t.client_socket /\ n.received = t.received
    BY GameObjectTypes
  <2>2. l.state \in {"LOBBY", "GAME"}
    BY <1>5, LineFields
  <2>3. PICK sc \in {"game_frame", "lobby_frame"} :
          sc = IF l.state = "GAME" THEN "game_frame" ELSE "lobby_frame"
    OBVIOUS
  <2>4. CH!OnReconnect(t, l) = [n EXCEPT !.client_state = l.state, !.scene = sc]
    BY <2>1, <2>3 DEF CH!OnReconnect
  <2>5. PICK u : u = [n EXCEPT !.client_state = l.state, !.scene = sc]
    OBVIOUS
  <2>6. /\ u \in ThreadRecord
        /\ u.client_socket = n.client_socket /\ u.received = n.received
    BY <2>2, <2>5 DEF ThreadRecord
  <2>. QED
    BY <2>1, <2>4, <2>5, <2>6 DEF Returns
<1>6. ASSUME l.type = "QUESSED" PROVE Returns(t, CH!OnQuessed(t, l))
  <2>1. l.len \in Nat /\ l.positions \in SUBSET Nat
    BY <1>6, LineFields
  <2>. QED
    BY <2>1 DEF CH!OnQuessed, Returns, ThreadRecord
<1>. QED
  BY <1>1, <1>2, <1>3, <1>4, <1>5, <1>6

\* A line of no kind.
LEMMA UnknownTypes ==
    ASSUME NEW t \in ThreadRecord
    PROVE  Returns(t, CH!OnUnknown(t))
<1>1. PICK u : u = CH!WrongMsg(t)
  OBVIOUS
<1>2. /\ u \in ThreadRecord
      /\ u.client_socket \in {t.client_socket, NoSocket} /\ u.received = t.received
  BY <1>1, WrongMsgTypes DEF Returns
<1>3. PICK d : d = CH!Disconnect(u)
  OBVIOUS
<1>4. /\ d \in ThreadRecord
      /\ d.client_socket \in {t.client_socket, NoSocket} /\ d.received = t.received
  BY <1>2, <1>3, DisconnectTypes DEF Returns
<1>5. PICK none \in Seq(ServerLine) : none = <<>>
  BY ShortLists
<1>6. PICK e : e = [d EXCEPT !.lines = none]
  OBVIOUS
<1>7. /\ e \in ThreadRecord
      /\ e.client_socket = d.client_socket /\ e.received = d.received
  BY <1>4, <1>6 DEF ThreadRecord
<1>8. CH!OnUnknown(t) \in {u, d, e}
  BY <1>1, <1>3, <1>5, <1>6 DEF CH!OnUnknown
<1>. QED
  BY <1>2, <1>4, <1>7, <1>8 DEF Returns

\* Every line but PING.
LEMMA HandledTypes ==
    ASSUME NEW t \in ThreadRecord, NEW l \in ServerLine, l.type # "PING"
    PROVE  Returns(t, CH!Handled(t, l))
<1>1. Returns(t, t)
  BY DEF Returns
<1>. QED
  BY <1>1, LineFields, DisconnectTypes, LobbyLinesTypes, RoundLinesTypes, UnknownTypes
     DEF CH!Handled

\* The check for a PING.
LEMMA PingCheckedTypes ==
    ASSUME NEW t \in ThreadRecord
    PROVE  Returns(t, CH!PingChecked(t))
<1>1. PICK m \in 0..2 : m = IF t.got_server_ping THEN 0
                            ELSE IF t.missed_pings = 2 THEN 2 ELSE t.missed_pings + 1
  BY DEF ThreadRecord
<1>2. PICK u : u = [t EXCEPT !.missed_pings = m, !.got_server_ping = FALSE]
  OBVIOUS
<1>3. /\ u \in ThreadRecord
      /\ u.client_socket = t.client_socket /\ u.received = t.received
  BY <1>2 DEF ThreadRecord
<1>4. CH!CountPing(t) = u
  BY <1>1, <1>2 DEF CH!CountPing
<1>5. CH!PingChecked(t) \in {u, CH!TempDisconnect(u), CH!Disconnect(u)}
  BY <1>4 DEF CH!PingChecked
<1>. QED
  BY <1>3, <1>5, DisconnectTypes DEF Returns

-----------------------------------------------------------------------------
(* The steps of the thread *)

\* Connections like those there are, as far as the player is concerned.
LikeNow(cs) ==
    /\ cs \in [Conn -> Connection]
    /\ \A k \in Conn : cs[k].holder = "player" <=> Holder(k) = "player"

\* The connections are like themselves.
LEMMA NowLikeNow ==
    ASSUME SIInv
    PROVE  LikeNow(conn)
BY DEF SIInv, Types, LikeNow, Holder

\* Nor does it matter if one of them that is not the player's, or keeps what the
\* player's is about, becomes another.
LEMMA OneLikeNow ==
    ASSUME SIInv, NEW k \in Conn, NEW c \in Connection,
           c.holder = "player" <=> Holder(k) = "player"
    PROVE  LikeNow([conn EXCEPT ![k] = c])
BY DEF SIInv, Types, LikeNow, Holder

\* The thread goes on.
LEMMA GoesKept ==
    ASSUME SIInv, NEW t \in ThreadRecord, NEW cs, LikeNow(cs), Goes(t, cs),
           UNCHANGED serverVars, instructions' \in Instructions
    PROVE  SIInv'
<1>1. thread' \in ThreadRecord /\ clean' \in BOOLEAN
  BY DEF Goes, SIInv, Types
<1>2. ASSUME NEW k \in Conn
      PROVE  /\ conn'[k] \in Connection
             /\ conn'[k].holder = cs[k].holder
  <2>1. cs[k] \in Connection
    BY DEF LikeNow
  <2>2. CASE conn'[k] = cs[k]
    BY <2>1, <2>2
  <2>3. CASE conn'[k] = [cs[k] EXCEPT !.open = FALSE, !.reset = FALSE, !.out = <<>>]
    <3>1. PICK e \in Seq(ServerLine) : e = <<>>
      BY ShortLists
    <3>. QED
      BY <2>1, <2>3, <3>1 DEF Connection
  <2>. QED
    BY <2>2, <2>3 DEF Goes
<1>3. conn' \in [Conn -> Connection]
  BY <1>2 DEF Goes
<1>4. Alone' /\ (Online' <=> Online)
  BY <1>2 DEF LikeNow, Alone, Online, Holder, SIInv
<1>5. UNCHANGED gameVars /\ mine' = mine
  BY DEF serverVars
<1>6. P!IInv'
  BY <1>5, GamesKeepIInv DEF SIInv
<1>7. Types'
  BY <1>1, <1>2, <1>3, <1>5 DEF SIInv, Types
<1>8. Linked'
  BY <1>4, <1>5 DEF SIInv, Linked, gameVars
<1>. QED
  BY <1>4, <1>6, <1>7, <1>8 DEF SIInv

\* A connection is made.
LEMMA OpensKept ==
    ASSUME SIInv, NEW t \in ThreadRecord, NEW c \in Connection, c.holder = "fresh", Opens(t, c),
           UNCHANGED serverVars, instructions' \in Instructions
    PROVE  SIInv'
<1>1. PICK k \in Conn :
        /\ Holder(k) = "none"
        /\ Goes([t EXCEPT !.connected = TRUE, !.client_socket = k], [conn EXCEPT ![k] = c])
  BY DEF Opens
<1>2. PICK u : u = [t EXCEPT !.connected = TRUE, !.client_socket = k]
  OBVIOUS
<1>3. u \in ThreadRecord
  BY <1>2 DEF ThreadRecord
<1>4. LikeNow([conn EXCEPT ![k] = c])
  BY <1>1, OneLikeNow
<1>. QED
  BY <1>1, <1>2, <1>3, <1>4, GoesKept

\* Or not, or not to any use.
LEMMA ConnectsKept ==
    ASSUME SIInv, NEW t \in ThreadRecord, Connects(t) \/ FailsToConnect(t),
           UNCHANGED serverVars, instructions' \in Instructions
    PROVE  SIInv'
<1>1. CASE Connects(t)
  BY <1>1, NewFields, OpensKept DEF Connects
<1>2. PICK u : u = [t EXCEPT !.client_socket = Unconnected]
  OBVIOUS
<1>3. u \in ThreadRecord
  BY <1>2 DEF ThreadRecord
<1>4. CASE Goes(u, conn)
  BY <1>3, <1>4, NowLikeNow, GoesKept
<1>5. ASSUME NEW broken \in BOOLEAN, NEW c,
             c = [NewConnection EXCEPT !.in = <<>>, !.reset = broken], Opens(t, c)
      PROVE  SIInv'
  <2>1. c \in Connection /\ c.holder = "fresh"
    BY <1>5, NewFields
  <2>. QED
    BY <1>5, <2>1, OpensKept
<1>. QED
  BY <1>1, <1>2, <1>4, <1>5 DEF FailsToConnect

\* A message is sent, or the connection is found to be lost.
LEMMA SendsKept ==
    ASSUME SIInv, NEW t \in ThreadRecord, NEW msg \in Message, Sends(t, msg),
           UNCHANGED serverVars, instructions' \in Instructions
    PROVE  SIInv'
<1>1. PICK k : k = t.client_socket
  OBVIOUS
<1>2. \/ Goes(t, conn) \/ Goes(CH!TempDisconnect(t), conn)
      \/ k \in Conn /\ Goes(t, [conn EXCEPT ![k].in = Append(@, msg)])
  BY <1>1 DEF Sends
<1>3. CASE Goes(t, conn)
  BY <1>3, NowLikeNow, GoesKept
<1>4. CASE Goes(CH!TempDisconnect(t), conn)
  BY <1>4, NowLikeNow, GoesKept, DisconnectTypes DEF Returns
<1>5. CASE k \in Conn /\ Goes(t, [conn EXCEPT ![k].in = Append(@, msg)])
  <2>1. conn[k] \in Connection /\ conn[k].in \in Seq(Message)
    BY <1>5 DEF SIInv, Types, Connection
  <2>2. PICK ms \in Seq(Message) : ms = Append(conn[k].in, msg)
    BY <2>1, AppendAdds
  <2>3. PICK c : c = [conn[k] EXCEPT !.in = ms]
    OBVIOUS
  <2>4. c \in Connection /\ c.holder = conn[k].holder /\ c.out = conn[k].out
    BY <2>1, <2>3, ReadFields
  <2>5. [conn EXCEPT ![k].in = Append(@, msg)] = [conn EXCEPT ![k] = c]
    BY <2>2, <2>3
  <2>6. LikeNow([conn EXCEPT ![k] = c])
    BY <1>5, <2>1, <2>4, OneLikeNow DEF Holder
  <2>. QED
    BY <1>5, <2>5, <2>6, GoesKept
<1>. QED
  BY <1>2, <1>3, <1>4, <1>5

\* The batch that is remembered.
LEMMA RemembersTypes ==
    ASSUME SIInv, NEW batch \in Seq(ServerLine)
    PROVE  /\ Remembers(batch) \in ThreadRecord
           /\ Remembers(batch).client_socket = thread.client_socket
<1>1. thread \in ThreadRecord
  BY DEF SIInv, Types
<1>2. PICK u : u = [thread EXCEPT !.received = TRUE, !.data = batch]
  OBVIOUS
<1>3. u \in ThreadRecord /\ u.client_socket = thread.client_socket
  BY <1>1, <1>2 DEF ThreadRecord
<1>. QED
  BY <1>1, <1>2, <1>3 DEF Remembers

\* The first n elements of a list, and the others.
LEMMA PartsOfList ==
    ASSUME NEW S, NEW s \in Seq(S), NEW n \in 0..Len(s)
    PROVE  /\ SubSeq(s, 1, n) \in Seq(S) /\ Len(SubSeq(s, 1, n)) = n
           /\ SubSeq(s, n + 1, Len(s)) \in Seq(S)
           /\ Len(SubSeq(s, n + 1, Len(s))) = Len(s) - n
           /\ \A i \in 1..n : SubSeq(s, 1, n)[i] = s[i]
           /\ \A i \in 1..(Len(s) - n) : SubSeq(s, n + 1, Len(s))[i] = s[n + i]
<1>1. Len(s) \in Nat /\ \A k \in 1..Len(s) : s[k] \in S
  BY SeqFacts
<1>2. PICK m \in Nat : m = Len(s)
  BY <1>1
<1>3. n \in 0..m
  BY <1>2
<1>4. \A k \in 1..n : s[k] \in S
  BY <1>1, <1>2, <1>3
<1>5. \A k \in (n + 1)..m : s[k] \in S
  BY <1>1, <1>2, <1>3
<1>6. /\ SubSeq(s, 1, n) \in Seq(S) /\ Len(SubSeq(s, 1, n)) = n
      /\ \A i \in 1..n : SubSeq(s, 1, n)[i] = s[i]
  BY <1>3, <1>4
<1>7. /\ SubSeq(s, n + 1, m) \in Seq(S) /\ Len(SubSeq(s, n + 1, m)) = m - n
      /\ \A i \in 1..(m - n) : SubSeq(s, n + 1, m)[i] = s[n + i]
  BY <1>3, <1>5
<1>. QED
  BY <1>2, <1>6, <1>7

\* Lines are received.
LEMMA ReceiveKept ==
    ASSUME SIInv, Receive, UNCHANGED serverVars
    PROVE  SIInv'
<1>1. PICK k : k = thread.client_socket
  OBVIOUS
<1>2. k \in Conn /\ instructions' = instructions
  BY <1>1 DEF Receive
<1>3. PICK n \in 1..Len(conn[k].out) :
        Goes([Remembers(SubSeq(conn[k].out, 1, n)) EXCEPT !.lines = SubSeq(conn[k].out, 1, n)],
             [conn EXCEPT ![k].out = SubSeq(@, n + 1, Len(@))])
  BY <1>1 DEF Receive
<1>4. conn[k] \in Connection /\ conn[k].out \in Seq(ServerLine)
  BY <1>2 DEF SIInv, Types, Connection
<1>5. PICK o \in Seq(ServerLine) : o = conn[k].out
  BY <1>4
<1>14. n \in 0..Len(o)
  <2>1. Len(o) \in Nat /\ n \in 1..Len(o)
    BY <1>3, <1>5, SeqFacts
  <2>2. \A m \in Nat : \A i \in 1..m : i \in 0..m
    OBVIOUS
  <2>. QED
    BY <2>1, <2>2
<1>6. PICK batch \in Seq(ServerLine) : batch = SubSeq(conn[k].out, 1, n)
  BY <1>5, <1>14, PartsOfList
<1>7. PICK rest \in Seq(ServerLine) : rest = SubSeq(conn[k].out, n + 1, Len(conn[k].out))
  BY <1>5, <1>14, PartsOfList
<1>8. PICK u : u = [Remembers(batch) EXCEPT !.lines = batch]
  OBVIOUS
<1>9. u \in ThreadRecord
  <2>1. PICK r \in ThreadRecord : r = Remembers(batch)
    BY RemembersTypes
  <2>. QED
    BY <1>8, <2>1 DEF ThreadRecord
<1>10. PICK c : c = [conn[k] EXCEPT !.out = rest]
  OBVIOUS
<1>11. c \in Connection /\ c.holder = conn[k].holder /\ c.out = rest
  BY <1>4, <1>10 DEF Connection
<1>12. LikeNow([conn EXCEPT ![k] = c])
  BY <1>2, <1>7, <1>11, OneLikeNow DEF Holder
<1>13. Goes(u, [conn EXCEPT ![k] = c])
  BY <1>3, <1>6, <1>7, <1>8, <1>10
<1>. QED
  BY <1>2, <1>9, <1>12, <1>13, GoesKept DEF SIInv, Types

\* Lines are received, and the beginning of another one.
LEMMA ReceivePartKept ==
    ASSUME SIInv, ReceivePart, UNCHANGED serverVars
    PROVE  SIInv'
<1>1. PICK k : k = thread.client_socket
  OBVIOUS
<1>2. k \in Conn /\ instructions' = instructions /\ clean' = FALSE
  BY <1>1 DEF ReceivePart
<1>3. PICK n \in 0..(Len(conn[k].out) - 1) :
        /\ thread' = [Remembers(SubSeq(conn[k].out, 1, n)) EXCEPT !.lines = SubSeq(conn[k].out, 1, n)]
        /\ conn' = [conn EXCEPT ![k].out = <<Line("REST")>> \o SubSeq(@, n + 2, Len(@))]
  BY <1>1 DEF ReceivePart
<1>4. conn[k] \in Connection /\ conn[k].out \in Seq(ServerLine)
  BY <1>2 DEF SIInv, Types, Connection
<1>5. PICK o \in Seq(ServerLine) : o = conn[k].out
  BY <1>4
<1>6. n \in 0..Len(o) /\ n + 1 \in 0..Len(o) /\ (n + 1) + 1 = n + 2
  <2>1. Len(o) \in Nat /\ n \in 0..(Len(o) - 1)
    BY <1>3, <1>5, SeqFacts
  <2>. QED
    BY <2>1
<1>7. PICK batch \in Seq(ServerLine) : batch = SubSeq(conn[k].out, 1, n)
  BY <1>5, <1>6, PartsOfList
<1>8. PICK rest \in Seq(ServerLine) : rest = SubSeq(conn[k].out, n + 2, Len(conn[k].out))
  <2>1. SubSeq(o, (n + 1) + 1, Len(o)) \in Seq(ServerLine)
    BY <1>6, PartsOfList
  <2>. QED
    BY <1>5, <1>6, <2>1
<1>9. PICK out \in Seq(ServerLine) : out = <<Line("REST")>> \o rest
  BY <1>8, BareLineType, ShortLists
<1>10. PICK c : c = [conn[k] EXCEPT !.out = out]
  OBVIOUS
<1>11. c \in Connection /\ c.holder = conn[k].holder
  BY <1>4, <1>10 DEF Connection
<1>12. conn' = [conn EXCEPT ![k] = c]
  BY <1>3, <1>8, <1>9, <1>10
<1>13. thread' \in ThreadRecord
  <2>1. PICK r \in ThreadRecord : r = Remembers(batch)
    BY <1>7, RemembersTypes
  <2>2. thread' = [r EXCEPT !.lines = batch]
    BY <1>3, <1>7, <2>1
  <2>. QED
    BY <2>1, <2>2 DEF ThreadRecord
<1>14. conn' \in [Conn -> Connection] /\ Alone' /\ (Online' <=> Online)
  BY <1>2, <1>11, <1>12, OneConnection DEF SIInv, Holder
<1>15. UNCHANGED gameVars /\ mine' = mine
  BY DEF serverVars
<1>16. P!IInv'
  BY <1>15, GamesKeepIInv DEF SIInv
<1>17. Types'
  BY <1>2, <1>13, <1>14, <1>15 DEF SIInv, Types
<1>18. Linked'
  BY <1>14, <1>15 DEF SIInv, Linked, gameVars
<1>. QED
  BY <1>14, <1>16, <1>17, <1>18 DEF SIInv

\* Nothing is received, and the thread goes on.
LEMMA ReceiveNothingKept ==
    ASSUME SIInv, ReceiveNothing, UNCHANGED serverVars
    PROVE  SIInv'
<1>1. PICK none \in Seq(ServerLine) : none = <<>>
  BY ShortLists
<1>2. Goes(Remembers(none), conn) /\ instructions' = instructions
  BY <1>1 DEF ReceiveNothing
<1>. QED
  BY <1>2, RemembersTypes, NowLikeNow, GoesKept DEF SIInv, Types

\* recv() raises.
LEMMA ReceiveFailsKept ==
    ASSUME SIInv, ReceiveFails, UNCHANGED serverVars
    PROVE  SIInv'
<1>1. PICK t : t = CH!Disconnect(thread)
  OBVIOUS
<1>2. t \in ThreadRecord
  BY <1>1, DisconnectTypes DEF SIInv, Types, Returns
<1>3. PICK u \in {[t EXCEPT !.lines = t.data], [t EXCEPT !.alive = FALSE]} : Goes(u, conn)
  BY <1>1 DEF ReceiveFails
<1>4. u \in ThreadRecord
  <2>1. t.data \in Seq(ServerLine)
    BY <1>2 DEF ThreadRecord
  <2>2. [t EXCEPT !.lines = t.data] \in ThreadRecord
    BY <1>2, <2>1 DEF ThreadRecord
  <2>3. [t EXCEPT !.alive = FALSE] \in ThreadRecord
    BY <1>2 DEF ThreadRecord
  <2>. QED
    BY <2>2, <2>3
<1>5. instructions' = instructions
  BY DEF ReceiveFails
<1>. QED
  BY <1>3, <1>4, <1>5, NowLikeNow, GoesKept DEF SIInv, Types

\* A line is handled.
LEMMA HandleLineKept ==
    ASSUME SIInv, HandleLine, UNCHANGED serverVars
    PROVE  SIInv'
<1>1. thread \in ThreadRecord /\ thread.lines \in Seq(ServerLine) /\ thread.lines # <<>>
  BY DEF SIInv, Types, ThreadRecord, HandleLine
<1>2. PICK l \in ServerLine : l = Head(thread.lines)
  BY <1>1, FrontOfList
<1>3. PICK rest \in Seq(ServerLine) : rest = Tail(thread.lines)
  BY <1>1, HeadTailProperties
<1>4. PICK t : t = [thread EXCEPT !.lines = rest]
  OBVIOUS
<1>5. t \in ThreadRecord
  BY <1>1, <1>4 DEF ThreadRecord
<1>6. PICK u : u = [t EXCEPT !.got_server_ping = TRUE]
  OBVIOUS
<1>7. u \in ThreadRecord
  BY <1>5, <1>6 DEF ThreadRecord
<1>8. /\ IF l.type = "PING" THEN Sends(u, "PONG") ELSE Goes(CH!Handled(t, l), conn)
      /\ instructions' = instructions
  BY <1>2, <1>3, <1>4, <1>6 DEF HandleLine
<1>9. instructions' \in Instructions
  BY <1>8 DEF SIInv, Types
<1>10. CASE l.type = "PING"
  BY <1>7, <1>8, <1>9, <1>10, SendsKept DEF Message
<1>11. CASE l.type # "PING"
  BY <1>5, <1>8, <1>9, <1>11, HandledTypes, NowLikeNow, GoesKept DEF Returns
<1>. QED
  BY <1>10, <1>11

\* The thread tries to connect again.
LEMMA ReconnectKept ==
    ASSUME SIInv, Reconnect, UNCHANGED serverVars
    PROVE  SIInv'
<1>1. thread \in ThreadRecord /\ instructions' \in Instructions
  BY DEF SIInv, Types, Reconnect
<1>2. CASE Connects([thread EXCEPT !.attempts = 0])
  <2>1. [thread EXCEPT !.attempts = 0] \in ThreadRecord
    <3>1. 0 \in 0..MaxAttempts
      BY AttemptsAssumption
    <3>. QED
      BY <1>1, <3>1 DEF ThreadRecord
  <2>. QED
    BY <1>1, <1>2, <2>1, ConnectsKept
<1>3. CASE FailsToConnect([thread EXCEPT !.attempts = @ - 1,
                               !.scene = IF thread.attempts = 1 THEN "login_frame" ELSE @])
  <2>1. PICK n \in 0..MaxAttempts : n = thread.attempts - 1
    BY <1>1, AttemptsAssumption DEF Reconnect, ThreadRecord
  <2>2. PICK sc : sc = IF thread.attempts = 1 THEN "login_frame" ELSE thread.scene
    OBVIOUS
  <2>3. PICK u : u = [thread EXCEPT !.attempts = n, !.scene = sc]
    OBVIOUS
  <2>4. u \in ThreadRecord
    BY <1>1, <2>2, <2>3 DEF ThreadRecord
  <2>5. FailsToConnect(u)
    BY <1>3, <2>1, <2>2, <2>3
  <2>. QED
    BY <1>1, <2>4, <2>5, ConnectsKept
<1>. QED
  BY <1>2, <1>3 DEF Reconnect

\* An instruction of the player.
LEMMA InstructKept ==
    ASSUME SIInv, Instruct, UNCHANGED serverVars
    PROVE  SIInv'
<1>1. thread \in ThreadRecord
  BY DEF SIInv, Types
<1>2. PICK i \in {"CONNECT", "JOIN", "START", "QUESS"} : instructions = <<i>>
  BY DEF SIInv, Types, Instructions, Instruct
<1>3. Head(instructions) = i /\ Tail(instructions) = <<>>
  BY <1>2
<1>4. instructions' \in Instructions
  BY <1>3 DEF Instruct, Instructions
<1>5. CASE i = "CONNECT"
  <2>1. PICK t : t = [thread EXCEPT !.scene = "login_frame"]
    OBVIOUS
  <2>2. t \in ThreadRecord
    BY <1>1, <2>1 DEF ThreadRecord
  <2>3. Connects(t) \/ FailsToConnect(t)
    BY <1>3, <1>5, <2>1 DEF Instruct
  <2>. QED
    BY <1>4, <2>2, <2>3, ConnectsKept
<1>6. CASE i # "CONNECT"
  <2>1. Sends(thread, i) /\ i \in Message
    BY <1>2, <1>3, <1>6 DEF Instruct, Message
  <2>. QED
    BY <1>1, <1>4, <2>1, SendsKept
<1>. QED
  BY <1>5, <1>6

\* A button.
LEMMA PressKept ==
    ASSUME SIInv, Press, UNCHANGED serverVars
    PROVE  SIInv'
<1>1. PICK i \in CH!Pressable(thread) : instructions' = <<i>>
  BY DEF Press
<1>2. i \in {"CONNECT", "JOIN", "START", "QUESS"}
  BY <1>1 DEF CH!Pressable
<1>3. instructions' \in Instructions
  BY <1>1, <1>2 DEF Instructions
<1>4. UNCHANGED <<thread, conn, clean, mine>> /\ UNCHANGED gameVars
  BY DEF Press, serverVars
<1>5. P!IInv'
  BY <1>4, GamesKeepIInv DEF SIInv
<1>. QED
  BY <1>3, <1>4, <1>5 DEF SIInv, Types, Alone, Linked, Online, Holder, gameVars

\* Every step of the thread.
LEMMA ThreadStep ==
    ASSUME SIInv, Thread
    PROVE  SIInv'
<1>1. CASE CheckPing
  BY <1>1, PingCheckedTypes, NowLikeNow, GoesKept DEF CheckPing, Thread, SIInv, Types, Returns
<1>. QED
  BY <1>1, ReceiveKept, ReceivePartKept, ReceiveNothingKept, ReceiveFailsKept, HandleLineKept, ReconnectKept,
     InstructKept, PressKept DEF Thread

-----------------------------------------------------------------------------
(* The theorems *)

\* Nobody has connected.
LEMMA SessionInitIInv == Init => SIInv
<1> SUFFICES ASSUME Init PROVE SIInv
  OBVIOUS
<1>1. P!IInv
  BY GamesInitIInv DEF Init
<1>2. /\ mine \in SessionFields /\ instructions \in Instructions /\ clean \in BOOLEAN
  BY NewSessionFields DEF Init, Instructions
<1>3. \A k \in Conn : conn[k] = NoConnection
  BY DEF Init
<1>5. conn \in [Conn -> Connection]
  BY NewFields DEF Init
<1>6. thread \in ThreadRecord
  <2>1. 0 \in 0..MaxAttempts /\ 0 \in 0..2 /\ 0 \in Nat /\ {} \in SUBSET Nat
    BY AttemptsAssumption
  <2>2. <<>> \in Seq(Client) /\ <<>> \in Seq(ServerLine)
    BY ShortLists
  <2>. QED
    BY <2>1, <2>2 DEF Init, CH!NewThread, ThreadRecord
<1>7. Types
  BY <1>2, <1>5, <1>6 DEF Types
<1>8. Alone /\ ~Online
  BY <1>3, NewFields DEF Alone, Online, Holder
<1>9. Linked
  BY <1>8, MeAssumption DEF Linked, Init, GM!Init, Seated, InGame
<1>. QED
  BY <1>1, <1>7, <1>8, <1>9 DEF SIInv

\* The inductive invariant is one.
LEMMA SessionInvariance == Spec => []SIInv
<1>1. SIInv /\ [Next]_vars => SIInv'
  <2>1. ASSUME SIInv, UNCHANGED vars PROVE SIInv'
    <3>1. UNCHANGED <<thread, instructions, conn, clean, mine>> /\ UNCHANGED gameVars
      BY <2>1 DEF vars, serverVars, clientVars
    <3>2. P!IInv'
      BY <2>1, <3>1, GamesKeepIInv DEF SIInv
    <3>. QED
      BY <2>1, <3>1, <3>2 DEF SIInv, Types, Alone, Linked, Online, Holder, gameVars
  <2>. QED
    BY <2>1, OtherStep, ServerStep, ThreadStep DEF Next
<1>. QED
  BY <1>1, SessionInitIInv, PTL DEF Spec

\* What the two sides keep of each other has its type: no counter passes its limit.
THEOREM SessionTypeCorrect == Spec => []TypeOK
<1>1. SIInv => TypeOK
  <2> SUFFICES ASSUME SIInv PROVE TypeOK
    OBVIOUS
  <2>1. Len(instructions) <= 1
    <3>1. Len(<<>>) <= 1 /\ \A i : Len(<<i>>) <= 1
      OBVIOUS
    <3>2. instructions \in Instructions
      BY DEF SIInv, Types
    <3>3. CASE instructions = <<>>
      BY <3>1, <3>3
    <3>4. CASE \E i : instructions = <<i>>
      BY <3>1, <3>4
    <3>. QED
      BY <3>2, <3>3, <3>4 DEF Instructions
  <2>2. \A k \in Conn : Holder(k) \in {"none", "fresh", "player"}
    BY DEF SIInv, Types, Connection, Holder
  <2>. QED
    BY <2>1, <2>2 DEF SIInv, Types, ThreadRecord, SessionFields, TypeOK
<1>. QED
  BY <1>1, SessionInvariance, PTL

\* The player's name is on one connection at a time: a second LOGIN is refused until
\* the server has seen the end of the first connection.
THEOREM OneHolderAlways == Spec => []OneHolder
<1>1. SIInv => OneHolder
  <2> SUFFICES ASSUME SIInv PROVE OneHolder
    OBVIOUS
  <2>1. PICK S : S = {k \in Conn : Holder(k) = "player"}
    OBVIOUS
  <2>2. CASE S = {}
    BY <2>1, <2>2, FS_EmptySet DEF OneHolder
  <2>3. CASE S # {}
    <3>1. PICK k \in S : TRUE
      BY <2>3
    <3>2. S = {k}
      BY <2>1, <3>1 DEF SIInv, Alone
    <3>. QED
      BY <2>1, <3>2, FS_Singleton DEF OneHolder
  <2>. QED
    BY <2>2, <2>3
<1>. QED
  BY <1>1, SessionInvariance, PTL

-----------------------------------------------------------------------------
(* The games of the session *)

\* The two sides use the games only as GameManager describes, in whatever order
\* messages, ends of connections and ping rounds come.
THEOREM SessionUsesGames == Spec => GM!Spec
<1>1. Init => GM!Init
  BY DEF Init
<1>2. [Next]_vars => GM!Next \/ UNCHANGED gameVars
  <2>1. Deleted => GM!Next
    BY MeAssumption DEF Deleted, GM!Next
  <2>2. ASSUME NEW k, NEW c, Wrong(k, c) PROVE GM!Next \/ UNCHANGED gameVars
    BY <2>1, <2>2 DEF Wrong
  <2>3. Other => GM!Next \/ UNCHANGED gameVars
    BY DEF Other, OtherSteps, OtherFlaps, GM!Next
  <2>4. ASSUME NEW k \in Conn, Login(k) PROVE GM!Next \/ UNCHANGED gameVars
    BY <2>4, MeAssumption DEF Login, LoginNew, LoginBack, LoginRefused, GM!Next
  <2>5. ASSUME NEW k \in Conn, Join(k) \/ Start(k) \/ Quess(k)
        PROVE  GM!Next \/ UNCHANGED gameVars
    BY <2>2, <2>5, MeAssumption DEF Join, Start, Quess, GM!Next
  <2>6. ASSUME NEW k \in Conn, Pong(k) \/ PongFresh(k) \/ Merged(k) \/ Eof(k)
        PROVE  GM!Next \/ UNCHANGED gameVars
    BY <2>1, <2>2, <2>6 DEF Pong, PongFresh, Merged, Eof
  <2>7. ASSUME NEW k \in Conn, PingFresh(k) \/ PingAnswered(k) \/ PingMissed(k)
        PROVE  GM!Next \/ UNCHANGED gameVars
    BY <2>1, <2>7 DEF PingFresh, PingAnswered, PingMissed
  <2>8. PingOffline => GM!Next \/ UNCHANGED gameVars
    BY <2>1 DEF PingOffline
  <2>9. Thread \/ UNCHANGED vars => UNCHANGED gameVars
    BY DEF Thread, vars, serverVars
  <2>. QED
    BY <2>3, <2>4, <2>5, <2>6, <2>7, <2>8, <2>9 DEF Next, Server
<1>3. [Next]_vars => [GM!Next]_GM!vars
  BY <1>2 DEF gameVars, GM!vars, GM!roundVars, GM!listVars
<1>. QED
  BY <1>1, <1>3, PTL DEF Spec, GM!Spec
=============================================================================

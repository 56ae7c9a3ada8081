--------------------------------- MODULE Session ---------------------------------
(***************************************************************************)
(* One player's client, the TCP connections it makes, and the server at    *)
(* their other end: what the two sides think of each other.                *)
(*                                                                         *)
(* The thread of CommunicationHandlerer and the loop of the server run     *)
(* concurrently.  The games are those of GameManager; its other players    *)
(* may do all that module allows.  Of the sessions of the server this      *)
(* module has the ones that concern the player: the object that carries    *)
(* its name and the fresh objects of connections that have not logged in.  *)
(* A connection delivers what is sent in order, and any number of waiting  *)
(* messages arrives with one read, which may end within a line.            *)
(***************************************************************************)
EXTENDS ClientState, Lists, Integers, FiniteSets, Sequences, SequencesExt

CONSTANTS
    Client, Game, Letter, WordPool, STARTING_HP, LOBBY_SIZE, NoClient, NoGame,
    MAX_WRONG_MSGS, MISSED_PING_TO_FULL_DISCONNECT,
    Me, MaxAttempts, NoSocket, Unconnected,
    Failures, \* connect() can fail, LOGIN cannot be sent and recv() can raise: the network
              \* fails, and a peer that closes with input unread resets the connection
    Conn,     \* the connections that can be open at once
    InBound,  \* fewer messages than this wait for the server when the player adds one
    OutBound  \* fewer lines than this wait for the client when the server adds some

ASSUME MeAssumption == Me \in Client
ASSUME GamesAssumption ==
    /\ NoClient \notin Client /\ NoGame \notin Game
    /\ WordPool # {} /\ WordPool \subseteq Seq(Letter) \ {<<>>}
    /\ STARTING_HP \in Nat \ {0}
    /\ LOBBY_SIZE \in Nat /\ LOBBY_SIZE >= 2
ASSUME ConnAssumption == NoSocket # Unconnected /\ {NoSocket, Unconnected} \cap Conn = {}
ASSUME AttemptsAssumption == MaxAttempts \in Nat \ {0}
ASSUME LimitAssumption ==
    /\ MAX_WRONG_MSGS \in Nat \ {0}
    /\ MISSED_PING_TO_FULL_DISCONNECT \in Nat /\ MISSED_PING_TO_FULL_DISCONNECT >= 2
ASSUME FailuresAssumption == Failures \in BOOLEAN
ASSUME BoundAssumption == InBound \in Nat /\ OutBound \in Nat

VARIABLES
    client_state, game, hp, players, client_on_turn, word, quessed_chars, found_chars,
    not_started_games, not_started_games_full, started_games, spinning,
    mine,          \* session fields of the Client object with the name Me
    conn,          \* the connections, both ends
    thread,        \* the client's thread
    instructions,  \* CommunicationHandlerer.input_queue
    clean          \* history: the thread had nothing left of an earlier connection (no
                   \* state, no lines) when it made the one it has, and no line was cut

GM == INSTANCE GameManager
CH == INSTANCE CommunicationHandlerer

gameVars == <<client_state, game, hp, players, client_on_turn, word, quessed_chars,
              found_chars, not_started_games, not_started_games_full, started_games,
              spinning>>
clientVars == <<thread, instructions, clean>>
serverVars == <<gameVars, mine>>
vars == <<serverVars, conn, clientVars>>

NewSession == [wrong_msgs |-> 0, missedPings |-> 0, didPingedBack |-> TRUE]

\* holder is what ClientManager::client_sockets has for the server's end: no
\* object (the end is closed), a fresh one, or the player's.
NoConnection ==
    [holder |-> "none", open |-> FALSE, reset |-> FALSE, didPingedBack |-> TRUE,
     in |-> <<>>, out |-> <<>>]

\* The server's accept() follows the client's connect(), and LOGIN is sent at once.
NewConnection == [NoConnection EXCEPT !.holder = "fresh", !.open = TRUE, !.in = <<"LOGIN">>]

Init ==
    /\ GM!Init
    /\ mine = NewSession
    /\ conn = [k \in Conn |-> NoConnection]
    /\ thread = CH!NewThread
    /\ instructions = <<>>
    /\ clean = TRUE

-----------------------------------------------------------------------------
(* What the server sends *)

Holder(k) == conn[k].holder
Online == \E k \in Conn : Holder(k) = "player"

Line(type) == [type |-> type]
LobbyLine(ps) == [type |-> "LOBBYUPDATE", clients |-> ps]
GameLine(ps, turn) == [type |-> "GAMEUPDATE", clients |-> ps, turn |-> turn]

\* GameManager::lobbyUpdate or gameUpdate of the game g as it is.
UpdateLine(g) ==
    IF g \in started_games THEN GameLine(players[g], client_on_turn[g]) ELSE LobbyLine(players[g])

Known(g) == UNION Range(quessed_chars[g])

\* Lines at the end of a round, if the step ends one.
EndLines(g) ==
    IF g \in started_games \ started_games'
    THEN <<Line("WINNER"), LobbyLine(players'[g])>> ELSE <<>>

StartLines(g) ==
    <<[type |-> "STARTING", turn |-> client_on_turn'[g], len |-> Len(word'[g])]>>

QuessLines(c, ch) ==
    LET g == game[c]
        found == GM!Revealed(g, ch)
    IN IF spinning' THEN <<>>
       ELSE IF found = {}
            THEN <<[type |-> "BADQUESS", by |-> c, turn |-> client_on_turn'[g]]>> \o EndLines(g)
            ELSE IF EndLines(g) # <<>> THEN EndLines(g)
                 ELSE <<[type |-> "CORRECTQUESS", positions |-> found]>>

\* A plausible mistake, in place of LeaveLines: only those in a round are told.
LeaveLinesOfRound(g) ==
    IF spinning' \/ g \notin started_games THEN <<>>
    ELSE <<GameLine(players'[g], client_on_turn'[g])>> \o EndLines(g)

\* Server::disconnet tells those who stay.
LeaveLines(g) ==
    IF spinning' THEN <<>>
    ELSE IF g \in started_games
         THEN <<GameLine(players'[g], client_on_turn'[g])>> \o EndLines(g)
         ELSE <<LobbyLine(players'[g])>>

\* A player who is removed may have been offline already.  If not, the update of
\* Server::tempDisconnect comes first.
GoingLines(g) == {LeaveLines(g), <<UpdateLine(g)>> \o LeaveLines(g)}

\* A plausible mistake, in place of BackLines: a player that returns into a round is
\* not told the letters.
BackLinesWithoutQuessed(g) ==
    <<[type |-> "RECONNECT", state |-> IF g \in started_games THEN "GAME" ELSE "LOBBY"],
      UpdateLine(g)>>

\* What LOGIN of a player with a seat is answered.
BackLines(g) ==
    IF g \in started_games
    THEN <<[type |-> "RECONNECT", state |-> "GAME"],
           [type |-> "QUESSED", len |-> Len(word[g]), positions |-> Known(g)],
           UpdateLine(g)>>
    ELSE <<[type |-> "RECONNECT", state |-> "LOBBY"], UpdateLine(g)>>

\* The connection c with the lines ls sent on it; a client that is gone gets none.
Sent(c, ls) == IF c.open THEN [c EXCEPT !.out = @ \o ls] ELSE c

\* The thread is about to handle a line that concerns nobody else.  What the
\* server does meanwhile it may as well do afterwards, so it waits.
ThreadIsBusy ==
    thread.alive /\ thread.lines # <<>> /\ thread.attempts = 0 /\ Head(thread.lines).type # "PING"

\* The server sends only to a client for which fewer than OutBound lines wait.
Fits == \A k \in Conn :
    Len(conn'[k].out) > Len(conn[k].out) => Len(conn[k].out) + Len(thread.lines) < OutBound

\* The server closes its end.  Input it has not read makes that a reset.
ServerClosed(c) ==
    [c EXCEPT !.holder = "none", !.reset = Failures /\ c.open /\ c.in # <<>>, !.in = <<>>,
              !.didPingedBack = TRUE]

\* LOGIN succeeded: the descriptor now belongs to the player's object.
OfPlayer(c) == [c EXCEPT !.holder = "player", !.didPingedBack = TRUE]

\* A step of another player sends ls to the players of the game g.
Tell(g, ls) ==
    conn' = [k \in Conn |->
        IF Holder(k) = "player" /\ g # NoGame /\ game[Me] = g THEN Sent(conn[k], ls) ELSE conn[k]]

-----------------------------------------------------------------------------
(* The other players, any way the games allow *)

OtherSteps(c) ==
    \/ GM!LogIn(c) /\ UNCHANGED conn
    \/ GM!JoinGame(c) /\ Tell(game'[c], <<LobbyLine(players'[game'[c]])>>)
    \/ GM!StartGame(c) /\ Tell(game[c], StartLines(game[c]))
    \/ \E ch \in Letter : GM!Quess(c, ch) /\ Tell(game[c], QuessLines(c, ch))
    \/ game[c] = NoGame /\ GM!Leave(c) /\ UNCHANGED conn
    \/ game[c] # NoGame /\ GM!Leave(c) /\ \E ls \in GoingLines(game[c]) : Tell(game[c], ls)

\* Another player of the game is offline, or back: everyone is told.
OtherFlaps(c) ==
    /\ ~spinning
    /\ client_state[c] \in Seated
    /\ Tell(game[c], <<UpdateLine(game[c])>>)
    /\ UNCHANGED gameVars

Other ==
    /\ ~ThreadIsBusy
    /\ \E c \in Client \ {Me} : OtherSteps(c) \/ OtherFlaps(c)
    /\ Fits
    /\ UNCHANGED <<mine, clientVars>>

-----------------------------------------------------------------------------
(* The server reads from the player's connections *)

\* n messages have arrived on k, and one recv() takes them all.
Reads(k, n) == ~spinning /\ Holder(k) # "none" /\ n <= Len(conn[k].in)

\* The first message is read, and ls are sent.
Answered(k, ls) == Sent([conn[k] EXCEPT !.in = Tail(@)], ls)

LoginNew(k) ==
    /\ GM!LogIn(Me)
    /\ mine' = [NewSession EXCEPT !.didPingedBack = conn[k].didPingedBack]
    /\ conn' = [conn EXCEPT ![k] = OfPlayer(Answered(k, <<Line("ACCEPT|1")>>))]

\* A plausible mistake, in place of LoginBack: the name is taken over from a
\* connection that still has it.
LoginBackAnyway(k) ==
    /\ client_state[Me] # "UNLOGED"
    /\ mine' = [mine EXCEPT !.missedPings = 0, !.didPingedBack = TRUE]
    /\ conn' = [conn EXCEPT ![k] =
                   OfPlayer(Answered(k, IF game[Me] = NoGame THEN <<>> ELSE BackLines(game[Me])))]
    /\ UNCHANGED gameVars

LoginBack(k) ==
    /\ client_state[Me] # "UNLOGED"
    /\ ~Online
    /\ mine' = [mine EXCEPT !.missedPings = 0, !.didPingedBack = TRUE]
    /\ conn' = [conn EXCEPT ![k] = OfPlayer(Answered(k, BackLines(game[Me])))]
    /\ UNCHANGED gameVars

\* The name is in use online, if only on a connection whose end was not yet seen.
LoginRefused(k) ==
    /\ Online
    /\ conn' = [conn EXCEPT ![k] = ServerClosed(Answered(k, <<Line("ERROR|1")>>))]
    /\ UNCHANGED <<gameVars, mine>>

Login(k) ==
    /\ Reads(k, 1)
    /\ Holder(k) = "fresh"
    /\ Head(conn[k].in) = "LOGIN"
    /\ LoginNew(k) \/ LoginBack(k) \/ LoginRefused(k)

\* Server::disconnet deletes the player's object.
Deleted == GM!Leave(Me) /\ mine' = NewSession

\* A message of the player that is counted as wrong; c is its connection after it.
Wrong(k, c) ==
    IF mine.wrong_msgs + 1 >= MAX_WRONG_MSGS
    THEN /\ Deleted
         /\ conn' = [conn EXCEPT ![k] = ServerClosed(c)]
    ELSE /\ mine' = [mine EXCEPT !.wrong_msgs = @ + 1]
         /\ conn' = [conn EXCEPT ![k] = c]
         /\ UNCHANGED gameVars

Receives(k, msg) == Reads(k, 1) /\ Holder(k) = "player" /\ Head(conn[k].in) = msg

Join(k) ==
    /\ Receives(k, "JOIN")
    /\ IF client_state[Me] = "LOGGED"
       THEN /\ GM!JoinGame(Me)
            /\ LET g == game'[Me]
               IN conn' = [conn EXCEPT ![k] =
                              Answered(k, <<Line("ACCEPT|2"), LobbyLine(players'[g])>>)]
            /\ UNCHANGED mine
       ELSE Wrong(k, Answered(k, <<Line("ERROR")>>))

Start(k) ==
    /\ Receives(k, "START")
    /\ IF client_state[Me] = "LOBBY" /\ Len(players[game[Me]]) >= 2
       THEN /\ GM!StartGame(Me)
            /\ conn' = [conn EXCEPT ![k] = Answered(k, StartLines(game[Me]))]
            /\ UNCHANGED mine
       ELSE Wrong(k, Answered(k, <<Line("ERROR")>>))

Quess(k) ==
    /\ Receives(k, "QUESS")
    /\ IF client_state[Me] = "ON_TURN"
       THEN \E ch \in Letter :
                /\ GM!Quess(Me, ch)
                /\ conn' = [conn EXCEPT ![k] = Answered(k, QuessLines(Me, ch))]
                /\ UNCHANGED mine
       ELSE Wrong(k, Answered(k, <<Line("ERROR")>>))

Pong(k) ==
    /\ Receives(k, "PONG")
    /\ mine' = [mine EXCEPT !.didPingedBack = TRUE]
    /\ conn' = [conn EXCEPT ![k] = Answered(k, <<>>)]
    /\ UNCHANGED gameVars

\* A client whose LOGIN could not be sent still answers a PING.
PongFresh(k) ==
    /\ Reads(k, 1)
    /\ Holder(k) = "fresh"
    /\ Head(conn[k].in) = "PONG"
    /\ conn' = [conn EXCEPT ![k] = [Answered(k, <<>>) EXCEPT !.didPingedBack = TRUE]]
    /\ UNCHANGED <<gameVars, mine>>

\* Two or more messages read as one have no separator and are one wrong message.
\* It is answered only if its first token is QUESS.
Merged(k) ==
    \E n \in 2..Len(conn[k].in) :
        /\ Reads(k, n)
        /\ Holder(k) = "player"
        /\ LET answer == IF Head(conn[k].in) = "QUESS" THEN <<Line("ERROR")>> ELSE <<>>
           IN Wrong(k, Sent([conn[k] EXCEPT !.in = SubSeq(@, n + 1, Len(@))], answer))

\* The client has closed its end and all it sent is read.
Eof(k) ==
    /\ ~spinning
    /\ Holder(k) # "none" /\ ~conn[k].open /\ conn[k].in = <<>>
    /\ conn' = [conn EXCEPT ![k] = ServerClosed(@)]
    /\ IF Holder(k) = "player" /\ client_state[Me] = "LOGGED"
       THEN Deleted ELSE UNCHANGED <<gameVars, mine>>

-----------------------------------------------------------------------------
(* The ping round, one object at a time: it may end before it reaches the    *)
(* next one, at a client that it removes.                                    *)

PingLine == Line("PING")

PingFresh(k) ==
    /\ ~spinning /\ Holder(k) = "fresh"
    /\ conn' = [conn EXCEPT ![k] =
                   IF @.didPingedBack
                   THEN Sent([@ EXCEPT !.didPingedBack = FALSE], <<PingLine>>)
                   ELSE ServerClosed(@)]
    /\ UNCHANGED <<gameVars, mine>>

\* The player has answered the last round, or is still without an answer.
PingAnswered(k) ==
    /\ ~spinning /\ Holder(k) = "player" /\ mine.didPingedBack
    /\ mine' = [mine EXCEPT !.missedPings = 0, !.didPingedBack = FALSE]
    /\ conn' = [conn EXCEPT ![k] = Sent(@, <<PingLine>>)]
    /\ UNCHANGED gameVars

PingMissed(k) ==
    /\ ~spinning /\ Holder(k) = "player" /\ ~mine.didPingedBack
    /\ conn' = [conn EXCEPT ![k] = ServerClosed(@)]
    /\ IF client_state[Me] = "LOGGED" THEN Deleted
       ELSE /\ mine' = [mine EXCEPT !.missedPings = @ + 1]
            /\ UNCHANGED gameVars

\* A plausible mistake, in place of PingOffline: it only counts.
PingOfflineForever ==
    /\ ~spinning /\ ~Online /\ client_state[Me] # "UNLOGED"
    /\ mine' = [mine EXCEPT !.missedPings = IF @ > MISSED_PING_TO_FULL_DISCONNECT THEN @ ELSE @ + 1]
    /\ UNCHANGED <<gameVars, conn>>

PingOffline ==
    /\ ~spinning /\ ~Online /\ client_state[Me] # "UNLOGED"
    /\ LET missed == IF mine.didPingedBack THEN 0 ELSE mine.missedPings + 1
       IN IF missed >= MISSED_PING_TO_FULL_DISCONNECT THEN Deleted
          ELSE /\ mine' = [mine EXCEPT !.missedPings = missed, !.didPingedBack = FALSE]
               /\ UNCHANGED gameVars
    /\ UNCHANGED conn

Server ==
    /\ ~ThreadIsBusy
    /\ \/ PingOffline
       \/ \E k \in Conn :
            \/ Login(k) \/ Join(k) \/ Start(k) \/ Quess(k) \/ Pong(k) \/ PongFresh(k)
            \/ Merged(k) \/ Eof(k) \/ PingFresh(k) \/ PingAnswered(k) \/ PingMissed(k)
    /\ Fits
    /\ UNCHANGED clientVars

-----------------------------------------------------------------------------
(* The client's thread *)

\* The thread goes on as t; a socket it no longer refers to is closed, which
\* leaves the lines still on their way unread.  (A local variable of _run may keep
\* the old socket of a second CONNECT open for a while.  To the server that is an
\* end of file it has not seen.)
Goes(t, cs) ==
    /\ thread' = t
    /\ clean' = IF t.client_socket \in Conn \ {thread.client_socket}
                THEN t.lines = <<>> /\ t.client_state = "UNLOGGED" ELSE clean
    /\ conn' = [k \in Conn |->
                   IF k = thread.client_socket /\ k # t.client_socket
                   THEN [cs[k] EXCEPT !.open = FALSE, !.reset = FALSE, !.out = <<>>]
                   ELSE cs[k]]

\* connect() succeeds on a connection that is not in use, which becomes c, with t the
\* thread then.
Opens(t, c) ==
    \E k \in Conn :
        /\ Holder(k) = "none" /\ ~conn[k].open
        /\ Goes([t EXCEPT !.connected = TRUE, !.client_socket = k], [conn EXCEPT ![k] = c])

\* establish_connection returns 1.
Connects(t) == Opens(t, NewConnection)

\* It returns -1: connect() fails, or send() does, and connected is already set then.
FailsToConnect(t) ==
    /\ Failures
    /\ \/ Goes([t EXCEPT !.client_socket = Unconnected], conn)
       \/ \E broken \in BOOLEAN :
              Opens(t, [NewConnection EXCEPT !.in = <<>>, !.reset = broken])

\* The server's end of the thread's socket is closed.
Dead(t) == t.client_socket \in Conn => Holder(t.client_socket) = "none"

\* send_msg_to_server: a closed peer makes send() fail, or swallow the message.
Sends(t, msg) ==
    LET k == t.client_socket IN
    \/ /\ k \in Conn
       /\ IF Dead(t) THEN Goes(t, conn)
          ELSE Goes(t, [conn EXCEPT ![k].in = Append(@, msg)])
    \/ Dead(t) /\ Goes(CH!TempDisconnect(t), conn)

Idle == thread.alive /\ thread.lines = <<>> /\ thread.attempts = 0

\* The variable data of _run, which is read again only after a recv() that fails.
Remembers(batch) ==
    IF Failures THEN [thread EXCEPT !.received = TRUE, !.data = batch] ELSE thread

\* recv() of n whole lines.
Receive ==
    LET k == thread.client_socket IN
    /\ Idle /\ thread.connected /\ k \in Conn
    /\ \E n \in 1..Len(conn[k].out) :
        LET batch == SubSeq(conn[k].out, 1, n)
        IN Goes([Remembers(batch) EXCEPT !.lines = batch],
                [conn EXCEPT ![k].out = SubSeq(@, n + 1, Len(@))])
    /\ UNCHANGED instructions

\* recv() of nothing at the end of the stream is no error, and no line.
ReceiveNothing ==
    LET k == thread.client_socket IN
    /\ Idle /\ thread.connected /\ k \in Conn
    /\ Dead(thread) /\ conn[k].out = <<>> /\ ~conn[k].reset
    /\ Goes(Remembers(<<>>), conn)
    /\ UNCHANGED instructions

\* recv() returns n lines and the beginning of another one.  handleServer_Msg keeps
\* nothing of that, so what follows is taken for a line of its own.
ReceivePart ==
    LET k == thread.client_socket IN
    /\ Idle /\ thread.connected /\ k \in Conn
    /\ \E n \in 0..(Len(conn[k].out) - 1) :
        LET batch == SubSeq(conn[k].out, 1, n)
        IN /\ thread' = [Remembers(batch) EXCEPT !.lines = batch]
           /\ conn' = [conn EXCEPT ![k].out = <<Line("REST")>> \o SubSeq(@, n + 2, Len(@))]
    /\ clean' = FALSE
    /\ UNCHANGED instructions

\* recv() raises.  The thread disconnects and goes on with the batch it received
\* last; if there was none, data is unbound and ends the thread.
ReceiveFails ==
    LET k == thread.client_socket IN
    /\ Idle /\ thread.connected
    /\ k \in Conn => conn[k].reset /\ conn[k].out = <<>>
    /\ LET t == CH!Disconnect(thread)
       IN Goes(IF t.received THEN [t EXCEPT !.lines = t.data] ELSE [t EXCEPT !.alive = FALSE], conn)
    /\ UNCHANGED instructions

\* The next line of the batch.
HandleLine ==
    /\ thread.alive /\ thread.lines # <<>> /\ thread.attempts = 0
    /\ LET l == Head(thread.lines)
           t == [thread EXCEPT !.lines = Tail(@)]
       IN IF l.type = "PING" THEN Sends([t EXCEPT !.got_server_ping = TRUE], "PONG")
          ELSE Goes(CH!Handled(t, l), conn)
    /\ UNCHANGED instructions

\* One round of the loop of temp_disconnect_from_server, in the midst of a batch
\* if an answer to PING has failed.
Reconnect ==
    /\ thread.alive /\ thread.attempts > 0
    /\ \/ Connects([thread EXCEPT !.attempts = 0])
       \/ FailsToConnect([thread EXCEPT !.attempts = @ - 1,
                              !.scene = IF thread.attempts = 1 THEN "login_frame" ELSE @])
    /\ UNCHANGED instructions

CheckPing ==
    /\ Idle /\ thread.connected
    /\ Goes(CH!PingChecked(thread), conn)
    /\ UNCHANGED instructions

\* handle_gui_msg
Instruct ==
    /\ Idle /\ instructions # <<>>
    /\ \A k \in Conn : Len(conn[k].in) < InBound
    /\ instructions' = Tail(instructions)
    /\ IF Head(instructions) = "CONNECT"
       THEN LET t == [thread EXCEPT !.scene = "login_frame"]
            IN Connects(t) \/ FailsToConnect(t)
       ELSE Sends(thread, Head(instructions))

\* A button: the window puts an instruction into the queue.
Press ==
    /\ ~ThreadIsBusy
    /\ instructions = <<>>
    /\ \E i \in CH!Pressable(thread) : instructions' = <<i>>
    /\ UNCHANGED <<thread, conn, clean>>

Thread ==
    /\ Receive \/ ReceivePart \/ ReceiveNothing \/ ReceiveFails \/ HandleLine \/ Reconnect
         \/ CheckPing \/ Instruct \/ Press
    /\ UNCHANGED serverVars

-----------------------------------------------------------------------------
\* A server that is lost in Game::nextClient (spinning) takes no step any more.
Next == Other \/ Server \/ Thread

Spec == Init /\ [][Next]_vars

\* The loop of _run waits for nothing but the queue, and that with a timeout.
Loop == (Receive \/ ReceiveFails \/ HandleLine \/ Reconnect) /\ UNCHANGED serverVars

FairSpec ==
    /\ Spec
    /\ WF_vars(Loop)
    /\ WF_vars(CheckPing /\ UNCHANGED serverVars)

-----------------------------------------------------------------------------
(* What the two sides promise each other.  A thread that connects anew while it *)
(* still has the state or unread lines of an earlier connection takes the old   *)
(* for the new, and a line that is cut is lost; what the sides think of each    *)
(* other is stated for connections without either (clean).                      *)

TypeOK ==
    /\ mine \in [wrong_msgs : 0..(MAX_WRONG_MSGS - 1), didPingedBack : BOOLEAN,
                 missedPings : 0..(MISSED_PING_TO_FULL_DISCONNECT - 1)]
    /\ \A k \in Conn : Holder(k) \in {"none", "fresh", "player"}
    /\ thread.client_socket \in Conn \cup {NoSocket, Unconnected}
    /\ thread.client_state \in {"UNLOGGED", "LOGGED", "LOBBY", "GAME"}
    /\ thread.scene \in {"login_frame", "join_frame", "lobby_frame", "game_frame",
                         "temp_dis_frame"}
    /\ thread.attempts \in 0..MaxAttempts
    /\ thread.missed_pings \in 0..2
    /\ thread.clients \in Seq(Client)
    /\ Len(instructions) <= 1

\* Nothing is under way: the two sides have told each other all.
AtRest ==
    LET k == thread.client_socket IN
    /\ clean
    /\ Idle /\ thread.connected /\ k \in Conn
    /\ Holder(k) # "none" /\ conn[k].in = <<>> /\ conn[k].out = <<>>
    /\ ~spinning

\* And the server has the player's object at the other end.
AtRestLoggedIn == AtRest /\ Holder(thread.client_socket) = "player"

\* The state the client should be in once it has logged in: the four states of the
\* Python client against the five of the server.
ServersView ==
    CASE client_state[Me] = "UNLOGED" -> "UNLOGGED"
      [] client_state[Me] \in InGame -> "GAME"
      [] OTHER -> client_state[Me]

\* Whatever connection was lost, refused or overtaken before, once nothing is under
\* way the client is in the state that the server has for it: each side changes its
\* state alone, the client when it reads a line, the server when it sends one.
StatesAgree ==
    AtRest => thread.client_state = IF Holder(thread.client_socket) = "fresh"
                                    THEN "UNLOGGED" ELSE ServersView

\* The client then knows the players of its game, in the server's order, although an
\* update may come while it is away, and the names are checked against the old ones.
PlayersAgree ==
    AtRestLoggedIn /\ client_state[Me] \in Seated => thread.clients = players[game[Me]]

\* In a round it shows the letters that are found, also after a return, and the field
\* for a guess exactly when it is on turn.
RoundAgrees ==
    AtRestLoggedIn /\ client_state[Me] \in InGame =>
        /\ thread.word_len = Len(word[game[Me]])
        /\ thread.word = Known(game[Me])
        /\ thread.quess_entry <=> client_state[Me] = "ON_TURN"

\* The client never takes a line of this server for a wrong message (which drops the
\* rest of the batch, and the connection at the third time): whatever happens while
\* lines are under way, each finds the client in the state it is meant for.
LinesAreExpected ==
    [][clean /\ clean' => thread'.number_of_wrong_msg <= thread.number_of_wrong_msg]_vars

\* The player's name is on one connection at a time, however connects, ends of file
\* and ping rounds are ordered: a second LOGIN is refused until the first is over.
OneHolder == Cardinality({k \in Conn : Holder(k) = "player"}) <= 1

Lost == thread.alive /\ thread.connected /\ Dead(thread)

\* A client whose server has closed the connection notices by the missing PING and
\* disconnects or connects anew, if it has not missed one before: end of file alone
\* tells it nothing (recv() returns no data and _run goes on).
DeadLineIsNoticed == (Lost /\ thread.missed_pings = 0) ~> ~Lost

\* The documentation: the client checks that the server is available and otherwise
\* tries to reconnect (ups_doc.tex:340).
LostServerIsNoticed == Lost ~> ~Lost

\* The documentation: the applications do not crash (ups_doc.tex:376).
ThreadSurvives == thread.alive
=============================================================================

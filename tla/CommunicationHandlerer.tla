------------------------- MODULE CommunicationHandlerer -------------------------
(***************************************************************************)
(* The communication thread of the Python client, class                    *)
(* CommunicationHandlerer, with the Game object it fills and the parts of  *)
(* the window that decide which button the player can press.               *)
(*                                                                         *)
(* The thread is a record t.  An operator takes the thread and returns it  *)
(* as the method of that name leaves it; Session turns them into steps.    *)
(* After a "return" of handleServer_Msg the rest of the batch, t.lines, is *)
(* dropped.                                                                *)
(***************************************************************************)
EXTENDS Integers, Sequences, SequencesExt

CONSTANTS
    Me,          \* the player's name
    MaxAttempts, \* max_missed_pings: how often a reconnect is tried
    NoSocket,    \* client_socket is None
    Unconnected  \* client_socket is a socket whose connect() failed

\* The threshold of wrong_server_msg.
WrongMsgLimit == 3

NewThread ==
    [alive |-> TRUE,            \* _run has not been left by an exception
     connected |-> FALSE,
     client_socket |-> NoSocket,
     client_state |-> "UNLOGGED",
     number_of_wrong_msg |-> 0,
     got_server_ping |-> TRUE,
     missed_pings |-> 0,        \* stops at 2: the code only asks whether it is 1
     clients |-> <<>>,          \* Game.clients
     number_of_clients |-> 0,   \* Game.number_of_clients
     word_len |-> 0,            \* Game.word_len
     word |-> {},               \* Game.word: the positions that show a letter
     scene |-> "login_frame",
     start_button |-> FALSE,    \* MyApp.set_start_button
     quess_entry |-> FALSE,     \* MyApp.set_quess_entry
     received |-> FALSE,        \* the local variable data of _run is bound ...
     data |-> <<>>,             \* ... to this batch of lines
     lines |-> <<>>,            \* what handleServer_Msg has still to look at
     attempts |-> 0]            \* what temp_disconnect_from_server has still to try

-----------------------------------------------------------------------------
(* Plausible mistakes.  No action uses them: each replaces the definition  *)
(* it is named after, to see that a property notices.                      *)

\* LOBBYUPDATE is taken for an error when the names are new.
OnLobbyUpdateKnownOnly(t, l) ==
    IF t.client_state # "LOBBY" \/ ~(Range(l.clients) \subseteq Range(t.clients))
    THEN [t EXCEPT !.lines = <<>>]
    ELSE [t EXCEPT !.clients = l.clients, !.number_of_clients = Len(l.clients),
                   !.start_button = Len(l.clients) >= 2]

\* WINNER leaves the client in its game.
OnWinnerStays(t) ==
    IF t.client_state # "GAME" THEN [t EXCEPT !.lines = <<>>]
                               ELSE [t EXCEPT !.scene = "lobby_frame"]

\* The check of the connection does not clear got_server_ping.
CountPingKeepsFlag(t) ==
    [t EXCEPT !.missed_pings = IF t.got_server_ping THEN 0 ELSE IF @ = 2 THEN 2 ELSE @ + 1]

-----------------------------------------------------------------------------
(* Losing the connection *)

\* What only a new Game is read after is forgotten: the code leaves the old one.
Forgotten(t) ==
    [t EXCEPT !.clients = <<>>, !.number_of_clients = 0, !.word_len = 0, !.word = {}]

Disconnect(t) ==
    IF t.client_socket = NoSocket THEN t
    ELSE [Forgotten(t) EXCEPT !.connected = FALSE, !.client_socket = NoSocket,
                   !.client_state = "UNLOGGED", !.number_of_wrong_msg = 0,
                   !.scene = "login_frame"]

\* temp_disconnect_from_server up to its loop.
TempDisconnect(t) ==
    IF t.client_socket = NoSocket THEN t
    ELSE [Forgotten(t) EXCEPT !.connected = FALSE, !.client_socket = NoSocket,
                   !.client_state = "UNLOGGED", !.scene = "temp_dis_frame",
                   !.attempts = MaxAttempts]

\* wrong_server_msg.
WrongMsg(t) ==
    LET counted == [t EXCEPT !.number_of_wrong_msg = @ + 1]
    IN IF counted.number_of_wrong_msg = WrongMsgLimit THEN Disconnect(counted) ELSE counted

\* wrong_server_msg and return.
Rejected(t) == [WrongMsg(t) EXCEPT !.lines = <<>>]

\* The count of missed pings once per ping_interval.
CountPing(t) ==
    [t EXCEPT !.missed_pings = IF t.got_server_ping THEN 0 ELSE IF @ = 2 THEN 2 ELSE @ + 1,
              !.got_server_ping = FALSE]

\* The check itself: the first missed ping ends the connection.
PingChecked(t) ==
    LET u == CountPing(t)
    IN IF t.got_server_ping \/ u.missed_pings # 1 THEN u
       ELSE IF t.client_state \in {"GAME", "LOBBY"} THEN TempDisconnect(u) ELSE Disconnect(u)

-----------------------------------------------------------------------------
(* handleServer_Msg, one operator per kind of line *)

\* Game(self.name)
NewGame(t) ==
    [t EXCEPT !.clients = <<Me>>, !.number_of_clients = 0, !.word_len = 0, !.word = {}]

OnAccept1(t) ==
    IF t.client_state # "UNLOGGED" THEN Rejected(t)
    ELSE [t EXCEPT !.client_state = "LOGGED", !.scene = "join_frame"]

OnAccept2(t) ==
    IF t.client_state # "LOGGED" THEN Rejected(t)
    ELSE [NewGame(t) EXCEPT !.client_state = "LOBBY", !.scene = "lobby_frame"]

\* The names of an update are compared with the known ones only when there are
\* as many.
HasStranger(t, l) ==
    /\ t.number_of_clients = Len(l.clients)
    /\ ~(Range(l.clients) \subseteq Range(t.clients))

Updated(t, l) == [t EXCEPT !.clients = l.clients, !.number_of_clients = Len(l.clients)]

\* The player's own name is looked for in the old list, and its absence is
\* counted without a return.
OnLobbyUpdate(t, l) ==
    IF t.client_state # "LOBBY" \/ HasStranger(t, l) THEN Rejected(t)
    ELSE LET u == IF Me \in Range(t.clients) THEN t ELSE WrongMsg(t)
         IN [Updated(u, l) EXCEPT !.start_button = Len(l.clients) >= 2]

OnStarting(t, l) ==
    IF t.client_state # "LOBBY" \/ l.turn \notin Range(t.clients) THEN Rejected(t)
    ELSE [t EXCEPT !.client_state = "GAME", !.scene = "game_frame",
                   !.word_len = l.len, !.word = {}, !.quess_entry = l.turn = Me]

OnCorrectQuess(t, l) ==
    IF t.client_state # "GAME" \/ ~(l.positions \subseteq 1..t.word_len) THEN Rejected(t)
    ELSE [t EXCEPT !.word = @ \cup l.positions]

OnBadQuess(t, l) ==
    IF t.client_state # "GAME" \/ ~({l.by, l.turn} \subseteq Range(t.clients)) THEN Rejected(t)
    ELSE [t EXCEPT !.quess_entry = l.turn = Me]

OnWinner(t) ==
    IF t.client_state # "GAME" THEN Rejected(t)
    ELSE [t EXCEPT !.client_state = "LOBBY", !.scene = "lobby_frame"]

\* Here the player's own name is looked for in the new list.
OnGameUpdate(t, l) ==
    IF t.client_state # "GAME" \/ HasStranger(t, l) THEN Rejected(t)
    ELSE LET u == IF Me \in Range(l.clients) THEN t ELSE WrongMsg(t)
         IN [Updated(u, l) EXCEPT !.quess_entry = l.turn = Me]

\* RECONNECT is taken in every state.
OnReconnect(t, l) ==
    [NewGame(t) EXCEPT !.client_state = l.state,
                       !.scene = IF l.state = "GAME" THEN "game_frame" ELSE "lobby_frame"]

OnQuessed(t, l) == [t EXCEPT !.word_len = l.len, !.word = l.positions]

\* A line of no kind, such as the rest of one that was cut.
OnUnknown(t) ==
    LET u == WrongMsg(t)
    IN  IF u.client_state = "UNLOGGED" THEN [Disconnect(u) EXCEPT !.lines = <<>>]
        ELSE IF u.number_of_wrong_msg >= WrongMsgLimit THEN Disconnect(u) ELSE u

\* Every line but PING, whose answer may fail.
Handled(t, l) ==
    CASE l.type = "ACCEPT|1"     -> OnAccept1(t)
      [] l.type = "ERROR|1"      -> Disconnect(t)
      [] l.type = "ERROR"        -> t
      [] l.type = "ACCEPT|2"     -> OnAccept2(t)
      [] l.type = "LOBBYUPDATE"  -> OnLobbyUpdate(t, l)
      [] l.type = "STARTING"     -> OnStarting(t, l)
      [] l.type = "CORRECTQUESS" -> OnCorrectQuess(t, l)
      [] l.type = "BADQUESS"     -> OnBadQuess(t, l)
      [] l.type = "WINNER"       -> OnWinner(t)
      [] l.type = "GAMEUPDATE"   -> OnGameUpdate(t, l)
      [] l.type = "RECONNECT"    -> OnReconnect(t, l)
      [] l.type = "QUESSED"      -> OnQuessed(t, l)
      [] l.type = "REST"         -> OnUnknown(t)

-----------------------------------------------------------------------------
(* The window *)

\* The instructions the player can give: those of the buttons on the scene.
Pressable(t) ==
    CASE t.scene = "login_frame" -> {"CONNECT"}
      [] t.scene = "join_frame"  -> {"JOIN"}
      [] t.scene = "lobby_frame" -> IF t.start_button THEN {"START"} ELSE {}
      [] t.scene = "game_frame"  -> IF t.quess_entry THEN {"QUESS"} ELSE {}
      [] OTHER -> {}
=============================================================================

--------------------------------- MODULE Server ---------------------------------
(***************************************************************************)
(* The hangman server: Server::connectionHandlerer with the handlers of    *)
(* MessageHandler, over the sessions of ClientManager and the games of     *)
(* GameManager.                                                            *)
(*                                                                         *)
(* One thread polls all descriptors in turn and every PING_PERIOD seconds  *)
(* runs a ping round.  A handler runs to its end and closes no descriptor  *)
(* but its own, so any interleaving of handlers and ping rounds is one the *)
(* clients and the network can bring about.  What arrives on a descriptor  *)
(* is the clients' choice.  Time is left out: a ping round may come at any *)
(* point, since any client may be slow to answer.                          *)
(***************************************************************************)
EXTENDS ClientManager

CONSTANTS Game, Letter, WordPool, STARTING_HP, LOBBY_SIZE, NoGame

ASSUME GamesAssumption ==
    /\ NoGame \notin Game
    /\ WordPool # {} /\ WordPool \subseteq Seq(Letter) \ {<<>>}
    /\ STARTING_HP \in Nat \ {0}
    /\ LOBBY_SIZE \in Nat /\ LOBBY_SIZE >= 2

VARIABLES
    game, hp, players, client_on_turn, word, quessed_chars, found_chars,
    not_started_games, not_started_games_full, started_games, spinning,
    client_socks    \* Server::client_socks without the server's own socket

GM == INSTANCE GameManager

gameVars == <<client_state, game, hp, players, client_on_turn, word, quessed_chars,
              found_chars, not_started_games, not_started_games_full, started_games,
              spinning>>
vars == <<gameVars, sessionVars, client_socks>>

Init ==
    /\ GM!Init
    /\ SessionInit
    /\ client_socks = {}

-----------------------------------------------------------------------------
(* Losing a client *)

\* A plausible mistake, used by no action: tempDisconnect without FD_CLR.
TempDisconnectStillPolled(c) == ShortDisconnect({c}, client) /\ UNCHANGED <<gameVars, client_socks>>

\* Server::tempDisconnect: the descriptor is closed, the client keeps its seat.
TempDisconnect(c) ==
    /\ client_socks' = client_socks \ {client[c].socket}
    /\ ShortDisconnect({c}, client)
    /\ UNCHANGED gameVars

\* Server::tempDisconnect of the clients cs and then Server::disconnet of v, with
\* the session fields cl.  If the game of v has nobody alive to take the turn,
\* the thread hangs in between: v is out of its game but not deleted.
Disconnet(v, cs, cl) ==
    /\ GM!Leave(v)
    /\ client_socks' = client_socks \ {client[c].socket : c \in cs}
    /\ IF spinning' THEN ShortDisconnect(cs, cl) ELSE Delete(v, cs, cl)

\* What the handlers do to a client that breaks the protocol.
Kick(c, cl) == Disconnet(c, {c}, cl)

-----------------------------------------------------------------------------
(* Handlers: something arrived on a descriptor *)

\* The server's own socket: accept() returns a descriptor that is not open.
Accept(fd) ==
    /\ ~spinning
    /\ fd \notin client_socks
    /\ NewConnection(fd)
    /\ client_socks' = client_socks \cup {fd}
    /\ UNCHANGED gameVars

\* The client that a descriptor with input belongs to.
Reads(fd, c) == ~spinning /\ fd \in client_socks /\ GetClient(fd) = c

\* A plausible mistake, used by no action: the player who is back starts over.
LoginBackResets(fd, c, n) ==
    /\ Reads(fd, c)
    /\ client_state[c] = "UNLOGED"
    /\ LogBack(c, n)
    /\ client_state' = [client_state EXCEPT ![client_names[n]] = "LOGGED"]
    /\ UNCHANGED <<game, hp, players, client_on_turn, word, quessed_chars, found_chars,
                   not_started_games, not_started_games_full, started_games, spinning,
                   client_socks>>

\* LOGIN with a name that is free ...
LoginNew(fd, c, n) ==
    /\ Reads(fd, c)
    /\ LogNew(c, n)
    /\ GM!LogIn(c)
    /\ UNCHANGED client_socks

\* ... that belongs to a player who is offline: it is back on this descriptor ...
LoginBack(fd, c, n) ==
    /\ Reads(fd, c)
    /\ client_state[c] = "UNLOGED"
    /\ LogBack(c, n)
    /\ UNCHANGED <<gameVars, client_socks>>

\* ... that is in use online: handle_message returns -1.
LoginRefused(fd, c, n) ==
    /\ Reads(fd, c)
    /\ client_state[c] = "UNLOGED"
    /\ client_names[n] # NoClient
    /\ Online(client_names[n])
    /\ Kick(c, client)

Join(fd, c) ==
    /\ Reads(fd, c)
    /\ GM!JoinGame(c)
    /\ UNCHANGED <<sessionVars, client_socks>>

Start(fd, c) ==
    /\ Reads(fd, c)
    /\ GM!StartGame(c)
    /\ UNCHANGED <<sessionVars, client_socks>>

Quess(fd, c, ch) ==
    /\ Reads(fd, c)
    /\ GM!Quess(c, ch)
    /\ UNCHANGED <<sessionVars, client_socks>>

Pong(fd, c) ==
    /\ Reads(fd, c)
    /\ client' = [client EXCEPT ![c].didPingedBack = TRUE]
    /\ UNCHANGED <<gameVars, client_list, client_names, client_sockets, client_socks>>

\* A message that the state of the client or its format forbids.  Any client can
\* send one at any time: an unknown word, two messages read as one, START alone
\* in a lobby, a guess out of turn.
WrongMsg(fd, c) ==
    /\ Reads(fd, c)
    /\ LET counted == IncWrongMsg(c)
       IN IF counted[c].wrong_msgs >= MAX_WRONG_MSGS
          THEN Kick(c, counted)
          ELSE /\ client' = counted
               /\ UNCHANGED <<gameVars, client_list, client_names, client_sockets, client_socks>>

\* The peer closed the connection.  Who has a seat keeps it.
Eof(fd, c) ==
    /\ Reads(fd, c)
    /\ IF client_state[c] \in {"UNLOGED", "LOGGED"}
       THEN Kick(c, client)
       ELSE TempDisconnect(c)

-----------------------------------------------------------------------------
(* The ping round *)

\* The clients that this round disconnects.
Unreachable == {c \in Reached : LosesConnection(c)}

\* A plausible mistake, used by no action: the round closes sockets without FD_CLR.
PingAllStillPolled ==
    /\ ~spinning
    /\ \A c \in Connected : ~IsRemoved(c)
    /\ ShortDisconnect(Unreachable, AfterPing)
    /\ UNCHANGED <<gameVars, client_socks>>

\* Nobody is removed: all clients are counted and pinged.
PingAll ==
    /\ ~spinning
    /\ \A c \in Connected : ~IsRemoved(c)
    /\ ShortDisconnect(Unreachable, AfterPing)
    /\ client_socks' = client_socks \ {client[c].socket : c \in Unreachable}
    /\ UNCHANGED gameVars

\* The round ends with the first client it removes.
PingRemoves(v) ==
    /\ v \in Reached
    /\ IsRemoved(v)
    /\ Disconnet(v, Unreachable, AfterPing)

PingRound == PingAll \/ \E v \in Client : PingRemoves(v)

-----------------------------------------------------------------------------
Handle(fd, c) ==
    \/ \E n \in Name : LoginNew(fd, c, n) \/ LoginBack(fd, c, n) \/ LoginRefused(fd, c, n)
    \/ Join(fd, c)
    \/ Start(fd, c)
    \/ \E ch \in Letter : Quess(fd, c, ch)
    \/ Pong(fd, c)
    \/ WrongMsg(fd, c)
    \/ Eof(fd, c)

Spin == spinning /\ UNCHANGED vars

Next ==
    \/ \E fd \in Fd : Accept(fd)
    \/ \E fd \in Fd, c \in Client : Handle(fd, c)
    \/ PingRound
    \/ Spin

Spec == Init /\ [][Next]_vars

-----------------------------------------------------------------------------
SessionsTypeOK ==
    /\ client \in [Client -> ClientFields]
    /\ client_list \in Seq(Client)
    /\ client_names \in [Name -> Client \cup {NoClient}]
    /\ client_sockets \in [Fd -> Client \cup {NoClient}]
    /\ client_socks \subseteq Fd

\* The set select() polls, the map from descriptors to clients and the socket
\* of each client say the same thing: no descriptor is polled whose client is
\* gone (it would be skipped for ever), none is closed but still mapped, no two
\* clients share one.
SocketsAgree ==
    /\ client_socks = {fd \in Fd : client_sockets[fd] # NoClient}
    /\ \A fd \in Fd, c \in Client :
          client_sockets[fd] = c <=> c \in Connected /\ client[c].socket = fd

\* A name is in the map exactly while a client object carries it, and a client
\* that is past UNLOGED carries one: no name stays taken by a deleted client.
NamesAgree ==
    ~spinning =>
        /\ \A n \in Name, c \in Client :
              client_names[n] = c <=> c \in Connected /\ client[c].name = n
        /\ \A c \in Client : client[c].name = NoName <=> client_state[c] = "UNLOGED"

\* Only a player with a seat is kept while offline: it is what LOGIN can bring
\* back.  Any other offline object would hold its name and answer to nobody.
OfflineHasSeat ==
    \A c \in Connected :
        /\ ~Online(c) => client_state[c] \in Seated
        /\ Online(c) <=> client[c].socket # NoFd

\* The limits act in time: a client online has missed no ping, one that stays
\* has missed fewer than the limit and sent fewer wrong messages than the limit.
LimitsAreKept ==
    ~spinning =>
        \A c \in Connected :
            /\ Online(c) => client[c].missedPings = 0
            /\ client[c].missedPings < MISSED_PING_TO_FULL_DISCONNECT
            /\ client[c].wrong_msgs < MAX_WRONG_MSGS

\* Every player of every game is a client the server still knows, listed once:
\* gameUpdate, nextClient and announceWinner follow these pointers.
PlayersAreConnected ==
    /\ IsInjective(client_list)
    /\ \A g \in Game : GM!Members(g) \subseteq Connected

\* A name keeps its seat while it is taken: whoever holds it in two successive
\* states is the same object in the same game, or has moved by its own JOIN, and
\* an online holder is never moved to another connection.
NameKeepsItsSeat ==
    [][\A n \in Name :
        LET c == client_names[n] IN
        (c # NoClient /\ client_names[n]' # NoClient) =>
            /\ client_names[n]' = c
            /\ client_state[c] \in Seated => game[c]' = game[c]
            /\ Online(c) => client[c].socket' \in {client[c].socket, NoFd}]_vars

\* The wrong messages of a client stay counted while its name is taken: losing the
\* connection and coming back on another one forgets none, and only an online
\* client gets one more at a time.
WrongMsgsStayCounted ==
    [][\A n \in Name :
        LET c == client_names[n] IN
        (c # NoClient /\ client_names[n]' # NoClient) =>
            \/ client[c].wrong_msgs' = client[c].wrong_msgs
            \/ client[c].wrong_msgs' = client[c].wrong_msgs + 1 /\ Online(c)]_vars

\* The handlers and the ping round use the games only in the ways that
\* GameManager describes, so all that holds there holds here.
GamesSpec == GM!Spec

-----------------------------------------------------------------------------
(* A statement of the documentation that the code does not keep. *)

\* ups_doc.tex:376, the applications do not hang: the loop of Game::nextClient
\* always finds a player.
NeverHangs == ~spinning
=============================================================================

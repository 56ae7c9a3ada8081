------------------------------ MODULE ServerProofs ------------------------------
(***************************************************************************)
(* Proofs about Server: the sessions together with the games, for any      *)
(* number of clients, names, descriptors and games, and for any limits of  *)
(* wrong messages and missed pings.  The proofs about the games alone      *)
(* (GameManagerProofs) are used for the games of the server.               *)
(***************************************************************************)
EXTENDS Server, ListLemmas

\* The games of the server, with what is proved of them.
P == INSTANCE GameManagerProofs

-----------------------------------------------------------------------------
(* The inductive invariant *)

\* An object that is not in client_list is as the constructor leaves one.
UnusedIsFresh == \A c \in Client \ Connected : client[c] = FreshClient

\* What a step may do to the clients that carry a name before it and after it: it
\* is the same client, it stays in its game if it has a seat, it changes its
\* descriptor only by losing it, and its wrong messages stay counted.
NamesKept ==
    \A n \in Name, c \in Client :
        client_names[n] = c /\ client_names'[n] # NoClient =>
            /\ client_names'[n] = c
            /\ client_state[c] \in Seated => game'[c] = game[c]
            /\ Online(c) => client'[c].socket \in {client[c].socket, NoFd}
            /\ \/ client'[c].wrong_msgs = client[c].wrong_msgs
               \/ client'[c].wrong_msgs = client[c].wrong_msgs + 1 /\ Online(c)

IInv ==
    /\ P!IInv
    /\ SessionsTypeOK
    /\ SocketsAgree
    /\ NamesAgree
    /\ OfflineHasSeat
    /\ LimitsAreKept
    /\ PlayersAreConnected
    /\ UnusedIsFresh

-----------------------------------------------------------------------------
(* The games of the server are those of GameManager.  GM and P are two      *)
(* instances of the same definitions, so each lemma only expands both.      *)

\* The search in a list and the removal from it.
LEMMA SameLists ==
    /\ \A s, e : GM!Find(s, e) = P!Find(s, e) /\ GM!Without(s, e) = P!Without(s, e)
    /\ \A S : GM!Cardinality(S) = P!Cardinality(S)
BY DEF GM!Find, GM!Without, GM!Range, GM!RemoveAt, GM!Cardinality,
       P!Find, P!Without, P!Range, P!RemoveAt, P!Cardinality

\* Who is alive, whose turn is next, and what the handlers make of the states
\* and the life points.
LEMMA SameHelpers ==
    /\ \A ps, h : GM!Alive(ps, h) = P!Alive(ps, h)
    /\ \A ps, i, h : GM!NextClient(ps, i, h) = P!NextClient(ps, i, h)
    /\ \A g, ch : GM!Revealed(g, ch) = P!Revealed(g, ch)
    /\ \A ps : GM!Healed(ps) = P!Healed(ps)
    /\ \A ps, s : GM!SetStates(ps, s) = P!SetStates(ps, s)
    /\ \A c : GM!Hurt(c) = P!Hurt(c)
    /\ \A g, ps : GM!AnnounceWinner(g, ps) <=> P!AnnounceWinner(g, ps)
<1>1. \A ps, h : GM!Alive(ps, h) = P!Alive(ps, h)
  BY DEF GM!Alive, GM!IsAlive, GM!Range, P!Alive, P!IsAlive, P!Range
<1>2. \A ps, i, h : GM!NextClient(ps, i, h) = P!NextClient(ps, i, h)
  BY DEF GM!NextClient, GM!IsAlive, GM!Visited, P!NextClient, P!IsAlive, P!Visited
<1>3. \A g, ch : GM!Revealed(g, ch) = P!Revealed(g, ch)
  BY DEF GM!Revealed, GM!Positions, P!Revealed, P!Positions
<1>4. \A ps : GM!Healed(ps) = P!Healed(ps)
  BY DEF GM!Healed, GM!Range, P!Healed, P!Range
<1>5. \A ps, s : GM!SetStates(ps, s) = P!SetStates(ps, s)
  BY DEF GM!SetStates, GM!Range, P!SetStates, P!Range
<1>6. \A c : GM!Hurt(c) = P!Hurt(c)
  BY DEF GM!Hurt, P!Hurt
<1>7. \A g, ps : GM!AnnounceWinner(g, ps) <=> P!AnnounceWinner(g, ps)
  BY DEF GM!AnnounceWinner, P!AnnounceWinner
<1>. QED
  BY <1>1, <1>2, <1>3, <1>4, <1>5, <1>6, <1>7

\* LOGIN, JOIN and START.
LEMMA SameLobbySteps ==
    ASSUME NEW c
    PROVE  /\ GM!LogIn(c) => P!LogIn(c)
           /\ GM!JoinGame(c) => P!JoinGame(c)
           /\ GM!StartGame(c) => P!StartGame(c)
<1>1. GM!LogIn(c) => P!LogIn(c)
  BY DEF GM!LogIn, GM!roundVars, GM!listVars, P!LogIn, P!roundVars, P!listVars
<1>2. GM!JoinGame(c) => P!JoinGame(c)
  BY SameLists DEF GM!JoinGame, GM!JoinableGame, GM!AddClient, GM!Live, GM!roundVars,
                   P!JoinGame, P!JoinableGame, P!AddClient, P!Live, P!roundVars
<1>3. GM!StartGame(c) => P!StartGame(c)
  BY SameLists, SameHelpers DEF GM!StartGame, GM!GameStart, GM!RandomWords,
                                P!StartGame, P!GameStart, P!RandomWords
<1>. QED
  BY <1>1, <1>2, <1>3

\* QUESS.
LEMMA SameQuess ==
    ASSUME NEW c, NEW ch, GM!Quess(c, ch)
    PROVE  P!Quess(c, ch)
<1>1. GM!BadQuess(c, ch) => P!BadQuess(c, ch)
  BY SameLists, SameHelpers DEF GM!BadQuess, GM!MayQuess, GM!roundVars, GM!listVars,
                                P!BadQuess, P!MayQuess, P!roundVars, P!listVars
<1>2. GM!BadQuessSpins(c, ch) => P!BadQuessSpins(c, ch)
  BY SameHelpers DEF GM!BadQuessSpins, GM!MayQuess, GM!roundVars, GM!listVars,
                     P!BadQuessSpins, P!MayQuess, P!roundVars, P!listVars
<1>3. GM!GoodQuess(c, ch) => P!GoodQuess(c, ch)
  BY SameLists, SameHelpers DEF GM!GoodQuess, GM!MayQuess, GM!IsClientWinner, GM!listVars,
                                P!GoodQuess, P!MayQuess, P!IsClientWinner, P!listVars
<1>. QED
  BY <1>1, <1>2, <1>3 DEF GM!Quess, P!Quess

\* The game part of Server::disconnet.
LEMMA SameLeave ==
    ASSUME NEW c, GM!Leave(c)
    PROVE  P!Leave(c)
<1> USE SameLists, SameHelpers
        DEF GM!roundVars, GM!listVars, P!roundVars, P!listVars
<1>1. GM!LeaveUnseated(c) => P!LeaveUnseated(c)
  BY DEF GM!LeaveUnseated, P!LeaveUnseated
<1>2. GM!LeaveLobby(c) => P!LeaveLobby(c)
  BY DEF GM!LeaveLobby, P!LeaveLobby
<1>3. GM!LeaveGame(c) => P!LeaveGame(c)
  BY DEF GM!LeaveGame, GM!InGame, P!LeaveGame, P!InGame
<1>4. GM!LeaveSpins(c) => P!LeaveSpins(c)
  BY DEF GM!LeaveSpins, P!LeaveSpins
<1>. QED
  BY <1>1, <1>2, <1>3, <1>4 DEF GM!Leave, P!Leave

\* A step of the games keeps what is proved of them (GameManagerProofs).
LEMMA GamesKeepIInv ==
    ASSUME P!IInv, GM!Next \/ UNCHANGED gameVars
    PROVE  P!IInv'
<1>1. NoClient \notin Client
  BY NoneAssumption
<1>2. GM!Next => P!Next
  BY SameLobbySteps, SameQuess, SameLeave
     DEF GM!Next, GM!Spin, GM!vars, GM!roundVars, GM!listVars,
         P!Next, P!Spin, P!vars, P!roundVars, P!listVars
<1>3. UNCHANGED gameVars => UNCHANGED P!vars
  BY DEF gameVars, P!vars, P!roundVars, P!listVars
<1>. QED
  BY <1>1, <1>2, <1>3, GamesAssumption, P!NextIInv

\* At the start there are no games.
LEMMA GamesInitIInv ==
    ASSUME GM!Init
    PROVE  P!IInv
<1>1. P!Init
  BY DEF GM!Init, P!Init
<1>2. NoClient \notin Client
  BY NoneAssumption
<1>. QED
  BY <1>1, <1>2, GamesAssumption, P!InitIInv

\* What GameManagerProofs says of the seats, in the words of Server.
LEMMA Seats ==
    ASSUME P!IInv
    PROVE  /\ client_state \in [Client -> ClientState]
           /\ game \in [Client -> Game \cup {NoGame}]
           /\ players \in [Game -> Seq(Client)]
           /\ spinning \in BOOLEAN
           /\ ~spinning => \A c \in Client, g \in Game :
                 c \in Range(players[g]) <=> client_state[c] \in Seated /\ game[c] = g
BY DEF P!IInv, P!TypeOK, P!ClientState, ClientState, P!SeatsMatchStates, P!Members, P!Range,
       Range, P!Seated, P!InGame, Seated, InGame

\* What START and QUESS do to the seats.
LEMMA RoundSteps ==
    ASSUME P!IInv, NEW c \in Client,
           GM!StartGame(c) \/ \E ch \in Letter : GM!Quess(c, ch)
    PROVE  /\ ~spinning /\ client_state[c] \in Seated
           /\ game' = game /\ players' = players
           /\ \A d \in Client : \/ client_state[d]' = client_state[d]
                                \/ client_state[d] \in Seated /\ client_state[d]' \in Seated
<1>1. P!StartGame(c) \/ \E ch \in Letter : P!Quess(c, ch)
  BY SameLobbySteps, SameQuess
<1>2. NoClient \notin Client
  BY NoneAssumption
<1>3. Seated = P!Seated
  BY DEF Seated, InGame, P!Seated, P!InGame
<1>. QED
  BY <1>1, <1>2, <1>3, GamesAssumption, P!SeatsStay

\* What a departure does to the seats.
LEMMA LeaveSteps ==
    ASSUME P!IInv, NEW c \in Client, GM!Leave(c)
    PROVE  /\ ~spinning
           /\ \A g \in Game : Range(players[g]') \subseteq Range(players[g])
           /\ \A d \in Client \ {c} :
                 /\ game[d]' = game[d]
                 /\ \/ client_state[d]' = client_state[d]
                    \/ client_state[d] \in Seated /\ client_state[d]' \in Seated
           /\ spinning' => client_state[c] \in Seated /\ UNCHANGED <<client_state, game>>
           /\ ~spinning' => client_state[c]' = "UNLOGED"
<1>1. P!Leave(c)
  BY SameLeave
<1>2. NoClient \notin Client
  BY NoneAssumption
<1>3. Seated = P!Seated
  BY DEF Seated, InGame, P!Seated, P!InGame
<1>4. \A g : Range(g) = P!Range(g)
  BY DEF Range, P!Range
<1>. QED
  BY <1>1, <1>2, <1>3, <1>4, GamesAssumption, P!OneSeatLess

-----------------------------------------------------------------------------
(* Server uses the games only in the ways of GameManager. *)

\* Each handler and the ping round is one step of the games or leaves them alone.
LEMMA GamesStep ==
    ASSUME [Next]_vars
    PROVE  GM!Next \/ UNCHANGED gameVars
<1>1. ASSUME NEW v \in Client, NEW cs, NEW cl, Disconnet(v, cs, cl)
      PROVE  GM!Next
  BY <1>1 DEF Disconnet, GM!Next
<1>2. ASSUME NEW fd \in Fd, NEW c \in Client, Handle(fd, c)
      PROVE  GM!Next \/ UNCHANGED gameVars
  <2>1. ASSUME NEW n \in Name, LoginNew(fd, c, n) PROVE GM!Next
    BY <2>1 DEF LoginNew, GM!Next
  <2>2. ASSUME NEW n \in Name, LoginBack(fd, c, n) PROVE UNCHANGED gameVars
    BY <2>2 DEF LoginBack
  <2>3. ASSUME NEW n \in Name, LoginRefused(fd, c, n) PROVE GM!Next
    BY <2>3, <1>1 DEF LoginRefused, Kick
  <2>4. Join(fd, c) => GM!Next
    BY DEF Join, GM!Next
  <2>5. Start(fd, c) => GM!Next
    BY DEF Start, GM!Next
  <2>6. ASSUME NEW ch \in Letter, Quess(fd, c, ch) PROVE GM!Next
    BY <2>6 DEF Quess, GM!Next
  <2>7. Pong(fd, c) => UNCHANGED gameVars
    BY DEF Pong
  <2>8. WrongMsg(fd, c) => GM!Next \/ UNCHANGED gameVars
    BY <1>1 DEF WrongMsg, Kick
  <2>9. Eof(fd, c) => GM!Next \/ UNCHANGED gameVars
    BY <1>1 DEF Eof, Kick, TempDisconnect
  <2>. QED
    BY <1>2, <2>1, <2>2, <2>3, <2>4, <2>5, <2>6, <2>7, <2>8, <2>9 DEF Handle
<1>3. PingRound => GM!Next \/ UNCHANGED gameVars
  BY <1>1 DEF PingRound, PingAll, PingRemoves
<1>4. ASSUME NEW fd \in Fd, Accept(fd) PROVE UNCHANGED gameVars
  BY <1>4 DEF Accept
<1>5. Spin \/ UNCHANGED vars => UNCHANGED gameVars
  BY DEF Spin, vars
<1>. QED
  BY <1>2, <1>3, <1>4, <1>5 DEF Next

\* The server implements the games of GameManager: no handler and no ping round
\* does to a game what a handler of GameManager does not.
THEOREM ServerImplementsGames == Spec => GamesSpec
<1>1. Init => GM!Init
  BY DEF Init
<1>2. [Next]_vars => [GM!Next]_GM!vars
  BY GamesStep DEF gameVars, GM!vars, GM!roundVars, GM!listVars
<1>. QED
  BY <1>1, <1>2, PTL DEF Spec, GamesSpec, GM!Spec

-----------------------------------------------------------------------------
(* Lemmas about the fields of a session *)

\* The fields of a new object.
LEMMA FreshFields ==
    /\ FreshClient \in ClientFields
    /\ FreshClient.name = NoName /\ FreshClient.socket = NoFd
    /\ FreshClient.connection = "ONLINE"
    /\ FreshClient.wrong_msgs = 0 /\ FreshClient.missedPings = 0
BY LimitAssumption DEF FreshClient, ClientFields, ConnectionState

\* The fields a client can have, one by one.
LEMMA FieldTypes ==
    ASSUME NEW r \in ClientFields
    PROVE  /\ r.name \in Name \cup {NoName} /\ r.socket \in Fd \cup {NoFd}
           /\ r.connection \in {"ONLINE", "SHORT_OFFLNE"}
           /\ r.wrong_msgs \in 0..MAX_WRONG_MSGS /\ r.didPingedBack \in BOOLEAN
           /\ r.missedPings \in 0..MISSED_PING_TO_FULL_DISCONNECT
BY DEF ClientFields, ConnectionState

\* shortDisconnectClient changes the socket and the connection only.
LEMMA OfflineFields ==
    ASSUME NEW r \in ClientFields
    PROVE  /\ Offline(r) \in ClientFields
           /\ Offline(r).socket = NoFd /\ Offline(r).connection = "SHORT_OFFLNE"
           /\ Offline(r).name = r.name /\ Offline(r).wrong_msgs = r.wrong_msgs
           /\ Offline(r).missedPings = r.missedPings
BY DEF Offline, ClientFields, ConnectionState

\* The client that a descriptor with input belongs to is one the server knows,
\* and it is online.
LEMMA ReaderFacts ==
    ASSUME IInv, NEW fd \in Fd, NEW c \in Client, Reads(fd, c)
    PROVE  /\ ~spinning /\ c \in Connected /\ Online(c)
           /\ client[c].socket = fd /\ client_sockets[fd] = c
<1>1. ~spinning /\ client_sockets[fd] = c
  BY DEF Reads, GetClient
<1>2. c \in Connected /\ client[c].socket = fd
  BY <1>1 DEF IInv, SocketsAgree
<1>. QED
  BY <1>1, <1>2, NoneAssumption DEF IInv, OfflineHasSeat

\* The fields cl differ from those of the clients only in what is counted.
SameSessions(cl) ==
    /\ cl \in [Client -> ClientFields]
    /\ \A c \in Client : /\ cl[c].name = client[c].name
                         /\ cl[c].socket = client[c].socket
                         /\ cl[c].connection = client[c].connection
                         /\ \/ cl[c].wrong_msgs = client[c].wrong_msgs
                            \/ cl[c].wrong_msgs = client[c].wrong_msgs + 1 /\ Online(c)
    /\ \A c \in Client \ Connected : cl[c] = client[c]

\* With the fields cl the clients of S are within the limits, when those of cs
\* lose their connection.
WithinLimits(cl, cs, S) ==
    \A c \in S :
        /\ cl[c].wrong_msgs < MAX_WRONG_MSGS
        /\ cl[c].missedPings < MISSED_PING_TO_FULL_DISCONNECT
        /\ Online(c) /\ c \notin cs => cl[c].missedPings = 0

\* The fields the clients have now are such fields.
LEMMA OwnFields ==
    ASSUME IInv, ~spinning
    PROVE  SameSessions(client) /\ WithinLimits(client, {}, Connected)
BY DEF IInv, SessionsTypeOK, SameSessions, WithinLimits, LimitsAreKept

-----------------------------------------------------------------------------
(* Clients that lose the connection or are deleted *)

\* The clients cs lose the connection and those of gone are deleted: the
\* descriptors of exactly these are no longer polled and no longer mapped.
LEMMA SocketsAfterDrop ==
    ASSUME IInv, ~spinning,
           NEW cs \in SUBSET Connected, NEW gone \in SUBSET Connected,
           \A c \in cs : Online(c),
           \A c \in gone \ cs : ~Online(c),
           NEW cl, SameSessions(cl),
           client' = [c \in Client |-> IF c \in gone THEN FreshClient
                                       ELSE IF c \in cs THEN Offline(cl[c]) ELSE cl[c]],
           Range(client_list') = Connected \ gone,
           client_sockets' = Erase(client_sockets, {client[c].socket : c \in cs}),
           client_socks' = client_socks \ {client[c].socket : c \in cs}
    PROVE  /\ SocketsAgree'
           /\ client_sockets' \in [Fd -> Client \cup {NoClient}] /\ client_socks' \subseteq Fd
<1> USE DEF IInv
<1> DEFINE closed == {client[c].socket : c \in cs}
<1>1. /\ client_sockets \in [Fd -> Client \cup {NoClient}] /\ client_socks \subseteq Fd
      /\ client \in [Client -> ClientFields]
      /\ cs \subseteq Client /\ gone \subseteq Client /\ Connected \subseteq Client
  BY SeqFacts DEF SessionsTypeOK, Connected
<1>2. \A fd \in Fd : client_sockets'[fd] = IF fd \in closed THEN NoClient ELSE client_sockets[fd]
  BY <1>1 DEF Erase
<1>3. \A c \in Client : client'[c].socket =
          IF c \in gone \cup cs THEN NoFd ELSE client[c].socket
  BY <1>1, FreshFields, OfflineFields DEF SameSessions
<1>4. Connected' = Connected \ gone
  BY DEF Connected
<1>5. ASSUME NEW fd \in Fd, NEW c \in Client
      PROVE  client_sockets'[fd] = c <=> c \in Connected' /\ client'[c].socket = fd
  <2>1. client_sockets[fd] = c <=> c \in Connected /\ client[c].socket = fd
    BY DEF SocketsAgree
  <2>2. CASE fd \in closed
    <3>1. PICK d \in cs : client[d].socket = fd
      BY <2>2
    <3>2. client_sockets[fd] = d
      BY <1>1, <3>1 DEF SocketsAgree
    <3>3. client_sockets'[fd] # c
      BY <1>2, <2>2, NoneAssumption
    <3>4. c \in cs \/ ~(c \in Connected /\ client[c].socket = fd)
      BY <2>1, <3>1, <3>2
    <3>. QED
      BY <1>3, <1>4, <3>3, <3>4, NoneAssumption
  <2>3. CASE fd \notin closed
    <3>1. client_sockets'[fd] = client_sockets[fd]
      BY <1>2, <2>3
    <3>2. client[c].socket = fd => c \notin cs
      BY <2>3
    <3>3. c \in gone /\ c \notin cs => client[c].socket = NoFd
      BY DEF OfflineHasSeat
    <3>. QED
      BY <1>3, <1>4, <2>1, <3>1, <3>2, <3>3, NoneAssumption
  <2>. QED
    BY <2>2, <2>3
<1>6. client_socks' = {fd \in Fd : client_sockets'[fd] # NoClient}
  BY <1>1, <1>2 DEF SocketsAgree
<1>7. client_sockets' \in [Fd -> Client \cup {NoClient}]
  BY <1>1 DEF Erase
<1>. QED
  BY <1>1, <1>5, <1>6, <1>7 DEF SocketsAgree

\* Who stays behind offline has a seat, and who stays online a descriptor; the
\* objects that are left over are fresh.
LEMMA FieldsAfterDrop ==
    ASSUME IInv, ~spinning,
           NEW cs \in SUBSET Connected, NEW gone \in SUBSET Connected,
           \A c \in cs \ gone : client_state[c] \in Seated,
           \A c \in Client \ gone : client_state[c] \in Seated => client_state[c]' \in Seated,
           NEW cl, SameSessions(cl),
           client' = [c \in Client |-> IF c \in gone THEN FreshClient
                                       ELSE IF c \in cs THEN Offline(cl[c]) ELSE cl[c]],
           Range(client_list') = Connected \ gone
    PROVE  client' \in [Client -> ClientFields] /\ OfflineHasSeat' /\ UnusedIsFresh'
<1> USE DEF IInv
<1>1. /\ client \in [Client -> ClientFields]
      /\ cs \subseteq Client /\ gone \subseteq Client /\ Connected \subseteq Client
      /\ Connected' = Connected \ gone
  BY SeqFacts DEF SessionsTypeOK, Connected
<1>2. client' \in [Client -> ClientFields]
  BY <1>1, FreshFields, OfflineFields DEF SameSessions
<1>3. OfflineHasSeat'
  <2> SUFFICES ASSUME NEW c \in Connected \ gone
               PROVE  /\ ~Online(c)' => client_state[c]' \in Seated
                      /\ Online(c)' <=> client[c].socket' # NoFd
    BY <1>1 DEF OfflineHasSeat
  <2>1. CASE c \in cs
    <3>1. client'[c].connection = "SHORT_OFFLNE" /\ client'[c].socket = NoFd
      BY <1>1, <2>1, OfflineFields DEF SameSessions
    <3>. QED
      BY <1>1, <2>1, <3>1 DEF Online
  <2>2. CASE c \notin cs
    <3>1. client'[c].connection = client[c].connection /\ client'[c].socket = client[c].socket
      BY <1>1, <2>2 DEF SameSessions
    <3>. QED
      BY <1>1, <3>1 DEF Online, OfflineHasSeat
  <2>. QED
    BY <2>1, <2>2
<1>4. UnusedIsFresh'
  <2> SUFFICES ASSUME NEW c \in Client, c \notin Connected \ gone
               PROVE  client'[c] = FreshClient
    BY <1>1 DEF UnusedIsFresh
  <2>1. c \notin gone => c \notin cs /\ cl[c] = FreshClient
    BY DEF UnusedIsFresh, SameSessions
  <2>. QED
    BY <2>1
<1>. QED
  BY <1>2, <1>3, <1>4

\* The limits are kept by who stays; who loses the connection has missed its
\* first ping or was sent away earlier.
LEMMA LimitsAfterDrop ==
    ASSUME IInv, ~spinning,
           NEW cs \in SUBSET Connected, NEW gone \in SUBSET Connected,
           NEW cl, SameSessions(cl), WithinLimits(cl, cs, Connected \ gone),
           client' = [c \in Client |-> IF c \in gone THEN FreshClient
                                       ELSE IF c \in cs THEN Offline(cl[c]) ELSE cl[c]],
           Range(client_list') = Connected \ gone
    PROVE  LimitsAreKept'
<1> USE DEF IInv
<1>1. /\ client \in [Client -> ClientFields]
      /\ cs \subseteq Client /\ Connected \subseteq Client
      /\ Connected' = Connected \ gone
  BY SeqFacts DEF SessionsTypeOK, Connected
<1> SUFFICES ASSUME NEW c \in Connected \ gone
             PROVE  /\ Online(c)' => client[c].missedPings' = 0
                    /\ client[c].missedPings' < MISSED_PING_TO_FULL_DISCONNECT
                    /\ client[c].wrong_msgs' < MAX_WRONG_MSGS
  BY <1>1 DEF LimitsAreKept
<1>2. CASE c \in cs
  <2>1. /\ client'[c].connection = "SHORT_OFFLNE"
        /\ client'[c].missedPings = cl[c].missedPings
        /\ client'[c].wrong_msgs = cl[c].wrong_msgs
    BY <1>1, <1>2, OfflineFields DEF SameSessions
  <2>. QED
    BY <2>1 DEF WithinLimits, Online
<1>3. CASE c \notin cs
  <2>1. client'[c] = cl[c] /\ cl[c].connection = client[c].connection
    BY <1>1, <1>3 DEF SameSessions
  <2>. QED
    BY <1>3, <2>1 DEF WithinLimits, Online
<1>. QED
  BY <1>2, <1>3

\* Names: who stays keeps its own, and the map keeps it too.
LEMMA NamesAfterDrop ==
    ASSUME IInv, ~spinning,
           NEW cs \in SUBSET Connected, NEW gone \in SUBSET Connected,
           NEW cl, SameSessions(cl),
           client' = [c \in Client |-> IF c \in gone THEN FreshClient
                                       ELSE IF c \in cs THEN Offline(cl[c]) ELSE cl[c]],
           Range(client_list') = Connected \ gone,
           \A n \in Name : client_names'[n] = IF client_names[n] \in gone
                                              THEN NoClient ELSE client_names[n],
           \A c \in gone : client_state[c]' = "UNLOGED",
           \A c \in Client \ gone :
              client_state[c]' = "UNLOGED" <=> client_state[c] = "UNLOGED"
    PROVE  NamesAgree'
<1> USE DEF IInv
<1>1. /\ client \in [Client -> ClientFields]
      /\ cs \subseteq Client /\ gone \subseteq Client /\ Connected \subseteq Client
      /\ Connected' = Connected \ gone
  BY SeqFacts DEF SessionsTypeOK, Connected
<1>2. \A c \in Client : client'[c].name = IF c \in gone THEN NoName ELSE client[c].name
  BY <1>1, FreshFields, OfflineFields DEF SameSessions
<1>3. /\ \A n \in Name, c \in Client :
            client_names[n] = c <=> c \in Connected /\ client[c].name = n
      /\ \A c \in Client : client[c].name = NoName <=> client_state[c] = "UNLOGED"
  BY DEF NamesAgree
<1>4. ASSUME NEW n \in Name, NEW c \in Client
      PROVE  client_names'[n] = c <=> c \in Connected' /\ client'[c].name = n
  BY <1>1, <1>2, <1>3, NoneAssumption
<1>5. ASSUME NEW c \in Client
      PROVE  client'[c].name = NoName <=> client_state[c]' = "UNLOGED"
  BY <1>1, <1>2, <1>3
<1>. QED
  BY <1>4, <1>5 DEF NamesAgree

\* Who stays is the same client in the same game, with no other descriptor and
\* with its wrong messages.
LEMMA KeptAfterDrop ==
    ASSUME IInv, NEW cs \in SUBSET Connected, NEW gone \in SUBSET Connected,
           NEW cl, SameSessions(cl),
           client' = [c \in Client |-> IF c \in gone THEN FreshClient
                                       ELSE IF c \in cs THEN Offline(cl[c]) ELSE cl[c]],
           \A n \in Name : client_names'[n] = IF client_names[n] \in gone
                                              THEN NoClient ELSE client_names[n],
           \A c \in Client \ gone : game'[c] = game[c]
    PROVE  NamesKept
<1> SUFFICES ASSUME NEW n \in Name, NEW c \in Client,
                    client_names[n] = c, client_names'[n] # NoClient
             PROVE  /\ client_names'[n] = c
                    /\ game'[c] = game[c]
                    /\ client'[c].socket \in {client[c].socket, NoFd}
                    /\ \/ client'[c].wrong_msgs = client[c].wrong_msgs
                       \/ client'[c].wrong_msgs = client[c].wrong_msgs + 1 /\ Online(c)
  BY DEF NamesKept
<1>1. c \notin gone /\ client_names'[n] = c /\ game'[c] = game[c]
  OBVIOUS
<1>2. cl[c] \in ClientFields
  BY DEF SameSessions
<1>3. client'[c] = IF c \in cs THEN Offline(cl[c]) ELSE cl[c]
  BY <1>1
<1>4. /\ client'[c].socket = cl[c].socket \/ client'[c].socket = NoFd
      /\ client'[c].wrong_msgs = cl[c].wrong_msgs
  BY <1>2, <1>3, OfflineFields
<1>. QED
  BY <1>1, <1>4 DEF SameSessions

\* The players of the games are known to the server as long as the names are in
\* order: a player has a name, and an object that is not in the list has none.
LEMMA MembersConnected ==
    P!IInv /\ ~spinning /\ NamesAgree /\ UnusedIsFresh =>
        \A g \in Game : Range(players[g]) \subseteq Connected
<1> SUFFICES ASSUME P!IInv, ~spinning, NamesAgree, UnusedIsFresh,
                    NEW g \in Game, NEW c \in Range(players[g])
             PROVE  c \in Connected
  OBVIOUS
<1>1. c \in Client /\ client_state[c] # "UNLOGED"
  <2>1. players[g] \in Seq(Client)
    BY Seats
  <2>2. c \in Client
    BY <2>1, SeqFacts
  <2>3. client_state[c] \in Seated
    BY <2>2, Seats
  <2>. QED
    BY <2>2, <2>3 DEF Seated, InGame
<1>2. client[c].name # NoName
  BY <1>1 DEF NamesAgree
<1>. QED
  BY <1>1, <1>2, FreshFields DEF UnusedIsFresh

-----------------------------------------------------------------------------
(* The invariant, handler by handler *)

\* Nobody is deleted: the clients cs lose the connection, the others at most
\* have something counted.
LEMMA KeepAllStep ==
    ASSUME IInv, ~spinning,
           NEW cs \in SUBSET Connected,
           \A c \in cs : Online(c) /\ client_state[c] \in Seated,
           NEW cl, SameSessions(cl), WithinLimits(cl, cs, Connected),
           UNCHANGED <<gameVars, client_list, client_names>>,
           client' = [c \in Client |-> IF c \in cs THEN Offline(cl[c]) ELSE cl[c]],
           client_sockets' = Erase(client_sockets, {client[c].socket : c \in cs}),
           client_socks' = client_socks \ {client[c].socket : c \in cs}
    PROVE  IInv' /\ NamesKept
<1> USE DEF IInv
<1> DEFINE gone == {}
<1>1. P!IInv'
  BY GamesKeepIInv
<1>2. UNCHANGED <<client_state, players, spinning>>
  BY DEF gameVars
<1>3. /\ gone \in SUBSET Connected
      /\ client' = [c \in Client |-> IF c \in gone THEN FreshClient
                                     ELSE IF c \in cs THEN Offline(cl[c]) ELSE cl[c]]
      /\ Range(client_list') = Connected \ gone
      /\ WithinLimits(cl, cs, Connected \ gone)
  BY DEF Connected
<1>4. /\ SocketsAgree'
      /\ client_sockets' \in [Fd -> Client \cup {NoClient}] /\ client_socks' \subseteq Fd
  <2> HIDE DEF gone
  <2>1. \A c \in gone \ cs : ~Online(c)
    BY DEF gone
  <2>. QED
    BY <1>3, <2>1, SocketsAfterDrop
<1>5. client' \in [Client -> ClientFields] /\ OfflineHasSeat' /\ UnusedIsFresh'
  BY <1>2, <1>3, FieldsAfterDrop
<1>6. LimitsAreKept'
  BY <1>3, LimitsAfterDrop
<1>7. NamesAgree'
  BY <1>2, <1>3, NamesAfterDrop
<1>8. SessionsTypeOK'
  BY <1>4, <1>5 DEF SessionsTypeOK
<1>9. PlayersAreConnected'
  BY <1>2 DEF PlayersAreConnected, GM!Members, GM!Range, Connected
<1>10. NamesKept
  <2>1. game' = game /\ \A n \in Name : client_names'[n] = IF client_names[n] \in gone
                                                       THEN NoClient ELSE client_names[n]
    BY DEF gameVars
  <2> HIDE DEF gone
  <2>. QED
    BY <1>3, <2>1, KeptAfterDrop
<1>. QED
  BY <1>1, <1>4, <1>5, <1>6, <1>7, <1>8, <1>9, <1>10

\* Server::disconnet of the client v, with or without the end of it.
LEMMA DisconnetStep ==
    ASSUME IInv, ~spinning,
           NEW v \in Connected, NEW cs \in SUBSET Connected,
           \A c \in cs : Online(c),
           \A c \in cs \ {v} : client_state[c] \in Seated,
           v \in cs \/ ~Online(v),
           NEW cl, SameSessions(cl), WithinLimits(cl, cs, Connected \ {v}),
           Disconnet(v, cs, cl)
    PROVE  IInv' /\ NamesKept
<1> USE DEF IInv
<1>1. GM!Leave(v) /\ client_socks' = client_socks \ {client[c].socket : c \in cs}
  BY DEF Disconnet
<1>2. v \in Client /\ cs \subseteq Client /\ client_list \in Seq(Client) /\ IsInjective(client_list)
  BY SeqFacts DEF SessionsTypeOK, Connected, PlayersAreConnected
<1>3. P!IInv' /\ spinning' \in BOOLEAN
  BY <1>1, <1>2, GamesKeepIInv DEF GM!Next, P!IInv, P!TypeOK
<1>4. /\ \A g \in Game : Range(players[g]') \subseteq Range(players[g])
      /\ \A d \in Client \ {v} : \/ client_state[d]' = client_state[d]
                                 \/ client_state[d] \in Seated /\ client_state[d]' \in Seated
      /\ \A d \in Client \ {v} : game[d]' = game[d]
      /\ spinning' => client_state[v] \in Seated /\ UNCHANGED <<client_state, game>>
      /\ ~spinning' => client_state[v]' = "UNLOGED"
  BY <1>1, <1>2, LeaveSteps
<1>5. {cl[c].socket : c \in cs} = {client[c].socket : c \in cs}
  BY <1>2 DEF SameSessions
<1>6. \A g \in Game : Range(players[g]) \subseteq Connected
  BY MembersConnected
\* The thread hangs: v has lost its seat and nothing else has happened.
<1>7. CASE spinning'
  <2> DEFINE gone == {}
  <2>1. ShortDisconnect(cs, cl)
    BY <1>7 DEF Disconnet
  <2>2. /\ gone \in SUBSET Connected
        /\ client' = [c \in Client |-> IF c \in gone THEN FreshClient
                                       ELSE IF c \in cs THEN Offline(cl[c]) ELSE cl[c]]
        /\ client_sockets' = Erase(client_sockets, {client[c].socket : c \in cs})
        /\ client_list' = client_list /\ client_names' = client_names
        /\ Range(client_list') = Connected \ gone
    BY <1>5, <2>1 DEF ShortDisconnect, Connected
  <2>3. /\ SocketsAgree'
        /\ client_sockets' \in [Fd -> Client \cup {NoClient}] /\ client_socks' \subseteq Fd
    <3>1. \A c \in gone \ cs : ~Online(c)
      OBVIOUS
    <3> HIDE DEF gone
    <3>. QED
      BY <1>1, <2>2, <3>1, SocketsAfterDrop
  <2>4. client' \in [Client -> ClientFields] /\ OfflineHasSeat' /\ UnusedIsFresh'
    <3>1. /\ \A c \in cs \ gone : client_state[c] \in Seated
          /\ \A c \in Client \ gone : client_state[c] \in Seated => client_state[c]' \in Seated
      BY <1>4, <1>7
    <3> HIDE DEF gone
    <3>. QED
      BY <2>2, <3>1, FieldsAfterDrop
  <2>5. SessionsTypeOK'
    BY <2>2, <2>3, <2>4 DEF SessionsTypeOK
  <2>6. PlayersAreConnected'
    BY <1>2, <1>4, <1>6, <2>2 DEF PlayersAreConnected, GM!Members, GM!Range, Range, Connected
  <2>7. NamesKept
    <3>1. /\ \A n \in Name : client_names'[n] = IF client_names[n] \in gone
                                                THEN NoClient ELSE client_names[n]
          /\ \A d \in Client \ gone : game'[d] = game[d]
      BY <1>4, <1>7, <2>2
    <3> HIDE DEF gone
    <3>. QED
      BY <2>2, <3>1, KeptAfterDrop
  <2>. QED
    BY <1>3, <1>7, <2>3, <2>4, <2>5, <2>6, <2>7 DEF NamesAgree, LimitsAreKept
\* The object of v is deleted.
<1>8. CASE ~spinning'
  <2> DEFINE gone == {v}
  <2>1. Delete(v, cs, cl)
    BY <1>8 DEF Disconnet
  <2>2. client' = [c \in Client |-> IF c \in gone THEN FreshClient
                                    ELSE IF c \in cs THEN Offline(cl[c]) ELSE cl[c]]
    BY <2>1 DEF Delete
  <2>3. /\ client_list' \in Seq(Client) /\ IsInjective(client_list')
        /\ Range(client_list') = Connected \ gone
    BY <1>2, <2>1, WithoutRemoves DEF Delete, Connected
  <2>4. client_sockets' = Erase(client_sockets, {client[c].socket : c \in cs})
    BY <1>5, <2>1 DEF Delete
  <2>5. /\ \A n \in Name : client_names'[n] = IF client_names[n] \in gone
                                              THEN NoClient ELSE client_names[n]
        /\ client_names' \in [Name -> Client \cup {NoClient}]
    <3>1. \A n \in Name : client_names[n] = v <=> client[v].name = n
      BY <1>2 DEF NamesAgree
    <3>2. client_names \in [Name -> Client \cup {NoClient}]
      BY DEF SessionsTypeOK
    <3>3. CASE client_state[v] # "UNLOGED"
      <4>1. client_names' = Erase(client_names, {client[v].name})
        BY <1>2, <2>1, <3>3 DEF Delete, ReleasesName, SameSessions
      <4>. QED
        BY <3>1, <3>2, <4>1 DEF Erase
    <3>4. CASE client_state[v] = "UNLOGED"
      <4>1. client_names' = client_names /\ client[v].name = NoName
        BY <1>2, <2>1, <3>4 DEF Delete, ReleasesName, NamesAgree
      <4>. QED
        BY <3>1, <3>2, <4>1, NoneAssumption
    <3>. QED
      BY <3>3, <3>4
  <2>6. SocketsAgree'
        /\ client_sockets' \in [Fd -> Client \cup {NoClient}] /\ client_socks' \subseteq Fd
    <3>1. \A c \in gone \ cs : ~Online(c)
      OBVIOUS
    <3>2. gone \in SUBSET Connected
      OBVIOUS
    <3> HIDE DEF gone
    <3>. QED
      BY <1>1, <2>2, <2>3, <2>4, <3>1, <3>2, SocketsAfterDrop
  <2>7. client' \in [Client -> ClientFields] /\ OfflineHasSeat' /\ UnusedIsFresh'
    <3>1. /\ gone \in SUBSET Connected
          /\ \A c \in cs \ gone : client_state[c] \in Seated
          /\ \A c \in Client \ gone : client_state[c] \in Seated => client_state[c]' \in Seated
      BY <1>4
    <3> HIDE DEF gone
    <3>. QED
      BY <2>2, <2>3, <3>1, FieldsAfterDrop
  <2>8. LimitsAreKept'
    BY <2>2, <2>3, LimitsAfterDrop
  <2>9. NamesAgree'
    <3>1. \A c \in gone : client_state[c]' = "UNLOGED"
      BY <1>4, <1>8
    <3>2. \A c \in Client \ gone : client_state[c]' = "UNLOGED" <=> client_state[c] = "UNLOGED"
      BY <1>4 DEF Seated, InGame
    <3>3. gone \in SUBSET Connected
      OBVIOUS
    <3> HIDE DEF gone
    <3>. QED
      BY <2>2, <2>3, <2>5, <3>1, <3>2, <3>3, NamesAfterDrop
  <2>10. SessionsTypeOK'
    BY <2>3, <2>5, <2>6, <2>7 DEF SessionsTypeOK
  <2>11. PlayersAreConnected'
    <3>1. (\A g \in Game : Range(players[g]) \subseteq Connected)'
      BY <1>3, <1>8, <2>7, <2>9, MembersConnected, PTL
    <3>. QED
      BY <2>3, <3>1 DEF PlayersAreConnected, GM!Members, GM!Range, Range
  <2>12. NamesKept
    <3>1. gone \in SUBSET Connected /\ \A d \in Client \ gone : game'[d] = game[d]
      BY <1>4
    <3> HIDE DEF gone
    <3>. QED
      BY <2>2, <2>5, <3>1, KeptAfterDrop
  <2>. QED
    BY <1>3, <2>6, <2>7, <2>8, <2>9, <2>10, <2>11, <2>12
<1>. QED
  BY <1>3, <1>7, <1>8

\* The games move and the sessions stay: JOIN, START and QUESS.
LEMMA GamesOnlyStep ==
    ASSUME IInv, ~spinning, GM!Next, UNCHANGED <<sessionVars, client_socks>>,
           \A d \in Client : \/ client_state[d]' = client_state[d]
                             \/ client_state[d] # "UNLOGED" /\ client_state[d]' \in Seated,
           \A d \in Client : client_state[d] \in Seated => game'[d] = game[d],
           spinning' => players' = players
    PROVE  IInv' /\ NamesKept
<1> USE DEF IInv, sessionVars
<1>1. P!IInv' /\ spinning' \in BOOLEAN
  BY GamesKeepIInv DEF P!IInv, P!TypeOK
<1>2. SessionsTypeOK' /\ SocketsAgree' /\ LimitsAreKept' /\ UnusedIsFresh'
  BY DEF SessionsTypeOK, SocketsAgree, LimitsAreKept, UnusedIsFresh, Connected, Online
<1>3. OfflineHasSeat'
  BY SeqFacts DEF OfflineHasSeat, SessionsTypeOK, Connected, Online
<1>4. NamesAgree'
  BY DEF NamesAgree, Connected, Seated, InGame
<1>5. PlayersAreConnected'
  <2>1. CASE spinning'
    BY <2>1 DEF PlayersAreConnected, GM!Members, GM!Range, Connected
  <2>2. CASE ~spinning'
    <3>1. (\A g \in Game : Range(players[g]) \subseteq Connected)'
      BY <1>1, <1>2, <1>4, <2>2, MembersConnected, PTL
    <3>. QED
      BY <3>1 DEF PlayersAreConnected, GM!Members, GM!Range, Range, Connected
  <2>. QED
    BY <2>1, <2>2
<1>6. NamesKept
  BY DEF NamesKept
<1>. QED
  BY <1>1, <1>2, <1>3, <1>4, <1>5, <1>6

\* JOIN, START and QUESS.
LEMMA GameHandlersStep ==
    ASSUME IInv, NEW fd \in Fd, NEW c \in Client,
           Join(fd, c) \/ Start(fd, c) \/ \E ch \in Letter : Quess(fd, c, ch)
    PROVE  IInv' /\ NamesKept
<1> USE DEF IInv
<1>1. CASE Join(fd, c)
  <2>1. /\ ~spinning /\ GM!JoinGame(c) /\ GM!Next /\ UNCHANGED <<sessionVars, client_socks>>
        /\ client_state[c] = "LOGGED"
        /\ client_state' = [client_state EXCEPT ![c] = "LOBBY"]
        /\ spinning' = spinning
    BY <1>1 DEF Join, GM!JoinGame, GM!Next
  <2>2. \A d \in Client : \/ client_state[d]' = client_state[d]
                          \/ client_state[d] # "UNLOGED" /\ client_state[d]' \in Seated
    BY <2>1, Seats DEF Seated
  <2>3. \A d \in Client : client_state[d] \in Seated => game'[d] = game[d]
    BY <1>1, <2>1 DEF Join, GM!JoinGame, Seated, InGame
  <2>. QED
    BY <2>1, <2>2, <2>3, GamesOnlyStep
<1>2. CASE Start(fd, c) \/ \E ch \in Letter : Quess(fd, c, ch)
  <2>1. /\ GM!StartGame(c) \/ \E ch \in Letter : GM!Quess(c, ch)
        /\ GM!Next /\ UNCHANGED <<sessionVars, client_socks>>
    BY <1>2 DEF Start, Quess, GM!Next
  <2>2. /\ ~spinning /\ game' = game /\ players' = players
        /\ \A d \in Client : \/ client_state[d]' = client_state[d]
                             \/ client_state[d] \in Seated /\ client_state[d]' \in Seated
    BY <2>1, RoundSteps
  <2>3. \A d \in Client : \/ client_state[d]' = client_state[d]
                          \/ client_state[d] # "UNLOGED" /\ client_state[d]' \in Seated
    BY <2>2 DEF Seated, InGame
  <2>. QED
    BY <2>1, <2>2, <2>3, GamesOnlyStep
<1>. QED
  BY <1>1, <1>2

\* A new connection gets an object that nobody uses and a descriptor that is
\* not open.
LEMMA AcceptStep ==
    ASSUME IInv, NEW fd \in Fd, Accept(fd)
    PROVE  IInv' /\ NamesKept
<1> USE DEF IInv
<1>1. /\ ~spinning /\ fd \notin client_socks /\ UNCHANGED gameVars
      /\ client_socks' = client_socks \cup {fd}
  BY DEF Accept
<1>2. PICK c \in Client \ Connected :
        /\ client' = [client EXCEPT ![c] = [FreshClient EXCEPT !.socket = fd]]
        /\ client_list' = Append(client_list, c)
        /\ client_sockets' = Insert(client_sockets, fd, c)
        /\ client_names' = client_names
  BY DEF Accept, NewConnection
<1>3. P!IInv' /\ UNCHANGED <<client_state, players, spinning>>
  BY <1>1, GamesKeepIInv DEF gameVars
<1>4. /\ client \in [Client -> ClientFields] /\ client_list \in Seq(Client)
      /\ client_sockets \in [Fd -> Client \cup {NoClient}] /\ client_socks \subseteq Fd
      /\ Connected \subseteq Client
  BY SeqFacts DEF SessionsTypeOK, Connected
<1>5. /\ client_list' \in Seq(Client) /\ Connected' = Connected \cup {c}
      /\ IsInjective(client_list')
  BY <1>2, <1>4, AppendAdds DEF Connected, PlayersAreConnected
<1>6. client_sockets[fd] = NoClient
  BY <1>1, <1>4 DEF SocketsAgree
<1>7. client_sockets' = [client_sockets EXCEPT ![fd] = c]
  BY <1>2, <1>6 DEF Insert
<1>8. /\ client'[c] \in ClientFields
      /\ client'[c].name = NoName /\ client'[c].socket = fd /\ client'[c].connection = "ONLINE"
      /\ client'[c].wrong_msgs = 0 /\ client'[c].missedPings = 0
  <2>1. client'[c] = [FreshClient EXCEPT !.socket = fd]
    BY <1>2, <1>4
  <2>. QED
    BY <2>1, FreshFields DEF ClientFields, ConnectionState
<1>9. \A d \in Client : d # c => client'[d] = client[d]
  BY <1>2
<1>10. client_state[c] = "UNLOGED"
  BY <1>1, <1>2, FreshFields DEF UnusedIsFresh, NamesAgree
<1>11. SessionsTypeOK'
  <2>1. client' \in [Client -> ClientFields]
    BY <1>2, <1>4, <1>8
  <2>2. client_sockets' \in [Fd -> Client \cup {NoClient}]
    BY <1>4, <1>7
  <2>. QED
    BY <1>1, <1>2, <1>4, <1>5, <2>1, <2>2 DEF SessionsTypeOK
<1>12. SocketsAgree'
  <2>1. client_socks' = {f \in Fd : client_sockets'[f] # NoClient}
    BY <1>1, <1>4, <1>7, NoneAssumption DEF SocketsAgree
  <2>2. ASSUME NEW f \in Fd, NEW d \in Client
        PROVE  client_sockets'[f] = d <=> d \in Connected' /\ client'[d].socket = f
    <3>1. client_sockets[f] = d <=> d \in Connected /\ client[d].socket = f
      BY DEF SocketsAgree
    <3>2. CASE f = fd
      <4>1. client_sockets'[f] = c
        BY <1>4, <1>7, <3>2
      <4>2. d # c => ~(d \in Connected /\ client[d].socket = f)
        BY <1>6, <3>1, <3>2, NoneAssumption
      <4>. QED
        BY <1>5, <1>8, <1>9, <3>2, <4>1, <4>2
    <3>3. CASE f # fd
      <4>1. client_sockets'[f] = client_sockets[f]
        BY <1>4, <1>7, <3>3
      <4>. QED
        BY <1>2, <1>5, <1>8, <1>9, <3>1, <3>3, <4>1
    <3>. QED
      BY <3>2, <3>3
  <2>. QED
    BY <2>1, <2>2 DEF SocketsAgree
<1>13. NamesAgree'
  <2>1. \A n \in Name : client_names'[n] # c
    BY <1>1, <1>2 DEF NamesAgree
  <2>. QED
    BY <1>1, <1>2, <1>3, <1>5, <1>8, <1>9, <1>10, <2>1, NoneAssumption DEF NamesAgree
<1>14. OfflineHasSeat'
  BY <1>2, <1>3, <1>4, <1>5, <1>8, <1>9, NoneAssumption DEF OfflineHasSeat, Online
<1>15. LimitsAreKept'
  BY <1>1, <1>2, <1>4, <1>5, <1>8, <1>9, LimitAssumption DEF LimitsAreKept, Online
<1>16. PlayersAreConnected'
  BY <1>3, <1>5 DEF PlayersAreConnected, GM!Members, GM!Range
<1>17. UnusedIsFresh'
  BY <1>5, <1>9 DEF UnusedIsFresh
<1>18. NamesKept
  <2>1. game' = game /\ \A n \in Name : client_names[n] # c
    BY <1>1, <1>2 DEF gameVars, NamesAgree
  <2>. QED
    BY <1>2, <1>9, <2>1 DEF NamesKept
<1>. QED
  BY <1>3, <1>11, <1>12, <1>13, <1>14, <1>15, <1>16, <1>17, <1>18

\* LOGIN with a name nobody has: the client carries it from now on.
LEMMA LoginNewStep ==
    ASSUME IInv, NEW fd \in Fd, NEW c \in Client, NEW n \in Name, LoginNew(fd, c, n)
    PROVE  IInv' /\ NamesKept
<1> USE DEF IInv
<1>1. /\ ~spinning /\ c \in Connected /\ Online(c)
      /\ client[c].socket = fd /\ client_sockets[fd] = c
  BY ReaderFacts DEF LoginNew
<1>2. /\ client_names[n] = NoClient
      /\ client' = [client EXCEPT ![c].name = n]
      /\ client_names' = [client_names EXCEPT ![n] = c]
      /\ UNCHANGED <<client_list, client_sockets, client_socks>>
  BY DEF LoginNew, LogNew, Insert
<1>3. /\ client_state[c] = "UNLOGED"
      /\ client_state' = [client_state EXCEPT ![c] = "LOGGED"]
      /\ UNCHANGED <<players, spinning>>
      /\ GM!Next
  BY DEF LoginNew, GM!LogIn, GM!Next
<1>4. P!IInv' /\ client_state' = [client_state EXCEPT ![c] = "LOGGED"] /\ client_state \in [Client -> ClientState]
  BY <1>3, GamesKeepIInv, Seats
<1>5. /\ client \in [Client -> ClientFields] /\ client_names \in [Name -> Client \cup {NoClient}]
      /\ Connected \subseteq Client /\ Connected' = Connected
  BY <1>2, SeqFacts DEF SessionsTypeOK, Connected
<1>6. client'[c] = [client[c] EXCEPT !.name = n]
  BY <1>2, <1>5
<1>7. /\ client'[c] \in ClientFields /\ client'[c].name = n
      /\ client'[c].socket = client[c].socket /\ client'[c].connection = client[c].connection
      /\ client'[c].wrong_msgs = client[c].wrong_msgs
      /\ client'[c].missedPings = client[c].missedPings
  BY <1>5, <1>6 DEF ClientFields, ConnectionState
<1>8. \A d \in Client : d # c => client'[d] = client[d] /\ client_state'[d] = client_state[d]
  BY <1>2, <1>4
<1>9. client_state'[c] = "LOGGED" /\ client[c].name = NoName
  BY <1>1, <1>3, <1>4 DEF NamesAgree
<1>10. SessionsTypeOK'
  <2>1. client' \in [Client -> ClientFields]
    BY <1>2, <1>5, <1>7
  <2>2. client_names' \in [Name -> Client \cup {NoClient}]
    BY <1>2, <1>5
  <2>. QED
    BY <1>2, <2>1, <2>2 DEF SessionsTypeOK
<1>11. SocketsAgree'
  <2>1. \A d \in Client : client'[d].socket = client[d].socket
    BY <1>7, <1>8
  <2>. QED
    BY <1>2, <1>5, <2>1 DEF SocketsAgree
<1>12. NamesAgree'
  <2>1. ASSUME NEW m \in Name, NEW d \in Client
        PROVE  client_names'[m] = d <=> d \in Connected' /\ client'[d].name = m
    <3>1. client_names[m] = d <=> d \in Connected /\ client[d].name = m
      BY <1>1 DEF NamesAgree
    <3>2. client_names'[m] = IF m = n THEN c ELSE client_names[m]
      BY <1>2, <1>5
    <3>3. CASE d = c
      BY <1>1, <1>5, <1>7, <1>9, <3>1, <3>2, <3>3, NoneAssumption
    <3>4. CASE d # c
      BY <1>2, <1>5, <1>8, <3>1, <3>2, <3>4, NoneAssumption
    <3>. QED
      BY <3>3, <3>4
  <2>2. ASSUME NEW d \in Client
        PROVE  client'[d].name = NoName <=> client_state'[d] = "UNLOGED"
    BY <1>1, <1>7, <1>8, <1>9, NoneAssumption DEF NamesAgree
  <2>. QED
    BY <2>1, <2>2 DEF NamesAgree
<1>13. OfflineHasSeat'
  BY <1>1, <1>5, <1>7, <1>8 DEF OfflineHasSeat, Online
<1>14. LimitsAreKept'
  BY <1>1, <1>5, <1>7, <1>8 DEF LimitsAreKept, Online
<1>15. PlayersAreConnected'
  BY <1>2, <1>3, <1>5 DEF PlayersAreConnected, GM!Members, GM!Range
<1>16. UnusedIsFresh'
  BY <1>1, <1>5, <1>8 DEF UnusedIsFresh
<1>17. NamesKept
  <2>1. game' = game
    BY DEF LoginNew, GM!LogIn, GM!roundVars
  <2>2. \A m \in Name : client_names'[m] = IF m = n THEN c ELSE client_names[m]
    BY <1>2, <1>5
  <2>. QED
    BY <1>2, <1>7, <1>8, <2>1, <2>2, NoneAssumption DEF NamesKept
<1>. QED
  BY <1>4, <1>10, <1>11, <1>12, <1>13, <1>14, <1>15, <1>16, <1>17

\* LOGIN with the name of a player that is offline: the old object takes over the
\* descriptor, the new one is gone.
LEMMA LoginBackStep ==
    ASSUME IInv, NEW fd \in Fd, NEW c \in Client, NEW n \in Name, LoginBack(fd, c, n)
    PROVE  IInv' /\ NamesKept
<1> USE DEF IInv
<1>a. PICK old : old = client_names[n]
  OBVIOUS
<1>1. /\ ~spinning /\ c \in Connected /\ Online(c)
      /\ client[c].socket = fd /\ client_sockets[fd] = c
  BY ReaderFacts DEF LoginBack
<1>2. /\ old # NoClient /\ ~Online(old)
      /\ client_state[c] = "UNLOGED"
      /\ UNCHANGED <<gameVars, client_names, client_socks>>
      /\ client_list' = Without(client_list, c)
      /\ client_sockets' = Insert(Erase(client_sockets, {fd}), fd, old)
  BY <1>a, <1>1 DEF LoginBack, LogBack, MayReturn
<1>3. /\ client \in [Client -> ClientFields] /\ client_names \in [Name -> Client \cup {NoClient}]
      /\ client_sockets \in [Fd -> Client \cup {NoClient}]
      /\ client_list \in Seq(Client) /\ IsInjective(client_list) /\ Connected \subseteq Client
  BY SeqFacts DEF SessionsTypeOK, Connected, PlayersAreConnected
<1>4. /\ old \in Client /\ old \in Connected /\ client[old].name = n
      /\ client_state[old] \in Seated /\ old # c
      /\ client[old].socket = NoFd
  <2>1. old \in Client
    BY <1>a, <1>2, <1>3
  <2>2. old \in Connected /\ client[old].name = n
    BY <1>a, <1>1, <2>1 DEF NamesAgree
  <2>. QED
    BY <1>1, <1>2, <2>1, <2>2 DEF OfflineHasSeat
<1>5. client' = [client EXCEPT ![c] = FreshClient,
                               ![old] = [client[old] EXCEPT !.socket = fd,
                                             !.connection = "ONLINE",
                                             !.didPingedBack = TRUE, !.missedPings = 0]]
  BY <1>a, <1>1, <1>4 DEF LoginBack, LogBack
<1>6. P!IInv' /\ UNCHANGED <<client_state, players, spinning>>
  BY <1>2, GamesKeepIInv DEF gameVars
<1>7. /\ client_list' \in Seq(Client) /\ IsInjective(client_list')
      /\ Connected' = Connected \ {c}
  BY <1>2, <1>3, WithoutRemoves DEF Connected
<1>8. client'[c] = FreshClient /\ \A d \in Client : d # c /\ d # old => client'[d] = client[d]
  BY <1>3, <1>4, <1>5
<1>9. /\ client'[old] \in ClientFields /\ client'[old].name = n
      /\ client'[old].socket = fd /\ client'[old].connection = "ONLINE"
      /\ client'[old].wrong_msgs = client[old].wrong_msgs
      /\ client'[old].missedPings = 0
  <2>1. client'[old] = [client[old] EXCEPT !.socket = fd, !.connection = "ONLINE",
                                           !.didPingedBack = TRUE, !.missedPings = 0]
    BY <1>3, <1>4, <1>5
  <2>2. client[old] \in ClientFields /\ 0 \in 0..MISSED_PING_TO_FULL_DISCONNECT
    BY <1>3, <1>4, LimitAssumption
  <2>. QED
    BY <1>4, <2>1, <2>2 DEF ClientFields, ConnectionState
<1>10. client_sockets' = [client_sockets EXCEPT ![fd] = old]
  BY <1>2, <1>3 DEF Insert, Erase
<1>11. client[c].name = NoName
  BY <1>1, <1>2 DEF NamesAgree
<1>12. SessionsTypeOK'
  <2>1. client' \in [Client -> ClientFields]
    <3> DEFINE back == [client[old] EXCEPT !.socket = fd, !.connection = "ONLINE",
                                           !.didPingedBack = TRUE, !.missedPings = 0]
    <3>1. client' = [client EXCEPT ![c] = FreshClient, ![old] = back]
      BY <1>5
    <3>2. back \in ClientFields
      <4>1. client'[old] = back
        BY <1>3, <1>4, <3>1
      <4>. QED
        BY <1>9, <4>1
    <3> HIDE DEF back
    <3>. QED
      BY <1>3, <3>1, <3>2, FreshFields
  <2>2. client_sockets' \in [Fd -> Client \cup {NoClient}]
    BY <1>3, <1>4, <1>10
  <2>. QED
    BY <1>2, <1>7, <2>1, <2>2 DEF SessionsTypeOK
<1>13. SocketsAgree'
  <2>1. client_socks' = {f \in Fd : client_sockets'[f] # NoClient}
    <3>1. client_socks' = {f \in Fd : client_sockets[f] # NoClient}
      BY <1>2 DEF SocketsAgree
    <3>2. client_sockets[fd] # NoClient /\ old # NoClient
      BY <1>1, <1>2, NoneAssumption
    <3>3. \A f \in Fd : client_sockets'[f] = IF f = fd THEN old ELSE client_sockets[f]
      BY <1>3, <1>10
    <3>. QED
      BY <3>1, <3>2, <3>3
  <2>2. ASSUME NEW f \in Fd, NEW d \in Client
        PROVE  client_sockets'[f] = d <=> d \in Connected' /\ client'[d].socket = f
    <3>1. client_sockets[f] = d <=> d \in Connected /\ client[d].socket = f
      BY DEF SocketsAgree
    <3>2. client_sockets'[f] = IF f = fd THEN old ELSE client_sockets[f]
      BY <1>3, <1>10
    <3>3. CASE d = c
      BY <1>1, <1>4, <1>7, <3>1, <3>2, <3>3
    <3>4. CASE d = old
      BY <1>4, <1>7, <1>9, <3>1, <3>2, <3>4, NoneAssumption
    <3>5. CASE d # c /\ d # old
      BY <1>1, <1>7, <1>8, <3>1, <3>2, <3>5
    <3>. QED
      BY <3>3, <3>4, <3>5
  <2>. QED
    BY <2>1, <2>2 DEF SocketsAgree
<1>14. NamesAgree'
  <2>1. ASSUME NEW m \in Name, NEW d \in Client
        PROVE  client_names'[m] = d <=> d \in Connected' /\ client'[d].name = m
    <3>1. client_names[m] = d <=> d \in Connected /\ client[d].name = m
      BY <1>1 DEF NamesAgree
    <3>. QED
      BY <1>2, <1>4, <1>7, <1>8, <1>9, <1>11, <3>1, NoneAssumption
  <2>2. ASSUME NEW d \in Client
        PROVE  client'[d].name = NoName <=> client_state'[d] = "UNLOGED"
    BY <1>1, <1>2, <1>4, <1>6, <1>8, <1>9, FreshFields, NoneAssumption DEF NamesAgree
  <2>. QED
    BY <2>1, <2>2 DEF NamesAgree
<1>15. OfflineHasSeat'
  BY <1>3, <1>4, <1>6, <1>7, <1>8, <1>9, NoneAssumption DEF OfflineHasSeat, Online
<1>16. LimitsAreKept'
  BY <1>1, <1>3, <1>4, <1>7, <1>8, <1>9, LimitAssumption DEF LimitsAreKept, Online
<1>17. UnusedIsFresh'
  BY <1>4, <1>7, <1>8 DEF UnusedIsFresh
<1>18. PlayersAreConnected'
  <2>0. P!IInv' /\ ~spinning'
    BY <1>1, <1>6
  <2>1. (\A g \in Game : Range(players[g]) \subseteq Connected)'
    BY <2>0, <1>14, <1>17, MembersConnected, PTL
  <2>. QED
    BY <1>7, <2>1 DEF PlayersAreConnected, GM!Members, GM!Range, Range
<1>19. NamesKept
  <2>1. game' = game
    BY <1>2 DEF gameVars
  <2>2. \A m \in Name : client_names[m] # c
    BY <1>1, <1>11, NoneAssumption DEF NamesAgree
  <2>. QED
    BY <1>2, <1>8, <1>9, <2>1, <2>2 DEF NamesKept
<1>. QED
  BY <1>6, <1>12, <1>13, <1>14, <1>15, <1>16, <1>17, <1>18, <1>19

\* Server::disconnet of a client whose message is being handled, with the fields
\* it has or with one more wrong message.
LEMMA KickStep ==
    ASSUME IInv, NEW fd \in Fd, NEW c \in Client, Reads(fd, c),
           NEW cl, SameSessions(cl), \A d \in Client \ {c} : cl[d] = client[d],
           Kick(c, cl)
    PROVE  IInv' /\ NamesKept
<1>1. ~spinning /\ c \in Connected /\ Online(c)
  BY ReaderFacts
<1>2. Connected \subseteq Client
  BY SeqFacts DEF IInv, SessionsTypeOK, Connected
<1>3. WithinLimits(cl, {c}, Connected \ {c})
  BY <1>1, <1>2, OwnFields DEF WithinLimits
<1>4. PICK cs : cs = {c}
  OBVIOUS
<1>5. WithinLimits(cl, cs, Connected \ {c}) /\ Disconnet(c, cs, cl)
  BY <1>3, <1>4 DEF Kick
<1>6. /\ cs \in SUBSET Connected /\ c \in cs
      /\ \A d \in cs : Online(d)
      /\ \A d \in cs \ {c} : client_state[d] \in Seated
  BY <1>1, <1>4
<1>. QED
  BY <1>1, <1>5, <1>6, DisconnetStep

\* A message that changes only what is counted of its sender.
LEMMA CountedStep ==
    ASSUME IInv, NEW fd \in Fd, NEW c \in Client, Reads(fd, c),
           NEW cl, SameSessions(cl), WithinLimits(cl, {}, Connected),
           client' = [d \in Client |-> cl[d]],
           UNCHANGED <<gameVars, client_list, client_names>>,
           UNCHANGED <<client_sockets, client_socks>>
    PROVE  IInv' /\ NamesKept
<1>1. ~spinning
  BY DEF Reads
<1>2. PICK cs : cs = {}
  OBVIOUS
<1>3. /\ cs \in SUBSET Connected
      /\ \A d \in cs : Online(d) /\ client_state[d] \in Seated
      /\ WithinLimits(cl, cs, Connected)
  BY <1>2
<1>4. {client[d].socket : d \in cs} = {}
  BY <1>2
<1>5. client' = [d \in Client |-> IF d \in cs THEN Offline(cl[d]) ELSE cl[d]]
  BY <1>2
<1>6. client_sockets' = Erase(client_sockets, {client[d].socket : d \in cs})
  BY <1>4 DEF IInv, SessionsTypeOK, Erase
<1>7. client_socks' = client_socks \ {client[d].socket : d \in cs}
  BY <1>4
<1>. QED
  BY <1>1, <1>3, <1>5, <1>6, <1>7, KeepAllStep, Zenon

\* LOGIN with the name of a player who is online.
LEMMA LoginRefusedStep ==
    ASSUME IInv, NEW fd \in Fd, NEW c \in Client, NEW n \in Name, LoginRefused(fd, c, n)
    PROVE  IInv' /\ NamesKept
<1>1. PICK cl : cl = client
  OBVIOUS
<1>2. Reads(fd, c) /\ Kick(c, cl)
  BY <1>1 DEF LoginRefused
<1>3. SameSessions(cl)
  BY <1>1, <1>2, ReaderFacts, OwnFields
<1>. QED
  BY <1>1, <1>2, <1>3, KickStep

\* PONG.
LEMMA PongStep ==
    ASSUME IInv, NEW fd \in Fd, NEW c \in Client, Pong(fd, c)
    PROVE  IInv' /\ NamesKept
<1>1. PICK cl : cl = client'
  OBVIOUS
<1>2. /\ Reads(fd, c) /\ cl = [client EXCEPT ![c].didPingedBack = TRUE]
      /\ UNCHANGED <<gameVars, client_list, client_names, client_sockets, client_socks>>
  BY <1>1 DEF Pong
<1>3. /\ SameSessions(client) /\ WithinLimits(client, {}, Connected)
      /\ client \in [Client -> ClientFields] /\ c \in Connected
  BY <1>2, ReaderFacts, OwnFields DEF SameSessions
<1>4. cl[c] = [client[c] EXCEPT !.didPingedBack = TRUE]
  BY <1>2, <1>3
<1>5. /\ cl[c] \in ClientFields
      /\ cl[c].name = client[c].name /\ cl[c].socket = client[c].socket
      /\ cl[c].connection = client[c].connection
      /\ cl[c].wrong_msgs = client[c].wrong_msgs /\ cl[c].missedPings = client[c].missedPings
  BY <1>3, <1>4 DEF ClientFields
<1>6. \A d \in Client : d # c => cl[d] = client[d]
  BY <1>2
<1>7. SameSessions(cl)
  <2>1. cl \in [Client -> ClientFields]
    BY <1>2, <1>3, <1>5
  <2>. QED
    BY <1>3, <1>5, <1>6, <2>1 DEF SameSessions
<1>8. WithinLimits(cl, {}, Connected)
  <2>1. Connected \subseteq Client
    BY SeqFacts DEF IInv, SessionsTypeOK, Connected
  <2>. QED
    BY <1>3, <1>5, <1>6, <2>1 DEF WithinLimits
<1>9. /\ client' = [d \in Client |-> cl[d]]
      /\ UNCHANGED <<gameVars, client_list, client_names>>
      /\ UNCHANGED <<client_sockets, client_socks>>
  BY <1>1, <1>2, <1>7 DEF SameSessions
<1>10. Reads(fd, c)
  BY <1>2
<1>. QED
  BY <1>7, <1>8, <1>9, <1>10, CountedStep

\* A message that is not allowed is counted, and the last one is the end.
LEMMA WrongMsgStep ==
    ASSUME IInv, NEW fd \in Fd, NEW c \in Client, WrongMsg(fd, c)
    PROVE  IInv' /\ NamesKept
<1>1. PICK cl : cl = IncWrongMsg(c)
  OBVIOUS
<1>2. /\ Reads(fd, c)
      /\ IF cl[c].wrong_msgs >= MAX_WRONG_MSGS
         THEN Kick(c, cl)
         ELSE /\ client' = cl
              /\ UNCHANGED <<gameVars, client_list, client_names, client_sockets, client_socks>>
  BY <1>1 DEF WrongMsg
<1>3. /\ SameSessions(client) /\ WithinLimits(client, {}, Connected)
      /\ client \in [Client -> ClientFields] /\ c \in Connected /\ Online(c)
  BY <1>2, ReaderFacts, OwnFields DEF SameSessions
<1>4. cl[c] = [client[c] EXCEPT !.wrong_msgs = client[c].wrong_msgs + 1]
  BY <1>1, <1>3 DEF IncWrongMsg
<1>5. client[c].wrong_msgs \in 0..MAX_WRONG_MSGS /\ client[c].wrong_msgs < MAX_WRONG_MSGS
  BY <1>3, FieldTypes DEF WithinLimits
<1>6. client[c].wrong_msgs + 1 \in 0..MAX_WRONG_MSGS
  BY <1>5, LimitAssumption
<1>7. /\ cl[c] \in ClientFields
      /\ cl[c].name = client[c].name /\ cl[c].socket = client[c].socket
      /\ cl[c].connection = client[c].connection /\ cl[c].missedPings = client[c].missedPings
      /\ cl[c].wrong_msgs = client[c].wrong_msgs + 1
  BY <1>3, <1>4, <1>6 DEF ClientFields
<1>8. \A d \in Client : d # c => cl[d] = client[d]
  BY <1>1 DEF IncWrongMsg
<1>9. SameSessions(cl)
  <2>1. cl \in [Client -> ClientFields]
    BY <1>1, <1>3, <1>7 DEF IncWrongMsg
  <2>. QED
    BY <1>3, <1>7, <1>8, <2>1 DEF SameSessions
<1>10. CASE cl[c].wrong_msgs >= MAX_WRONG_MSGS
  BY <1>2, <1>8, <1>9, <1>10, KickStep
<1>11. CASE ~(cl[c].wrong_msgs >= MAX_WRONG_MSGS)
  <2>1. cl[c].wrong_msgs < MAX_WRONG_MSGS
    BY <1>7, <1>11, FieldTypes, LimitAssumption
  <2>2. Connected \subseteq Client
    BY SeqFacts DEF IInv, SessionsTypeOK, Connected
  <2>3. WithinLimits(cl, {}, Connected)
    BY <1>3, <1>7, <1>8, <2>1, <2>2 DEF WithinLimits
  <2>4. /\ client' = [d \in Client |-> cl[d]]
        /\ UNCHANGED <<gameVars, client_list, client_names>>
        /\ UNCHANGED <<client_sockets, client_socks>>
    BY <1>2, <1>9, <1>11 DEF SameSessions
  <2>. QED
    BY <1>2, <1>9, <2>3, <2>4, CountedStep
<1>. QED
  BY <1>10, <1>11

\* The connection is closed: who has a seat keeps it.
LEMMA EofStep ==
    ASSUME IInv, NEW fd \in Fd, NEW c \in Client, Eof(fd, c)
    PROVE  IInv' /\ NamesKept
<1>1. PICK cl : cl = client
  OBVIOUS
<1>2. /\ Reads(fd, c) /\ ~spinning /\ c \in Connected /\ Online(c)
      /\ SameSessions(cl) /\ WithinLimits(cl, {}, Connected)
  BY <1>1, ReaderFacts, OwnFields DEF Eof
<1>3. CASE client_state[c] \in {"UNLOGED", "LOGGED"}
  <2>1. Kick(c, cl)
    BY <1>1, <1>3 DEF Eof
  <2>. QED
    BY <1>1, <1>2, <2>1, KickStep
<1>4. CASE client_state[c] \notin {"UNLOGED", "LOGGED"}
  <2> DEFINE cs == {c}
  <2>1. client_state[c] \in Seated
    BY <1>4, Seats DEF IInv, ClientState, Seated, InGame
  <2>2. TempDisconnect(c)
    BY <1>4 DEF Eof
  <2>3. /\ {cl[d].socket : d \in cs} = {client[c].socket}
        /\ {client[d].socket : d \in cs} = {client[c].socket}
    BY <1>1
  <2>4. /\ cs \in SUBSET Connected
        /\ \A d \in cs : Online(d) /\ client_state[d] \in Seated
        /\ WithinLimits(cl, cs, Connected)
    BY <1>2, <2>1 DEF WithinLimits
  <2>5. ShortDisconnect(cs, cl)
    BY <1>1, <2>2 DEF TempDisconnect
  <2> HIDE DEF cs
  <2>6. /\ client' = [d \in Client |-> IF d \in cs THEN Offline(cl[d]) ELSE cl[d]]
        /\ client_sockets' = Erase(client_sockets, {client[d].socket : d \in cs})
        /\ client_socks' = client_socks \ {client[d].socket : d \in cs}
        /\ UNCHANGED <<gameVars, client_list, client_names>>
    BY <2>2, <2>3, <2>5 DEF ShortDisconnect, TempDisconnect
  <2>. QED
    BY <1>2, <2>4, <2>6, KeepAllStep
<1>. QED
  BY <1>3, <1>4

-----------------------------------------------------------------------------
(* The ping round *)

\* What the round counts of a client, and the next PING it sends it.
LEMMA CountedFields ==
    ASSUME IInv, ~spinning, NEW c \in Connected
    PROVE  /\ c \in Client /\ client[c] \in ClientFields /\ Counted(c) \in ClientFields
           /\ Counted(c).name = client[c].name /\ Counted(c).socket = client[c].socket
           /\ Counted(c).connection = client[c].connection
           /\ Counted(c).wrong_msgs = client[c].wrong_msgs
           /\ Counted(c).missedPings = IF Missed(c) THEN client[c].missedPings + 1 ELSE 0
<1>1. c \in Client /\ client[c] \in ClientFields
  BY SeqFacts DEF IInv, SessionsTypeOK, Connected
<1>2. /\ client[c].missedPings \in 0..MISSED_PING_TO_FULL_DISCONNECT
      /\ client[c].missedPings < MISSED_PING_TO_FULL_DISCONNECT
  BY <1>1, FieldTypes DEF IInv, LimitsAreKept
<1> DEFINE n == IF Missed(c) THEN client[c].missedPings + 1 ELSE 0
<1>3. n \in 0..MISSED_PING_TO_FULL_DISCONNECT
  BY <1>2, LimitAssumption
<1>4. Counted(c) = [client[c] EXCEPT !.missedPings = n]
  BY DEF Counted
<1> HIDE DEF n
<1>5. /\ Counted(c) \in ClientFields
      /\ Counted(c).name = client[c].name /\ Counted(c).socket = client[c].socket
      /\ Counted(c).connection = client[c].connection
      /\ Counted(c).wrong_msgs = client[c].wrong_msgs /\ Counted(c).missedPings = n
  BY <1>1, <1>3, <1>4 DEF ClientFields
<1>. QED
  BY <1>1, <1>5 DEF n

\* Sending a PING changes nothing else.
LEMMA PingedFields ==
    ASSUME NEW r \in ClientFields
    PROVE  LET s == [r EXCEPT !.didPingedBack = FALSE]
           IN  /\ s \in ClientFields
               /\ s.name = r.name /\ s.socket = r.socket /\ s.connection = r.connection
               /\ s.wrong_msgs = r.wrong_msgs /\ s.missedPings = r.missedPings
BY DEF ClientFields

\* The round reaches only clients of the list, and at most the last one it
\* reaches is removed.
LEMMA ReachedFacts ==
    ASSUME IInv
    PROVE  /\ Reached \subseteq Connected
           /\ \A u, v \in Reached : IsRemoved(u) /\ IsRemoved(v) => u = v
<1>1. client_list \in Seq(Client)
  BY DEF IInv, SessionsTypeOK
<1>2. DOMAIN client_list = 1..Len(client_list) /\ Len(client_list) \in Nat
  BY <1>1
<1>3. Reached \subseteq Connected
  BY DEF Reached, Connected, Range
<1>4. ASSUME NEW u \in Reached, NEW v \in Reached, IsRemoved(u), IsRemoved(v)
      PROVE  u = v
  <2>1. PICK i \in DOMAIN client_list :
           u = client_list[i] /\ \A j \in 1..(i - 1) : ~IsRemoved(client_list[j])
    BY DEF Reached
  <2>2. PICK k \in DOMAIN client_list :
           v = client_list[k] /\ \A j \in 1..(k - 1) : ~IsRemoved(client_list[j])
    BY DEF Reached
  <2>3. i \notin 1..(k - 1) /\ k \notin 1..(i - 1)
    BY <1>4, <2>1, <2>2
  <2>4. i = k
    BY <1>2, <2>3
  <2>. QED
    BY <2>1, <2>2, <2>4
<1>. QED
  BY <1>3, <1>4

\* The fields after the round are those of the same clients, and nobody who stays
\* is over a limit.
LEMMA AfterPingFacts ==
    ASSUME IInv, ~spinning
    PROVE  /\ SameSessions(AfterPing)
           /\ \A S \in SUBSET Connected :
                 (\A c \in S \cap Reached : ~IsRemoved(c)) =>
                     WithinLimits(AfterPing, Unreachable, S)
<1>1. Reached \subseteq Connected /\ Connected \subseteq Client
  BY ReachedFacts, SeqFacts DEF IInv, SessionsTypeOK, Connected
<1>2. client \in [Client -> ClientFields]
  BY DEF IInv, SessionsTypeOK
<1>3. ASSUME NEW c \in Reached
      PROVE  /\ AfterPing[c] \in ClientFields
             /\ AfterPing[c].name = client[c].name /\ AfterPing[c].socket = client[c].socket
             /\ AfterPing[c].connection = client[c].connection
             /\ AfterPing[c].wrong_msgs = client[c].wrong_msgs
             /\ AfterPing[c].missedPings = IF Missed(c) THEN client[c].missedPings + 1 ELSE 0
  <2>1. AfterPing[c] = Counted(c) \/ AfterPing[c] = [Counted(c) EXCEPT !.didPingedBack = FALSE]
    BY <1>1 DEF AfterPing
  <2>2. /\ Counted(c) \in ClientFields
        /\ Counted(c).name = client[c].name /\ Counted(c).socket = client[c].socket
        /\ Counted(c).connection = client[c].connection
        /\ Counted(c).wrong_msgs = client[c].wrong_msgs
        /\ Counted(c).missedPings = IF Missed(c) THEN client[c].missedPings + 1 ELSE 0
    BY <1>1, CountedFields
  <2> DEFINE next == [Counted(c) EXCEPT !.didPingedBack = FALSE]
  <2>3. /\ next \in ClientFields
        /\ next.name = Counted(c).name /\ next.socket = Counted(c).socket
        /\ next.connection = Counted(c).connection
        /\ next.wrong_msgs = Counted(c).wrong_msgs
        /\ next.missedPings = Counted(c).missedPings
    BY <2>2, PingedFields
  <2>4. AfterPing[c] = Counted(c) \/ AfterPing[c] = next
    BY <2>1
  <2> HIDE DEF next
  <2>. QED
    BY <2>2, <2>3, <2>4
<1>4. ASSUME NEW c \in Client \ Reached PROVE AfterPing[c] = client[c]
  BY <1>4 DEF AfterPing
<1>5. SameSessions(AfterPing)
  <2>1. AfterPing \in [Client -> ClientFields]
    <3>1. \A c \in Client : AfterPing[c] \in ClientFields
      BY <1>2, <1>3, <1>4
    <3>2. AfterPing = [c \in Client |-> AfterPing[c]]
      BY DEF AfterPing
    <3>. QED
      BY <3>1, <3>2
  <2>. QED
    BY <1>1, <1>3, <1>4, <2>1 DEF SameSessions
<1>6. ASSUME NEW S \in SUBSET Connected, \A c \in S \cap Reached : ~IsRemoved(c), NEW c \in S
      PROVE  /\ AfterPing[c].wrong_msgs < MAX_WRONG_MSGS
             /\ AfterPing[c].missedPings < MISSED_PING_TO_FULL_DISCONNECT
             /\ Online(c) /\ c \notin Unreachable => AfterPing[c].missedPings = 0
  <2>1. /\ c \in Client /\ client[c].missedPings \in 0..MISSED_PING_TO_FULL_DISCONNECT
        /\ Online(c) => client[c].missedPings = 0
        /\ client[c].missedPings < MISSED_PING_TO_FULL_DISCONNECT
        /\ client[c].wrong_msgs < MAX_WRONG_MSGS
    BY <1>1, <1>2, FieldTypes DEF IInv, LimitsAreKept
  <2>2. CASE c \in Reached
    <3>1. ~IsRemoved(c)
      BY <1>6, <2>2
    <3>2. CASE ~Missed(c)
      BY <1>3, <2>1, <2>2, <3>2, LimitAssumption
    <3>3. CASE Missed(c)
      <4>1. AfterPing[c].missedPings = client[c].missedPings + 1
        BY <1>3, <2>2, <3>3
      <4>2. AfterPing[c].missedPings < MISSED_PING_TO_FULL_DISCONNECT
        BY <2>1, <3>1, <3>3, <4>1, LimitAssumption DEF IsRemoved
      <4>3. Online(c) => c \in Unreachable
        BY <2>1, <2>2, <3>3 DEF Unreachable, LosesConnection
      <4>. QED
        BY <1>3, <2>1, <2>2, <4>2, <4>3
    <3>. QED
      BY <3>2, <3>3
  <2>3. CASE c \notin Reached
    BY <1>4, <2>1, <2>3
  <2>. QED
    BY <2>2, <2>3
<1>7. ASSUME NEW S \in SUBSET Connected, \A c \in S \cap Reached : ~IsRemoved(c)
      PROVE  WithinLimits(AfterPing, Unreachable, S)
  BY <1>6, <1>7 DEF WithinLimits
<1>. QED
  BY <1>5, <1>7

\* Who is unreachable was online until now, and is removed or has a seat; who is
\* removed without that was offline already.
LEMMA UnreachableFacts ==
    ASSUME IInv, ~spinning
    PROVE  /\ Unreachable \subseteq Connected
           /\ \A c \in Unreachable : Online(c) /\ (IsRemoved(c) \/ client_state[c] \in Seated)
           /\ \A c \in Reached : IsRemoved(c) /\ c \notin Unreachable => ~Online(c)
<1>1. Reached \subseteq Connected
  BY ReachedFacts
<1>2. \A c \in Connected : Online(c) => client[c].missedPings = 0
  BY DEF IInv, LimitsAreKept
<1>. QED
  BY <1>1, <1>2 DEF Unreachable, LosesConnection, IsRemoved

\* The round that removes nobody.
LEMMA PingAllStep ==
    ASSUME IInv, PingAll
    PROVE  IInv' /\ NamesKept
<1>1. /\ ~spinning /\ \A c \in Connected : ~IsRemoved(c)
      /\ ShortDisconnect(Unreachable, AfterPing)
      /\ client_socks' = client_socks \ {client[c].socket : c \in Unreachable}
      /\ UNCHANGED gameVars
  BY DEF PingAll
<1>2. PICK cs, cl : cs = Unreachable /\ cl = AfterPing
  OBVIOUS
<1>3. /\ cs \in SUBSET Connected /\ Connected \subseteq Client
      /\ \A c \in cs : Online(c) /\ client_state[c] \in Seated
  BY <1>1, <1>2, UnreachableFacts, SeqFacts DEF IInv, SessionsTypeOK, Connected
<1>4. SameSessions(cl)
  BY <1>1, <1>2, AfterPingFacts
<1>5. WithinLimits(cl, cs, Connected)
  <2>1. \A c \in Connected \cap Reached : ~IsRemoved(c)
    BY <1>1
  <2>. QED
    BY <1>1, <1>2, <2>1, AfterPingFacts
<1>6. {cl[c].socket : c \in cs} = {client[c].socket : c \in cs}
  BY <1>3, <1>4 DEF SameSessions
<1>7. /\ client' = [c \in Client |-> IF c \in cs THEN Offline(cl[c]) ELSE cl[c]]
      /\ client_sockets' = Erase(client_sockets, {client[c].socket : c \in cs})
      /\ UNCHANGED <<gameVars, client_list, client_names>>
  BY <1>1, <1>2, <1>6 DEF ShortDisconnect
<1>8. client_socks' = client_socks \ {client[c].socket : c \in cs}
  BY <1>1, <1>2
<1>9. ~spinning
  BY <1>1
<1>. QED
  BY <1>3, <1>4, <1>5, <1>7, <1>8, <1>9, KeepAllStep

\* The round that ends with the client it removes.
LEMMA PingRemovesStep ==
    ASSUME IInv, NEW v \in Client, PingRemoves(v)
    PROVE  IInv' /\ NamesKept
<1>1. PICK cs, cl : cs = Unreachable /\ cl = AfterPing
  OBVIOUS
<1>2. v \in Reached /\ IsRemoved(v) /\ Disconnet(v, cs, cl)
  BY <1>1 DEF PingRemoves
<1>3. ~spinning
  BY <1>2, LeaveSteps DEF Disconnet, IInv
<1>4. v \in Connected /\ \A u \in Reached : IsRemoved(u) => u = v
  BY <1>2, ReachedFacts
<1>5. /\ cs \in SUBSET Connected
      /\ \A c \in cs : Online(c)
      /\ \A c \in cs \ {v} : client_state[c] \in Seated
      /\ v \in cs \/ ~Online(v)
  BY <1>1, <1>2, <1>3, <1>4, UnreachableFacts DEF Unreachable
<1>6. SameSessions(cl)
  BY <1>1, <1>3, AfterPingFacts
<1>7. WithinLimits(cl, cs, Connected \ {v})
  <2>1. \A c \in (Connected \ {v}) \cap Reached : ~IsRemoved(c)
    BY <1>4
  <2>2. Connected \ {v} \in SUBSET Connected
    OBVIOUS
  <2>. QED
    BY <1>1, <1>3, <2>1, <2>2, AfterPingFacts
<1>. QED
  BY <1>2, <1>3, <1>4, <1>5, <1>6, <1>7, DisconnetStep

-----------------------------------------------------------------------------
(* The invariant holds *)

\* It holds before the first connection.
LEMMA InitIInv == Init => IInv
<1> SUFFICES ASSUME Init PROVE IInv
  OBVIOUS
<1>1. GM!Init /\ SessionInit /\ client_socks = {}
  BY DEF Init
<1>2. P!IInv
  BY <1>1, GamesInitIInv
<1>3. /\ client_list = <<>> /\ Connected = {}
      /\ client = [c \in Client |-> FreshClient]
      /\ client_names = [n \in Name |-> NoClient]
      /\ client_sockets = [fd \in Fd |-> NoClient]
  BY <1>1 DEF SessionInit, Connected, Range
<1>4. /\ ~spinning /\ client_state = [c \in Client |-> "UNLOGED"]
      /\ players = [g \in Game |-> <<>>]
  BY <1>1 DEF GM!Init
<1>5. SessionsTypeOK
  BY <1>1, <1>3, FreshFields DEF SessionsTypeOK
<1>6. SocketsAgree /\ NamesAgree
  BY <1>1, <1>3, <1>4, FreshFields, NoneAssumption DEF SocketsAgree, NamesAgree
<1>7. OfflineHasSeat /\ LimitsAreKept /\ UnusedIsFresh
  BY <1>3 DEF OfflineHasSeat, LimitsAreKept, UnusedIsFresh
<1>8. PlayersAreConnected
  <2>1. IsInjective(client_list)
    BY <1>3 DEF IsInjective
  <2>2. \A g \in Game : GM!Members(g) = {}
    BY <1>4 DEF GM!Members, GM!Range
  <2>. QED
    BY <2>1, <2>2 DEF PlayersAreConnected
<1>. QED
  BY <1>2, <1>5, <1>6, <1>7, <1>8 DEF IInv

\* Every handler and every ping round keeps it.
LEMMA NextIInv == IInv /\ [Next]_vars => IInv' /\ NamesKept
<1> SUFFICES ASSUME IInv, [Next]_vars PROVE IInv' /\ NamesKept
  OBVIOUS
<1>1. ASSUME NEW fd \in Fd, Accept(fd) PROVE IInv' /\ NamesKept
  BY <1>1, AcceptStep
<1>2. ASSUME NEW fd \in Fd, NEW c \in Client, Handle(fd, c) PROVE IInv' /\ NamesKept
  <2>1. ASSUME NEW n \in Name, LoginNew(fd, c, n) PROVE IInv' /\ NamesKept
    BY <2>1, LoginNewStep
  <2>2. ASSUME NEW n \in Name, LoginBack(fd, c, n) PROVE IInv' /\ NamesKept
    BY <2>2, LoginBackStep
  <2>3. ASSUME NEW n \in Name, LoginRefused(fd, c, n) PROVE IInv' /\ NamesKept
    BY <2>3, LoginRefusedStep
  <2>4. CASE Join(fd, c) \/ Start(fd, c) \/ \E ch \in Letter : Quess(fd, c, ch)
    BY <2>4, GameHandlersStep
  <2>5. CASE Pong(fd, c)
    BY <2>5, PongStep
  <2>6. CASE WrongMsg(fd, c)
    BY <2>6, WrongMsgStep
  <2>7. CASE Eof(fd, c)
    BY <2>7, EofStep
  <2>. QED
    BY <1>2, <2>1, <2>2, <2>3, <2>4, <2>5, <2>6, <2>7 DEF Handle
<1>3. CASE PingAll
  BY <1>3, PingAllStep
<1>4. ASSUME NEW v \in Client, PingRemoves(v) PROVE IInv' /\ NamesKept
  BY <1>4, PingRemovesStep
<1>5. CASE UNCHANGED vars
  <2>1. P!IInv'
    BY <1>5, GamesKeepIInv DEF IInv, vars
  <2>2. UNCHANGED <<client_state, players, spinning, client, client_list, client_names,
                    client_sockets, client_socks>>
    BY <1>5 DEF vars, gameVars, sessionVars
  <2>3. SessionsTypeOK' /\ SocketsAgree' /\ NamesAgree' /\ OfflineHasSeat'
    BY <2>2 DEF IInv, SessionsTypeOK, SocketsAgree, NamesAgree, OfflineHasSeat, Connected, Online
  <2>4. LimitsAreKept' /\ PlayersAreConnected' /\ UnusedIsFresh'
    BY <2>2 DEF IInv, LimitsAreKept, PlayersAreConnected, UnusedIsFresh, Connected, Online,
                GM!Members, GM!Range
  <2>5. NamesKept
    BY <1>5 DEF NamesKept, vars, gameVars, sessionVars
  <2>. QED
    BY <2>1, <2>3, <2>4, <2>5 DEF IInv
<1>. QED
  BY <1>1, <1>2, <1>3, <1>4, <1>5 DEF Next, PingRound, Spin

\* In every reachable state.
LEMMA Invariance == Spec => []IInv
BY InitIInv, NextIInv, PTL DEF Spec

\* Every session field has its type: no counter passes its limit, and the lists
\* and maps hold clients and descriptors only.
THEOREM SessionsTypeCorrect == Spec => []SessionsTypeOK
<1>1. IInv => SessionsTypeOK
  BY DEF IInv
<1>. QED
  BY <1>1, Invariance, PTL

\* What select() polls, the map from descriptors to clients and the sockets of
\* the clients always agree.
THEOREM SocketsAlwaysAgree == Spec => []SocketsAgree
<1>1. IInv => SocketsAgree
  BY DEF IInv
<1>. QED
  BY <1>1, Invariance, PTL

\* A name is taken exactly while a client carries it.
THEOREM NamesAlwaysAgree == Spec => []NamesAgree
<1>1. IInv => NamesAgree
  BY DEF IInv
<1>. QED
  BY <1>1, Invariance, PTL

\* Only players with a seat are kept while they are offline.
THEOREM OfflineKeepsSeat == Spec => []OfflineHasSeat
<1>1. IInv => OfflineHasSeat
  BY DEF IInv
<1>. QED
  BY <1>1, Invariance, PTL

\* Nobody stays who reached a limit of wrong messages or missed pings.
THEOREM LimitsAlwaysKept == Spec => []LimitsAreKept
<1>1. IInv => LimitsAreKept
  BY DEF IInv
<1>. QED
  BY <1>1, Invariance, PTL

\* No game points to a client that was deleted.
THEOREM NoDeletedPlayer == Spec => []PlayersAreConnected
<1>1. IInv => PlayersAreConnected
  BY DEF IInv
<1>. QED
  BY <1>1, Invariance, PTL

\* A name keeps its object, its seat and, while online, its connection.
THEOREM NamesKeepSeats == Spec => NameKeepsItsSeat
<1>1. IInv /\ [Next]_vars =>
        [\A n \in Name :
            LET c == client_names[n] IN
            (c # NoClient /\ client_names[n]' # NoClient) =>
                /\ client_names[n]' = c
                /\ client_state[c] \in Seated => game[c]' = game[c]
                /\ Online(c) => client[c].socket' \in {client[c].socket, NoFd}]_vars
  <2> SUFFICES ASSUME IInv, [Next]_vars, NEW n \in Name, NEW c, c = client_names[n],
                      c # NoClient, client_names[n]' # NoClient
               PROVE  /\ client_names[n]' = c
                      /\ client_state[c] \in Seated => game'[c] = game[c]
                      /\ Online(c) => client'[c].socket \in {client[c].socket, NoFd}
    OBVIOUS
  <2>1. c \in Client
    BY DEF IInv, SessionsTypeOK
  <2>. QED
    BY <2>1, NextIInv DEF NamesKept
<1>. QED
  BY <1>1, Invariance, PTL DEF Spec, NameKeepsItsSeat

\* The wrong messages of a name are never forgotten while it is taken.
THEOREM WrongMsgsCounted == Spec => WrongMsgsStayCounted
<1>1. IInv /\ [Next]_vars =>
        [\A n \in Name :
            LET c == client_names[n] IN
            (c # NoClient /\ client_names[n]' # NoClient) =>
                \/ client[c].wrong_msgs' = client[c].wrong_msgs
                \/ client[c].wrong_msgs' = client[c].wrong_msgs + 1 /\ Online(c)]_vars
  <2> SUFFICES ASSUME IInv, [Next]_vars, NEW n \in Name, NEW c, c = client_names[n],
                      c # NoClient, client_names[n]' # NoClient
               PROVE  /\ client_names[n]' = c
                      /\ \/ client'[c].wrong_msgs = client[c].wrong_msgs
                         \/ client'[c].wrong_msgs = client[c].wrong_msgs + 1 /\ Online(c)
    OBVIOUS
  <2>1. c \in Client
    BY DEF IInv, SessionsTypeOK
  <2>. QED
    BY <2>1, NextIInv DEF NamesKept
<1>. QED
  BY <1>1, Invariance, PTL DEF Spec, WrongMsgsStayCounted
=============================================================================

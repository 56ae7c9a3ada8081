----------------------------- MODULE ClientManager -----------------------------
(***************************************************************************)
(* The session side of the server: class ClientManager and the session     *)
(* fields of class Client.  The operators are the effects of its methods   *)
(* on the session variables; Server combines them into handlers together   *)
(* with the games.                                                         *)
(***************************************************************************)
EXTENDS ClientState, Lists, Naturals, Sequences, FiniteSets, SequencesExt

CONSTANTS
    Client,         \* client objects
    Name,           \* valid login names (MessageHandler::checkNameValidity)
    Fd,             \* descriptors the process can have open for clients
    MAX_WRONG_MSGS, \* config.h
    MISSED_PING_TO_FULL_DISCONNECT, \* config.h
    NoClient,       \* the null Client pointer, or a key absent from a map
    NoName,         \* the empty name
    NoFd            \* -1

ASSUME NoneAssumption == NoClient \notin Client /\ NoName \notin Name /\ NoFd \notin Fd
ASSUME LimitAssumption ==
    /\ MAX_WRONG_MSGS \in Nat \ {0}
    /\ MISSED_PING_TO_FULL_DISCONNECT \in Nat \ {0, 1}

VARIABLES
    client_state,   \* Client::client_state, shared with the games
    client,         \* the session fields of every Client object
    client_list,    \* ClientManager::client_list, in the order of connecting
    client_names,   \* ClientManager::client_names
    client_sockets  \* ClientManager::client_sockets

sessionVars == <<client, client_list, client_names, client_sockets>>

-----------------------------------------------------------------------------
(* Plausible mistakes.  No action uses them: each replaces the definition  *)
(* it is named after, to see that a property notices.                      *)

\* logClient without the test that the old client is offline.
MayReturnAnyway(old) == old # NoClient

\* shortDisconnectClient without client_sockets.erase.
ShortDisconnectStillMapped(cs, cl) ==
    /\ client' = [c \in Client |-> IF c \in cs
                     THEN [cl[c] EXCEPT !.socket = NoFd, !.connection = "SHORT_OFFLNE"]
                     ELSE cl[c]]
    /\ UNCHANGED <<client_list, client_names, client_sockets>>

\* Who loses the connection starts with a clean record.
OfflineForgets(r) ==
    [r EXCEPT !.socket = NoFd, !.connection = "SHORT_OFFLNE", !.wrong_msgs = 0]

\* disconnectClient releases the name only of players in a game.
ReleasesNameInGame(c) == client_state[c] \in InGame

\* The ping round never removes a client that stays away.
IsRemovedUnseated(c) ==
    /\ ~client[c].didPingedBack /\ client[c].missedPings = 0
    /\ client[c].connection = "ONLINE" /\ client_state[c] \notin Seated

\* The ping round keeps a client without a seat too.
IsRemovedAtLimit(c) ==
    /\ ~client[c].didPingedBack
    /\ client[c].missedPings # 0
    /\ client[c].missedPings + 1 >= MISSED_PING_TO_FULL_DISCONNECT

\* The ping round removes one miss too late.
IsRemovedLate(c) ==
    \/ IsRemovedUnseated(c)
    \/ /\ ~client[c].didPingedBack
       /\ client[c].missedPings >= MISSED_PING_TO_FULL_DISCONNECT

\* The ping round counts only the clients that pingAllOnline would ping.
MissedOnline(c) == ~client[c].didPingedBack /\ client[c].connection = "ONLINE"

-----------------------------------------------------------------------------
(* Helpers *)

\* ConnectionState.h.
ConnectionState == {"ONLINE", "SHORT_OFFLNE", "LONG_OFFLINE"}

\* The session fields that Client.h declares, within the limits that the code keeps.
\* Nobody is ever offline for long.
ClientFields ==
    [name : Name \cup {NoName}, socket : Fd \cup {NoFd},
     connection : ConnectionState \ {"LONG_OFFLINE"}, wrong_msgs : 0..MAX_WRONG_MSGS,
     didPingedBack : BOOLEAN, missedPings : 0..MISSED_PING_TO_FULL_DISCONNECT]

\* The fields the constructor of Client sets; also those of an unused object.
FreshClient == [name |-> NoName, socket |-> NoFd, connection |-> "ONLINE",
                wrong_msgs |-> 0, didPingedBack |-> TRUE, missedPings |-> 0]

Connected == Range(client_list)

Online(c) == client[c].connection = "ONLINE"

GetClient(fd) == client_sockets[fd]

\* Client::incWrongMsg, as MessageHandler::wrongMsg calls it.
IncWrongMsg(c) == [client EXCEPT ![c].wrong_msgs = @ + 1]

\* std::map::insert leaves a key that is present alone.
Insert(map, key, c) == IF map[key] = NoClient THEN [map EXCEPT ![key] = c] ELSE map

\* std::map::erase, of all the keys in a set.
Erase(map, keys) == [k \in DOMAIN map |-> IF k \in keys THEN NoClient ELSE map[k]]

\* Whether a LOGIN with the name of this client brings it back.
MayReturn(old) == old # NoClient /\ ~Online(old)

-----------------------------------------------------------------------------
SessionInit ==
    /\ client = [c \in Client |-> FreshClient]
    /\ client_list = <<>>
    /\ client_names = [n \in Name |-> NoClient]
    /\ client_sockets = [fd \in Fd |-> NoClient]

\* ClientManager::newConnection: a new object for the accepted descriptor.
NewConnection(fd) ==
    \E c \in Client \ Connected :
        /\ client' = [client EXCEPT ![c] = [FreshClient EXCEPT !.socket = fd]]
        /\ client_list' = Append(client_list, c)
        /\ client_sockets' = Insert(client_sockets, fd, c)
        /\ UNCHANGED client_names

\* logClient, the name is free.
LogNew(c, n) ==
    /\ client_names[n] = NoClient
    /\ client' = [client EXCEPT ![c].name = n]
    /\ client_names' = Insert(client_names, n, c)
    /\ UNCHANGED <<client_list, client_sockets>>

\* logClient, the name belongs to a client that is offline, and the answer of
\* handle_message: the object of the new connection is deleted and its descriptor
\* goes to the old one, which is online again if it has a seat.
LogBack(c, n) ==
    LET old == client_names[n]
        fd  == client[c].socket
        back == [client[old] EXCEPT !.socket = fd]
    IN  /\ MayReturn(old)
        /\ client' = [client EXCEPT
              ![c] = FreshClient,
              ![old] = IF client_state[old] \in Seated
                       THEN [back EXCEPT !.connection = "ONLINE",
                                         !.didPingedBack = TRUE, !.missedPings = 0]
                       ELSE back]
        /\ client_list' = Without(client_list, c)
        /\ client_sockets' = Insert(Erase(client_sockets, {fd}), fd, old)
        /\ UNCHANGED client_names

\* What shortDisconnectClient leaves of the fields r of a client.
Offline(r) == [r EXCEPT !.socket = NoFd, !.connection = "SHORT_OFFLNE"]

\* shortDisconnectClient for the clients cs, whose fields are by now cl.
ShortDisconnect(cs, cl) ==
    /\ client' = [c \in Client |-> IF c \in cs THEN Offline(cl[c]) ELSE cl[c]]
    /\ client_sockets' = Erase(client_sockets, {cl[c].socket : c \in cs})
    /\ UNCHANGED <<client_list, client_names>>

\* The states in which disconnectClient erases the name.
ReleasesName(c) == client_state[c] # "UNLOGED"

\* disconnectClient and the end of Server::disconnet for the client v, after
\* shortDisconnectClient for the clients cs.
Delete(v, cs, cl) ==
    /\ client' = [c \in Client |-> CASE c = v -> FreshClient
                                     [] c \in cs \ {v} -> Offline(cl[c])
                                     [] OTHER -> cl[c]]
    /\ client_sockets' = Erase(client_sockets, {cl[c].socket : c \in cs})
    /\ client_names' = IF ReleasesName(v) THEN Erase(client_names, {cl[v].name})
                                          ELSE client_names
    /\ client_list' = Without(client_list, v)

-----------------------------------------------------------------------------
(* The ping round: what Server::connectionHandlerer does to one client *)

\* The client did not answer the last PING.
Missed(c) == ~client[c].didPingedBack

\* It missed the first one while it was online.
LosesConnection(c) == Missed(c) /\ client[c].missedPings = 0 /\ Online(c)

\* It is removed for good: at the first miss without a seat, at the last one with.
IsRemoved(c) ==
    \/ LosesConnection(c) /\ client_state[c] \notin Seated
    \/ /\ Missed(c)
       /\ client[c].missedPings # 0
       /\ client[c].missedPings + 1 >= MISSED_PING_TO_FULL_DISCONNECT

\* The count of a client that the round looks at.
Counted(c) == [client[c] EXCEPT !.missedPings = IF Missed(c) THEN @ + 1 ELSE 0]

\* The clients in list order up to the first that is removed: the loop breaks
\* there, and the ones behind it are neither counted nor sent a PING.
Reached == {client_list[i] : i \in {k \in DOMAIN client_list :
                \A j \in 1..(k - 1) : ~IsRemoved(client_list[j])}}

\* The fields after the round, but for the clients it disconnects: who is
\* reached is counted and, unless removed, sent the next PING.
AfterPing == [c \in Client |->
    CASE c \in Reached /\ IsRemoved(c)  -> Counted(c)
      [] c \in Reached /\ ~IsRemoved(c) -> [Counted(c) EXCEPT !.didPingedBack = FALSE]
      [] OTHER -> client[c]]
=============================================================================

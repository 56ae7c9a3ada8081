--------------------------------- MODULE Rounds ---------------------------------
(***************************************************************************)
(* Each game of GameManager is a Round: the three lists, the order of the  *)
(* players, the states of the clients and the letters are how the server   *)
(* keeps that promise.                                                     *)
(***************************************************************************)
EXTENDS GameManager

\* The game is being played.
IsStarted(g) == g \in started_games

R(g) == INSTANCE Round WITH
    Player   <- Client,
    Capacity <- LOBBY_SIZE,
    Lives    <- STARTING_HP,
    Nobody   <- NoClient,
    phase    <- IF IsStarted(g) THEN "round" ELSE IF Live(g) THEN "lobby" ELSE "empty",
    seats    <- Members(g),
    turn     <- IF IsStarted(g) THEN client_on_turn[g] ELSE NoClient,
    lives    <- [c \in Client |-> IF c \in Members(g) THEN hp[c] ELSE 0],
    hidden   <- IF IsStarted(g) THEN DOMAIN word[g] \ UNION Range(quessed_chars[g]) ELSE {},
    lost     <- spinning

\* Whatever happens in one game of the server, or in another one, is for its
\* players a step of Round or nothing at all.
\* It is \A g \in Game : R(g)!Spec, in a form that TLC can check.
GamesAreRounds ==
    /\ \A g \in Game : R(g)!Init
    /\ [][\A g \in Game : R(g)!Next \/ UNCHANGED R(g)!vars]_vars
=============================================================================

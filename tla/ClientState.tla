------------------------------ MODULE ClientState ------------------------------
(***************************************************************************)
(* The states of a client of the hangman server (ClientState.h).  The      *)
(* session side and the game side of the server both branch on them.       *)
(***************************************************************************)

ClientState == {"UNLOGED", "LOGGED", "LOBBY", "WAITING_FOR_TURN", "ON_TURN"}

\* The client plays in a started game.
InGame == {"WAITING_FOR_TURN", "ON_TURN"}

\* The client has a seat in the list of a game, started or not.
Seated == InGame \cup {"LOBBY"}
=============================================================================

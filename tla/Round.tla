--------------------------------- MODULE Round ---------------------------------
(***************************************************************************)
(* What one game promises its players, whatever the server keeps it in:    *)
(* who sits in it, whose turn it is, the lives, and the positions of the   *)
(* word that are still hidden.  There are no lists, no order of players    *)
(* and no letters here.                                                    *)
(***************************************************************************)
EXTENDS Integers, FiniteSets

CONSTANTS Player, Capacity, Lives, Nobody

VARIABLES
    phase,    \* "empty", "lobby" or "round"
    seats,    \* the players that sit in the game
    turn,     \* the one who may name a letter
    lives,    \* of each player, 0 for one that has no seat
    hidden,   \* positions nobody has named the letter of
    lost      \* the server is lost, and this game with it

vars == <<phase, seats, turn, lives, hidden, lost>>

Init ==
    /\ phase = "empty"
    /\ seats = {}
    /\ turn = Nobody
    /\ lives = [p \in Player |-> 0]
    /\ hidden = {}
    /\ lost = FALSE

\* The players of s who can go on with the lives l.
CanPlay(s, l) == {p \in s : l[p] > 0}

\* The round is over for the players s: they wait in the lobby with all lives.
Finish(s) ==
    /\ phase' = "lobby"
    /\ seats' = s
    /\ turn' = Nobody
    /\ lives' = [p \in Player |-> IF p \in s THEN Lives ELSE 0]
    /\ hidden' = {}

Enter(p) ==
    /\ phase # "round"
    /\ p \notin seats
    /\ Cardinality(seats) < Capacity
    /\ phase' = "lobby"
    /\ seats' = seats \cup {p}
    /\ lives' = [lives EXCEPT ![p] = Lives]
    /\ UNCHANGED <<turn, hidden, lost>>

\* All start alive, with a word of which nothing is known.
Begin ==
    /\ phase = "lobby"
    /\ Cardinality(seats) >= 2
    /\ \A p \in seats : lives[p] = Lives
    /\ phase' = "round"
    /\ turn' \in seats
    /\ hidden' \subseteq Nat /\ hidden' # {}
    /\ UNCHANGED <<seats, lives, lost>>

\* A letter that shows something: who named it goes on, or has won.
Right ==
    /\ phase = "round"
    /\ \E found \in SUBSET hidden :
        /\ found # {}
        /\ IF found = hidden
           THEN Finish(seats)
           ELSE hidden' = hidden \ found /\ UNCHANGED <<phase, seats, turn, lives>>
    /\ UNCHANGED lost

\* A letter that shows nothing costs a life and the turn, and ends the round
\* when one player is left who can play.
Wrong ==
    /\ phase = "round"
    /\ LET hurt == [lives EXCEPT ![turn] = @ - 1]
           left == CanPlay(seats, hurt)
       IN \/ Cardinality(left) = 1 /\ Finish(seats)
          \/ /\ Cardinality(left) >= 2
             /\ turn' \in left \ {turn}
             /\ lives' = hurt
             /\ UNCHANGED <<phase, seats, hidden>>
    /\ UNCHANGED lost

\* Somebody leaves the lobby.
Exit(p) ==
    /\ phase = "lobby"
    /\ p \in seats
    /\ seats' = seats \ {p}
    /\ phase' = IF seats' = {} THEN "empty" ELSE "lobby"
    /\ lives' = [lives EXCEPT ![p] = 0]
    /\ UNCHANGED <<turn, hidden, lost>>

\* Somebody leaves the round: the others go on without, and who is left alone
\* has won.
Quit(p) ==
    /\ phase = "round"
    /\ p \in seats
    /\ LET left == seats \ {p}
       IN \/ Cardinality(left) = 1 /\ Finish(left)
          \/ /\ Cardinality(left) >= 2
             /\ IF p = turn THEN turn' \in CanPlay(left, lives) ELSE UNCHANGED turn
             /\ seats' = left
             /\ lives' = [lives EXCEPT ![p] = 0]
             /\ UNCHANGED <<phase, hidden>>
    /\ UNCHANGED lost

\* The server gets lost, in this game only when its player on turn is gone or
\* has lost the last life and nobody is left who can play.
Lose ==
    /\ lost' = TRUE
    /\ UNCHANGED <<phase, turn, hidden>>
    /\ \/ UNCHANGED <<seats, lives>>
       \/ /\ phase = "round"
          /\ CanPlay(seats', lives') = {}
          /\ lives' = [lives EXCEPT ![turn] = 0]
          /\ seats' \in {seats, seats \ {turn}}

Next ==
    /\ ~lost
    /\ \/ \E p \in Player : Enter(p) \/ Exit(p) \/ Quit(p)
       \/ Begin \/ Right \/ Wrong \/ Lose

Spec == Init /\ [][Next]_vars
=============================================================================

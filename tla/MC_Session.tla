------------------------------- MODULE MC_Session -------------------------------
(***************************************************************************)
(* Small instances of Session for TLC.                                     *)
(***************************************************************************)
EXTENDS Session, TLC

CONSTANTS a, b   \* letters; a wrong guess is one that is already known

MC_Letters == {a, b}
MC_Words == {<<a, b>>}

Symmetry == Permutations(Conn) \cup Permutations(Client \ {Me})

\* The constraint of a run that is about clean connections only.  At most MaxWaiting
\* lines wait for the client: all that one step sends, with nothing before them, or
\* all that a return or the end of a round sends, behind another line.
MaxWaiting == 4

CleanAndShort == clean /\ \A k \in Conn : Len(conn[k].out) + Len(thread.lines) <= MaxWaiting

\* The letters of the word are guessed from left to right.  With the two places of the
\* word exchanged, the other order is the same.
LettersInOrder == \A g \in Game : quessed_chars[g][b] # {} => quessed_chars[g][a] # {}

\* Another player that has no session logs in before anything else happens, and one
\* that has no game keeps its session.  Nobody sees or hinders either, and neither
\* hinders anybody, so no order is lost that matters.
OthersLogInFirst ==
    LET others == Client \ {Me}
        away   == {c \in others : client_state[c] = "UNLOGED"}
    IN  /\ away # {} /\ ~spinning /\ ~ThreadIsBusy => \E c \in away : client_state'[c] = "LOGGED"
        /\ \A c \in others : client_state[c] = "LOGGED" => client_state'[c] # "UNLOGED"

\* States that differ in what nothing reads before it is overwritten are one: the
\* word of a game between rounds, and what the client still shows of it.  Of
\* missed_pings only counts whether the next check makes it one.
Round(g) ==
    IF g \in started_games \/ spinning
    THEN <<client_on_turn[g], word[g], quessed_chars[g], found_chars[g]>> ELSE <<>>

View ==
    <<client_state, game, hp, players, [g \in Game |-> Round(g)], not_started_games,
      not_started_games_full, started_games, spinning, mine, conn,
      [thread EXCEPT !.word_len = IF thread.client_state = "GAME" THEN @ ELSE 0,
                     !.word = IF thread.client_state = "GAME" THEN @ ELSE {},
                     !.missed_pings = IF thread.got_server_ping \/ @ = 0 THEN 0 ELSE 1],
      instructions, clean>>
=============================================================================

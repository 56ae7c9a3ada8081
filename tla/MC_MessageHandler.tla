--------------------------- MODULE MC_MessageHandler ---------------------------
(***************************************************************************)
(* Small instances of MessageHandler for TLC.                              *)
(***************************************************************************)
EXTENDS MessageHandler, TLC

MC_Words == Keyword \cup {"A", "Z", "bob", "eveline"}

MC_Lengths == [w \in MC_Words |-> CASE w \in {"A", "Z"}       -> 1
                                    [] w = "bob"              -> 3
                                    [] w = "eveline"          -> 7
                                    [] w \in {"JOIN", "PONG"} -> 4
                                    [] OTHER                  -> 5]

MC_WordPool == {<<"A">>}

\* What the client of this repository sends.
MC_Messages == {<<"LOGIN", "|", "bob">>, <<"LOGIN", "|", "eveline">>, <<"JOIN">>, <<"START">>,
                <<"QUESS", "|", "A">>, <<"QUESS", "|", "Z">>, <<"PONG">>}

MC_Names == {tokens[2] : tokens \in
                {t \in Range(TokensOf) : Kind(t) = "LOGIN" /\ Refusal("LOGIN", t, "UNLOGED", 0) = 0}}

\* Pieces for the texts of GrammarIsAccepted: keywords with and without an argument, a
\* capital letter, which can also be part of a name, and something that is no letter.
MC_Pieces == {"LOGIN", "JOIN", "QUESS", "|", "\n", "A", "7"}

\* What the last text was changes nothing of what follows: for the run about steps.
View == <<vars, terminated>>

Symmetry == Permutations(Client) \cup Permutations(Fd) \cup Permutations(Game)
=============================================================================

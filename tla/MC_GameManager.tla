---------------------------- MODULE MC_GameManager ----------------------------
(***************************************************************************)
(* A small instance of GameManager, and of the rounds in it, for TLC.      *)
(***************************************************************************)
EXTENDS Rounds

CONSTANTS a, b, z   \* letters; z is in no word

\* One word with a repeated letter, so that one guess can reveal two positions.
MC_Words == {<<a, b, a>>}
MC_Letters == {a, b, z}
=============================================================================

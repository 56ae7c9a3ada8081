------------------------------- MODULE MC_Server -------------------------------
(***************************************************************************)
(* Small instances of Server for TLC.                                      *)
(***************************************************************************)
EXTENDS Server, TLC

CONSTANTS a, z   \* letters; z is in no word

MC_Letters == {a, z}
MC_Words == {<<a>>}

Symmetry == Permutations(Client) \cup Permutations(Name)
              \cup Permutations(Fd) \cup Permutations(Game)
=============================================================================

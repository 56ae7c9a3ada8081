----------------------------- MODULE MC_ServerLoop -----------------------------
(***************************************************************************)
(* Small instances of ServerLoop for TLC.                                  *)
(***************************************************************************)
EXTENDS ServerLoop, TLC

CONSTANTS a, z   \* letters; z is in no word

MC_Letters == {a, z}
MC_Words == {<<a>>}

Symmetry == Permutations(Client) \cup Permutations(Name)
              \cup Permutations(Fd) \cup Permutations(Game)
=============================================================================

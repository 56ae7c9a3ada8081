------------------------------- MODULE MC_Startup -------------------------------
(***************************************************************************)
(* A small instance of Startup for TLC: the ports around both ends of the  *)
(* range, an address of another host, and what is no address or port.      *)
(***************************************************************************)
EXTENDS Startup

CONSTANTS here, elsewhere

At(ip, n) == [ip |-> ip, port |-> n]

MC_Lines ==
    {Missing, At(NoAddress, 1), At(elsewhere, 1)}
        \cup {At(here, n) : n \in {NoNumber, -1, 0, 1, 65535, 65536}}
=============================================================================

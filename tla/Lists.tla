---------------------------------- MODULE Lists ----------------------------------
(***************************************************************************)
(* The two operations of the C++ library on std::list that the server uses *)
(* to search and to remove, for lists that hold an element at most once.   *)
(***************************************************************************)
EXTENDS Integers, SequencesExt

\* std::find(begin, end, e) as an index; 0 stands for end().
Find(s, e) == IF e \in Range(s) THEN CHOOSE i \in DOMAIN s : s[i] = e ELSE 0

\* std::list::remove(e).
Without(s, e) == IF e \in Range(s) THEN RemoveAt(s, Find(s, e)) ELSE s
=============================================================================

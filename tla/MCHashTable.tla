------------------------------- MODULE MCHashTable -------------------------------
(***************************************************************************)
(* Instances of HashTable for TLC: two lists; keys of sum 2 that share the *)
(* first one, a key in the second, and a key whose hash is -1.             *)
(***************************************************************************)
EXTENDS HashTable, TLC

CONSTANTS n1, n2, n3, ka, kb, kc, kodd, kneg, v1

ThreeNodes == {n1, n2, n3}
SameList == {ka, kb, kc}
AllKeys == SameList \cup {kodd, kneg}
OneValue == {v1}

Sums == [k \in Key |-> CASE k = kodd -> 3 [] k = kneg -> -1 [] OTHER -> 2]

Alike == Permutations(ThreeNodes) \cup Permutations(SameList)

\* Once list_add wrote through a stale tail no property speaks of the reader,
\* and a reader changes nothing but its own variables: only the writer goes on.
WriterOnlyOnceTorn == torn => rpc = "idle"
=============================================================================

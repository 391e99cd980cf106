------------------------------ MODULE MCNetServer ------------------------------
(***************************************************************************)
(* Instances of NetServer for TLC.  With NFDESC = 4 there are three slots, *)
(* one of them taken by the server itself if it has registered, so that a  *)
(* third client finds none.                                                *)
(***************************************************************************)
EXTENDS NetServer, TLC

CONSTANTS c1, c2, c3

TwoClients == {c1, c2}
ThreeClients == {c1, c2, c3}
OneLeaves == {c1}
ThreeFds == {4, 5, 6}

EveryKind == {"good", "odd", "bad"}
GoodKind == {"good"}

Alike == Permutations(ThreeClients)
=============================================================================

------------------------------ MODULE MCTableSkel ------------------------------
(***************************************************************************)
(* Instances of TableSkel for TLC.  Blocks and strings are interchangeable *)
(* addresses, so the safety runs may use them as symmetry sets.            *)
(***************************************************************************)
EXTENDS TableSkel, TLC

CONSTANTS b1, b2, b3, s1, s2, k1, k2, v1, v2

TwoBlocks == {b1, b2}
ThreeBlocks == {b1, b2, b3}
OneString == {s1}
TwoStrings == {s1, s2}
OneKey == {k1}
TwoKeys == {k1, k2}
OneList == {"list"}
InOneList == [k \in Key \cup {Scrap} |-> "list"]
OneValue == {v1}
TwoValues == {v1, v2}

\* What the link of a new block may read as: fresh memory from the kernel is
\* zero, recycled memory may hold anything.
Zeroed == {Null}
Recycled == {Null, Wild}

Puts == {"put"}
Writes == {"put", "del"}
PutsAndVerify == {"put", "verify"}
WritesAndReads == {"put", "del", "get", "size", "getkeys"}
PutsAndStop == {"put", "stop"}

Addresses == Permutations(ThreeBlocks) \cup Permutations(TwoStrings)
               \cup Permutations(TwoValues)
KeysAndAddresses == Addresses \cup Permutations(TwoKeys)

\* A string that was overwritten is followed to the end of the task it belongs
\* to, and an entry that was lost to the end of its put.  A stale list tail
\* takes five writes: behind the second one they come one at a time, and
\* behind the third they are puts into a list with a stale tail, of strings
\* that are freed when the worker has read them.
WritesInARow ==
  /\ clobbered => Reading \/ wpc \in {"grow", "shrink", "readd"}
  /\ lost => wpc \in {"grow", "applied"}
  /\ Len(log) > 2 => /\ last_assigned - op_count < 2 /\ ~clobbered
                     /\ msg.op \notin {"size", "getkeys"}
  /\ Len(log) > 3 => /\ msg.op \in {"none", "put"}
                     /\ op_count > 3 => tails["list"] = "gone"
                     /\ \A s \in Str \ live : text[s] = NoEntry
=============================================================================

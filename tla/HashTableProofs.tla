---------------------------- MODULE HashTableProofs ----------------------------
(***************************************************************************)
(* What is proved of the lists of the hash table, for every number of      *)
(* nodes, lists and keys: a walk never leads to a freed node, and no node  *)
(* is reached by two links, also once list_add has written through the     *)
(* tail of an emptied list.                                                *)
(***************************************************************************)
EXTENDS HashTable, TLAPS

\* The types NoDangling depends on.
Typed ==
  /\ head \in [List -> Pointer] /\ tail \in [List -> Pointer]
  /\ node \in [Node -> NodeType] /\ used \subseteq Node
  /\ wpc \in {"idle", "grow", "readd", "shrink", "destroyed"}
  /\ went \in NodeType

\* Between the two halves of an overwrite the writer still has its list.
HasList == wpc = "readd" => Hash(went.key) \in List

IInv == Typed /\ HasList /\ NoDangling

-----------------------------------------------------------------------------
\* Initially no node is allocated.
LEMMA Initially == TableAssumption /\ Init => IInv
<1> SUFFICES ASSUME TableAssumption, Init PROVE IInv
  OBVIOUS
<1>1. Blank \in NodeType
  BY DEF Blank, NodeType, Answer, Pointer
<1>2. Typed /\ HasList
  BY <1>1 DEF Init, Typed, HasList, Pointer
<1>3. NoDangling
  BY DEF Init, NoDangling
<1> QED
  BY <1>2, <1>3 DEF IInv

\* A step that touches neither the lists nor the heap.
LEMMA Quiet ==
  ASSUME IInv, wpc # "destroyed", UNCHANGED <<head, tail, node, used, went>>,
         wpc' \in {wpc, "idle"}
  PROVE  IInv'
<1>1. Typed' /\ HasList'
  BY Zenon DEF IInv, Typed, HasList, Hash, List
<1>2. NoDangling'
  BY DEF IInv, NoDangling, List
<1> QED
  BY <1>1, <1>2 DEF IInv

\* A step after the lists are destroyed, or the one that destroys them.
LEMMA Ended ==
  ASSUME IInv, UNCHANGED <<head, tail, node>>, used' \subseteq Node,
         went' \in NodeType, wpc' = "destroyed"
  PROVE  IInv'
<1>1. Typed' /\ HasList'
  BY DEF IInv, Typed, HasList, List, Pointer, NodeType, Answer
<1>2. NoDangling'
  BY DEF NoDangling
<1> QED
  BY <1>1, <1>2 DEF IInv

-----------------------------------------------------------------------------
\* list_add links a node that was not allocated, so nothing leads to it yet.
\* The node it is linked behind may be any node, allocated or not.
LEMMA AddKeepsLinks ==
  ASSUME TableAssumption, IInv, wpc # "destroyed",
         NEW l \in List, NEW k \in Key \cup {Null}, NEW v \in Answer,
         Add(l, k, v), wpc' # "readd", wpc' # "destroyed",
         wpc' \in {"idle", "grow"}, went' \in NodeType
  PROVE  IInv'
<1> DEFINE made(n) == [node EXCEPT ![n] = [key |-> k, val |-> v, next |-> Null]]
           last == IF tail[l] = Null THEN head[l] ELSE tail[l]
<1>1. PICK n \in Node \ used : AddNode(l, n, k, v) /\ used' = used \cup {n}
  BY DEF Add
<1>2. Typed /\ NoDangling
  BY DEF IInv
<1>3. n \in Node /\ n \notin used /\ n # Null
  BY DEF TableAssumption
<1>4. made(n) \in [Node -> NodeType]
  BY <1>2, <1>3 DEF Typed, NodeType, Pointer
<1>5. HasList'
  BY DEF HasList
<1>6. CASE head[l] = Null
  <2>1. head' = [head EXCEPT ![l] = n] /\ node' = made(n) /\ tail' = tail
    BY <1>1, <1>6 DEF AddNode
  <2>2. Typed'
    BY <2>1, <1>1, <1>2, <1>3, <1>4 DEF Typed, Pointer, List, NodeType, Answer
  <2>3. \A x \in used : node'[x].next = node[x].next
    BY <2>1, <1>2, <1>3 DEF Typed
  <2>4. node'[n].next = Null
    BY <2>1, <1>2, <1>3 DEF Typed
  <2>5. \A m \in List : head'[m] = IF m = l THEN n ELSE head[m]
    BY <2>1, <1>2 DEF Typed
  <2>6. NoDangling'
    BY <2>3, <2>4, <2>5, <1>1, <1>2, <1>3 DEF NoDangling, Typed, List
  <2> QED
    BY <2>2, <2>6, <1>5 DEF IInv
<1>7. CASE head[l] # Null
  <2>1. /\ node' = [made(n) EXCEPT ![last].next = n]
        /\ tail' = [tail EXCEPT ![l] = n] /\ head' = head
    BY <1>1, <1>7 DEF AddNode
  <2>2. last \in Node
    BY <1>2, <1>7 DEF Typed, Pointer
  <2>3. node' \in [Node -> NodeType]
    BY <2>1, <2>2, <1>3, <1>4 DEF NodeType, Pointer
  <2>4. Typed'
    <3>1. tail' \in [List -> Pointer] /\ head' \in [List -> Pointer]
      BY <2>1, <1>2, <1>3 DEF Typed, Pointer
    <3>2. used' \subseteq Node
      BY <1>1, <1>2, <1>3 DEF Typed
    <3> QED
      BY <2>3, <3>1, <3>2, <1>2 DEF Typed, Pointer, List, NodeType, Answer
  <2>5. \A x \in Node :
          node'[x].next = IF x = last THEN n
                          ELSE IF x = n THEN Null ELSE node[x].next
    BY <2>1, <2>2, <1>2, <1>3 DEF Typed, NodeType
  <2> HIDE DEF last
  <2>6. NoDangling'
    BY <2>1, <2>5, <1>1, <1>2, <1>3 DEF NoDangling, Typed, List
  <2> QED
    BY <2>4, <2>6, <1>5 DEF IInv
<1> QED
  BY <1>6, <1>7

\* list_remove of a head: no node leads to it, so no node is left leading to
\* freed memory.
LEMMA RemoveHead ==
  ASSUME TableAssumption, Typed, NoDangling, wpc # "destroyed",
         NEW l \in List, NEW y \in used, y = head[l],
         head' = [head EXCEPT ![l] = node[y].next],
         node' = [node EXCEPT ![y] = Blank],
         used' = used \ {y}
  PROVE  NoDangling'
<1>1. y \in Node /\ y # Null
  BY DEF Typed, TableAssumption
<1>2. \A m \in List : head'[m] = IF m = l THEN node[y].next ELSE head[m]
  BY DEF Typed
<1>3. \A x \in used' : x \in used /\ x # y /\ node'[x] = node[x]
  BY DEF Typed
<1>4. \A x \in used : node[x].next # y
  BY <1>1 DEF NoDangling
<1> QED
  BY <1>1, <1>2, <1>3, <1>4 DEF NoDangling, List

\* list_remove behind the head: the one link that led to the node is passed
\* on to the node after it.
LEMMA RemoveInner ==
  ASSUME TableAssumption, Typed, NoDangling, wpc # "destroyed",
         NEW y \in used, NEW x \in used, node[x].next = y,
         node' = [node EXCEPT ![x].next = node[y].next, ![y] = Blank],
         head' = head, used' = used \ {y}
  PROVE  NoDangling'
<1>1. y \in Node /\ x \in Node /\ y # Null
  BY DEF Typed, TableAssumption
<1>2. \A z \in used' :
        z \in used /\ z # y
          /\ node'[z].next = IF z = x THEN node[y].next ELSE node[z].next
  BY <1>1 DEF Typed, NodeType
<1>3. \A z \in used : node[z].next = y => z = x
  BY <1>1 DEF NoDangling
<1>4. \A m \in List : head[m] # y
  BY <1>1 DEF NoDangling
<1>5. \A m \in List : head'[m] \in used' \cup {Null}
  BY <1>4 DEF NoDangling
<1>6. \A z \in used' : node'[z].next \in used' \cup {Null}
  <2> SUFFICES ASSUME NEW z \in used' PROVE node'[z].next \in used' \cup {Null}
    OBVIOUS
  <2>1. z = x \/ node'[z].next = node[z].next
    BY <1>2
  <2>2. z \in used /\ z # y
    BY <1>2
  <2>3. CASE z = x
    <3>1. node'[z].next = node[y].next
      BY <1>2, <2>3
    <3>2. node[y].next \in used \cup {Null} /\ node[y].next # y
      BY <1>3, <2>2, <2>3 DEF NoDangling
    <3> QED
      BY <3>1, <3>2
  <2>4. CASE z # x
    BY <1>3, <2>1, <2>2, <2>4 DEF NoDangling
  <2> QED
    BY <2>3, <2>4
<1>7. \A z, w \in used' :
        (node'[z].next = node'[w].next /\ node'[z].next # Null) => z = w
  BY <1>2 DEF NoDangling
<1>8. \A m \in List : head'[m] # Null => \A z \in used' : node'[z].next # head'[m]
  <2> SUFFICES ASSUME NEW m \in List, head'[m] # Null, NEW z \in used'
               PROVE  node'[z].next # head'[m]
    OBVIOUS
  <2>1. head'[m] = head[m] /\ head[m] # Null
    OBVIOUS
  <2>2. node[y].next # head[m]
    BY <2>1 DEF NoDangling
  <2>3. z \in used
    BY <1>2
  <2>4. node[z].next # head[m]
    BY <2>1, <2>3 DEF NoDangling
  <2>5. node'[z].next = node[y].next \/ node'[z].next = node[z].next
    BY <1>2
  <2> QED
    BY <2>1, <2>2, <2>4, <2>5
<1>9. \A l, m \in List : (head'[l] = head'[m] /\ head'[l] # Null) => l = m
  BY DEF NoDangling
<1> QED
  BY <1>5, <1>6, <1>7, <1>8, <1>9 DEF NoDangling, List

\* list_remove keeps the links of the nodes that stay.
LEMMA RemoveKeepsLinks ==
  ASSUME TableAssumption, IInv, wpc # "destroyed",
         NEW l \in List, NEW k, NEW y \in Found(l, k), Remove(l, y),
         wpc' \in {"readd", "shrink"}, went' \in NodeType, HasList'
  PROVE  IInv'
<1>1. Typed /\ NoDangling
  BY DEF IInv
<1>2. y \in used /\ y \in Node
  BY <1>1 DEF Found, Nodes, Typed
<1>3. used' = used \ {y} /\ Unlink(l, y)
  BY DEF Remove
<1>4. Blank \in NodeType
  BY DEF Blank, NodeType, Answer, Pointer
<1>5. node[y].next \in Pointer
  BY <1>1, <1>2 DEF Typed, NodeType
<1>6. CASE /\ y = head[l] /\ head' = [head EXCEPT ![l] = node[y].next]
           /\ node' = [node EXCEPT ![y] = Blank] /\ tail' = tail
  <2>1. NoDangling'
    BY <1>1, <1>2, <1>3, <1>6, RemoveHead
  <2>2. Typed'
    BY <1>1, <1>3, <1>4, <1>5, <1>6 DEF Typed, List, Pointer, NodeType, Answer
  <2> QED
    BY <2>1, <2>2 DEF IInv
<1>7. ASSUME NEW x \in Before(l, y), y # head[l], head' = head,
             node' = [node EXCEPT ![x].next = node[y].next, ![y] = Blank],
             tail' = IF y = tail[l] THEN [tail EXCEPT ![l] = x] ELSE tail
      PROVE  IInv'
  <2>1. x \in used /\ x \in Node /\ node[x].next = y
    BY <1>1, <1>7 DEF Before, Nodes, Typed
  <2>2. NoDangling'
    BY <1>1, <1>2, <1>3, <1>7, <2>1, RemoveInner
  <2>3. node' \in [Node -> NodeType]
    BY <1>1, <1>2, <1>4, <1>5, <1>7, <2>1 DEF Typed, NodeType
  <2>4. Typed'
    BY <1>1, <1>3, <1>7, <2>1, <2>3 DEF Typed, List, Pointer, NodeType, Answer
  <2> QED
    BY <2>2, <2>4 DEF IInv
<1> QED
  BY <1>3, <1>6, <1>7 DEF Unlink

-----------------------------------------------------------------------------
\* Every step of the writer and of the reader keeps the links in order.
LEMMA Inductive == TableAssumption /\ IInv /\ [Next]_vars => IInv'
<1> SUFFICES ASSUME TableAssumption, IInv, [Next]_vars PROVE IInv'
  OBVIOUS
<1> USE DEF listVars, heapVars, readerVars, keysVars, history
<1>1. CASE UNCHANGED vars \/ Crash
  <2>1. UNCHANGED <<head, tail, node, used, went, wpc>>
    BY <1>1 DEF vars, Crash
  <2>2. used' \subseteq Node /\ went' \in NodeType
    BY <2>1 DEF IInv, Typed, NodeType, Answer, Pointer
  <2> QED
    BY <2>1, <2>2, Quiet, Ended
<1>2. ASSUME NEW k \in Key, NEW v \in Value, PutNew(k, v) PROVE IInv'
  <2>1. /\ Hash(k) \in List /\ wpc # "destroyed" /\ Add(Hash(k), k, v)
        /\ wpc' = "grow" /\ went' = went
    BY <1>2 DEF PutNew, Indexed
  <2> QED
    BY <2>1, AddKeepsLinks DEF Answer, IInv, Typed
<1>3. ASSUME NEW k \in Key, NEW v \in Value, PutOld(k, v) PROVE IInv'
  <2>1. PICK y \in Found(Hash(k), k) : Remove(Hash(k), y)
    BY <1>3 DEF PutOld
  <2>2. /\ Hash(k) \in List /\ wpc # "destroyed" /\ wpc' = "readd"
        /\ went' = [key |-> k, val |-> v, next |-> Null]
    BY <1>3 DEF PutOld, Indexed
  <2>3. went' \in NodeType
    BY <2>2 DEF NodeType, Answer, Pointer
  <2>4. HasList'
    BY <2>2 DEF HasList, Hash, List
  <2> QED
    BY <2>1, <2>2, <2>3, <2>4, RemoveKeepsLinks
<1>4. ASSUME NEW k \in Key, Del(k) PROVE IInv'
  <2>1. PICK y \in Found(Hash(k), k) : Remove(Hash(k), y)
    BY <1>4 DEF Del
  <2>2. Hash(k) \in List /\ wpc # "destroyed" /\ wpc' = "shrink" /\ went' = went
    BY <1>4 DEF Del, Indexed
  <2>3. HasList' /\ went' \in NodeType
    BY <2>2 DEF HasList, IInv, Typed, NodeType, Answer, Pointer
  <2> QED
    BY <2>1, <2>2, <2>3, RemoveKeepsLinks
<1>5. CASE Readd
  <2>1. /\ wpc = "readd" /\ Add(Hash(went.key), went.key, went.val)
        /\ wpc' = "idle" /\ went' = Blank
    BY <1>5 DEF Readd
  <2>2. /\ Hash(went.key) \in List /\ went.key \in Key \cup {Null}
        /\ went.val \in Answer
    BY <2>1 DEF IInv, Typed, HasList, NodeType
  <2>3. Blank \in NodeType
    BY DEF Blank, NodeType, Answer, Pointer
  <2> QED
    BY <2>1, <2>2, <2>3, AddKeepsLinks
<1>6. CASE Grow \/ Shrink
  BY <1>6, Quiet DEF Grow, Shrink
<1>7. CASE Destroy
  <2>1. used' \subseteq Node
    BY <1>7 DEF Destroy, IInv, Typed
  <2>2. went' \in NodeType
    BY <1>7 DEF Destroy, Blank, NodeType, Answer, Pointer
  <2> QED
    BY <1>7, <2>1, <2>2, Ended DEF Destroy
<1>8. CASE Reader
  <2>1. UNCHANGED <<head, tail, node, used, went, wpc>>
    BY <1>8 DEF Reader, Start, StartGet, StartKeys, ReaderStep, Walk, Keys,
         Dup, StartList, Gather, EndGather, CopyList, Spoil, GatherFreed,
         ReadToCrash, Crash, EndRead
  <2>2. used' \subseteq Node /\ went' \in NodeType
    BY <2>1 DEF IInv, Typed, NodeType, Answer, Pointer
  <2> QED
    BY <2>1, <2>2, Quiet, Ended
<1>9. CASE \E k \in Key : BadIndex(k) \/ AddToFreed(k)
  BY <1>9, <1>1 DEF BadIndex, AddToFreed
<1>10. CASE WriteToFreed
  <2>1. CASE Crash
    BY <2>1, <1>1
  <2>2. CASE ~Crash
    <3>1. PICK n \in Node \ used : used' = used \cup {n}
      BY <1>10, <2>2 DEF WriteToFreed
    <3>2. wpc' = "destroyed" /\ UNCHANGED <<head, tail, node, went>>
      BY <1>10, <2>2 DEF WriteToFreed
    <3>3. used' \subseteq Node /\ went' \in NodeType
      BY <3>1, <3>2 DEF IInv, Typed, NodeType, Answer, Pointer
    <3> QED
      BY <3>2, <3>3, Ended
  <2> QED
    BY <2>1, <2>2
<1> QED
  BY <1>1, <1>2, <1>3, <1>4, <1>5, <1>6, <1>7, <1>8, <1>9, <1>10 DEF Next, Writer

\* The links are in order in every reachable state, even after an entry was
\* linked behind the tail of an emptied list: a get that has not stopped at a
\* node while it was freed walks over allocated nodes only.
THEOREM LinksInOrder == Spec => []NoDangling
<1>1. IInv => NoDangling
  BY DEF IInv
<1> QED
  BY <1>1, Initially, Inductive, TableAssumption, PTL DEF Spec
=============================================================================

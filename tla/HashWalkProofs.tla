----------------------------- MODULE HashWalkProofs -----------------------------
(***************************************************************************)
(* What the lists hold and what a reader finds in them, for every number   *)
(* of nodes, lists and keys: the counters agree with the nodes, the tail   *)
(* is the last node, the entries are what puts and dels leave, and a get   *)
(* or getkeys that walks while entries come and go misses none that stays. *)
(***************************************************************************)
EXTENDS HashTableProofs, FiniteSetTheorems

\* The nodes a walk from p visits, when f gives the contents of the nodes.
ClosedIn(f, S) == \A y \in S : f[y].next \in S \cup {Null}
From(f, p) == {x \in Node : \A S \in SUBSET Node :
                              (p \in S \cup {Null} /\ ClosedIn(f, S)) => x \in S}

\* The nodes whose key belongs to list l, wherever they are linked.
Homed(l) == {x \in used : Hash(node[x].key) = l}

\* The numbers agree with the nodes that are allocated, even once list_add has
\* written through a stale tail.
Counts ==
  wpc # "destroyed" =>
    /\ \A x \in used : node[x].key \in Key /\ Hash(node[x].key) \in List
    /\ lsize = [l \in List |-> Cardinality(Homed(l))]
    /\ size + (IF wpc = "grow" THEN 1 ELSE 0) =
         Cardinality(used) + (IF wpc \in {"shrink", "readd"} THEN 1 ELSE 0)
    /\ wpc = "grow" => used # {}

\* A walk of a list finds the nodes whose keys belong to it, and no others.
Walks == \A l \in List : Nodes(l) = Homed(l)

Tails == \A l \in List : lsize[l] > 1 => tail[l] \in Nodes(l) /\ node[tail[l]].next = Null

\* The table holds h when there is one node for each key that h has, with its
\* value.
Held(u, f, h) ==
  /\ \A x \in u : f[x].val = h[f[x].key] /\ f[x].val \in Value
  /\ \A x, y \in u : f[x].key = f[y].key => x = y
  /\ \A k \in Key : h[k] # Absent => \E x \in u : f[x].key = k

Table == [k \in Key |-> Holds(k)]
Contents == Held(used, node, Table)

InOrder == (~torn /\ wpc # "destroyed") => Walks /\ Tails /\ Contents

\* The entry that is being put again.
Carrying == wpc = "readd" => went.key \in Key /\ went.val \in Value

\* The reader's numbers and names.
ReaderTyped ==
  /\ size \in Int /\ lsize \in [List -> Nat]
  /\ wpc = "destroyed" => size >= 0
  /\ rpc \in {"idle", "walk", "dup", "list", "gather", "copy", "done"}
  /\ rkey \in Key \cup {Null} /\ ri \in List
  /\ rp \in Pointer /\ answer \in Answer
  /\ copied \in Nat /\ room \in Nat /\ left \in Nat
  /\ up \in BOOLEAN
  /\ expected \in [Key -> Answer] /\ seen \subseteq Answer
  /\ freed \in BOOLEAN /\ spoiled \in BOOLEAN /\ torn \in BOOLEAN
  /\ late \in BOOLEAN

\* What the reader's variables are in each of its loops.
Loops ==
  /\ Reading => rkey \in Key
  /\ rpc # "done" => ~spoiled
  /\ rpc \in {"idle", "walk", "dup"} => left = 0 /\ answer = Absent
  /\ rpc \in {"list", "gather", "copy"} => left > 0
  /\ wpc = "destroyed" => rpc = "idle" /\ ((~torn /\ ~late) => used = {})

\* The node the reader stands on is one of the list it walks; the one whose
\* data it copies has its key.
Stands ==
  /\ rpc \in {"walk", "dup", "gather"} => rp \in Nodes(ri) \cup {Null}
  /\ rpc = "dup" => rp # Null /\ node[rp].key = rkey

\* The node of key k is where a reader at list l and, within it, at node p has
\* still to come.
AheadAt(f, u, at, l, p, k) ==
  \E x \in u :
    /\ f[x].key = k
    /\ \/ Hash(k) > l
       \/ Hash(k) = l /\ at = "list"
       \/ Hash(k) = l /\ at \in {"walk", "dup", "gather"} /\ x \in From(f, p)

Finds ==
  Reading =>
    /\ Table[rkey] \in seen /\ answer \in seen \cup {Absent}
    /\ answer = Absent => Absent \in seen \/ AheadAt(node, used, rpc, ri, rp, rkey)

Ends == (rpc = "done" /\ (left > 0 => ~spoiled)) => answer \in seen

Sound == (~torn /\ ~freed) => Stands /\ Finds /\ Ends

HInv == IInv /\ Counts /\ InOrder /\ Carrying /\ ReaderTyped /\ Loops /\ Sound

-----------------------------------------------------------------------------
(***************************************************************************)
(* Walks.                                                                  *)
(***************************************************************************)
Heap == [Node -> NodeType]

LEMMA FromLeast ==
  ASSUME NEW f, NEW p, NEW S \in SUBSET Node, p \in S \cup {Null}, ClosedIn(f, S)
  PROVE  From(f, p) \subseteq S
BY DEF From

LEMMA FromClosed ==
  ASSUME NEW f \in Heap, NEW p \in Pointer
  PROVE  /\ From(f, p) \in SUBSET Node /\ p \in From(f, p) \cup {Null}
         /\ ClosedIn(f, From(f, p))
<1>1. ASSUME NEW y \in From(f, p), f[y].next # Null PROVE f[y].next \in From(f, p)
  <2>1. y \in Node /\ f[y].next \in Node
    BY <1>1 DEF From, Heap, NodeType, Pointer
  <2>2. ASSUME NEW S \in SUBSET Node, p \in S \cup {Null}, ClosedIn(f, S)
        PROVE  f[y].next \in S
    BY <1>1, <2>2 DEF From, ClosedIn
  <2> QED
    BY <2>1, <2>2 DEF From
<1>2. p # Null => p \in From(f, p)
  BY DEF From, Pointer
<1>3. From(f, p) \in SUBSET Node
  BY DEF From
<1> QED
  BY <1>1, <1>2, <1>3 DEF ClosedIn

\* A walk that comes back to no node that changed goes at least as far.
LEMMA FromGrows ==
  ASSUME TableAssumption, NEW f \in Heap, NEW g \in Heap, NEW p \in Pointer,
         \A y \in From(f, p) : f[y].next # Null => g[y].next = f[y].next
  PROVE  From(f, p) \subseteq From(g, p)
<1> DEFINE S == From(f, p) \cap From(g, p)
<1>1. /\ p \in From(f, p) \cup {Null} /\ ClosedIn(f, From(f, p))
      /\ p \in From(g, p) \cup {Null} /\ ClosedIn(g, From(g, p))
      /\ From(f, p) \in SUBSET Node
  BY FromClosed
<1>2. S \in SUBSET Node /\ p \in S \cup {Null}
  BY <1>1
<1>3. ClosedIn(f, S)
  BY <1>1 DEF ClosedIn
<1>4. From(f, p) \subseteq S
  BY <1>2, <1>3, FromLeast
<1> QED
  BY <1>4

LEMMA FromSame ==
  ASSUME TableAssumption, NEW f \in Heap, NEW g \in Heap, NEW p \in Pointer,
         \A y \in From(f, p) : g[y].next = f[y].next
  PROVE  From(g, p) = From(f, p)
<1>1. From(f, p) \subseteq From(g, p)
  BY FromGrows
<1>2. /\ p \in From(f, p) \cup {Null} /\ ClosedIn(f, From(f, p))
      /\ From(f, p) \in SUBSET Node
  BY FromClosed
<1>3. ClosedIn(g, From(f, p))
  BY <1>2 DEF ClosedIn
<1>4. From(g, p) \subseteq From(f, p)
  BY <1>2, <1>3, FromLeast
<1> QED
  BY <1>1, <1>4

\* A node is linked behind the last one.
LEMMA FromAdd ==
  ASSUME TableAssumption, NEW f \in Heap, NEW g \in Heap, NEW p \in Node,
         NEW last \in From(f, p), f[last].next = Null,
         NEW n \in Node, n \notin From(f, p), g[n].next = Null, g[last].next = n,
         \A y \in From(f, p) : y # last => g[y].next = f[y].next
  PROVE  From(g, p) = From(f, p) \cup {n}
<1>1. p \in Pointer
  BY DEF Pointer
<1>2. /\ p \in From(f, p) \cup {Null} /\ ClosedIn(f, From(f, p))
      /\ From(f, p) \in SUBSET Node
      /\ p \in From(g, p) \cup {Null} /\ ClosedIn(g, From(g, p))
  BY <1>1, FromClosed
<1>3. From(f, p) \subseteq From(g, p)
  <2>1. \A y \in From(f, p) : f[y].next # Null => g[y].next = f[y].next
    OBVIOUS
  <2> QED
    BY <1>1, <2>1, FromGrows
<1>4. n \in From(g, p)
  <2>1. last \in From(g, p) /\ n # Null
    BY <1>3 DEF TableAssumption
  <2> QED
    BY <1>2, <2>1 DEF ClosedIn
<1>5. From(g, p) \subseteq From(f, p) \cup {n}
  <2> DEFINE S == From(f, p) \cup {n}
  <2>1. S \in SUBSET Node /\ p \in S \cup {Null}
    BY <1>2
  <2>2. ClosedIn(g, S)
    BY <1>2 DEF ClosedIn
  <2> HIDE DEF S
  <2>3. From(g, p) \subseteq S
    BY <2>1, <2>2, FromLeast
  <2> QED
    BY <2>3 DEF S
<1> QED
  BY <1>3, <1>4, <1>5

\* A node is taken out, and the link that led to it leads to the next one.
LEMMA FromBypass ==
  ASSUME TableAssumption, NEW f \in Heap, NEW g \in Heap, NEW p \in Pointer,
         NEW y \in Node, p # y, f[y].next # y,
         \A u \in From(f, p) : u # y =>
           g[u].next = IF f[u].next = y THEN f[y].next ELSE f[u].next
  PROVE  From(g, p) = From(f, p) \ {y}
<1> DEFINE F == From(f, p)
           T == F \cap From(g, p)
           S == T \cup {z \in {y} : \E u \in T : f[u].next = z}
<1>1. /\ p \in F \cup {Null} /\ ClosedIn(f, F) /\ F \in SUBSET Node
      /\ p \in From(g, p) \cup {Null} /\ ClosedIn(g, From(g, p))
  BY FromClosed
<1>2. From(g, p) \subseteq F \ {y}
  <2> DEFINE R == F \ {y}
  <2> HIDE DEF F
  <2>1. R \in SUBSET Node /\ p \in R \cup {Null}
    BY <1>1
  <2>2. ASSUME NEW u \in R PROVE g[u].next \in R \cup {Null}
    <3>1. u \in F /\ u # y /\ g[u].next = IF f[u].next = y THEN f[y].next ELSE f[u].next
      BY DEF F
    <3>2. f[u].next = y => y \in F
      BY <1>1, <3>1 DEF ClosedIn, TableAssumption
    <3> QED
      BY <1>1, <3>1, <3>2 DEF ClosedIn
  <2>3. ClosedIn(g, R)
    BY <2>2 DEF ClosedIn
  <2> HIDE DEF R
  <2>4. From(g, p) \subseteq R
    BY <2>1, <2>3, FromLeast
  <2> QED
    BY <2>4 DEF R
<1>3. F \subseteq S
  <2> HIDE DEF F
  <2>1. S \in SUBSET Node /\ p \in S \cup {Null}
    BY <1>1
  <2>2. ASSUME NEW u \in T PROVE f[u].next \in S \cup {Null}
    <3>1. u \in F /\ u # y /\ u \in From(g, p)
      BY <1>2
    <3>2. g[u].next = IF f[u].next = y THEN f[y].next ELSE f[u].next
      BY <3>1 DEF F
    <3>3. CASE f[u].next = y
      BY <3>3
    <3>4. CASE f[u].next # y
      BY <1>1, <3>1, <3>2, <3>4 DEF ClosedIn
    <3> QED
      BY <3>3, <3>4
  <2>3. ASSUME NEW u \in T, f[u].next = y PROVE f[y].next \in T \cup {Null}
    <3>1. u \in F /\ u # y /\ u \in From(g, p)
      BY <1>2
    <3>2. g[u].next = f[y].next
      BY <2>3, <3>1 DEF F
    <3>3. y \in F
      BY <1>1, <2>3, <3>1 DEF ClosedIn, TableAssumption
    <3> QED
      BY <1>1, <3>1, <3>2, <3>3 DEF ClosedIn
  <2>4. ClosedIn(f, S)
    BY <2>2, <2>3 DEF ClosedIn
  <2> HIDE DEF S
  <2> QED
    BY <2>1, <2>4, FromLeast DEF F
<1>4. S \subseteq T \cup {y}
  OBVIOUS
<1> QED
  BY <1>2, <1>3, <1>4

\* A node to which no link leads is taken out, and the walk begins behind it.
LEMMA FromBehind ==
  ASSUME TableAssumption, NEW f \in Heap, NEW g \in Heap, NEW y \in Node,
         \A u \in From(f, y) : f[u].next # y,
         \A u \in From(f, y) : u # y => g[u].next = f[u].next
  PROVE  From(g, f[y].next) = From(f, y) \ {y}
<1> DEFINE F == From(f, y)
           p == f[y].next
           T == F \cap From(g, p)
           S == T \cup {y}
           R == F \ {y}
<1>1. y \in Pointer /\ p \in Pointer /\ y # Null
  BY DEF Heap, NodeType, Pointer, TableAssumption
<1>2. /\ y \in F /\ ClosedIn(f, F) /\ F \in SUBSET Node
      /\ p \in From(g, p) \cup {Null} /\ ClosedIn(g, From(g, p))
  BY <1>1, FromClosed
<1>3. From(g, p) \subseteq R
  <2>1. R \in SUBSET Node /\ p \in R \cup {Null}
    BY <1>2 DEF ClosedIn
  <2>2. ClosedIn(g, R)
    BY <1>2 DEF ClosedIn
  <2> HIDE DEF R, p
  <2> QED
    BY <2>1, <2>2, FromLeast
<1>4. F \subseteq S
  <2>1. S \in SUBSET Node /\ y \in S \cup {Null}
    BY <1>2
  <2>2. ASSUME NEW u \in T PROVE f[u].next \in S \cup {Null}
    <3>1. u # y /\ u \in F /\ g[u].next = f[u].next
      BY <1>3
    <3> QED
      BY <1>2, <3>1 DEF ClosedIn
  <2>3. f[y].next \in S \cup {Null}
    BY <1>2 DEF ClosedIn
  <2>4. ClosedIn(f, S)
    BY <2>2, <2>3 DEF ClosedIn
  <2> HIDE DEF S
  <2> QED
    BY <2>1, <2>4, FromLeast
<1> QED
  BY <1>3, <1>4

-----------------------------------------------------------------------------
(***************************************************************************)
(* The lists.                                                              *)
(***************************************************************************)

\* A walk stays within the nodes that are allocated.
LEMMA WalkInUsed ==
  ASSUME TableAssumption, NEW u \in SUBSET Node, NEW f \in Heap,
         NEW p \in u \cup {Null}, \A x \in u : f[x].next \in u \cup {Null}
  PROVE  From(f, p) \subseteq u
BY FromLeast DEF ClosedIn

\* What the invariant says of the heap.
LEMMA HeapFacts ==
  ASSUME TableAssumption, IInv, wpc # "destroyed"
  PROVE  /\ node \in Heap /\ used \in SUBSET Node /\ Null \notin Node
         /\ head \in [List -> Pointer] /\ tail \in [List -> Pointer]
         /\ \A l \in List : /\ head[l] \in used \cup {Null}
                            /\ Nodes(l) = From(node, head[l])
                            /\ head[l] # Null => head[l] \in Nodes(l)
                            /\ \A x \in used : node[x].next = head[l] => head[l] = Null
         /\ \A x \in used : node[x].next \in used \cup {Null}
         /\ \A x, y \in used : (node[x].next = node[y].next /\ node[x].next # Null) => x = y
<1>1. /\ node \in Heap /\ used \in SUBSET Node /\ Null \notin Node
      /\ head \in [List -> Pointer] /\ tail \in [List -> Pointer]
  BY DEF IInv, Typed, Heap, TableAssumption
<1>2. /\ \A l \in List : head[l] \in used \cup {Null}
      /\ \A x \in used : node[x].next \in used \cup {Null}
  BY DEF IInv, NoDangling
<1>3. \A l \in List : \A x \in used : node[x].next = head[l] => head[l] = Null
  BY DEF IInv, NoDangling
<1>4. \A x, y \in used : (node[x].next = node[y].next /\ node[x].next # Null) => x = y
  BY DEF IInv, NoDangling
<1>5. ASSUME NEW l \in List
      PROVE  Nodes(l) = From(node, head[l]) /\ (head[l] # Null => head[l] \in Nodes(l))
  <2>1. head[l] \in Pointer /\ Reached(head[l]) = From(node, head[l])
    BY <1>1 DEF Reached, From, ClosedIn
  <2>2. From(node, head[l]) \subseteq used
    BY <1>1, <1>2, WalkInUsed
  <2>3. head[l] \in From(node, head[l]) \cup {Null}
    BY <1>1, <2>1, FromClosed
  <2> QED
    BY <2>1, <2>2, <2>3 DEF Nodes
<1> QED
  BY <1>1, <1>2, <1>3, <1>4, <1>5

LEMMA NextHeapFacts ==
  ASSUME TableAssumption, IInv', wpc' # "destroyed"
  PROVE  /\ node' \in Heap /\ used' \in SUBSET Node
         /\ head' \in [List -> Pointer]
         /\ \A l \in List : Nodes(l)' = From(node', head'[l])
<1>1. /\ node' \in Heap /\ used' \in SUBSET Node /\ head' \in [List -> Pointer]
  BY DEF IInv, Typed, Heap, List, Pointer, NodeType, Answer
<1>2. /\ \A l \in List : head'[l] \in used' \cup {Null}
      /\ \A x \in used' : node'[x].next \in used' \cup {Null}
  BY DEF IInv, NoDangling, List
<1>3. ASSUME NEW l \in List PROVE Nodes(l)' = From(node', head'[l])
  <2>1. Reached(head[l])' = From(node', head'[l])
    BY DEF Reached, From, ClosedIn
  <2>2. From(node', head'[l]) \subseteq used'
    BY <1>1, <1>2, WalkInUsed
  <2> QED
    BY <2>1, <2>2 DEF Nodes
<1> QED
  BY <1>1, <1>3

\* The node behind which list_add links a new one.
Last(l) == IF tail[l] = Null THEN head[l] ELSE tail[l]

LEMMA LastIsLast ==
  ASSUME TableAssumption, IInv, Counts, InOrder, wpc # "destroyed", ~torn,
         NEW l \in List, head[l] # Null, ~StaleTail(l)
  PROVE  Last(l) \in Nodes(l) /\ node[Last(l)].next = Null
<1>1. tail[l] = Null \/ tail[l] \in Nodes(l)
  BY DEF StaleTail
<1>2. Walks /\ Tails
  BY DEF InOrder
<1>3. lsize[l] = Cardinality(Nodes(l)) /\ head[l] \in Nodes(l)
  BY <1>2, HeapFacts DEF Counts, Walks
<1>4. IsFiniteSet(Nodes(l)) /\ Cardinality(Nodes(l)) \in Nat
  <2>1. Nodes(l) \subseteq Node
    BY HeapFacts DEF Nodes
  <2> QED
    BY <2>1, FS_Subset, FS_CardinalityType DEF TableAssumption
<1>5. CASE lsize[l] > 1
  <2>1. tail[l] \in Nodes(l) /\ node[tail[l]].next = Null
    BY <1>2, <1>5 DEF Tails
  <2>2. tail[l] # Null
    BY <2>1, HeapFacts DEF Nodes
  <2> QED
    BY <2>1, <2>2 DEF Last
<1>6. CASE ~(lsize[l] > 1)
  <2>1. /\ Cardinality(Nodes(l) \ {head[l]}) = Cardinality(Nodes(l)) - 1
        /\ IsFiniteSet(Nodes(l) \ {head[l]})
    BY <1>3, <1>4, FS_RemoveElement
  <2>2. Cardinality(Nodes(l) \ {head[l]}) = 0
    BY <1>3, <1>4, <1>6, <2>1, FS_CardinalityType
  <2>3. Nodes(l) = {head[l]}
    BY <1>3, <2>1, <2>2, FS_EmptySet
  <2>4. Last(l) = head[l]
    BY <1>1, <2>3 DEF Last
  <2>5. node[head[l]].next \in {head[l], Null}
    BY <1>3, <2>3, HeapFacts, FromClosed DEF ClosedIn
  <2>6. node[head[l]].next # head[l]
    BY <1>3, HeapFacts DEF Nodes
  <2> QED
    BY <1>3, <2>4, <2>5, <2>6
<1> QED
  BY <1>5, <1>6

\* What list_add changes.
LEMMA AddFacts ==
  ASSUME TableAssumption, IInv, wpc # "destroyed",
         NEW l \in List, NEW k \in Key, NEW v \in Answer, Add(l, k, v)
  PROVE  \E n \in Node \ used :
           /\ used' = used \cup {n} /\ lsize' = [lsize EXCEPT ![l] = @ + 1]
           /\ \A x \in Node :
                /\ node'[x].key = IF x = n THEN k ELSE node[x].key
                /\ node'[x].val = IF x = n THEN v ELSE node[x].val
           /\ head[l] = Null =>
                /\ head' = [head EXCEPT ![l] = n] /\ tail' = tail
                /\ \A x \in Node : node'[x].next = IF x = n THEN Null ELSE node[x].next
           /\ head[l] # Null =>
                /\ head' = head /\ tail' = [tail EXCEPT ![l] = n]
                /\ \A x \in Node : node'[x].next = IF x = Last(l) THEN n
                                                   ELSE IF x = n THEN Null ELSE node[x].next
<1>1. PICK n \in Node \ used : AddNode(l, n, k, v) /\ used' = used \cup {n}
  BY DEF Add
<1> DEFINE made == [node EXCEPT ![n] = [key |-> k, val |-> v, next |-> Null]]
<1>2. node \in Heap /\ head \in [List -> Pointer] /\ tail \in [List -> Pointer]
  BY HeapFacts
<1>3. /\ made \in Heap
      /\ \A x \in Node : made[x] = IF x = n THEN [key |-> k, val |-> v, next |-> Null]
                                            ELSE node[x]
  BY <1>1, <1>2 DEF Heap, NodeType, Pointer
<1>4. CASE head[l] = Null
  <2>1. head' = [head EXCEPT ![l] = n] /\ node' = made /\ tail' = tail
    BY <1>1, <1>4 DEF AddNode
  <2> HIDE DEF made
  <2>2. \A x \in Node :
          /\ node'[x].key = IF x = n THEN k ELSE node[x].key
          /\ node'[x].val = IF x = n THEN v ELSE node[x].val
          /\ node'[x].next = IF x = n THEN Null ELSE node[x].next
    BY <1>3, <2>1
  <2> QED
    BY <1>1, <1>4, <2>1, <2>2 DEF Add
<1>5. CASE head[l] # Null
  <2>1. node' = [made EXCEPT ![Last(l)].next = n] /\ head' = head /\ tail' = [tail EXCEPT ![l] = n]
    BY <1>1, <1>5 DEF AddNode, Last
  <2>2. Last(l) \in Node
    BY <1>2, <1>5 DEF Last, Pointer
  <2> HIDE DEF made
  <2>3. \A x \in Node :
          node'[x] = IF x = Last(l) THEN [made[x] EXCEPT !.next = n] ELSE made[x]
    BY <1>3, <2>1, <2>2 DEF Heap
  <2>4. ASSUME NEW x \in Node
        PROVE  /\ node'[x].key = made[x].key /\ node'[x].val = made[x].val
               /\ node'[x].next = IF x = Last(l) THEN n ELSE made[x].next
    <3>1. made[x] \in NodeType
      BY <1>3 DEF Heap
    <3>2. node'[x] = IF x = Last(l) THEN [made[x] EXCEPT !.next = n] ELSE made[x]
      BY <2>3
    <3> QED
      BY <3>1, <3>2 DEF NodeType
  <2>5. \A x \in Node :
          /\ node'[x].key = IF x = n THEN k ELSE node[x].key
          /\ node'[x].val = IF x = n THEN v ELSE node[x].val
          /\ node'[x].next = IF x = Last(l) THEN n
                             ELSE IF x = n THEN Null ELSE node[x].next
    BY <1>3, <2>4
  <2> QED
    BY <1>1, <1>5, <2>1, <2>5 DEF Add
<1> QED
  BY <1>4, <1>5

\* What list_remove changes.
LEMMA RemoveFacts ==
  ASSUME TableAssumption, IInv, wpc # "destroyed",
         NEW l \in List, NEW y \in used, Remove(l, y)
  PROVE  /\ used' = used \ {y} /\ lsize' = [lsize EXCEPT ![l] = @ - 1]
         /\ \A x \in Node \ {y} : node'[x].key = node[x].key /\ node'[x].val = node[x].val
         /\ \/ /\ y = head[l] /\ head' = [head EXCEPT ![l] = node[y].next] /\ tail' = tail
               /\ \A x \in Node \ {y} : node'[x].next = node[x].next
            \/ /\ y # head[l] /\ head' = head
               /\ \E x \in Nodes(l) :
                    /\ node[x].next = y
                    /\ tail' = IF y = tail[l] THEN [tail EXCEPT ![l] = x] ELSE tail
                    /\ \A u \in Node \ {y} :
                         node'[u].next = IF u = x THEN node[y].next ELSE node[u].next
<1>1. node \in Heap /\ y \in Node /\ Unlink(l, y)
  BY HeapFacts DEF Remove
<1>2. used' = used \ {y} /\ lsize' = [lsize EXCEPT ![l] = @ - 1]
  BY DEF Remove
<1>3. CASE /\ y = head[l] /\ head' = [head EXCEPT ![l] = node[y].next]
           /\ node' = [node EXCEPT ![y] = Blank] /\ tail' = tail
  <2>1. \A x \in Node \ {y} : node'[x] = node[x]
    BY <1>1, <1>3 DEF Heap
  <2> QED
    BY <1>2, <1>3, <2>1
<1>4. ASSUME NEW x \in Before(l, y), y # head[l], head' = head,
             node' = [node EXCEPT ![x].next = node[y].next, ![y] = Blank],
             tail' = IF y = tail[l] THEN [tail EXCEPT ![l] = x] ELSE tail
      PROVE  /\ \A u \in Node \ {y} :
                  /\ node'[u].key = node[u].key /\ node'[u].val = node[u].val
                  /\ node'[u].next = IF u = x THEN node[y].next ELSE node[u].next
             /\ x \in Nodes(l) /\ node[x].next = y
  <2>1. x \in Nodes(l) /\ node[x].next = y /\ x \in Node
    BY HeapFacts DEF Before, Nodes
  <2>2. \A u \in Node \ {y} :
          node'[u] = IF u = x THEN [node[x] EXCEPT !.next = node[y].next] ELSE node[u]
    BY <1>1, <1>4, <2>1 DEF Heap
  <2> QED
    BY <1>1, <2>1, <2>2 DEF Heap, NodeType
<1> QED
  BY <1>1, <1>2, <1>3, <1>4 DEF Unlink

-----------------------------------------------------------------------------
(***************************************************************************)
(* The counters.                                                           *)
(***************************************************************************)

\* An entry is added: the size of the table follows, or was not reduced before.
LEMMA AddCounts ==
  ASSUME TableAssumption, IInv, Counts,
         NEW k \in Key, NEW v \in Answer, Hash(k) \in List, Add(Hash(k), k, v),
         \/ wpc = "idle" /\ wpc' = "grow"
         \/ wpc = "readd" /\ wpc' = "idle",
         size \in Int, size' = size
  PROVE  Counts'
<1> DEFINE l == Hash(k)
<1>1. PICK n \in Node \ used :
        /\ used' = used \cup {n} /\ lsize' = [lsize EXCEPT ![l] = @ + 1]
        /\ \A x \in Node : node'[x].key = IF x = n THEN k ELSE node[x].key
  BY AddFacts
<1>2. /\ used \in SUBSET Node
      /\ \A x \in used : node[x].key \in Key /\ Hash(node[x].key) \in List
      /\ lsize = [m \in List |-> Cardinality(Homed(m))]
      /\ size = Cardinality(used) + (IF wpc = "readd" THEN 1 ELSE 0)
  <2>1. /\ \A x \in used : node[x].key \in Key /\ Hash(node[x].key) \in List
        /\ lsize = [m \in List |-> Cardinality(Homed(m))]
    BY DEF Counts
  <2>2. size + 0 = Cardinality(used) + (IF wpc = "readd" THEN 1 ELSE 0)
    BY DEF Counts
  <2> QED
    BY <2>1, <2>2, HeapFacts
<1>3. /\ IsFiniteSet(used) /\ Cardinality(used) \in Nat
      /\ Cardinality(used') = Cardinality(used) + 1
  BY <1>1, <1>2, FS_Subset, FS_AddElement, FS_CardinalityType DEF TableAssumption
<1>4. \A x \in used' : node'[x].key \in Key /\ Hash(node'[x].key) \in List
  BY <1>1, <1>2
<1>5. \A m \in List : Homed(m)' = IF m = l THEN Homed(m) \cup {n} ELSE Homed(m)
  BY <1>1, <1>2 DEF Homed
<1>6. ASSUME NEW m \in List
      PROVE  Cardinality(Homed(m)') = IF m = l THEN Cardinality(Homed(m)) + 1
                                               ELSE Cardinality(Homed(m))
  <2>1. IsFiniteSet(Homed(m)) /\ n \notin Homed(m)
    BY <1>1, <1>3, FS_Subset DEF Homed
  <2> QED
    BY <1>5, <2>1, FS_AddElement
<1>7. lsize' = [m \in List |-> Cardinality(Homed(m)')]
  <2> HIDE DEF l
  <2>1. \A m \in List : lsize'[m] = IF m = l THEN Cardinality(Homed(m)) + 1
                                             ELSE Cardinality(Homed(m))
    BY <1>1, <1>2
  <2>2. lsize' = [m \in List |-> lsize'[m]]
    BY <1>1, <1>2
  <2> QED
    BY <1>6, <2>1, <2>2
<1>8. size' + (IF wpc' = "grow" THEN 1 ELSE 0) =
        Cardinality(used') + (IF wpc' \in {"shrink", "readd"} THEN 1 ELSE 0)
  BY <1>2, <1>3
<1>9. used' # {}
  BY <1>1
<1> QED
  BY <1>4, <1>7, <1>8, <1>9 DEF Counts, List

\* An entry is removed: the size of the table follows.
LEMMA RemoveCounts ==
  ASSUME TableAssumption, IInv, Counts, wpc = "idle",
         NEW k \in Key, Hash(k) \in List, NEW y \in Found(Hash(k), k), Remove(Hash(k), y),
         wpc' \in {"readd", "shrink"}, size \in Int, size' = size
  PROVE  Counts'
<1> DEFINE l == Hash(k)
<1>1. y \in used /\ node[y].key = k
  BY DEF Found, Nodes
<1>2. /\ used' = used \ {y} /\ lsize' = [lsize EXCEPT ![l] = @ - 1]
      /\ \A x \in Node \ {y} : node'[x].key = node[x].key
  BY <1>1, RemoveFacts
<1>3. /\ used \in SUBSET Node
      /\ \A x \in used : node[x].key \in Key /\ Hash(node[x].key) \in List
      /\ lsize = [m \in List |-> Cardinality(Homed(m))]
      /\ size = Cardinality(used)
  <2>1. /\ \A x \in used : node[x].key \in Key /\ Hash(node[x].key) \in List
        /\ lsize = [m \in List |-> Cardinality(Homed(m))]
    BY DEF Counts
  <2>2. size + 0 = Cardinality(used) + 0
    BY DEF Counts
  <2>3. Cardinality(used) \in Nat /\ used \in SUBSET Node
    BY HeapFacts, FS_Subset, FS_CardinalityType DEF TableAssumption
  <2> QED
    BY <2>1, <2>2, <2>3
<1>4. /\ IsFiniteSet(used) /\ Cardinality(used) \in Nat
      /\ Cardinality(used') = Cardinality(used) - 1
  BY <1>1, <1>2, <1>3, FS_Subset, FS_RemoveElement, FS_CardinalityType DEF TableAssumption
<1>5. \A x \in used' : node'[x].key \in Key /\ Hash(node'[x].key) \in List
  BY <1>2, <1>3
<1>6. \A m \in List : Homed(m)' = IF m = l THEN Homed(m) \ {y} ELSE Homed(m)
  BY <1>1, <1>2, <1>3 DEF Homed
<1>7. ASSUME NEW m \in List
      PROVE  Cardinality(Homed(m)') = IF m = l THEN Cardinality(Homed(m)) - 1
                                               ELSE Cardinality(Homed(m))
  <2>1. IsFiniteSet(Homed(m)) /\ (m = l => y \in Homed(m))
    BY <1>1, <1>4, FS_Subset DEF Homed
  <2> QED
    BY <1>6, <2>1, FS_RemoveElement
<1>8. lsize' = [m \in List |-> Cardinality(Homed(m)')]
  <2> HIDE DEF l
  <2>1. \A m \in List : lsize'[m] = IF m = l THEN Cardinality(Homed(m)) - 1
                                             ELSE Cardinality(Homed(m))
    BY <1>2, <1>3
  <2>2. lsize' = [m \in List |-> lsize'[m]]
    BY <1>2, <1>3
  <2> QED
    BY <1>7, <2>1, <2>2
<1>9. size' + (IF wpc' = "grow" THEN 1 ELSE 0) =
        Cardinality(used') + (IF wpc' \in {"shrink", "readd"} THEN 1 ELSE 0)
  BY <1>3, <1>4
<1> QED
  BY <1>5, <1>8, <1>9 DEF Counts, List

\* The sizes of the lists are numbers.
LEMMA SizesTyped ==
  ASSUME TableAssumption, IInv, Counts, wpc # "destroyed"
  PROVE  /\ lsize \in [List -> Nat] /\ Cardinality(used) \in Nat
         /\ \A l \in List : lsize[l] = Cardinality(Homed(l)) /\ IsFiniteSet(Homed(l))
<1>1. IsFiniteSet(used)
  BY HeapFacts, FS_Subset DEF TableAssumption
<1>2. \A l \in List : IsFiniteSet(Homed(l)) /\ Cardinality(Homed(l)) \in Nat
  BY <1>1, FS_Subset, FS_CardinalityType DEF Homed
<1> QED
  BY <1>1, <1>2, FS_CardinalityType DEF Counts

-----------------------------------------------------------------------------
(***************************************************************************)
(* The order of the lists.                                                 *)
(***************************************************************************)

\* A walk from the null pointer visits nothing.
LEMMA FromNull ==
  ASSUME NEW f
  PROVE  From(f, Null) = {}
<1>1. ClosedIn(f, {}) /\ {} \in SUBSET Node /\ Null \in {} \cup {Null}
  BY DEF ClosedIn
<1>2. From(f, Null) \subseteq {}
  BY <1>1, FromLeast
<1> QED
  BY <1>2

LEMMA WalksNext ==
  ASSUME \A m \in List : Nodes(m)' = Homed(m)'
  PROVE  Walks'
BY Zenon DEF Walks, List

\* An entry is added, and no link of a list changes but that of the last node.
LEMMA AddLinks ==
  ASSUME TableAssumption, IInv, IInv', Counts, InOrder,
         wpc # "destroyed", wpc' # "destroyed", ~torn,
         NEW l \in List, ~StaleTail(l), NEW k \in Key, Hash(k) = l, NEW n \in Node \ used,
         used' = used \cup {n}, node'[n].key = k,
         \A x \in used : node'[x].key = node[x].key,
         head[l] = Null =>
           /\ head' = [head EXCEPT ![l] = n]
           /\ \A x \in Node : node'[x].next = IF x = n THEN Null ELSE node[x].next,
         head[l] # Null =>
           /\ head' = head
           /\ \A x \in Node : node'[x].next = IF x = Last(l) THEN n
                                              ELSE IF x = n THEN Null ELSE node[x].next
  PROVE  /\ \A m \in List : Nodes(m)' = IF m = l THEN Nodes(l) \cup {n} ELSE Nodes(m)
         /\ node'[n].next = Null
         /\ \A m \in List \ {l} : \A x \in Nodes(m) : node'[x].next = node[x].next
         /\ \A x \in used : node[x].next # Null => node'[x].next = node[x].next
<1>1. /\ node \in Heap /\ used \in SUBSET Node /\ head \in [List -> Pointer] /\ n # Null
      /\ \A m \in List : Nodes(m) = From(node, head[m]) /\ Nodes(m) = Homed(m)
      /\ \A m \in List : Nodes(m) \subseteq used
  BY HeapFacts DEF InOrder, Walks, Homed
<1>2. node' \in Heap /\ \A m \in List : Nodes(m)' = From(node', head'[m])
  BY NextHeapFacts
<1>3. head[l] # Null => Last(l) \in Nodes(l) /\ node[Last(l)].next = Null /\ Last(l) # n
  BY <1>1, LastIsLast
<1>4. node'[n].next = Null
  BY <1>3
<1>5. \A x \in used : node[x].next # Null => node'[x].next = node[x].next
  BY <1>1, <1>3
<1>6. ASSUME NEW m \in List, m # l, NEW x \in Nodes(m)
      PROVE  node'[x].next = node[x].next
  <2>1. x \in used /\ x # n /\ x \in Homed(m)
    BY <1>1
  <2>2. head[l] # Null => x # Last(l)
    BY <1>1, <1>3, <1>6, <2>1 DEF Homed
  <2> QED
    BY <1>1, <2>1, <2>2
<1>7. ASSUME NEW m \in List, m # l PROVE Nodes(m)' = Nodes(m)
  <2>1. head'[m] = head[m] /\ head[m] \in Pointer
    BY <1>1, <1>7
  <2>2. \A x \in From(node, head[m]) : node'[x].next = node[x].next
    BY <1>1, <1>6, <1>7
  <2>3. From(node', head[m]) = From(node, head[m])
    BY <1>1, <1>2, <2>1, <2>2, FromSame
  <2> QED
    BY <1>1, <1>2, <2>1, <2>3
<1>8. Nodes(l)' = Nodes(l) \cup {n}
  <2>1. CASE head[l] = Null
    <3>1. Nodes(l) = {} /\ head'[l] = n
      BY <1>1, <2>1, FromNull
    <3>2. n \in From(node', n)
      BY <1>1, <1>2, FromClosed DEF Pointer
    <3>3. From(node', n) \subseteq {n}
      <4>1. ClosedIn(node', {n}) /\ {n} \in SUBSET Node
        BY <1>4 DEF ClosedIn
      <4> QED
        BY <4>1, FromLeast
    <3> QED
      BY <1>2, <3>1, <3>2, <3>3
  <2>2. CASE head[l] # Null
    <3>1. head[l] \in Node /\ head'[l] = head[l]
      BY <1>1, <2>2 DEF Pointer
    <3>2. /\ Last(l) \in From(node, head[l]) /\ node[Last(l)].next = Null
          /\ n \in Node /\ n \notin From(node, head[l]) /\ node'[Last(l)].next = n
      BY <1>1, <1>3, <2>2
    <3>3. \A y \in From(node, head[l]) : y # Last(l) => node'[y].next = node[y].next
      <4>1. \A y \in From(node, head[l]) : y \in Node /\ y # n
        BY <1>1
      <4> QED
        BY <2>2, <4>1
    <3>4. From(node', head[l]) = From(node, head[l]) \cup {n}
      BY <1>1, <1>2, <1>4, <3>1, <3>2, <3>3, FromAdd
    <3> QED
      BY <1>1, <1>2, <3>1, <3>4
  <2> QED
    BY <2>1, <2>2
<1> QED
  BY <1>4, <1>5, <1>6, <1>7, <1>8

LEMMA AddOrder ==
  ASSUME TableAssumption, IInv, IInv', Counts, Counts', InOrder,
         wpc # "destroyed", wpc' # "destroyed", ~torn,
         NEW k \in Key, NEW v \in Answer, Hash(k) \in List, ~StaleTail(Hash(k)),
         Add(Hash(k), k, v)
  PROVE  /\ Walks' /\ Tails'
         /\ \A q \in used \cup {Null} : From(node, q) \subseteq From(node', q)
<1> DEFINE l == Hash(k)
<1>1. PICK n \in Node \ used :
        /\ used' = used \cup {n} /\ lsize' = [lsize EXCEPT ![l] = @ + 1]
        /\ \A x \in Node : node'[x].key = IF x = n THEN k ELSE node[x].key
        /\ head[l] = Null =>
             /\ head' = [head EXCEPT ![l] = n] /\ tail' = tail
             /\ \A x \in Node : node'[x].next = IF x = n THEN Null ELSE node[x].next
        /\ head[l] # Null =>
             /\ head' = head /\ tail' = [tail EXCEPT ![l] = n]
             /\ \A x \in Node : node'[x].next = IF x = Last(l) THEN n
                                                ELSE IF x = n THEN Null ELSE node[x].next
  BY AddFacts
<1>2. /\ used \in SUBSET Node /\ node \in Heap
      /\ head \in [List -> Pointer] /\ tail \in [List -> Pointer]
      /\ \A x \in used : node[x].next \in used \cup {Null}
  BY HeapFacts
<1> HIDE DEF l
<1>3. /\ \A m \in List : Nodes(m)' = IF m = l THEN Nodes(l) \cup {n} ELSE Nodes(m)
      /\ node'[n].next = Null
      /\ \A m \in List \ {l} : \A x \in Nodes(m) : node'[x].next = node[x].next
      /\ \A x \in used : node[x].next # Null => node'[x].next = node[x].next
  <2>1. l \in List /\ Hash(k) = l /\ ~StaleTail(l)
    BY DEF l
  <2>2. node'[n].key = k /\ \A x \in used : node'[x].key = node[x].key
    BY <1>1, <1>2
  <2> QED
    BY <1>1, <2>1, <2>2, AddLinks
<1>4. \A m \in List : Homed(m)' = IF m = l THEN Homed(m) \cup {n} ELSE Homed(m)
  BY <1>1, <1>2 DEF Homed, l
<1>5. Walks'
  <2>1. \A m \in List : Nodes(m)' = Homed(m)'
    BY <1>3, <1>4 DEF InOrder, Walks
  <2> QED
    BY <2>1, WalksNext
<1>6. ASSUME NEW m \in List, lsize'[m] > 1
      PROVE  tail'[m] \in Nodes(m)' /\ node'[tail'[m]].next = Null
  <2>1. CASE m # l
    <3>1. lsize'[m] = lsize[m] /\ tail'[m] = tail[m]
      BY <1>1, <1>2, <2>1, SizesTyped
    <3>2. tail[m] \in Nodes(m) /\ node[tail[m]].next = Null
      BY <1>6, <3>1 DEF InOrder, Tails
    <3> QED
      BY <1>3, <2>1, <3>1, <3>2
  <2>2. CASE m = l /\ head[l] = Null
    <3>1. Nodes(l) = {}
      BY <2>2, HeapFacts, FromNull
    <3>2. lsize[l] = Cardinality({}) /\ lsize \in [List -> Nat]
      BY <2>2, <3>1, SizesTyped DEF InOrder, Walks
    <3>3. lsize'[l] = 1
      BY <1>1, <2>2, <3>2, FS_EmptySet
    <3> QED
      BY <1>6, <2>2, <3>3
  <2>3. CASE m = l /\ head[l] # Null
    <3>1. tail'[m] = n
      BY <1>1, <1>2, <2>3
    <3> QED
      BY <1>3, <2>3, <3>1
  <2> QED
    BY <2>1, <2>2, <2>3
<1>7. Tails'
  BY <1>6 DEF Tails, List
<1>8. ASSUME NEW q \in used \cup {Null} PROVE From(node, q) \subseteq From(node', q)
  <2>1. q \in Pointer /\ From(node, q) \subseteq used
    BY <1>2, WalkInUsed DEF Pointer
  <2>2. \A y \in From(node, q) : node[y].next # Null => node'[y].next = node[y].next
    BY <1>3, <2>1
  <2>3. node' \in Heap
    BY NextHeapFacts
  <2> QED
    BY <1>2, <2>1, <2>2, <2>3, FromGrows
<1> QED
  BY <1>5, <1>7, <1>8

\* No node of a list leads to itself.
LEMMA NoLoop ==
  ASSUME TableAssumption, IInv, wpc # "destroyed", NEW l \in List, NEW y \in Nodes(l)
  PROVE  node[y].next # y
<1> SUFFICES ASSUME node[y].next = y PROVE FALSE
  OBVIOUS
<1> DEFINE S == Nodes(l) \ {y}
<1>1. /\ y \in used /\ y # Null /\ Nodes(l) = From(node, head[l]) /\ Nodes(l) \subseteq used
      /\ node \in Heap /\ head[l] \in Pointer /\ used \in SUBSET Node
  BY HeapFacts DEF Nodes
<1>2. y # head[l]
  BY <1>1, HeapFacts
<1>3. head[l] \in S \cup {Null} /\ S \in SUBSET Node
  BY <1>1, <1>2, FromClosed
<1>4. ASSUME NEW u \in S PROVE node[u].next \in S \cup {Null}
  <2>1. u \in used /\ u # y /\ node[u].next # y
    BY <1>1, HeapFacts
  <2>2. node[u].next \in Nodes(l) \cup {Null}
    BY <1>1, FromClosed DEF ClosedIn
  <2> QED
    BY <2>1, <2>2
<1>5. ClosedIn(node, S)
  BY <1>4 DEF ClosedIn
<1> HIDE DEF S
<1>6. From(node, head[l]) \subseteq S
  BY <1>3, <1>5, FromLeast
<1> QED
  BY <1>1, <1>6 DEF S

\* An entry is removed: what a walk visits is what it visited before, but for
\* the entry.
LEMMA RemoveWalks ==
  ASSUME TableAssumption, IInv, IInv', Counts, InOrder, wpc # "destroyed", wpc' # "destroyed",
         ~torn, NEW l \in List, NEW y \in Nodes(l), Remove(l, y)
  PROVE  /\ \A m \in List : Nodes(m)' = IF m = l THEN Nodes(m) \ {y} ELSE Nodes(m)
         /\ \A q \in used \cup {Null} : q # y => From(node', q) = From(node, q) \ {y}
<1>1. /\ node \in Heap /\ used \in SUBSET Node /\ head \in [List -> Pointer]
      /\ \A m \in List : Nodes(m) = From(node, head[m]) /\ Nodes(m) = Homed(m)
      /\ \A m \in List : Nodes(m) \subseteq used /\ head[m] \in used \cup {Null}
      /\ \A x \in used : node[x].next \in used \cup {Null}
  BY HeapFacts DEF InOrder, Walks, Homed
<1>2. /\ node' \in Heap /\ \A m \in List : Nodes(m)' = From(node', head'[m])
      /\ y \in used /\ y \in Node /\ y # Null
  BY <1>1, HeapFacts, NextHeapFacts
<1>3. /\ \/ /\ y = head[l] /\ head' = [head EXCEPT ![l] = node[y].next]
            /\ \A x \in Node \ {y} : node'[x].next = node[x].next
         \/ /\ y # head[l] /\ head' = head
            /\ \E x \in Nodes(l) :
                 /\ node[x].next = y
                 /\ \A u \in Node \ {y} :
                      node'[u].next = IF u = x THEN node[y].next ELSE node[u].next
  BY <1>2, RemoveFacts
<1>4. ASSUME NEW u \in used, u # y
      PROVE  node'[u].next = IF node[u].next = y THEN node[y].next ELSE node[u].next
  <2>1. u \in Node \ {y}
    BY <1>1, <1>4
  <2>2. CASE y = head[l]
    <3>1. node[u].next # y
      BY <1>2, <2>2, HeapFacts
    <3> QED
      BY <1>3, <2>1, <2>2, <3>1
  <2>3. CASE y # head[l]
    <3>1. PICK x \in Nodes(l) :
            /\ node[x].next = y
            /\ \A w \in Node \ {y} :
                 node'[w].next = IF w = x THEN node[y].next ELSE node[w].next
      BY <1>3, <2>3
    <3>2. node[u].next = y => u = x
      BY <1>1, <1>2, <3>1, HeapFacts
    <3> QED
      BY <2>1, <3>1, <3>2
  <2> QED
    BY <2>2, <2>3
<1>5. ASSUME NEW q \in used \cup {Null}, q # y
      PROVE  From(node', q) = From(node, q) \ {y}
  <2>1. q \in Pointer /\ From(node, q) \subseteq used
    BY <1>1, WalkInUsed DEF Pointer
  <2>2. node[y].next # y
    BY NoLoop
  <2>3. \A u \in From(node, q) : u # y =>
          node'[u].next = IF node[u].next = y THEN node[y].next ELSE node[u].next
    BY <1>4, <2>1
  <2> QED
    BY <1>1, <1>2, <1>5, <2>1, <2>2, <2>3, FromBypass
<1>6. ASSUME NEW m \in List, m # l PROVE Nodes(m)' = Nodes(m)
  <2>1. head'[m] = head[m]
    BY <1>1, <1>3, <1>6
  <2>2. y \notin Nodes(m)
    BY <1>1, <1>6 DEF Homed
  <2>3. head[m] \in used \cup {Null} /\ head[m] # y
    BY <1>1, <1>2, <2>2, HeapFacts
  <2>4. From(node', head[m]) = From(node, head[m]) \ {y}
    BY <1>5, <2>3
  <2>5. Nodes(m)' = From(node', head[m]) /\ Nodes(m) = From(node, head[m])
    BY <1>1, <1>2, <2>1
  <2> QED
    BY <2>2, <2>4, <2>5
<1>7. Nodes(l)' = Nodes(l) \ {y}
  <2>1. CASE y = head[l]
    <3>1. head'[l] = node[y].next
      BY <1>1, <1>3, <2>1
    <3>2. /\ \A u \in From(node, y) : node[u].next # y
          /\ \A u \in From(node, y) : u # y => node'[u].next = node[u].next
      <4>1. \A u \in From(node, y) : u \in used /\ node[u].next # y
        BY <1>1, <1>2, <2>1, HeapFacts
      <4>2. ASSUME NEW u \in From(node, y), u # y PROVE node'[u].next = node[u].next
        BY <1>4, <4>1, <4>2
      <4> QED
        BY <4>1, <4>2
    <3>3. From(node', node[y].next) = From(node, y) \ {y}
      <4>1. PICK f, g : f = node /\ g = node'
        OBVIOUS
      <4>2. f \in Heap /\ g \in Heap /\ y \in Node
        BY <1>1, <1>2, <4>1
      <4>3. \A u \in From(f, y) : f[u].next # y
        BY <3>2, <4>1
      <4>4. \A u \in From(f, y) : u # y => g[u].next = f[u].next
        BY <3>2, <4>1
      <4>5. From(g, f[y].next) = From(f, y) \ {y}
        BY <4>2, <4>3, <4>4, FromBehind
      <4> QED
        BY <4>1, <4>5
    <3> QED
      BY <1>1, <1>2, <2>1, <3>1, <3>3
  <2>2. CASE y # head[l]
    <3>1. head' = head
      BY <1>3, <2>2
    <3> QED
      BY <1>1, <1>2, <1>5, <2>2, <3>1
  <2> QED
    BY <2>1, <2>2
<1> QED
  BY <1>5, <1>6, <1>7

LEMMA RemoveOrder ==
  ASSUME TableAssumption, IInv, IInv', Counts, Counts', InOrder,
         wpc # "destroyed", wpc' # "destroyed", ~torn,
         NEW l \in List, NEW y \in Nodes(l), Remove(l, y)
  PROVE  Walks' /\ Tails'
<1>1. \A m \in List : Nodes(m)' = IF m = l THEN Nodes(m) \ {y} ELSE Nodes(m)
  BY RemoveWalks
<1>2. /\ used \in SUBSET Node /\ y \in used /\ y \in Node /\ y # Null
      /\ tail \in [List -> Pointer] /\ head \in [List -> Pointer]
      /\ \A m \in List : Nodes(m) = Homed(m) /\ Nodes(m) \subseteq used
  BY HeapFacts DEF InOrder, Walks, Homed, Nodes
<1>3. /\ used' = used \ {y} /\ lsize' = [lsize EXCEPT ![l] = @ - 1]
      /\ \A x \in Node \ {y} : node'[x].key = node[x].key
      /\ \/ /\ y = head[l] /\ tail' = tail
            /\ \A x \in Node \ {y} : node'[x].next = node[x].next
         \/ /\ y # head[l]
            /\ \E x \in Nodes(l) :
                 /\ node[x].next = y
                 /\ tail' = IF y = tail[l] THEN [tail EXCEPT ![l] = x] ELSE tail
                 /\ \A u \in Node \ {y} :
                      node'[u].next = IF u = x THEN node[y].next ELSE node[u].next
  BY <1>2, RemoveFacts
<1>4. Walks'
  <2>1. \A m \in List : Homed(m)' = Homed(m) \ {y}
    BY <1>2, <1>3 DEF Homed
  <2>2. \A m \in List : m # l => y \notin Homed(m)
    BY <1>2 DEF Homed
  <2>3. ASSUME NEW m \in List PROVE Nodes(m)' = Homed(m)'
    <3>1. Nodes(m) = Homed(m) /\ Homed(m)' = Homed(m) \ {y}
      BY <1>2, <2>1
    <3>2. Nodes(m)' = IF m = l THEN Nodes(m) \ {y} ELSE Nodes(m)
      BY <1>1
    <3>3. m # l => y \notin Homed(m)
      BY <2>2
    <3> QED
      BY <3>1, <3>2, <3>3
  <2> QED
    BY <2>3, WalksNext
\* A node that is last stays last, unless it is the one removed.
<1>5. ASSUME NEW x \in used, x # y, node[x].next = Null PROVE node'[x].next = Null
  <2>1. x \in Node \ {y}
    BY <1>2, <1>5
  <2> QED
    BY <1>2, <1>3, <1>5, <2>1
<1>6. ASSUME NEW m \in List, lsize'[m] > 1
      PROVE  tail'[m] \in Nodes(m)' /\ node'[tail'[m]].next = Null
  <2>1. lsize \in [List -> Nat] /\ lsize'[m] = IF m = l THEN lsize[m] - 1 ELSE lsize[m]
    BY <1>3, SizesTyped
  <2>2. lsize[m] > 1
    BY <1>6, <2>1
  <2>3. tail[m] \in Nodes(m) /\ node[tail[m]].next = Null
    BY <2>2 DEF InOrder, Tails
  <2>4. CASE tail[m] # y
    <3>1. tail'[m] = tail[m]
      BY <1>2, <1>3, <2>4
    <3> QED
      BY <1>1, <1>2, <1>5, <2>3, <2>4, <3>1
  <2>5. CASE tail[m] = y
    <3>1. m = l
      BY <1>2, <2>3, <2>5 DEF Homed
    <3>2. y # head[l]
      <4> SUFFICES ASSUME y = head[l] PROVE FALSE
        OBVIOUS
      <4>1. Nodes(l) = {y}
        <5>1. /\ Nodes(l) = From(node, y) /\ node[y].next = Null /\ y \in Nodes(l)
          BY <2>3, <2>5, <3>1, HeapFacts
        <5>2. ClosedIn(node, {y}) /\ {y} \in SUBSET Node
          BY <1>2, <5>1 DEF ClosedIn
        <5>3. From(node, y) \subseteq {y}
          BY <5>2, FromLeast
        <5> QED
          BY <5>1, <5>3
      <4>2. lsize[l] = Cardinality({y})
        BY <1>2, <4>1, SizesTyped
      <4> QED
        BY <2>2, <3>1, <4>2, FS_Singleton
    <3>3. PICK x \in Nodes(l) :
            /\ node[x].next = y
            /\ tail' = IF y = tail[l] THEN [tail EXCEPT ![l] = x] ELSE tail
            /\ \A u \in Node \ {y} :
                 node'[u].next = IF u = x THEN node[y].next ELSE node[u].next
      BY <1>3, <3>2
    <3>4. x # y /\ x \in Node
      BY <1>2, <3>3, NoLoop
    <3>5. tail'[m] = x
      BY <1>2, <2>5, <3>1, <3>3
    <3>6. node'[x].next = Null
      BY <2>3, <2>5, <3>3, <3>4
    <3> QED
      BY <1>1, <3>1, <3>4, <3>5, <3>6
  <2> QED
    BY <2>4, <2>5
<1>7. Tails'
  BY <1>6 DEF Tails, List
<1> QED
  BY <1>4, <1>7

-----------------------------------------------------------------------------
(***************************************************************************)
(* What the table holds, and what a reader that is under way will find.    *)
(***************************************************************************)
\* The node a reader has still to come to stays before it.
LEMMA AheadKept ==
  ASSUME NEW f, NEW g, NEW u, NEW w, NEW at, NEW l, NEW p, NEW k,
         AheadAt(f, u, at, l, p, k),
         \A x \in u : f[x].key = k =>
           /\ x \in w /\ g[x].key = k
           /\ (at \in {"walk", "dup", "gather"} /\ x \in From(f, p)) => x \in From(g, p)
  PROVE  AheadAt(g, w, at, l, p, k)
BY DEF AheadAt

\* What a step of the writer adds to what a reader may answer.
LEMMA SeesMore ==
  ASSUME NEW k, NEW v, seen' = Sees(k, v), UNCHANGED <<rpc, rkey>>
  PROVE  /\ seen \subseteq seen' /\ (Reading /\ rkey = k => v \in seen')
         /\ ~Reading => seen' = seen
         /\ Reading' = Reading
BY DEF Sees, Reading

\* The reader finds what it has to, if the writer adds an entry meanwhile.
LEMMA AddSound ==
  ASSUME TableAssumption, IInv, IInv', Counts, InOrder, Sound, ReaderTyped, Loops,
         wpc # "destroyed", wpc' # "destroyed", ~torn, ~freed, Walks',
         NEW k \in Key, NEW v \in Value, Hash(k) \in List, Add(Hash(k), k, v),
         \A q \in used \cup {Null} : From(node, q) \subseteq From(node', q),
         \A x \in used : node[x].key # k,
         Table' = [Table EXCEPT ![k] = v], seen' = Sees(k, v),
         UNCHANGED <<rpc, rkey, ri, rp, answer, left, spoiled>>
  PROVE  Stands' /\ Finds' /\ Ends'
<1>1. PICK n \in Node \ used :
        /\ used' = used \cup {n}
        /\ \A x \in Node : node'[x].key = IF x = n THEN k ELSE node[x].key
  BY AddFacts DEF Answer
<1>2. used \in SUBSET Node /\ ri \in List
  BY HeapFacts DEF ReaderTyped
<1>3. Stands /\ Finds /\ Ends
  BY DEF Sound
<1>4. /\ seen \subseteq seen' /\ (Reading /\ rkey = k => v \in seen')
      /\ (~Reading => seen' = seen) /\ Reading' = Reading
  BY SeesMore
<1>5. Stands'
  <2>1. Nodes(ri) = Homed(ri) /\ Nodes(ri)' = Homed(ri)'
    BY <1>2 DEF InOrder, Walks, List
  <2>2. Homed(ri) \subseteq Homed(ri)'
    BY <1>1, <1>2 DEF Homed
  <2>3. \A x \in Nodes(ri) : node'[x].key = node[x].key
    BY <1>1, <1>2 DEF Nodes
  <2> QED
    BY <1>3, <2>1, <2>2, <2>3 DEF Stands
<1>6. Finds'
  <2> SUFFICES ASSUME Reading
               PROVE  /\ Table'[rkey] \in seen' /\ answer \in seen' \cup {Absent}
                      /\ answer = Absent =>
                           Absent \in seen' \/ AheadAt(node', used', rpc, ri, rp, rkey)
    BY <1>4 DEF Finds
  <2>1. rkey \in Key /\ Table[rkey] \in seen /\ answer \in seen \cup {Absent}
    BY <1>3 DEF Finds, Loops
  <2>2. Table'[rkey] = IF rkey = k THEN v ELSE Table[rkey]
    BY <2>1 DEF Table
  <2>3. Table'[rkey] \in seen' /\ answer \in seen' \cup {Absent}
    BY <1>4, <2>1, <2>2
  <2>4. ASSUME answer = Absent, Absent \notin seen'
        PROVE  AheadAt(node', used', rpc, ri, rp, rkey)
    <3>1. AheadAt(node, used, rpc, ri, rp, rkey)
      BY <1>3, <1>4, <2>4 DEF Finds
    <3>2. \A x \in used : x \in used' /\ node'[x].key = node[x].key
      BY <1>1, <1>2
    <3>3. rpc \in {"walk", "dup", "gather"} => rp \in used \cup {Null}
      BY <1>3 DEF Stands, Nodes
    <3>4. rpc \in {"walk", "dup", "gather"} => From(node, rp) \subseteq From(node', rp)
      BY <3>3
    <3> QED
      BY <3>1, <3>2, <3>4, AheadKept
  <2> QED
    BY <2>3, <2>4
<1>7. Ends'
  BY <1>3, <1>4 DEF Ends, Reading
<1> QED
  BY <1>5, <1>6, <1>7

\* So it does if the writer removes one, unless the reader stands on it.
LEMMA RemoveSound ==
  ASSUME TableAssumption, IInv, IInv', Counts, InOrder, Sound, ReaderTyped, Loops,
         wpc # "destroyed", wpc' # "destroyed", ~torn, ~freed, ~freed', Walks',
         NEW k \in Key, Hash(k) \in List,
         NEW y \in Nodes(Hash(k)), node[y].key = k, Remove(Hash(k), y),
         Table' = [Table EXCEPT ![k] = Absent], seen' = Sees(k, Absent),
         UNCHANGED <<rpc, rkey, ri, rp, answer, left, spoiled>>
  PROVE  Stands' /\ Finds' /\ Ends'
<1>1. /\ used' = used \ {y} /\ y \in used
      /\ \A x \in Node \ {y} : node'[x].key = node[x].key
  BY RemoveFacts DEF Nodes
<1>2. used \in SUBSET Node /\ ri \in List
  BY HeapFacts DEF ReaderTyped
<1>3. Stands /\ Finds /\ Ends
  BY DEF Sound
<1>4. /\ seen \subseteq seen' /\ (Reading /\ rkey = k => Absent \in seen')
      /\ (~Reading => seen' = seen) /\ Reading' = Reading
  BY SeesMore
<1>5. rpc \in {"walk", "dup", "gather"} => rp # y
  BY DEF Remove
<1>6. /\ \A m \in List : Nodes(m)' = IF m = Hash(k) THEN Nodes(m) \ {y} ELSE Nodes(m)
      /\ \A q \in used \cup {Null} : q # y => From(node', q) = From(node, q) \ {y}
  BY RemoveWalks
<1>7. Stands'
  <2>1. Nodes(ri) \ {y} \subseteq Nodes(ri)'
    BY <1>2, <1>6
  <2>2. \A x \in Nodes(ri) \ {y} : node'[x].key = node[x].key
    BY <1>1, <1>2 DEF Nodes
  <2> QED
    BY <1>3, <1>5, <2>1, <2>2 DEF Stands
<1>8. Finds'
  <2> SUFFICES ASSUME Reading
               PROVE  /\ Table'[rkey] \in seen' /\ answer \in seen' \cup {Absent}
                      /\ answer = Absent =>
                           Absent \in seen' \/ AheadAt(node', used', rpc, ri, rp, rkey)
    BY <1>4 DEF Finds
  <2>1. rkey \in Key /\ Table[rkey] \in seen /\ answer \in seen \cup {Absent}
    BY <1>3 DEF Finds, Loops
  <2>2. Table'[rkey] = IF rkey = k THEN Absent ELSE Table[rkey]
    BY <2>1 DEF Table
  <2>3. Table'[rkey] \in seen' /\ answer \in seen' \cup {Absent}
    BY <1>4, <2>1, <2>2
  <2>4. ASSUME answer = Absent, Absent \notin seen'
        PROVE  AheadAt(node', used', rpc, ri, rp, rkey)
    <3>1. AheadAt(node, used, rpc, ri, rp, rkey) /\ rkey # k
      BY <1>3, <1>4, <2>4 DEF Finds
    <3>2. \A x \in used : node[x].key = rkey => /\ x # y /\ x \in used'
                                                /\ node'[x].key = rkey
      BY <1>1, <1>2, <3>1
    <3>3. rpc \in {"walk", "dup", "gather"} => rp \in used \cup {Null}
      BY <1>3 DEF Stands, Nodes
    <3>4. rpc \in {"walk", "dup", "gather"} => From(node', rp) = From(node, rp) \ {y}
      BY <1>5, <1>6, <3>3
    <3>5. \A x \in used : node[x].key = rkey =>
            /\ x \in used' /\ node'[x].key = rkey
            /\ (rpc \in {"walk", "dup", "gather"} /\ x \in From(node, rp)) => x \in From(node', rp)
      BY <3>2, <3>4
    <3> QED
      BY <3>1, <3>5, AheadKept
  <2> QED
    BY <2>3, <2>4
<1>9. Ends'
  BY <1>3, <1>4 DEF Ends, Reading
<1> QED
  BY <1>7, <1>8, <1>9

-----------------------------------------------------------------------------
(***************************************************************************)
(* The steps of the writer.                                                *)
(***************************************************************************)

LEMMA TableTyped ==
  ASSUME TableAssumption, ReaderTyped
  PROVE  Table \in [Key -> Answer]
BY DEF Table, Holds, ReaderTyped, Answer

LEMMA NextSizes ==
  ASSUME TableAssumption, IInv', Counts', wpc' # "destroyed"
  PROVE  lsize' \in [List -> Nat]
<1>1. IsFiniteSet(used')
  BY NextHeapFacts, FS_Subset DEF TableAssumption
<1>2. \A l \in List : Homed(l)' \in SUBSET used'
  BY DEF Homed
<1>3. \A l \in List : Cardinality(Homed(l)') \in Nat
  BY <1>1, <1>2, FS_Subset, FS_CardinalityType
<1> QED
  BY <1>3 DEF Counts, List

LEMMA AddContents ==
  ASSUME Contents, Table \in [Key -> Answer], NEW n \in Node \ used, used' = used \cup {n},
         NEW k \in Key, NEW v \in Value, Table' = [Table EXCEPT ![k] = v],
         \A x \in used : node[x].key \in Key /\ node[x].key # k,
         \A x \in used : node'[x].key = node[x].key /\ node'[x].val = node[x].val,
         node'[n].key = k, node'[n].val = v
  PROVE  Contents'
<1>1. \A j \in Key : Table'[j] = IF j = k THEN v ELSE Table[j]
  OBVIOUS
<1>2. \A x \in used' : node'[x].val = Table'[node'[x].key] /\ node'[x].val \in Value
  BY <1>1 DEF Contents, Held
<1>3. \A x, y \in used' : node'[x].key = node'[y].key => x = y
  BY DEF Contents, Held
<1>4. \A j \in Key : Table'[j] # Absent => \E x \in used' : node'[x].key = j
  BY <1>1 DEF Contents, Held
<1> QED
  BY <1>2, <1>3, <1>4 DEF Contents, Held

LEMMA RemoveContents ==
  ASSUME Contents, Table \in [Key -> Answer], NEW y \in used, used' = used \ {y},
         NEW k \in Key, Table' = [Table EXCEPT ![k] = Absent], node[y].key = k,
         \A x \in used : node[x].key \in Key,
         \A x \in used \ {y} : node'[x].key = node[x].key /\ node'[x].val = node[x].val
  PROVE  Contents'
<1>1. \A j \in Key : Table'[j] = IF j = k THEN Absent ELSE Table[j]
  OBVIOUS
<1>2. \A x \in used' : node[x].key # k
  BY DEF Contents, Held
<1>3. \A x \in used' : node'[x].val = Table'[node'[x].key] /\ node'[x].val \in Value
  BY <1>1, <1>2 DEF Contents, Held
<1>4. \A x, z \in used' : node'[x].key = node'[z].key => x = z
  BY DEF Contents, Held
<1>5. \A j \in Key : Table'[j] # Absent => \E x \in used' : node'[x].key = j
  BY <1>1 DEF Contents, Held
<1> QED
  BY <1>3, <1>4, <1>5 DEF Contents, Held

\* PutNew and Readd.
LEMMA AddKeeps ==
  ASSUME TableAssumption, HInv, IInv',
         NEW k \in Key, NEW v \in Value, Hash(k) \in List, Add(Hash(k), k, v),
         \/ wpc = "idle" /\ wpc' = "grow"
         \/ wpc = "readd" /\ wpc' = "idle",
         ~torn => \A x \in used : node[x].key # k,
         Table' = [Table EXCEPT ![k] = v], seen' = Sees(k, v),
         expected' = [expected EXCEPT ![k] = v],
         UNCHANGED <<size, readerVars, up, freed, spoiled, late>>
  PROVE  HInv'
<1> USE DEF readerVars, keysVars
<1>1. /\ IInv /\ Counts /\ InOrder /\ ReaderTyped /\ Loops /\ Sound
      /\ wpc # "destroyed" /\ wpc' # "destroyed" /\ v \in Answer /\ size \in Int
  BY DEF HInv, ReaderTyped, Answer
<1>2. Counts'
  BY <1>1, AddCounts
<1>3. /\ torn' = (torn \/ StaleTail(Hash(k)))
      /\ lsize' = [lsize EXCEPT ![Hash(k)] = @ + 1]
  BY DEF Add
<1>4. Carrying'
  BY DEF Carrying
<1>5. seen' \subseteq Answer /\ expected' \in [Key -> Answer]
  BY <1>1 DEF ReaderTyped, Sees
<1>6. ReaderTyped'
  <2>1. torn' \in BOOLEAN
    BY <1>3
  <2>2. lsize' \in [List -> Nat]
    BY <1>1, <1>3 DEF ReaderTyped
  <2> QED
    BY <1>1, <1>5, <2>1, <2>2 DEF ReaderTyped, List, Pointer, Answer
<1>7. Loops'
  BY <1>1 DEF Loops, Reading
<1>8. ASSUME ~torn' PROVE Walks' /\ Tails' /\ Contents'
  <2>1. ~torn /\ ~StaleTail(Hash(k))
    BY <1>3, <1>8
  <2>2. Walks' /\ Tails'
    BY <1>1, <1>2, <2>1, AddOrder
  <2>3. PICK n \in Node \ used :
          /\ used' = used \cup {n}
          /\ \A x \in Node :
               /\ node'[x].key = IF x = n THEN k ELSE node[x].key
               /\ node'[x].val = IF x = n THEN v ELSE node[x].val
    BY <1>1, AddFacts
  <2>4. Contents'
    <3>1. used \in SUBSET Node /\ \A x \in used : node[x].key \in Key /\ node[x].key # k
      BY <1>1, <2>1, HeapFacts DEF Counts
    <3>2. /\ \A x \in used : node'[x].key = node[x].key /\ node'[x].val = node[x].val
          /\ node'[n].key = k /\ node'[n].val = v /\ n \notin used
      BY <2>3, <3>1
    <3>3. Contents /\ Table \in [Key -> Answer]
      BY <1>1, <2>1, TableTyped DEF InOrder
    <3> QED
      BY <2>3, <3>1, <3>2, <3>3, AddContents
  <2> QED
    BY <2>2, <2>4
<1>9. InOrder'
  BY <1>8 DEF InOrder
<1>10. Sound'
  <2> SUFFICES ASSUME ~torn', ~freed' PROVE Stands' /\ Finds' /\ Ends'
    BY DEF Sound
  <2>1. ~torn /\ ~StaleTail(Hash(k)) /\ ~freed /\ Walks'
    BY <1>3, <1>8
  <2>2. \A q \in used \cup {Null} : From(node, q) \subseteq From(node', q)
    BY <1>1, <1>2, <2>1, AddOrder
  <2> QED
    BY <1>1, <2>1, <2>2, AddSound
<1> QED
  BY <1>2, <1>4, <1>6, <1>7, <1>9, <1>10 DEF HInv

\* PutOld and Del.
LEMMA RemoveKeeps ==
  ASSUME TableAssumption, HInv, IInv', wpc = "idle", wpc' \in {"readd", "shrink"},
         NEW k \in Key, Hash(k) \in List, NEW y \in Found(Hash(k), k), Remove(Hash(k), y),
         Table' = [Table EXCEPT ![k] = Absent], seen' = Sees(k, Absent),
         expected' \in [Key -> Answer], Carrying',
         UNCHANGED <<size, readerVars, up, spoiled, torn, late>>
  PROVE  HInv'
<1> USE DEF readerVars, keysVars
<1>1. /\ IInv /\ Counts /\ InOrder /\ ReaderTyped /\ Loops /\ Sound
      /\ wpc # "destroyed" /\ wpc' # "destroyed" /\ size \in Int
  BY DEF HInv, ReaderTyped
<1>2. Counts'
  BY <1>1, RemoveCounts
<1>3. y \in Nodes(Hash(k)) /\ node[y].key = k /\ y \in used
  BY DEF Found, Nodes
<1>4. /\ freed' = (freed \/ (rpc \in {"walk", "dup", "gather"} /\ rp = y))
      /\ lsize' = [lsize EXCEPT ![Hash(k)] = @ - 1]
  BY DEF Remove
<1>5. ReaderTyped'
  <2>1. freed' \in BOOLEAN /\ seen' \subseteq Answer
    BY <1>1, <1>4 DEF ReaderTyped, Sees, Answer
  <2>2. lsize' \in [List -> Nat]
    BY <1>1, <1>2, NextSizes
  <2> QED
    BY <1>1, <2>1, <2>2 DEF ReaderTyped, List, Pointer, Answer
<1>6. Loops'
  BY <1>1 DEF Loops, Reading
<1>7. ASSUME ~torn' PROVE Walks' /\ Tails' /\ Contents'
  <2>1. Walks' /\ Tails'
    BY <1>1, <1>2, <1>3, <1>7, RemoveOrder
  <2>2. /\ used' = used \ {y}
        /\ \A x \in Node \ {y} : node'[x].key = node[x].key /\ node'[x].val = node[x].val
    BY <1>1, <1>3, RemoveFacts
  <2>3. Contents'
    <3>1. used \in SUBSET Node /\ \A x \in used : node[x].key \in Key
      BY <1>1, HeapFacts DEF Counts
    <3>2. \A x \in used \ {y} : node'[x].key = node[x].key /\ node'[x].val = node[x].val
      BY <2>2, <3>1
    <3>3. Contents /\ Table \in [Key -> Answer]
      BY <1>1, <1>7, TableTyped DEF InOrder
    <3> QED
      BY <1>3, <2>2, <3>1, <3>2, <3>3, RemoveContents
  <2> QED
    BY <2>1, <2>3
<1>8. InOrder'
  BY <1>7 DEF InOrder
<1>9. Sound'
  <2> SUFFICES ASSUME ~torn', ~freed' PROVE Stands' /\ Finds' /\ Ends'
    BY DEF Sound
  <2>1. ~torn /\ ~freed /\ Walks'
    BY <1>4, <1>7
  <2> QED
    BY <1>1, <1>3, <2>1, RemoveSound
<1> QED
  BY <1>2, <1>5, <1>6, <1>8, <1>9 DEF HInv

LEMMA PutNewKeeps ==
  ASSUME TableAssumption, HInv, IInv', NEW k \in Key, NEW v \in Value, PutNew(k, v)
  PROVE  HInv'
<1>1. /\ Counts /\ InOrder /\ ReaderTyped /\ IInv /\ wpc = "idle" /\ wpc' = "grow"
      /\ Hash(k) \in List /\ Found(Hash(k), k) = {} /\ Add(Hash(k), k, v)
      /\ expected' = [expected EXCEPT ![k] = v] /\ seen' = Sees(k, v)
      /\ UNCHANGED <<size, readerVars, up, freed, spoiled, late>>
  BY DEF HInv, PutNew, Indexed
<1>2. ASSUME ~torn, NEW x \in used PROVE node[x].key # k
  <2>1. Nodes(Hash(k)) = Homed(Hash(k)) /\ x \notin Found(Hash(k), k)
    BY <1>1, <1>2 DEF InOrder, Walks
  <2> QED
    BY <2>1 DEF Homed, Found
<1>3. Table = expected /\ Table' = expected'
  <2>1. expected \in [Key -> Answer] /\ expected' \in [Key -> Answer]
    BY <1>1 DEF ReaderTyped, Answer
  <2> QED
    BY <1>1, <2>1 DEF Table, Holds
<1> QED
  BY <1>1, <1>2, <1>3, AddKeeps

LEMMA ReaddKeeps ==
  ASSUME TableAssumption, HInv, IInv', Readd
  PROVE  HInv'
<1> DEFINE k == went.key
           v == went.val
<1>1. /\ Counts /\ InOrder /\ ReaderTyped /\ IInv /\ wpc = "readd" /\ wpc' = "idle"
      /\ Add(Hash(k), k, v)
      /\ expected' = [expected EXCEPT ![k] = v] /\ seen' = Sees(k, v)
      /\ UNCHANGED <<size, readerVars, up, freed, spoiled, late>>
  BY DEF HInv, Readd
<1>2. k \in Key /\ v \in Value /\ Hash(k) \in List
  BY <1>1 DEF HInv, Carrying, IInv, HasList
<1> HIDE DEF k, v
<1>3. /\ Table = [j \in Key |-> IF j = k THEN Absent ELSE expected[j]]
      /\ Table' = expected' /\ expected \in [Key -> Answer]
  <2>1. expected \in [Key -> Answer] /\ expected' \in [Key -> Answer]
    BY <1>1, <1>2 DEF ReaderTyped, Answer
  <2> QED
    BY <1>1, <2>1 DEF Table, Holds, k
<1>4. Table' = [Table EXCEPT ![k] = v]
  BY <1>1, <1>2, <1>3
<1>5. ASSUME ~torn, NEW x \in used PROVE node[x].key # k
  <2>1. node[x].val = Table[node[x].key] /\ node[x].val \in Value
    BY <1>1, <1>5 DEF InOrder, Contents, Held
  <2>2. Table[k] = Absent
    BY <1>2, <1>3
  <2> QED
    BY <2>1, <2>2 DEF TableAssumption
<1> QED
  BY <1>1, <1>2, <1>4, <1>5, AddKeeps

LEMMA PutOldKeeps ==
  ASSUME TableAssumption, HInv, IInv', NEW k \in Key, NEW v \in Value, PutOld(k, v)
  PROVE  HInv'
<1>1. /\ ReaderTyped /\ wpc = "idle" /\ wpc' = "readd" /\ Hash(k) \in List
      /\ went' = [key |-> k, val |-> v, next |-> Null] /\ seen' = Sees(k, Absent)
      /\ UNCHANGED <<size, readerVars, up, expected, spoiled, torn, late>>
  BY DEF HInv, PutOld, Indexed
<1>2. PICK y \in Found(Hash(k), k) : Remove(Hash(k), y)
  BY DEF PutOld
<1>3. went'.key = k /\ went'.val = v
  BY <1>1
<1>4. Carrying' /\ expected' \in [Key -> Answer]
  BY <1>1, <1>3 DEF Carrying, ReaderTyped, Answer
<1>5. Table' = [Table EXCEPT ![k] = Absent]
  BY <1>1, <1>3 DEF Table, Holds
<1> QED
  BY <1>1, <1>2, <1>4, <1>5, RemoveKeeps

LEMMA DelKeeps ==
  ASSUME TableAssumption, HInv, IInv', NEW k \in Key, Del(k)
  PROVE  HInv'
<1>1. /\ ReaderTyped /\ wpc = "idle" /\ wpc' = "shrink" /\ Hash(k) \in List
      /\ expected' = [expected EXCEPT ![k] = Absent] /\ seen' = Sees(k, Absent)
      /\ UNCHANGED <<size, went, readerVars, up, spoiled, torn, late>>
  BY DEF HInv, Del, Indexed
<1>2. PICK y \in Found(Hash(k), k) : Remove(Hash(k), y)
  BY DEF Del
<1>3. Carrying' /\ expected' \in [Key -> Answer]
  BY <1>1 DEF Carrying, ReaderTyped, Answer
<1>4. Table' = [Table EXCEPT ![k] = Absent]
  BY <1>1 DEF Table, Holds, ReaderTyped
<1> QED
  BY <1>1, <1>2, <1>3, <1>4, RemoveKeeps

-----------------------------------------------------------------------------
(***************************************************************************)
(* The steps that leave the lists alone.                                   *)
(***************************************************************************)
LEMMA SameLists ==
  ASSUME UNCHANGED <<listVars, heapVars>>
  PROVE  /\ \A l \in List : Nodes(l)' = Nodes(l) /\ Homed(l)' = Homed(l)
         /\ List' = List
         /\ Walks => Walks'
         /\ Tails => Tails'
<1> USE DEF listVars, heapVars
<1>1. ASSUME NEW l \in List PROVE Nodes(l)' = Nodes(l) /\ Homed(l)' = Homed(l)
  <2>1. Reached(head[l])' = Reached(head[l])
    BY DEF Reached
  <2> QED
    BY <2>1 DEF Nodes, Homed
<1>2. Walks => Walks'
  BY <1>1 DEF Walks, List
<1>3. Tails => Tails'
  BY <1>1 DEF Tails, List
<1> QED
  BY <1>1, <1>2, <1>3 DEF List

\* What the writer does not touch stays as it was.
LEMMA SameTable ==
  ASSUME HInv, UNCHANGED <<listVars, heapVars, size, wpc, went, expected, torn>>
  PROVE  Counts' /\ InOrder' /\ Carrying' /\ Table' = Table
<1>1. Table' = Table
  BY DEF Table, Holds
<1>2. \A l \in List : Cardinality(Homed(l))' = Cardinality(Homed(l))
  BY SameLists
<1>3. Counts'
  BY <1>2 DEF HInv, Counts, heapVars, listVars, List, Hash
<1>4. Contents => Contents'
  BY <1>1 DEF Contents, heapVars, Held
<1>5. InOrder'
  BY <1>4, SameLists DEF HInv, InOrder
<1>6. Carrying'
  BY DEF HInv, Carrying
<1> QED
  BY <1>1, <1>3, <1>5, <1>6

LEMMA SameSound ==
  ASSUME HInv, Table' = Table, UNCHANGED <<listVars, heapVars, readerVars, history>>
  PROVE  Sound'
<1> USE DEF readerVars, keysVars, history
<1>1. Stands => Stands'
  BY SameLists DEF Stands, HInv, ReaderTyped, heapVars
<1>2. Finds => Finds'
  BY DEF Finds, Reading, heapVars, AheadAt, From, ClosedIn
<1>3. Ends => Ends'
  BY DEF Ends
<1> QED
  BY <1>1, <1>2, <1>3 DEF HInv, Sound

\* The process stops.
LEMMA StopKeeps ==
  ASSUME TableAssumption, HInv, IInv', up' \in BOOLEAN,
         UNCHANGED <<listVars, heapVars, size, wpc, went, readerVars, history>>
  PROVE  HInv'
<1>1. Counts' /\ InOrder' /\ Carrying' /\ Table' = Table
  BY SameTable DEF history
<1>2. ReaderTyped'
  BY DEF HInv, ReaderTyped, listVars, readerVars, keysVars, history, List, Pointer, Answer
<1>3. Loops'
  BY DEF HInv, Loops, Reading, heapVars, readerVars, keysVars, history
<1>4. Sound'
  BY <1>1, SameSound
<1> QED
  BY <1>1, <1>2, <1>3, <1>4 DEF HInv

\* Grow and Shrink: the size of the table follows the entry.
LEMMA SizeKeeps ==
  ASSUME TableAssumption, HInv, IInv', wpc' = "idle",
         \/ wpc = "grow" /\ size' = size + 1
         \/ wpc = "shrink" /\ size' = size - 1,
         UNCHANGED <<listVars, heapVars, went, readerVars, up, history>>
  PROVE  HInv'
<1>1. Table' = Table
  BY DEF Table, Holds, history
<1>2. size \in Int /\ size' \in Int
  BY DEF HInv, ReaderTyped
<1>3. Cardinality(used) \in Nat
  BY SizesTyped DEF HInv
<1>4. Counts'
  <2>1. \A l \in List : Cardinality(Homed(l))' = Cardinality(Homed(l))
    BY SameLists
  <2>2. size' = Cardinality(used)
    BY <1>2, <1>3 DEF HInv, Counts
  <2> QED
    BY <1>3, <2>1, <2>2 DEF HInv, Counts, heapVars, listVars, List, Hash
<1>5. Contents => Contents'
  BY <1>1 DEF Contents, heapVars, Held
<1>6. InOrder' /\ Carrying'
  BY <1>5, SameLists DEF HInv, InOrder, Carrying, history
<1>7. ReaderTyped'
  BY <1>2 DEF HInv, ReaderTyped, listVars, readerVars, keysVars, history, List, Pointer, Answer
<1>8. Loops'
  BY DEF HInv, Loops, Reading, heapVars, readerVars, keysVars, history
<1>9. Sound'
  BY <1>1, SameSound
<1> QED
  BY <1>4, <1>6, <1>7, <1>8, <1>9 DEF HInv

LEMMA SizeIsNat ==
  ASSUME TableAssumption, HInv
  PROVE  size \in Nat
<1>1. size \in Int /\ (wpc = "destroyed" => size >= 0)
  BY DEF HInv, ReaderTyped
<1>2. CASE wpc # "destroyed"
  <2>1. Cardinality(used) \in Nat /\ IsFiniteSet(used)
    BY <1>2, HeapFacts, SizesTyped, FS_Subset DEF HInv, TableAssumption
  <2>2. wpc = "grow" => Cardinality(used) # 0
    BY <1>2, <2>1, FS_EmptySet DEF HInv, Counts
  <2>3. size + (IF wpc = "grow" THEN 1 ELSE 0) =
          Cardinality(used) + (IF wpc \in {"shrink", "readd"} THEN 1 ELSE 0)
    BY <1>2 DEF HInv, Counts
  <2> QED
    BY <1>1, <2>1, <2>2, <2>3
<1> QED
  BY <1>1, <1>2

LEMMA DestroyKeeps ==
  ASSUME TableAssumption, HInv, IInv', Destroy
  PROVE  HInv'
<1> USE DEF readerVars, keysVars, history
<1>1. /\ IInv /\ Counts /\ InOrder /\ ReaderTyped /\ Loops /\ wpc # "destroyed"
      /\ rpc = "idle" /\ wpc' = "destroyed" /\ used' = used \ UNION {Nodes(l) : l \in List}
      /\ UNCHANGED <<listVars, size, readerVars, up, history>>
  BY DEF HInv, Destroy
<1>2. size >= 0
  BY SizeIsNat
<1>3. ASSUME ~torn, NEW x \in used PROVE x \notin used'
  <2>1. Hash(node[x].key) \in List /\ x \in Homed(Hash(node[x].key))
    BY <1>1 DEF Counts, Homed
  <2>2. x \in Nodes(Hash(node[x].key))
    BY <1>1, <1>3, <2>1 DEF InOrder, Walks
  <2> QED
    BY <1>1, <2>1, <2>2
<1>4. ReaderTyped'
  BY <1>1, <1>2 DEF ReaderTyped, listVars, List, Pointer, Answer
<1>5. Loops'
  <2>1. (~torn' /\ ~late') => used' = {}
    BY <1>1, <1>3
  <2> QED
    BY <1>1, <2>1 DEF Loops, Reading
<1>6. Counts' /\ InOrder' /\ Carrying'
  BY <1>1 DEF Counts, InOrder, Carrying
<1>7. Sound'
  BY <1>1 DEF Sound, Stands, Finds, Ends, Reading
<1> QED
  BY <1>4, <1>5, <1>6, <1>7 DEF HInv

\* The writer allocates a node after the lists were destroyed.
LEMMA LateKeeps ==
  ASSUME TableAssumption, HInv, IInv', WriteToFreed, ~Crash
  PROVE  HInv'
<1> USE DEF readerVars, keysVars
<1>1. /\ ReaderTyped /\ Loops /\ wpc = "destroyed" /\ wpc' = "destroyed" /\ late' = TRUE
      /\ UNCHANGED <<listVars, node, size, readerVars, up, expected, seen, freed,
                     spoiled, torn>>
  BY DEF HInv, WriteToFreed
<1>2. rpc = "idle"
  BY <1>1 DEF Loops
<1>3. ReaderTyped'
  BY <1>1 DEF ReaderTyped, listVars, List, Pointer, Answer
<1>4. Loops'
  BY <1>1, <1>2 DEF Loops, Reading
<1>5. Counts' /\ InOrder' /\ Carrying'
  BY <1>1 DEF Counts, InOrder, Carrying
<1>6. Sound'
  BY <1>1, <1>2 DEF Sound, Stands, Finds, Ends, Reading
<1> QED
  BY <1>3, <1>4, <1>5, <1>6 DEF HInv

-----------------------------------------------------------------------------
(***************************************************************************)
(* The steps of the reader.                                                *)
(***************************************************************************)

\* A walk visits its first node and what a walk from the next one visits.
LEMMA FromStep ==
  ASSUME TableAssumption, NEW f \in Heap, NEW p \in Node
  PROVE  From(f, p) \subseteq {p} \cup From(f, f[p].next)
<1> DEFINE q == f[p].next
           S == {p} \cup From(f, q)
<1>1. q \in Pointer
  BY DEF Heap, NodeType
<1> HIDE DEF q
<1>2. From(f, q) \in SUBSET Node /\ q \in From(f, q) \cup {Null} /\ ClosedIn(f, From(f, q))
  BY <1>1, FromClosed
<1>3. S \in SUBSET Node /\ p \in S \cup {Null}
  BY <1>2
<1>4. ClosedIn(f, S)
  BY <1>2 DEF ClosedIn, q
<1> HIDE DEF S
<1>5. From(f, p) \subseteq S
  BY <1>3, <1>4, FromLeast
<1> QED
  BY <1>5 DEF S, q

\* What a reader has to know of the lists.
LEMMA ReaderFacts ==
  ASSUME TableAssumption, HInv, wpc # "destroyed"
  PROVE  /\ ri \in List /\ rp \in Pointer /\ answer \in Answer /\ node \in Heap
         /\ used \in SUBSET Node /\ head \in [List -> Pointer]
         /\ lsize \in [List -> Nat] /\ left \in Nat
         /\ \A l \in List : /\ Nodes(l) \subseteq used
                            /\ Nodes(l) = From(node, head[l])
                            /\ head[l] \in Nodes(l) \cup {Null}
                            /\ lsize[l] = 0 => Homed(l) = {}
         /\ \A x \in used : node[x].key \in Key /\ Hash(node[x].key) \in List
         /\ ~torn => /\ \A x \in used : x \in Nodes(Hash(node[x].key))
                     /\ \A x \in used : node[x].val = Table[node[x].key] /\ node[x].val # Absent
                     /\ \A k \in Key : Table[k] # Absent => \E x \in used : node[x].key = k
<1>1. IInv /\ Counts /\ InOrder /\ ReaderTyped
  BY DEF HInv
<1>2. \A l \in List : /\ Nodes(l) \subseteq used
                      /\ Nodes(l) = From(node, head[l])
                      /\ head[l] \in Nodes(l) \cup {Null}
  BY <1>1, HeapFacts DEF Nodes
<1>3. \A l \in List : lsize[l] = 0 => Homed(l) = {}
  BY <1>1, SizesTyped, FS_EmptySet
<1>4. \A x \in used : node[x].key \in Key /\ Hash(node[x].key) \in List
  BY <1>1 DEF Counts
<1>5. ASSUME ~torn
      PROVE  /\ \A x \in used : x \in Nodes(Hash(node[x].key))
             /\ \A x \in used : node[x].val = Table[node[x].key] /\ node[x].val # Absent
             /\ \A k \in Key : Table[k] # Absent => \E x \in used : node[x].key = k
  <2>1. Walks /\ Contents
    BY <1>1, <1>5 DEF InOrder
  <2>2. \A x \in used : x \in Nodes(Hash(node[x].key))
    BY <1>4, <2>1 DEF Walks, Homed
  <2> QED
    BY <2>1, <2>2 DEF Contents, Held, TableAssumption
<1> QED
  BY <1>1, <1>2, <1>3, <1>4, <1>5, HeapFacts DEF ReaderTyped

\* A step of the reader keeps the invariant if it keeps what its own variables
\* say.
LEMMA ReaderKeeps ==
  ASSUME TableAssumption, HInv, IInv',
         UNCHANGED <<listVars, heapVars, size, wpc, went, up, expected, torn, late>>,
         rpc' \in {"idle", "walk", "dup", "list", "gather", "copy", "done"},
         rkey' \in Key \cup {Null}, ri' \in List, rp' \in Pointer, answer' \in Answer,
         copied' \in Nat, room' \in Nat, left' \in Nat, seen' \subseteq Answer,
         freed' \in BOOLEAN, spoiled' \in BOOLEAN, Loops',
         (~torn /\ ~freed') => Stands' /\ Finds' /\ Ends'
  PROVE  HInv'
<1>1. Counts' /\ InOrder' /\ Carrying'
  BY SameTable
<1>2. ReaderTyped'
  BY DEF HInv, ReaderTyped, listVars, List, Pointer, Answer
<1>3. Sound'
  BY DEF Sound
<1> QED
  BY <1>1, <1>2, <1>3 DEF HInv

LEMMA StartTyped ==
  ASSUME TableAssumption, HInv, NEW k \in Key
  PROVE  Holds(k) \in Answer /\ Table[k] = Holds(k) /\ 0 \in List
<1>1. 0 \in List
  BY DEF List, TableAssumption
<1> QED
  BY <1>1 DEF HInv, ReaderTyped, Holds, Answer, Table

\* StartGet: every node is ahead.
LEMMA StartGetKeeps ==
  ASSUME TableAssumption, HInv, IInv', NEW k \in Key, StartGet(k)
  PROVE  HInv'
<1>1. /\ rpc = "idle" /\ wpc # "destroyed" /\ rpc' = "walk" /\ rkey' = k /\ ri' = 0
      /\ rp' = head[0] /\ seen' = {Holds(k)} /\ freed' = FALSE
      /\ UNCHANGED <<listVars, heapVars, size, wpc, went, answer, copied, room, left, up,
                     expected, spoiled, torn, late>>
  BY DEF StartGet, Start
<1>2. Holds(k) \in Answer /\ Table[k] = Holds(k) /\ 0 \in List /\ Table' = Table
  BY <1>1, StartTyped, SameTable
<1>3. left = 0 /\ answer = Absent /\ ~spoiled
  BY <1>1 DEF HInv, Loops
<1>4. Loops'
  BY <1>1, <1>3 DEF HInv, Loops, Reading
<1>5. ASSUME ~torn PROVE Stands' /\ Finds' /\ Ends'
  <2>1. Stands'
    BY <1>1, <1>2, ReaderFacts, SameLists DEF Stands
  <2>2. Holds(k) # Absent => AheadAt(node, used, "walk", 0, head[0], k)
    <3> SUFFICES ASSUME Holds(k) # Absent PROVE AheadAt(node, used, "walk", 0, head[0], k)
      OBVIOUS
    <3>1. PICK x \in used : node[x].key = k /\ x \in Nodes(Hash(k))
      BY <1>1, <1>2, <1>5, ReaderFacts
    <3>2. Hash(k) \in List /\ (Hash(k) = 0 => x \in From(node, head[0]))
      BY <1>1, <1>2, <3>1, ReaderFacts
    <3>3. Hash(k) > 0 \/ Hash(k) = 0
      BY <3>2 DEF List
    <3> QED
      BY <3>1, <3>2, <3>3 DEF AheadAt
  <2>3. Finds'
    BY <1>1, <1>2, <1>3, <2>2 DEF Finds, heapVars
  <2>4. Ends'
    BY <1>1 DEF Ends
  <2> QED
    BY <2>1, <2>3, <2>4
<1>6. /\ rp' \in Pointer /\ answer' \in Answer /\ copied' \in Nat /\ room' \in Nat
      /\ left' \in Nat /\ spoiled' \in BOOLEAN /\ seen' \subseteq Answer
  BY <1>1, <1>2, ReaderFacts DEF HInv, ReaderTyped
<1> QED
  BY <1>1, <1>2, <1>4, <1>5, <1>6, ReaderKeeps

LEMMA StartKeysKeeps ==
  ASSUME TableAssumption, HInv, IInv', NEW k \in Key, StartKeys(k)
  PROVE  HInv'
<1>1. /\ rpc = "idle" /\ wpc # "destroyed" /\ rpc' = "list" /\ rkey' = k /\ ri' = 0
      /\ left' = size + 1 /\ seen' = {Holds(k)} /\ freed' = FALSE
      /\ UNCHANGED <<listVars, heapVars, size, wpc, went, rp, answer, copied, room, up,
                     expected, spoiled, torn, late>>
  BY DEF StartKeys, Start
<1>2. Holds(k) \in Answer /\ Table[k] = Holds(k) /\ 0 \in List /\ Table' = Table
  BY <1>1, StartTyped, SameTable
<1>3. answer = Absent /\ ~spoiled /\ left' \in Nat /\ left' > 0
  BY <1>1, SizeIsNat DEF HInv, Loops
<1>4. Loops'
  BY <1>1, <1>3 DEF HInv, Loops, Reading
<1>5. ASSUME ~torn PROVE Stands' /\ Finds' /\ Ends'
  <2>1. Stands' /\ Ends'
    BY <1>1 DEF Stands, Ends
  <2>2. Holds(k) # Absent => AheadAt(node, used, "list", 0, rp, k)
    <3> SUFFICES ASSUME Holds(k) # Absent PROVE AheadAt(node, used, "list", 0, rp, k)
      OBVIOUS
    <3>1. PICK x \in used : node[x].key = k /\ Hash(k) \in List
      BY <1>1, <1>2, <1>5, ReaderFacts
    <3>2. Hash(k) > 0 \/ Hash(k) = 0
      BY <3>1 DEF List
    <3> QED
      BY <3>1, <3>2 DEF AheadAt
  <2>3. Finds'
    BY <1>1, <1>2, <1>3, <2>2 DEF Finds, heapVars
  <2> QED
    BY <2>1, <2>3
<1>6. /\ rp' \in Pointer /\ answer' \in Answer /\ copied' \in Nat /\ room' \in Nat
      /\ spoiled' \in BOOLEAN /\ seen' \subseteq Answer
  BY <1>1, <1>2 DEF HInv, ReaderTyped
<1> QED
  BY <1>1, <1>2, <1>3, <1>4, <1>5, <1>6, ReaderKeeps

\* A reader that is under way.
LEMMA UnderWay ==
  ASSUME TableAssumption, HInv, Reading
  PROVE  /\ wpc # "destroyed" /\ rkey \in Key /\ ~spoiled
         /\ copied \in Nat /\ room \in Nat /\ left \in Nat /\ seen \subseteq Answer
         /\ freed \in BOOLEAN /\ spoiled \in BOOLEAN
         /\ rpc \in {"walk", "dup"} => left = 0 /\ answer = Absent
         /\ rpc \notin {"walk", "dup"} => left > 0
         /\ (~torn /\ ~freed) =>
              /\ rpc \in {"walk", "dup", "gather"} => rp \in Nodes(ri) \cup {Null}
              /\ rpc = "dup" => rp # Null /\ node[rp].key = rkey
              /\ Table[rkey] \in seen /\ answer \in seen \cup {Absent}
              /\ answer = Absent =>
                   Absent \in seen \/ AheadAt(node, used, rpc, ri, rp, rkey)
<1>1. rpc \in {"walk", "dup", "list", "gather", "copy"}
  BY DEF Reading
<1>2. /\ wpc # "destroyed" /\ rkey \in Key /\ ~spoiled
      /\ rpc \in {"walk", "dup"} => left = 0 /\ answer = Absent
      /\ rpc \notin {"walk", "dup"} => left > 0
  BY <1>1 DEF HInv, Loops, Reading
<1>3. /\ copied \in Nat /\ room \in Nat /\ left \in Nat /\ seen \subseteq Answer
      /\ freed \in BOOLEAN /\ spoiled \in BOOLEAN
  BY DEF HInv, ReaderTyped
<1>4. (~torn /\ ~freed) => Stands /\ Finds
  BY DEF HInv, Sound
<1> QED
  BY <1>1, <1>2, <1>3, <1>4 DEF Stands, Finds

\* A step of table_get or table_get_keys that does not end it.
LEMMA MoveKeeps ==
  ASSUME TableAssumption, HInv, IInv', Reading, ReaderStep(rpc), UNCHANGED <<rkey, spoiled>>,
         \/ /\ rpc \in {"walk", "dup"} /\ rpc' \in {"walk", "dup"}
            /\ left' = left /\ answer' = Absent
         \/ /\ rpc \notin {"walk", "dup"} /\ rpc' \in {"list", "gather", "copy"}
            /\ left' \in Nat /\ left' > 0,
         rpc' = "dup" => rp' # Null /\ node[rp'].key = rkey,
         ri' \in List, rp' \in Pointer, answer' \in Answer, copied' \in Nat, room' \in Nat,
         (~torn /\ ~freed) =>
           /\ rpc' \in {"walk", "dup", "gather"} => rp' \in Nodes(ri') \cup {Null}
           /\ answer' \in seen \cup {Absent}
           /\ answer' = Absent =>
                Absent \in seen \/ AheadAt(node, used, rpc', ri', rp', rkey)
  PROVE  HInv'
<1>1. UNCHANGED <<listVars, heapVars, size, wpc, went, up, expected, seen, freed, torn, late>>
  BY DEF ReaderStep
<1>2. Table' = Table /\ \A l \in List : Nodes(l)' = Nodes(l)
  BY <1>1, SameTable, SameLists
<1>3. /\ wpc # "destroyed" /\ rkey \in Key /\ ~spoiled /\ seen \subseteq Answer
      /\ freed \in BOOLEAN /\ spoiled \in BOOLEAN /\ left \in Nat
      /\ rpc \in {"walk", "dup"} => left = 0
  BY UnderWay
<1>4. Loops'
  BY <1>1, <1>3 DEF Loops, Reading
<1>5. ASSUME ~torn, ~freed PROVE Stands' /\ Finds' /\ Ends'
  <2>1. Nodes(ri)' = Nodes(ri')
    BY <1>2
  <2>2. Stands'
    BY <1>1, <1>5, <2>1 DEF Stands, heapVars
  <2>3. Table[rkey] \in seen
    BY <1>5, UnderWay
  <2>4. Finds'
    BY <1>1, <1>2, <1>5, <2>3 DEF Finds, heapVars
  <2>5. Ends'
    BY DEF Ends
  <2> QED
    BY <2>2, <2>4, <2>5
<1>6. left' \in Nat /\ rpc' \in {"idle", "walk", "dup", "list", "gather", "copy", "done"}
  BY <1>3
<1> QED
  BY <1>1, <1>3, <1>4, <1>5, <1>6, ReaderKeeps

\* A reader that has its answer.
LEMMA DoneKeeps ==
  ASSUME TableAssumption, HInv, IInv', Reading, ReaderStep(rpc), rpc' = "done",
         UNCHANGED <<rkey, ri, rp, room>>, copied' \in Nat, left' \in Nat,
         spoiled' \in BOOLEAN, answer' \in Answer,
         (~torn /\ ~freed) => (answer' \in seen \/ (left' > 0 /\ spoiled'))
  PROVE  HInv'
<1>1. UNCHANGED <<listVars, heapVars, size, wpc, went, up, expected, seen, freed, torn, late>>
  BY DEF ReaderStep
<1>2. /\ wpc # "destroyed" /\ rkey \in Key /\ seen \subseteq Answer /\ room \in Nat
      /\ freed \in BOOLEAN /\ ri \in List /\ rp \in Pointer
  BY UnderWay, ReaderFacts
<1>3. Loops'
  BY <1>1, <1>2 DEF Loops, Reading
<1>4. ASSUME ~torn, ~freed PROVE Stands' /\ Finds' /\ Ends'
  BY <1>1, <1>4 DEF Stands, Finds, Ends, Reading
<1> QED
  BY <1>1, <1>2, <1>3, <1>4, ReaderKeeps

\* What is ahead of a node is ahead of the next one, but for the node itself.
LEMMA AheadOfNext ==
  ASSUME TableAssumption, HInv, Reading, ~torn, ~freed, rpc \in {"walk", "dup", "gather"},
         rp \in used, NEW k, node[rp].key # k, AheadAt(node, used, rpc, ri, rp, k)
  PROVE  AheadAt(node, used, rpc, ri, node[rp].next, k)
<1>1. From(node, rp) \subseteq {rp} \cup From(node, node[rp].next)
  BY UnderWay, ReaderFacts, FromStep
<1>2. PICK x \in used :
        /\ node[x].key = k
        /\ \/ Hash(k) > ri
           \/ Hash(k) = ri /\ rpc \in {"walk", "dup", "gather"} /\ x \in From(node, rp)
  BY DEF AheadAt
<1>3. x \in From(node, rp) => x \in From(node, node[rp].next)
  BY <1>1, <1>2
<1> QED
  BY <1>2, <1>3 DEF AheadAt

LEMMA NextStands ==
  ASSUME TableAssumption, HInv, wpc # "destroyed", rp \in Nodes(ri)
  PROVE  node[rp].next \in Nodes(ri) \cup {Null} /\ node[rp].next \in Pointer
<1>1. /\ ri \in List /\ node \in Heap /\ head[ri] \in Pointer /\ rp \in Node
      /\ Nodes(ri) = From(node, head[ri])
  BY ReaderFacts
<1>2. node[rp].next \in Nodes(ri) \cup {Null}
  BY <1>1, FromClosed DEF ClosedIn
<1> QED
  BY <1>1, <1>2 DEF Heap, NodeType

\* At the end of a list, what is ahead belongs to a later one.
LEMMA AheadOfEnd ==
  ASSUME TableAssumption, HInv, wpc # "destroyed", rpc \in {"walk", "dup", "gather", "copy"},
         rpc # "copy" => rp = Null, NEW k, AheadAt(node, used, rpc, ri, rp, k)
  PROVE  \E x \in used : node[x].key = k /\ Hash(k) > ri /\ Hash(k) \in List
<1>1. PICK x \in used :
        /\ node[x].key = k
        /\ \/ Hash(k) > ri
           \/ Hash(k) = ri /\ rpc \in {"walk", "dup", "gather"} /\ x \in From(node, rp)
  BY DEF AheadAt
<1>2. From(node, Null) = {}
  BY FromNull
<1>3. Hash(k) > ri
  BY <1>1, <1>2
<1>4. Hash(k) \in List
  BY <1>1, ReaderFacts
<1> QED
  BY <1>1, <1>3, <1>4

LEMMA WalkKeeps ==
  ASSUME TableAssumption, HInv, IInv', Walk
  PROVE  HInv'
<1> USE DEF keysVars
<1>1. /\ rpc = "walk" /\ ReaderStep(rpc) /\ spoiled' = spoiled /\ Reading
      /\ NextNode \/ Match \/ NextList \/ FreedNode
  BY DEF Walk, ReaderStep, Reading
<1>2. /\ wpc # "destroyed" /\ rkey \in Key /\ left = 0 /\ answer = Absent
      /\ copied \in Nat /\ room \in Nat /\ left \in Nat /\ spoiled \in BOOLEAN
  BY <1>1, UnderWay
<1>3. ri \in List /\ rp \in Pointer /\ node \in Heap /\ used \in SUBSET Node
  BY <1>2, ReaderFacts
<1>4. ASSUME ~torn, ~freed PROVE rp \in Nodes(ri) \cup {Null} /\ Nodes(ri) \subseteq used
  BY <1>1, <1>2, <1>3, <1>4, UnderWay, ReaderFacts
<1>5. ASSUME ~torn, ~freed
      PROVE  Absent \in seen \/ AheadAt(node, used, rpc, ri, rp, rkey)
  BY <1>1, <1>2, <1>5, UnderWay
<1>6. CASE NextNode
  <2>1. /\ rp \in used /\ node[rp].key # rkey /\ rp' = node[rp].next
        /\ UNCHANGED <<rpc, rkey, ri, answer, copied, room, left>>
    BY <1>6 DEF NextNode
  <2>2. rp' \in Pointer
    BY <1>3, <2>1 DEF Heap, NodeType
  <2>3. ASSUME ~torn, ~freed
        PROVE  /\ rp' \in Nodes(ri) \cup {Null}
               /\ Absent \in seen \/ AheadAt(node, used, rpc, ri, rp', rkey)
    <3>1. rp \in Nodes(ri)
      BY <1>3, <1>4, <2>1, <2>3 DEF TableAssumption
    <3>2. rp' \in Nodes(ri) \cup {Null}
      BY <1>2, <2>1, <3>1, NextStands
    <3>3. Absent \in seen \/ AheadAt(node, used, rpc, ri, rp', rkey)
      BY <1>1, <1>5, <2>1, <2>3, AheadOfNext
    <3> QED
      BY <3>2, <3>3
  <2>4. answer' = Absent /\ answer' \in Answer /\ ri' \in List
    BY <1>2, <1>3, <2>1 DEF Answer
  <2> QED
    BY <1>1, <1>2, <2>1, <2>2, <2>3, <2>4, MoveKeeps
<1>7. CASE Match
  <2>1. /\ rp \in used /\ node[rp].key = rkey /\ rpc' = "dup"
        /\ UNCHANGED <<rkey, ri, rp, answer, copied, room, left>>
    BY <1>7 DEF Match
  <2>2. rp' # Null /\ node[rp'].key = rkey
    BY <1>3, <2>1 DEF TableAssumption
  <2>3. ASSUME ~torn, ~freed, Absent \notin seen
        PROVE  AheadAt(node, used, rpc', ri', rp', rkey)
    BY <1>1, <1>5, <2>1, <2>3 DEF AheadAt
  <2>4. answer' = Absent /\ answer' \in Answer /\ ri' \in List /\ rp' \in Pointer
    BY <1>2, <1>3, <2>1 DEF Answer
  <2> QED
    BY <1>1, <1>2, <1>4, <2>1, <2>2, <2>3, <2>4, MoveKeeps
<1>8. CASE FreedNode
  <2>1. PICK a \in Answer : Done(a) /\ rp \in Node \ used
    BY <1>8 DEF FreedNode
  <2>2. torn \/ freed
    BY <1>4, <2>1 DEF TableAssumption
  <2>3. rpc' = "done" /\ answer' = a /\ UNCHANGED <<rkey, ri, rp, copied, room, left>>
    BY <2>1 DEF Done
  <2> QED
    BY <1>1, <1>2, <2>2, <2>3, DoneKeeps
<1>9. CASE NextList /\ ri + 1 < countLists
  <2>1. /\ rp = Null /\ ri' = ri + 1 /\ rp' = head[ri + 1]
        /\ UNCHANGED <<rpc, rkey, answer, copied, room, left>>
    BY <1>9 DEF NextList
  <2>2. ri' \in List
    BY <1>3, <1>9, <2>1 DEF List, TableAssumption
  <2>3. rp' \in Nodes(ri') \cup {Null} /\ rp' \in Pointer /\ Nodes(ri') = From(node, rp')
    BY <1>2, <2>1, <2>2, ReaderFacts
  <2>4. ASSUME ~torn, ~freed, Absent \notin seen
        PROVE  AheadAt(node, used, rpc, ri', rp', rkey)
    <3>1. PICK x \in used : node[x].key = rkey /\ Hash(rkey) > ri /\ Hash(rkey) \in List
      BY <1>1, <1>2, <1>5, <2>1, <2>4, AheadOfEnd
    <3>2. Hash(rkey) > ri' \/ Hash(rkey) = ri'
      BY <1>3, <2>1, <3>1 DEF List
    <3>3. Hash(rkey) = ri' => x \in From(node, rp')
      BY <1>2, <2>3, <2>4, <3>1, ReaderFacts
    <3> QED
      BY <1>1, <3>1, <3>2, <3>3 DEF AheadAt
  <2>5. answer' = Absent /\ answer' \in Answer
    BY <1>2, <2>1 DEF Answer
  <2> QED
    BY <1>1, <1>2, <2>1, <2>2, <2>3, <2>4, <2>5, MoveKeeps
<1>10. CASE NextList /\ ~(ri + 1 < countLists)
  <2>1. /\ rp = Null /\ rpc' = "done" /\ answer' = Absent
        /\ UNCHANGED <<rkey, ri, rp, copied, room, left>>
    BY <1>10 DEF NextList, Done
  <2>2. ASSUME ~torn, ~freed, Absent \notin seen PROVE FALSE
    <3>1. PICK x \in used : node[x].key = rkey /\ Hash(rkey) > ri /\ Hash(rkey) \in List
      BY <1>1, <1>2, <1>5, <2>1, <2>2, AheadOfEnd
    <3> QED
      BY <1>3, <1>10, <3>1 DEF List, TableAssumption
  <2>3. answer' \in Answer
    BY <2>1 DEF Answer
  <2> QED
    BY <1>1, <1>2, <2>1, <2>2, <2>3, DoneKeeps
<1> QED
  BY <1>1, <1>6, <1>7, <1>8, <1>9, <1>10

\* The data of the entry list_get has found is what its key had.
LEMMA DupKeeps ==
  ASSUME TableAssumption, HInv, IInv', Dup
  PROVE  HInv'
<1> USE DEF keysVars
<1>1. /\ rpc = "dup" /\ ReaderStep(rpc) /\ spoiled' = spoiled /\ Reading
      /\ (rp \in used /\ Done(node[rp].val)) \/ FreedNode
  BY DEF Dup, ReaderStep, Reading
<1>2. /\ wpc # "destroyed" /\ rkey \in Key
      /\ copied \in Nat /\ left \in Nat /\ spoiled \in BOOLEAN
  BY <1>1, UnderWay
<1>3. node \in Heap /\ used \in SUBSET Node
  BY <1>2, ReaderFacts
<1>4. CASE rp \in used /\ Done(node[rp].val)
  <2>1. /\ rp \in used /\ rpc' = "done" /\ answer' = node[rp].val
        /\ UNCHANGED <<rkey, ri, rp, copied, room, left>>
    BY <1>4 DEF Done
  <2>2. answer' \in Answer
    BY <1>3, <2>1 DEF Heap, NodeType
  <2>3. ASSUME ~torn, ~freed PROVE answer' \in seen
    <3>1. node[rp].key = rkey /\ Table[rkey] \in seen
      BY <1>1, <2>3, UnderWay
    <3>2. node[rp].val = Table[rkey]
      BY <1>2, <2>1, <2>3, <3>1, ReaderFacts
    <3> QED
      BY <2>1, <3>1, <3>2
  <2> QED
    BY <1>1, <1>2, <2>1, <2>2, <2>3, DoneKeeps
<1>5. CASE FreedNode
  <2>1. PICK a \in Answer : Done(a) /\ rp \in Node \ used
    BY <1>5 DEF FreedNode
  <2>2. torn \/ freed
    <3>1. ASSUME ~torn, ~freed PROVE rp \in used \cup {Null}
      BY <1>1, <1>2, <3>1, UnderWay, ReaderFacts
    <3> QED
      BY <2>1, <3>1 DEF TableAssumption
  <2>3. rpc' = "done" /\ answer' = a /\ UNCHANGED <<rkey, ri, rp, copied, room, left>>
    BY <2>1 DEF Done
  <2> QED
    BY <1>1, <1>2, <2>2, <2>3, DoneKeeps
<1> QED
  BY <1>1, <1>4, <1>5

LEMMA StartListKeeps ==
  ASSUME TableAssumption, HInv, IInv', StartList
  PROVE  HInv'
<1>1. /\ rpc = "list" /\ ReaderStep(rpc) /\ Reading
      /\ rpc' = IF lsize[ri] = 0 THEN "copy" ELSE "gather"
      /\ rp' = IF lsize[ri] = 0 THEN Null ELSE head[ri]
      /\ copied' = 0 /\ room' = IF lsize[ri] = 0 THEN 0 ELSE lsize[ri] + 1
      /\ UNCHANGED <<rkey, ri, answer, left, spoiled>>
  BY DEF StartList, ReaderStep, Reading
<1>2. wpc # "destroyed" /\ left \in Nat /\ left > 0
  BY <1>1, UnderWay
<1>3. /\ ri \in List /\ answer \in Answer /\ lsize[ri] \in Nat
      /\ head[ri] \in Nodes(ri) \cup {Null} /\ head[ri] \in Pointer
      /\ Nodes(ri) = From(node, head[ri])
  BY <1>2, ReaderFacts
<1>4. rp' \in Pointer /\ room' \in Nat /\ copied' \in Nat
  BY <1>1, <1>3 DEF Pointer
<1>5. ASSUME ~torn, ~freed
      PROVE  /\ rpc' \in {"walk", "dup", "gather"} => rp' \in Nodes(ri') \cup {Null}
             /\ answer' \in seen \cup {Absent}
             /\ answer' = Absent =>
                  Absent \in seen \/ AheadAt(node, used, rpc', ri', rp', rkey)
  <2>1. rpc' \in {"walk", "dup", "gather"} => rp' \in Nodes(ri') \cup {Null}
    BY <1>1, <1>3
  <2>2. /\ answer \in seen \cup {Absent}
        /\ answer = Absent => Absent \in seen \/ AheadAt(node, used, "list", ri, rp, rkey)
    BY <1>1, <1>5, UnderWay
  <2>3. ASSUME AheadAt(node, used, "list", ri, rp, rkey)
        PROVE  AheadAt(node, used, rpc', ri', rp', rkey)
    <3>1. PICK x \in used : /\ node[x].key = rkey
                            /\ Hash(rkey) > ri \/ Hash(rkey) = ri
      BY <2>3 DEF AheadAt
    <3>2. Hash(rkey) = ri => x \in Nodes(ri) /\ x \in Homed(ri)
      BY <1>2, <1>5, <3>1, ReaderFacts DEF Homed
    <3>3. Hash(rkey) = ri => lsize[ri] # 0
      BY <1>2, <1>3, <3>2, ReaderFacts
    <3> QED
      BY <1>1, <1>3, <3>1, <3>2, <3>3 DEF AheadAt
  <2> QED
    BY <1>1, <2>1, <2>2, <2>3
<1>6. /\ rpc \notin {"walk", "dup"} /\ rpc' \in {"list", "gather", "copy"} /\ left' \in Nat /\ left' > 0
      /\ ri' \in List /\ answer' \in Answer
  BY <1>1, <1>2, <1>3
<1> QED
  BY <1>1, <1>4, <1>5, <1>6, MoveKeeps

LEMMA GatherKeeps ==
  ASSUME TableAssumption, HInv, IInv', Gather
  PROVE  HInv'
<1>1. /\ rpc = "gather" /\ ReaderStep(rpc) /\ Reading /\ rp \in used
      /\ rp' = node[rp].next /\ copied' = copied + 1
      /\ answer' = IF node[rp].key = rkey THEN node[rp].val ELSE answer
      /\ UNCHANGED <<rpc, rkey, ri, room, left, spoiled>>
  BY DEF Gather, ReaderStep, Reading
<1>2. wpc # "destroyed" /\ left \in Nat /\ left > 0 /\ copied \in Nat /\ room \in Nat
  BY <1>1, UnderWay
<1>3. ri \in List /\ answer \in Answer /\ node \in Heap /\ used \in SUBSET Node
  BY <1>2, ReaderFacts
<1>4. rp' \in Pointer /\ answer' \in Answer /\ copied' \in Nat /\ room' \in Nat
  BY <1>1, <1>2, <1>3 DEF Heap, NodeType
<1>5. ASSUME ~torn, ~freed
      PROVE  /\ rp' \in Nodes(ri') \cup {Null}
             /\ answer' \in seen \cup {Absent}
             /\ answer' = Absent =>
                  Absent \in seen \/ AheadAt(node, used, rpc', ri', rp', rkey)
  <2>1. rp \in Nodes(ri)
    BY <1>1, <1>3, <1>5, UnderWay DEF TableAssumption
  <2>2. rp' \in Nodes(ri') \cup {Null}
    BY <1>1, <1>2, <2>1, NextStands
  <2>3. /\ answer \in seen \cup {Absent} /\ Table[rkey] \in seen
        /\ answer = Absent => Absent \in seen \/ AheadAt(node, used, rpc, ri, rp, rkey)
    BY <1>1, <1>5, UnderWay
  <2>4. CASE node[rp].key = rkey
    <3>1. node[rp].val = Table[rkey] /\ node[rp].val # Absent
      BY <1>1, <1>2, <1>5, <2>4, ReaderFacts
    <3> QED
      BY <1>1, <2>2, <2>3, <2>4, <3>1
  <2>5. CASE node[rp].key # rkey
    <3>1. AheadAt(node, used, rpc, ri, rp, rkey) =>
            AheadAt(node, used, rpc, ri, node[rp].next, rkey)
      BY <1>1, <1>5, <2>5, AheadOfNext
    <3> QED
      BY <1>1, <2>2, <2>3, <2>5, <3>1
  <2> QED
    BY <2>4, <2>5
<1>6. /\ rpc \notin {"walk", "dup"} /\ rpc' \in {"list", "gather", "copy"} /\ left' \in Nat /\ left' > 0
      /\ ri' \in List
  BY <1>1, <1>2, <1>3
<1> QED
  BY <1>1, <1>4, <1>5, <1>6, MoveKeeps

LEMMA EndGatherKeeps ==
  ASSUME TableAssumption, HInv, IInv', EndGather
  PROVE  HInv'
<1>1. /\ rpc = "gather" /\ ReaderStep(rpc) /\ Reading /\ rp = Null
      /\ rpc' = "copy" /\ room' = 0
      /\ UNCHANGED <<rkey, ri, rp, answer, copied, left, spoiled>>
  BY DEF EndGather, ReaderStep, Reading
<1>2. wpc # "destroyed" /\ left \in Nat /\ left > 0 /\ copied \in Nat
  BY <1>1, UnderWay
<1>3. ri \in List /\ answer \in Answer /\ rp \in Pointer
  BY <1>2, ReaderFacts
<1>4. ASSUME ~torn, ~freed
      PROVE  /\ answer' \in seen \cup {Absent}
             /\ answer' = Absent =>
                  Absent \in seen \/ AheadAt(node, used, rpc', ri', rp', rkey)
  <2>1. /\ answer \in seen \cup {Absent}
        /\ answer = Absent => Absent \in seen \/ AheadAt(node, used, rpc, ri, rp, rkey)
    BY <1>1, <1>4, UnderWay
  <2>2. ASSUME AheadAt(node, used, rpc, ri, rp, rkey)
        PROVE  AheadAt(node, used, rpc', ri', rp', rkey)
    <3>1. PICK x \in used : node[x].key = rkey /\ Hash(rkey) > ri
      BY <1>1, <1>2, <2>2, AheadOfEnd
    <3> QED
      BY <1>1, <3>1 DEF AheadAt
  <2> QED
    BY <1>1, <2>1, <2>2
<1>5. /\ rpc \notin {"walk", "dup"} /\ rpc' \in {"list", "gather", "copy"} /\ left' \in Nat /\ left' > 0
      /\ ri' \in List /\ rp' \in Pointer /\ answer' \in Answer /\ copied' \in Nat
      /\ room' \in Nat
  BY <1>1, <1>2, <1>3
<1> QED
  BY <1>1, <1>4, <1>5, MoveKeeps

LEMMA CopyListKeeps ==
  ASSUME TableAssumption, HInv, IInv', CopyList
  PROVE  HInv'
<1>1. /\ rpc = "copy" /\ ReaderStep(rpc) /\ Reading /\ copied < left
      /\ left' = left - copied /\ copied' = 0
      /\ UNCHANGED <<rkey, rp, answer, room, spoiled>>
  BY DEF CopyList, ReaderStep, Reading
<1>2. /\ wpc # "destroyed" /\ left \in Nat /\ copied \in Nat /\ room \in Nat
      /\ spoiled \in BOOLEAN
  BY <1>1, UnderWay
<1>3. ri \in List /\ answer \in Answer /\ rp \in Pointer
  BY <1>2, ReaderFacts
<1>4. left' \in Nat /\ left' > 0 /\ copied' \in Nat
  BY <1>1, <1>2
<1>5. ASSUME ~torn, ~freed
      PROVE  /\ answer \in seen \cup {Absent}
             /\ answer = Absent => \/ Absent \in seen
                                   \/ \E x \in used : /\ node[x].key = rkey
                                                      /\ Hash(rkey) > ri
                                                      /\ Hash(rkey) \in List
  BY <1>1, <1>2, <1>5, UnderWay, AheadOfEnd
<1>6. CASE ri + 1 = countLists
  <2>1. rpc' = "done" /\ ri' = ri
    BY <1>6 DEF CopyList, LastList
  <2>2. \A l \in List : ~(l > ri)
    BY <1>3, <1>6 DEF List, TableAssumption
  <2>3. ASSUME ~torn, ~freed PROVE answer' \in seen
    BY <1>1, <1>5, <2>2, <2>3
  <2> QED
    BY <1>1, <1>2, <1>3, <1>4, <2>1, <2>3, DoneKeeps
<1>7. CASE ri + 1 # countLists
  <2>1. rpc' = "list" /\ ri' = ri + 1
    BY <1>7 DEF CopyList, LastList
  <2>2. ri' \in List
    BY <1>3, <1>7, <2>1 DEF List, TableAssumption
  <2>3. ASSUME ~torn, ~freed, answer' = Absent
        PROVE  Absent \in seen \/ AheadAt(node, used, rpc', ri', rp', rkey)
    <3> SUFFICES ASSUME Absent \notin seen PROVE AheadAt(node, used, rpc', ri', rp', rkey)
      OBVIOUS
    <3>1. PICK x \in used : node[x].key = rkey /\ Hash(rkey) > ri /\ Hash(rkey) \in List
      BY <1>1, <1>5, <2>3
    <3>2. Hash(rkey) > ri' \/ Hash(rkey) = ri'
      BY <1>3, <2>1, <3>1 DEF List
    <3> QED
      BY <2>1, <3>1, <3>2 DEF AheadAt
  <2>4. rpc \notin {"walk", "dup"} /\ rpc' \in {"list", "gather", "copy"} /\ rpc' \notin {"walk", "dup", "gather"}
    BY <1>1, <2>1
  <2> QED
    BY <1>1, <1>2, <1>3, <1>4, <1>5, <2>2, <2>3, <2>4, MoveKeeps
<1> QED
  BY <1>6, <1>7

\* An array that does not fit: what is answered is marked.
LEMMA SpoilKeeps ==
  ASSUME TableAssumption, HInv, IInv', Spoil
  PROVE  HInv'
<1>1. /\ ReaderStep(rpc) /\ spoiled' = TRUE /\ rpc \in {"gather", "copy"} /\ Reading
  BY DEF Spoil, Misfit, Reading
<1>2. PICK a \in Answer : Done(a)
  BY DEF Spoil
<1>3. /\ rpc' = "done" /\ answer' \in Answer
      /\ UNCHANGED <<rkey, ri, rp, copied, room, left>>
  BY <1>2 DEF Done, keysVars
<1>4. left \in Nat /\ left > 0 /\ copied \in Nat
  BY <1>1, UnderWay
<1> QED
  BY <1>1, <1>3, <1>4, DoneKeeps

LEMMA GatherFreedKeeps ==
  ASSUME TableAssumption, HInv, IInv', GatherFreed
  PROVE  HInv'
<1>1. /\ rpc = "gather" /\ ReaderStep(rpc) /\ Reading /\ rp \in Node \ used
      /\ spoiled' = spoiled
  BY DEF GatherFreed, ReaderStep, Reading
<1>2. PICK a \in Answer : Done(a)
  BY DEF GatherFreed
<1>3. /\ rpc' = "done" /\ answer' \in Answer
      /\ UNCHANGED <<rkey, ri, rp, copied, room, left>>
  BY <1>2 DEF Done, keysVars
<1>4. /\ wpc # "destroyed" /\ left \in Nat /\ copied \in Nat /\ spoiled \in BOOLEAN
      /\ (~torn /\ ~freed) => rp \in Nodes(ri) \cup {Null}
  BY <1>1, UnderWay
<1>5. torn \/ freed
  BY <1>1, <1>4, ReaderFacts DEF TableAssumption
<1> QED
  BY <1>1, <1>3, <1>4, <1>5, DoneKeeps

LEMMA EndReadKeeps ==
  ASSUME TableAssumption, HInv, IInv', EndRead
  PROVE  HInv'
<1>1. /\ rpc' = "idle" /\ rkey' = Null /\ rp' = Null /\ ri' = 0 /\ answer' = Absent
      /\ copied' = 0 /\ room' = 0 /\ left' = 0 /\ seen' = {} /\ freed' = FALSE
      /\ spoiled' = FALSE
      /\ UNCHANGED <<listVars, heapVars, size, wpc, went, up, expected, torn, late>>
  BY DEF EndRead
<1>2. 0 \in List
  BY DEF List, TableAssumption
<1>3. Loops'
  BY <1>1 DEF HInv, Loops, Reading, heapVars
<1>4. Stands' /\ Finds' /\ Ends'
  BY <1>1 DEF Stands, Finds, Ends, Reading
<1>5. /\ rpc' \in {"idle", "walk", "dup", "list", "gather", "copy", "done"}
      /\ rkey' \in Key \cup {Null} /\ ri' \in List /\ rp' \in Pointer /\ answer' \in Answer
      /\ copied' \in Nat /\ room' \in Nat /\ left' \in Nat /\ seen' \subseteq Answer
      /\ freed' \in BOOLEAN /\ spoiled' \in BOOLEAN
  BY <1>1, <1>2 DEF Pointer, Answer
<1> QED
  BY <1>1, <1>3, <1>4, <1>5, ReaderKeeps

-----------------------------------------------------------------------------
(***************************************************************************)
(* The invariant and what follows from it.                                 *)
(***************************************************************************)
LEMMA BeginsSound == TableAssumption /\ Init => HInv
<1> SUFFICES ASSUME TableAssumption, Init PROVE HInv
  OBVIOUS
<1>1. /\ used = {} /\ wpc = "idle" /\ rpc = "idle" /\ size = 0
      /\ lsize = [l \in List |-> 0] /\ expected = [k \in Key |-> Absent]
  BY DEF Init
<1>2. IInv
  BY Initially
<1>3. Counts
  <2>1. \A l \in List : Homed(l) = {}
    BY <1>1 DEF Homed
  <2>2. Cardinality({}) = 0
    BY FS_EmptySet
  <2> QED
    BY <1>1, <2>1, <2>2 DEF Counts
<1>4. InOrder
  <2>1. Walks /\ Tails
    BY <1>1 DEF Walks, Tails, Nodes, Homed
  <2>2. Contents
    BY <1>1 DEF Contents, Held, Table, Holds
  <2> QED
    BY <2>1, <2>2 DEF InOrder
<1>5. Carrying /\ Loops /\ Sound
  BY DEF Init, Carrying, Loops, Reading, Sound, Stands, Finds, Ends
<1>6. ReaderTyped
  <2>1. 0 \in List
    BY DEF List, TableAssumption
  <2>2. lsize \in [List -> Nat] /\ expected \in [Key -> Answer]
    BY <1>1 DEF Answer
  <2>3. /\ rkey = Null /\ ri = 0 /\ rp = Null /\ answer = Absent /\ copied = 0 /\ room = 0
        /\ left = 0 /\ up = TRUE /\ seen = {} /\ freed = FALSE /\ spoiled = FALSE /\ torn = FALSE
        /\ late = FALSE
    BY DEF Init
  <2>4. /\ rp \in Pointer /\ answer \in Answer /\ seen \subseteq Answer
        /\ rkey \in Key \cup {Null} /\ ri \in List
        /\ copied \in Nat /\ room \in Nat /\ left \in Nat
    BY <2>1, <2>3 DEF Pointer, Answer
  <2>5. /\ up \in BOOLEAN /\ freed \in BOOLEAN /\ spoiled \in BOOLEAN /\ torn \in BOOLEAN
        /\ late \in BOOLEAN
    BY <2>3
  <2>6. /\ size \in Int /\ (wpc = "destroyed" => size >= 0)
        /\ rpc \in {"idle", "walk", "dup", "list", "gather", "copy", "done"}
    BY <1>1
  <2> QED
    BY <2>2, <2>4, <2>5, <2>6 DEF ReaderTyped
<1> QED
  BY <1>2, <1>3, <1>4, <1>5, <1>6 DEF HInv

LEMMA StaysSound == TableAssumption /\ HInv /\ [Next]_vars => HInv'
<1> SUFFICES ASSUME TableAssumption, HInv, [Next]_vars PROVE HInv'
  OBVIOUS
<1>1. IInv'
  BY Inductive DEF HInv
<1>2. CASE UNCHANGED vars
  <2>1. up' \in BOOLEAN
    BY <1>2 DEF vars, HInv, ReaderTyped
  <2> QED
    BY <1>1, <1>2, <2>1, StopKeeps DEF vars
<1>3. CASE Crash
  BY <1>1, <1>3, StopKeeps DEF Crash
<1>4. CASE Writer
  <2>1. ASSUME NEW k \in Key, NEW v \in Value, PutNew(k, v) \/ PutOld(k, v) PROVE HInv'
    BY <1>1, <2>1, PutNewKeeps, PutOldKeeps
  <2>2. ASSUME NEW k \in Key, Del(k) \/ BadIndex(k) \/ AddToFreed(k) PROVE HInv'
    BY <1>1, <1>3, <2>2, DelKeeps DEF BadIndex, AddToFreed
  <2>3. CASE Grow \/ Shrink
    BY <1>1, <2>3, SizeKeeps DEF Grow, Shrink
  <2>4. CASE Readd
    BY <1>1, <2>4, ReaddKeeps
  <2>5. CASE Destroy
    BY <1>1, <2>5, DestroyKeeps
  <2>6. CASE WriteToFreed
    BY <1>1, <1>3, <2>6, LateKeeps
  <2> QED
    BY <1>4, <2>1, <2>2, <2>3, <2>4, <2>5, <2>6 DEF Writer
<1>5. CASE Reader
  <2>1. ASSUME NEW k \in Key, StartGet(k) \/ StartKeys(k) PROVE HInv'
    BY <1>1, <2>1, StartGetKeeps, StartKeysKeeps
  <2>2. CASE Walk
    BY <1>1, <2>2, WalkKeeps
  <2>3. CASE Keys
    BY <1>1, <2>3, StartListKeeps, GatherKeeps, EndGatherKeeps, CopyListKeeps, SpoilKeeps,
       GatherFreedKeeps DEF Keys
  <2>4. CASE ReadToCrash
    BY <1>3, <2>4 DEF ReadToCrash
  <2>5. CASE EndRead
    BY <1>1, <2>5, EndReadKeeps
  <2>6. CASE Dup
    BY <1>1, <2>6, DupKeeps
  <2> QED
    BY <1>5, <2>1, <2>2, <2>3, <2>4, <2>5, <2>6 DEF Reader
<1> QED
  BY <1>2, <1>4, <1>5 DEF Next

LEMMA AlwaysSound == Spec => []HInv
BY BeginsSound, StaysSound, TableAssumption, PTL DEF Spec

\* The lists, the counters and the reader's variables keep their types: no
\* counter of table.c and list.c goes below zero.
THEOREM TypeCorrect == Spec => []TypeOK
<1>1. HInv => TypeOK
  <2> SUFFICES ASSUME HInv PROVE TypeOK
    OBVIOUS
  <2>1. size \in Nat
    BY SizeIsNat, TableAssumption
  <2> QED
    BY <2>1 DEF HInv, IInv, Typed, ReaderTyped, TypeOK
<1> QED
  BY <1>1, AlwaysSound, PTL

\* The counters agree with the nodes and the tail is the last node, until
\* list_add writes through the tail of an emptied list.
THEOREM InShape == Spec => []ListsInShape
<1>1. HInv => ListsInShape
  <2> SUFFICES ASSUME HInv, ~torn, wpc # "destroyed" PROVE ListsInShape
    BY DEF ListsInShape
  <2>1. Walks /\ Tails
    BY DEF HInv, InOrder
  <2>2. \A l \in List : lsize[l] = Cardinality(Nodes(l))
    BY <2>1 DEF HInv, Counts, Walks
  <2>3. size + (IF wpc = "grow" THEN 1 ELSE 0) =
          Cardinality(used) + (IF wpc \in {"shrink", "readd"} THEN 1 ELSE 0)
    BY DEF HInv, Counts
  <2> QED
    BY <2>1, <2>2, <2>3 DEF ListsInShape, Tails
<1> QED
  BY <1>1, AlwaysSound, PTL

\* The table holds what table_put and table_del leave, each key in its list.
THEOREM HoldsPuts == Spec => []HoldsWhatWasPut
<1>1. HInv => HoldsWhatWasPut
  <2> SUFFICES ASSUME HInv, ~torn, wpc # "destroyed", NEW k \in Key
               PROVE  IF Holds(k) = Absent THEN \A l \in List : Found(l, k) = {}
                      ELSE \E x \in Node : /\ Found(Hash(k), k) = {x}
                                           /\ node[x].val = Holds(k)
    BY DEF HoldsWhatWasPut
  <2>1. Table[k] = Holds(k)
    BY DEF Table
  <2>2. /\ used \in SUBSET Node
        /\ \A l \in List : Nodes(l) \subseteq used
        /\ \A x \in used : x \in Nodes(Hash(node[x].key))
        /\ \A x \in used : node[x].val = Table[node[x].key] /\ node[x].val # Absent
        /\ Table[k] # Absent => \E x \in used : node[x].key = k
        /\ \A x \in used : Hash(node[x].key) \in List
    BY ReaderFacts, TableAssumption
  <2>3. \A x, y \in used : node[x].key = node[y].key => x = y
    BY DEF HInv, InOrder, Contents, Held
  <2>4. CASE Holds(k) = Absent
    BY <2>1, <2>2, <2>4 DEF Found
  <2>5. CASE Holds(k) # Absent
    <3>1. PICK x \in used : node[x].key = k
      BY <2>1, <2>2, <2>5
    <3>2. x \in Node /\ node[x].val = Holds(k) /\ Hash(k) \in List /\ x \in Nodes(Hash(k))
      BY <2>1, <2>2, <3>1
    <3>3. Found(Hash(k), k) = {x}
      BY <2>2, <2>3, <3>1, <3>2 DEF Found
    <3> QED
      BY <2>5, <3>2, <3>3
  <2> QED
    BY <2>4, <2>5
<1> QED
  BY <1>1, AlwaysSound, PTL

\* table_get, which walks without a lock, answers what its key had at a moment
\* of its walk, if the node it stood on was never freed.
THEOREM GetsAnswer == Spec => []GetAnswersSeen
<1>1. HInv => GetAnswersSeen
  BY DEF HInv, Sound, Ends, GetAnswersSeen
<1> QED
  BY <1>1, AlwaysSound, PTL

\* So does table_get_keys for every key, if its arrays fitted the lists too.
THEOREM KeysAnswer == Spec => []KeysAnswerSeen
<1>1. HInv => KeysAnswerSeen
  BY DEF HInv, Sound, Ends, KeysAnswerSeen
<1> QED
  BY <1>1, AlwaysSound, PTL

\* table_destroy frees every node wherever in table_put or table_del the worker
\* is meanwhile, unless list_add wrote through the tail of an emptied list or
\* allocates a node after the lists were freed.
THEOREM DestroyFrees == Spec => []DestroyFreesAll
<1>1. HInv => DestroyFreesAll
  BY DEF HInv, Loops, DestroyFreesAll
<1> QED
  BY <1>1, AlwaysSound, PTL
=============================================================================

-------------------------------- MODULE HashTable --------------------------------
(***************************************************************************)
(* The hash table (source/table.c) and its lists (source/list.c), at the   *)
(* level of list nodes.  A writer runs table_put and table_del one at a    *)
(* time, as the worker does under table_lock; a reader runs table_get or   *)
(* table_get_keys, which take no lock, one node at a time.                 *)
(*                                                                         *)
(* All lists share one heap of nodes, because a list keeps the address of  *)
(* its tail after that node was freed, and malloc may give the same        *)
(* address to a node of any list.  An entry is part of its node.           *)
(***************************************************************************)
EXTENDS Integers, FiniteSets

CONSTANTS
  Node,          \* addresses malloc may return for a struct node_t
  Null,          \* the null pointer
  Key, Value,
  Absent,        \* what table_get answers for a key that is not there
  CodeSum,       \* the sum of the signed bytes of each key
  countLists     \* the number of lists

ASSUME TableAssumption ==
  /\ Null \notin Node \cup Key
  /\ Absent \notin Value
  /\ CodeSum \in [Key -> Int]
  /\ countLists \in Nat \ {0}
  /\ IsFiniteSet(Node)

VARIABLES
  head, tail, lsize,  \* the fields of each list
  node, used,         \* contents of the nodes, nodes now allocated
  size,               \* table->size
  wpc, went,          \* the writer: where it is, the entry it is putting
  rpc, rkey, ri, rp,  \* the reader: where it is, its key, list and node
  answer,             \* what the reader has found for its key
  copied, room,       \* list_get_keys: keys copied, and the array's length
  left,               \* table_get_keys: the places left in its array
  up,                 \* the process has not crashed
  expected,           \* history: what the puts and dels so far should leave
  seen,               \* history: what the reader's key had since it began
  freed,              \* history: the node the reader stands on was freed
  spoiled,            \* history: an array of keys did not fit the list
  torn,               \* history: list_add has written through a stale tail
  late                \* history: the writer has allocated a node after
                      \* table_destroy

listVars == <<head, tail, lsize>>
heapVars == <<node, used>>
keysVars == <<copied, room, left>>
readerVars == <<rpc, rkey, ri, rp, answer, keysVars>>
history == <<expected, seen, freed, spoiled, torn, late>>
vars == <<listVars, heapVars, size, wpc, went, readerVars, up, history>>

List == 0 .. countLists - 1
Pointer == Node \cup {Null}
Answer == Value \cup {Absent}

\* The remainder of C, which has the sign of the dividend.
Hash(k) == IF CodeSum[k] >= 0 THEN CodeSum[k] % countLists
                              ELSE -((-CodeSum[k]) % countLists)

\* The nodes a walk from p visits: they are in every set that has p and with
\* each node the next one.
Reached(p) ==
  {x \in Node :
     \A S \in SUBSET Node :
       (p \in S \cup {Null} /\ \A y \in S : node[y].next \in S \cup {Null}) => x \in S}

Nodes(l) == used \cap Reached(head[l])

\* The nodes of list l that hold key k: list_get finds one, if there is one.
Found(l, k) == {x \in Nodes(l) : node[x].key = k}

\* The node before y in list l, whose link leads to y.
Before(l, y) == {x \in Nodes(l) : node[x].next = y}

\* What memory and locals that are out of use are left to read as.
Blank == [key |-> Null, val |-> Absent, next |-> Null]

Init ==
  /\ head = [l \in List |-> Null]
  /\ tail = [l \in List |-> Null]
  /\ lsize = [l \in List |-> 0]
  /\ node = [x \in Node |-> Blank]
  /\ used = {}
  /\ size = 0
  /\ wpc = "idle" /\ went = Blank
  /\ rpc = "idle" /\ rkey = Null
  /\ ri = 0 /\ rp = Null /\ answer = Absent
  /\ copied = 0 /\ room = 0 /\ left = 0
  /\ up = TRUE
  /\ expected = [k \in Key |-> Absent]
  /\ seen = {} /\ freed = FALSE /\ spoiled = FALSE
  /\ torn = FALSE /\ late = FALSE

Crash ==
  /\ up' = FALSE
  /\ UNCHANGED <<listVars, heapVars, size, wpc, went, readerVars, history>>

(***************************************************************************)
(* list_add and list_remove, as they change the lists and the heap.        *)
(***************************************************************************)

\* Mutant of AddNode: the tail is not moved to the new node.
AddKeepsTail(l, n, k, v) ==
  LET made == [node EXCEPT ![n] = [key |-> k, val |-> v, next |-> Null]]
      last == IF tail[l] = Null THEN head[l] ELSE tail[l]
  IN IF head[l] = Null
     THEN head' = [head EXCEPT ![l] = n] /\ node' = made /\ UNCHANGED tail
     ELSE /\ node' = [made EXCEPT ![last].next = n]
          /\ tail' = IF tail[l] = Null THEN [tail EXCEPT ![l] = n] ELSE tail
          /\ UNCHANGED head

\* list_add of a key the list does not have: the first node becomes the head
\* and leaves the tail as it was, any later one is linked behind the tail.
AddNode(l, n, k, v) ==
  LET made == [node EXCEPT ![n] = [key |-> k, val |-> v, next |-> Null]]
      last == IF tail[l] = Null THEN head[l] ELSE tail[l]
  IN IF head[l] = Null
     THEN head' = [head EXCEPT ![l] = n] /\ node' = made /\ UNCHANGED tail
     ELSE /\ node' = [made EXCEPT ![last].next = n]
          /\ tail' = [tail EXCEPT ![l] = n]
          /\ UNCHANGED head

StaleTail(l) == head[l] # Null /\ tail[l] # Null /\ tail[l] \notin Nodes(l)

Add(l, k, v) ==
  /\ \E n \in Node \ used :
       /\ AddNode(l, n, k, v)
       /\ used' = used \cup {n}
  /\ lsize' = [lsize EXCEPT ![l] = @ + 1]
  /\ torn' = (torn \/ StaleTail(l))

\* Mutant of Unlink: the tail stays on a last node that is removed.
UnlinkKeepsTail(l, y) ==
  /\ head' = IF y = head[l] THEN [head EXCEPT ![l] = node[y].next] ELSE head
  /\ node' = [x \in Node |-> IF x = y THEN Blank
                ELSE IF x \in Before(l, y)
                  THEN [node[x] EXCEPT !.next = node[y].next] ELSE node[x]]
  /\ UNCHANGED tail

\* Mutant of Unlink: the node before keeps its link to the node removed.
UnlinkKeepsLink(l, y) ==
  /\ head' = IF y = head[l] THEN [head EXCEPT ![l] = node[y].next] ELSE head
  /\ node' = [node EXCEPT ![y] = Blank]
  /\ tail' = IF y = tail[l] /\ y # head[l]
             THEN [tail EXCEPT ![l] = CHOOSE x \in Before(l, y) : TRUE] ELSE tail

\* list_remove: a head is removed without a look at the tail; behind it, the
\* tail moves back when the node it names goes.
Unlink(l, y) ==
  \/ /\ y = head[l]
     /\ head' = [head EXCEPT ![l] = node[y].next]
     /\ node' = [node EXCEPT ![y] = Blank]
     /\ UNCHANGED tail
  \/ /\ y # head[l]
     /\ \E x \in Before(l, y) :
          /\ node' = [node EXCEPT ![x].next = node[y].next, ![y] = Blank]
          /\ tail' = IF y = tail[l] THEN [tail EXCEPT ![l] = x] ELSE tail
     /\ UNCHANGED head

Remove(l, y) ==
  /\ Unlink(l, y)
  /\ used' = used \ {y}
  /\ lsize' = [lsize EXCEPT ![l] = @ - 1]
  /\ freed' = (freed \/ (rpc \in {"walk", "dup", "gather"} /\ rp = y))

(***************************************************************************)
(* The writer: table_put and table_del.  The result of the hash is used as *)
(* an index without a check.                                               *)
(***************************************************************************)

\* The writer has its bucket for key k.
Indexed(k) == up /\ wpc = "idle" /\ Hash(k) \in List

\* The hash of a key with bytes above 127 may be negative: the list before
\* the first one is no list.
BadIndex(k) == up /\ wpc = "idle" /\ Hash(k) \notin List /\ Crash

\* What a get that looks at every list at once would find for key k.
Holds(k) == IF wpc = "readd" /\ went.key = k THEN Absent ELSE expected[k]

Reading == rpc \in {"walk", "dup", "list", "gather", "copy"}

\* A reader of k that is under way may also answer v from now on.
Sees(k, v) == IF Reading /\ rkey = k THEN seen \cup {v} ELSE seen

PutNew(k, v) ==
  /\ Indexed(k) /\ Found(Hash(k), k) = {}
  /\ Add(Hash(k), k, v)
  /\ wpc' = "grow"
  /\ expected' = [expected EXCEPT ![k] = v] /\ seen' = Sees(k, v)
  /\ UNCHANGED <<size, went, readerVars, up, freed, spoiled, late>>

\* Mutant of Grow: table_put forgets to count the new entry.
GrowNot ==
  /\ up /\ wpc = "grow"
  /\ wpc' = "idle"
  /\ UNCHANGED <<size, listVars, heapVars, went, readerVars, up, history>>

Grow ==
  /\ up /\ wpc = "grow"
  /\ size' = size + 1 /\ wpc' = "idle"
  /\ UNCHANGED <<listVars, heapVars, went, readerVars, up, history>>

\* A key that is there: list_remove, then list_add.
PutOld(k, v) ==
  /\ Indexed(k)
  /\ \E y \in Found(Hash(k), k) : Remove(Hash(k), y)
  /\ wpc' = "readd" /\ went' = [key |-> k, val |-> v, next |-> Null]
  /\ seen' = Sees(k, Absent)
  /\ UNCHANGED <<size, readerVars, up, expected, spoiled, torn, late>>

Readd ==
  /\ up /\ wpc = "readd"
  /\ Add(Hash(went.key), went.key, went.val)
  /\ wpc' = "idle"
  /\ expected' = [expected EXCEPT ![went.key] = went.val]
  /\ seen' = Sees(went.key, went.val)
  /\ went' = Blank
  /\ UNCHANGED <<size, readerVars, up, freed, spoiled, late>>

\* A tail that was freed may be part of another object by now, and list_add
\* overwrites part of it with the link.
AddToFreed(k) ==
  /\ up /\ Hash(k) \in List
  /\ \/ wpc = "idle" /\ Found(Hash(k), k) = {}
     \/ wpc = "readd" /\ went.key = k
  /\ StaleTail(Hash(k)) /\ tail[Hash(k)] \notin used
  /\ Crash

Del(k) ==
  /\ Indexed(k)
  /\ \E y \in Found(Hash(k), k) : Remove(Hash(k), y)
  /\ wpc' = "shrink"
  /\ expected' = [expected EXCEPT ![k] = Absent] /\ seen' = Sees(k, Absent)
  /\ UNCHANGED <<size, went, readerVars, up, spoiled, torn, late>>

Shrink ==
  /\ up /\ wpc = "shrink"
  /\ size' = size - 1 /\ wpc' = "idle"
  /\ UNCHANGED <<listVars, heapVars, went, readerVars, up, history>>

(***************************************************************************)
(* The reader: table_get walks every list, in the order of their indices.  *)
(***************************************************************************)
Start(to, k) ==
  /\ up /\ rpc = "idle" /\ wpc # "destroyed"
  /\ rpc' = to /\ rkey' = k /\ ri' = 0
  /\ seen' = {Holds(k)} /\ freed' = FALSE
  /\ UNCHANGED <<listVars, heapVars, size, wpc, went, answer, copied, room, up,
                 expected, spoiled, torn, late>>

StartGet(k) == Start("walk", k) /\ rp' = head[0] /\ UNCHANGED left

\* The reader is at the end and has found a.
Done(a) ==
  /\ answer' = a /\ rpc' = "done"
  /\ UNCHANGED <<rkey, ri, rp, keysVars>>

\* Mutant of NextNode: the walk ends when it comes to the tail.
NextNodeBeforeTail ==
  /\ rp \in used /\ node[rp].key # rkey
  /\ rp' = IF node[rp].next = tail[ri] THEN Null ELSE node[rp].next
  /\ UNCHANGED <<rpc, rkey, ri, answer, keysVars>>

NextNode ==
  /\ rp \in used /\ node[rp].key # rkey
  /\ rp' = node[rp].next
  /\ UNCHANGED <<rpc, rkey, ri, answer, keysVars>>

\* list_get has found the entry of the key; table_get copies its data next.
Match ==
  /\ rp \in used /\ node[rp].key = rkey
  /\ rpc' = "dup"
  /\ UNCHANGED <<rkey, ri, rp, answer, keysVars>>

NextList ==
  /\ rp = Null
  /\ IF ri + 1 < countLists
     THEN /\ ri' = ri + 1 /\ rp' = head[ri + 1]
          /\ UNCHANGED <<rpc, rkey, answer, keysVars>>
     ELSE Done(Absent)

\* The node was freed and is not a node now: what it reads as is no entry.
FreedNode == rp \in Node \ used /\ \E a \in Answer : Done(a)

\* One step of the reader, which changes nothing but its own variables.
ReaderStep(at) ==
  /\ up /\ rpc = at
  /\ UNCHANGED <<listVars, heapVars, size, wpc, went, up, expected, seen, freed,
                 torn, late>>

Walk ==
  /\ ReaderStep("walk") /\ UNCHANGED spoiled
  /\ NextNode \/ Match \/ NextList \/ FreedNode

Dup ==
  /\ ReaderStep("dup") /\ UNCHANGED spoiled
  /\ (rp \in used /\ Done(node[rp].val)) \/ FreedNode

(***************************************************************************)
(* table_get_keys copies the keys of every list to an array with a place   *)
(* for each key of the table and the null at the end; list_get_keys does   *)
(* the same for one list.  The sizes are read before the walk, the size of *)
(* the list once more behind it.  The reader's key is any key: answer is   *)
(* the data of its entry once it was copied.                               *)
(***************************************************************************)
StartKeys(k) == Start("list", k) /\ left' = size + 1 /\ UNCHANGED rp

StartList ==
  /\ ReaderStep("list")
  /\ rpc' = IF lsize[ri] = 0 THEN "copy" ELSE "gather"
  /\ rp' = IF lsize[ri] = 0 THEN Null ELSE head[ri]
  /\ copied' = 0 /\ room' = IF lsize[ri] = 0 THEN 0 ELSE lsize[ri] + 1
  /\ UNCHANGED <<rkey, ri, answer, left, spoiled>>

Gather ==
  /\ ReaderStep("gather") /\ rp \in used /\ copied < room
  /\ rp' = node[rp].next /\ copied' = copied + 1
  /\ answer' = IF node[rp].key = rkey THEN node[rp].val ELSE answer
  /\ UNCHANGED <<rpc, rkey, ri, room, left, spoiled>>

EndGather ==
  /\ ReaderStep("gather") /\ rp = Null /\ copied < room
  /\ rpc' = "copy" /\ room' = 0
  /\ UNCHANGED <<rkey, ri, rp, answer, copied, left, spoiled>>

\* Mutant of LastList: the last list is left out.
LastListButOne == ri + 2 >= countLists

LastList == ri + 1 = countLists

\* The keys of the list go to the array of the table, which ends with a null.
CopyList ==
  /\ ReaderStep("copy") /\ lsize[ri] = copied /\ copied < left
  /\ left' = left - copied /\ copied' = 0
  /\ IF LastList THEN rpc' = "done" /\ UNCHANGED ri
                 ELSE rpc' = "list" /\ ri' = ri + 1
  /\ UNCHANGED <<rkey, rp, answer, room, spoiled>>

\* A key is written behind an array, or the size of the list is not the number
\* of its keys any more, and keys are left out or what is no key is copied.
Misfit ==
  \/ rpc = "gather" /\ copied = room
  \/ rpc = "copy" /\ (lsize[ri] # copied \/ copied >= left)

Spoil ==
  /\ ReaderStep(rpc) /\ Misfit
  /\ \E a \in Answer : Done(a)
  /\ spoiled' = TRUE

GatherFreed ==
  /\ ReaderStep("gather") /\ rp \in Node \ used /\ copied < room
  /\ \E a \in Answer : Done(a)
  /\ UNCHANGED spoiled

ReadToCrash ==
  /\ up
  /\ Misfit \/ (rpc \in {"walk", "dup", "gather"} /\ rp \in Node \ used)
  /\ Crash

\* The reply was made; list_free_keys frees the array.
EndRead ==
  /\ up /\ rpc = "done"
  /\ rpc' = "idle" /\ rkey' = Null /\ rp' = Null /\ ri' = 0 /\ answer' = Absent
  /\ copied' = 0 /\ room' = 0 /\ left' = 0
  /\ seen' = {} /\ freed' = FALSE /\ spoiled' = FALSE
  /\ UNCHANGED <<listVars, heapVars, size, wpc, went, up, expected, torn, late>>

(***************************************************************************)
(* table_destroy: each list frees the nodes a walk from its head finds.    *)
(* The main thread, which is the reader too, runs it without a lock and    *)
(* before it waits for the worker, wherever the writer is.                 *)
(***************************************************************************)
Destroy ==
  /\ up /\ wpc # "destroyed" /\ rpc = "idle"
  /\ wpc' = "destroyed" /\ went' = Blank
  /\ used' = used \ UNION {Nodes(l) : l \in List}
  /\ UNCHANGED <<listVars, node, size, readerVars, up, history>>

\* The writer goes on with the lists that were freed: the process ends, or
\* list_add allocates a node nobody frees.
WriteToFreed ==
  /\ up /\ wpc = "destroyed"
  /\ \/ Crash
     \/ /\ \E n \in Node \ used : used' = used \cup {n}
        /\ late' = TRUE
        /\ UNCHANGED <<listVars, node, size, wpc, went, readerVars, up, expected,
                       seen, freed, spoiled, torn>>

Writer ==
  \/ \E k \in Key, v \in Value : PutNew(k, v) \/ PutOld(k, v)
  \/ \E k \in Key : Del(k) \/ BadIndex(k) \/ AddToFreed(k)
  \/ Grow \/ Readd \/ Shrink \/ Destroy \/ WriteToFreed

Keys == StartList \/ Gather \/ EndGather \/ CopyList \/ Spoil \/ GatherFreed

Reader == (\E k \in Key : StartGet(k) \/ StartKeys(k)) \/ Walk \/ Dup \/ Keys
            \/ ReadToCrash \/ EndRead

Next == Writer \/ Reader

Spec == Init /\ [][Next]_vars

(***************************************************************************)
(* Properties.                                                             *)
(***************************************************************************)
NodeType == [key : Key \cup {Null}, val : Answer, next : Pointer]

TypeOK ==
  /\ head \in [List -> Pointer] /\ tail \in [List -> Pointer]
  /\ lsize \in [List -> Nat]
  /\ node \in [Node -> NodeType] /\ used \subseteq Node
  /\ size \in Nat
  /\ wpc \in {"idle", "grow", "readd", "shrink", "destroyed"}
  /\ went \in NodeType
  /\ rpc \in {"idle", "walk", "dup", "list", "gather", "copy", "done"}
  /\ rkey \in Key \cup {Null} /\ ri \in List
  /\ rp \in Pointer /\ answer \in Answer
  /\ copied \in Nat /\ room \in Nat /\ left \in Nat
  /\ up \in BOOLEAN
  /\ expected \in [Key -> Answer] /\ seen \subseteq Answer
  /\ freed \in BOOLEAN /\ spoiled \in BOOLEAN /\ torn \in BOOLEAN
  /\ late \in BOOLEAN

\* Following a list never leads to a node that was freed, and no two links or
\* heads lead to the same node, even after list_add wrote through the tail of
\* an emptied list.
NoDangling ==
  wpc # "destroyed" =>
    /\ \A l \in List : head[l] \in used \cup {Null}
    /\ \A x \in used : node[x].next \in used \cup {Null}
    /\ \A x, y \in used :
         (node[x].next = node[y].next /\ node[x].next # Null) => x = y
    /\ \A l \in List : head[l] # Null => \A x \in used : node[x].next # head[l]
    /\ \A l, m \in List : (head[l] = head[m] /\ head[l] # Null) => l = m

\* As long as no list_add wrote through a stale tail: the tail of a list of
\* two entries or more is its last node, and the counters of the lists and of
\* the table agree with the nodes a walk finds.
ListsInShape ==
  (~torn /\ wpc # "destroyed") =>
    /\ \A l \in List : lsize[l] = Cardinality(Nodes(l))
    /\ \A l \in List : lsize[l] > 1 =>
         tail[l] \in Nodes(l) /\ node[tail[l]].next = Null
    /\ size + (IF wpc = "grow" THEN 1 ELSE 0) =
         Cardinality(used) + (IF wpc \in {"shrink", "readd"} THEN 1 ELSE 0)

\* As long as no list_add wrote through a stale tail, the table holds, in the
\* list the hash of the key names, what the puts and dels so far leave.
HoldsWhatWasPut ==
  (~torn /\ wpc # "destroyed") =>
    \A k \in Key : IF Holds(k) = Absent THEN \A l \in List : Found(l, k) = {}
                   ELSE \E x \in Node : /\ Found(Hash(k), k) = {x}
                                        /\ node[x].val = Holds(k)

\* A get that walks the lists while entries are added and removed answers
\* something its key had at a moment of that walk, if the node it stood on was
\* never freed; so it misses no entry that was there all the time.
GetAnswersSeen ==
  (rpc = "done" /\ left = 0 /\ ~freed /\ ~torn) => answer \in seen

\* getkeys, which walks the lists while entries are added and removed, returns
\* every key that was in the table all the time and none that never was, if no
\* node it stood on was freed and its arrays fitted the lists.
KeysAnswerSeen ==
  (rpc = "done" /\ left > 0 /\ ~freed /\ ~torn /\ ~spoiled) => answer \in seen

\* table_destroy leaves no node allocated, wherever in table_put or table_del
\* the worker is meanwhile, unless a list_add wrote through a stale tail, or
\* adds an entry after the lists were freed.
DestroyFreesAll == (wpc = "destroyed" /\ ~torn /\ ~late) => used = {}

(***************************************************************************)
(* A property list.h states and the code does not have.                    *)
(***************************************************************************)

\* list.h: list_add adds the entry at the end of the list.  The entry that
\* table_put has added is in its list.
AddsAtEnd ==
  (up /\ wpc # "destroyed") =>
    \A k \in Key : Holds(k) # Absent => Found(Hash(k), k) # {}
=============================================================================

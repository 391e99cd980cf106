------------------------------- MODULE TaskQueue -------------------------------
(***************************************************************************)
(* The queue of pending writes (source/fifo.c): a singly linked list of    *)
(* task blocks with a head, a tail and a size.  A queue is a record; the   *)
(* links, task_t.proximo, are a function on blocks that outlives malloc    *)
(* and free, because neither of them touches the field: fifo_add never     *)
(* initialises the link of the block it adds.                              *)
(*                                                                         *)
(* The two operations are written as they act on the queue and on the      *)
(* links, and they do what the code does even where it goes wrong: an      *)
(* empty queue keeps the tail of the last task it held.                    *)
(***************************************************************************)
EXTENDS Integers

CONSTANTS
  Block,    \* addresses malloc may return for a struct task_t
  Null,     \* the null pointer
  Wild      \* a value that is the address of no task block

ASSUME PointerAssumption == Null \notin Block /\ Wild \notin Block /\ Null # Wild

Pointer == Block \cup {Null, Wild}

FifoType == [head : Pointer, tail : Pointer, size : Nat]

FifoCreate == [head |-> Null, tail |-> Null, size |-> 0]

\* Mutant of FifoAdd: the new task always becomes the head.
FifoAddAtHead(q, b) == [head |-> b, tail |-> b, size |-> q.size + 1]

\* fifo_add, on the queue: the first task becomes the head and leaves the
\* tail as it was; any later one becomes the tail.
FifoAdd(q, b) ==
  [head |-> IF q.size = 0 THEN b ELSE q.head,
   tail |-> IF q.size = 0 THEN q.tail ELSE b,
   size |-> q.size + 1]

\* The block whose link fifo_add overwrites when the queue is not empty.
Predecessor(q) == IF q.tail = Null THEN q.head ELSE q.tail

\* fifo_add, on the links.
FifoLink(q, links, b) ==
  IF q.size = 0 THEN links ELSE [links EXCEPT ![Predecessor(q)] = b]

\* Mutant of FifoPop: the size is not decremented.
FifoPopKeepsSize(q, links) == [q EXCEPT !.head = links[q.head]]

\* pop, for a queue that is not empty and whose head is a block.
FifoPop(q, links) ==
  [q EXCEPT !.head = links[q.head], !.size = @ - 1]

\* fifo_add is about to link the new task behind a block that is not the
\* last task of the queue: one task is queued, and the tail still names a
\* block that was popped before it.
StaleTail(q) == q.size = 1 /\ q.tail \notin {Null, q.head}
=============================================================================

------------------------------- MODULE TableSkel -------------------------------
(***************************************************************************)
(* The server's skeleton (source/table_skel.c) with its two threads.  The  *)
(* main thread takes one request at a time from network_main_loop, runs    *)
(* invoke, sends the reply and frees the message.  The worker, created by  *)
(* table_skel_init, runs process_task: it takes queued writes and applies  *)
(* them to the table.                                                      *)
(*                                                                         *)
(* invoke queues a write in one step, because it holds queue_lock          *)
(* throughout.  The worker pops, changes the table and counts in several,  *)
(* because verify, the reads and free_message touch the same data without  *)
(* any lock.  The table is its contents, its counter and what the tail of  *)
(* each list names; the lists themselves are the subject of HashTable.     *)
(* What is known there is used here: a walk without a lock sees, for its   *)
(* key, a value the key has while the walk lasts (GetAnswersSeen), unless  *)
(* it comes upon memory that was freed; and an entry added behind the      *)
(* stale tail of a list is lost, or ends up anywhere.                      *)
(*                                                                         *)
(* Memory is modelled where the code depends on it.  A task block keeps    *)
(* its link across free and malloc; a message string keeps its bytes until *)
(* the allocator or another message overwrites them.  A dereference of a   *)
(* pointer to no live block ends the process, or goes on with what the     *)
(* memory holds, where a build can do either.                              *)
(***************************************************************************)
EXTENDS TaskQueue, Sequences, FiniteSets

CONSTANTS
  Key, Value,   \* keys and data clients send
  List, ListOf, \* the lists of the table, and the list hash gives to a key
  Absent,       \* the value of a key that is not in the table
  Scrap,        \* what a string reads as once its bytes were overwritten
  Str,          \* addresses of the strings of a message
  Residue,      \* what the link of a block just allocated may read as, apart
                \* from the link the block held before
  Command,      \* what happens at the server: requests, and "stop"
  MaxOps        \* bound: writes accepted in a behaviour

ASSUME SkelAssumption ==
  /\ Residue \subseteq Pointer
  /\ MaxOps \in Nat
  /\ Null \notin Str
  /\ Scrap \notin Key \cup Value /\ Absent \notin Value \cup {Scrap}
  /\ IsFiniteSet(Key)
  /\ ListOf \in [Key \cup {Scrap} -> List]

VARIABLES
  queue, proximo,   \* struct fifo and the links of the task blocks
  task, held,       \* contents of the task blocks, blocks now allocated
  last_assigned, op_count, flag,
  table, size,      \* contents of the table, and table->size
  tails,            \* what the tail of each list names: nothing, the last
                    \* node of the list, or a node that is gone
  tableUp,          \* the table has not been destroyed
  text, live,       \* contents of the strings, strings now allocated
  served,           \* messageServer has been set
  mpc, msg,         \* main thread: where it is, its request and reply
  cursor,           \* main thread: the block verify looks at
  view,             \* main thread: the walk of a get or getkeys so far
  wpc, hand, entry, \* worker: where it is, the task it popped, the entry made
  up,               \* the process has not crashed
  log, ran,         \* history: writes accepted, numbers of those applied
  torn,             \* history: fifo_add has linked behind a stale tail
  clobbered,        \* history: a string was overwritten before the worker was
                    \* done with it
  lost              \* history: list_add has linked behind a stale list tail

fifoVars == <<queue, proximo, task, held>>
contentVars == <<table, size, tails, lost>>
tableVars == <<contentVars, tableUp>>
textVars == <<text, live>>
mainVars == <<mpc, msg, cursor, view>>
workerVars == <<wpc, hand, entry>>
sharedVars == <<fifoVars, last_assigned, op_count, flag, tableVars, textVars,
                served, log, ran, torn, clobbered>>
vars == <<sharedVars, mainVars, workerVars, up>>

StoredKey == Key \cup {Scrap}
StoredValue == Value \cup {Scrap}
String == [key : StoredKey, val : StoredValue]
Stored == {k \in StoredKey : table[k] # Absent}

\* A request and the fields of its reply: key and data are in string s.
MaybeValue == StoredValue \cup {Absent}
Answer == Int \cup MaybeValue

Message ==
  [op : {"none", "put", "del", "get", "size", "getkeys", "verify"},
   s : Str \cup {Null}, n : Nat, result : Answer,
   found : SUBSET StoredKey, room : Int]

\* A walk without a lock: the key it looks for, the values the key had since
\* it began, op_count when it began, and whether it came upon an array that
\* does not fit any more or memory that was freed.
View == [key : StoredKey, seen : SUBSET MaybeValue, floor : Nat, astray : BOOLEAN]

NoView == [key |-> Scrap, seen |-> {}, floor |-> 0, astray |-> FALSE]

Idle == [op |-> "none", s |-> Null, n |-> 0, result |-> 0,
         found |-> {}, room |-> 0]

NoEntry == [key |-> Scrap, val |-> Scrap]

Init ==
  /\ queue = FifoCreate
  /\ proximo = [b \in Block |-> Null]
  /\ task = [b \in Block |-> [n |-> 0, op |-> "del", s |-> Null]]
  /\ held = {}
  /\ last_assigned = 0 /\ op_count = 0 /\ flag = TRUE
  /\ table = [k \in StoredKey |-> Absent] /\ size = 0 /\ tableUp = TRUE
  /\ tails = [l \in List |-> "null"] /\ lost = FALSE
  /\ text = [s \in Str |-> [key |-> Scrap, val |-> Scrap]] /\ live = {}
  /\ served = FALSE
  /\ mpc = "poll" /\ msg = Idle /\ cursor = Null /\ view = NoView
  /\ wpc = "test" /\ hand = Null /\ entry = NoEntry
  /\ up = TRUE
  /\ log = <<>> /\ ran = <<>> /\ torn = FALSE /\ clobbered = FALSE

\* The process ends on an invalid access.
Crash == up' = FALSE /\ UNCHANGED <<sharedVars, mainVars, workerVars>>

\* The worker is where it still reads the strings of the task in its hand.
Reading == wpc \in {"popped", "keyed", "copied", "found"}

\* The strings of the tasks the worker has not read to the end, in the queue
\* or in its hand.
Referenced == {task[b].s : b \in {c \in held : c # hand \/ Reading}}

(***************************************************************************)
(* The main thread: a request arrives, invoke dispatches on its opcode.    *)
(* RoomForWrite names the two bounds of the model: MaxOps writes, and a    *)
(* free block for the task.  del and get carry no data, so the data bytes  *)
(* at their address stay what they were.                                   *)
(***************************************************************************)
KeyedRequest(op, s, k, v) ==
  /\ msg' = [Idle EXCEPT !.op = op, !.s = s]
  /\ text' = [text EXCEPT ![s] = [key |-> k, val |-> v]]
  /\ live' = live \cup {s}
  /\ clobbered' = (clobbered \/ s \in Referenced)

BareRequest(op, n) ==
  /\ msg' = [Idle EXCEPT !.op = op, !.n = n]
  /\ UNCHANGED <<textVars, clobbered>>

\* The requests the client library sends.  It sends no negative number, and
\* data only with a put.
PutRequest == \E s \in Str \ live, k \in Key, v \in Value : KeyedRequest("put", s, k, v)
GetRequest == \E s \in Str \ live, k \in Key : KeyedRequest("get", s, k, text[s].val)
DelRequest == \E s \in Str \ live, k \in Key : KeyedRequest("del", s, k, text[s].val)
SizeRequest == BareRequest("size", 0)
KeysRequest == BareRequest("getkeys", 0)
VerifyRequest == \E n \in 0 .. MaxOps : BareRequest("verify", n)

RoomForWrite == last_assigned < MaxOps /\ held # Block

Receive(op) ==
  /\ up /\ mpc = "poll"
  /\ \/ op = "put" /\ RoomForWrite /\ PutRequest
     \/ op = "del" /\ RoomForWrite /\ DelRequest
     \/ op = "get" /\ GetRequest
     \/ op = "size" /\ SizeRequest
     \/ op = "getkeys" /\ KeysRequest
     \/ op = "verify" /\ VerifyRequest
  /\ mpc' = "invoke"
  /\ served' = TRUE
  /\ UNCHANGED <<fifoVars, last_assigned, op_count, flag, tableVars, cursor,
                 view, workerVars, up, log, ran, torn>>

\* Mutant of Signalled: the signal is forgotten.
NotSignalled == wpc

\* pthread_cond_signal.
Signalled == IF wpc = "asleep" THEN "woken" ELSE wpc

\* The worker holds queue_lock from the moment it pops a task to the end of
\* the iteration.
Busy == Reading \/ wpc \in {"grow", "shrink", "readd", "applied"}

\* put and del: the write is numbered and queued under queue_lock.
Enqueue ==
  /\ up /\ mpc = "invoke" /\ msg.op \in {"put", "del"}
  /\ ~Busy
  /\ \E b \in Block \ held : \E r \in Residue \cup {proximo[b]} :
       /\ queue' = FifoAdd(queue, b)
       /\ proximo' = FifoLink(queue, [proximo EXCEPT ![b] = r], b)
       /\ task' = [task EXCEPT ![b] =
                     [n |-> last_assigned, op |-> msg.op, s |-> msg.s]]
       /\ held' = held \cup {b}
  /\ msg' = [msg EXCEPT !.result = last_assigned]
  /\ last_assigned' = last_assigned + 1
  /\ wpc' = Signalled
  /\ mpc' = "reply"
  /\ torn' = (torn \/ StaleTail(queue))
  /\ log' = Append(log, [op |-> msg.op, key |-> text[msg.s].key,
                         val |-> IF msg.op = "put" THEN text[msg.s].val
                                                   ELSE Absent])
  /\ UNCHANGED <<op_count, flag, tableVars, textVars, served, cursor, view,
                 hand, entry, up, ran, clobbered>>

\* The main thread goes from one point to another, having set its message.
MainStep(from, to, m) ==
  /\ up /\ mpc = from
  /\ mpc' = to /\ msg' = m
  /\ UNCHANGED <<sharedVars, cursor, workerVars, up>>

(***************************************************************************)
(* get, size and getkeys read the table without table_lock.  table_get     *)
(* walks every list and copies the value it finds: the worker may change   *)
(* the table at any point of that, and what it changes is noted in view.   *)
(***************************************************************************)
StartGet ==
  /\ msg.op = "get"
  /\ MainStep("invoke", "get", msg)
  /\ LET k == text[msg.s].key
     IN view' = [key |-> k, seen |-> {table[k]}, floor |-> op_count,
                 astray |-> FALSE]

\* The walk ends: with a value the key had meanwhile, with what freed memory
\* holds, or in a crash.
EndGet ==
  \/ /\ \E x \in IF view.astray \/ lost THEN MaybeValue ELSE view.seen :
          MainStep("get", "reply", [msg EXCEPT !.result = x])
     /\ view' = NoView
  \/ up /\ mpc = "get" /\ (view.astray \/ lost) /\ Crash

Size ==
  /\ msg.op = "size"
  /\ MainStep("invoke", "reply", [msg EXCEPT !.result = size])
  /\ UNCHANGED view

\* getkeys reads the table three times: its size for n_keys, its keys, and
\* its size again for the array the keys are copied to.
CountKeys ==
  /\ msg.op = "getkeys"
  /\ MainStep("invoke", IF size = 0 THEN "reply" ELSE "collect",
              [msg EXCEPT !.result = size])
  /\ UNCHANGED view

CollectKeys ==
  \/ /\ \E found \in IF view.astray \/ lost THEN SUBSET StoredKey ELSE {Stored} :
          MainStep("collect", "copy", [msg EXCEPT !.found = found])
     /\ view' = NoView
  \/ up /\ mpc = "collect" /\ (view.astray \/ lost) /\ Crash

CopyKeys ==
  MainStep("copy", "reply", [msg EXCEPT !.room = size]) /\ UNCHANGED view

\* More keys are announced than were found, or their number is below zero, and
\* to_messageT copies strings from pointers that were never set; or more were
\* found than there is room for, and they are written behind the array.
MisfitKeys ==
  /\ up /\ mpc = "reply" /\ msg.op = "getkeys"
  /\ \/ msg.result < 0 \/ msg.result > Cardinality(msg.found)
     \/ Cardinality(msg.found) > msg.room
  /\ Crash

(***************************************************************************)
(* verify walks the queue from its head and then compares with op_count,   *)
(* all without queue_lock.  The walk ends at a null link, not at the tail. *)
(***************************************************************************)
LookAt(p) ==
  /\ mpc' = "walk" /\ cursor' = p
  /\ UNCHANGED <<sharedVars, msg, view, workerVars, up>>

StartVerify == up /\ mpc = "invoke" /\ msg.op = "verify" /\ LookAt(queue.head)

\* The number in a block that has been freed may read as anything.
Walk ==
  /\ up /\ mpc = "walk" /\ cursor # Null
  /\ \/ /\ cursor \in Block
        /\ cursor \in held => task[cursor].n = msg.n
        /\ MainStep("walk", "reply", [msg EXCEPT !.result = -1])
        /\ UNCHANGED view
     \/ /\ cursor \in Block
        /\ cursor \in held => task[cursor].n # msg.n
        /\ LookAt(proximo[cursor])
     \/ cursor = Wild /\ Crash

\* Mutant of EndVerify: an operation about to be counted is reported done.
EndVerifyOffByOne ==
  /\ cursor = Null
  /\ MainStep("walk", "reply",
       [msg EXCEPT !.result = IF msg.n > op_count \/ msg.n < 0 THEN -1 ELSE 0])
  /\ UNCHANGED view

EndVerify ==
  /\ cursor = Null
  /\ MainStep("walk", "reply",
       [msg EXCEPT !.result = IF msg.n >= op_count \/ msg.n < 0 THEN -1 ELSE 0])
  /\ UNCHANGED view

(***************************************************************************)
(* network_send, then free_message: the strings go back to the allocator,  *)
(* which may overwrite them, while a queued task may still refer to them.  *)
(***************************************************************************)
FreeStrings(s) ==
  /\ live' = live \ {s}
  /\ \E k \in {text[s].key, Scrap}, v \in {text[s].val, Scrap} :
       /\ text' = [text EXCEPT ![s] = [key |-> k, val |-> v]]
       /\ clobbered' = (clobbered \/ (text'[s] # text[s] /\ s \in Referenced))

Reply ==
  /\ up /\ mpc = "reply"
  /\ IF msg.s = Null THEN UNCHANGED <<textVars, clobbered>>
                     ELSE FreeStrings(msg.s)
  /\ mpc' = "poll" /\ msg' = Idle /\ cursor' = Null
  /\ UNCHANGED <<fifoVars, last_assigned, op_count, flag, tableVars, served,
                 view, workerVars, up, log, ran, torn>>

(***************************************************************************)
(* The worker, process_task.  flag is read outside the lock.               *)
(***************************************************************************)
Move(from, to) ==
  /\ up /\ wpc = from
  /\ wpc' = to
  /\ UNCHANGED <<sharedVars, mainVars, hand, entry, up>>

TestFlag == Move("test", IF flag THEN "lock" ELSE "send")

\* Queue empty: pthread_cond_wait, once, which releases the lock.
WaitForTask == queue.size = 0 /\ Move("lock", "asleep")

\* pthread_cond_wait may return without a signal.
SpuriousWakeup == Move("asleep", "woken")

\* The lock is held and the wait, if any, is over.
Awake == wpc = "woken" \/ (wpc = "lock" /\ queue.size # 0)

HeadReadable == queue.size > 0 /\ queue.head # Null

Take ==
  /\ up /\ Awake /\ HeadReadable /\ queue.head \in held
  /\ hand' = queue.head
  /\ queue' = FifoPop(queue, proximo)
  /\ wpc' = "popped"
  /\ UNCHANGED <<proximo, task, held, last_assigned, op_count, flag, tableVars,
                 textVars, served, mainVars, entry, up, log, ran, torn,
                 clobbered>>

\* The head is no block, or one that was freed: what it holds is not a task
\* any more, and freeing it again ends the process at the latest.
TakeWild == up /\ Awake /\ HeadReadable /\ queue.head \notin held /\ Crash

\* Nothing to pop: unlock and test flag again.
TakeNothing == Awake /\ ~HeadReadable /\ Move(wpc, "test")

(***************************************************************************)
(* The change to the table, under table_lock, which nobody else takes.     *)
(* Each call that reads the strings of the task reads what they hold then. *)
(***************************************************************************)
HandText == text[task[hand].s]

\* A step of table_put or table_del.
TableStep(from, to) ==
  /\ up /\ wpc = from /\ tableUp
  /\ wpc' = to
  /\ UNCHANGED <<fifoVars, last_assigned, op_count, flag, tableUp, textVars,
                 served, mpc, msg, cursor, hand, up, log, torn, clobbered>>

\* A step that reads strings and leaves the table alone.
StringStep(from, to) ==
  TableStep(from, to) /\ UNCHANGED <<contentVars, view, ran>>

\* table_put copies the key and then the data; table_del hashes the key.
CopyKey ==
  /\ StringStep("popped", "keyed") /\ task[hand].op = "put"
  /\ entry' = [entry EXCEPT !.key = HandText.key]

CopyData ==
  StringStep("keyed", "copied") /\ entry' = [entry EXCEPT !.val = HandText.val]

HashKey ==
  /\ StringStep("popped", "copied") /\ task[hand].op = "del"
  /\ entry' = [entry EXCEPT !.key = HandText.key]

\* The keys in the list the worker works on, and what the tail of it names.
Bucket == ListOf[entry.key]
InBucket == {k \in Stored : ListOf[k] = Bucket}
TailNames(t) == [tails EXCEPT ![Bucket] = t]

\* A walk of the main thread meets a change of the table: a get sees the new
\* value of its key, and may stand on the node that is freed; getkeys has
\* made arrays of the sizes there were.
Astray(freed) == IF view.astray \/ mpc = "collect" THEN {TRUE}
                 ELSE IF mpc = "get" /\ freed THEN BOOLEAN ELSE {FALSE}

Watched(freed) ==
  \E a \in Astray(freed) :
    view' = [view EXCEPT !.astray = a,
               !.seen = IF mpc = "get" THEN @ \cup {table'[view.key]} ELSE @]

\* list_add of the worker's entry: in the place of one with its key, as the
\* first node of an empty list, whose tail stays, or behind the tail.  The
\* first node may get the address of the node the tail still names.
ListAdd ==
  /\ ~lost
  /\ table' = [table EXCEPT ![entry.key] = entry.val]
  /\ \/ table[entry.key] # Absent /\ UNCHANGED tails
     \/ InBucket = {} /\ UNCHANGED tails
     \/ InBucket = {} /\ tails[Bucket] = "gone" /\ tails' = TailNames("last")
     \/ /\ table[entry.key] = Absent /\ InBucket # {} /\ tails[Bucket] # "gone"
        /\ tails' = TailNames("last")
  /\ Watched(table[entry.key] # Absent)
  /\ UNCHANGED lost

\* The tail of a list that is not empty names a node that is gone: what is
\* linked behind it is in no list, or in one whose node has its address now.
\* From then on the lists may hold anything.
Scattered ==
  /\ table' \in [StoredKey -> MaybeValue]
  /\ lost' = TRUE
  /\ Watched(TRUE)
  /\ UNCHANGED tails

ListAddStale ==
  /\ lost \/ (table[entry.key] = Absent /\ InBucket # {} /\ tails[Bucket] = "gone")
  /\ Scattered

\* list_remove.  The tail of a list that becomes empty keeps its node.
ListRemove(k) ==
  \/ /\ ~lost /\ k \in InBucket
     /\ table' = [table EXCEPT ![k] = Absent]
     /\ tails' = IF InBucket = {k} /\ tails[Bucket] = "last" THEN TailNames("gone")
                                                             ELSE tails
     /\ Watched(TRUE)
     /\ UNCHANGED lost
  \/ /\ ~lost /\ k \notin InBucket /\ Cardinality(InBucket) # 1
     /\ UNCHANGED <<table, tails, lost, view>>
  \/ lost /\ Scattered

\* The hash of bytes above 127 is negative, and is an index in front of the array.
BadHash == up /\ wpc = "copied" /\ tableUp /\ entry.key = Scrap /\ Crash

\* list_get: a put of a new key adds it, a del of a missing one is over.
LookUp ==
  \/ /\ StringStep("copied", "found")
     /\ HandText.key \in InBucket
     /\ UNCHANGED entry
  \/ /\ \/ /\ TableStep("copied", "grow") /\ task[hand].op = "put"
           /\ ListAdd \/ ListAddStale
        \/ /\ TableStep("copied", "applied") /\ task[hand].op = "del"
           /\ UNCHANGED <<table, tails, lost, view>>
     /\ HandText.key \notin InBucket
     /\ ran' = Append(ran, task[hand].n)
     /\ UNCHANGED <<entry, size>>

\* A key that is there is removed before it is added again.
Remove ==
  /\ TableStep("found", IF task[hand].op = "put" THEN "readd" ELSE "shrink")
  /\ ListRemove(HandText.key)
  /\ ran' = Append(ran, task[hand].n)
  /\ UNCHANGED <<entry, size>>

\* list_remove of a key that is not the one node of its list looks behind it.
RemoveCrashes ==
  /\ up /\ wpc = "found" /\ tableUp
  /\ lost \/ (HandText.key \notin InBucket /\ Cardinality(InBucket) = 1)
  /\ Crash

\* Mutant of Readd: table_put counts the overwritten key as a new one.
ReaddAndGrow ==
  /\ TableStep("readd", "applied") /\ (ListAdd \/ ListAddStale)
  /\ size' = size + 1
  /\ UNCHANGED <<entry, ran>>

Readd ==
  /\ TableStep("readd", "applied") /\ (ListAdd \/ ListAddStale)
  /\ UNCHANGED <<entry, size, ran>>

\* list_add wrote behind a node that is gone, and that was not memory of the
\* process any more.
AddCrashes ==
  /\ up /\ wpc \in {"copied", "readd"} /\ tableUp
  /\ task[hand].op = "put" /\ (wpc = "copied" => HandText.key \notin InBucket)
  /\ \/ lost
     \/ table[entry.key] = Absent /\ InBucket # {} /\ tails[Bucket] = "gone"
  /\ Crash

\* The counter is changed after the list.
Resize(from, n) ==
  /\ TableStep(from, "applied")
  /\ size' = n
  /\ view' = [view EXCEPT !.astray = @ \/ mpc = "collect"]
  /\ UNCHANGED <<table, tails, lost, entry, ran>>

\* Mutant of Grow: table_put forgets to count a new key.
GrowNot == Resize("grow", size)

Grow == Resize("grow", size + 1)

Shrink == Resize("shrink", size - 1)

\* The table was destroyed: the write goes to freed memory.
ApplyToFreed ==
  /\ up /\ Busy /\ wpc # "applied" /\ ~tableUp
  /\ Crash \/ Move(wpc, "applied")

\* Mutant of Count: all the writes accepted so far are counted as executed.
CountEverything ==
  /\ up /\ wpc = "applied"
  /\ op_count' = last_assigned
  /\ held' = held \ {hand}
  /\ hand' = Null /\ entry' = NoEntry
  /\ wpc' = "test"
  /\ UNCHANGED <<queue, proximo, task, last_assigned, flag, tableVars, textVars,
                 served, mainVars, up, log, ran, torn, clobbered>>

\* op_count++, free(task), unlock.
Count ==
  /\ up /\ wpc = "applied"
  /\ op_count' = op_count + 1
  /\ held' = held \ {hand}
  /\ hand' = Null /\ entry' = NoEntry
  /\ wpc' = "test"
  /\ UNCHANGED <<queue, proximo, task, last_assigned, flag, tableVars, textVars,
                 served, mainVars, up, log, ran, torn, clobbered>>

\* sendMessage: messageServer is null, or names the last message, which has
\* been freed by now.
SendMessage ==
  /\ up /\ wpc = "send"
  /\ Crash \/ (served /\ Move("send", "exited"))

(***************************************************************************)
(* Shutdown: a signal interrupts poll, and network_server_close runs       *)
(* table_skel_destroy.                                                     *)
(***************************************************************************)
Stop == MainStep("poll", "destroy", msg) /\ UNCHANGED view

DestroyTable ==
  /\ up /\ mpc = "destroy"
  /\ tableUp' = FALSE
  /\ mpc' = "clear"
  /\ UNCHANGED <<fifoVars, last_assigned, op_count, flag, contentVars,
                 textVars, served, msg, cursor, view, workerVars, up, log, ran, torn, clobbered>>

ClearFlag ==
  /\ up /\ mpc = "clear"
  /\ flag' = FALSE
  /\ mpc' = "signal"
  /\ UNCHANGED <<fifoVars, last_assigned, op_count, tableVars, textVars, served,
                 msg, cursor, view, workerVars, up, log, ran, torn, clobbered>>

\* pthread_cond_signal, without queue_lock.
SignalStop ==
  /\ up /\ mpc = "signal"
  /\ wpc' = Signalled
  /\ mpc' = "join"
  /\ UNCHANGED <<sharedVars, msg, cursor, view, hand, entry, up>>

Join == wpc = "exited" /\ MainStep("join", "delete", msg) /\ UNCHANGED view

\* fifo_delete: the strings of a task still queued were freed with its
\* message, and are freed here once more.
DeleteQueue ==
  /\ up /\ mpc = "delete"
  /\ \/ queue.size # 0 /\ Crash
     \/ /\ mpc' = "exited"
        /\ queue' = [queue EXCEPT !.size = 0] /\ held' = {}
        /\ UNCHANGED <<proximo, task, last_assigned, op_count, flag, tableVars,
                       textVars, served, msg, cursor, view, workerVars, up, log, ran,
                       torn, clobbered>>

Invoke == Enqueue \/ StartGet \/ EndGet \/ Size \/ CountKeys \/ CollectKeys \/ CopyKeys
            \/ MisfitKeys \/ StartVerify \/ Walk \/ EndVerify

Shutdown == DestroyTable \/ ClearFlag \/ SignalStop \/ Join \/ DeleteQueue

Worker == TestFlag \/ WaitForTask \/ Take \/ TakeWild \/ TakeNothing
            \/ CopyKey \/ CopyData \/ HashKey \/ BadHash \/ LookUp
            \/ Remove \/ RemoveCrashes \/ Readd \/ AddCrashes
            \/ Grow \/ Shrink \/ ApplyToFreed \/ Count \/ SendMessage

\* A process that has crashed does nothing more.
Ended == ~up /\ UNCHANGED vars

Next ==
  \/ \E op \in Command \ {"stop"} : Receive(op)
  \/ Invoke
  \/ Reply
  \/ "stop" \in Command /\ Stop
  \/ Shutdown
  \/ Worker
  \/ SpuriousWakeup
  \/ Ended

Spec == Init /\ [][Next]_vars

(***************************************************************************)
(* Both threads keep running: the scheduler starves neither, and nobody    *)
(* but the worker holds queue_lock from one step to the next.  Clients,    *)
(* signals and spurious wakeups may or may not come.                       *)
(***************************************************************************)
FairSpec == Spec /\ WF_vars(Worker) /\ WF_vars(Invoke \/ Reply \/ Shutdown)

(***************************************************************************)
(* Properties.                                                             *)
(***************************************************************************)
Accepted == [op : {"put", "del"}, key : StoredKey, val : MaybeValue]

\* Every variable has the type its declaration in table_skel.c gives it.  The
\* size of the queue is never negative, and that of the table only once a
\* string was overwritten or an entry lost.
TypeOK ==
  /\ queue \in FifoType
  /\ proximo \in [Block -> Pointer]
  /\ task \in [Block -> [n : Nat, op : {"put", "del"}, s : Str \cup {Null}]]
  /\ held \subseteq Block
  /\ last_assigned \in Nat /\ op_count \in Nat /\ flag \in BOOLEAN
  /\ table \in [StoredKey -> MaybeValue] /\ tableUp \in BOOLEAN
  /\ size \in Int /\ (clobbered \/ lost \/ size \in Nat)
  /\ tails \in [List -> {"null", "last", "gone"}] /\ lost \in BOOLEAN
  /\ text \in [Str -> String] /\ live \subseteq Str
  /\ served \in BOOLEAN
  /\ mpc \in {"poll", "invoke", "walk", "get", "collect", "copy", "reply", "destroy",
              "clear", "signal", "join", "delete", "exited"}
  /\ msg \in Message
  /\ cursor \in Pointer /\ view \in View
  /\ wpc \in {"test", "lock", "asleep", "woken", "popped", "keyed", "copied",
              "found", "grow", "shrink", "readd", "applied", "send", "exited"}
  /\ hand \in Block \cup {Null} /\ entry \in String
  /\ up \in BOOLEAN
  /\ log \in Seq(Accepted) /\ ran \in Seq(Nat)
  /\ torn \in BOOLEAN /\ clobbered \in BOOLEAN

\* The size of the queue, the two operation counters and the task in the
\* worker's hand always account for every write accepted, whatever became of
\* the links (fifo->size, last_assigned++ and op_count++ are changed in three
\* places by two threads).
SizeAgrees ==
  mpc # "exited" =>
    queue.size = last_assigned - op_count - (IF hand # Null THEN 1 ELSE 0)

\* table->size is the number of keys in the lists, apart from the change
\* table_put or table_del is in the middle of, until the table is destroyed,
\* list_add links an entry behind a stale tail (which counts it and loses it),
\* or a string is overwritten before the worker was done with it (which may
\* let table_del count a removal it did not make).
SizeCounts ==
  (tableUp /\ ~lost /\ ~clobbered) =>
     size = Cardinality(Stored) + (IF wpc \in {"readd", "shrink"} THEN 1
                                   ELSE IF wpc = "grow" THEN -1 ELSE 0)

\* Numbers of the tasks in the queue: First is the oldest, if there is one.
Queued == held \ {hand}
First == last_assigned - queue.size

\* As long as no task was linked behind a stale tail, the links of the queue
\* lead from its head through every task accepted and not yet popped, in the
\* order of their numbers, to its last one.
ChainInOrder ==
  (~torn /\ mpc # "exited") =>
    /\ \A b \in Queued : task[b].n \in First .. last_assigned - 1
    /\ \A b, c \in Queued : task[b].n = task[c].n => b = c
    /\ queue.size > 0 => /\ queue.head \in Queued
                         /\ task[queue.head].n = First
    /\ \A b \in Queued : task[b].n < last_assigned - 1 =>
         /\ proximo[b] \in Queued
         /\ task[proximo[b]].n = task[b].n + 1
    /\ queue.size > 1 => /\ queue.tail \in Queued
                         /\ task[queue.tail].n = last_assigned - 1
    /\ queue.tail = Null => queue.size < 2

\* Writes are applied once each and in the order of the numbers invoke gave
\* them, as long as no task was linked behind a stale tail.
InOrder == ~torn => \A i \in 1 .. Len(ran) : ran[i] = i - 1

\* A client told that its operation was executed finds it executed, although
\* verify reads the queue and op_count without a lock, as long as no task was
\* linked behind a stale tail.
VerifySound ==
  (~torn /\ mpc = "reply" /\ msg.op = "verify" /\ msg.result = 0) =>
    \E i \in 1 .. Len(ran) : ran[i] = msg.n

\* The worker never sleeps on cond while there is a task to take: process_task
\* tests the size and sleeps under queue_lock, and invoke signals under it.
NoMissedWakeup == wpc = "asleep" => queue.size = 0

(***************************************************************************)
(* The skeleton implements write-behind: a write is served when the worker *)
(* first changes the table, and a key that table_put has removed to add it *)
(* again counts as already added.                                          *)
(***************************************************************************)
Visible ==
  LET contents == IF wpc = "readd" THEN [table EXCEPT ![entry.key] = entry.val]
                                   ELSE table
  IN [k \in Key |-> contents[k]]

WB == INSTANCE WriteBehind WITH done <- Len(ran), store <- Visible

\* Every step accepts one write, or applies the oldest one not applied yet
\* with the key and the data the client sent, or changes nothing of the
\* abstract state, until a task or an entry is linked behind a stale tail, a
\* string is overwritten before the worker was done with it, or the table is
\* destroyed.
Unfaithful == torn \/ lost' \/ clobbered \/ ~tableUp

ImplementsWriteBehind ==
  WB!Init /\ [][Unfaithful \/ WB!Next]_<<log, Len(ran), Visible>>

\* What the table holds once the first n writes have been applied.
After(n) ==
  LET f[i \in 0 .. n] == IF i = 0 THEN [k \in StoredKey |-> Absent]
                                  ELSE WB!Effect(f[i - 1], log[i])
  IN f[n]

\* What a get that began when floor writes were counted as executed may
\* answer: what those writes have left, or those up to the one after the
\* writes counted now; or nothing, if one of the writes since puts the key,
\* since a key that is there is removed before it is added again.
Current(k, floor) ==
  {After(n)[k] : n \in floor .. op_count + 1 \cap 0 .. Len(log)}
  \cup {Absent : n \in {i \in floor + 1 .. op_count + 1 \cap 1 .. Len(log) :
                          log[i].op = "put" /\ log[i].key = k}}

\* table_get walks the lists without a lock while writes are applied, and yet
\* never answers anything older than the writes verify reported as executed
\* when it began, nor anything newer than the write being applied.  Unless a
\* task or an entry was linked behind a stale tail, a string was overwritten,
\* or the walk came upon a node that was freed.
GetIsCurrent ==
  [][(EndGet /\ up' /\ ~torn /\ ~lost /\ ~clobbered /\ ~view.astray) =>
       msg'.result \in Current(view.key, view.floor)]_vars

\* Every write accepted is applied in the end, unless a task is linked behind
\* a stale tail, the server is stopped and its table destroyed, or the process
\* crashes.
WritesApplied ==
  \A n \in 0 .. MaxOps - 1 :
    Len(log) > n ~> (torn \/ ~tableUp \/ ~up \/ \E i \in 1 .. Len(ran) : ran[i] = n)

\* A worker asleep on cond when table_skel_destroy signals it is woken, runs
\* to its end and lets the main thread finish, unless the process crashes.
StopDelivered ==
  (mpc = "signal" /\ wpc = "asleep") ~> (mpc = "exited" \/ ~up)

(***************************************************************************)
(* Properties the headers state of the program and the code does not have. *)
(***************************************************************************)

\* client_stub.h: rtable_put adds an element to the table.  A write that was
\* given its number is applied in the end, unless the process crashes.
EveryWriteApplied ==
  \A n \in 0 .. MaxOps - 1 :
    Len(log) > n ~> (~up \/ \E i \in 1 .. Len(ran) : ran[i] = n)

\* task.h: a task holds the key to remove or add.  The write applied is the
\* one the client sent, as long as the links of the queue are right.
AppliesWhatWasSent == [][torn \/ WB!Next]_<<log, Len(ran), Visible>>

\* table_skel.h: table_skel_destroy frees all that table_skel_init allocated.
\* It returns, unless the process crashes.
StopReturns == mpc = "signal" ~> (mpc = "exited" \/ ~up)
=============================================================================

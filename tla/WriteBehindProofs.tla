--------------------------- MODULE WriteBehindProofs ---------------------------
(***************************************************************************)
(* The skeleton implements write-behind: every step of its two threads     *)
(* accepts one write, or serves the oldest one not served yet with the key *)
(* and the data the client sent, or changes nothing a client could see,    *)
(* until the links or the strings of the queue go wrong, an entry is lost  *)
(* in the lists or the table is destroyed.  A get that walks the lists     *)
(* without a lock answers what the writes served meanwhile have left.      *)
(***************************************************************************)
EXTENDS TableSkelProofs, SetInduction

\* The main thread numbers a write from the length of the log, and the strings
\* of the request it is about to run are still what the client sent.
Sent ==
  /\ Len(log) = last_assigned
  /\ (mpc = "invoke" /\ msg.op \in {"put", "del"}) =>
       /\ text[msg.s].key \in Key
       /\ msg.op = "put" => text[msg.s].val \in Value

\* The tasks the worker has not read to the end, in the queue or in its hand.
Pending == {b \in held : b # hand \/ Reading}

\* Every task the worker has not read to the end is the write of its number in the log,
\* until a string was overwritten.
Intact ==
  /\ \A b \in held : task[b].n < Len(log)
  /\ ~clobbered =>
       \A b \in Pending :
         LET w == log[task[b].n + 1]
         IN /\ w.op = task[b].op /\ w.key = text[task[b].s].key
            /\ w.op = "put" => w.val = text[task[b].s].val

\* The table as a client sees it, the keys that stand for overwritten strings
\* included.
Contents == IF wpc = "readd" THEN [table EXCEPT ![entry.key] = entry.val] ELSE table

\* While a key is missing between its removal and the addition of its new
\* value, the last write applied is the put of that key.
Readded ==
  (wpc = "readd" /\ ~torn /\ ~clobbered /\ tableUp) =>
    /\ Len(ran) = op_count + 1 /\ Len(ran) <= Len(log)
    /\ log[Len(ran)].op = "put" /\ log[Len(ran)].key = entry.key

RInv == IInv /\ Answering /\ Sent /\ Intact /\ Readded

-----------------------------------------------------------------------------
(***************************************************************************)
(* What the table should hold after n writes is defined by recursion on n. *)
(***************************************************************************)
Empty == [k \in StoredKey |-> Absent]

\* f lists what the first n writes of l leave, one after the other.
Leaves(f, l, n) ==
  f = [i \in 0 .. n |-> IF i = 0 THEN Empty ELSE WB!Effect(f[i - 1], l[i])]

\* There is such a list for every number of writes.
LEMMA LeavesExists ==
  ASSUME NEW l
  PROVE  \A n \in Nat : \E f : Leaves(f, l, n)
<1> DEFINE S == {n \in Nat : \E f : Leaves(f, l, n)}
<1>1. 0 \in S
  <2> DEFINE f == [i \in 0 .. 0 |-> Empty]
  <2>1. Leaves(f, l, 0)
    BY DEF Leaves
  <2> QED
    BY <2>1
<1>2. ASSUME NEW n \in Nat, n \in S PROVE n + 1 \in S
  <2>1. PICK f : Leaves(f, l, n)
    BY <1>2
  <2> DEFINE g == [i \in 0 .. n + 1 |->
                     IF i = n + 1 THEN WB!Effect(f[n], l[n + 1]) ELSE f[i]]
  <2>2. \A i \in 0 .. n + 1 :
          g[i] = IF i = 0 THEN Empty ELSE WB!Effect(g[i - 1], l[i])
    <3> SUFFICES ASSUME NEW i \in 0 .. n + 1
                 PROVE  g[i] = IF i = 0 THEN Empty ELSE WB!Effect(g[i - 1], l[i])
      OBVIOUS
    <3>1. CASE i = n + 1
      BY <3>1
    <3>2. CASE i # n + 1
      <4>1. i \in 0 .. n /\ g[i] = f[i] /\ (i # 0 => g[i - 1] = f[i - 1])
        BY <3>2
      <4>2. f[i] = IF i = 0 THEN Empty ELSE WB!Effect(f[i - 1], l[i])
        BY <2>1, <4>1 DEF Leaves
      <4> QED
        BY <4>1, <4>2
    <3> QED
      BY <3>1, <3>2
  <2>3. Leaves(g, l, n + 1)
    BY <2>2 DEF Leaves
  <2> QED
    BY <2>3
<1> HIDE DEF S
<1>3. \A n \in Nat : n \in S
  BY <1>1, <1>2, NatSetInduction
<1> QED
  BY <1>3 DEF S

\* Two such lists agree as far as both go and their writes are the same.
LEMMA LeavesUnique ==
  ASSUME NEW f, NEW g, NEW l, NEW h, NEW m \in Nat, NEW n \in Nat, m <= n,
         Leaves(f, l, m), Leaves(g, h, n), \A i \in 1 .. m : l[i] = h[i]
  PROVE  \A i \in 0 .. m : f[i] = g[i]
<1> DEFINE S == {i \in Nat : i <= m => f[i] = g[i]}
<1>1. 0 \in S
  <2>1. f[0] = Empty /\ g[0] = Empty
    BY DEF Leaves
  <2> QED
    BY <2>1
<1>2. ASSUME NEW i \in Nat, i \in S PROVE i + 1 \in S
  <2> SUFFICES ASSUME i + 1 <= m PROVE f[i + 1] = g[i + 1]
    OBVIOUS
  <2>1. i + 1 \in 0 .. m /\ i + 1 \in 0 .. n /\ i + 1 # 0 /\ (i + 1) - 1 = i
    OBVIOUS
  <2>2. f[i + 1] = WB!Effect(f[i], l[i + 1]) /\ g[i + 1] = WB!Effect(g[i], h[i + 1])
    BY <2>1 DEF Leaves
  <2>3. f[i] = g[i] /\ l[i + 1] = h[i + 1]
    BY <1>2, <2>1
  <2> QED
    BY <2>2, <2>3
<1> HIDE DEF S
<1>3. \A i \in Nat : i \in S
  BY <1>1, <1>2, NatSetInduction
<1> QED
  BY <1>3 DEF S

\* What the first n writes of l leave.
Left(l, n) == (CHOOSE f : Leaves(f, l, n))[n]

\* What n writes leave is the last of such a list.
LEMMA LeftLeaves ==
  ASSUME NEW l, NEW n \in Nat
  PROVE  \E f : Leaves(f, l, n) /\ Left(l, n) = f[n]
<1> DEFINE f == CHOOSE x : Leaves(x, l, n)
<1>1. Leaves(f, l, n)
  BY LeavesExists
<1>2. Left(l, n) = f[n]
  BY DEF Left
<1> HIDE DEF f
<1> QED
  BY <1>1, <1>2

\* It does not depend on the writes behind them.
LEMMA LeftKept ==
  ASSUME NEW l, NEW h, NEW n \in Nat, \A i \in 1 .. n : l[i] = h[i]
  PROVE  Left(l, n) = Left(h, n)
<1>1. PICK f : Leaves(f, l, n) /\ Left(l, n) = f[n]
  BY LeftLeaves
<1>2. PICK g : Leaves(g, h, n) /\ Left(h, n) = g[n]
  BY LeftLeaves
<1>3. n <= n /\ n \in 0 .. n
  OBVIOUS
<1>4. \A i \in 0 .. n : f[i] = g[i]
  BY <1>1, <1>2, <1>3, LeavesUnique
<1> QED
  BY <1>1, <1>2, <1>3, <1>4

\* No write leaves an empty table, and each write has its effect.
LEMMA LeftNext ==
  ASSUME NEW l
  PROVE  /\ Left(l, 0) = Empty
         /\ \A n \in Nat : Left(l, n + 1) = WB!Effect(Left(l, n), l[n + 1])
<1>1. Left(l, 0) = Empty
  BY LeftLeaves DEF Leaves
<1>2. ASSUME NEW n \in Nat PROVE Left(l, n + 1) = WB!Effect(Left(l, n), l[n + 1])
  <2>1. PICK f : Leaves(f, l, n) /\ Left(l, n) = f[n]
    BY LeftLeaves
  <2>2. PICK g : Leaves(g, l, n + 1) /\ Left(l, n + 1) = g[n + 1]
    BY LeftLeaves
  <2>3. g[n + 1] = WB!Effect(g[n], l[n + 1])
    BY <2>2 DEF Leaves
  <2>4. n <= n + 1 /\ n \in 0 .. n
    OBVIOUS
  <2>5. \A i \in 0 .. n : f[i] = g[i]
    BY <2>1, <2>2, <2>4, LeavesUnique
  <2> QED
    BY <2>1, <2>2, <2>3, <2>4, <2>5
<1> QED
  BY <1>1, <1>2

\* The model's own definition says the same.
LEMMA AfterLeft ==
  ASSUME NEW n \in Nat
  PROVE  After(n) = Left(log, n)
BY DEF After, Left, Leaves, Empty

\* The table holds what the writes applied so far should leave.
Faithful == ~torn /\ ~clobbered /\ ~lost /\ tableUp

Agrees == Faithful => Contents = Left(log, Len(ran))

-----------------------------------------------------------------------------
(***************************************************************************)
(* The tasks hold what the clients sent.                                   *)
(***************************************************************************)

\* A step that touches neither the strings, the tasks nor the log, and lets
\* the worker read no task it had not to read before.
LEMMA IntactKept ==
  ASSUME Intact, UNCHANGED <<log, text, task, clobbered>>,
         held' \subseteq held, Pending' \subseteq Pending
  PROVE  Intact'
BY DEF Intact

\* A step of the main thread behind invoke, or of the worker.
LEMMA SentKept ==
  ASSUME Sent, UNCHANGED <<log, last_assigned, text>>,
         mpc' = "invoke" => mpc = "invoke" /\ msg' = msg
  PROVE  Sent'
BY DEF Sent

\* The tasks a step leaves to the worker, if it leaves the queue alone.
LEMMA PendingKept ==
  ASSUME UNCHANGED <<held, hand>>, Reading' => Reading
  PROVE  Pending' \subseteq Pending
BY DEF Pending

\* What no step of the worker touches.
LEMMA WorkerLeaves ==
  ASSUME Worker
  PROVE  /\ UNCHANGED <<log, last_assigned, text, live, task, clobbered, torn,
                         tableUp, mpc, msg>>
         /\ held' \subseteq held
BY DEF Worker, TestFlag, WaitForTask, TakeNothing, SendMessage, Take, TakeWild,
       Count, ApplyToFreed, CopyKey, CopyData, HashKey, BadHash, LookUp, Remove,
       RemoveCrashes, Readd, AddCrashes, Grow, Shrink, Resize, StringStep,
       TableStep, Move, Crash, sharedVars, mainVars, workerVars, fifoVars,
       tableVars, textVars

\* What no step of the main thread touches, apart from invoke's queueing.
LEMMA InvokeLeaves ==
  ASSUME Invoke, ~Enqueue
  PROVE  /\ UNCHANGED <<sharedVars, workerVars>>
         /\ mpc' = "invoke" => mpc = "invoke" /\ msg' = msg
BY DEF Invoke, StartGet, EndGet, Size, CountKeys, CollectKeys, CopyKeys,
       EndVerify, StartVerify, Walk, LookAt, MainStep, MisfitKeys, Crash, mainVars

\* The strings of a request are written: none of them is one of a task the
\* worker has not read, unless clobbered becomes true.
LEMMA StringWritten ==
  ASSUME IInv, Intact, NEW s \in Str,
         \A c \in Str \ {s} : text'[c] = text[c],
         clobbered => clobbered',
         text'[s] # text[s] /\ s \in Referenced => clobbered',
         UNCHANGED <<log, task, held, hand, wpc>>
  PROVE  Intact'
<1>1. \A b \in held : task[b].s \in Str
  BY DEF IInv, Shape
<1>2. Pending' = Pending
  BY DEF Pending, Reading
<1>3. ASSUME NEW b \in Pending, ~clobbered' PROVE text'[task[b].s] = text[task[b].s]
  <2>1. b \in held /\ task[b].s \in Referenced
    BY DEF Pending, Referenced
  <2> QED
    BY <1>1, <1>3, <2>1
<1>4. \A b \in held' : task'[b].n < Len(log')
  BY DEF Intact
<1>5. ASSUME ~clobbered', NEW b \in Pending
      PROVE  LET w == log'[task'[b].n + 1]
             IN /\ w.op = task'[b].op /\ w.key = text'[task'[b].s].key
                /\ w.op = "put" => w.val = text'[task'[b].s].val
  BY <1>3, <1>5 DEF Intact
<1> QED
  BY <1>2, <1>4, <1>5 DEF Intact

\* A request arrives.
LEMMA ReceiveSends ==
  ASSUME IInv, Sent, Intact, NEW op, Receive(op)
  PROVE  Sent' /\ Intact'
<1> USE DEF Receive, fifoVars, workerVars, textVars
<1>1. CASE op \in {"put", "del", "get"}
  <2>1. PICK s \in Str, k \in Key, v \in StoredValue :
          KeyedRequest(op, s, k, v) /\ (op = "put" => v \in Value)
    BY <1>1 DEF PutRequest, DelRequest, GetRequest, IInv, TypeOK, String, StoredValue
  <2>2. /\ text[s] \in String /\ text'[s] = [key |-> k, val |-> v]
        /\ \A c \in Str \ {s} : text'[c] = text[c]
        /\ clobbered => clobbered'
        /\ s \in Referenced => clobbered'
        /\ msg'.op = op /\ msg'.s = s
    BY <2>1 DEF KeyedRequest, IInv, TypeOK, Idle
  <2>3. Sent'
    BY <2>1, <2>2 DEF Sent
  <2>4. Intact'
    BY <2>2, StringWritten
  <2> QED
    BY <2>3, <2>4
<1>2. CASE op \notin {"put", "del", "get"}
  <2>1. UNCHANGED <<text, clobbered>> /\ msg'.op = op /\ op \in {"size", "getkeys", "verify"}
    BY <1>2 DEF SizeRequest, KeysRequest, VerifyRequest, BareRequest, Idle
  <2>2. Pending' \subseteq Pending
    BY DEF Pending, Reading
  <2> QED
    BY <2>1, <2>2, IntactKept DEF Sent
<1> QED
  BY <1>1, <1>2

\* The reply was sent and its strings are freed.
LEMMA ReplyKeeps ==
  ASSUME IInv, Sent, Intact, Reply
  PROVE  Sent' /\ Intact'
<1> USE DEF Reply, fifoVars, workerVars, textVars
<1>1. Sent'
  BY DEF Sent
<1>2. CASE msg.s = Null
  <2>1. Pending' \subseteq Pending
    BY DEF Pending, Reading
  <2> QED
    BY <1>1, <1>2, <2>1, IntactKept
<1>3. CASE msg.s # Null
  <2>1. msg.s \in Str
    BY <1>3 DEF IInv, TypeOK, Message
  <2>2. /\ \A c \in Str \ {msg.s} : text'[c] = text[c]
        /\ clobbered => clobbered'
        /\ text'[msg.s] # text[msg.s] /\ msg.s \in Referenced => clobbered'
    BY <1>3 DEF FreeStrings, IInv, TypeOK
  <2> QED
    BY <1>1, <2>1, <2>2, StringWritten
<1> QED
  BY <1>2, <1>3

\* What a write that is accepted leaves: one task and one entry of the log.
LEMMA EnqueueFacts ==
  ASSUME IInv, Sent, Enqueue
  PROVE  \E b \in Block \ held, w \in WB!Write :
           /\ held' = held \cup {b}
           /\ task' = [task EXCEPT ![b] =
                         [n |-> last_assigned, op |-> msg.op, s |-> msg.s]]
           /\ w.op = msg.op /\ w.key = text[msg.s].key
           /\ w.op = "put" => w.val = text[msg.s].val
           /\ log' = Append(log, w)
<1> DEFINE w == [op |-> msg.op, key |-> text[msg.s].key,
                 val |-> IF msg.op = "put" THEN text[msg.s].val ELSE Absent]
<1>1. PICK b \in Block \ held :
        /\ task' = [task EXCEPT ![b] =
                      [n |-> last_assigned, op |-> msg.op, s |-> msg.s]]
        /\ held' = held \cup {b}
  BY DEF Enqueue
<1>2. msg.op \in {"put", "del"} /\ mpc = "invoke"
  BY DEF Enqueue
<1>3. w \in WB!Write
  BY <1>2 DEF Sent, WB!Write
<1>4. log' = Append(log, w)
  BY DEF Enqueue
<1>5. w.op = msg.op /\ w.key = text[msg.s].key /\ (w.op = "put" => w.val = text[msg.s].val)
  OBVIOUS
<1> HIDE DEF w
<1> QED
  BY <1>1, <1>3, <1>4, <1>5

\* A write is accepted: its number is its place in the log.
LEMMA EnqueueSends ==
  ASSUME IInv, Sent, Intact, Enqueue
  PROVE  Sent' /\ Intact'
<1>1. PICK b \in Block \ held, w \in WB!Write :
        /\ held' = held \cup {b}
        /\ task' = [task EXCEPT ![b] =
                      [n |-> last_assigned, op |-> msg.op, s |-> msg.s]]
        /\ w.op = msg.op /\ w.key = text[msg.s].key
        /\ w.op = "put" => w.val = text[msg.s].val
        /\ log' = Append(log, w)
  BY EnqueueFacts
<1>2. /\ log \in Seq(Accepted) /\ last_assigned \in Nat /\ held \subseteq Block
      /\ task \in [Block -> [n : Nat, op : {"put", "del"}, s : Str \cup {Null}]]
      /\ Len(log) = last_assigned /\ hand = Null
  BY DEF IInv, TypeOK, Sent, Shape, Enqueue
<1>3. /\ last_assigned' = last_assigned + 1 /\ mpc' = "reply"
      /\ text' = text /\ clobbered' = clobbered /\ hand' = Null
  BY <1>2 DEF Enqueue, textVars
<1>4. /\ Len(log') = last_assigned + 1 /\ log'[last_assigned + 1] = w
      /\ \A i \in 1 .. last_assigned : log'[i] = log[i]
  BY <1>1, <1>2
<1>5. Sent'
  BY <1>2, <1>3, <1>4 DEF Sent
<1>6. /\ task'[b] = [n |-> last_assigned, op |-> msg.op, s |-> msg.s]
      /\ \A c \in held : task'[c] = task[c]
  BY <1>1, <1>2
<1>7. \A c \in held' : task'[c].n < Len(log')
  BY <1>1, <1>2, <1>4, <1>6 DEF Intact
<1>8. \A c \in Pending' : c = b \/ c \in Pending
  <2>1. \A c \in held : c # Null
    BY <1>2, PointerAssumption DEF PointerAssumption
  <2> QED
    BY <1>1, <1>2, <2>1 DEF Pending
<1>9. ASSUME ~clobbered', NEW c \in Pending'
      PROVE  LET v == log'[task'[c].n + 1]
             IN /\ v.op = task'[c].op /\ v.key = text'[task'[c].s].key
                /\ v.op = "put" => v.val = text'[task'[c].s].val
  <2>1. CASE c = b
    BY <1>1, <1>3, <1>4, <1>6, <2>1
  <2>2. CASE c # b
    <3>1. c \in Pending /\ c \in held /\ task'[c] = task[c] /\ task[c].n \in Nat
      BY <1>2, <1>6, <1>8, <2>2 DEF Pending
    <3>2. log'[task[c].n + 1] = log[task[c].n + 1]
      BY <1>2, <1>4, <3>1 DEF Intact
    <3> QED
      BY <1>3, <1>9, <3>1, <3>2 DEF Intact
  <2> QED
    BY <2>1, <2>2
<1>10. Intact'
  BY <1>7, <1>9 DEF Intact
<1> QED
  BY <1>5, <1>10

\* Every other step leaves the strings, the tasks and the log as they are.
LEMMA OthersSend ==
  ASSUME IInv, Sent, Intact, [Next]_vars,
         ~Enqueue, ~Reply, ~\E op \in Command \ {"stop"} : Receive(op)
  PROVE  Sent' /\ Intact'
<1> USE DEF sharedVars, fifoVars, workerVars, mainVars, tableVars, textVars
<1>1. CASE UNCHANGED vars \/ Stop \/ SpuriousWakeup
  <2>1. /\ UNCHANGED <<log, last_assigned, text, task, clobbered, held, hand>>
        /\ mpc' = "invoke" => mpc = "invoke" /\ msg' = msg
        /\ Reading' => Reading
    BY <1>1 DEF vars, Stop, SpuriousWakeup, MainStep, Move, Reading
  <2> QED
    BY <2>1, PendingKept, IntactKept, SentKept
<1>2. CASE Invoke
  <2>1. /\ UNCHANGED <<log, last_assigned, text, task, clobbered, held, hand>>
        /\ mpc' = "invoke" => mpc = "invoke" /\ msg' = msg
        /\ Reading' => Reading
    BY <1>2, InvokeLeaves DEF Reading
  <2> QED
    BY <2>1, PendingKept, IntactKept, SentKept
<1>3. CASE Shutdown
  <2>1. /\ UNCHANGED <<log, last_assigned, text, task, clobbered, hand>>
        /\ held' \subseteq held
        /\ mpc' = "invoke" => mpc = "invoke" /\ msg' = msg
        /\ Reading' => Reading
    BY <1>3 DEF Shutdown, DestroyTable, ClearFlag, SignalStop, Signalled, Join,
                MainStep, DeleteQueue, Crash, Reading
  <2>2. Pending' \subseteq Pending
    BY <2>1 DEF Pending
  <2> QED
    BY <2>1, <2>2, IntactKept, SentKept
<1>4. CASE Worker
  <2>1. /\ UNCHANGED <<log, last_assigned, text, task, clobbered>>
        /\ mpc' = "invoke" => mpc = "invoke" /\ msg' = msg
        /\ held' \subseteq held
    BY <1>4, WorkerLeaves
  <2>2. CASE Take
    <3>1. hand = Null
      BY <2>2 DEF Take, Awake, IInv, Shape, Busy, Reading
    <3>2. \A c \in held : c # Null
      BY PointerAssumption DEF IInv, TypeOK, PointerAssumption
    <3>3. Pending' \subseteq Pending
      BY <2>2, <3>1, <3>2 DEF Take, Pending
    <3> QED
      BY <2>1, <3>3, IntactKept, SentKept
  <2>3. CASE Count
    <3>1. Pending' \subseteq Pending
      BY <2>3 DEF Count, Pending, Reading
    <3> QED
      BY <2>1, <3>1, IntactKept, SentKept
  <2>4. CASE ~Take /\ ~Count
    <3>1. UNCHANGED <<held, hand>>
      BY <1>4, <2>4 DEF Worker, TestFlag, WaitForTask, TakeNothing, SendMessage,
                TakeWild, ApplyToFreed, CopyKey, CopyData, HashKey, BadHash, LookUp,
                Remove, RemoveCrashes, Readd, AddCrashes, Grow, Shrink, Resize,
                StringStep, TableStep, Move, Crash
    <3>2. Reading' => Reading
      BY <1>4, <2>4 DEF Worker, TestFlag, WaitForTask, TakeNothing, SendMessage,
                TakeWild, ApplyToFreed, CopyKey, CopyData, HashKey, BadHash, LookUp,
                Remove, RemoveCrashes, Readd, AddCrashes, Grow, Shrink, Resize,
                StringStep, TableStep, Move, Crash, Reading, Awake
    <3> QED
      BY <2>1, <3>1, <3>2, PendingKept, IntactKept, SentKept
  <2> QED
    BY <2>2, <2>3, <2>4
<1> QED
  BY <1>1, <1>2, <1>3, <1>4 DEF Next, Ended

\* The table is destroyed after the last request was answered.
LEMMA AnsweringKept ==
  ASSUME IInv, Answering, [Next]_vars
  PROVE  Answering'
<1> USE DEF sharedVars, mainVars, tableVars
<1>1. CASE UNCHANGED vars \/ SpuriousWakeup \/ Worker
  <2>1. UNCHANGED <<tableUp, mpc, msg>>
    BY <1>1, WorkerLeaves DEF vars, SpuriousWakeup, Move
  <2> QED
    BY <2>1 DEF Answering
<1>2. CASE Reply \/ Stop \/ \E op \in Command \ {"stop"} : Receive(op)
  BY <1>2 DEF Reply, Stop, Receive, MainStep, Answering
<1>3. CASE Shutdown
  BY <1>3 DEF Shutdown, DestroyTable, ClearFlag, SignalStop, Join, MainStep,
              DeleteQueue, Crash, Answering
<1>4. CASE Invoke
  <2>1. msg \in Message
    BY DEF IInv, TypeOK
  <2>2. CASE CountKeys \/ CollectKeys \/ CopyKeys \/ MisfitKeys \/ Crash
    <3>1. msg'.op = msg.op
      BY <2>1, <2>2 DEF CountKeys, CollectKeys, CopyKeys, MainStep, MisfitKeys,
                        Crash, Message
    <3> QED
      BY <2>2, <3>1 DEF CountKeys, CollectKeys, CopyKeys, MainStep, MisfitKeys,
                        Crash, Answering
  <2>3. CASE ~Crash /\ (Enqueue \/ StartGet \/ EndGet \/ Size)
    BY <2>3 DEF Enqueue, StartGet, EndGet, Size, MainStep, Answering
  <2>4. CASE EndVerify \/ StartVerify \/ Walk
    BY <2>4 DEF EndVerify, StartVerify, Walk, LookAt, MainStep, Crash, Answering
  <2> QED
    BY <1>4, <2>2, <2>3, <2>4 DEF Invoke
<1> QED
  BY <1>1, <1>2, <1>3, <1>4 DEF Next, Ended

\* What has gone wrong stays wrong.
LEMMA WrongStays ==
  ASSUME IInv, [Next]_vars
  PROVE  /\ torn => torn'
         /\ clobbered => clobbered'
         /\ ~tableUp => ~tableUp'
         /\ lost => lost'
<1> USE DEF sharedVars, fifoVars, workerVars, mainVars, tableVars, textVars,
            contentVars
<1>1. torn => torn'
  BY RanGrows
<1>2. CASE UNCHANGED vars \/ Stop \/ SpuriousWakeup
  BY <1>1, <1>2 DEF vars, Stop, SpuriousWakeup, MainStep, Move
<1>3. CASE Reply
  BY <1>1, <1>3 DEF Reply, FreeStrings
<1>4. CASE \E op \in Command \ {"stop"} : Receive(op)
  <2>1. PICK op : Receive(op)
    BY <1>4
  <2>2. UNCHANGED <<tableUp, lost>>
    BY <2>1 DEF Receive
  <2>3. ASSUME PutRequest \/ DelRequest \/ GetRequest PROVE clobbered => clobbered'
    BY <2>3 DEF PutRequest, DelRequest, GetRequest, KeyedRequest
  <2>4. ASSUME SizeRequest \/ KeysRequest \/ VerifyRequest PROVE clobbered => clobbered'
    BY <2>4 DEF SizeRequest, KeysRequest, VerifyRequest, BareRequest
  <2>5. clobbered => clobbered'
    BY <2>1, <2>3, <2>4 DEF Receive
  <2> QED
    BY <1>1, <2>2, <2>5
<1>5. CASE Shutdown
  BY <1>1, <1>5 DEF Shutdown, DestroyTable, ClearFlag, SignalStop, Join,
                    MainStep, DeleteQueue, Crash
<1>6. CASE Invoke
  <2>1. CASE Enqueue
    BY <1>1, <2>1 DEF Enqueue
  <2>2. CASE ~Enqueue
    BY <1>1, <1>6, <2>2, InvokeLeaves
  <2> QED
    BY <2>1, <2>2
<1>7. CASE Worker
  <2>1. lost => lost'
    BY <1>7 DEF Worker, TestFlag, WaitForTask, TakeNothing, SendMessage, Take,
                TakeWild, Count, ApplyToFreed, CopyKey, CopyData, HashKey, BadHash,
                LookUp, Remove, RemoveCrashes, Readd, AddCrashes, Grow, Shrink,
                Resize, StringStep, TableStep, ListAdd, ListAddStale, ListRemove,
                Scattered, Move, Crash
  <2> QED
    BY <1>1, <1>7, <2>1, WorkerLeaves
<1> QED
  BY <1>2, <1>3, <1>4, <1>5, <1>6, <1>7 DEF Next, Ended

\* The write the worker has in its hand when it changes the lists: the oldest
\* one not applied yet, read as the client sent it.
LEMMA WriteInHand ==
  ASSUME IInv, Sent, Intact, Answering, Reading, tableUp, ~torn, ~clobbered
  PROVE  LET w == log[Len(ran) + 1]
         IN  /\ w.op = task[hand].op /\ w.key = HandText.key
             /\ w.op = "put" => w.val = HandText.val
             /\ Len(ran) = op_count /\ Len(ran) \in Nat /\ Len(ran) < Len(log)
             /\ Len(Append(ran, task[hand].n)) = Len(ran) + 1
<1>1. hand \in held /\ hand # Null /\ mpc # "exited"
  BY DEF IInv, Shape, Busy, Answering
<1>2. /\ ran \in Seq(Nat) /\ op_count \in Nat /\ last_assigned \in Nat
      /\ queue.size \in Nat /\ Len(log) = last_assigned
      /\ task[hand].n \in Nat
  BY <1>1 DEF IInv, TypeOK, FifoType, Sent
<1>3. Len(ran) = op_count /\ task[hand].n = op_count
  BY <1>1 DEF IInv, Order, Reading
<1>4. op_count < last_assigned
  BY <1>1, <1>2 DEF IInv, SizeAgrees
<1>5. LET w == log[task[hand].n + 1]
      IN /\ w.op = task[hand].op /\ w.key = HandText.key
         /\ w.op = "put" => w.val = HandText.val
  BY <1>1 DEF Intact, Pending, HandText
<1> QED
  BY <1>2, <1>3, <1>4, <1>5

\* Only an overwrite makes the worker readd a key.
LEMMA ReaddedKept ==
  ASSUME RInv, [Next]_vars
  PROVE  Readded'
<1> SUFFICES ASSUME wpc' = "readd", ~torn', ~clobbered', tableUp'
             PROVE  /\ Len(ran') = op_count' + 1 /\ Len(ran') <= Len(log')
                    /\ log'[Len(ran')].op = "put" /\ log'[Len(ran')].key = entry'.key
  BY DEF Readded
<1>1. ~torn /\ ~clobbered /\ tableUp
  BY WrongStays DEF RInv
<1>2. CASE Remove
  <2>1. /\ wpc = "found" /\ task[hand].op = "put"
        /\ UNCHANGED <<log, entry, op_count>> /\ ran' = Append(ran, task[hand].n)
    BY <1>2 DEF Remove, TableStep
  <2>2. Reading /\ entry.key = HandText.key
    BY <1>1, <2>1 DEF RInv, IInv, Steady, Reading
  <2>3. LET w == log[Len(ran) + 1]
        IN  /\ w.op = "put" /\ w.key = entry.key
            /\ Len(ran) = op_count /\ Len(ran) \in Nat /\ Len(ran) < Len(log)
            /\ Len(ran') = Len(ran) + 1
    BY <1>1, <2>1, <2>2, WriteInHand DEF RInv
  <2>4. Len(log) \in Nat
    BY DEF RInv, IInv, TypeOK
  <2> QED
    BY <2>1, <2>3, <2>4
<1>3. CASE ~Remove
  <2>1. wpc = "readd" /\ UNCHANGED <<log, ran, entry, op_count>>
    <3> USE DEF sharedVars, fifoVars, workerVars, mainVars
    <3>1. CASE UNCHANGED vars \/ Stop \/ Reply \/ SpuriousWakeup
                 \/ \E op \in Command \ {"stop"} : Receive(op)
      BY <3>1 DEF vars, Stop, Reply, SpuriousWakeup, Receive, MainStep, Move
    <3>2. CASE Shutdown
      BY <3>2 DEF Shutdown, DestroyTable, ClearFlag, SignalStop, Signalled, Join,
                  MainStep, DeleteQueue, Crash
    <3>3. CASE Invoke
      <4>1. CASE Enqueue
        BY <4>1 DEF Enqueue, Busy, Signalled
      <4> QED
        BY <3>3, <4>1, InvokeLeaves
    <3>4. CASE Worker
      BY <1>3, <3>4 DEF Worker, TestFlag, WaitForTask, TakeNothing, SendMessage,
                Take, TakeWild, Count, ApplyToFreed, CopyKey, CopyData, HashKey,
                BadHash, LookUp, RemoveCrashes, Readd, AddCrashes, Grow, Shrink,
                Resize, StringStep, TableStep, Move, Crash, Awake
    <3> QED
      BY <3>1, <3>2, <3>3, <3>4 DEF Next, Ended
  <2> QED
    BY <1>1, <2>1 DEF RInv, Readded
<1> QED
  BY <1>2, <1>3

\* What the refinement needs of the state.
LEMMA RInvariance == Spec => []RInv
<1>1. Init => RInv
  <2> SUFFICES ASSUME Init PROVE RInv
    OBVIOUS
  <2>1. Sent /\ Answering /\ Readded
    BY DEF Init, Sent, Answering, Readded
  <2>2. Intact
    BY DEF Init, Intact, Pending
  <2> QED
    BY <2>1, <2>2, Initially, SkelAssumption, PointerAssumption DEF RInv
<1>2. RInv /\ [Next]_vars => RInv'
  <2> SUFFICES ASSUME RInv, [Next]_vars PROVE RInv'
    OBVIOUS
  <2>1. IInv /\ Sent /\ Intact /\ Answering
    BY DEF RInv
  <2>2. Sent' /\ Intact'
    BY <2>1, ReceiveSends, EnqueueSends, ReplyKeeps, OthersSend
  <2> QED
    BY <2>1, <2>2, Inductive, AnsweringKept, ReaddedKept, SkelAssumption,
       PointerAssumption DEF RInv
<1> QED
  BY <1>1, <1>2, PTL DEF Spec

-----------------------------------------------------------------------------
(***************************************************************************)
(* The steps, as write-behind sees them.                                   *)
(***************************************************************************)
Accepts ==
  /\ \E w \in WB!Write : log' = Append(log, w)
  /\ ran' = ran /\ Contents' = Contents

Serves ==
  /\ Len(ran) < Len(log) /\ Len(ran') = Len(ran) + 1
  /\ Contents' = WB!Effect(Contents, log[Len(ran) + 1])
  /\ log' = log

Stutters == UNCHANGED <<log, ran, Contents>>

\* list_add of an entry that is not lost.
LEMMA EntryAdded ==
  ASSUME ListAdd \/ ListAddStale, ~lost'
  PROVE  table' = [table EXCEPT ![entry.key] = entry.val]
BY DEF ListAdd, ListAddStale, Scattered

\* The worker applies the write in its hand, which is the oldest one that was
\* not applied yet.
LEMMA ApplyServes ==
  ASSUME RInv, ~torn, ~clobbered, ~lost', tableUp, LookUp \/ Remove
  PROVE  Serves \/ Stutters
<1> DEFINE w == log[Len(ran) + 1]
<1>1. CASE LookUp /\ StringStep("copied", "found")
  BY <1>1 DEF LookUp, StringStep, TableStep, contentVars, Stutters, Contents
<1>2. CASE ~(LookUp /\ StringStep("copied", "found"))
  <2>1. /\ Reading /\ log' = log /\ ran' = Append(ran, task[hand].n) /\ entry' = entry
        /\ wpc # "readd"
    BY <1>2 DEF LookUp, Remove, TableStep, Reading
  <2>2. ~lost /\ Busy
    <3>1. lost => lost'
      BY DEF LookUp, Remove, StringStep, contentVars, ListAdd, ListAddStale,
             ListRemove, Scattered
    <3> QED
      BY <2>1, <3>1 DEF Busy, RInv, IInv, TypeOK
  <2>3. /\ w.op = task[hand].op /\ w.key = entry.key
        /\ w.op = "put" => w.val = entry.val
        /\ wpc = "found" => table[entry.key] # Absent
        /\ HandText.key = entry.key /\ wpc \in {"copied", "found"}
    <3>1. /\ w.op = task[hand].op /\ w.key = HandText.key
          /\ w.op = "put" => w.val = HandText.val
      BY <2>1, WriteInHand DEF RInv
    <3>2. wpc \in {"copied", "found"}
      BY <1>2 DEF LookUp, Remove, TableStep
    <3> QED
      BY <2>2, <3>1, <3>2 DEF RInv, IInv, Steady
  <2>4. /\ Len(ran) < Len(log) /\ Len(ran') = Len(ran) + 1
    BY <2>1, WriteInHand DEF RInv
  <2>5. table \in [StoredKey -> MaybeValue] /\ entry.key \in StoredKey /\ Contents = table
    BY <2>1, <2>2, InHand, SkelAssumption DEF RInv, IInv, TypeOK, Contents
  <2> HIDE DEF w
  <2>6. CASE LookUp /\ task[hand].op = "put"
    <3>1. wpc' = "grow" /\ (ListAdd \/ ListAddStale)
      BY <1>2, <2>6 DEF LookUp, TableStep
    <3>2. Contents' = [table EXCEPT ![entry.key] = entry.val]
      BY <3>1, EntryAdded DEF Contents
    <3>3. Contents' = WB!Effect(Contents, w)
      BY <2>3, <2>5, <2>6, <3>2 DEF WB!Effect
    <3> QED
      BY <2>1, <2>4, <3>3 DEF Serves, w
  <2>7. CASE LookUp /\ task[hand].op = "del"
    <3>1. wpc' = "applied" /\ table' = table /\ HandText.key \notin InBucket
      BY <1>2, <2>7 DEF LookUp, TableStep
    <3>2. table[entry.key] = Absent
      BY <2>3, <2>5, <3>1 DEF InBucket, Stored, Bucket
    <3>3. table = [table EXCEPT ![entry.key] = Absent]
      BY <2>5, <3>2
    <3>4. Contents' = WB!Effect(Contents, w)
      BY <2>3, <2>5, <2>7, <3>1, <3>3 DEF Contents, WB!Effect
    <3> QED
      BY <2>1, <2>4, <3>4 DEF Serves, w
  <2>8. CASE Remove
    <3>1. ListRemove(entry.key) /\ wpc = "found"
          /\ wpc' = (IF task[hand].op = "put" THEN "readd" ELSE "shrink")
      BY <2>3, <2>8 DEF Remove, TableStep
    <3>2. table' = [table EXCEPT ![entry.key] = Absent]
      BY <2>2, <2>3, <3>1, RemoveCounts, SkelAssumption DEF RInv
    <3>3. CASE task[hand].op = "put"
      <4>1. Contents' = [table' EXCEPT ![entry.key] = entry.val]
        BY <2>1, <3>1, <3>3 DEF Contents
      <4>2. Contents' = [table EXCEPT ![entry.key] = entry.val]
        BY <2>5, <3>2, <4>1
      <4>3. Contents' = WB!Effect(Contents, w)
        BY <2>3, <2>5, <3>3, <4>2 DEF WB!Effect
      <4> QED
        BY <2>1, <2>4, <4>3 DEF Serves, w
    <3>4. CASE task[hand].op # "put"
      <4>1. Contents' = WB!Effect(Contents, w)
        BY <2>3, <2>5, <3>1, <3>2, <3>4 DEF Contents, WB!Effect
      <4> QED
        BY <2>1, <2>4, <4>1 DEF Serves, w
    <3> QED
      BY <3>3, <3>4
  <2>9. task[hand].op \in {"put", "del"}
    BY <2>2, InHand, SkelAssumption DEF RInv
  <2> QED
    BY <2>6, <2>7, <2>8, <2>9
<1> QED
  BY <1>1, <1>2

\* invoke accepts the write the client sent.
LEMMA EnqueueAccepts ==
  ASSUME RInv, Enqueue
  PROVE  Accepts
<1>1. \E w \in WB!Write : log' = Append(log, w)
  BY EnqueueFacts DEF RInv
<1>2. ~Busy
  BY DEF Enqueue
<1>3. UNCHANGED <<ran, table, entry>> /\ wpc' \in {wpc, "woken"}
  BY DEF Enqueue, Signalled, tableVars, contentVars
<1>4. Contents' = Contents
  BY <1>2, <1>3 DEF Contents, Busy
<1> QED
  BY <1>1, <1>3, <1>4 DEF Accepts

\* The rest of an overwrite puts back what counts as there already.
LEMMA ReaddStutters ==
  ASSUME Readd, ~lost'
  PROVE  Stutters
<1>1. UNCHANGED <<log, ran, entry>> /\ wpc = "readd" /\ wpc' = "applied"
  BY DEF Readd, TableStep
<1>2. Contents' = Contents
  BY <1>1, EntryAdded DEF Readd, Contents
<1> QED
  BY <1>1, <1>2 DEF Stutters

\* A step that leaves the table and the log, and is not part of an overwrite.
LEMMA QuietStutters ==
  ASSUME UNCHANGED <<log, ran, table>>, wpc' = "readd" <=> wpc = "readd",
         wpc = "readd" => entry' = entry
  PROVE  Stutters
BY DEF Stutters, Contents

\* Every step, until the queue or the strings go wrong, an entry is lost or
\* the table is destroyed.
LEMMA StepKinds ==
  ASSUME RInv, [Next]_vars, ~torn, ~clobbered, ~lost', tableUp
  PROVE  Accepts \/ Serves \/ Stutters
<1> USE DEF sharedVars, fifoVars, workerVars, mainVars, tableVars, contentVars,
            textVars
<1>1. CASE UNCHANGED vars \/ Stop \/ Reply \/ SpuriousWakeup
             \/ \E op \in Command \ {"stop"} : Receive(op)
  <2>1. UNCHANGED <<log, ran, table, entry>> /\ (wpc' = "readd" <=> wpc = "readd")
    BY <1>1 DEF vars, Stop, Reply, SpuriousWakeup, Receive, MainStep, Move
  <2> QED
    BY <2>1, QuietStutters
<1>2. CASE Shutdown
  <2>1. UNCHANGED <<log, ran, table, entry>> /\ (wpc' = "readd" <=> wpc = "readd")
    BY <1>2 DEF Shutdown, DestroyTable, ClearFlag, SignalStop, Signalled, Join,
                MainStep, DeleteQueue, Crash
  <2> QED
    BY <2>1, QuietStutters
<1>3. CASE Invoke
  <2>1. CASE Enqueue
    BY <2>1, EnqueueAccepts
  <2>2. CASE ~Enqueue
    <3>1. UNCHANGED <<log, ran, table, entry, wpc>>
      BY <1>3, <2>2, InvokeLeaves
    <3> QED
      BY <3>1, QuietStutters
  <2> QED
    BY <2>1, <2>2
<1>4. CASE Worker
  <2>1. CASE LookUp \/ Remove
    BY <2>1, ApplyServes
  <2>2. CASE Readd
    BY <2>2, ReaddStutters
  <2>3. CASE Grow \/ Shrink \/ Count
    <3>1. UNCHANGED <<log, ran, table>> /\ wpc # "readd" /\ wpc' # "readd"
      BY <2>3 DEF Grow, Shrink, Resize, TableStep, Count
    <3> QED
      BY <3>1, QuietStutters
  <2>4. CASE CopyKey \/ CopyData \/ HashKey
    <3>1. UNCHANGED <<log, ran, table>> /\ wpc # "readd" /\ wpc' # "readd"
      BY <2>4 DEF CopyKey, CopyData, HashKey, StringStep, TableStep
    <3> QED
      BY <3>1, QuietStutters
  <2>5. CASE TestFlag \/ WaitForTask \/ TakeNothing \/ SendMessage \/ Take
               \/ TakeWild \/ BadHash \/ RemoveCrashes \/ AddCrashes
    <3>1. UNCHANGED <<log, ran, table, entry>> /\ (wpc' = "readd" <=> wpc = "readd")
      BY <2>5 DEF TestFlag, WaitForTask, TakeNothing, SendMessage, Take,
                  TakeWild, BadHash, RemoveCrashes, AddCrashes, Awake, Move, Crash
    <3> QED
      BY <3>1, QuietStutters
  <2>6. CASE ApplyToFreed
    BY <2>6 DEF ApplyToFreed
  <2> QED
    BY <1>4, <2>1, <2>2, <2>3, <2>4, <2>5, <2>6 DEF Worker
<1> QED
  BY <1>1, <1>2, <1>3, <1>4 DEF Next, Ended

\* What a client sees of the table.
LEMMA VisibleContents ==
  /\ Visible = [k \in Key |-> Contents[k]]
  /\ Visible' = [k \in Key |-> Contents'[k]]
BY Zenon DEF Visible, Contents

\* The effect of a write on the table, and on what a client sees of it.
LEMMA EffectVisible ==
  ASSUME RInv, NEW w, Contents' = WB!Effect(Contents, w)
  PROVE  Visible' = WB!Effect(Visible, w)
<1>1. DOMAIN Contents = StoredKey /\ Key \subseteq StoredKey
  BY DEF RInv, IInv, TypeOK, Contents, StoredKey
<1>2. Visible = [k \in Key |-> Contents[k]] /\ Visible' = [k \in Key |-> Contents'[k]]
  BY VisibleContents
<1>3. \A k \in StoredKey : WB!Effect(Contents, w)[k] =
        IF k = w.key THEN IF w.op = "put" THEN w.val ELSE Absent ELSE Contents[k]
  BY <1>1 DEF WB!Effect
<1>4. \A k \in Key : Contents'[k] =
        IF k = w.key THEN IF w.op = "put" THEN w.val ELSE Absent ELSE Contents[k]
  BY <1>1, <1>3
<1>5. WB!Effect(Visible, w) = [k \in Key |->
        IF k = w.key THEN IF w.op = "put" THEN w.val ELSE Absent ELSE Contents[k]]
  BY <1>2 DEF WB!Effect
<1> QED
  BY <1>2, <1>4, <1>5

\* The skeleton implements write-behind.
THEOREM Refinement == Spec => ImplementsWriteBehind
<1>1. Init => WB!Init
  <2> SUFFICES ASSUME Init PROVE WB!Init
    OBVIOUS
  <2>1. Visible = [k \in Key |-> Absent]
    BY DEF Init, Visible, StoredKey
  <2> QED
    BY <2>1 DEF Init, WB!Init
<1>2. RInv /\ [Next]_vars =>
        [Unfaithful \/ WB!Next]_<<log, Len(ran), Visible>>
  <2> SUFFICES ASSUME RInv, [Next]_vars, ~torn, ~clobbered, ~lost', tableUp
               PROVE  WB!Next \/ UNCHANGED <<log, Len(ran), Visible>>
    BY DEF Unfaithful
  <2>1. CASE Accepts
    <3>1. Visible' = Visible /\ Len(ran') = Len(ran)
      BY <2>1, VisibleContents DEF Accepts
    <3> QED
      BY <2>1, <3>1 DEF Accepts, WB!Next, WB!Accept
  <2>2. CASE Serves
    BY <2>2, EffectVisible DEF Serves, WB!Next, WB!Serve
  <2>3. CASE Stutters
    <3>1. Visible' = Visible
      BY <2>3, VisibleContents DEF Stutters
    <3> QED
      BY <2>3, <3>1 DEF Stutters
  <2> QED
    BY <2>1, <2>2, <2>3, StepKinds
<1> QED
  BY <1>1, <1>2, RInvariance, PTL DEF Spec, ImplementsWriteBehind

-----------------------------------------------------------------------------
(***************************************************************************)
(* A get without a lock.                                                   *)
(***************************************************************************)

\* The writes applied are among those accepted, and op_count is behind them by
\* one at most.
LEMMA RanBounded ==
  ASSUME RInv, tableUp
  PROVE  /\ Len(ran) \in Nat /\ Len(log) \in Nat /\ op_count \in Nat
         /\ Len(ran) <= Len(log)
         /\ Len(ran) = op_count \/ Len(ran) = op_count + 1
<1>1. /\ op_count \in Nat /\ last_assigned \in Nat /\ queue.size \in Nat
      /\ Len(log) = last_assigned
  BY DEF RInv, IInv, TypeOK, FifoType, Sent
<1>2. queue.size = last_assigned - op_count - (IF hand # Null THEN 1 ELSE 0)
  BY DEF RInv, IInv, SizeAgrees, Answering
<1>3. IF wpc \in {"grow", "shrink", "readd", "applied"}
        THEN Len(ran) = op_count + 1 ELSE Len(ran) = op_count
  BY DEF RInv, IInv, Order
<1>4. wpc \in {"grow", "shrink", "readd", "applied"} => hand # Null
  BY DEF RInv, IInv, Shape, Busy
<1> QED
  BY <1>1, <1>2, <1>3, <1>4

\* The writes applied stay at the front of the log.
LEMMA LogGrows ==
  ASSUME RInv, [Next]_vars, Faithful, Faithful'
  PROVE  /\ Len(ran') \in Nat /\ Len(ran) \in Nat /\ Len(ran) <= Len(ran')
         /\ \A i \in 1 .. Len(ran) : log'[i] = log[i]
         /\ \A n \in 0 .. Len(ran) : Left(log', n) = Left(log, n)
<1>1. Len(ran) \in Nat /\ Len(log) \in Nat /\ Len(ran) <= Len(log)
  BY RanBounded DEF Faithful
<1>2. Accepts \/ Serves \/ Stutters
  BY StepKinds DEF Faithful
<1>3. Len(ran') \in Nat /\ Len(ran) <= Len(ran')
  BY <1>1, <1>2 DEF Accepts, Serves, Stutters
<1>4. \A i \in 1 .. Len(ran) : log'[i] = log[i]
  <2>1. log \in Seq(Accepted)
    BY DEF RInv, IInv, TypeOK
  <2>2. CASE Accepts
    BY <1>1, <2>1, <2>2 DEF Accepts
  <2> QED
    BY <1>2, <2>2 DEF Serves, Stutters
<1>5. ASSUME NEW n \in 0 .. Len(ran) PROVE Left(log', n) = Left(log, n)
  <2>1. n \in Nat /\ \A i \in 1 .. n : log'[i] = log[i]
    BY <1>1, <1>4
  <2> QED
    BY <2>1, LeftKept
<1> QED
  BY <1>1, <1>3, <1>4, <1>5

\* Until something goes wrong, the table holds what the writes applied leave.
LEMMA TableFollowsLog == Spec => [](RInv /\ Agrees)
<1>1. Init => Agrees
  <2> SUFFICES ASSUME Init PROVE Contents = Left(log, Len(ran))
    BY DEF Agrees
  <2>1. Contents = Empty /\ Len(ran) = 0
    BY DEF Init, Contents, Empty
  <2> QED
    BY <2>1, LeftNext
<1>2. RInv /\ Agrees /\ [Next]_vars => Agrees'
  <2> SUFFICES ASSUME RInv, Agrees, [Next]_vars, Faithful'
               PROVE  Contents' = Left(log', Len(ran'))
    BY DEF Agrees
  <2>1. Faithful /\ Contents = Left(log, Len(ran))
    BY WrongStays DEF Agrees, RInv, Faithful
  <2>2. Len(ran) \in Nat /\ Left(log', Len(ran)) = Left(log, Len(ran))
    BY <2>1, LogGrows
  <2>3. CASE Accepts
    BY <2>1, <2>2, <2>3 DEF Accepts
  <2>4. CASE Serves
    BY <2>1, <2>2, <2>4, LeftNext DEF Serves
  <2>5. CASE Stutters
    BY <2>1, <2>5 DEF Stutters
  <2> QED
    BY <2>1, <2>3, <2>4, <2>5, StepKinds DEF Faithful
<1> QED
  BY <1>1, <1>2, RInvariance, PTL DEF Spec

\* What a key has had since floor writes were applied: what these left or one
\* of the writes since; or nothing, while a put of it is applied.
Had(k, floor) ==
  {Left(log, n)[k] : n \in floor .. Len(ran)}
  \cup {Absent : n \in {i \in floor + 1 .. Len(ran) :
                          log[i].op = "put" /\ log[i].key = k}}

\* The table shows every key as one of the writes not counted before has left
\* it.
Shown ==
  Faithful => \A k \in StoredKey, floor \in 0 .. op_count : table[k] \in Had(k, floor)

LEMMA TableShown == Spec => []Shown
<1>1. RInv /\ Agrees => Shown
  <2> SUFFICES ASSUME RInv, Agrees, Faithful, NEW k \in StoredKey,
                      NEW floor \in 0 .. op_count
               PROVE  table[k] \in Had(k, floor)
    BY DEF Shown
  <2>1. /\ Len(ran) \in Nat /\ op_count \in Nat /\ Len(ran) \in floor .. Len(ran)
        /\ floor \in Nat
    BY RanBounded DEF Faithful
  <2>2. Contents = Left(log, Len(ran))
    BY DEF Agrees
  <2>3. CASE wpc = "readd" /\ k = entry.key
    <3>1. table[k] = Absent
      BY <2>3 DEF RInv, IInv, Steady, Faithful
    <3>2. /\ Len(ran) = op_count + 1
          /\ log[Len(ran)].op = "put" /\ log[Len(ran)].key = k
      BY <2>3 DEF RInv, Readded, Faithful
    <3>3. Len(ran) \in floor + 1 .. Len(ran)
      BY <2>1, <3>2
    <3> QED
      BY <3>1, <3>2, <3>3 DEF Had
  <2>4. CASE ~(wpc = "readd" /\ k = entry.key)
    <3>1. Contents[k] = table[k]
      BY <2>4 DEF Contents, RInv, IInv, TypeOK
    <3> QED
      BY <2>1, <2>2, <3>1 DEF Had
  <2> QED
    BY <2>3, <2>4
<1> QED
  BY <1>1, TableFollowsLog, PTL

\* What a get has seen is what its key has had since it began.
Seeing ==
  (mpc = "get" /\ Faithful) =>
    /\ view.floor \in 0 .. op_count /\ view.key \in StoredKey
    /\ view.seen \subseteq Had(view.key, view.floor)

\* op_count only grows.
LEMMA CountGrows ==
  ASSUME RInv, [Next]_vars
  PROVE  op_count' \in {op_count, op_count + 1}
<1> USE DEF sharedVars, fifoVars, workerVars, mainVars
<1>1. CASE UNCHANGED vars \/ Stop \/ Reply \/ SpuriousWakeup
             \/ \E op \in Command \ {"stop"} : Receive(op)
  BY <1>1 DEF vars, Stop, Reply, SpuriousWakeup, Receive, MainStep, Move
<1>2. CASE Shutdown
  BY <1>2 DEF Shutdown, DestroyTable, ClearFlag, SignalStop, Join, MainStep,
              DeleteQueue, Crash
<1>3. CASE Invoke
  BY <1>3, InvokeLeaves DEF Enqueue
<1>4. CASE Worker
  BY <1>4 DEF Worker, TestFlag, WaitForTask, TakeNothing, SendMessage,
              Take, TakeWild, Count, ApplyToFreed, CopyKey, CopyData, HashKey,
              BadHash, LookUp, Remove, RemoveCrashes, Readd, AddCrashes, Grow,
              Shrink, Resize, StringStep, TableStep, Move, Crash
<1> QED
  BY <1>1, <1>2, <1>3, <1>4 DEF Next, Ended

\* A get sees what is in the table when it begins, and what each change of
\* the table leaves for its key.
LEMMA GetSees ==
  ASSUME RInv, [Next]_vars, mpc' = "get"
  PROVE  \/ /\ table' = table /\ op_count' = op_count /\ view'.key \in StoredKey
            /\ view'.floor = op_count /\ view'.seen = {table[view'.key]}
         \/ /\ mpc = "get" /\ view'.key = view.key /\ view'.floor = view.floor
            /\ view'.seen \subseteq view.seen \cup {table'[view.key]}
<1> USE DEF sharedVars, fifoVars, workerVars, mainVars, tableVars, contentVars
<1>1. view \in View /\ text \in [Str -> String]
  BY DEF RInv, IInv, TypeOK
<1>2. CASE UNCHANGED vars \/ Stop \/ Reply \/ SpuriousWakeup
             \/ \E op \in Command \ {"stop"} : Receive(op)
  BY <1>2 DEF vars, Stop, Reply, SpuriousWakeup, Receive, MainStep, Move
<1>3. CASE Shutdown
  BY <1>3 DEF Shutdown, DestroyTable, ClearFlag, SignalStop, Join, MainStep,
              DeleteQueue, Crash
<1>4. CASE StartGet
  <2>1. text[msg.s].key \in StoredKey
    BY <1>1, <1>4 DEF StartGet, MainStep, RInv, IInv, Shape, String
  <2> QED
    BY <1>4, <2>1 DEF StartGet, MainStep
<1>5. CASE Invoke /\ ~StartGet
  BY <1>5 DEF Invoke, Enqueue, EndGet, Size, CountKeys, CollectKeys, CopyKeys,
              EndVerify, StartVerify, Walk, LookAt, MainStep, MisfitKeys, Crash
<1>6. CASE Worker
  <2>1. mpc = "get"
    BY <1>6, WorkerLeaves
  <2>2. ASSUME NEW f, Watched(f)
        PROVE  /\ view'.key = view.key /\ view'.floor = view.floor
               /\ view'.seen \subseteq view.seen \cup {table'[view.key]}
    BY <1>1, <2>1, <2>2 DEF Watched, View
  <2>3. CASE LookUp \/ Remove \/ Readd
    <3>1. view' = view \/ \E f \in BOOLEAN : Watched(f)
      BY <2>3 DEF LookUp, Remove, Readd, StringStep, ListAdd, ListAddStale,
                  ListRemove, Scattered
    <3> QED
      BY <2>1, <2>2, <3>1
  <2>4. CASE Grow \/ Shrink
    BY <1>1, <2>1, <2>4 DEF Grow, Shrink, Resize, View
  <2>5. CASE CopyKey \/ CopyData \/ HashKey \/ BadHash \/ RemoveCrashes
               \/ AddCrashes \/ TestFlag \/ WaitForTask \/ TakeNothing
               \/ SendMessage \/ Take \/ TakeWild \/ Count \/ ApplyToFreed
    <3>1. view' = view
      BY <2>5 DEF TestFlag, WaitForTask, TakeNothing, SendMessage, Take, TakeWild,
                  Count, ApplyToFreed, CopyKey, CopyData, HashKey, BadHash,
                  RemoveCrashes, AddCrashes, StringStep, Move, Crash
    <3> QED
      BY <2>1, <3>1
  <2> QED
    BY <1>6, <2>3, <2>4, <2>5 DEF Worker
<1> QED
  BY <1>2, <1>3, <1>4, <1>5, <1>6 DEF Next, Ended, Invoke

LEMMA GetSeesWhatWas == Spec => []Seeing
<1>1. Init => Seeing
  BY DEF Init, Seeing
<1>2. RInv /\ Shown' /\ Seeing /\ [Next]_vars => Seeing'
  <2> SUFFICES ASSUME RInv, Shown', Seeing, [Next]_vars, mpc' = "get", Faithful'
               PROVE  /\ view'.floor \in 0 .. op_count' /\ view'.key \in StoredKey
                      /\ view'.seen \subseteq Had(view.key, view.floor)'
    BY DEF Seeing
  <2>1. /\ op_count \in Nat /\ op_count' \in {op_count, op_count + 1}
    BY CountGrows DEF RInv, IInv, TypeOK
  <2>2. \A k \in StoredKey, floor \in 0 .. op_count' : table'[k] \in Had(k, floor)'
    BY DEF Shown
  <2>3. CASE /\ table' = table /\ op_count' = op_count /\ view'.key \in StoredKey
             /\ view'.floor = op_count /\ view'.seen = {table[view'.key]}
    <3>1. view'.floor \in 0 .. op_count'
      BY <2>1, <2>3
    <3>2. table'[view'.key] \in Had(view.key, view.floor)'
      BY <2>2, <2>3, <3>1
    <3> QED
      BY <2>3, <3>1, <3>2
  <2>4. CASE /\ mpc = "get" /\ view'.key = view.key /\ view'.floor = view.floor
             /\ view'.seen \subseteq view.seen \cup {table'[view.key]}
    <3>1. Faithful
      BY WrongStays DEF RInv, Faithful
    <3>2. /\ view.floor \in 0 .. op_count /\ view.key \in StoredKey
          /\ view.seen \subseteq Had(view.key, view.floor)
      BY <2>4, <3>1 DEF Seeing
    <3>3. view'.floor \in 0 .. op_count'
      BY <2>1, <2>4, <3>2
    <3>4. ASSUME NEW x \in Had(view.key, view.floor)
          PROVE  x \in Had(view.key, view.floor)'
      <4>1. /\ Len(ran') \in Nat /\ Len(ran) \in Nat /\ Len(ran) <= Len(ran')
            /\ \A i \in 1 .. Len(ran) : log'[i] = log[i]
            /\ \A n \in 0 .. Len(ran) : Left(log', n) = Left(log, n)
            /\ view.floor \in Nat
        BY <2>1, <3>1, <3>2, LogGrows
      <4>2. CASE \E n \in view.floor .. Len(ran) : x = Left(log, n)[view.key]
        <5>1. PICK n \in view.floor .. Len(ran) : x = Left(log, n)[view.key]
          BY <4>2
        <5>2. n \in view.floor .. Len(ran') /\ x = Left(log', n)[view.key]
          BY <4>1, <5>1
        <5> QED
          BY <2>4, <5>2 DEF Had
      <4>3. CASE /\ x = Absent
                 /\ \E n \in view.floor + 1 .. Len(ran) :
                       log[n].op = "put" /\ log[n].key = view.key
        <5>1. PICK n \in view.floor + 1 .. Len(ran) :
                log[n].op = "put" /\ log[n].key = view.key
          BY <4>3
        <5>2. /\ n \in view.floor + 1 .. Len(ran')
              /\ log'[n].op = "put" /\ log'[n].key = view.key
          BY <4>1, <5>1
        <5> QED
          BY <2>4, <4>3, <5>2 DEF Had
      <4> QED
        BY <4>2, <4>3 DEF Had
    <3>5. table'[view'.key] \in Had(view.key, view.floor)'
      BY <2>2, <2>4, <3>2, <3>3
    <3> QED
      BY <2>4, <3>2, <3>3, <3>4, <3>5
  <2> QED
    BY <2>3, <2>4, GetSees
<1> QED
  BY <1>1, <1>2, RInvariance, TableShown, PTL DEF Spec

\* A get that walks the lists without a lock answers what the writes counted
\* as executed when it began have left, or one of those since; or nothing, if
\* one of the writes since puts the key.
THEOREM GetCurrent == Spec => GetIsCurrent
<1>1. ASSUME RInv, Seeing, EndGet, up', ~torn, ~lost, ~clobbered, ~view.astray
      PROVE  msg'.result \in Current(view.key, view.floor)
  <2>1. PICK x \in view.seen : MainStep("get", "reply", [msg EXCEPT !.result = x])
    BY <1>1 DEF EndGet, Crash
  <2>2. mpc = "get" /\ msg \in Message
    BY <1>1, <2>1 DEF MainStep, RInv, IInv, TypeOK
  <2>3. msg'.result = x /\ Faithful
    BY <1>1, <2>1, <2>2 DEF MainStep, Message, RInv, Answering, Faithful
  <2>4. /\ view.floor \in 0 .. op_count
        /\ x \in Had(view.key, view.floor)
    BY <1>1, <2>1, <2>2, <2>3 DEF Seeing
  <2>5. /\ Len(ran) \in Nat /\ Len(log) \in Nat /\ op_count \in Nat
        /\ Len(ran) <= Len(log) /\ Len(ran) <= op_count + 1 /\ view.floor \in Nat
    BY <1>1, <2>3, <2>4, RanBounded DEF Faithful
  <2>6. CASE \E n \in view.floor .. Len(ran) : x = Left(log, n)[view.key]
    <3>1. PICK n \in view.floor .. Len(ran) : x = Left(log, n)[view.key]
      BY <2>6
    <3>2. n \in Nat /\ n \in view.floor .. op_count + 1 \cap 0 .. Len(log)
      BY <2>5, <3>1
    <3>3. x = After(n)[view.key]
      BY <3>1, <3>2, AfterLeft
    <3> QED
      BY <2>3, <3>2, <3>3 DEF Current
  <2>7. CASE /\ x = Absent
             /\ \E n \in view.floor + 1 .. Len(ran) :
                   log[n].op = "put" /\ log[n].key = view.key
    <3>1. PICK n \in view.floor + 1 .. Len(ran) :
            log[n].op = "put" /\ log[n].key = view.key
      BY <2>7
    <3>2. n \in view.floor + 1 .. op_count + 1 \cap 1 .. Len(log)
      BY <2>5, <3>1
    <3> QED
      BY <2>3, <2>7, <3>1, <3>2 DEF Current
  <2> QED
    BY <2>4, <2>6, <2>7 DEF Had
<1>2. RInv /\ Seeing /\ [Next]_vars =>
        [(EndGet /\ up' /\ ~torn /\ ~lost /\ ~clobbered /\ ~view.astray) =>
           msg'.result \in Current(view.key, view.floor)]_vars
  BY <1>1
<1> QED
  BY <1>2, RInvariance, GetSeesWhatWas, PTL DEF Spec, GetIsCurrent
=============================================================================

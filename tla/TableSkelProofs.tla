---------------------------- MODULE TableSkelProofs ----------------------------
(***************************************************************************)
(* What is proved of the skeleton, for every number of blocks, strings,    *)
(* keys and writes: its type invariant, that the queue's size and the two  *)
(* counters agree, that table->size is the number of keys until a string   *)
(* is overwritten or an entry lost, and that the queue is one chain and    *)
(* writes are applied in order until a task is linked behind a stale tail. *)
(***************************************************************************)
EXTENDS TableSkel, FiniteSetTheorems, SequenceTheorems, TLAPS

\* What the threads know of the memory they are about to use.
Shape ==
  /\ Busy <=> hand # Null
  /\ hand # Null => hand \in held
  /\ \A b \in held : task[b].s \in Str
  /\ msg.op \in {"put", "del", "get"} => msg.s \in Str

\* The queue is freed after the worker has returned.
JoinedBeforeDelete == mpc \in {"delete", "exited"} => wpc = "exited"

\* What table_put and table_del have read of the task's strings is what these
\* still hold, and a key they found in the table is there until they remove
\* it, unless a string was overwritten or an entry lost.
Steady ==
  ~clobbered =>
    /\ wpc \in {"keyed", "copied", "found"} => entry.key = HandText.key
    /\ (wpc \in {"copied", "found"} /\ task[hand].op = "put") =>
         entry.val = HandText.val
    /\ (tableUp /\ ~lost) => /\ wpc = "found" => table[entry.key] # Absent
                             /\ wpc = "readd" => table[entry.key] = Absent

\* How far the history of applied writes is ahead of op_count, and which
\* number the task in hand has.
Order ==
  /\ (~torn /\ hand # Null) => task[hand].n = op_count
  /\ tableUp => IF wpc \in {"grow", "shrink", "readd", "applied"}
                  THEN Len(ran) = op_count + 1
                  ELSE Len(ran) = op_count

IInv ==
  /\ TypeOK /\ Shape /\ JoinedBeforeDelete
  /\ SizeAgrees /\ SizeCounts
  /\ ChainInOrder /\ Order /\ InOrder /\ Steady

-----------------------------------------------------------------------------
(***************************************************************************)
(* The contents of the table, counted.                                     *)
(***************************************************************************)

\* The keys in the table are finitely many, so their number is a number.
LEMMA StoredFinite ==
  ASSUME SkelAssumption
  PROVE  IsFiniteSet(Stored) /\ Cardinality(Stored) \in Nat
<1>1. IsFiniteSet(StoredKey)
  BY FS_AddElement DEF SkelAssumption, StoredKey
<1>2. Stored \subseteq StoredKey
  BY DEF Stored
<1> QED
  BY <1>1, <1>2, FS_Subset, FS_CardinalityType

\* list_add of a key that is not there makes one key more.
LEMMA StoredAdd ==
  ASSUME SkelAssumption, TypeOK,
         NEW k \in StoredKey, NEW v \in StoredValue,
         table[k] = Absent, table' = [table EXCEPT ![k] = v]
  PROVE  Cardinality(Stored') = Cardinality(Stored) + 1
<1>1. Stored' = Stored \cup {k}
  BY DEF Stored, TypeOK, MaybeValue, StoredValue, SkelAssumption
<1>2. k \notin Stored
  BY DEF Stored
<1> QED
  BY <1>1, <1>2, StoredFinite, FS_AddElement

\* list_remove of a key that is there makes one key less.
LEMMA StoredRemove ==
  ASSUME SkelAssumption, TypeOK,
         NEW k \in StoredKey,
         table[k] # Absent, table' = [table EXCEPT ![k] = Absent]
  PROVE  Cardinality(Stored') = Cardinality(Stored) - 1
<1>1. Stored' = Stored \ {k}
  BY DEF Stored, TypeOK
<1>2. k \in Stored
  BY DEF Stored
<1> QED
  BY <1>1, <1>2, StoredFinite, FS_RemoveElement
-----------------------------------------------------------------------------
(***************************************************************************)
(* Steps that leave the data alone.                                        *)
(***************************************************************************)

\* Initially nothing is queued and nothing is in the table.
LEMMA Initially ==
  ASSUME SkelAssumption, PointerAssumption, Init
  PROVE  IInv
<1> USE DEF Init
<1>1. TypeOK
  <2>1. queue \in FifoType /\ proximo \in [Block -> Pointer]
    BY DEF FifoType, FifoCreate, Pointer
  <2>2. msg \in Message /\ view \in View
    BY DEF Message, Idle, Answer, View, NoView, StoredKey
  <2>3. entry \in String /\ text \in [Str -> String]
    BY DEF String, NoEntry, StoredKey, StoredValue
  <2>4. log \in Seq(Accepted) /\ ran \in Seq(Nat)
    BY EmptySeq
  <2>5. /\ task \in [Block -> [n : Nat, op : {"put", "del"}, s : Str \cup {Null}]]
        /\ table \in [StoredKey -> MaybeValue]
        /\ tails \in [List -> {"null", "last", "gone"}]
    BY DEF MaybeValue
  <2>6. /\ last_assigned \in Nat /\ op_count \in Nat /\ size \in Int /\ size \in Nat
        /\ live \subseteq Str /\ held \subseteq Block
        /\ cursor \in Pointer /\ hand \in Block \cup {Null}
    BY DEF Pointer
  <2>7. /\ flag \in BOOLEAN /\ tableUp \in BOOLEAN /\ lost \in BOOLEAN
        /\ torn \in BOOLEAN /\ clobbered \in BOOLEAN /\ served \in BOOLEAN
        /\ up \in BOOLEAN
    OBVIOUS
  <2>8. mpc = "poll" /\ wpc = "test"
    OBVIOUS
  <2> HIDE DEF Init
  <2> QED
    BY <2>1, <2>2, <2>3, <2>4, <2>5, <2>6, <2>7, <2>8 DEF TypeOK
<1>2. Shape /\ JoinedBeforeDelete /\ SizeAgrees
  <2>1. Shape
    BY DEF Shape, Busy, Reading, Idle
  <2>2. JoinedBeforeDelete
    BY DEF JoinedBeforeDelete
  <2>3. SizeAgrees
    BY DEF SizeAgrees, FifoCreate
  <2> QED
    BY <2>1, <2>2, <2>3
<1>3. SizeCounts
  <2>1. Stored = {}
    BY DEF Stored
  <2> QED
    BY <2>1, FS_EmptySet DEF SizeCounts
<1>4. ChainInOrder /\ Order /\ InOrder /\ Steady
  BY DEF ChainInOrder, Order, InOrder, Steady, Queued, First, FifoCreate
<1> QED
  BY <1>1, <1>2, <1>3, <1>4 DEF IInv

\* A step that touches neither the queue nor the table, except to destroy it.
LEMMA Quiet ==
  ASSUME IInv, TypeOK', JoinedBeforeDelete', Busy <=> Busy',
         UNCHANGED <<fifoVars, last_assigned, op_count, contentVars, hand, entry,
                     ran, torn>>,
         tableUp' => tableUp, clobbered => clobbered',
         (Reading /\ ~clobbered') => HandText' = HandText,
         wpc' = wpc \/ ~Busy \/ (~tableUp /\ wpc' = "applied"),
         mpc = "exited" <=> mpc' = "exited",
         msg'.op \in {"put", "del", "get"} => msg'.s \in Str
  PROVE  IInv'
<1> USE DEF fifoVars, contentVars
<1>1. Shape'
  BY DEF IInv, Shape, Busy
<1>2. SizeAgrees' /\ SizeCounts'
  BY DEF IInv, SizeAgrees, SizeCounts, Busy, Reading, Stored
<1>3. ChainInOrder'
  BY DEF IInv, ChainInOrder, Queued, First
<1>4. Order' /\ InOrder' /\ Steady'
  <2>1. Order' /\ InOrder'
    BY DEF IInv, Order, InOrder, Busy, Reading
  <2>2. CASE wpc' = wpc
    BY <2>1, <2>2 DEF IInv, Steady, Reading
  <2>3. CASE wpc' \notin {"keyed", "copied", "found", "readd"}
    BY <2>1, <2>3 DEF Steady
  <2> QED
    BY <2>2, <2>3 DEF Busy, Reading
<1> QED
  BY <1>1, <1>2, <1>3, <1>4 DEF IInv

\* Steps of the main thread that only move it and fill in its reply.
LEMMA QuietMain ==
  ASSUME IInv, UNCHANGED <<sharedVars, cursor, workerVars, up>>,
         mpc # "exited",
         mpc' \in {"get", "collect", "copy", "reply", "destroy", "delete"},
         mpc' = "delete" => wpc = "exited",
         view' \in View, msg' \in Message, msg'.op = msg.op, msg'.s = msg.s
  PROVE  IInv'
<1> USE DEF sharedVars, workerVars, tableVars
<1>1. JoinedBeforeDelete'
  BY DEF IInv, JoinedBeforeDelete
<1>2. msg'.op \in {"put", "del", "get"} => msg'.s \in Str
  BY DEF IInv, Shape
<1>3. TypeOK'
  BY DEF IInv, TypeOK, fifoVars, textVars, contentVars
<1>4. HandText' = HandText
  BY DEF HandText, fifoVars, textVars
<1> QED
  BY <1>1, <1>2, <1>3, <1>4, Quiet DEF Busy, Reading

\* A crash changes nothing but that the process is gone.
LEMMA CrashStep ==
  ASSUME IInv, Crash
  PROVE  IInv'
<1> USE DEF Crash, sharedVars, fifoVars, tableVars, contentVars, textVars,
            mainVars, workerVars
<1>1. up' \in BOOLEAN
  OBVIOUS
<1>2. TypeOK'
  BY <1>1 DEF IInv, TypeOK
<1>3. JoinedBeforeDelete' /\ (msg'.op \in {"put", "del", "get"} => msg'.s \in Str)
  BY DEF IInv, Shape, JoinedBeforeDelete
<1>4. HandText' = HandText
  BY DEF HandText
<1> QED
  BY <1>2, <1>3, <1>4, Quiet DEF Busy, Reading

\* An answer written into the message leaves a message.
LEMMA AnswerMessage ==
  ASSUME msg \in Message, NEW r \in Answer, msg' = [msg EXCEPT !.result = r]
  PROVE  msg' \in Message /\ msg'.op = msg.op /\ msg'.s = msg.s
BY DEF Message

\* The strings after one of them was written.
LEMMA WriteString ==
  ASSUME text \in [Str -> String], NEW s \in Str,
         NEW k \in StoredKey, NEW v \in StoredValue,
         text' = [text EXCEPT ![s] = [key |-> k, val |-> v]]
  PROVE  text' \in [Str -> String]
BY DEF String
-----------------------------------------------------------------------------
(***************************************************************************)
(* The steps of the main thread.                                           *)
(***************************************************************************)

\* While the worker reads the strings of its task, they are referenced.
LEMMA HandReferenced ==
  ASSUME IInv, Reading
  PROVE  task[hand].s \in Str /\ task[hand].s \in Referenced
BY DEF IInv, Shape, Busy, Referenced

\* The message of a main thread that waits in poll is a message.
LEMMA IdleMessage == Idle \in Message
BY DEF Message, Idle, Answer

\* A request arrives: a message, and the strings it was read into.
LEMMA ReceiveStep ==
  ASSUME IInv, SkelAssumption, NEW op, Receive(op)
  PROVE  IInv'
<1> USE DEF Receive, PutRequest, GetRequest, DelRequest, SizeRequest,
            KeysRequest, VerifyRequest, KeyedRequest, BareRequest
<1>1. msg' \in Message /\ (msg'.op \in {"put", "del", "get"} => msg'.s \in Str)
  <2>1. CASE op \in {"put", "del", "get"}
    <3>1. PICK s \in Str : msg' = [Idle EXCEPT !.op = op, !.s = s]
      BY <2>1
    <3> QED
      BY <2>1, <3>1, IdleMessage DEF Message
  <2>2. CASE op \in {"size", "getkeys", "verify"}
    <3>1. PICK n \in 0 .. MaxOps \cup {0} :
            msg' = [Idle EXCEPT !.op = op, !.n = n]
      BY <2>2
    <3>2. MaxOps \in Nat
      BY DEF SkelAssumption
    <3> HIDE DEF Receive
    <3>3. n \in Nat
      BY <3>1, <3>2
    <3> QED
      BY <2>2, <3>1, <3>3, IdleMessage DEF Message
  <2> QED
    BY <2>1, <2>2
<1>2. text' \in [Str -> String] /\ live' \subseteq Str /\ clobbered' \in BOOLEAN
  <2>1. text \in [Str -> String] /\ live \subseteq Str /\ clobbered \in BOOLEAN
    BY DEF IInv, TypeOK
  <2>2. CASE op = "put"
    BY <2>1, <2>2, WriteString DEF StoredKey, StoredValue
  <2>3. CASE op \in {"get", "del"}
    <3>1. \A s \in Str : text[s].val \in StoredValue
      BY <2>1 DEF String
    <3> QED
      BY <2>1, <2>3, <3>1, WriteString DEF StoredKey
  <2>4. CASE op \in {"size", "getkeys", "verify"}
    BY <2>1, <2>4 DEF textVars
  <2> QED
    BY <2>2, <2>3, <2>4
<1>3. clobbered => clobbered'
  BY DEF textVars
<1>4. TypeOK'
  BY <1>1, <1>2, <1>3 DEF IInv, TypeOK, fifoVars, tableVars, contentVars, workerVars
<1>5. (Reading /\ ~clobbered') => HandText' = HandText
  <2>1. CASE op \in {"put", "get", "del"}
    <3>1. PICK s \in Str, k \in StoredKey, v \in StoredValue :
            KeyedRequest(op, s, k, v)
      BY <2>1, <1>2 DEF IInv, TypeOK, String, StoredKey, StoredValue
    <3>2. \A c \in Str \ {s} : text'[c] = text[c]
      BY <3>1 DEF IInv, TypeOK
    <3>3. s \in Referenced => clobbered'
      BY <3>1
    <3> HIDE DEF Receive, KeyedRequest
    <3>4. UNCHANGED <<task, hand>>
      BY DEF Receive, fifoVars, workerVars
    <3> QED
      BY <3>2, <3>3, <3>4, HandReferenced DEF HandText, IInv
  <2>2. CASE op \in {"size", "getkeys", "verify"}
    BY <2>2 DEF HandText, textVars, fifoVars, workerVars
  <2> QED
    BY <2>1, <2>2
<1> QED
  BY <1>1, <1>3, <1>4, <1>5, Quiet
     DEF fifoVars, tableVars, workerVars, Busy, Reading, IInv, JoinedBeforeDelete

\* The reply is sent and the message freed: its strings change at most.
LEMMA ReplyStep ==
  ASSUME IInv, SkelAssumption, Reply
  PROVE  IInv'
<1> USE DEF Reply
<1>1. msg' \in Message /\ msg'.op = "none"
  BY DEF Message, Idle, Answer
<1>2. text' \in [Str -> String] /\ live' \subseteq Str /\ clobbered' \in BOOLEAN
  <2>1. /\ text \in [Str -> String] /\ live \subseteq Str /\ clobbered \in BOOLEAN
        /\ msg.s \in Str \cup {Null}
    BY DEF IInv, TypeOK, Message
  <2>2. CASE msg.s = Null
    BY <2>1, <2>2 DEF textVars
  <2>3. CASE msg.s \in Str
    <3>1. text[msg.s].key \in StoredKey /\ text[msg.s].val \in StoredValue
      BY <2>1, <2>3 DEF String
    <3>2. FreeStrings(msg.s)
      BY <2>3 DEF SkelAssumption
    <3>3. PICK k \in StoredKey, v \in StoredValue :
            text' = [text EXCEPT ![msg.s] = [key |-> k, val |-> v]]
      BY <3>1, <3>2 DEF FreeStrings, StoredKey, StoredValue
    <3> QED
      BY <2>1, <2>3, <3>2, <3>3, WriteString DEF FreeStrings
  <2> QED
    BY <2>1, <2>2, <2>3
<1>3. clobbered => clobbered'
  BY DEF FreeStrings
<1>4. TypeOK'
  BY <1>1, <1>2, <1>3
     DEF IInv, TypeOK, fifoVars, tableVars, contentVars, workerVars, Pointer
<1>5. (Reading /\ ~clobbered') => HandText' = HandText
  <2>1. UNCHANGED <<task, hand>> /\ text \in [Str -> String]
    BY DEF fifoVars, workerVars, IInv, TypeOK
  <2>2. CASE msg.s = Null
    BY <2>1, <2>2 DEF HandText, textVars
  <2>3. CASE msg.s # Null
    <3>1. \A c \in Str : c # msg.s => text'[c] = text[c]
      BY <2>1, <2>3 DEF FreeStrings
    <3>2. (text'[msg.s] # text[msg.s] /\ msg.s \in Referenced) => clobbered'
      BY <2>3 DEF FreeStrings
    <3> HIDE DEF Reply
    <3> QED
      BY <2>1, <3>1, <3>2, HandReferenced DEF HandText
  <2> QED
    BY <2>2, <2>3
<1> QED
  BY <1>1, <1>3, <1>4, <1>5, Quiet
     DEF fifoVars, tableVars, workerVars, Busy, Reading, IInv, JoinedBeforeDelete

\* The walk of a get begins, and what it finds in the end is an answer.
LEMMA GetStep ==
  ASSUME IInv, StartGet \/ EndGet
  PROVE  IInv'
<1> USE DEF MainStep
<1>1. /\ msg \in Message /\ view \in View /\ NoView \in View /\ op_count \in Nat
      /\ table \in [StoredKey -> MaybeValue] /\ text \in [Str -> String]
  BY DEF IInv, TypeOK, View, NoView, StoredKey
<1>2. CASE StartGet
  <2>1. text[msg.s].key \in StoredKey
    BY <1>1, <1>2 DEF StartGet, IInv, Shape, String
  <2>2. view' \in View
    BY <1>1, <1>2, <2>1 DEF StartGet, View
  <2> QED
    BY <1>1, <1>2, <2>2, QuietMain DEF StartGet
<1>3. CASE ~StartGet /\ ~Crash
  <2>1. PICK x \in IF view.astray \/ lost THEN MaybeValue ELSE view.seen :
          MainStep("get", "reply", [msg EXCEPT !.result = x])
    BY <1>3 DEF EndGet
  <2>2. x \in Answer /\ view' \in View
    BY <1>1, <1>3, <2>1 DEF EndGet, View, Answer, MaybeValue
  <2>3. msg' \in Message /\ msg'.op = msg.op /\ msg'.s = msg.s
    BY <1>1, <2>1, <2>2, AnswerMessage
  <2> QED
    BY <2>1, <2>2, <2>3, QuietMain
<1> QED
  BY <1>2, <1>3, CrashStep

\* The reads size and getkeys and the end of verify; and the signal.
LEMMA ReadStep ==
  ASSUME IInv, SkelAssumption,
         Size \/ CountKeys \/ CollectKeys \/ CopyKeys \/ EndVerify \/ Stop
  PROVE  IInv'
<1> USE DEF MainStep
<1>1. /\ msg \in Message /\ size \in Answer /\ size \in Int
      /\ view \in View /\ NoView \in View
  BY DEF IInv, TypeOK, Answer, View, NoView, StoredKey
<1>2. CASE Size
  <2>1. msg' \in Message /\ msg'.op = msg.op /\ msg'.s = msg.s
    BY <1>1, <1>2, AnswerMessage DEF Size
  <2> QED
    BY <1>1, <1>2, <2>1, QuietMain DEF Size
<1>3. CASE CountKeys
  <2>1. msg' \in Message /\ msg'.op = msg.op /\ msg'.s = msg.s
    BY <1>1, <1>3, AnswerMessage DEF CountKeys
  <2> QED
    BY <1>1, <1>3, <2>1, QuietMain DEF CountKeys
<1>4. CASE CollectKeys /\ ~Crash
  <2>1. PICK found \in IF view.astray \/ lost THEN SUBSET StoredKey ELSE {Stored} :
          MainStep("collect", "copy", [msg EXCEPT !.found = found])
    BY <1>4 DEF CollectKeys
  <2>2. found \in SUBSET StoredKey
    BY <2>1 DEF Stored
  <2>3. msg' \in Message /\ msg'.op = msg.op /\ msg'.s = msg.s
    BY <1>1, <2>1, <2>2 DEF Message
  <2> QED
    BY <1>1, <1>4, <2>1, <2>3, QuietMain DEF CollectKeys
<1>5. CASE CollectKeys /\ Crash
  BY <1>5, CrashStep
<1>6. CASE CopyKeys
  <2>1. msg' \in Message /\ msg'.op = msg.op /\ msg'.s = msg.s
    BY <1>1, <1>6 DEF CopyKeys, Message
  <2> QED
    BY <1>1, <1>6, <2>1, QuietMain DEF CopyKeys
<1>7. CASE EndVerify
  <2>1. (IF msg.n >= op_count \/ msg.n < 0 THEN -1 ELSE 0) \in Answer
    BY DEF Answer
  <2>2. msg' \in Message /\ msg'.op = msg.op /\ msg'.s = msg.s
    BY <1>1, <1>7, <2>1, AnswerMessage DEF EndVerify
  <2> QED
    BY <1>1, <1>7, <2>2, QuietMain DEF EndVerify
<1>8. CASE Stop
  BY <1>1, <1>8, QuietMain DEF Stop
<1> QED
  BY <1>2, <1>3, <1>4, <1>5, <1>6, <1>7, <1>8

\* verify moves its cursor along the links, finds the number, or crashes.
LEMMA WalkStep ==
  ASSUME IInv, StartVerify \/ Walk
  PROVE  IInv'
<1>1. ASSUME NEW p, p \in Pointer, LookAt(p), mpc # "exited"
      PROVE  IInv'
  <2> USE DEF LookAt, sharedVars, fifoVars, tableVars, contentVars, textVars,
              workerVars
  <2>1. TypeOK'
    BY <1>1 DEF IInv, TypeOK
  <2>2. JoinedBeforeDelete' /\ (msg'.op \in {"put", "del", "get"} => msg'.s \in Str)
    BY <1>1 DEF IInv, JoinedBeforeDelete, Shape
  <2>3. HandText' = HandText
    BY <1>1 DEF HandText
  <2> QED
    BY <1>1, <2>1, <2>2, <2>3, Quiet DEF Busy, Reading
<1>2. CASE StartVerify
  <2>1. queue.head \in Pointer
    BY DEF IInv, TypeOK, FifoType
  <2> QED
    BY <1>1, <1>2, <2>1 DEF StartVerify
<1>3. CASE Walk /\ cursor \in Block /\ LookAt(proximo[cursor])
  <2>1. proximo[cursor] \in Pointer
    BY <1>3 DEF IInv, TypeOK
  <2> QED
    BY <1>1, <1>3, <2>1 DEF Walk
<1>4. CASE Walk /\ MainStep("walk", "reply", [msg EXCEPT !.result = -1])
            /\ UNCHANGED view
  <2>1. msg \in Message /\ -1 \in Answer
    BY DEF IInv, TypeOK, Answer
  <2>2. msg' \in Message /\ msg'.op = msg.op /\ msg'.s = msg.s
    BY <1>4, <2>1, AnswerMessage DEF MainStep
  <2> QED
    BY <1>4, <2>2, QuietMain DEF MainStep, IInv, TypeOK
<1>5. CASE Crash
  BY <1>5, CrashStep
<1> QED
  BY <1>2, <1>3, <1>4, <1>5 DEF Walk

\* table_skel_destroy up to the join.
LEMMA DestroyStep ==
  ASSUME IInv, DestroyTable \/ ClearFlag \/ SignalStop \/ Join
  PROVE  IInv'
<1> USE DEF sharedVars, fifoVars, tableVars, contentVars, textVars, workerVars,
            HandText
<1>1. msg.op \in {"put", "del", "get"} => msg.s \in Str
  BY DEF IInv, Shape
<1>2. CASE DestroyTable
  <2>0. /\ UNCHANGED <<queue, proximo, task, held, table, size, tails, text, live,
                      msg, cursor, view, wpc, hand, entry, up, log, ran>>
        /\ UNCHANGED <<last_assigned, op_count, lost, served, torn, clobbered>>
        /\ flag' \in BOOLEAN /\ tableUp' \in BOOLEAN
        /\ mpc' \in {"clear", "signal"}
    BY <1>2 DEF DestroyTable, IInv, TypeOK
  <2>1. TypeOK'
    BY <2>0 DEF IInv, TypeOK
  <2>2. JoinedBeforeDelete' /\ (Busy <=> Busy') /\ HandText' = HandText
    BY <1>2 DEF DestroyTable, IInv, JoinedBeforeDelete, Busy, Reading
  <2> HIDE DEF HandText
  <2> QED
    BY <1>1, <1>2, <2>1, <2>2, Quiet DEF DestroyTable
<1>3. CASE ClearFlag
  <2>0. /\ UNCHANGED <<queue, proximo, task, held, table, size, tails, text, live,
                      msg, cursor, view, wpc, hand, entry, up, log, ran>>
        /\ UNCHANGED <<last_assigned, op_count, lost, served, torn, clobbered>>
        /\ flag' \in BOOLEAN /\ tableUp' \in BOOLEAN
        /\ mpc' \in {"clear", "signal"}
    BY <1>3 DEF ClearFlag, IInv, TypeOK
  <2>1. TypeOK'
    BY <2>0 DEF IInv, TypeOK
  <2>2. JoinedBeforeDelete' /\ (Busy <=> Busy') /\ HandText' = HandText
    BY <1>3 DEF ClearFlag, IInv, JoinedBeforeDelete, Busy, Reading
  <2> HIDE DEF HandText
  <2> QED
    BY <1>1, <1>3, <2>1, <2>2, Quiet DEF ClearFlag
<1>4. CASE SignalStop
  <2>1. TypeOK' /\ JoinedBeforeDelete'
    BY <1>4 DEF SignalStop, Signalled, IInv, TypeOK, JoinedBeforeDelete
  <2>2. (Busy <=> Busy') /\ (wpc' = wpc \/ ~Busy)
    BY <1>4 DEF SignalStop, Signalled, Busy, Reading
  <2> QED
    BY <1>1, <1>4, <2>1, <2>2, Quiet DEF SignalStop
<1>5. CASE Join
  BY <1>5, QuietMain DEF Join, MainStep, IInv, TypeOK
<1> QED
  BY <1>2, <1>3, <1>4, <1>5

\* fifo_delete, or the crash it may end in.
LEMMA DeleteStep ==
  ASSUME IInv, DeleteQueue
  PROVE  IInv'
<1>1. CASE Crash
  BY <1>1, CrashStep
<1>2. CASE ~Crash
  <2>0. /\ mpc = "delete" /\ mpc' = "exited"
        /\ queue' = [queue EXCEPT !.size = 0] /\ held' = {}
        /\ UNCHANGED <<proximo, task, last_assigned, op_count, flag, tableVars,
                       textVars, served, msg, cursor, view, workerVars, up, log,
                       ran, torn, clobbered>>
    BY <1>2 DEF DeleteQueue
  <2> USE <2>0 DEF tableVars, contentVars, textVars, workerVars
  <2>1. wpc = "exited" /\ hand = Null
    BY DEF IInv, JoinedBeforeDelete, Shape, Busy, Reading
  <2>2. TypeOK'
    <3>1. queue \in FifoType
      BY DEF IInv, TypeOK
    <3>2. queue' \in FifoType
      BY <3>1 DEF FifoType
    <3> QED
      BY <3>2 DEF IInv, TypeOK
  <2>3. Shape' /\ JoinedBeforeDelete'
    BY <2>1 DEF IInv, Shape, Busy, Reading, JoinedBeforeDelete
  <2>4. SizeAgrees' /\ ChainInOrder'
    BY DEF SizeAgrees, ChainInOrder
  <2>5. SizeCounts'
    BY DEF IInv, SizeCounts, Stored
  <2>6. Order'
    BY <2>1 DEF IInv, Order
  <2>7. InOrder' /\ Steady'
    BY <2>1 DEF IInv, InOrder, Steady
  <2> QED
    BY <2>2, <2>3, <2>4, <2>5, <2>6, <2>7 DEF IInv
<1> QED
  BY <1>1, <1>2 DEF DeleteQueue
-----------------------------------------------------------------------------
(***************************************************************************)
(* The steps of the worker.                                                *)
(***************************************************************************)

\* Steps that only move the worker, outside the critical section.
LEMMA WorkerMoveStep ==
  ASSUME IInv,
         TestFlag \/ WaitForTask \/ SpuriousWakeup \/ TakeNothing \/ TakeWild
           \/ SendMessage \/ ApplyToFreed
  PROVE  IInv'
<1>1. ASSUME NEW from, NEW to, Move(from, to),
             to \in {"lock", "send", "asleep", "woken", "test", "exited", "applied"},
             from \notin {"exited"},
             IF to = "applied" THEN Busy /\ ~tableUp
                               ELSE ~Busy
      PROVE  IInv'
  <2> USE <1>1
          DEF Move, sharedVars, fifoVars, tableVars, contentVars, textVars, mainVars
  <2>1. TypeOK'
    BY DEF IInv, TypeOK
  <2>2. JoinedBeforeDelete' /\ (msg'.op \in {"put", "del", "get"} => msg'.s \in Str)
    BY DEF IInv, JoinedBeforeDelete, Shape
  <2>3. HandText' = HandText
    BY DEF HandText
  <2> QED
    BY <2>1, <2>2, <2>3, Quiet DEF Busy, Reading
<1>2. CASE TestFlag \/ WaitForTask \/ SpuriousWakeup
  BY <1>1, <1>2 DEF TestFlag, WaitForTask, SpuriousWakeup, Busy, Reading, Move
<1>3. CASE TakeNothing
  BY <1>1, <1>3 DEF TakeNothing, Awake, Busy, Reading
<1>4. CASE SendMessage
  BY <1>1, <1>4, CrashStep DEF SendMessage, Busy, Reading
<1>5. CASE ApplyToFreed
  BY <1>1, <1>5, CrashStep DEF ApplyToFreed, Busy, Reading
<1>6. CASE TakeWild
  BY <1>6, CrashStep DEF TakeWild
<1> QED
  BY <1>2, <1>3, <1>4, <1>5, <1>6

\* What pop makes of a queue that is not empty and whose head is a block.
LEMMA PopQueue ==
  ASSUME NEW q \in FifoType, NEW links \in [Block -> Pointer],
         q.head \in Block, q.size > 0
  PROVE  LET r == FifoPop(q, links)
         IN  /\ r.head = links[q.head] /\ r.tail = q.tail
             /\ r.size = q.size - 1 /\ r \in FifoType
<1>1. /\ links[q.head] \in Pointer /\ q.size - 1 \in Nat
  BY DEF FifoType
<1> QED
  BY <1>1 DEF FifoPop, FifoType

\* The worker pops the head: the rest is the same chain, one task shorter.
LEMMA TakeStep ==
  ASSUME IInv, PointerAssumption, Take
  PROVE  IInv'
<1> USE DEF Take
<1>1. /\ ~Busy /\ hand = Null /\ queue.head \in held /\ queue.head \in Block
      /\ queue.size \in Nat /\ queue.size > 0 /\ mpc # "exited"
      /\ queue \in FifoType /\ proximo \in [Block -> Pointer]
  BY DEF IInv, TypeOK, FifoType, Awake, HeadReadable, Busy, Reading, Shape,
         JoinedBeforeDelete
<1>2. /\ queue'.head = proximo[queue.head] /\ queue'.tail = queue.tail
      /\ queue'.size = queue.size - 1 /\ queue' \in FifoType
  BY <1>1, PopQueue
<1>3. TypeOK'
  BY <1>1, <1>2 DEF IInv, TypeOK, tableVars, contentVars, textVars, mainVars
<1>4. Shape' /\ JoinedBeforeDelete'
  BY <1>1 DEF IInv, Shape, JoinedBeforeDelete, Busy, Reading, mainVars,
              PointerAssumption, Awake
<1>5. SizeAgrees'
  BY <1>1, <1>2 DEF IInv, TypeOK, SizeAgrees, mainVars, PointerAssumption
<1>6. SizeCounts' /\ InOrder' /\ Steady'
  BY DEF IInv, SizeCounts, InOrder, Steady, Stored, tableVars, contentVars, Awake
<1>7. ChainInOrder'
  <2> SUFFICES ASSUME ~torn
               PROVE  ChainInOrder'
    BY DEF ChainInOrder
  <2>1. /\ Queued = held /\ Queued' = held \ {queue.head}
        /\ First \in Int /\ First' = First + 1
    BY <1>1, <1>2 DEF Queued, First, PointerAssumption, IInv, TypeOK
  <2>2. ChainInOrder /\ task[queue.head].n = First
    BY <1>1 DEF IInv, ChainInOrder
  <2>3. /\ last_assigned \in Nat /\ task \in [Block -> [n : Nat,
              op : {"put", "del"}, s : Str \cup {Null}]] /\ held \subseteq Block
        /\ First = last_assigned - queue.size
    BY DEF IInv, TypeOK, First
  <2>4. \A b \in held : /\ task[b].n \in First .. last_assigned - 1
                        /\ task[b].n = First => b = queue.head
    BY <1>1, <2>1, <2>2 DEF ChainInOrder
  <2>5. \A b \in Queued' : task[b].n \in First + 1 .. last_assigned - 1
    BY <2>1, <2>3, <2>4
  <2>6. \A b \in held : task[b].n < last_assigned - 1 =>
          proximo[b] \in Queued' /\ task[proximo[b]].n = task[b].n + 1
    BY <1>1, <2>1, <2>2, <2>3, <2>4 DEF ChainInOrder
  <2>7. queue'.size > 0 => queue'.head \in Queued' /\ task[queue'.head].n = First + 1
    BY <1>1, <1>2, <2>2, <2>3, <2>6
  <2>8. queue'.size > 1 => queue'.tail \in Queued' /\ task[queue'.tail].n = last_assigned - 1
    BY <1>1, <1>2, <2>1, <2>2, <2>3 DEF ChainInOrder
  <2>9. queue'.tail = Null => queue'.size < 2
    BY <1>1, <1>2, <2>2 DEF ChainInOrder
  <2>10. \A b, c \in Queued' : task[b].n = task[c].n => b = c
    BY <1>1, <2>1, <2>2 DEF ChainInOrder
  <2> QED
    BY <2>1, <2>5, <2>6, <2>7, <2>8, <2>9, <2>10 DEF ChainInOrder
<1>8. Order'
  <2>1. Order /\ (tableUp => Len(ran) = op_count)
    BY DEF IInv, Order, Awake
  <2>2. ~torn => task[queue.head].n = op_count
    BY <1>1 DEF IInv, TypeOK, ChainInOrder, SizeAgrees, First
  <2> QED
    BY <2>1, <2>2 DEF Order, tableVars
<1> QED
  BY <1>3, <1>4, <1>5, <1>6, <1>7, <1>8 DEF IInv

\* A step inside the critical section that leaves the queue and its tasks as
\* they are, counts nothing yet and keeps the order of the applied writes: the
\* write in hand counts as applied when the list has changed.
LEMMA TableOnly ==
  ASSUME IInv, TypeOK', tableUp, Busy, wpc # "applied",
         \/ Reading /\ Reading' /\ ran' = ran
         \/ /\ Reading /\ wpc' \in {"grow", "shrink", "readd", "applied"}
            /\ ran' = Append(ran, task[hand].n)
         \/ ~Reading /\ wpc' = "applied" /\ ran' = ran,
         UNCHANGED <<fifoVars, last_assigned, op_count, mpc, msg, cursor, hand,
                     tableUp, torn>>,
         SizeCounts', Steady'
  PROVE  IInv'
<1> USE DEF fifoVars
<1>1. Busy /\ Busy' /\ hand # Null /\ mpc # "exited"
  BY DEF Busy, Reading, IInv, Shape, JoinedBeforeDelete
<1>2. Shape' /\ JoinedBeforeDelete' /\ SizeAgrees'
  BY <1>1 DEF IInv, Shape, JoinedBeforeDelete, SizeAgrees, Busy, Reading
<1>3. ChainInOrder'
  BY DEF IInv, ChainInOrder, Queued, First
<1>4. ran \in Seq(Nat) /\ op_count \in Nat
  BY DEF IInv, TypeOK
<1>5. CASE Reading /\ wpc' \in {"grow", "shrink", "readd", "applied"}
             /\ ran' = Append(ran, task[hand].n)
  <2>1. Len(ran) = op_count /\ (~torn => task[hand].n = op_count)
    BY <1>1, <1>5 DEF IInv, Order, Reading
  <2>2. task[hand].n \in Nat
    BY <1>1 DEF IInv, TypeOK
  <2>3. /\ Len(ran') = op_count + 1 /\ ran'[op_count + 1] = task[hand].n
        /\ \A i \in 1 .. op_count : ran'[i] = ran[i]
    BY <1>4, <1>5, <2>1, <2>2
  <2>4. Order'
    BY <1>5, <2>1, <2>3 DEF Order
  <2>5. InOrder'
    BY <1>4, <2>1, <2>3 DEF IInv, InOrder
  <2> QED
    BY <1>2, <1>3, <2>4, <2>5 DEF IInv
<1>6. CASE \/ Reading /\ Reading' /\ ran' = ran
           \/ ~Reading /\ wpc' = "applied" /\ ran' = ran
  <2>1. Order' /\ InOrder'
    BY <1>6 DEF IInv, Order, InOrder, Reading, Busy
  <2> QED
    BY <1>2, <1>3, <2>1 DEF IInv
<1> QED
  BY <1>5, <1>6

\* What the worker holds and reads at a step of table_put or table_del.
LEMMA InHand ==
  ASSUME IInv, SkelAssumption, Busy
  PROVE  /\ hand \in held /\ hand \in Block /\ task[hand].n \in Nat
         /\ task[hand].op \in {"put", "del"} /\ mpc # "exited"
         /\ HandText.key \in StoredKey /\ HandText.val \in StoredValue
         /\ entry.key \in StoredKey /\ entry.val \in StoredValue
         /\ ListOf \in [StoredKey -> List]
         /\ Cardinality(Stored) \in Nat /\ Absent \notin StoredValue
         /\ ran \in Seq(Nat) /\ Append(ran, task[hand].n) \in Seq(Nat)
<1>1. hand \in held /\ hand \in Block /\ mpc # "exited"
  BY DEF IInv, Shape, TypeOK, JoinedBeforeDelete, Busy, Reading
<1>2. task[hand].n \in Nat /\ task[hand].op \in {"put", "del"}
  BY <1>1 DEF IInv, TypeOK
<1>3. text[task[hand].s] \in String
  BY <1>1 DEF IInv, Shape, TypeOK
<1>4. /\ HandText.key \in StoredKey /\ HandText.val \in StoredValue
      /\ entry.key \in StoredKey /\ entry.val \in StoredValue
  BY <1>3 DEF HandText, String, IInv, TypeOK
<1>5. ran \in Seq(Nat) /\ Append(ran, task[hand].n) \in Seq(Nat)
  BY <1>2, AppendProperties DEF IInv, TypeOK
<1>6. Cardinality(Stored) \in Nat /\ ListOf \in [StoredKey -> List] /\ Absent \notin StoredValue
  BY StoredFinite DEF SkelAssumption, StoredKey, StoredValue
<1> QED
  BY <1>1, <1>2, <1>4, <1>5, <1>6

\* table_put and table_del read a string: nothing else changes.
LEMMA StringStepKeeps ==
  ASSUME IInv, SkelAssumption,
         \/ CopyKey \/ CopyData \/ HashKey
         \/ /\ StringStep("copied", "found")
            /\ HandText.key \in InBucket /\ UNCHANGED entry
  PROVE  IInv'
<1> USE DEF StringStep, TableStep, CopyKey, CopyData, HashKey
<1>1. /\ tableUp /\ Busy /\ wpc # "applied" /\ Reading /\ Reading' /\ ran' = ran
      /\ UNCHANGED <<fifoVars, last_assigned, op_count, flag, tableUp, textVars,
                     served, mpc, msg, cursor, hand, up, log, torn, clobbered,
                     contentVars, view>>
  BY DEF Busy, Reading
<1>2. /\ HandText.key \in StoredKey /\ HandText.val \in StoredValue
      /\ entry \in String /\ HandText' = HandText
      /\ \A k \in InBucket : table[k] # Absent
  BY <1>1, InHand DEF HandText, IInv, TypeOK, fifoVars, textVars, InBucket, Stored
<1>3. entry' \in String
  BY <1>2 DEF String
<1>4. /\ wpc' \in {"keyed", "copied", "found"}
      /\ wpc = "popped" => entry'.key = HandText.key
      /\ wpc = "popped" => (wpc' = "copied" => task[hand].op = "del")
      /\ wpc = "keyed" => entry'.key = entry.key /\ entry'.val = HandText.val
      /\ wpc = "copied" => entry' = entry /\ HandText.key \in InBucket
      /\ wpc' = "found" => wpc = "copied"
      /\ wpc \in {"popped", "keyed", "copied"}
  BY <1>2 DEF String
<1> HIDE DEF StringStep, TableStep, CopyKey, CopyData, HashKey
<1> USE DEF fifoVars, contentVars, textVars
<1>5. TypeOK'
  BY <1>1, <1>3, <1>4 DEF IInv, TypeOK
<1>6. SizeCounts'
  BY <1>1, <1>4 DEF IInv, SizeCounts, Stored
<1>7. Steady'
  BY <1>1, <1>2, <1>4 DEF IInv, Steady
<1> QED
  BY <1>1, <1>5, <1>6, <1>7, TableOnly

\* What a change of the lists leaves is a table, and the main thread's walk
\* is one.
LEMMA ListTyped ==
  ASSUME IInv, SkelAssumption, Busy,
         ListAdd \/ ListAddStale \/ ListRemove(HandText.key)
  PROVE  /\ table' \in [StoredKey -> MaybeValue]
         /\ tails' \in [List -> {"null", "last", "gone"}]
         /\ lost' \in BOOLEAN /\ (lost => lost') /\ view' \in View
<1>1. /\ table \in [StoredKey -> MaybeValue] /\ lost \in BOOLEAN /\ view \in View
      /\ tails \in [List -> {"null", "last", "gone"}]
  BY DEF IInv, TypeOK
<1>2. /\ table' \in [StoredKey -> MaybeValue]
      /\ tails' \in [List -> {"null", "last", "gone"}]
      /\ lost' \in BOOLEAN /\ (lost => lost')
  <2>1. /\ entry.val \in MaybeValue /\ Absent \in MaybeValue
        /\ \A t \in {"null", "last", "gone"} :
             TailNames(t) \in [List -> {"null", "last", "gone"}]
    BY <1>1, InHand DEF MaybeValue, TailNames
  <2>2. CASE ListAdd
    BY <1>1, <2>1, <2>2 DEF ListAdd
  <2>3. CASE ListAddStale
    BY <1>1, <2>3 DEF ListAddStale, Scattered
  <2>4. CASE ListRemove(HandText.key)
    BY <1>1, <2>1, <2>4 DEF ListRemove, Scattered
  <2> QED
    BY <2>2, <2>3, <2>4
<1>3. ASSUME NEW f, Watched(f) PROVE view' \in View
  <2>1. PICK a \in BOOLEAN :
          view' = [view EXCEPT !.astray = a,
                     !.seen = IF mpc = "get" THEN @ \cup {table'[view.key]} ELSE @]
    BY <1>3 DEF Watched, Astray
  <2>2. view.key \in StoredKey /\ view.seen \subseteq MaybeValue
    BY <1>1 DEF View
  <2>3. table'[view.key] \in MaybeValue
    BY <1>2, <2>2
  <2>4. (IF mpc = "get" THEN view.seen \cup {table'[view.key]} ELSE view.seen)
          \in SUBSET MaybeValue
    BY <2>2, <2>3
  <2> QED
    BY <1>1, <2>1, <2>4 DEF View
<1>4. view' \in View
  BY <1>1, <1>3 DEF ListAdd, ListAddStale, Scattered, ListRemove
<1> QED
  BY <1>2, <1>4

\* list_add of a key that is not there makes one key more, unless an entry is
\* lost.
LEMMA AddCounts ==
  ASSUME IInv, SkelAssumption, Busy, ListAdd \/ ListAddStale,
         table[entry.key] = Absent, ~lost'
  PROVE  Cardinality(Stored') = Cardinality(Stored) + 1
<1>1. table' = [table EXCEPT ![entry.key] = entry.val]
  BY DEF ListAdd, ListAddStale, Scattered
<1> QED
  BY <1>1, InHand, StoredAdd DEF IInv

\* list_remove of the key of the entry, which is there, makes one less.
LEMMA RemoveCounts ==
  ASSUME IInv, SkelAssumption, Busy, ListRemove(entry.key),
         table[entry.key] # Absent, ~lost'
  PROVE  /\ Cardinality(Stored') = Cardinality(Stored) - 1
         /\ table' = [table EXCEPT ![entry.key] = Absent]
         /\ table'[entry.key] = Absent
<1>1. entry.key \in StoredKey /\ table \in [StoredKey -> MaybeValue]
  BY InHand DEF IInv, TypeOK
<1>2. entry.key \in InBucket
  BY <1>1 DEF InBucket, Stored, Bucket
<1>3. table' = [table EXCEPT ![entry.key] = Absent]
  BY <1>2 DEF ListRemove, Scattered
<1> QED
  BY <1>1, <1>3, StoredRemove DEF IInv

\* The change of the lists, with which the write in hand counts as applied.
LEMMA ChangeStep ==
  ASSUME IInv, SkelAssumption, LookUp \/ Remove
  PROVE  IInv'
<1> USE DEF TableStep
<1>0. CASE LookUp /\ StringStep("copied", "found")
  BY <1>0, StringStepKeeps DEF LookUp, StringStep
<1> SUFFICES ASSUME ~(LookUp /\ StringStep("copied", "found")) PROVE IInv'
  BY <1>0
<1>1. /\ tableUp /\ Busy /\ wpc # "applied" /\ Reading
      /\ ran' = Append(ran, task[hand].n)
      /\ UNCHANGED <<fifoVars, last_assigned, op_count, flag, tableUp, textVars,
                     served, mpc, msg, cursor, hand, up, log, torn, clobbered,
                     entry, size>>
      /\ wpc' \in {"grow", "shrink", "readd", "applied"}
  BY DEF LookUp, Remove, Busy, Reading
<1>2. /\ \/ LookUp /\ wpc = "copied" /\ wpc' = "grow" /\ HandText.key \notin InBucket
            /\ (ListAdd \/ ListAddStale)
         \/ LookUp /\ wpc = "copied" /\ wpc' = "applied"
            /\ UNCHANGED <<table, tails, lost, view>>
         \/ /\ Remove /\ wpc = "found" /\ wpc' \in {"readd", "shrink"}
            /\ ListRemove(HandText.key)
  BY <1>1 DEF LookUp, Remove
<1> HIDE DEF TableStep
<1> USE DEF fifoVars, textVars
<1>3. /\ table' \in [StoredKey -> MaybeValue]
      /\ tails' \in [List -> {"null", "last", "gone"}]
      /\ lost' \in BOOLEAN /\ (lost => lost') /\ view' \in View
  BY <1>1, <1>2, ListTyped DEF IInv, TypeOK
<1>4. TypeOK'
  <2>1. wpc' \in {"grow", "shrink", "readd", "applied"} /\ ran' \in Seq(Nat)
    BY <1>1, InHand
  <2> QED
    BY <1>1, <1>3, <2>1 DEF IInv, TypeOK
<1>5. ASSUME ~clobbered, ~lost'
      PROVE  /\ size' = Cardinality(Stored')
                          + (IF wpc' \in {"readd", "shrink"} THEN 1
                             ELSE IF wpc' = "grow" THEN -1 ELSE 0)
             /\ wpc' = "readd" => table'[entry'.key] = Absent
  <2>1. size = Cardinality(Stored) /\ Cardinality(Stored) \in Nat /\ entry.key \in StoredKey
    BY <1>1, <1>3, <1>5, InHand DEF IInv, SizeCounts, Reading
  <2>2. entry.key = HandText.key /\ (wpc = "found" => table[entry.key] # Absent)
    BY <1>1, <1>2, <1>3, <1>5 DEF IInv, Steady
  <2>3. CASE wpc' = "grow"
    <3>1. HandText.key \notin InBucket /\ (ListAdd \/ ListAddStale)
      BY <1>2, <2>3
    <3>2. table[entry.key] = Absent
      BY <2>1, <2>2, <3>1 DEF InBucket, Stored, Bucket
    <3>3. Cardinality(Stored') = Cardinality(Stored) + 1
      BY <1>1, <1>5, <3>1, <3>2, AddCounts
    <3> QED
      BY <1>1, <2>1, <2>3, <3>3
  <2>4. CASE wpc' = "applied"
    <3>1. table' = table
      BY <1>2, <2>4
    <3>2. Stored' = Stored
      BY <3>1 DEF Stored
    <3> QED
      BY <1>1, <2>1, <2>4, <3>2
  <2>5. CASE wpc' \in {"readd", "shrink"}
    <3>1. wpc = "found" /\ ListRemove(entry.key)
      BY <1>2, <2>2, <2>5
    <3>2. Cardinality(Stored') = Cardinality(Stored) - 1 /\ table'[entry.key] = Absent
      BY <1>1, <1>5, <2>2, <3>1, RemoveCounts
    <3> QED
      BY <1>1, <2>1, <2>5, <3>2
  <2> QED
    BY <1>1, <2>3, <2>4, <2>5
<1>6. SizeCounts'
  BY <1>1, <1>5 DEF SizeCounts
<1>7. Steady'
  BY <1>1, <1>5 DEF Steady
<1> QED
  BY <1>1, <1>4, <1>6, <1>7, TableOnly

\* What table_put and table_del do after the write counts as applied.
LEMMA ApplyStep ==
  ASSUME IInv, SkelAssumption, Readd \/ Grow \/ Shrink
  PROVE  IInv'
<1> USE DEF TableStep, Resize, Readd, Grow, Shrink
<1>1. /\ tableUp /\ Busy /\ wpc # "applied" /\ ~Reading /\ wpc' = "applied"
      /\ UNCHANGED <<fifoVars, last_assigned, op_count, flag, tableUp, textVars,
                     served, mpc, msg, cursor, hand, up, log, torn, clobbered,
                     entry, ran>>
  BY DEF Busy, Reading
<1>2. \/ Readd /\ wpc = "readd" /\ size' = size /\ (ListAdd \/ ListAddStale)
      \/ Grow /\ wpc = "grow" /\ size' = size + 1 /\ UNCHANGED <<table, tails, lost>>
      \/ Shrink /\ wpc = "shrink" /\ size' = size - 1 /\ UNCHANGED <<table, tails, lost>>
  OBVIOUS
<1>3. /\ table' \in [StoredKey -> MaybeValue]
      /\ tails' \in [List -> {"null", "last", "gone"}]
      /\ lost' \in BOOLEAN /\ (lost => lost') /\ view' \in View
  <2>1. CASE Readd
    BY <1>1, <2>1, ListTyped
  <2>2. CASE Grow \/ Shrink
    <3>1. view' = [view EXCEPT !.astray = @ \/ mpc = "collect"]
      BY <2>2
    <3>2. view' \in View
      BY <3>1 DEF IInv, TypeOK, View
    <3> QED
      BY <1>2, <2>2, <3>2 DEF IInv, TypeOK
  <2> QED
    BY <2>1, <2>2
<1> HIDE DEF TableStep, Resize, Readd, Grow, Shrink
<1>4. size \in Int /\ size' \in Int /\ Cardinality(Stored) \in Nat /\ entry.key \in StoredKey
  BY <1>1, <1>2, InHand DEF IInv, TypeOK
<1>5. ASSUME ~clobbered, ~lost'
      PROVE  size' = Cardinality(Stored') /\ Cardinality(Stored') \in Nat
  <2>1. size = Cardinality(Stored) + (IF wpc \in {"readd", "shrink"} THEN 1
                                      ELSE IF wpc = "grow" THEN -1 ELSE 0)
    BY <1>1, <1>3, <1>5 DEF IInv, SizeCounts
  <2>2. CASE wpc = "readd"
    <3>1. table[entry.key] = Absent
      BY <1>1, <1>3, <1>5, <2>2 DEF IInv, Steady
    <3>2. Cardinality(Stored') = Cardinality(Stored) + 1
      BY <1>1, <1>2, <1>5, <2>2, <3>1, AddCounts
    <3> QED
      BY <1>2, <1>4, <2>1, <2>2, <3>2
  <2>3. CASE wpc \in {"grow", "shrink"}
    <3>1. Stored' = Stored
      BY <1>2, <2>3 DEF Stored
    <3> QED
      BY <1>2, <1>4, <2>1, <2>3, <3>1
  <2> QED
    BY <1>2, <2>2, <2>3
<1>6. TypeOK'
  <2>1. clobbered \/ lost' \/ size' \in Nat
    BY <1>5
  <2> QED
    BY <1>1, <1>3, <1>4, <2>1 DEF IInv, TypeOK, fifoVars, textVars
<1>7. SizeCounts' /\ Steady'
  BY <1>1, <1>5 DEF SizeCounts, Steady
<1> QED
  BY <1>1, <1>6, <1>7, TableOnly DEF fifoVars

\* The task in hand is counted and freed; the queue is not touched.
LEMMA CountStep ==
  ASSUME IInv, PointerAssumption, Count
  PROVE  IInv'
<1> USE DEF Count, tableVars, contentVars, textVars, mainVars
<1>1. /\ Busy /\ hand # Null /\ hand \in held /\ ~Busy' /\ hand' = Null
      /\ mpc # "exited"
  BY DEF IInv, Shape, Busy, Reading, JoinedBeforeDelete
<1>2. TypeOK' /\ JoinedBeforeDelete'
  BY DEF IInv, TypeOK, JoinedBeforeDelete, NoEntry, String, StoredKey, StoredValue
<1>3. Shape'
  BY <1>1 DEF IInv, Shape
<1>4. SizeAgrees'
  BY <1>1 DEF IInv, TypeOK, SizeAgrees
<1>5. SizeCounts'
  BY DEF IInv, SizeCounts, Stored
<1>6. ChainInOrder'
  <2>1. Queued' = Queued /\ First' = First
    BY <1>1 DEF Queued, First, IInv, TypeOK, PointerAssumption
  <2> QED
    BY <1>1, <2>1 DEF IInv, ChainInOrder
<1>7. Order' /\ InOrder' /\ Steady'
  BY <1>1 DEF IInv, Order, InOrder, Steady, Reading
<1> QED
  BY <1>2, <1>3, <1>4, <1>5, <1>6, <1>7 DEF IInv

\* invoke queues a write: the chain gets one task longer at its end, because
\* the block fifo_add links it to is the last task of the queue.
LEMMA EnqueueStep ==
  ASSUME IInv, SkelAssumption, PointerAssumption, Enqueue
  PROVE  IInv'
<1>1. PICK b \in Block \ held : \E r \in Residue \cup {proximo[b]} :
        /\ queue' = FifoAdd(queue, b)
        /\ proximo' = FifoLink(queue, [proximo EXCEPT ![b] = r], b)
        /\ task' = [task EXCEPT ![b] =
                      [n |-> last_assigned, op |-> msg.op, s |-> msg.s]]
        /\ held' = held \cup {b}
  BY DEF Enqueue
<1>2. PICK r \in Residue \cup {proximo[b]} :
        /\ queue' = FifoAdd(queue, b)
        /\ proximo' = FifoLink(queue, [proximo EXCEPT ![b] = r], b)
        /\ task' = [task EXCEPT ![b] =
                      [n |-> last_assigned, op |-> msg.op, s |-> msg.s]]
        /\ held' = held \cup {b}
  BY <1>1
<1>3. /\ queue \in FifoType /\ proximo \in [Block -> Pointer] /\ held \subseteq Block
      /\ task \in [Block -> [n : Nat, op : {"put", "del"}, s : Str \cup {Null}]]
      /\ last_assigned \in Nat /\ msg \in Message /\ msg.op \in {"put", "del"}
      /\ msg.s \in Str /\ ~Busy /\ hand = Null /\ b # Null /\ mpc = "invoke"
      /\ queue.size \in Nat
  BY DEF Enqueue, IInv, TypeOK, Shape, PointerAssumption, FifoType
<1>4. /\ queue'.head = IF queue.size = 0 THEN b ELSE queue.head
      /\ queue'.tail = IF queue.size = 0 THEN queue.tail ELSE b
      /\ queue'.size = queue.size + 1
      /\ queue' \in FifoType
  BY <1>2, <1>3 DEF FifoAdd, FifoType, Pointer
<1>5. /\ task' \in [Block -> [n : Nat, op : {"put", "del"}, s : Str \cup {Null}]]
      /\ task'[b].n = last_assigned /\ task'[b].s = msg.s
      /\ \A c \in held : task'[c] = task[c]
  BY <1>2, <1>3
<1>6. /\ mpc' = "reply" /\ wpc' = Signalled /\ last_assigned' = last_assigned + 1
      /\ hand' = Null /\ ~Busy'
      /\ UNCHANGED <<op_count, flag, tableVars, textVars, served, cursor, view,
                     entry, up, ran, clobbered>>
  BY <1>3 DEF Enqueue, Busy, Reading, Signalled
<1>7. TypeOK'
  <2>1. proximo' \in [Block -> Pointer]
    <3>1. [proximo EXCEPT ![b] = r] \in [Block -> Pointer]
      BY <1>2, <1>3 DEF SkelAssumption
    <3> QED
      BY <1>2, <1>3, <3>1 DEF FifoLink, Pointer
  <2>2. msg' \in Message
    <3>1. last_assigned \in Answer
      BY <1>3 DEF Answer
    <3> QED
      BY <1>3, <3>1, AnswerMessage DEF Enqueue
  <2>3. log' \in Seq(Accepted)
    <3>1. text[msg.s] \in String
      BY <1>3 DEF IInv, TypeOK
    <3>2. [op |-> msg.op, key |-> text[msg.s].key,
           val |-> IF msg.op = "put" THEN text[msg.s].val ELSE Absent] \in Accepted
      BY <1>3, <3>1 DEF Accepted, String, MaybeValue
    <3>3. log \in Seq(Accepted)
      BY DEF IInv, TypeOK
    <3> QED
      BY <3>2, <3>3, AppendProperties DEF Enqueue
  <2>4. torn' \in BOOLEAN
    BY DEF Enqueue, StaleTail, IInv, TypeOK
  <2>5. wpc' \in {"test", "lock", "asleep", "woken", "popped", "keyed", "copied",
                "found", "grow", "shrink", "readd", "applied", "send", "exited"}
    BY <1>6 DEF IInv, TypeOK, Signalled
  <2>6. held' \subseteq Block /\ last_assigned' \in Nat
    BY <1>2, <1>3, <1>6
  <2> QED
    BY <1>4, <1>5, <1>6, <2>1, <2>2, <2>3, <2>4, <2>5, <2>6
       DEF IInv, TypeOK, tableVars, contentVars, textVars
<1>8. Shape'
  <2>1. msg'.s = msg.s /\ msg'.op = msg.op
    BY <1>3 DEF Enqueue, Message
  <2> QED
    BY <1>2, <1>3, <1>5, <1>6, <2>1 DEF IInv, Shape, Busy, Reading, Signalled, tableVars
<1>9. JoinedBeforeDelete' /\ SizeAgrees'
  BY <1>3, <1>4, <1>6 DEF IInv, TypeOK, JoinedBeforeDelete, SizeAgrees
<1>10. SizeCounts'
  BY <1>3, <1>6 DEF IInv, SizeCounts, Stored, tableVars, contentVars, Busy,
                          Reading
<1>11. ChainInOrder'
  <2> SUFFICES ASSUME ~torn, ~StaleTail(queue)
               PROVE  ChainInOrder'
    BY DEF ChainInOrder, Enqueue
  <2>1. /\ Queued = held /\ Queued' = held \cup {b} /\ b \notin held
        /\ First \in Int /\ First' = First /\ First = last_assigned - queue.size
    <3>1. Null \notin held /\ held' = held \cup {b}
      BY <1>2, <1>3, PointerAssumption DEF PointerAssumption
    <3>2. Queued = held /\ Queued' = held \cup {b}
      BY <1>3, <1>6, <3>1 DEF Queued
    <3>3. First \in Int /\ First' = First
      BY <1>3, <1>4, <1>6 DEF First
    <3> QED
      BY <3>2, <3>3 DEF First
  <2>2. /\ \A c \in held : task[c].n \in First .. last_assigned - 1
        /\ \A c, d \in held : task[c].n = task[d].n => c = d
        /\ queue.size > 0 => queue.head \in held /\ task[queue.head].n = First
        /\ \A c \in held : task[c].n < last_assigned - 1 =>
             proximo[c] \in held /\ task[proximo[c]].n = task[c].n + 1
        /\ queue.size > 1 => /\ queue.tail \in held
                             /\ task[queue.tail].n = last_assigned - 1
        /\ queue.tail = Null => queue.size < 2
    BY <1>3, <2>1 DEF IInv, ChainInOrder
  <2>3. \A c \in Queued' : task'[c].n \in First' .. last_assigned' - 1
    BY <1>3, <1>5, <1>6, <2>1, <2>2
  <2>4. \A c, d \in Queued' : task'[c].n = task'[d].n => c = d
    BY <1>3, <1>5, <1>6, <2>1, <2>2
  <2>5. CASE queue.size = 0
    <3>1. held = {}
      BY <1>3, <2>1, <2>2, <2>5
    <3> QED
      BY <1>3, <1>4, <1>5, <1>6, <2>1, <2>3, <2>4, <2>5, <3>1 DEF ChainInOrder
  <2>6. CASE queue.size > 0
    <3> DEFINE p == Predecessor(queue)
    <3>1. p \in held /\ task[p].n = last_assigned - 1
      BY <1>3, <2>1, <2>2, <2>6 DEF Predecessor, StaleTail
    <3>2. /\ proximo'[p] = b
          /\ \A c \in held \ {p} : proximo'[c] = proximo[c]
      BY <1>2, <1>3, <2>1, <2>6, <3>1 DEF FifoLink
    <3>3. \A c \in Queued' : task'[c].n < last_assigned' - 1 =>
            proximo'[c] \in Queued' /\ task'[proximo'[c]].n = task'[c].n + 1
      <4>1. SUFFICES ASSUME NEW c \in held
                     PROVE  /\ proximo'[c] \in Queued'
                            /\ task'[proximo'[c]].n = task'[c].n + 1
        BY <1>3, <1>5, <1>6, <2>1
      <4>2. CASE c = p
        BY <1>3, <1>5, <2>1, <3>1, <3>2, <4>2
      <4>3. CASE c # p
        <5>1. task[c].n \in First .. last_assigned - 1 /\ task[c].n # task[p].n
          BY <2>1, <2>2, <3>1, <4>3
        <5>2. task[c].n < last_assigned - 1
          BY <1>3, <2>1, <3>1, <5>1
        <5> QED
          BY <1>5, <2>1, <2>2, <3>2, <4>3, <5>2
      <4> QED
        BY <4>2, <4>3
    <3> QED
      BY <1>3, <1>4, <1>5, <1>6, <2>1, <2>2, <2>3, <2>4, <2>6, <3>3
         DEF ChainInOrder
  <2> QED
    BY <1>3, <2>5, <2>6
<1>12. Order' /\ InOrder' /\ Steady'
  <2>1. /\ wpc' \notin {"keyed", "copied", "found", "grow", "shrink", "readd", "applied"}
        /\ ~torn' => ~torn
    BY <1>6 DEF Enqueue, Busy, Reading
  <2>2. tableUp => Len(ran) = op_count
    BY <1>3 DEF IInv, Order, Busy, Reading
  <2>3. Order'
    BY <1>6, <2>1, <2>2 DEF Order, tableVars
  <2>4. InOrder'
    BY <1>6, <2>1 DEF IInv, InOrder
  <2>5. Steady'
    BY <2>1 DEF Steady
  <2> QED
    BY <2>3, <2>4, <2>5
<1> QED
  BY <1>7, <1>8, <1>9, <1>10, <1>11, <1>12 DEF IInv
-----------------------------------------------------------------------------
(***************************************************************************)
(* The theorems.                                                           *)
(***************************************************************************)

\* Every step of the system keeps the invariant.
LEMMA Inductive ==
  ASSUME SkelAssumption, PointerAssumption, IInv, [Next]_vars
  PROVE  IInv'
<1>1. CASE UNCHANGED vars
  <2> USE <1>1 DEF vars, sharedVars, mainVars, workerVars, fifoVars, tableVars,
                   contentVars, textVars
  <2>1. TypeOK'
    BY DEF IInv, TypeOK
  <2>2. JoinedBeforeDelete' /\ (msg'.op \in {"put", "del", "get"} => msg'.s \in Str)
    BY DEF IInv, JoinedBeforeDelete, Shape
  <2>3. HandText' = HandText
    BY DEF HandText
  <2> QED
    BY <2>1, <2>2, <2>3, Quiet DEF Busy, Reading
<1>2. CASE \E op \in Command \ {"stop"} : Receive(op)
  BY <1>2, ReceiveStep
<1>3. CASE Invoke
  BY <1>3, EnqueueStep, GetStep, ReadStep, WalkStep, CrashStep
     DEF Invoke, MisfitKeys
<1>4. CASE Reply
  BY <1>4, ReplyStep
<1>5. CASE Stop
  BY <1>5, ReadStep
<1>6. CASE Shutdown
  BY <1>6, DestroyStep, DeleteStep DEF Shutdown
<1>7. CASE Worker
  BY <1>7, WorkerMoveStep, TakeStep, StringStepKeeps, ChangeStep, ApplyStep,
     CountStep, CrashStep DEF Worker, BadHash, RemoveCrashes, AddCrashes
<1>8. CASE SpuriousWakeup
  BY <1>8, WorkerMoveStep
<1> QED
  BY <1>1, <1>2, <1>3, <1>4, <1>5, <1>6, <1>7, <1>8 DEF Next, Ended

\* The invariant holds in every reachable state.
THEOREM Invariance == Spec => []IInv
<1>1. Init => IInv
  BY Initially, SkelAssumption, PointerAssumption
<1>2. IInv /\ [Next]_vars => IInv'
  BY Inductive, SkelAssumption, PointerAssumption
<1> QED
  BY <1>1, <1>2, PTL DEF Spec

\* Every variable has its type, the size of the queue is never negative, and
\* that of the table only once a string was overwritten or an entry lost.
THEOREM TypeCorrect == Spec => []TypeOK
BY Invariance, PTL DEF IInv

\* The queue's size, last_assigned, op_count and the task in the worker's hand
\* agree, even after the links of the queue went wrong.
THEOREM SizesAgree == Spec => []SizeAgrees
BY Invariance, PTL DEF IInv

\* table->size counts the keys in the lists, until a string is overwritten
\* while the worker reads it or list_add links an entry behind a stale tail.
THEOREM TableCounted == Spec => []SizeCounts
BY Invariance, PTL DEF IInv

\* The queue is one chain of every write not popped yet, in their order, until
\* a task is linked behind a stale tail.
THEOREM QueueChained == Spec => []ChainInOrder
BY Invariance, PTL DEF IInv

\* Writes are applied once each, in the order of their numbers, until a task
\* is linked behind a stale tail.
THEOREM AppliedInOrder == Spec => []InOrder
BY Invariance, PTL DEF IInv

-----------------------------------------------------------------------------
(***************************************************************************)
(* The worker's sleep, and what verify answers.                            *)
(***************************************************************************)

\* The worker goes to sleep only when the queue is empty, and every step that
\* makes it longer signals it.
THEOREM WakeupKept == Spec => []NoMissedWakeup
<1>1. Init => NoMissedWakeup
  BY DEF Init, NoMissedWakeup
<1>2. IInv /\ NoMissedWakeup /\ [Next]_vars => NoMissedWakeup'
  <2> SUFFICES ASSUME IInv, NoMissedWakeup, [Next]_vars PROVE NoMissedWakeup'
    OBVIOUS
  <2> USE DEF NoMissedWakeup, sharedVars, fifoVars, workerVars
  <2>1. CASE UNCHANGED vars
    BY <2>1 DEF vars
  <2>2. CASE \E op \in Command \ {"stop"} : Receive(op)
    BY <2>2 DEF Receive
  <2>3. CASE Invoke
    <3>1. CASE Enqueue
      BY <3>1 DEF Enqueue, Signalled
    <3>2. CASE StartGet \/ EndGet \/ Size \/ CountKeys \/ CollectKeys \/ CopyKeys \/ EndVerify
      BY <3>2 DEF StartGet, EndGet, Size, CountKeys, CollectKeys, CopyKeys, EndVerify,
                  MainStep, Crash
    <3>3. CASE StartVerify \/ Walk \/ MisfitKeys
      BY <3>3 DEF StartVerify, Walk, LookAt, MainStep, MisfitKeys, Crash
    <3> QED
      BY <2>3, <3>1, <3>2, <3>3 DEF Invoke
  <2>4. CASE Reply \/ Stop
    BY <2>4 DEF Reply, Stop, MainStep
  <2>5. CASE Shutdown
    <3>1. CASE DeleteQueue
      <4>1. wpc = "exited"
        BY <3>1 DEF DeleteQueue, IInv, JoinedBeforeDelete
      <4> QED
        BY <3>1, <4>1 DEF DeleteQueue, Crash
    <3> QED
      BY <2>5, <3>1 DEF Shutdown, DestroyTable, ClearFlag, SignalStop, Signalled,
                        Join, MainStep
  <2>6. CASE Worker
    <3>1. CASE TestFlag \/ WaitForTask \/ TakeNothing \/ SendMessage
      BY <3>1 DEF TestFlag, WaitForTask, TakeNothing, SendMessage, Move, Crash
    <3>2. CASE Take \/ TakeWild \/ Count \/ ApplyToFreed
      BY <3>2 DEF Take, TakeWild, Count, ApplyToFreed, Move, Crash
    <3>3. CASE CopyKey \/ CopyData \/ HashKey \/ LookUp \/ Remove
      BY <3>3 DEF CopyKey, CopyData, HashKey, LookUp, Remove, StringStep, TableStep
    <3>4. CASE Readd \/ Grow \/ Shrink
      BY <3>4 DEF Readd, Grow, Shrink, Resize, TableStep
    <3>5. CASE BadHash \/ RemoveCrashes \/ AddCrashes
      BY <3>5 DEF BadHash, RemoveCrashes, AddCrashes, Crash
    <3> QED
      BY <2>6, <3>1, <3>2, <3>3, <3>4, <3>5 DEF Worker
  <2>7. CASE SpuriousWakeup
    BY <2>7 DEF SpuriousWakeup, Move
  <2> QED
    BY <2>1, <2>2, <2>3, <2>4, <2>5, <2>6, <2>7 DEF Next, Ended
<1> QED
  BY <1>1, <1>2, Invariance, PTL DEF Spec

\* The table is there while requests are answered, and verify is answered only
\* by verify.
Answering ==
  /\ ~tableUp <=> mpc \in {"clear", "signal", "join", "delete", "exited"}
  /\ mpc \in {"collect", "copy"} => msg.op = "getkeys"
  /\ mpc = "get" => msg.op = "get"

\* The history of applied writes only grows, and so does that of the links.
LEMMA RanGrows ==
  ASSUME IInv, [Next]_vars
  PROVE  /\ torn => torn'
         /\ \A i \in 1 .. Len(ran) : i \in 1 .. Len(ran') /\ ran'[i] = ran[i]
<1> USE DEF sharedVars, fifoVars, workerVars
<1>1. ran \in Seq(Nat)
  BY DEF IInv, TypeOK
<1>2. CASE ran' = ran /\ (torn => torn')
  BY <1>2
<1>3. CASE LookUp \/ Remove
  <2>1. /\ torn' = torn /\ Busy
        /\ ran' = Append(ran, task[hand].n) \/ ran' = ran
    BY <1>3 DEF LookUp, Remove, StringStep, TableStep, Busy, Reading
  <2>2. hand \in Block /\ task[hand].n \in Nat
    BY <2>1 DEF IInv, Shape, TypeOK
  <2> QED
    BY <1>1, <2>1, <2>2
<1>4. CASE UNCHANGED vars \/ Stop \/ Reply \/ \E op \in Command \ {"stop"} : Receive(op)
  BY <1>2, <1>4 DEF vars, Stop, Reply, Receive, MainStep
<1>5. CASE Invoke
  BY <1>2, <1>5 DEF Invoke, Enqueue, StartGet, EndGet, Size, CountKeys, CollectKeys, CopyKeys,
                    EndVerify, StartVerify, Walk, LookAt, MainStep, MisfitKeys,
                    Crash
<1>6. CASE Shutdown
  BY <1>2, <1>6 DEF Shutdown, DestroyTable, ClearFlag, SignalStop, Join,
                    MainStep, DeleteQueue, Crash
<1>7. CASE SpuriousWakeup \/ TestFlag \/ WaitForTask \/ TakeNothing \/ SendMessage
             \/ Take \/ TakeWild \/ Count \/ ApplyToFreed
  BY <1>2, <1>7 DEF SpuriousWakeup, TestFlag, WaitForTask, TakeNothing, SendMessage,
                    Take, TakeWild, Count, ApplyToFreed, Move, Crash
<1>8. CASE CopyKey \/ CopyData \/ HashKey \/ Readd \/ Grow \/ Shrink
             \/ BadHash \/ RemoveCrashes \/ AddCrashes
  BY <1>2, <1>8 DEF CopyKey, CopyData, HashKey, Readd, Grow, Shrink, Resize,
                    StringStep, TableStep, BadHash, RemoveCrashes, AddCrashes, Crash
<1> QED
  BY <1>3, <1>4, <1>5, <1>6, <1>7, <1>8 DEF Next, Ended, Worker

\* The steps that leave what verify has answered as it is.
LEMMA AnswerKept ==
  ASSUME IInv, VerifySound, [Next]_vars, UNCHANGED msg,
         mpc' = "reply" => mpc = "reply"
  PROVE  VerifySound'
<1> SUFFICES ASSUME ~torn', mpc' = "reply", msg'.op = "verify", msg'.result = 0
             PROVE  \E i \in 1 .. Len(ran') : ran'[i] = msg'.n
  BY DEF VerifySound
<1>1. PICK i \in 1 .. Len(ran) : ran[i] = msg.n
  BY RanGrows DEF VerifySound
<1> QED
  BY <1>1, RanGrows

\* verify answers 0 only for a number below op_count, and as many writes have
\* been applied, in the order of their numbers.
LEMMA AnswerGiven ==
  ASSUME IInv, Answering, EndVerify
  PROVE  VerifySound'
<1> USE DEF EndVerify, MainStep, sharedVars
<1> SUFFICES ASSUME ~torn', mpc' = "reply", msg'.op = "verify", msg'.result = 0
             PROVE  \E i \in 1 .. Len(ran') : ran'[i] = msg'.n
  BY DEF VerifySound
<1>1. /\ msg \in Message /\ msg.n \in Nat
      /\ ran \in Seq(Nat) /\ Len(ran) \in Nat /\ op_count \in Nat
  BY DEF IInv, TypeOK, Message
<1>2. msg'.n = msg.n /\ msg.n < op_count
  BY <1>1 DEF Message
<1>3. Len(ran) >= op_count
  BY <1>1 DEF IInv, Order, Answering
<1>4. msg.n + 1 \in 1 .. Len(ran) /\ ran[msg.n + 1] = msg.n
  <2>1. msg.n + 1 \in 1 .. Len(ran)
    BY <1>1, <1>2, <1>3
  <2>2. \A i \in 1 .. Len(ran) : ran[i] = i - 1
    BY DEF IInv, InOrder
  <2>3. ran[msg.n + 1] = (msg.n + 1) - 1
    BY <2>1, <2>2
  <2> HIDE DEF EndVerify, MainStep, sharedVars
  <2> QED
    BY <1>1, <2>1, <2>3
<1> QED
  BY <1>2, <1>4

\* An operation verify reports as executed was applied to the table, as long
\* as no task was linked behind a stale tail.
THEOREM VerifyIsSound == Spec => []VerifySound
<1> USE DEF sharedVars, fifoVars, workerVars, mainVars, tableVars, contentVars,
            textVars
<1>1. Init => VerifySound /\ Answering
  BY DEF Init, VerifySound, Answering
<1>2. IInv /\ VerifySound /\ Answering /\ [Next]_vars => VerifySound' /\ Answering'
  <2> SUFFICES ASSUME IInv, VerifySound, Answering, [Next]_vars
               PROVE  VerifySound' /\ Answering'
    OBVIOUS
  <2>1. CASE UNCHANGED vars \/ Worker \/ SpuriousWakeup
    <3>1. UNCHANGED <<msg, mpc, tableUp>>
      <4>1. CASE UNCHANGED vars \/ SpuriousWakeup
        BY <4>1 DEF vars, SpuriousWakeup, Move
      <4>2. CASE Worker
        BY <4>2 DEF Worker, TestFlag, WaitForTask, TakeNothing, SendMessage,
                    Take, TakeWild, Count, ApplyToFreed, CopyKey, CopyData,
                    HashKey, BadHash, LookUp, Remove, RemoveCrashes, Readd,
                    AddCrashes, Grow, Shrink, Resize, StringStep, TableStep,
                    Move, Crash
      <4> QED
        BY <2>1, <4>1, <4>2
    <3> QED
      BY <3>1, AnswerKept DEF Answering
  <2>2. CASE \E op \in Command \ {"stop"} : Receive(op)
    BY <2>2 DEF Receive, VerifySound, Answering
  <2>3. CASE Reply \/ Stop
    BY <2>3 DEF Reply, Stop, MainStep, VerifySound, Answering
  <2>4. CASE Shutdown
    BY <2>4 DEF Shutdown, DestroyTable, ClearFlag, SignalStop, Join, MainStep,
                DeleteQueue, Crash, VerifySound, Answering
  <2>5. CASE /\ ~Crash
             /\ Enqueue \/ StartGet \/ EndGet \/ Size \/ CountKeys \/ CollectKeys \/ CopyKeys
    <3> USE DEF Enqueue, StartGet, EndGet, Size, CountKeys, CollectKeys, CopyKeys,
                MainStep
    <3>1. msg \in Message
      BY DEF IInv, TypeOK
    <3>2. msg.op # "verify" /\ msg'.op = msg.op /\ tableUp' = tableUp
      BY <2>5, <3>1 DEF Answering, Message
    <3>3. \/ mpc' = "reply"
          \/ mpc' \in {"collect", "copy"} /\ msg.op = "getkeys"
          \/ mpc' = "get" /\ msg.op = "get"
      BY <2>5 DEF Answering
    <3>4. tableUp
      BY <2>5 DEF Answering
    <3> QED
      BY <3>2, <3>3, <3>4 DEF VerifySound, Answering
  <2>6. CASE StartVerify
    BY <2>6 DEF StartVerify, LookAt, VerifySound, Answering
  <2>7. CASE Walk
    <3>1. tableUp' = tableUp /\ tableUp /\ mpc' \in {"walk", "reply"}
      BY <2>7 DEF Walk, LookAt, MainStep, Crash, Answering
    <3>2. CASE MainStep("walk", "reply", [msg EXCEPT !.result = -1])
      <4>1. msg'.result = -1
        BY <3>2 DEF MainStep, IInv, TypeOK, Message
      <4> QED
        BY <3>1, <3>2, <4>1 DEF MainStep, VerifySound, Answering
    <3>3. CASE mpc' = "walk"
      BY <3>1, <3>3 DEF VerifySound, Answering
    <3> QED
      BY <2>7, <3>2, <3>3 DEF Walk, LookAt, Crash
  <2>8. CASE EndVerify
    BY <2>8, AnswerGiven DEF EndVerify, MainStep, Answering
  <2>9. CASE MisfitKeys \/ Crash
    BY <2>9, AnswerKept DEF MisfitKeys, Crash, Answering
  <2> QED
    BY <2>1, <2>2, <2>3, <2>4, <2>5, <2>6, <2>7, <2>8, <2>9 DEF Next, Ended, Invoke
<1> QED
  BY <1>1, <1>2, Invariance, PTL DEF Spec
=============================================================================

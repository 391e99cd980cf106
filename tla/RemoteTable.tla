------------------------------- MODULE RemoteTable -------------------------------
(***************************************************************************)
(* The client library (source/client_stub.c, source/network_client.c) and  *)
(* the interactive client (source/table-client.c), against a server that   *)
(* may stop at any moment.  A call sends its request in two halves, waits, *)
(* and takes the reply; where the connection fails it does what the code   *)
(* does then, which is seldom to return an error.                          *)
(*                                                                         *)
(* The server is what the other modules say of it, in fewer steps: it      *)
(* answers one request at a time, numbers the writes and applies them      *)
(* later, in order, and counts them after that; a get walks while writes   *)
(* are applied; it reads for ever once a client has left (NetServer).  All *)
(* that holds until one of the defects TableSkel and HashTable name        *)
(* strikes: a task linked behind the stale tail of the queue, a string     *)
(* overwritten before it was read, an entry linked behind the stale tail   *)
(* of a list.  From then on the table is not followed, and reads may       *)
(* answer anything; so may a get that comes upon a node just freed.        *)
(***************************************************************************)
EXTENDS DataBlock, FiniteSets

CONSTANTS
  Client,        \* programs that use the library, table-client among them
  Asks,          \* the calls each client makes once it has connected
  Key,
  Value,         \* values programs put: sequences of bytes
  Absent,        \* the value of a key that is not in the table
  Failed,        \* what a call returns that found an error: -1 or null
  None,          \* no reply
  MaxOps         \* bound: writes accepted in a behaviour

ASSUME RemoteAssumption ==
  /\ Asks \in [Client -> SUBSET {"put", "del", "get", "size", "getkeys", "verify"}]
  /\ IsFiniteSet(Key) /\ IsFiniteSet(Client)
  /\ \A v \in Value : v \in Seq(0 .. 255) /\ Len(v) > 0
  /\ None \notin Nat /\ \A v \in Value : Absent \notin {Kept(v), Carried(v)}
  /\ MaxOps \in Nat

VARIABLES
  log,            \* the writes invoke has numbered, from 0, with their caller
  done, op_count, \* how many of them changed the table, how many are counted
  store,          \* what the table holds for each key
  wpc,            \* the worker: between two writes, or in the middle of one
  main,           \* the server's network thread: in poll, in table_get, or
                  \* reading for ever
  asker, seen,    \* in table_get: the client, what its key had since it began
  freed,          \* in table_get: a node was freed since it began
  struck,         \* history: a defect of the queue, the strings or the lists
                  \* has struck
  alive,          \* the server process exists
  link,           \* each client's connection, "null" while its table is null
  inq, reply,     \* halves of a request not yet read; the reply on its way
  pc, call, ret,  \* each client: where it is, its call and what it returned
  garbled,        \* history: what each client is told comes from memory that
                  \* was freed, by itself or under a walk of the server
  known, floor    \* history: how many writes clients know in effect, now and
                  \* when each client's get began

tableVars == <<done, op_count, store, wpc, struck>>
walkVars == <<main, asker, seen, freed>>
serverVars == <<log, tableVars, walkVars, alive>>
clientVars == <<pc, call, ret, garbled, floor>>
vars == <<serverVars, link, inq, reply, clientVars, known>>

NoData == <<>>
NoCall == [op |-> "none", key |-> None, data |-> NoData, n |-> 0]

Init ==
  /\ log = <<>> /\ done = 0 /\ op_count = 0
  /\ store = [k \in Key |-> Absent]
  /\ wpc = "idle" /\ main = "poll" /\ alive = TRUE
  /\ asker = None /\ seen = {} /\ freed = FALSE /\ struck = FALSE
  /\ link = [c \in Client |-> "null"]
  /\ inq = [c \in Client |-> 0] /\ reply = [c \in Client |-> None]
  /\ pc = [c \in Client |-> "idle"] /\ call = [c \in Client |-> NoCall]
  /\ ret = [c \in Client |-> None]
  /\ garbled = [c \in Client |-> FALSE]
  /\ known = 0 /\ floor = [c \in Client |-> 0]

(***************************************************************************)
(* The server.                                                             *)
(***************************************************************************)
Write(c) == [by |-> c, op |-> call[c].op, key |-> call[c].key, data |-> call[c].data]

\* Mutant of Numbered: the number is taken after the counter has moved.
NumberedLate(c) ==
  /\ log' = Append(log, Write(c))
  /\ reply' = [reply EXCEPT ![c] = Len(log) + 1]

Numbered(c) ==
  /\ log' = Append(log, Write(c))
  /\ reply' = [reply EXCEPT ![c] = Len(log)]

\* Mutant of Verified: an operation about to be counted is reported done.
VerifiedEarly(n) == IF n <= op_count THEN {0, -1} ELSE {-1}

\* verify: a walk over the queue that stands on a task just freed may find the
\* number there.
Verified(n) == IF n < op_count THEN {0, -1} ELSE {-1}

\* Values no client put, inside the block and longer than it.
Junked == {[i \in 1 .. n |-> Junk] : n \in {1, Usable + 1}}

\* What a call may be told out of memory that was freed, any other number
\* included.
Anything(op) ==
  CASE op = "get" -> {Absent} \cup Junked
    [] op = "getkeys" -> SUBSET Key
    [] op = "verify" -> {0, -1}
    [] OTHER -> {-1, 0}

\* What size and getkeys answer is the subject of TableSkel and HashTable.
Answers(c) == IF call[c].op = "verify" /\ ~struck THEN Verified(call[c].n)
                                                 ELSE Anything(call[c].op)

\* The main loop reads a whole request, invokes the skeleton and replies; a
\* get begins its walk.
Handle(c) ==
  /\ alive /\ main = "poll" /\ link[c] = "up" /\ inq[c] = 2
  /\ inq' = [inq EXCEPT ![c] = 0]
  /\ \/ /\ call[c].op \in {"put", "del"}
        /\ Numbered(c)
        /\ UNCHANGED walkVars
     \/ /\ call[c].op \in {"size", "getkeys", "verify"}
        /\ \E a \in Answers(c) : reply' = [reply EXCEPT ![c] = a]
        /\ UNCHANGED <<log, walkVars>>
     \/ /\ call[c].op = "get"
        /\ main' = "get" /\ asker' = c
        /\ seen' = {store[call[c].key]} /\ freed' = FALSE
        /\ UNCHANGED <<log, reply>>
  /\ UNCHANGED <<tableVars, alive, link, clientVars, known>>

\* What table_get answers for what it has found.
Answer(s) == IF s = Absent THEN Absent ELSE Fetched(s)

\* The walk is over and the reply is sent.
EndGet ==
  /\ alive /\ main = "get"
  /\ \/ /\ ~struck
        /\ \E s \in seen : reply' = [reply EXCEPT ![asker] = Answer(s)]
        /\ UNCHANGED garbled
     \/ /\ freed \/ struck
        /\ \E a \in Anything("get") : reply' = [reply EXCEPT ![asker] = a]
        /\ garbled' = [garbled EXCEPT ![asker] = TRUE]
  /\ main' = "poll" /\ asker' = None /\ seen' = {} /\ freed' = FALSE
  /\ UNCHANGED <<log, tableVars, alive, link, inq, pc, call, ret, floor, known>>

\* A client whose connection is accepted has left.
Left(c) == pc[c] = "ended" /\ link[c] = "up"

\* read_all does not stop at end of file.
Hang ==
  /\ alive /\ main = "poll" /\ \E c \in Client : Left(c)
  /\ main' = "spin"
  /\ UNCHANGED <<log, tableVars, asker, seen, freed, alive, link, inq, reply,
                 clientVars, known>>

Worker(from, to) ==
  /\ alive /\ wpc = from /\ wpc' = to
  /\ UNCHANGED <<log, main, asker, alive, link, inq, reply, clientVars, known>>

\* The write the worker has popped, or pops next.
Task == log[done + 1]

\* The table changes, under the walk of a get.
Change(v) ==
  /\ ~struck /\ UNCHANGED <<op_count, struck>>
  /\ store' = [store EXCEPT ![Task.key] = v]
  /\ IF main = "get"
     THEN /\ seen' = seen \cup {store'[call[asker].key]}
          /\ freed' = (freed \/ store[Task.key] # Absent)
     ELSE UNCHANGED <<seen, freed>>

\* A put of a key that is there removes it first; one whose data is an empty
\* string is not carried out.
Apply ==
  /\ done < Len(log)
  /\ \/ /\ Task.op = "put" /\ HasText(Task.data) /\ store[Task.key] # Absent
        /\ Worker("idle", "readd") /\ Change(Absent)
        /\ UNCHANGED done
     \/ /\ Task.op = "put" /\ HasText(Task.data) /\ store[Task.key] = Absent
        /\ Worker("idle", "applied") /\ Change(Kept(Task.data))
        /\ done' = done + 1
     \/ /\ Task.op = "put" /\ ~HasText(Task.data) /\ ~struck
        /\ Worker("idle", "applied")
        /\ done' = done + 1 /\ UNCHANGED <<op_count, store, struck, seen, freed>>
     \/ /\ Task.op = "del"
        /\ Worker("idle", "applied") /\ Change(Absent)
        /\ done' = done + 1

Readd ==
  /\ Worker("readd", "applied") /\ Change(Kept(Task.data))
  /\ done' = done + 1

\* A write is lost, or what it does is not what was sent: fifo_add or list_add
\* has linked behind a stale tail, or a string of its message, which was freed
\* with the reply, is overwritten.
Strike ==
  /\ alive /\ ~struck /\ done < Len(log)
  /\ struck' = TRUE
  /\ UNCHANGED <<log, done, op_count, store, wpc, walkVars, alive, link, inq,
                 reply, clientVars, known>>

\* The worker goes on with the tasks it finds.
ApplyStruck ==
  /\ struck /\ done < Len(log)
  /\ Worker("idle", "applied") \/ Worker("readd", "applied")
  /\ done' = done + 1
  /\ UNCHANGED <<op_count, store, struck, seen, freed>>

\* Mutant of Count: all the writes numbered so far are counted as executed.
CountEverything ==
  /\ Worker("applied", "idle")
  /\ op_count' = Len(log)
  /\ UNCHANGED <<done, store, struck, seen, freed>>

Count ==
  /\ Worker("applied", "idle")
  /\ op_count' = op_count + 1
  /\ UNCHANGED <<done, store, struck, seen, freed>>

(***************************************************************************)
(* The server is closed, killed, or ends on an invalid access, as when     *)
(* data_dup writes behind its block.  A client sees end of file behind a   *)
(* reply that was already sent, or an error when the server had not read   *)
(* all of its request.                                                     *)
(***************************************************************************)
Stop ==
  /\ alive /\ alive' = FALSE
  /\ \E cut \in SUBSET {c \in Client : link[c] = "up" /\ inq[c] > 0} :
       link' = [c \in Client |-> IF link[c] # "up" THEN link[c]
                                 ELSE IF c \in cut THEN "reset" ELSE "eof"]
  /\ UNCHANGED <<log, tableVars, walkVars, inq, reply, clientVars, known>>

(***************************************************************************)
(* The library.  pc: "idle" before the first call, "half" and "wait" within *)
(* a call, "back" after it, "ended" when the process is gone.              *)
(***************************************************************************)
Between(c) == pc[c] \in {"idle", "back"}

\* A call is over and has returned r.
Returns(c, r) ==
  /\ pc' = [pc EXCEPT ![c] = "back"]
  /\ ret' = [ret EXCEPT ![c] = r]

\* The client's process ends, by its own will or on an invalid access.
Ends(c) ==
  /\ pc' = [pc EXCEPT ![c] = "ended"]
  /\ call' = [call EXCEPT ![c] = NoCall]
  /\ ret' = [ret EXCEPT ![c] = None]
  /\ reply' = [reply EXCEPT ![c] = None]
  /\ garbled' = [garbled EXCEPT ![c] = FALSE]
  /\ floor' = [floor EXCEPT ![c] = 0]
  /\ UNCHANGED <<serverVars, link, inq, known>>

Connect(c) ==
  /\ Between(c) /\ link[c] = "null" /\ alive
  /\ link' = [link EXCEPT ![c] = "up"]
  /\ UNCHANGED <<serverVars, inq, reply, clientVars, known>>

\* Every call on a null table, or with a null argument, returns at once.
Refused(c) ==
  /\ Between(c)
  /\ Returns(c, Failed)
  /\ call' = [call EXCEPT ![c] = NoCall]
  /\ UNCHANGED <<serverVars, link, inq, reply, garbled, floor, known>>

Requests ==
  [op : {"put"}, key : Key, data : Value, n : {0}]
    \cup [op : {"del", "get"}, key : Key, data : {NoData}, n : {0}]
    \cup [op : {"size", "getkeys"}, key : {None}, data : {NoData}, n : {0}]
    \cup [op : {"verify"}, key : {None}, data : {NoData}, n : 0 .. MaxOps - 1]

\* Writes accepted and on their way.
Writing == {c \in Client : pc[c] \in {"half", "wait"} /\ reply[c] = None
                             /\ call[c].op \in {"put", "del"}}
RoomFor(r) == r.op \in {"put", "del"} => Len(log) + Cardinality(Writing) < MaxOps

\* What each key should have after the first m writes, as far as a string and
\* a size can carry the bytes.
After(m) ==
  LET f[i \in 0 .. m] ==
        IF i = 0 THEN [k \in Key |-> Absent]
        ELSE IF log[i].op = "del" THEN [f[i - 1] EXCEPT ![log[i].key] = Absent]
        ELSE IF ~HasText(log[i].data) THEN f[i - 1]
        ELSE [f[i - 1] EXCEPT ![log[i].key] = Carried(log[i].data)]
  IN f[m]

Least(S) == CHOOSE x \in S : \A y \in S : x <= y

\* How many writes, more than known, the reply to c may show to be in effect.
Shown(c) ==
  {m \in known + 1 .. Len(log) :
     \/ call[c].op = "verify" /\ reply[c] = 0 /\ m = call[c].n + 1
     \/ /\ call[c].op = "get" /\ reply[c] # Absent
        /\ \A l \in floor[c] .. m - 1 : After(l)[call[c].key] # reply[c]
        /\ After(m)[call[c].key] = reply[c]}

\* The length is sent.  To a server that has closed that works once more.
SendLength(c, r) ==
  /\ Between(c) /\ link[c] \in {"up", "eof"}
  /\ r.op \in Asks[c] /\ RoomFor(r)
  /\ pc' = [pc EXCEPT ![c] = "half"]
  /\ call' = [call EXCEPT ![c] = r]
  /\ ret' = [ret EXCEPT ![c] = None]
  /\ garbled' = [garbled EXCEPT ![c] = FALSE]
  /\ floor' = [floor EXCEPT ![c] = IF r.op = "get" THEN known ELSE 0]
  /\ inq' = [inq EXCEPT ![c] = IF link[c] = "up" THEN 1 ELSE 0]
  /\ UNCHANGED <<serverVars, link, reply, known>>

SendRequest(c) ==
  /\ pc[c] = "half" /\ link[c] \in {"up", "eof"}
  /\ pc' = [pc EXCEPT ![c] = "wait"]
  /\ inq' = [inq EXCEPT ![c] = IF link[c] = "up" THEN 2 ELSE @]
  /\ UNCHANGED <<serverVars, link, reply, call, ret, garbled, floor, known>>

\* A write fails, or SIGPIPE ends the process: network_send_receive returns
\* null, and the call writes its error code to that address.
SendFails(c) ==
  /\ \/ Between(c) /\ link[c] = "reset"
     \/ pc[c] = "half" /\ link[c] \in {"reset", "eof"}
  /\ Ends(c)

ReceiveReply(c) ==
  /\ pc[c] = "wait" /\ reply[c] # None
  /\ Returns(c, reply[c])
  /\ reply' = [reply EXCEPT ![c] = None]
  /\ known' = IF struck \/ garbled[c] \/ Shown(c) = {} THEN known
              ELSE Least(Shown(c))
  /\ UNCHANGED <<serverVars, link, inq, call, garbled, floor>>


\* A read fails: the request is freed, the connection closed, and the code
\* goes on to read, to free the request again and to unpack what is there.
\* That ends the process, as a null message does, or is taken for the reply.
ReadFails(c) ==
  /\ pc[c] = "wait" /\ link[c] = "reset"
  /\ \/ Ends(c)
     \/ /\ \E a \in Anything(call[c].op) : Returns(c, a)
        /\ garbled' = [garbled EXCEPT ![c] = TRUE]
        /\ UNCHANGED <<serverVars, link, inq, reply, call, floor, known>>

\* rtable_get duplicates a value that does not fit into the block.
FetchOverruns(c) ==
  /\ pc[c] = "wait" /\ call[c].op = "get"
  /\ reply[c] \notin {None, Absent} /\ ~Fits(reply[c])
  /\ Ends(c)

\* rtable_verify frees a message on its stack when the number is negative.
VerifyNegative(c) == Between(c) /\ link[c] # "null" /\ Ends(c)

\* rtable_disconnect, and the end of the program.
Disconnect(c) == Between(c) /\ link[c] # "null" /\ Ends(c)

(***************************************************************************)
(* The interactive client.  Its tables are null as long as it runs: only    *)
(* child_watcher sets them, and it ends the process first, by a copy to a  *)
(* null pointer or, when the chain has no server, by a connection to an    *)
(* address that is an empty string.                                        *)
(***************************************************************************)
InteractiveEnds(c) == Between(c) /\ link[c] = "null" /\ Ends(c)

\* size and getkeys print that the library returned an error.
ReadCommand(c) == link[c] = "null" /\ Refused(c)

\* get looks into the value rtable_get did not return.
GetCommand(c) == InteractiveEnds(c)

\* del and put do not look at what the library returned.
WriteCommand(c) == link[c] = "null" /\ Refused(c)

VerifyCommand(c) == link[c] = "null" /\ Refused(c)

ChainChanges(c) == InteractiveEnds(c)

Quit(c) == InteractiveEnds(c)

Calling(c) == SendRequest(c) \/ SendFails(c) \/ ReceiveReply(c) \/ ReadFails(c)
                \/ FetchOverruns(c)

Server == EndGet \/ Hang \/ Apply \/ Readd \/ Strike \/ ApplyStruck \/ Count

Next ==
  \/ \E c \in Client :
       \/ Connect(c) \/ Refused(c) \/ Calling(c) \/ VerifyNegative(c) \/ Disconnect(c)
       \/ ReadCommand(c) \/ GetCommand(c) \/ WriteCommand(c) \/ VerifyCommand(c)
       \/ ChainChanges(c) \/ Quit(c)
       \/ \E r \in Requests : SendLength(c, r)
       \/ Handle(c)
  \/ Server \/ Stop

Spec == Init /\ [][Next]_vars

(***************************************************************************)
(* A call goes on once it has begun, and the network thread ends its walks *)
(* and comes to every request, however many others there are               *)
(* (WaitingIsServed of NetServer).                                         *)
(***************************************************************************)
FairSpec ==
  /\ Spec
  /\ \A c \in Client : WF_vars(pc[c] \in {"half", "wait"} /\ Calling(c))
  /\ \A c \in Client : SF_vars(Handle(c))
  /\ WF_vars(EndGet)

(***************************************************************************)
(* Properties.                                                             *)
(***************************************************************************)
\* The fields of calls, replies and connections have the values the library
\* and the server give them; a write is counted only after it was applied, and
\* applied only after it was numbered.
TypeOK ==
  /\ \A i \in 1 .. Len(log) :
       /\ log[i].by \in Client /\ log[i].key \in Key
       /\ IF log[i].op = "put" THEN log[i].data \in Value
                               ELSE log[i].op = "del" /\ log[i].data = NoData
  /\ op_count <= done /\ done <= Len(log) /\ Len(log) <= MaxOps
  /\ \A k \in Key : store[k] # Absent => DOMAIN store[k].block = 1 .. Usable
  /\ wpc \in {"idle", "readd", "applied"} /\ main \in {"poll", "get", "spin"}
  /\ main = "get" => asker \in Client /\ call[asker].op = "get"
  /\ struck \in BOOLEAN /\ freed \in BOOLEAN /\ alive \in BOOLEAN
  /\ link \in [Client -> {"null", "up", "eof", "reset"}]
  /\ inq \in [Client -> 0 .. 2]
  /\ pc \in [Client -> {"idle", "half", "wait", "back", "ended"}]
  /\ \A c \in Client : call[c] \in Requests \cup {NoCall}
  /\ garbled \in [Client -> BOOLEAN]
  /\ known \in 0 .. MaxOps /\ floor \in [Client -> 0 .. MaxOps]

Answered(c) == pc[c] = "back" /\ ret[c] # Failed

\* The number a client is told for its put or del is the number under which
\* the server queued that very write, and nobody else is told it, unless the
\* library made it up from memory it had freed.
NumbersAreOwn ==
  \A c \in Client :
    (Answered(c) /\ ~garbled[c] /\ call[c].op \in {"put", "del"}) =>
      /\ ret[c] \in 0 .. Len(log) - 1
      /\ log[ret[c] + 1] = Write(c)

\* A get whose answer is not made up from freed memory, of a server none of
\* whose defects has struck.
ToldOfTable(c) ==
  Answered(c) /\ call[c].op = "get" /\ ~struck /\ ~garbled[c]

\* Once verify or a get has shown any client that the first writes are in
\* effect, a get that begins afterwards answers what those or later writes left,
\* or nothing, if a later put of the key is overwriting it: nobody sees the
\* table go back.
ReadsNeverGoBack ==
  \A c \in Client :
    ToldOfTable(c) =>
      LET k == call[c].key
          later == floor[c] .. Len(log)
      IN \/ ret[c] \in {After(m)[k] : m \in later}
         \/ /\ ret[c] = Absent
            /\ \E m \in later \ {floor[c]} : log[m].op = "put" /\ log[m].key = k

\* A value that comes back has the size and the bytes with which it was put,
\* after two copies over the fields of a struct data_t and three strings: all
\* that lie before a null byte and inside the block.
BytesSurvive ==
  \A c \in Client :
    (ToldOfTable(c) /\ ret[c] # Absent) =>
      \E i \in 1 .. Len(log) :
        LET v == log[i].data
        IN /\ log[i].op = "put" /\ Len(v) = Len(ret[c])
           /\ \A j \in 1 .. Len(v) :
                (j <= Usable /\ \A l \in 1 .. j : v[l] # Nul) => ret[c][j] = v[j]

==================================================================================

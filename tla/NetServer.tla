-------------------------------- MODULE NetServer --------------------------------
(***************************************************************************)
(* The network layer: network_main_loop of source/network_server.c, which  *)
(* serves all clients from one thread with poll, and the clients, which    *)
(* send a request and wait for its reply (source/network_client.c).        *)
(*                                                                         *)
(* A message travels in two halves, its length and its bytes, each with a  *)
(* read_all or write_all of its own.  A client that closes is seen as end  *)
(* of file; one that closes with a reply unread is seen as a reset, which  *)
(* is an error.  A write to a client that has closed is answered by a      *)
(* reset as well.  What the skeleton does with a request is TableSkel.     *)
(***************************************************************************)
EXTENDS Integers, Sequences, FiniteSets

CONSTANTS
  Client,
  Self,      \* the server itself, as the client of its own socket
  Null,      \* no client
  Fd,        \* descriptors accept may return
  NFDESC,    \* the size of connections; slot 0 is the listening socket
  Kind,      \* requests: "good", "odd" (invoke refuses it), "bad" (no message)
  Leaving    \* clients that may close their connection or be killed

NoFd == -1

ASSUME NetAssumption ==
  /\ Null \notin Client \cup {Self} /\ Self \notin Client
  /\ Fd \subseteq Nat /\ IsFiniteSet(Fd)
  /\ NFDESC \in Nat /\ NFDESC > 1
  /\ Kind \subseteq {"good", "odd", "bad"}
  /\ Leaving \subseteq Client

VARIABLES
  conn,       \* connections[1 ..]: the descriptor and revents of each slot
  nfds, i,    \* slots in use, and the slot the main loop is at
  spc,        \* where the main loop is
  req,        \* the kind of the request it has read
  interrupt,  \* no signal has been handled
  open,       \* the open descriptors and the clients they are connected to
  backlog,    \* clients connected and not yet accepted
  up,         \* the server has not crashed
  cpc, kind,  \* each client: where it is, the kind of its last request
  inq, outq,  \* halves sent to the server and to the client, not yet read
  rst,        \* whether the server's end of the connection was reset
  aliased,    \* history: a slot kept a descriptor that network_send closed
  overrun     \* history: a slot was read behind the end of connections

tableVars == <<conn, nfds, open>>
clientVars == <<cpc, kind>>
channelVars == <<inq, outq, rst>>
history == <<aliased, overrun>>
vars == <<tableVars, i, spc, req, interrupt, backlog, up, clientVars,
          channelVars, history>>

Slot == 1 .. NFDESC - 1
InUse == 1 .. nfds - 1
Blank == [fd |-> NoFd, seen |-> {}]
Endpoint == Client \cup {Self}

\* table_skel_init, if ZooKeeper answered in time, connects the server to
\* itself.  That connection sends nothing before the main loop has ended.
SelfConnected ==
  /\ backlog = <<Self>>
  /\ cpc = [c \in Endpoint |-> IF c = Self THEN "open" ELSE "off"]

NotRegistered == backlog = <<>> /\ cpc = [c \in Endpoint |-> "off"]

Init ==
  /\ conn = [j \in Slot |-> Blank]
  /\ nfds = 1 /\ i = 1 /\ spc = "poll" /\ req = "good" /\ interrupt = TRUE
  /\ open = [f \in Fd |-> Null]
  /\ SelfConnected \/ NotRegistered
  /\ up = TRUE
  /\ kind = [c \in Endpoint |-> "good"]
  /\ inq = [c \in Endpoint |-> 0] /\ outq = [c \in Endpoint |-> 0]
  /\ rst = [c \in Endpoint |-> "no"]
  /\ aliased = FALSE /\ overrun = FALSE

(***************************************************************************)
(* The clients.                                                            *)
(***************************************************************************)
ClientStep(c, from, to) ==
  /\ cpc[c] = from
  /\ cpc' = [cpc EXCEPT ![c] = to]
  /\ UNCHANGED <<tableVars, i, spc, req, interrupt, up, history>>

Connect(c) ==
  /\ ClientStep(c, "off", "open")
  /\ spc # "exit" /\ up
  /\ backlog' = Append(backlog, c)
  /\ UNCHANGED <<kind, channelVars>>

SendLength(c) ==
  /\ ClientStep(c, "open", "half")
  /\ inq' = [inq EXCEPT ![c] = @ + 1]
  /\ UNCHANGED <<kind, outq, rst, backlog>>

SendRequest(c) ==
  /\ ClientStep(c, "half", "wait")
  /\ inq' = [inq EXCEPT ![c] = @ + 1]
  /\ \E k \in Kind : kind' = [kind EXCEPT ![c] = k]
  /\ UNCHANGED <<outq, rst, backlog>>

ReceiveReply(c) ==
  /\ outq[c] = 2
  /\ ClientStep(c, "wait", "open")
  /\ outq' = [outq EXCEPT ![c] = 0]
  /\ UNCHANGED <<kind, inq, rst, backlog>>

\* rtable_disconnect, or the end of the client's process.
Leave(c) ==
  /\ \E from \in {"open", "half", "wait"} :
       ClientStep(c, from, IF outq[c] > 0 THEN "cut" ELSE "gone")
  /\ rst' = IF outq[c] > 0 THEN [rst EXCEPT ![c] = "due"] ELSE rst
  /\ UNCHANGED <<kind, inq, outq, backlog>>

ResetArrives(c) ==
  /\ rst[c] = "due"
  /\ rst' = [rst EXCEPT ![c] = "arrived"]
  /\ UNCHANGED <<tableVars, i, spc, req, interrupt, up, history, clientVars,
                 inq, outq, backlog>>

(***************************************************************************)
(* The server: poll, and accept of one client.                             *)
(***************************************************************************)

\* The connection has something for a read: data, end of file or an error.
Readable(f) ==
  /\ f \in Fd /\ open[f] # Null
  /\ inq[open[f]] > 0 \/ cpc[open[f]] = "gone" \/ rst[open[f]] = "arrived"

Events(f) ==
  (IF Readable(f) THEN {"in"} ELSE {})
    \cup (IF f \in Fd /\ open[f] # Null /\ rst[open[f]] = "arrived" THEN {"hup"}
                                                                   ELSE {})

\* Poll writes revents of the slots in use only; the slot given to a client
\* just accepted keeps what it held.
Polled == [j \in Slot |-> IF j \in InUse
                          THEN [conn[j] EXCEPT !.seen = Events(conn[j].fd)]
                          ELSE conn[j]]

Free == {f \in Fd : open[f] = Null}
Lowest == CHOOSE f \in Free : \A g \in Free : f <= g

\* Mutant of Accept: whether a slot is left is not checked.
AcceptAnyway ==
  /\ backlog # <<>> /\ Free # {}
  /\ conn' = [j \in Slot |-> IF j = nfds THEN [Polled[j] EXCEPT !.fd = Lowest]
                                        ELSE Polled[j]]
  /\ nfds' = nfds + 1
  /\ open' = [open EXCEPT ![Lowest] = Head(backlog)]
  /\ backlog' = Tail(backlog)

Accept ==
  /\ backlog # <<>> /\ nfds < NFDESC /\ Free # {}
  /\ conn' = [Polled EXCEPT ![nfds].fd = Lowest]
  /\ nfds' = nfds + 1
  /\ open' = [open EXCEPT ![Lowest] = Head(backlog)]
  /\ backlog' = Tail(backlog)

\* Nobody waits, or there is no slot or descriptor to give.
AcceptNone ==
  /\ backlog = <<>> \/ nfds = NFDESC \/ Free = {}
  /\ conn' = Polled
  /\ UNCHANGED <<nfds, open, backlog>>

\* Mutant of Poll: the scan starts behind the first client's slot.
PollSkipsFirst ==
  /\ up /\ spc = "poll"
  /\ backlog # <<>> \/ \E j \in InUse : Events(conn[j].fd) # {}
  /\ Accept \/ AcceptNone
  /\ spc' = "scan" /\ i' = 2
  /\ UNCHANGED <<req, interrupt, up, clientVars, channelVars, history>>

Poll ==
  /\ up /\ spc = "poll"
  /\ backlog # <<>> \/ \E j \in InUse : Events(conn[j].fd) # {}
  /\ Accept \/ AcceptNone
  /\ spc' = "scan" /\ i' = 1
  /\ UNCHANGED <<req, interrupt, up, clientVars, channelVars, history>>

\* A signal: poll fails and the loop ends, or the flag is set for later.
Signal ==
  /\ up /\ spc # "exit"
  /\ interrupt' = FALSE
  /\ spc' = IF spc = "poll" THEN "exit" ELSE spc
  /\ UNCHANGED <<tableVars, i, req, backlog, up, clientVars, channelVars, history>>

(***************************************************************************)
(* The scan of the slots.  Unchanged while the loop is at one slot: the    *)
(* table of slots and descriptors.                                         *)
(***************************************************************************)
At(pc) == up /\ spc = pc
Others == <<interrupt, backlog, up, clientVars>>
Mine == conn[i].fd
Peer == IF Mine \in Fd THEN open[Mine] ELSE Null

Goto(pc) == spc' = pc /\ UNCHANGED i
NextSlot == spc' = "scan" /\ i' = i + 1

Scan ==
  /\ At("scan")
  /\ IF i >= nfds THEN Goto("poll")
     ELSE IF "in" \in conn[i].seen THEN Goto("length") ELSE Goto("hangup")
  /\ UNCHANGED <<tableVars, req, Others, channelVars, history>>

\* close of a descriptor, which may be closed already.
Closed(f) == IF f \in Fd THEN [open EXCEPT ![f] = Null] ELSE open

\* Mutant of Shifted: the slots behind slot i are not moved down.
NotShifted == {conn}

\* Mutant of Shifted: descriptors are moved, revents are not.
ShiftedFds ==
  {[j \in Slot |-> IF j < i \/ j >= nfds THEN conn[j]
                   ELSE [conn[j] EXCEPT !.fd = IF j + 1 \in Slot
                                                THEN conn[j + 1].fd ELSE NoFd]]}

\* The slots after i move down by one.  With every slot in use, the last one
\* is copied from the memory behind the array.
Shifted ==
  {[j \in Slot |-> IF j < i \/ j >= nfds THEN conn[j]
                   ELSE IF j + 1 \in Slot THEN conn[j + 1] ELSE behind] :
     behind \in [fd : {NoFd}, seen : SUBSET {"in", "hup"}]}

Drop ==
  /\ open' = Closed(Mine)
  /\ conn' \in Shifted
  /\ nfds' = nfds - 1
  /\ overrun' = (overrun \/ nfds = NFDESC)

\* network_receive returns no message: the slot is removed and the slot that
\* takes its place comes next.
ReceiveFails ==
  /\ Drop /\ Goto("scan")
  /\ UNCHANGED <<req, Others, channelVars, aliased>>

\* read_all of one half.  At end of file it reads on without an end, and with
\* nothing to read it waits: neither is a step.
ReadHalf(pc, to) ==
  /\ At(pc)
  /\ \/ /\ Peer # Null => inq[Peer] = 0 /\ cpc[Peer] = "cut" /\ rst[Peer] = "arrived"
        /\ ReceiveFails
     \/ /\ Peer # Null /\ inq[Peer] > 0
        /\ inq' = [inq EXCEPT ![Peer] = @ - 1]
        /\ req' = kind[Peer]
        /\ Goto(to)
        /\ UNCHANGED <<tableVars, Others, outq, rst, history>>

\* Mutant of ReadLength: the body is taken as read with the length.
ReadLengthOnly == ReadHalf("length", "invoke")

ReadLength == ReadHalf("length", "body")
ReadBody == ReadHalf("body", "invoke")

\* A message without a known opcode or content type.
Refuse == At("invoke") /\ req = "bad" /\ ReceiveFails

\* invoke returns an error: the descriptor is closed, the slot stays in use.
InvokeFails ==
  /\ At("invoke") /\ req = "odd"
  /\ open' = Closed(Mine)
  /\ conn' = [conn EXCEPT ![i].fd = NoFd]
  /\ NextSlot
  /\ UNCHANGED <<nfds, req, Others, channelVars, history>>

Invoke ==
  /\ At("invoke") /\ req = "good"
  /\ Goto("reply length")
  /\ UNCHANGED <<tableVars, req, Others, channelVars, history>>

\* write_all of one half.  A client that is gone resets the connection.
WriteHalf(pc, to) ==
  /\ At(pc)
  /\ Peer # Null /\ rst[Peer] # "arrived"
  /\ outq' = [outq EXCEPT ![Peer] = @ + 1]
  /\ rst' = IF cpc[Peer] = "gone" THEN [rst EXCEPT ![Peer] = "due"] ELSE rst
  /\ Goto(to)
  /\ UNCHANGED <<tableVars, req, Others, inq, history>>

ReplyLength == WriteHalf("reply length", "reply body")
ReplyBody == WriteHalf("reply body", "hangup")

\* network_send closes the descriptor, which stays in its slot, and frees the
\* message, which network_main_loop then frees again.
ReplyFails ==
  /\ At("reply length") \/ At("reply body")
  /\ Peer # Null => rst[Peer] = "arrived"
  /\ open' = Closed(Mine)
  /\ aliased' = TRUE
  /\ up' \in BOOLEAN
  /\ Goto("hangup")
  /\ UNCHANGED <<conn, nfds, req, interrupt, backlog, clientVars, channelVars,
                 overrun>>

\* POLLHUP: the slot is removed, and the slot that takes its place is skipped.
Hangup ==
  /\ At("hangup")
  /\ IF "hup" \in conn[i].seen THEN Drop ELSE UNCHANGED <<tableVars, overrun>>
  /\ NextSlot
  /\ UNCHANGED <<req, Others, channelVars, aliased>>

Server ==
  \/ Poll \/ Scan \/ ReadLength \/ ReadBody \/ Refuse \/ InvokeFails
  \/ Invoke \/ ReplyLength \/ ReplyBody \/ ReplyFails \/ Hangup

Next ==
  \/ Server
  \/ Signal
  \/ \E c \in Client : \/ Connect(c) \/ SendLength(c) \/ SendRequest(c)
                       \/ ReceiveReply(c) \/ ResetArrives(c)
  \/ \E c \in Leaving : Leave(c)

Spec == Init /\ [][Next]_vars

(***************************************************************************)
(* The server's thread keeps running, and a client that has begun to send  *)
(* a request sends the rest of it and takes the reply.  Nobody has to      *)
(* connect, to begin a request or to leave.                                *)
(***************************************************************************)
FairSpec ==
  /\ Spec
  /\ WF_vars(Server)
  /\ \A c \in Client : WF_vars(SendRequest(c)) /\ WF_vars(ReceiveReply(c))

(***************************************************************************)
(* Properties.                                                             *)
(***************************************************************************)
SlotType == [fd : Fd \cup {NoFd}, seen : SUBSET {"in", "hup"}]

TypeOK ==
  /\ conn \in [Slot -> SlotType]
  /\ nfds \in 1 .. NFDESC /\ i \in 1 .. NFDESC + 1
  /\ spc \in {"poll", "scan", "length", "body", "invoke", "reply length",
              "reply body", "hangup", "exit"}
  /\ req \in {"good", "odd", "bad"} /\ interrupt \in BOOLEAN
  /\ open \in [Fd -> Endpoint \cup {Null}]
  /\ backlog \in Seq(Endpoint)
  /\ up \in BOOLEAN /\ aliased \in BOOLEAN /\ overrun \in BOOLEAN
  /\ cpc \in [Endpoint -> {"off", "open", "half", "wait", "gone", "cut"}]
  /\ kind \in [Endpoint -> {"good", "odd", "bad"}]
  /\ inq \in [Endpoint -> 0 .. 2] /\ outq \in [Endpoint -> 0 .. 2]
  /\ rst \in [Endpoint -> {"no", "due", "arrived"}]

\* Every open connection is in exactly one slot in use, and every slot in use
\* that holds a descriptor holds an open one, whatever order slots are given
\* out, removed and moved in; until a network_send fails.
OneSlotEach ==
  ~aliased =>
    /\ \A f \in Fd : open[f] # Null => \E j \in InUse : conn[j].fd = f
    /\ \A j \in InUse : conn[j].fd # NoFd => open[conn[j].fd] # Null
    /\ \A j, k \in InUse : (conn[j].fd = conn[k].fd /\ j # k) => conn[j].fd = NoFd

\* The server reads a connection only if poll found something to read there,
\* although revents of a slot is not reset when the slot is given to another
\* client or another slot is moved into it; so a read of the first half never
\* keeps all other clients waiting.  Until a network_send fails, or a slot is
\* removed while every slot is in use.
ReadsWhatIsReady ==
  (~aliased /\ ~overrun /\ up /\ spc = "length") => Readable(Mine)

\* The reply to a request goes to the client that asked, and to a request that
\* has been read, also where network_send has closed a descriptor that is still
\* in its slot.
RepliesToAsker ==
  /\ \A c \in Endpoint : outq[c] > 0 => cpc[c] \in {"wait", "gone", "cut"}
  /\ spc \in {"invoke", "reply length", "reply body"} =>
       cpc[Peer] \in {"wait", "gone", "cut"} /\ inq[Peer] = 0

\* A client that has sent a request is answered, unless a client leaves, the
\* request is one invoke refuses, all slots are taken or the server is stopped.
WaitingIsServed ==
  \A c \in Client :
    cpc[c] = "wait" ~> \/ cpc[c] # "wait" \/ kind[c] # "good"
                       \/ \E d \in Client : cpc[d] \in {"gone", "cut"}
                       \/ nfds = NFDESC \/ ~interrupt

(***************************************************************************)
(* A property network_server.h states and the code does not have.          *)
(***************************************************************************)

\* network_server.h: the main loop receives a message, hands it to the
\* skeleton and sends the reply to the client.  A client that has sent a good
\* request is answered while the server runs and slots are free, whatever
\* other clients do.
AnswersRequests ==
  \A c \in Client :
    cpc[c] = "wait" ~> cpc[c] # "wait" \/ nfds = NFDESC \/ ~interrupt \/ ~up
=============================================================================

---------------------------- MODULE NetServerProofs ----------------------------
(***************************************************************************)
(* What is proved of the network layer, for every number of clients, slots *)
(* and descriptors: its type invariant, that connections and slots match,  *)
(* that the server reads only where poll found something, and that a reply *)
(* goes to the client whose request was read.                              *)
(***************************************************************************)
EXTENDS NetServer, SetInduction, SequenceTheorems

InSlot == {"length", "body", "invoke", "reply length", "reply body", "hangup"}

\* The main loop is at a slot in use while it works on one, and at most one
\* behind the slot that followed the last one when it has removed a slot.
Position ==
  /\ i <= nfds + 1
  /\ spc \in InSlot => i < nfds

\* How far each client is with its request, as its connection shows it.
Halves ==
  \A c \in Endpoint :
    /\ outq[c] > 0 => inq[c] = 0 /\ cpc[c] \in {"wait", "gone", "cut"}
    /\ cpc[c] \in {"off", "open"} => inq[c] = 0
    /\ cpc[c] = "half" => inq[c] <= 1
    /\ cpc[c] = "cut" => outq[c] > 0
    /\ rst[c] # "no" => cpc[c] \in {"gone", "cut"}

\* How far the server is with the request of the client it serves.
Serving ==
  /\ spc \in {"body", "invoke", "reply length", "reply body"} => Peer \in Endpoint
  /\ spc = "body" =>
       /\ outq[Peer] = 0 /\ inq[Peer] \in {0, 1}
       /\ cpc[Peer] \in {"wait", "gone"} \/ (cpc[Peer] = "half" /\ inq[Peer] = 0)
  /\ spc \in {"invoke", "reply length"} =>
       cpc[Peer] \in {"wait", "gone"} /\ inq[Peer] = 0 /\ outq[Peer] = 0
  /\ spc = "reply body" =>
       cpc[Peer] \in {"wait", "gone", "cut"} /\ inq[Peer] = 0 /\ outq[Peer] = 1

\* A client is connected at most once, and waits for accept or is connected.
ConnectedOnce ==
  /\ \A f, g \in Fd : (open[f] = open[g] /\ open[f] # Null) => f = g
  /\ \A m \in 1 .. Len(backlog), f \in Fd : open[f] # backlog[m]
  /\ \A m, n \in 1 .. Len(backlog) : backlog[m] = backlog[n] => m = n
  /\ \A f \in Fd : open[f] # Null => cpc[open[f]] # "off"
  /\ \A m \in 1 .. Len(backlog) : cpc[backlog[m]] # "off"

\* The slots behind those in use hold no event, until one was copied from
\* behind the array.
BehindBlank == ~overrun => \A j \in Slot : j >= nfds => conn[j].seen = {}

\* Where poll saw something to read there still is, in the slots the scan has
\* not come to.
Ahead(j) == j \in InUse /\ (IF spc \in {"scan", "length"} THEN j >= i ELSE j > i)

StillReady ==
  (~aliased /\ ~overrun /\ spc \notin {"poll", "exit"}) =>
    \A j \in Slot : (Ahead(j) /\ "in" \in conn[j].seen) => Readable(conn[j].fd)

\* A message is read from a slot where poll saw something to read.
ReadWhereSeen == spc = "length" => "in" \in conn[i].seen

NInv ==
  /\ TypeOK /\ Position /\ Halves /\ Serving /\ ConnectedOnce
  /\ OneSlotEach /\ BehindBlank /\ StillReady /\ ReadWhereSeen

(***************************************************************************)
(* Helpers.                                                                *)
(***************************************************************************)

\* The ranges of the numbers.
LEMMA Ranges ==
  ASSUME NetAssumption, TypeOK
  PROVE  /\ NFDESC \in Nat /\ NFDESC > 1
         /\ nfds \in Nat /\ nfds >= 1 /\ nfds <= NFDESC
         /\ i \in Nat /\ i >= 1 /\ i <= NFDESC + 1
<1>1. NFDESC \in Nat /\ NFDESC > 1
  BY DEF NetAssumption
<1>2. nfds \in 1 .. NFDESC /\ i \in 1 .. NFDESC + 1
  BY DEF TypeOK
<1> QED
  BY <1>1, <1>2

\* The descriptor accept returns is one that is free.
LEMMA LowestIsFree ==
  ASSUME NetAssumption, Free # {}
  PROVE  Lowest \in Free /\ Lowest \in Fd /\ Lowest # NoFd /\ open[Lowest] = Null
<1>1. Free \in SUBSET Nat /\ Free \subseteq Fd
  BY DEF NetAssumption, Free
<1>2. \E f \in Free : \A g \in Free : f <= g
  BY <1>1, LeastNat
<1>3. Lowest \in Free
  BY <1>2 DEF Lowest
<1> QED
  BY <1>1, <1>3 DEF Free, NoFd

\* A closed descriptor is free, and the others are as they were.
LEMMA ClosedOne ==
  ASSUME NetAssumption, TypeOK, NEW f \in Fd \cup {NoFd}
  PROVE  /\ Closed(f) \in [Fd -> Endpoint \cup {Null}]
         /\ \A g \in Fd : Closed(f)[g] = IF g = f THEN Null ELSE open[g]
<1>1. NoFd \notin Fd
  BY DEF NetAssumption, NoFd
<1> QED
  BY <1>1 DEF Closed, TypeOK

\* What poll writes into the slots: the events of those in use.
LEMMA PolledSlots ==
  ASSUME NetAssumption, TypeOK
  PROVE  /\ Polled \in [Slot -> SlotType]
         /\ \A j \in Slot : Polled[j].fd = conn[j].fd
         /\ \A j \in Slot : Polled[j].seen = IF j \in InUse THEN Events(conn[j].fd)
                                                           ELSE conn[j].seen
<1>1. \A f : Events(f) \in SUBSET {"in", "hup"}
  BY DEF Events
<1>2. ASSUME NEW j \in Slot
      PROVE  /\ Polled[j] \in SlotType /\ Polled[j].fd = conn[j].fd
             /\ Polled[j].seen = IF j \in InUse THEN Events(conn[j].fd) ELSE conn[j].seen
  <2>1. conn[j] \in SlotType
    BY DEF TypeOK
  <2>2. Polled[j] = IF j \in InUse THEN [conn[j] EXCEPT !.seen = Events(conn[j].fd)]
                                  ELSE conn[j]
    BY DEF Polled
  <2>3. Events(conn[j].fd) \in SUBSET {"in", "hup"}
    BY <1>1
  <2> QED
    BY <2>1, <2>2, <2>3 DEF SlotType
<1>3. Polled = [j \in Slot |-> Polled[j]]
  BY DEF Polled
<1> QED
  BY <1>2, <1>3

\* Accept fills the slot behind those in use with a free descriptor, and
\* connects that descriptor to the client that has waited longest.
LEMMA AcceptFills ==
  ASSUME NetAssumption, TypeOK, Accept
  PROVE  /\ nfds \in Slot /\ nfds' = nfds + 1
         /\ conn' \in [Slot -> SlotType]
         /\ \A j \in Slot : /\ conn'[j].seen = Polled[j].seen
                            /\ conn'[j].fd = IF j = nfds THEN Lowest ELSE conn[j].fd
         /\ Lowest \in Fd /\ open[Lowest] = Null
         /\ open' \in [Fd -> Endpoint \cup {Null}]
         /\ \A f \in Fd : open'[f] = IF f = Lowest THEN backlog[1] ELSE open[f]
         /\ backlog' \in Seq(Endpoint) /\ Len(backlog') = Len(backlog) - 1
         /\ Len(backlog) >= 1 /\ backlog[1] \in Endpoint
         /\ \A m \in 1 .. Len(backlog') : backlog'[m] = backlog[m + 1]
<1>1. Lowest \in Fd /\ open[Lowest] = Null
  BY LowestIsFree DEF Accept
<1>2. nfds \in Slot /\ nfds' = nfds + 1
  BY Ranges DEF Accept, Slot
<1>3. /\ backlog \in Seq(Endpoint) /\ backlog # <<>>
      /\ backlog' = Tail(backlog) /\ open' = [open EXCEPT ![Lowest] = Head(backlog)]
  BY DEF Accept, TypeOK
<1>4. /\ backlog' \in Seq(Endpoint) /\ Len(backlog') = Len(backlog) - 1
      /\ Len(backlog) >= 1 /\ Head(backlog) = backlog[1] /\ backlog[1] \in Endpoint
      /\ \A m \in 1 .. Len(backlog') : backlog'[m] = backlog[m + 1]
  BY <1>3, HeadTailProperties, EmptySeq
<1>5. /\ open' \in [Fd -> Endpoint \cup {Null}]
      /\ \A f \in Fd : open'[f] = IF f = Lowest THEN backlog[1] ELSE open[f]
  BY <1>1, <1>3, <1>4 DEF TypeOK
<1>6. /\ Polled \in [Slot -> SlotType]
      /\ \A j \in Slot : Polled[j].fd = conn[j].fd
  BY PolledSlots
<1>7. conn' = [Polled EXCEPT ![nfds] = [Polled[nfds] EXCEPT !.fd = Lowest]]
  BY <1>2, <1>6 DEF Accept
<1>8. Polled[nfds] \in SlotType
  BY <1>2, <1>6
<1>9. /\ [Polled[nfds] EXCEPT !.fd = Lowest] \in SlotType
      /\ [Polled[nfds] EXCEPT !.fd = Lowest].seen = Polled[nfds].seen
      /\ [Polled[nfds] EXCEPT !.fd = Lowest].fd = Lowest
  BY <1>1, <1>8 DEF SlotType
<1>10. conn' \in [Slot -> SlotType]
  BY <1>2, <1>6, <1>7, <1>9
<1>11. \A j \in Slot : /\ conn'[j].seen = Polled[j].seen
                       /\ conn'[j].fd = IF j = nfds THEN Lowest ELSE conn[j].fd
  BY <1>2, <1>6, <1>7, <1>9
<1> QED
  BY <1>1, <1>2, <1>4, <1>5, <1>10, <1>11

\* Drop removes slot i: those behind it move down by one, and the slots behind
\* the slots in use are as they were.
LEMMA DropShifts ==
  ASSUME NetAssumption, TypeOK, i < nfds, Drop
  PROVE  /\ conn' \in [Slot -> SlotType]
         /\ nfds' = nfds - 1 /\ nfds' \in 1 .. NFDESC - 1
         /\ \A j \in 1 .. nfds - 2 : conn'[j] = IF j < i THEN conn[j] ELSE conn[j + 1]
         /\ \A j \in Slot : j >= nfds => conn'[j] = conn[j]
         /\ nfds # NFDESC => conn'[nfds - 1] = conn[nfds]
         /\ open' \in [Fd -> Endpoint \cup {Null}]
         /\ \A g \in Fd : open'[g] = IF g = Mine THEN Null ELSE open[g]
<1>1. i \in Slot /\ nfds \in 2 .. NFDESC /\ NFDESC \in Nat /\ i \in Nat
  BY Ranges DEF Slot
<1>2. Mine \in Fd \cup {NoFd}
  BY <1>1 DEF TypeOK, SlotType, Mine
<1>3. /\ open' \in [Fd -> Endpoint \cup {Null}]
      /\ \A g \in Fd : open'[g] = IF g = Mine THEN Null ELSE open[g]
  BY <1>2, ClosedOne DEF Drop
<1>4. PICK behind \in [fd : {NoFd}, seen : SUBSET {"in", "hup"}] :
        conn' = [j \in Slot |-> IF j < i \/ j >= nfds THEN conn[j]
                                ELSE IF j + 1 \in Slot THEN conn[j + 1] ELSE behind]
  BY DEF Drop, Shifted
<1>5. behind \in SlotType
  BY DEF SlotType
<1>6. conn' \in [Slot -> SlotType]
  BY <1>4, <1>5 DEF TypeOK
<1>7. /\ \A j \in 1 .. nfds - 2 : conn'[j] = IF j < i THEN conn[j] ELSE conn[j + 1]
      /\ \A j \in Slot : j >= nfds => conn'[j] = conn[j]
      /\ nfds # NFDESC => conn'[nfds - 1] = conn[nfds]
  BY <1>1, <1>4 DEF Slot
<1> QED
  BY <1>1, <1>3, <1>6, <1>7 DEF Drop

\* The client of the slot the loop is at, when it has one.
LEMMA PeerConnected ==
  ASSUME NetAssumption, TypeOK, Peer # Null
  PROVE  Mine \in Fd /\ Peer = open[Mine] /\ Peer \in Endpoint
BY DEF Peer, TypeOK

\* The loop's slot holds a descriptor or none.
LEMMA MineTyped ==
  ASSUME NetAssumption, TypeOK, i < nfds
  PROVE  i \in Slot /\ Mine \in Fd \cup {NoFd} /\ conn[i] \in SlotType
<1>1. i \in Slot
  BY Ranges DEF Slot
<1> QED
  BY <1>1 DEF TypeOK, SlotType, Mine

ClientMoves(c) ==
  \/ Connect(c) \/ SendLength(c) \/ SendRequest(c)
  \/ ReceiveReply(c) \/ ResetArrives(c) \/ Leave(c)

\* A half is read or written, and the loop goes on with the next one.
Reads ==
  /\ up /\ Peer # Null /\ inq[Peer] > 0
  /\ inq' = [inq EXCEPT ![Peer] = @ - 1]
  /\ req' = kind[Peer]
  /\ \/ spc = "length" /\ spc' = "body"
     \/ spc = "body" /\ spc' = "invoke"
  /\ UNCHANGED <<conn, nfds, open, i, interrupt, backlog, up, cpc, kind, outq, rst,
                 aliased, overrun>>

Writes ==
  /\ up /\ Peer # Null /\ rst[Peer] # "arrived"
  /\ outq' = [outq EXCEPT ![Peer] = @ + 1]
  /\ rst' = IF cpc[Peer] = "gone" THEN [rst EXCEPT ![Peer] = "due"] ELSE rst
  /\ \/ spc = "reply length" /\ spc' = "reply body"
     \/ spc = "reply body" /\ spc' = "hangup"
  /\ UNCHANGED <<conn, nfds, open, i, req, interrupt, backlog, up, cpc, kind, inq,
                 aliased, overrun>>

\* The slot is removed because no message comes out of it.
GivesUp == up /\ spc \in {"length", "body", "invoke"} /\ ReceiveFails

\* The steps the proofs tell apart.
LEMMA StepKinds ==
  ASSUME NetAssumption, [Next]_vars
  PROVE  \/ \E c \in Client : ClientMoves(c)
         \/ Poll \/ Scan \/ Reads \/ GivesUp \/ InvokeFails \/ Invoke
         \/ Writes \/ ReplyFails \/ Hangup \/ Signal
         \/ UNCHANGED vars
<1>1. CASE UNCHANGED vars
  BY <1>1
<1>2. ASSUME NEW c \in Leaving, Leave(c)
      PROVE  \E d \in Client : ClientMoves(d)
  BY <1>2 DEF NetAssumption, ClientMoves
<1>3. ASSUME NEW c \in Client, \/ Connect(c) \/ SendLength(c) \/ SendRequest(c)
                               \/ ReceiveReply(c) \/ ResetArrives(c)
      PROVE  \E d \in Client : ClientMoves(d)
  BY <1>3 DEF ClientMoves
<1>4. ReadLength => Reads \/ GivesUp
  BY DEF ReadLength, ReadHalf, At, Goto, Reads, GivesUp, tableVars, Others, clientVars, history
<1>5. ReadBody => Reads \/ GivesUp
  BY DEF ReadBody, ReadHalf, At, Goto, Reads, GivesUp, tableVars, Others, clientVars, history
<1>6. Refuse => GivesUp
  BY DEF Refuse, At, GivesUp
<1>7. ReplyLength => Writes
  BY DEF ReplyLength, WriteHalf, At, Goto, Writes, tableVars, Others, clientVars, history
<1>8. ReplyBody => Writes
  BY DEF ReplyBody, WriteHalf, At, Goto, Writes, tableVars, Others, clientVars, history
<1> QED
  BY <1>1, <1>2, <1>3, <1>4, <1>5, <1>6, <1>7, <1>8 DEF Next, Server

ServerStands == UNCHANGED <<conn, nfds, open, i, spc, req, interrupt, up, aliased, overrun>>

\* A client's step leaves the server and its slots alone, and of the clients
\* only its own state changes.
LEMMA ClientMovesAlone ==
  ASSUME NetAssumption, TypeOK, NEW c \in Client, ClientMoves(c)
  PROVE  /\ ServerStands /\ c \in Endpoint
         /\ cpc' \in [Endpoint -> {"off", "open", "half", "wait", "gone", "cut"}]
         /\ rst' \in [Endpoint -> {"no", "due", "arrived"}]
         /\ kind' \in [Endpoint -> {"good", "odd", "bad"}]
         /\ \A d \in Endpoint : d # c =>
              /\ cpc'[d] = cpc[d] /\ inq'[d] = inq[d]
              /\ outq'[d] = outq[d] /\ rst'[d] = rst[d]
<1>1. c \in Endpoint
  BY DEF Endpoint
<1>2. /\ cpc \in [Endpoint -> {"off", "open", "half", "wait", "gone", "cut"}]
      /\ inq \in [Endpoint -> 0 .. 2] /\ outq \in [Endpoint -> 0 .. 2]
      /\ rst \in [Endpoint -> {"no", "due", "arrived"}]
      /\ kind \in [Endpoint -> {"good", "odd", "bad"}]
  BY DEF TypeOK
<1> DEFINE Alone ==
         /\ ServerStands
         /\ cpc' \in [Endpoint -> {"off", "open", "half", "wait", "gone", "cut"}]
         /\ rst' \in [Endpoint -> {"no", "due", "arrived"}]
         /\ kind' \in [Endpoint -> {"good", "odd", "bad"}]
         /\ \A d \in Endpoint : d # c =>
              /\ cpc'[d] = cpc[d] /\ inq'[d] = inq[d]
              /\ outq'[d] = outq[d] /\ rst'[d] = rst[d]
<1>3. ASSUME Connect(c) PROVE Alone
  BY <1>1, <1>2, <1>3
     DEF Connect, ClientStep, tableVars, history, channelVars, ServerStands
<1>4. ASSUME SendLength(c) PROVE Alone
  BY <1>1, <1>2, <1>4 DEF SendLength, ClientStep, tableVars, history, ServerStands
<1>5. ASSUME SendRequest(c) PROVE Alone
  <2>1. Kind \subseteq {"good", "odd", "bad"}
    BY DEF NetAssumption
  <2>2. kind' \in [Endpoint -> {"good", "odd", "bad"}]
    BY <1>1, <1>2, <1>5, <2>1 DEF SendRequest
  <2> QED
    BY <1>1, <1>2, <1>5, <2>2
       DEF SendRequest, ClientStep, tableVars, history, ServerStands
<1>6. ASSUME ReceiveReply(c) PROVE Alone
  BY <1>1, <1>2, <1>6 DEF ReceiveReply, ClientStep, tableVars, history, ServerStands
<1>7. ASSUME ResetArrives(c) PROVE Alone
  BY <1>1, <1>2, <1>7 DEF ResetArrives, tableVars, history, clientVars, ServerStands
<1>8. ASSUME Leave(c) PROVE Alone
  <2>1. rst' \in [Endpoint -> {"no", "due", "arrived"}]
        /\ \A d \in Endpoint : d # c => rst'[d] = rst[d]
    BY <1>1, <1>2, <1>8 DEF Leave
  <2>2. PICK from \in {"open", "half", "wait"} :
          ClientStep(c, from, IF outq[c] > 0 THEN "cut" ELSE "gone")
    BY <1>8 DEF Leave
  <2> QED
    BY <1>1, <1>2, <1>8, <2>1, <2>2
       DEF Leave, ClientStep, tableVars, history, ServerStands
<1> HIDE DEF Alone
<1>9. Alone
  BY <1>3, <1>4, <1>5, <1>6, <1>7, <1>8 DEF ClientMoves
<1> QED
  BY <1>1, <1>9 DEF Alone

ClientsStand == UNCHANGED <<cpc, kind, inq, outq, rst>>

\* The server reaches the clients only where it reads from one or writes to one.
LEMMA ServerMovesAlone ==
  ASSUME \/ Poll \/ Scan \/ GivesUp \/ InvokeFails \/ Invoke \/ ReplyFails
         \/ Hangup \/ Signal \/ UNCHANGED vars
  PROVE  ClientsStand
<1>1. (Poll \/ Scan \/ Invoke \/ Hangup \/ Signal) => ClientsStand
  BY DEF Poll, Scan, Invoke, Hangup, Signal, Others, clientVars, channelVars, ClientsStand
<1>2. (GivesUp \/ InvokeFails \/ ReplyFails \/ UNCHANGED vars) => ClientsStand
  BY DEF GivesUp, ReceiveFails, InvokeFails, ReplyFails, Others, clientVars, channelVars,
         vars, ClientsStand
<1> QED
  BY <1>1, <1>2

(***************************************************************************)
(* The type invariant.  A queue of halves holds two at most because a      *)
(* client's second half and the server's follow the first.                 *)
(***************************************************************************)
ServerTyped ==
  /\ conn \in [Slot -> SlotType]
  /\ nfds \in 1 .. NFDESC /\ i \in 1 .. NFDESC + 1
  /\ spc \in {"poll", "scan", "length", "body", "invoke", "reply length",
              "reply body", "hangup", "exit"}
  /\ req \in {"good", "odd", "bad"} /\ interrupt \in BOOLEAN
  /\ open \in [Fd -> Endpoint \cup {Null}]
  /\ up \in BOOLEAN /\ aliased \in BOOLEAN /\ overrun \in BOOLEAN

ClientsTyped ==
  /\ backlog \in Seq(Endpoint)
  /\ cpc \in [Endpoint -> {"off", "open", "half", "wait", "gone", "cut"}]
  /\ kind \in [Endpoint -> {"good", "odd", "bad"}]
  /\ inq \in [Endpoint -> 0 .. 2] /\ outq \in [Endpoint -> 0 .. 2]
  /\ rst \in [Endpoint -> {"no", "due", "arrived"}]

LEMMA TypeParts == TypeOK <=> ServerTyped /\ ClientsTyped
BY DEF TypeOK, ServerTyped, ClientsTyped

\* What removing slot i does to the types and to where the loop may be.
LEMMA DropTyped ==
  ASSUME NetAssumption, TypeOK, i < nfds, Drop
  PROVE  /\ conn' \in [Slot -> SlotType] /\ nfds' \in 1 .. NFDESC
         /\ open' \in [Fd -> Endpoint \cup {Null}] /\ overrun' \in BOOLEAN
<1>1. overrun' \in BOOLEAN
  BY DEF Drop, TypeOK
<1>2. nfds' \in 1 .. NFDESC
  BY DropShifts, Ranges
<1> QED
  BY <1>1, <1>2, DropShifts

LEMMA ServerTypedNext ==
  ASSUME NetAssumption, TypeOK, Position, [Next]_vars
  PROVE  ServerTyped'
<1> USE DEF ServerTyped
<1>0. ServerTyped /\ (spc \in InSlot => i < nfds)
  BY TypeParts DEF Position
<1>1. ASSUME NEW c \in Client, ClientMoves(c) PROVE ServerTyped'
  BY <1>0, <1>1, ClientMovesAlone DEF ServerStands
<1>2. ASSUME Poll PROVE ServerTyped'
  <2>1. ASSUME Accept PROVE /\ conn' \in [Slot -> SlotType] /\ nfds' \in 1 .. NFDESC
                            /\ open' \in [Fd -> Endpoint \cup {Null}]
    BY <2>1, AcceptFills, Ranges DEF Slot
  <2>2. ASSUME AcceptNone PROVE /\ conn' \in [Slot -> SlotType] /\ nfds' \in 1 .. NFDESC
                                /\ open' \in [Fd -> Endpoint \cup {Null}]
    BY <1>0, <2>2, PolledSlots DEF AcceptNone
  <2>3. 1 \in 1 .. NFDESC + 1
    BY Ranges
  <2> QED
    BY <1>0, <1>2, <2>1, <2>2, <2>3 DEF Poll, history
<1>3. ASSUME Scan PROVE ServerTyped'
  BY <1>0, <1>3 DEF Scan, Goto, tableVars, Others, history
<1>4. ASSUME Reads PROVE ServerTyped'
  <2>1. kind[Peer] \in {"good", "odd", "bad"}
    BY <1>4, PeerConnected DEF Reads, TypeOK
  <2> QED
    BY <1>0, <1>4, <2>1 DEF Reads
<1>5. ASSUME GivesUp PROVE ServerTyped'
  <2>1. i < nfds
    BY <1>0, <1>5 DEF GivesUp, InSlot
  <2> QED
    BY <1>0, <1>5, <2>1, DropTyped DEF GivesUp, ReceiveFails, Goto, Others
<1>6. ASSUME Writes PROVE ServerTyped'
  BY <1>0, <1>6 DEF Writes
<1>7. ASSUME InvokeFails PROVE ServerTyped'
  <2>1. i < nfds
    BY <1>0, <1>7 DEF InvokeFails, At, InSlot
  <2>2. open' \in [Fd -> Endpoint \cup {Null}]
    BY <1>7, <2>1, MineTyped, ClosedOne DEF InvokeFails
  <2>3. conn' \in [Slot -> SlotType]
    <3>1. [conn[i] EXCEPT !.fd = NoFd] \in SlotType
      BY <2>1, MineTyped DEF SlotType
    <3> QED
      BY <1>0, <1>7, <2>1, <3>1, MineTyped DEF InvokeFails
  <2>4. i + 1 \in 1 .. NFDESC + 1
    BY <2>1, Ranges
  <2> QED
    BY <1>0, <1>7, <2>2, <2>3, <2>4 DEF InvokeFails, NextSlot, Others, history
<1>8. ASSUME Invoke PROVE ServerTyped'
  BY <1>0, <1>8 DEF Invoke, Goto, tableVars, Others, history
<1>9. ASSUME ReplyFails PROVE ServerTyped'
  <2>1. i < nfds
    BY <1>0, <1>9 DEF ReplyFails, At, InSlot
  <2>2. open' \in [Fd -> Endpoint \cup {Null}]
    BY <1>9, <2>1, MineTyped, ClosedOne DEF ReplyFails
  <2> QED
    BY <1>0, <1>9, <2>2 DEF ReplyFails, Goto
<1>10. ASSUME Hangup PROVE ServerTyped'
  <2>1. i < nfds
    BY <1>0, <1>10 DEF Hangup, At, InSlot
  <2>2. /\ conn' \in [Slot -> SlotType] /\ nfds' \in 1 .. NFDESC
        /\ open' \in [Fd -> Endpoint \cup {Null}] /\ overrun' \in BOOLEAN
    BY <1>0, <1>10, <2>1, DropTyped DEF Hangup, tableVars
  <2>3. i + 1 \in 1 .. NFDESC + 1
    BY <2>1, Ranges
  <2> QED
    BY <1>0, <1>10, <2>2, <2>3 DEF Hangup, NextSlot, Others
<1>11. ASSUME Signal PROVE ServerTyped'
  BY <1>0, <1>11 DEF Signal, tableVars, history
<1>12. ASSUME UNCHANGED vars PROVE ServerTyped'
  BY <1>0, <1>12 DEF vars, tableVars, history
<1> HIDE DEF ServerTyped
<1> QED
  BY <1>1, <1>2, <1>3, <1>4, <1>5, <1>6, <1>7, <1>8, <1>9, <1>10, <1>11, <1>12, StepKinds

(***************************************************************************)
(* The clients: how far each one is with its request.                      *)
(***************************************************************************)
LEMMA ClientHalves ==
  ASSUME NetAssumption, TypeOK, Halves, NEW c \in Client, ClientMoves(c)
  PROVE  /\ Halves'
         /\ inq' \in [Endpoint -> 0 .. 2] /\ outq' \in [Endpoint -> 0 .. 2]
<1>1. /\ cpc \in [Endpoint -> {"off", "open", "half", "wait", "gone", "cut"}]
      /\ inq \in [Endpoint -> 0 .. 2] /\ outq \in [Endpoint -> 0 .. 2]
      /\ rst \in [Endpoint -> {"no", "due", "arrived"}] /\ c \in Endpoint
  BY DEF TypeOK, Endpoint
<1> DEFINE Of(d) == /\ outq'[d] > 0 => inq'[d] = 0 /\ cpc'[d] \in {"wait", "gone", "cut"}
                    /\ cpc'[d] \in {"off", "open"} => inq'[d] = 0
                    /\ cpc'[d] = "half" => inq'[d] <= 1
                    /\ cpc'[d] = "cut" => outq'[d] > 0
                    /\ rst'[d] # "no" => cpc'[d] \in {"gone", "cut"}
           Kept == /\ Of(c)
                   /\ inq' \in [Endpoint -> 0 .. 2] /\ outq' \in [Endpoint -> 0 .. 2]
<1>2. ASSUME Connect(c) PROVE Kept
  BY <1>1, <1>2 DEF Connect, ClientStep, channelVars, Halves
<1>3. ASSUME SendLength(c) PROVE Kept
  BY <1>1, <1>3 DEF SendLength, ClientStep, Halves
<1>4. ASSUME SendRequest(c) PROVE Kept
  BY <1>1, <1>4 DEF SendRequest, ClientStep, Halves
<1>5. ASSUME ReceiveReply(c) PROVE Kept
  BY <1>1, <1>5 DEF ReceiveReply, ClientStep, Halves
<1>6. ASSUME ResetArrives(c) PROVE Kept
  BY <1>1, <1>6 DEF ResetArrives, clientVars, Halves
<1>7. ASSUME Leave(c) PROVE Kept
  <2>1. PICK from \in {"open", "half", "wait"} :
          ClientStep(c, from, IF outq[c] > 0 THEN "cut" ELSE "gone")
    BY <1>7 DEF Leave
  <2>2. cpc'[c] = (IF outq[c] > 0 THEN "cut" ELSE "gone") /\ UNCHANGED <<inq, outq>>
    BY <1>1, <1>7, <2>1 DEF Leave, ClientStep
  <2> QED
    BY <1>1, <2>2 DEF Halves
<1> HIDE DEF Of
<1>8. Kept
  BY <1>2, <1>3, <1>4, <1>5, <1>6, <1>7 DEF ClientMoves
<1>9. ASSUME NEW d \in Endpoint, d # c PROVE Of(d)
  BY <1>9, ClientMovesAlone DEF Of, Halves
<1>10. \A d \in Endpoint : Of(d)
  BY <1>8, <1>9
<1> QED
  BY <1>8, <1>10 DEF Of, Halves

\* Connect appends to backlog, and accept takes its first client.
LEMMA ClientsTypedNext ==
  ASSUME NetAssumption, TypeOK, Halves, Serving, [Next]_vars
  PROVE  ClientsTyped' /\ Halves'
<1> USE DEF ClientsTyped
<1>0. ClientsTyped
  BY TypeParts
<1>1. ASSUME NEW c \in Client, ClientMoves(c) PROVE ClientsTyped' /\ Halves'
  <2>1. backlog' \in Seq(Endpoint)
    <3>1. ASSUME Connect(c) PROVE backlog' \in Seq(Endpoint)
      BY <1>0, <3>1, AppendProperties, ClientMovesAlone, <1>1 DEF Connect
    <3>2. ~Connect(c) => UNCHANGED backlog
      BY <1>1 DEF ClientMoves, SendLength, SendRequest, ReceiveReply, ResetArrives, Leave
    <3> QED
      BY <1>0, <3>1, <3>2
  <2> QED
    BY <1>1, <2>1, ClientHalves, ClientMovesAlone
<1>2. ASSUME Reads PROVE ClientsTyped' /\ Halves'
  <2>1. Peer \in Endpoint
    BY <1>2, PeerConnected DEF Reads
  <2> DEFINE p == Peer
  <2> HIDE DEF p
  <2>2. /\ p \in Endpoint /\ inq[p] > 0 /\ inq' = [inq EXCEPT ![p] = @ - 1]
        /\ UNCHANGED <<backlog, cpc, kind, outq, rst>>
    BY <1>2, <2>1 DEF Reads, p
  <2> QED
    BY <1>0, <2>2 DEF Halves
<1>3. ASSUME Writes PROVE ClientsTyped' /\ Halves'
  <2>1. Peer \in Endpoint
    BY <1>3, PeerConnected DEF Writes
  <2> DEFINE p == Peer
  <2>2. cpc[p] \in {"wait", "gone", "cut"} /\ inq[p] = 0 /\ outq[p] \in {0, 1}
    BY <1>3 DEF Serving, Writes
  <2> HIDE DEF p
  <2>3. /\ p \in Endpoint /\ outq' = [outq EXCEPT ![p] = @ + 1]
        /\ rst' = IF cpc[p] = "gone" THEN [rst EXCEPT ![p] = "due"] ELSE rst
        /\ UNCHANGED <<backlog, cpc, kind, inq>>
    BY <1>3, <2>1 DEF Writes, p
  <2> QED
    BY <1>0, <2>2, <2>3 DEF Halves
<1>4. ASSUME \/ Poll \/ Scan \/ GivesUp \/ InvokeFails \/ Invoke \/ ReplyFails
             \/ Hangup \/ Signal \/ UNCHANGED vars
      PROVE  ClientsTyped' /\ Halves'
  <2>1. Poll => backlog' \in Seq(Endpoint)
    BY <1>0, AcceptFills DEF Poll, AcceptNone
  <2>2. ~Poll => UNCHANGED backlog
    BY <1>4 DEF Scan, GivesUp, ReceiveFails, InvokeFails, Invoke, ReplyFails, Hangup, Signal,
                Others, vars
  <2>3. backlog' \in Seq(Endpoint)
    BY <1>0, <2>1, <2>2
  <2>4. ClientsStand
    BY <1>4, ServerMovesAlone
  <2> QED
    BY <1>0, <2>3, <2>4 DEF ClientsStand, Halves
<1> HIDE DEF ClientsTyped
<1> QED
  BY <1>1, <1>2, <1>3, <1>4, StepKinds

(***************************************************************************)
(* The loop: where it is, and the client it serves.                        *)
(***************************************************************************)
LEMMA PositionNext ==
  ASSUME NetAssumption, TypeOK, Position, [Next]_vars
  PROVE  Position'
<1>1. /\ nfds \in Nat /\ nfds >= 1 /\ i \in Nat /\ i >= 1
      /\ i <= nfds + 1 /\ (spc \in InSlot => i < nfds)
  BY Ranges DEF Position
<1>2. ASSUME NEW c \in Client, ClientMoves(c) PROVE Position'
  BY <1>1, <1>2, ClientMovesAlone DEF ServerStands, Position
<1>3. ASSUME Poll PROVE Position'
  <2>1. i' = 1 /\ spc' = "scan"
    BY <1>3 DEF Poll
  <2>2. nfds' = nfds + 1 \/ nfds' = nfds
    BY <1>3 DEF Poll, Accept, AcceptNone
  <2>3. spc' \notin InSlot
    BY <2>1 DEF InSlot
  <2> QED
    BY <1>1, <2>1, <2>2, <2>3 DEF Position
<1>4. ASSUME Reads \/ Writes PROVE Position'
  <2>1. spc \in InSlot /\ UNCHANGED <<nfds, i>>
    BY <1>4 DEF Reads, Writes, InSlot
  <2> QED
    BY <1>1, <2>1 DEF Position
<1>5. ASSUME GivesUp PROVE Position'
  <2>1. spc \in InSlot /\ spc' = "scan" /\ i' = i /\ nfds' = nfds - 1
    BY <1>5 DEF GivesUp, ReceiveFails, Drop, Goto, InSlot
  <2>2. spc' \notin InSlot
    BY <2>1 DEF InSlot
  <2> QED
    BY <1>1, <2>1, <2>2 DEF Position
<1>6. ASSUME InvokeFails PROVE Position'
  <2>1. spc \in InSlot /\ spc' = "scan" /\ i' = i + 1 /\ nfds' = nfds
    BY <1>6 DEF InvokeFails, At, NextSlot, InSlot
  <2>2. spc' \notin InSlot
    BY <2>1 DEF InSlot
  <2> QED
    BY <1>1, <2>1, <2>2 DEF Position
<1>7. ASSUME ReplyFails PROVE Position'
  <2>1. spc \in InSlot /\ i' = i /\ nfds' = nfds
    BY <1>7 DEF ReplyFails, At, Goto, InSlot
  <2> QED
    BY <1>1, <2>1 DEF Position
<1>8. ASSUME Hangup PROVE Position'
  <2>1. spc \in InSlot /\ spc' = "scan" /\ i' = i + 1
    BY <1>8 DEF Hangup, At, NextSlot, InSlot
  <2>2. nfds' = nfds - 1 \/ nfds' = nfds
    BY <1>8 DEF Hangup, Drop, tableVars
  <2>3. spc' \notin InSlot
    BY <2>1 DEF InSlot
  <2> QED
    BY <1>1, <2>1, <2>2, <2>3 DEF Position
<1>9. ASSUME Scan PROVE Position'
  <2>1. /\ UNCHANGED <<i, nfds>> /\ (i < nfds \/ spc' = "poll")
    BY <1>1, <1>9 DEF Scan, Goto, tableVars
  <2>2. spc' = "poll" => spc' \notin InSlot
    BY DEF InSlot
  <2> QED
    BY <1>1, <2>1, <2>2 DEF Position
<1>10. ASSUME Invoke \/ Signal \/ UNCHANGED vars PROVE Position'
  <2>1. UNCHANGED <<i, nfds>>
    BY <1>10 DEF Invoke, Goto, Signal, vars, tableVars
  <2>2. spc' = spc \/ spc' \notin InSlot \/ spc \in InSlot
    BY <1>10 DEF Invoke, At, Signal, vars, InSlot
  <2> QED
    BY <1>1, <2>1, <2>2 DEF Position
<1> QED
  BY <1>2, <1>3, <1>4, <1>5, <1>6, <1>7, <1>8, <1>9, <1>10, StepKinds

Busy == {"body", "invoke", "reply length", "reply body"}

\* Where a client is, and the halves sent either way, while it is served.
Stage(pc, at, sent, got) ==
  /\ pc = "body" =>
       got = 0 /\ sent \in {0, 1} /\ (at \in {"wait", "gone"} \/ (at = "half" /\ sent = 0))
  /\ pc \in {"invoke", "reply length"} => at \in {"wait", "gone"} /\ sent = 0 /\ got = 0
  /\ pc = "reply body" => at \in {"wait", "gone", "cut"} /\ sent = 0 /\ got = 1

LEMMA ServingStage ==
  /\ Serving <=> /\ spc \in Busy => Peer \in Endpoint
                 /\ Stage(spc, cpc[Peer], inq[Peer], outq[Peer])
  /\ Serving' <=> /\ spc' \in Busy => Peer' \in Endpoint
                  /\ Stage(spc', cpc'[Peer'], inq'[Peer'], outq'[Peer'])
BY DEF Serving, Stage, Busy

\* A client does not leave the state in which the server serves it, except for
\* sending the rest of its request or closing its connection.
LEMMA StageKept ==
  ASSUME NetAssumption, TypeOK, NEW c \in Client, ClientMoves(c),
         NEW pc \in Busy, Stage(pc, cpc[c], inq[c], outq[c])
  PROVE  Stage(pc, cpc'[c], inq'[c], outq'[c])
<1>1. /\ cpc \in [Endpoint -> {"off", "open", "half", "wait", "gone", "cut"}]
      /\ inq \in [Endpoint -> 0 .. 2] /\ outq \in [Endpoint -> 0 .. 2] /\ c \in Endpoint
  BY DEF TypeOK, Endpoint
<1>2. cpc[c] \in {"half", "wait", "gone", "cut"} /\ outq[c] \in {0, 1}
  BY DEF Stage, Busy
<1>3. ASSUME Connect(c) \/ SendLength(c) \/ ReceiveReply(c) PROVE FALSE
  <2>1. cpc[c] \in {"off", "open"} \/ outq[c] = 2
    BY <1>3 DEF Connect, SendLength, ReceiveReply, ClientStep
  <2>2. outq[c] # 2
    BY <1>2
  <2>3. cpc[c] \notin {"off", "open"}
    BY <1>2
  <2> QED
    BY <2>1, <2>2, <2>3
<1>4. ASSUME SendRequest(c) PROVE Stage(pc, cpc'[c], inq'[c], outq'[c])
  <2>1. cpc[c] = "half" /\ cpc'[c] = "wait" /\ inq'[c] = inq[c] + 1 /\ outq'[c] = outq[c]
    BY <1>1, <1>4 DEF SendRequest, ClientStep
  <2>2. pc = "body" /\ inq[c] = 0 /\ outq[c] = 0
    BY <2>1 DEF Stage, Busy
  <2>3. inq'[c] = 1 /\ outq'[c] = 0
    BY <2>1, <2>2
  <2> QED
    BY <2>1, <2>2, <2>3 DEF Stage
<1>5. ASSUME ResetArrives(c) PROVE Stage(pc, cpc'[c], inq'[c], outq'[c])
  BY <1>5 DEF ResetArrives, clientVars
<1>6. ASSUME Leave(c) PROVE Stage(pc, cpc'[c], inq'[c], outq'[c])
  <2>1. PICK from \in {"open", "half", "wait"} :
          ClientStep(c, from, IF outq[c] > 0 THEN "cut" ELSE "gone")
    BY <1>6 DEF Leave
  <2>2. /\ UNCHANGED <<inq, outq>>
        /\ cpc'[c] = IF outq[c] > 0 THEN "cut" ELSE "gone"
    BY <1>1, <1>6, <2>1 DEF Leave, ClientStep
  <2>3. /\ outq[c] = 0 => cpc'[c] = "gone"
        /\ outq[c] = 1 => cpc'[c] = "cut"
    BY <2>2
  <2>4. \/ pc = "body" /\ outq[c] = 0 /\ inq[c] \in {0, 1}
        \/ pc \in {"invoke", "reply length"} /\ outq[c] = 0 /\ inq[c] = 0
        \/ pc = "reply body" /\ outq[c] = 1 /\ inq[c] = 0
    BY DEF Stage, Busy
  <2> QED
    BY <2>2, <2>3, <2>4 DEF Stage
<1> QED
  BY <1>3, <1>4, <1>5, <1>6 DEF ClientMoves

LEMMA ServingNext ==
  ASSUME NetAssumption, TypeOK, Halves, Serving, [Next]_vars
  PROVE  Serving'
<1>1. ASSUME NEW c \in Client, ClientMoves(c) PROVE Serving'
  <2>1. UNCHANGED <<spc, Peer>>
    BY <1>1, ClientMovesAlone DEF ServerStands, Peer, Mine
  <2>2. CASE spc \notin Busy
    BY <2>1, <2>2, ServingStage DEF Stage, Busy
  <2>3. CASE spc \in Busy /\ Peer # c
    <3>1. Peer \in Endpoint /\ Stage(spc, cpc[Peer], inq[Peer], outq[Peer])
      BY <2>3, ServingStage
    <3>2. cpc'[Peer] = cpc[Peer] /\ inq'[Peer] = inq[Peer] /\ outq'[Peer] = outq[Peer]
      BY <1>1, <2>3, <3>1, ClientMovesAlone
    <3> QED
      BY <2>1, <3>1, <3>2, ServingStage
  <2>4. CASE spc \in Busy /\ Peer = c
    <3>1. Peer \in Endpoint /\ Stage(spc, cpc[c], inq[c], outq[c])
      BY <2>4, ServingStage
    <3>2. Stage(spc, cpc'[c], inq'[c], outq'[c])
      BY <1>1, <2>4, <3>1, StageKept
    <3> QED
      BY <2>1, <2>4, <3>1, <3>2, ServingStage
  <2> QED
    BY <2>2, <2>3, <2>4
<1>2. ASSUME Reads PROVE Serving'
  <2>1. Peer' = Peer /\ Peer \in Endpoint
    BY <1>2, PeerConnected DEF Reads, Peer, Mine
  <2> DEFINE at == cpc[Peer]
             sent == inq[Peer]
             got == outq[Peer]
  <2>2. /\ at \in {"off", "open", "half", "wait", "gone", "cut"}
        /\ sent \in 0 .. 2 /\ got \in 0 .. 2
    BY <2>1 DEF TypeOK
  <2>3. /\ got > 0 => sent = 0
        /\ at \in {"off", "open"} => sent = 0
        /\ at = "half" => sent <= 1
        /\ at = "cut" => got > 0
    BY <2>1 DEF Halves
  <2>4. /\ inq' = [inq EXCEPT ![Peer] = @ - 1] /\ sent > 0
        /\ UNCHANGED <<cpc, outq>>
    BY <1>2 DEF Reads
  <2>5. inq'[Peer] = sent - 1
    BY <2>1, <2>4 DEF TypeOK
  <2>6. \/ spc = "length" /\ spc' = "body"
        \/ spc = "body" /\ spc' = "invoke"
    BY <1>2 DEF Reads
  <2>7. Stage(spc, at, sent, got)
    BY ServingStage
  <2> DEFINE rest == sent - 1
  <2> HIDE DEF at, sent, got
  <2>8. /\ got = 0
        /\ (sent = 1 /\ rest = 0) \/ (sent = 2 /\ rest = 1)
        /\ at = "half" => sent = 1
        /\ at # "cut"
    BY <2>2, <2>3, <2>4
  <2>9. at \notin {"off", "open"}
    BY <2>2, <2>3, <2>4
  <2>10. ~(sent = 2 /\ sent \in {0, 1}) /\ ~(sent = 1 /\ sent = 0)
    OBVIOUS
  <2> HIDE DEF rest
  <2>11. at \in {"half", "wait", "gone"}
    BY <2>2, <2>8, <2>9
  <2>12. spc = "length" => Stage("body", at, rest, got)
    BY <2>8, <2>10, <2>11 DEF Stage
  <2>13. spc = "body" => Stage("invoke", at, rest, got)
    BY <2>7, <2>8, <2>10 DEF Stage
  <2>14. Stage(spc', at, rest, got)
    BY <2>6, <2>12, <2>13
  <2> QED
    BY <2>1, <2>4, <2>5, <2>14, ServingStage DEF at, got, rest
<1>3. ASSUME Writes PROVE Serving'
  <2>1. Peer' = Peer /\ Peer \in Endpoint
    BY <1>3, PeerConnected DEF Writes, Peer, Mine
  <2>2. outq' = [outq EXCEPT ![Peer] = @ + 1] /\ UNCHANGED <<cpc, inq>>
    BY <1>3 DEF Writes
  <2>3. \/ spc = "reply length" /\ spc' = "reply body"
        \/ spc' = "hangup"
    BY <1>3 DEF Writes
  <2>4. outq'[Peer] = outq[Peer] + 1
    BY <2>1, <2>2 DEF TypeOK
  <2>5. Stage(spc, cpc[Peer], inq[Peer], outq[Peer])
    BY ServingStage
  <2>6. spc = "reply length" => outq[Peer] = 0
    BY <2>5 DEF Stage
  <2>7. outq[Peer] = 0 => outq[Peer] + 1 = 1
    OBVIOUS
  <2> DEFINE got == outq[Peer] + 1
  <2>8. Stage(spc', cpc[Peer], inq[Peer], got)
    <3>1. spc = "reply length" => got = 1
      BY <2>6, <2>7
    <3> HIDE DEF got
    <3> QED
      BY <2>3, <2>5, <3>1 DEF Stage
  <2> QED
    BY <2>1, <2>2, <2>4, <2>8, ServingStage
<1>4. ASSUME Invoke \/ Signal \/ UNCHANGED vars PROVE Serving'
  <2>1. UNCHANGED <<cpc, inq, outq, Peer>>
    BY <1>4 DEF Invoke, Goto, Signal, vars, tableVars, Others, clientVars, channelVars,
                Peer, Mine
  <2>2. spc' = spc \/ (spc = "invoke" /\ spc' = "reply length") \/ spc' = "exit"
    BY <1>4 DEF Invoke, At, Goto, Signal, vars
  <2>3. (spc' \in Busy => spc \in Busy)
        /\ (Stage(spc, cpc[Peer], inq[Peer], outq[Peer])
              => Stage(spc', cpc[Peer], inq[Peer], outq[Peer]))
    BY <2>2 DEF Stage, Busy
  <2> QED
    BY <2>1, <2>3, ServingStage
<1>5. ASSUME Poll \/ GivesUp \/ InvokeFails \/ ReplyFails \/ Hangup \/ Scan PROVE Serving'
  <2>1. spc' \in {"scan", "hangup", "poll", "length"}
    BY <1>5 DEF Poll, GivesUp, ReceiveFails, InvokeFails, ReplyFails, Hangup, Scan, Goto, NextSlot
  <2> QED
    BY <2>1 DEF Serving
<1> QED
  BY <1>1, <1>2, <1>3, <1>4, <1>5, StepKinds

(***************************************************************************)
(* Connections and backlog: a client is in one of them, once.              *)
(***************************************************************************)

\* A client that has connected never goes back to where it had not.
LEMMA StaysConnected ==
  ASSUME NetAssumption, TypeOK, NEW c \in Client, ClientMoves(c),
         NEW d \in Endpoint, cpc[d] # "off"
  PROVE  cpc'[d] # "off"
<1>1. CASE d # c
  BY <1>1, ClientMovesAlone
<1>2. CASE d = c
  <2>1. cpc \in [Endpoint -> {"off", "open", "half", "wait", "gone", "cut"}]
    BY DEF TypeOK
  <2>2. ASSUME NEW from, NEW to \in {"open", "half", "wait", "gone", "cut"},
               ClientStep(c, from, to)
        PROVE  cpc'[c] # "off"
    <3>1. cpc'[c] = to
      BY <1>2, <2>1, <2>2 DEF ClientStep
    <3> QED
      BY <3>1
  <2>3. (Connect(c) \/ ReceiveReply(c)) => cpc'[c] # "off"
    BY <2>2 DEF Connect, ReceiveReply
  <2>4. (SendLength(c) \/ SendRequest(c)) => cpc'[c] # "off"
    BY <2>2 DEF SendLength, SendRequest
  <2>5. ResetArrives(c) => cpc'[c] # "off"
    BY <1>2 DEF ResetArrives, clientVars
  <2>6. Leave(c) => cpc'[c] # "off"
    BY <2>2 DEF Leave
  <2> QED
    BY <1>2, <2>3, <2>4, <2>5, <2>6 DEF ClientMoves
<1> QED
  BY <1>1, <1>2

LEMMA BacklogTyped ==
  ASSUME NetAssumption, TypeOK
  PROVE  /\ backlog \in Seq(Endpoint) /\ Len(backlog) \in Nat
         /\ \A m \in 1 .. Len(backlog) : backlog[m] \in Endpoint
         /\ Null \notin Endpoint
<1>1. backlog \in Seq(Endpoint)
  BY DEF TypeOK
<1>2. Null \notin Endpoint
  BY DEF NetAssumption, Endpoint
<1> QED
  BY <1>1, <1>2

\* Closing descriptors keeps it.
LEMMA ConnectedOnceClosing ==
  ASSUME NetAssumption, TypeOK, ConnectedOnce, UNCHANGED <<backlog, cpc>>,
         \A g \in Fd : open'[g] \in {Null, open[g]}
  PROVE  ConnectedOnce'
<1>1. /\ \A m \in 1 .. Len(backlog) : backlog[m] \in Endpoint
      /\ Null \notin Endpoint
  BY BacklogTyped
<1>2. \A f, g \in Fd : (open'[f] = open'[g] /\ open'[f] # Null) => f = g
  BY DEF ConnectedOnce
<1>3. \A m \in 1 .. Len(backlog), f \in Fd : open'[f] # backlog[m]
  BY <1>1 DEF ConnectedOnce
<1>4. \A f \in Fd : open'[f] # Null => cpc[open'[f]] # "off"
  BY DEF ConnectedOnce
<1> QED
  BY <1>2, <1>3, <1>4 DEF ConnectedOnce

\* What the loop's steps do to the descriptors that are open.
LEMMA ClosesOnly ==
  ASSUME NetAssumption, TypeOK, Position,
         GivesUp \/ InvokeFails \/ ReplyFails \/ Hangup
  PROVE  \A g \in Fd : open'[g] = open[g] \/ (g = Mine /\ open'[g] = Null)
<1>1. i < nfds
  BY DEF Position, InSlot, GivesUp, InvokeFails, ReplyFails, Hangup, At
<1>2. GivesUp => Drop
  BY DEF GivesUp, ReceiveFails
<1>3. Hangup => Drop \/ UNCHANGED open
  BY DEF Hangup, tableVars
<1>4. Drop => \A g \in Fd : open'[g] = open[g] \/ (g = Mine /\ open'[g] = Null)
  BY <1>1, DropShifts
<1>5. (InvokeFails \/ ReplyFails) => open' = Closed(Mine)
  BY DEF InvokeFails, ReplyFails
<1>6. \A g \in Fd : Closed(Mine)[g] = IF g = Mine THEN Null ELSE open[g]
  BY <1>1, MineTyped, ClosedOne
<1> QED
  BY <1>2, <1>3, <1>4, <1>5, <1>6

LEMMA ConnectedOnceNext ==
  ASSUME NetAssumption, TypeOK, Position, ConnectedOnce, [Next]_vars
  PROVE  ConnectedOnce'
<1>1. /\ backlog \in Seq(Endpoint) /\ Len(backlog) \in Nat
      /\ \A m \in 1 .. Len(backlog) : backlog[m] \in Endpoint
      /\ open \in [Fd -> Endpoint \cup {Null}] /\ Null \notin Endpoint
      /\ cpc \in [Endpoint -> {"off", "open", "half", "wait", "gone", "cut"}]
  BY BacklogTyped DEF TypeOK
<1>2. ASSUME NEW c \in Client, ClientMoves(c) PROVE ConnectedOnce'
  <2>1. UNCHANGED open /\ c \in Endpoint
    BY <1>2, ClientMovesAlone DEF ServerStands
  <2>2. \A d \in Endpoint : cpc[d] # "off" => cpc'[d] # "off"
    BY <1>2, StaysConnected
  <2>3. CASE Connect(c)
    <3>1. /\ Len(backlog') = Len(backlog) + 1
          /\ \A m \in 1 .. Len(backlog) : backlog'[m] = backlog[m]
          /\ backlog'[Len(backlog) + 1] = c
      BY <1>1, <2>1, <2>3, AppendProperties DEF Connect
    <3>2. cpc[c] = "off" /\ cpc'[c] = "open"
      BY <1>1, <2>1, <2>3 DEF Connect, ClientStep
    <3>3. /\ \A m \in 1 .. Len(backlog) : backlog[m] # c
          /\ \A f \in Fd : open[f] # c
      BY <1>1, <2>1, <3>2 DEF ConnectedOnce
    <3>4. ASSUME NEW m \in 1 .. Len(backlog') PROVE m \in 1 .. Len(backlog) \/ m = Len(backlog) + 1
      BY <1>1, <3>1
    <3>5. \A m \in 1 .. Len(backlog'), f \in Fd : open'[f] # backlog'[m]
      BY <2>1, <3>1, <3>3, <3>4 DEF ConnectedOnce
    <3>6. ASSUME NEW m \in 1 .. Len(backlog'), NEW n \in 1 .. Len(backlog'), backlog'[m] = backlog'[n]
          PROVE  m = n
      BY <3>1, <3>3, <3>4, <3>6 DEF ConnectedOnce
    <3>7. \A m \in 1 .. Len(backlog') : cpc'[backlog'[m]] # "off"
      BY <1>1, <2>2, <3>1, <3>2, <3>4 DEF ConnectedOnce
    <3>8. \A f \in Fd : open'[f] # Null => cpc'[open'[f]] # "off"
      BY <1>1, <2>1, <2>2 DEF ConnectedOnce
    <3> QED
      BY <2>1, <3>5, <3>6, <3>7, <3>8 DEF ConnectedOnce
  <2>4. CASE ~Connect(c)
    <3>1. UNCHANGED backlog
      BY <1>2, <2>4 DEF ClientMoves, SendLength, SendRequest, ReceiveReply, ResetArrives, Leave
    <3>2. \A f \in Fd : open[f] # Null => cpc'[open[f]] # "off"
      BY <1>1, <2>2 DEF ConnectedOnce
    <3>3. \A m \in 1 .. Len(backlog) : cpc'[backlog[m]] # "off"
      BY <1>1, <2>2 DEF ConnectedOnce
    <3> QED
      BY <2>1, <3>1, <3>2, <3>3 DEF ConnectedOnce
  <2> QED
    BY <2>3, <2>4
<1>3. ASSUME Poll, Accept PROVE ConnectedOnce'
  <2>1. /\ \A f \in Fd : open'[f] = IF f = Lowest THEN backlog[1] ELSE open[f]
        /\ Len(backlog') = Len(backlog) - 1 /\ Len(backlog) >= 1
        /\ \A m \in 1 .. Len(backlog') : backlog'[m] = backlog[m + 1]
        /\ 1 \in 1 .. Len(backlog) /\ backlog[1] \in Endpoint
        /\ UNCHANGED cpc
    BY <1>1, <1>3, AcceptFills DEF Poll, clientVars
  <2>2. \A m \in 1 .. Len(backlog') : m + 1 \in 1 .. Len(backlog) /\ m + 1 # 1
    BY <1>1, <2>1
  <2>3. ASSUME NEW f \in Fd, NEW g \in Fd, open'[f] = open'[g], open'[f] # Null
        PROVE  f = g
    <3>1. \A h \in Fd : open[h] # backlog[1]
      BY <2>1 DEF ConnectedOnce
    <3>2. (f = Lowest) <=> (g = Lowest)
      BY <2>1, <2>3, <3>1
    <3>3. f # Lowest => open[f] = open[g] /\ open[f] # Null
      BY <2>1, <2>3, <3>2
    <3>4. (open[f] = open[g] /\ open[f] # Null) => f = g
      BY DEF ConnectedOnce
    <3> QED
      BY <3>2, <3>3, <3>4
  <2>4. \A m \in 1 .. Len(backlog'), f \in Fd : open'[f] # backlog'[m]
    BY <2>1, <2>2 DEF ConnectedOnce
  <2>5. ASSUME NEW m \in 1 .. Len(backlog'), NEW n \in 1 .. Len(backlog'), backlog'[m] = backlog'[n]
        PROVE  m = n
    <3>1. m + 1 = n + 1
      BY <2>1, <2>2, <2>5 DEF ConnectedOnce
    <3> QED
      BY <3>1
  <2>6. \A f \in Fd : open'[f] # Null => cpc[open'[f]] # "off"
    BY <1>1, <2>1 DEF ConnectedOnce
  <2>7. \A m \in 1 .. Len(backlog') : cpc[backlog'[m]] # "off"
    BY <2>1, <2>2 DEF ConnectedOnce
  <2> QED
    BY <2>1, <2>3, <2>4, <2>5, <2>6, <2>7 DEF ConnectedOnce
<1>4. ASSUME Reads \/ Writes \/ Scan \/ Invoke \/ Signal \/ UNCHANGED vars \/ (Poll /\ AcceptNone)
      PROVE  ConnectedOnce'
  <2>1. UNCHANGED <<open, backlog, cpc>>
    BY <1>4 DEF Reads, Writes, Scan, Invoke, Signal, Poll, AcceptNone, vars, tableVars, Others,
                clientVars
  <2> QED
    BY <2>1, ConnectedOnceClosing
<1>5. ASSUME GivesUp \/ InvokeFails \/ ReplyFails \/ Hangup PROVE ConnectedOnce'
  <2>1. UNCHANGED <<backlog, cpc>>
    BY <1>5 DEF GivesUp, ReceiveFails, InvokeFails, ReplyFails, Hangup, Others, clientVars
  <2>2. \A g \in Fd : open'[g] \in {Null, open[g]}
    BY <1>5, ClosesOnly
  <2> QED
    BY <2>1, <2>2, ConnectedOnceClosing
<1> QED
  BY <1>2, <1>3, <1>4, <1>5, StepKinds DEF Poll

(***************************************************************************)
(* Slots and connections match, until a network_send fails.                *)
(***************************************************************************)

\* The slots a removal leaves: slot j holds what was in slot Before(j).
Before(j) == IF j < i THEN j ELSE j + 1

LEMMA SlotsLeft ==
  ASSUME NetAssumption, TypeOK, i < nfds, Drop
  PROVE  /\ InUse' = 1 .. nfds - 2
         /\ \A j \in InUse' : conn'[j] = conn[Before(j)] /\ Before(j) \in InUse /\ Before(j) # i
         /\ \A k \in InUse : k # i => \E j \in InUse' : conn'[j] = conn[k]
         /\ \A j, k \in InUse' : Before(j) = Before(k) => j = k
<1>1. nfds \in Nat /\ i \in Nat /\ i >= 1 /\ nfds' = nfds - 1
  BY Ranges, DropShifts
<1>2. InUse' = 1 .. nfds - 2
  BY <1>1 DEF InUse
<1>3. \A j \in 1 .. nfds - 2 : conn'[j] = conn[Before(j)]
  BY DropShifts DEF Before
<1>4. \A j \in 1 .. nfds - 2 : Before(j) \in InUse /\ Before(j) # i
  BY <1>1 DEF Before, InUse
<1>5. ASSUME NEW k \in InUse, k # i
      PROVE  \E j \in 1 .. nfds - 2 : conn'[j] = conn[k]
  <2>1. CASE k < i
    <3>1. k \in 1 .. nfds - 2 /\ Before(k) = k
      BY <1>1, <2>1 DEF InUse, Before
    <3> QED
      BY <1>3, <3>1
  <2>2. CASE k > i
    <3>1. k - 1 \in 1 .. nfds - 2 /\ Before(k - 1) = k
      BY <1>1, <2>2 DEF InUse, Before
    <3> QED
      BY <1>3, <3>1
  <2> QED
    BY <1>1, <1>5, <2>1, <2>2 DEF InUse
<1>6. \A j, k \in 1 .. nfds - 2 : Before(j) = Before(k) => j = k
  BY <1>1 DEF Before
<1> QED
  BY <1>2, <1>3, <1>4, <1>5, <1>6

\* The descriptor of a slot in use is typed, and no other slot in use holds it.
LEMMA SlotsInUse ==
  ASSUME NetAssumption, TypeOK
  PROVE  \A j \in InUse : j \in Slot /\ conn[j] \in SlotType /\ conn[j].fd \in Fd \cup {NoFd}
<1>1. ASSUME NEW j \in InUse PROVE j \in Slot
  BY Ranges DEF InUse, Slot
<1> QED
  BY <1>1 DEF TypeOK, SlotType

LEMMA OneSlotEachPoll ==
  ASSUME NetAssumption, TypeOK, OneSlotEach, Poll
  PROVE  OneSlotEach'
<1> SUFFICES ASSUME ~aliased'
             PROVE  /\ \A f \in Fd : open'[f] # Null => \E j \in InUse' : conn'[j].fd = f
                    /\ \A j \in InUse' : conn'[j].fd # NoFd => open'[conn'[j].fd] # Null
                    /\ \A j, k \in InUse' :
                         (conn'[j].fd = conn'[k].fd /\ j # k) => conn'[j].fd = NoFd
  BY DEF OneSlotEach
<1>1. ~aliased
  BY DEF Poll, history
<1>2. /\ \A f \in Fd : open[f] # Null => \E j \in InUse : conn[j].fd = f
      /\ \A j \in InUse : conn[j].fd # NoFd => open[conn[j].fd] # Null
      /\ \A j, k \in InUse : (conn[j].fd = conn[k].fd /\ j # k) => conn[j].fd = NoFd
  BY <1>1 DEF OneSlotEach
<1>3. \A j \in InUse : j \in Slot /\ conn[j].fd \in Fd \cup {NoFd}
  BY SlotsInUse
<1>4. CASE AcceptNone
  <2>1. /\ UNCHANGED open /\ InUse' = InUse
        /\ \A j \in InUse : conn'[j].fd = conn[j].fd
    BY <1>3, <1>4, PolledSlots DEF AcceptNone, InUse
  <2> QED
    BY <1>2, <2>1
<1>5. CASE Accept
  <2> DEFINE low == Lowest
  <2>1. /\ nfds \in Slot /\ nfds' = nfds + 1 /\ low \in Fd /\ open[low] = Null
        /\ \A j \in Slot : conn'[j].fd = IF j = nfds THEN low ELSE conn[j].fd
        /\ \A f \in Fd : open'[f] = IF f = low THEN backlog[1] ELSE open[f]
        /\ backlog[1] \in Endpoint /\ Null \notin Endpoint
    BY <1>5, AcceptFills, BacklogTyped
  <2> HIDE DEF low
  <2>2. /\ nfds \in InUse' /\ nfds \notin InUse
        /\ \A j \in InUse' : j \in InUse \/ j = nfds
        /\ \A j \in InUse : j \in InUse'
    BY <2>1, Ranges DEF InUse
  <2>3. \A j \in InUse : conn'[j].fd = conn[j].fd
    BY <1>3, <2>1, <2>2
  <2>4. conn'[nfds].fd = low
    BY <2>1
  <2>5. NoFd \notin Fd
    BY DEF NetAssumption, NoFd
  <2>6. \A j \in InUse : conn[j].fd # low
    BY <1>2, <2>1, <2>5
  <2>7. ASSUME NEW f \in Fd, open'[f] # Null PROVE \E j \in InUse' : conn'[j].fd = f
    <3>1. CASE f = low
      BY <2>2, <2>4, <3>1
    <3>2. CASE f # low
      BY <1>2, <2>1, <2>2, <2>3, <2>7, <3>2
    <3> QED
      BY <3>1, <3>2
  <2>8. ASSUME NEW j \in InUse', conn'[j].fd # NoFd PROVE open'[conn'[j].fd] # Null
    <3>1. CASE j = nfds
      BY <2>1, <2>4, <3>1
    <3>2. CASE j \in InUse
      BY <1>2, <1>3, <2>1, <2>3, <2>8, <3>2
    <3> QED
      BY <2>2, <3>1, <3>2
  <2>9. ASSUME NEW j \in InUse', NEW k \in InUse', conn'[j].fd = conn'[k].fd, j # k
        PROVE  conn'[j].fd = NoFd
    <3>1. j \in InUse /\ k \in InUse
      BY <2>2, <2>3, <2>4, <2>6, <2>9
    <3> QED
      BY <1>2, <2>3, <2>9, <3>1
  <2> QED
    BY <2>7, <2>8, <2>9
<1> QED
  BY <1>4, <1>5 DEF Poll

LEMMA OneSlotEachDrop ==
  ASSUME NetAssumption, TypeOK, OneSlotEach, i < nfds, Drop, UNCHANGED aliased
  PROVE  OneSlotEach'
<1> SUFFICES ASSUME ~aliased
             PROVE  /\ \A f \in Fd : open'[f] # Null => \E j \in InUse' : conn'[j].fd = f
                    /\ \A j \in InUse' : conn'[j].fd # NoFd => open'[conn'[j].fd] # Null
                    /\ \A j, k \in InUse' :
                         (conn'[j].fd = conn'[k].fd /\ j # k) => conn'[j].fd = NoFd
  BY DEF OneSlotEach
<1>1. /\ \A f \in Fd : open[f] # Null => \E j \in InUse : conn[j].fd = f
      /\ \A j \in InUse : conn[j].fd # NoFd => open[conn[j].fd] # Null
      /\ \A j, k \in InUse : (conn[j].fd = conn[k].fd /\ j # k) => conn[j].fd = NoFd
  BY DEF OneSlotEach
<1>2. \A j \in InUse : j \in Slot /\ conn[j].fd \in Fd \cup {NoFd}
  BY SlotsInUse
<1>3. /\ \A j \in InUse' : conn'[j] = conn[Before(j)] /\ Before(j) \in InUse /\ Before(j) # i
      /\ \A k \in InUse : k # i => \E j \in InUse' : conn'[j] = conn[k]
      /\ \A j, k \in InUse' : Before(j) = Before(k) => j = k
  BY SlotsLeft
<1>4. \A g \in Fd : open'[g] = IF g = Mine THEN Null ELSE open[g]
  BY DropShifts
<1>5. i \in InUse
  BY Ranges DEF InUse
<1>6. ASSUME NEW f \in Fd, open'[f] # Null PROVE \E j \in InUse' : conn'[j].fd = f
  <2>1. f # Mine /\ open[f] # Null
    BY <1>4, <1>6
  <2>2. PICK k \in InUse : conn[k].fd = f
    BY <1>1, <2>1
  <2>3. k # i
    BY <2>1, <2>2 DEF Mine
  <2> QED
    BY <1>3, <2>2, <2>3
<1>7. ASSUME NEW j \in InUse', conn'[j].fd # NoFd PROVE open'[conn'[j].fd] # Null
  <2>1. /\ Before(j) \in InUse /\ Before(j) # i /\ conn'[j].fd = conn[Before(j)].fd
    BY <1>3
  <2>2. conn[Before(j)].fd # Mine
    BY <1>1, <1>5, <1>7, <2>1 DEF Mine
  <2> QED
    BY <1>1, <1>2, <1>4, <1>7, <2>1, <2>2
<1>8. ASSUME NEW j \in InUse', NEW k \in InUse', conn'[j].fd = conn'[k].fd, j # k
      PROVE  conn'[j].fd = NoFd
  <2>1. Before(j) # Before(k)
    BY <1>3, <1>8
  <2> QED
    BY <1>1, <1>3, <1>8, <2>1
<1> QED
  BY <1>6, <1>7, <1>8

LEMMA OneSlotEachNext ==
  ASSUME NetAssumption, TypeOK, Position, OneSlotEach, [Next]_vars
  PROVE  OneSlotEach'
<1>1. ASSUME UNCHANGED <<conn, nfds, open, aliased>> PROVE OneSlotEach'
  BY <1>1 DEF OneSlotEach, InUse
<1>2. ASSUME NEW c \in Client, ClientMoves(c) PROVE OneSlotEach'
  BY <1>1, <1>2, ClientMovesAlone DEF ServerStands
<1>3. ASSUME Reads \/ Writes \/ Scan \/ Invoke \/ Signal \/ UNCHANGED vars PROVE OneSlotEach'
  BY <1>1, <1>3 DEF Reads, Writes, Scan, Invoke, Signal, vars, tableVars, history
<1>4. ASSUME ReplyFails PROVE OneSlotEach'
  BY <1>4 DEF ReplyFails, OneSlotEach
<1>5. ASSUME InvokeFails PROVE OneSlotEach'
  <2>1. i \in InUse /\ i \in Slot
    BY <1>5, Ranges DEF InvokeFails, At, Position, InSlot, InUse, Slot
  <2>2. \A g \in Fd : open'[g] = open[g] \/ (g = Mine /\ open'[g] = Null)
    BY <1>5, ClosesOnly
  <2>3. /\ InUse' = InUse /\ aliased' = aliased
        /\ conn' = [conn EXCEPT ![i].fd = NoFd]
    BY <1>5 DEF InvokeFails, InUse, history
  <2>4. \A j \in InUse : j \in Slot /\ conn[j] \in SlotType /\ conn[j].fd \in Fd \cup {NoFd}
    BY SlotsInUse
  <2>5. \A j \in InUse : conn'[j].fd = IF j = i THEN NoFd ELSE conn[j].fd
    BY <2>1, <2>3, <2>4 DEF TypeOK, SlotType
  <2>6. CASE ~aliased
    <3>1. /\ \A f \in Fd : open[f] # Null => \E j \in InUse : conn[j].fd = f
          /\ \A j \in InUse : conn[j].fd # NoFd => open[conn[j].fd] # Null
          /\ \A j, k \in InUse : (conn[j].fd = conn[k].fd /\ j # k) => conn[j].fd = NoFd
      BY <2>6 DEF OneSlotEach
    <3>2. open'[Mine] = Null \/ Mine \notin Fd
      <4>1. open' = Closed(Mine)
        BY <1>5 DEF InvokeFails
      <4>2. Mine \in Fd \cup {NoFd}
        BY <2>1, <2>4 DEF Mine
      <4> QED
        BY <4>1, <4>2, ClosedOne
    <3>3. ASSUME NEW f \in Fd, open'[f] # Null PROVE \E j \in InUse : conn'[j].fd = f
      <4>1. f # Mine /\ open[f] # Null
        BY <2>2, <3>2, <3>3
      <4>2. PICK k \in InUse : conn[k].fd = f
        BY <3>1, <4>1
      <4> QED
        BY <2>5, <4>1, <4>2 DEF Mine
    <3>4. ASSUME NEW j \in InUse, conn'[j].fd # NoFd PROVE open'[conn'[j].fd] # Null
      <4>1. j # i /\ conn'[j].fd = conn[j].fd /\ conn[j].fd # NoFd
        BY <2>5, <3>4
      <4>2. conn[j].fd # Mine
        BY <2>1, <3>1, <4>1 DEF Mine
      <4> QED
        BY <2>2, <2>4, <3>1, <4>1, <4>2
    <3>5. \A j, k \in InUse : (conn'[j].fd = conn'[k].fd /\ j # k) => conn'[j].fd = NoFd
      BY <2>5, <3>1
    <3> QED
      BY <2>3, <3>3, <3>4, <3>5 DEF OneSlotEach
  <2>7. CASE aliased
    BY <2>3, <2>7 DEF OneSlotEach
  <2> QED
    BY <2>6, <2>7 DEF TypeOK
<1>6. ASSUME GivesUp PROVE OneSlotEach'
  BY <1>6, OneSlotEachDrop DEF GivesUp, ReceiveFails, Position, InSlot
<1>7. ASSUME Hangup PROVE OneSlotEach'
  <2>1. i < nfds /\ UNCHANGED aliased
    BY <1>7 DEF Hangup, At, Position, InSlot
  <2>2. Drop \/ UNCHANGED <<conn, nfds, open>>
    BY <1>7 DEF Hangup, tableVars
  <2> QED
    BY <1>1, <2>1, <2>2, OneSlotEachDrop
<1> QED
  BY <1>2, <1>3, <1>4, <1>5, <1>6, <1>7, OneSlotEachPoll, StepKinds

(***************************************************************************)
(* The events poll saw, in the slots the loop has not come to.             *)
(***************************************************************************)
LEMMA BehindBlankNext ==
  ASSUME NetAssumption, TypeOK, Position, BehindBlank, [Next]_vars
  PROVE  BehindBlank'
<1>1. ASSUME UNCHANGED <<conn, nfds, overrun>> PROVE BehindBlank'
  BY <1>1 DEF BehindBlank
<1>2. ASSUME NEW c \in Client, ClientMoves(c) PROVE BehindBlank'
  BY <1>1, <1>2, ClientMovesAlone DEF ServerStands
<1>3. ASSUME Reads \/ Writes \/ Scan \/ Invoke \/ Signal \/ ReplyFails \/ UNCHANGED vars
      PROVE  BehindBlank'
  BY <1>1, <1>3 DEF Reads, Writes, Scan, Invoke, Signal, ReplyFails, vars, tableVars, history
<1>4. ASSUME Poll PROVE BehindBlank'
  <2>1. /\ \A j \in Slot : Polled[j].seen = IF j \in InUse THEN Events(conn[j].fd)
                                                           ELSE conn[j].seen
        /\ overrun' = overrun /\ nfds \in Nat
    BY <1>4, PolledSlots, Ranges DEF Poll, history
  <2>2. (nfds' = nfds \/ nfds' = nfds + 1) /\ \A j \in Slot : conn'[j].seen = Polled[j].seen
    BY <1>4, AcceptFills DEF Poll, AcceptNone
  <2>3. ASSUME NEW j \in Slot, j >= nfds' PROVE j >= nfds /\ conn'[j].seen = conn[j].seen
    BY <2>1, <2>2, <2>3 DEF InUse, Slot
  <2> QED
    BY <2>1, <2>3 DEF BehindBlank
<1>5. ASSUME Drop, i < nfds PROVE BehindBlank'
  <2>1. /\ nfds' = nfds - 1 /\ (~overrun' => ~overrun /\ nfds # NFDESC)
        /\ \A j \in Slot : j >= nfds => conn'[j] = conn[j]
        /\ nfds # NFDESC => conn'[nfds - 1] = conn[nfds]
    BY <1>5, DropShifts DEF Drop
  <2>2. nfds \in Nat /\ nfds <= NFDESC /\ NFDESC \in Nat /\ nfds > 1
    BY <1>5, Ranges
  <2>3. nfds # NFDESC => nfds \in Slot
    BY <2>2 DEF Slot
  <2>4. ASSUME ~overrun', NEW j \in Slot, j >= nfds' PROVE conn'[j].seen = {}
    <3>1. CASE j = nfds - 1
      BY <2>1, <2>2, <2>3, <2>4, <3>1 DEF BehindBlank
    <3>2. CASE j >= nfds
      BY <2>1, <2>4, <3>2 DEF BehindBlank
    <3> QED
      BY <2>1, <2>2, <2>4, <3>1, <3>2 DEF Slot
  <2> QED
    BY <2>4 DEF BehindBlank
<1>6. ASSUME GivesUp \/ Hangup PROVE BehindBlank'
  <2>1. i < nfds
    BY <1>6 DEF GivesUp, Hangup, At, Position, InSlot
  <2>2. Drop \/ UNCHANGED <<conn, nfds, overrun>>
    BY <1>6 DEF GivesUp, ReceiveFails, Hangup, tableVars
  <2> QED
    BY <1>1, <1>5, <2>1, <2>2
<1>7. ASSUME InvokeFails PROVE BehindBlank'
  <2>1. /\ conn' = [conn EXCEPT ![i].fd = NoFd] /\ UNCHANGED <<nfds, overrun>>
        /\ i < nfds /\ i \in Nat /\ nfds \in Nat
    BY <1>7, Ranges DEF InvokeFails, At, Position, InSlot, history
  <2>2. \A j \in Slot : j >= nfds => j # i
    BY <2>1 DEF Slot
  <2>3. \A j \in Slot : j # i => conn'[j] = conn[j]
    BY <2>1 DEF TypeOK
  <2> QED
    BY <2>1, <2>2, <2>3 DEF BehindBlank
<1> QED
  BY <1>2, <1>3, <1>4, <1>6, <1>7, StepKinds

LEMMA ReadWhereSeenNext ==
  ASSUME NetAssumption, TypeOK, ReadWhereSeen, [Next]_vars
  PROVE  ReadWhereSeen'
<1>1. ASSUME UNCHANGED <<conn, i, spc>> PROVE ReadWhereSeen'
  BY <1>1 DEF ReadWhereSeen
<1>2. ASSUME NEW c \in Client, ClientMoves(c) PROVE ReadWhereSeen'
  BY <1>1, <1>2, ClientMovesAlone DEF ServerStands
<1>3. ASSUME Scan PROVE ReadWhereSeen'
  BY <1>3 DEF Scan, Goto, tableVars, ReadWhereSeen
<1>4. ASSUME Signal \/ UNCHANGED vars PROVE ReadWhereSeen'
  BY <1>1, <1>4 DEF Signal, vars, tableVars, ReadWhereSeen
<1>5. ASSUME \/ Poll \/ Reads \/ Writes \/ GivesUp \/ InvokeFails \/ Invoke \/ ReplyFails
             \/ Hangup
      PROVE  spc' # "length"
  <2>1. (Poll \/ Reads \/ Writes \/ GivesUp) => spc' # "length"
    BY DEF Poll, Reads, Writes, GivesUp, ReceiveFails, Goto
  <2>2. (InvokeFails \/ Invoke \/ ReplyFails \/ Hangup) => spc' # "length"
    BY DEF InvokeFails, Invoke, ReplyFails, Hangup, NextSlot, Goto
  <2> QED
    BY <1>5, <2>1, <2>2
<1> QED
  BY <1>2, <1>3, <1>4, <1>5, StepKinds DEF ReadWhereSeen

\* A client never takes back what a read would find.
LEMMA ReadableKept ==
  ASSUME NetAssumption, TypeOK, Halves, NEW c \in Client, ClientMoves(c), NEW f, Readable(f)
  PROVE  Readable(f)'
<1> DEFINE d == open[f]
<1>1. /\ f \in Fd /\ d # Null
      /\ inq[d] > 0 \/ cpc[d] = "gone" \/ rst[d] = "arrived"
  BY DEF Readable
<1>2. d \in Endpoint
  <2>1. open \in [Fd -> Endpoint \cup {Null}]
    BY DEF TypeOK
  <2>2. f \in Fd /\ d # Null
    BY <1>1
  <2> QED
    BY <2>1, <2>2
<1>3. UNCHANGED open
  BY ClientMovesAlone DEF ServerStands
<1> HIDE DEF d
<1>4. CASE d # c
  BY <1>1, <1>2, <1>3, <1>4, ClientMovesAlone DEF Readable, d
<1>5. CASE d = c
  <2>1. /\ cpc \in [Endpoint -> {"off", "open", "half", "wait", "gone", "cut"}]
        /\ inq \in [Endpoint -> 0 .. 2] /\ c \in Endpoint
        /\ rst \in [Endpoint -> {"no", "due", "arrived"}]
    BY DEF TypeOK, Endpoint
  <2>2. inq[c] > 0 => inq'[c] > 0
    <3>1. inq'[c] = inq[c] \/ inq'[c] = inq[c] + 1
      BY <2>1 DEF ClientMoves, Connect, SendLength, SendRequest, ReceiveReply, ResetArrives,
                  Leave, channelVars
    <3> QED
      BY <2>1, <3>1
  <2>3. cpc[c] = "gone" => cpc'[c] = "gone"
    <3>1. ASSUME NEW from \in {"off", "open", "half", "wait"}, NEW to, ClientStep(c, from, to)
          PROVE  cpc[c] # "gone"
      BY <3>1 DEF ClientStep
    <3>2. (Connect(c) \/ SendLength(c) \/ SendRequest(c)) => cpc[c] # "gone"
      BY <3>1 DEF Connect, SendLength, SendRequest
    <3>3. (ReceiveReply(c) \/ Leave(c)) => cpc[c] # "gone"
      BY <3>1 DEF ReceiveReply, Leave
    <3>4. ResetArrives(c) => UNCHANGED cpc
      BY DEF ResetArrives, clientVars
    <3> QED
      BY <3>2, <3>3, <3>4 DEF ClientMoves
  <2>4. rst[c] = "arrived" => rst'[c] = "arrived"
    <3>1. ResetArrives(c) => rst'[c] = "arrived"
      BY <2>1 DEF ResetArrives
    <3>2. (Connect(c) \/ SendLength(c) \/ SendRequest(c) \/ ReceiveReply(c)) => UNCHANGED rst
      BY DEF Connect, SendLength, SendRequest, ReceiveReply, channelVars
    <3>3. Leave(c) => cpc[c] \in {"open", "half", "wait"}
      BY DEF Leave, ClientStep
    <3>4. rst[c] # "no" => cpc[c] \in {"gone", "cut"}
      BY <2>1 DEF Halves
    <3>5. (Leave(c) /\ rst[c] = "arrived") => FALSE
      BY <3>3, <3>4
    <3> QED
      BY <3>1, <3>2, <3>5 DEF ClientMoves
  <2> QED
    BY <1>1, <1>2, <1>3, <1>5, <2>2, <2>3, <2>4 DEF Readable, d
<1> QED
  BY <1>4, <1>5

\* A slot the loop has not come to: where poll saw something to read, there is,
\* and it is not on the connection of the loop's own slot.
LEMMA AheadReadable ==
  ASSUME NetAssumption, TypeOK, OneSlotEach, StillReady, i < nfds, spc \in InSlot,
         ~aliased, ~overrun, NEW j \in InUse, j > i, "in" \in conn[j].seen
  PROVE  Readable(conn[j].fd) /\ conn[j].fd \in Fd /\ conn[j].fd # Mine
<1>1. i \in InUse /\ j \in Slot /\ j >= i /\ j # i
  BY Ranges DEF InUse, Slot
<1>2. spc \notin {"poll", "exit"}
  BY DEF InSlot
<1>3. Readable(conn[j].fd)
  BY <1>1, <1>2 DEF StillReady, Ahead
<1>4. conn[j].fd \in Fd
  BY <1>3 DEF Readable
<1>5. conn[j].fd # NoFd
  BY <1>4 DEF NetAssumption, NoFd
<1>6. conn[j].fd # conn[i].fd
  BY <1>1, <1>5 DEF OneSlotEach
<1> QED
  BY <1>3, <1>4, <1>6 DEF Mine

\* What there is to read on a connection stays when a step changes neither the
\* connection nor its client, whatever slot the connection is in afterwards.
LEMMA ReadableMoved ==
  ASSUME NEW f, NEW j, Readable(f), conn'[j].fd = f, open'[f] = open[f],
         UNCHANGED <<cpc, inq, rst>>
  PROVE  Readable(conn[j].fd)'
<1>1. f \in Fd /\ open[f] # Null
  BY DEF Readable
<1>2. inq[open[f]] > 0 \/ cpc[open[f]] = "gone" \/ rst[open[f]] = "arrived"
  BY DEF Readable
<1> QED
  BY <1>1, <1>2 DEF Readable

LEMMA StillReadyPoll ==
  ASSUME NetAssumption, TypeOK, BehindBlank, Poll, ~overrun,
         NEW j \in Slot, j < nfds', "in" \in conn'[j].seen
  PROVE  Readable(conn[j].fd)'
<1>1. /\ \A k \in Slot : Polled[k].fd = conn[k].fd
      /\ \A k \in Slot : Polled[k].seen = IF k \in InUse THEN Events(conn[k].fd)
                                                         ELSE conn[k].seen
  BY PolledSlots
<1>2. UNCHANGED <<cpc, inq, rst>>
  BY DEF Poll, clientVars, channelVars
<1>3. conn'[j].seen = Polled[j].seen
  BY <1>1, AcceptFills DEF Poll, AcceptNone
<1>4. j \in InUse
  <2>1. j >= nfds => conn[j].seen = {}
    BY DEF BehindBlank
  <2>2. j \notin InUse => j >= nfds
    BY Ranges DEF InUse, Slot
  <2> QED
    BY <1>1, <1>3, <2>1, <2>2
<1>5. "in" \in Events(conn[j].fd)
  BY <1>1, <1>3, <1>4
<1>6. Readable(conn[j].fd)
  BY <1>5 DEF Events
<1>7. conn[j].fd \in Fd /\ open[conn[j].fd] # Null
  BY <1>6 DEF Readable
<1>8. conn'[j].fd = conn[j].fd /\ open'[conn[j].fd] = open[conn[j].fd]
  <2>1. CASE AcceptNone
    BY <1>1, <2>1 DEF AcceptNone
  <2>2. CASE Accept
    <3>1. j # nfds
      BY <1>4, Ranges DEF InUse
    <3>2. conn'[j].fd = conn[j].fd /\ open[Lowest] = Null
      BY <2>2, <3>1, AcceptFills
    <3> QED
      BY <1>7, <2>2, <3>2, AcceptFills
  <2> QED
    BY <2>1, <2>2 DEF Poll
<1> QED
  BY <1>2, <1>6, <1>8, ReadableMoved

LEMMA StillReadyNext ==
  ASSUME NetAssumption, TypeOK, Position, Halves, ConnectedOnce, OneSlotEach, BehindBlank,
         StillReady, [Next]_vars
  PROVE  StillReady'
<1> SUFFICES ASSUME (~aliased /\ ~overrun /\ spc \notin {"poll", "exit"})'
             PROVE  (\A j \in Slot :
                       (Ahead(j) /\ "in" \in conn[j].seen) => Readable(conn[j].fd))'
  BY DEF StillReady
<1> SUFFICES ASSUME NEW j \in Slot, Ahead(j)', "in" \in conn'[j].seen
             PROVE  Readable(conn[j].fd)'
  OBVIOUS
<1>1. j \in InUse' /\ j < nfds'
  <2>1. j \in InUse'
    BY DEF Ahead
  <2>2. nfds' \in Nat
    <3>1. nfds' \in 1 .. NFDESC
      BY ServerTypedNext DEF ServerTyped
    <3> QED
      BY <3>1
  <2>3. j \in 1 .. nfds' - 1
    BY <2>1 DEF InUse
  <2>4. \A n \in Nat : j \in 1 .. n - 1 => j < n
    BY DEF Slot
  <2> QED
    BY <2>1, <2>2, <2>3, <2>4
<1>2. i \in Nat /\ nfds \in Nat /\ j \in Nat
  BY Ranges DEF Slot
\* The loop is at the same slot or goes on in it.
<1>3. ASSUME UNCHANGED <<conn, nfds, i, aliased, overrun>>, spc \notin {"poll", "exit"},
             spc' \in {"scan", "length"} => spc \in {"scan", "length"}
      PROVE  Readable(conn[j].fd) /\ j \in InUse
  <2>1. Ahead(j)
    <3>1. j \in InUse
      BY <1>1, <1>3 DEF InUse
    <3>2. CASE spc' \in {"scan", "length"}
      BY <1>3, <3>1, <3>2 DEF Ahead
    <3>3. CASE spc' \notin {"scan", "length"}
      <4>1. j > i
        BY <1>3, <3>3 DEF Ahead
      <4>2. j >= i
        BY <1>2, <4>1
      <4> QED
        BY <3>1, <4>1, <4>2 DEF Ahead
    <3> QED
      BY <3>2, <3>3
  <2> QED
    BY <1>3, <2>1 DEF StillReady, Ahead
<1>4. ASSUME NEW c \in Client, ClientMoves(c) PROVE Readable(conn[j].fd)'
  <2>1. ServerStands
    BY <1>4, ClientMovesAlone
  <2>2. Readable(conn[j].fd)
    BY <1>3, <2>1 DEF ServerStands
  <2>3. PICK f : Readable(f) /\ conn'[j].fd = f
    BY <2>1, <2>2 DEF ServerStands
  <2>4. Readable(f)'
    BY <1>4, <2>3, ReadableKept
  <2> QED
    BY <2>3, <2>4 DEF Readable
<1>5. ASSUME UNCHANGED <<conn, nfds, i, aliased, overrun, open, cpc, inq, rst>>,
             spc \notin {"poll", "exit"},
             spc' \in {"scan", "length"} => spc \in {"scan", "length"}
      PROVE  Readable(conn[j].fd)'
  BY <1>3, <1>5, ReadableMoved
<1>6. ASSUME Scan PROVE Readable(conn[j].fd)'
  <2>1. UNCHANGED <<conn, nfds, i, aliased, overrun, open, cpc, inq, rst>> /\ spc = "scan"
    BY <1>6 DEF Scan, At, Goto, tableVars, Others, clientVars, channelVars, history
  <2> QED
    BY <1>5, <2>1
<1>7. ASSUME Invoke PROVE Readable(conn[j].fd)'
  <2>1. /\ UNCHANGED <<conn, nfds, i, aliased, overrun, open, cpc, inq, rst>>
        /\ spc = "invoke" /\ spc' = "reply length"
    BY <1>7 DEF Invoke, At, Goto, tableVars, Others, clientVars, channelVars, history
  <2> QED
    BY <1>5, <2>1
<1>8. ASSUME Signal PROVE Readable(conn[j].fd)'
  <2>1. /\ UNCHANGED <<conn, nfds, i, aliased, overrun, open, cpc, inq, rst>>
        /\ spc' = IF spc = "poll" THEN "exit" ELSE spc
    BY <1>8 DEF Signal, tableVars, clientVars, channelVars, history
  <2>2. spc' = spc
    BY <2>1
  <2> QED
    BY <1>5, <2>1, <2>2
<1>9. ASSUME UNCHANGED vars PROVE Readable(conn[j].fd)'
  <2>1. UNCHANGED <<conn, nfds, i, spc, aliased, overrun, open, cpc, inq, rst>>
    BY <1>9 DEF vars, tableVars, clientVars, channelVars, history
  <2> QED
    BY <1>5, <2>1
<1>10. ASSUME Poll PROVE Readable(conn[j].fd)'
  BY <1>1, <1>10, StillReadyPoll DEF Poll, history
\* The loop reads from its slot's client, or writes to it.
<1>11. ASSUME Reads PROVE Readable(conn[j].fd)'
  <2>1. /\ UNCHANGED <<conn, nfds, i, aliased, overrun, open, cpc, rst>>
        /\ inq' = [inq EXCEPT ![Peer] = @ - 1]
        /\ spc \in InSlot /\ spc' \in {"body", "invoke"} /\ Peer # Null
    BY <1>11 DEF Reads, InSlot
  <2>2. i < nfds /\ j > i /\ j \in InUse
    BY <1>1, <2>1 DEF Position, Ahead, InUse
  <2>3. Readable(conn[j].fd) /\ conn[j].fd \in Fd /\ conn[j].fd # Mine
    BY <2>1, <2>2, AheadReadable
  <2>4. Mine \in Fd /\ Peer = open[Mine]
    BY <2>1, PeerConnected
  <2>5. PICK f \in Fd : Readable(f) /\ conn'[j].fd = f /\ f # Mine
    BY <2>1, <2>3
  <2>6. open[f] # Null
    BY <2>5 DEF Readable
  <2>7. open[f] # Peer
    BY <2>4, <2>5, <2>6 DEF ConnectedOnce
  <2>8. inq'[open[f]] = inq[open[f]]
    <3>1. open[f] \in Endpoint
      BY <2>5, <2>6 DEF TypeOK
    <3>2. inq \in [Endpoint -> 0 .. 2]
      BY DEF TypeOK
    <3> QED
      BY <2>1, <2>7, <3>1, <3>2
  <2>9. inq[open[f]] > 0 \/ cpc[open[f]] = "gone" \/ rst[open[f]] = "arrived"
    BY <2>5 DEF Readable
  <2> QED
    BY <2>1, <2>5, <2>6, <2>8, <2>9 DEF Readable
<1>12. ASSUME Writes PROVE Readable(conn[j].fd)'
  <2>1. /\ UNCHANGED <<conn, nfds, i, aliased, overrun, open, cpc, inq>>
        /\ rst' = IF cpc[Peer] = "gone" THEN [rst EXCEPT ![Peer] = "due"] ELSE rst
        /\ rst[Peer] # "arrived"
        /\ spc \notin {"poll", "exit"} /\ spc' \notin {"scan", "length"}
    BY <1>12 DEF Writes
  <2>2. Readable(conn[j].fd)
    BY <1>3, <2>1
  <2>3. PICK f : Readable(f) /\ conn'[j].fd = f
    BY <2>1, <2>2
  <2>4. f \in Fd /\ open[f] # Null
    BY <2>3 DEF Readable
  <2>5. inq[open[f]] > 0 \/ cpc[open[f]] = "gone" \/ rst[open[f]] = "arrived"
    BY <2>3 DEF Readable
  <2>6. rst[open[f]] = "arrived" => rst'[open[f]] = "arrived"
    <3>1. rst \in [Endpoint -> {"no", "due", "arrived"}] /\ open[f] \in Endpoint
      BY <2>4 DEF TypeOK
    <3> QED
      BY <2>1, <3>1
  <2> QED
    BY <2>1, <2>3, <2>4, <2>5, <2>6 DEF Readable
\* The loop leaves its slot.
<1>13. ASSUME GivesUp \/ Hangup, Drop PROVE Readable(conn[j].fd)'
  <2>1. spc \in InSlot /\ UNCHANGED <<aliased, cpc, inq, rst>>
    BY <1>13 DEF GivesUp, ReceiveFails, Hangup, At, InSlot, Others, clientVars, channelVars
  <2>2. ~overrun
    BY <1>13 DEF Drop
  <2>3. i < nfds
    BY <2>1 DEF Position
  <2>4. conn'[j] = conn[Before(j)] /\ Before(j) \in InUse
    BY <1>1, <1>13, <2>3, SlotsLeft
  <2>5. j >= i
    <3>1. i' = i \/ i' = i + 1
      BY <1>13 DEF GivesUp, ReceiveFails, Hangup, Goto, NextSlot
    <3>2. j >= i' \/ j > i'
      BY DEF Ahead
    <3> QED
      BY <1>2, <3>1, <3>2
  <2>6. Before(j) > i
    BY <1>2, <2>5 DEF Before
  <2>7. /\ Readable(conn[Before(j)].fd) /\ conn[Before(j)].fd \in Fd
        /\ conn[Before(j)].fd # Mine
    BY <2>1, <2>2, <2>3, <2>4, <2>6, AheadReadable
  <2>8. PICK f \in Fd : Readable(f) /\ conn'[j].fd = f /\ f # Mine
    BY <2>4, <2>7
  <2>9. open'[f] = open[f]
    BY <1>13, <2>3, <2>8, DropShifts
  <2> QED
    BY <2>1, <2>8, <2>9, ReadableMoved
<1>14. ASSUME Hangup, ~Drop PROVE Readable(conn[j].fd)'
  <2>1. /\ UNCHANGED <<conn, nfds, aliased, overrun, open, cpc, inq, rst>>
        /\ spc \in InSlot /\ i' = i + 1
    BY <1>14 DEF Hangup, At, InSlot, NextSlot, tableVars, Others, clientVars, channelVars
  <2>2. i < nfds /\ j \in InUse
    BY <1>1, <2>1 DEF Position, InUse
  <2>3. j > i
    BY <1>2, <2>1 DEF Ahead
  <2>4. Readable(conn[j].fd)
    BY <2>1, <2>2, <2>3, AheadReadable
  <2> QED
    BY <2>1, <2>4, ReadableMoved
<1>15. ASSUME InvokeFails PROVE Readable(conn[j].fd)'
  <2>1. /\ UNCHANGED <<nfds, aliased, overrun, cpc, inq, rst>>
        /\ conn' = [conn EXCEPT ![i].fd = NoFd]
        /\ spc \in InSlot /\ i' = i + 1
    BY <1>15 DEF InvokeFails, At, InSlot, NextSlot, Others, clientVars, channelVars, history
  <2>2. i < nfds /\ j \in InUse
    BY <1>1, <2>1 DEF Position, InUse
  <2>3. j > i
    BY <1>2, <2>1 DEF Ahead
  <2>4. conn'[j] = conn[j]
    <3>1. j # i
      BY <1>2, <2>3
    <3> QED
      BY <2>1, <3>1 DEF TypeOK
  <2>5. Readable(conn[j].fd) /\ conn[j].fd \in Fd /\ conn[j].fd # Mine
    BY <2>1, <2>2, <2>3, <2>4, AheadReadable
  <2>6. PICK f \in Fd : Readable(f) /\ conn'[j].fd = f /\ f # Mine
    BY <2>4, <2>5
  <2>7. open'[f] = open[f]
    BY <1>15, <2>6, ClosesOnly
  <2> QED
    BY <2>1, <2>6, <2>7, ReadableMoved
<1>16. ~ReplyFails
  BY DEF ReplyFails
<1>17. GivesUp => Drop
  BY DEF GivesUp, ReceiveFails
<1> QED
  BY <1>4, <1>6, <1>7, <1>8, <1>9, <1>10, <1>11, <1>12, <1>13, <1>14, <1>15, <1>16, <1>17,
     StepKinds

(***************************************************************************)
(* The inductive invariant, and what follows from it.                      *)
(***************************************************************************)
LEMMA InitInv == NetAssumption /\ Init => NInv
<1> SUFFICES ASSUME NetAssumption, Init PROVE NInv
  OBVIOUS
<1>1. Null \notin Endpoint /\ NFDESC \in Nat /\ NFDESC > 1 /\ Self \in Endpoint
  BY DEF NetAssumption, Endpoint
<1>2. /\ backlog = <<>> \/ backlog = <<Self>>
      /\ backlog = <<Self>> => cpc = [c \in Endpoint |-> IF c = Self THEN "open" ELSE "off"]
      /\ cpc \in [Endpoint -> {"off", "open"}]
  <2>1. ASSUME SelfConnected
        PROVE  /\ backlog = <<Self>> /\ cpc \in [Endpoint -> {"off", "open"}]
               /\ cpc = [c \in Endpoint |-> IF c = Self THEN "open" ELSE "off"]
    BY <2>1 DEF SelfConnected
  <2>2. ASSUME NotRegistered
        PROVE  /\ backlog = <<>> /\ cpc \in [Endpoint -> {"off", "open"}]
    BY <2>2 DEF NotRegistered
  <2>3. <<Self>> # <<>>
    OBVIOUS
  <2> QED
    BY <2>1, <2>2, <2>3 DEF Init
<1>3. backlog \in Seq(Endpoint)
  <2>1. <<Self>> \in Seq(Endpoint) /\ <<>> \in Seq(Endpoint)
    BY <1>1
  <2> QED
    BY <1>2, <2>1
<1>4. InUse = {} /\ nfds = 1 /\ i = 1 /\ spc = "poll"
  BY DEF Init, InUse
<1>5. TypeOK
  <2>1. ServerTyped
    <3>1. conn \in [Slot -> SlotType]
      BY DEF Init, Blank, SlotType
    <3>2. nfds \in 1 .. NFDESC /\ i \in 1 .. NFDESC + 1
      BY <1>1, <1>4
    <3> QED
      BY <3>1, <3>2 DEF Init, ServerTyped
  <2>2. cpc \in [Endpoint -> {"off", "open", "half", "wait", "gone", "cut"}]
    BY <1>2
  <2>3. ClientsTyped
    BY <1>3, <2>2 DEF Init, ClientsTyped
  <2> QED
    BY <2>1, <2>3, TypeParts
<1>6. Position
  BY <1>4 DEF Position, InSlot
<1>7. Halves
  <2>1. \A c \in Endpoint : outq[c] = 0 /\ inq[c] = 0 /\ rst[c] = "no"
    BY DEF Init
  <2>2. \A c \in Endpoint : cpc[c] # "half" /\ cpc[c] # "cut"
    BY <1>2
  <2>3. ~(0 > 0)
    OBVIOUS
  <2> QED
    BY <2>1, <2>2, <2>3 DEF Halves
<1>8. Serving /\ ReadWhereSeen /\ StillReady
  BY <1>4 DEF Serving, ReadWhereSeen, StillReady
<1>9. ConnectedOnce
  <2>1. \A f \in Fd : open[f] = Null
    BY DEF Init
  <2>2. CASE backlog = <<>>
    <3>1. 1 .. Len(backlog) = {}
      BY <2>2
    <3> QED
      BY <2>1, <3>1 DEF ConnectedOnce
  <2>3. CASE backlog = <<Self>>
    <3>1. Len(backlog) = 1 /\ backlog[1] = Self /\ cpc[Self] = "open" /\ Self # Null
      BY <1>1, <1>2, <2>3
    <3> QED
      BY <2>1, <3>1 DEF ConnectedOnce
  <2> QED
    BY <1>2, <2>2, <2>3
<1>10. OneSlotEach
  BY <1>4 DEF OneSlotEach, Init
<1>11. BehindBlank
  BY DEF BehindBlank, Init, Blank
<1> QED
  BY <1>5, <1>6, <1>7, <1>8, <1>9, <1>10, <1>11 DEF NInv

LEMMA NextInv == NetAssumption /\ NInv /\ [Next]_vars => NInv'
<1> SUFFICES ASSUME NetAssumption, NInv, [Next]_vars PROVE NInv'
  OBVIOUS
<1>1. /\ TypeOK /\ Position /\ Halves /\ Serving /\ ConnectedOnce
      /\ OneSlotEach /\ BehindBlank /\ StillReady /\ ReadWhereSeen
  BY DEF NInv
<1>2. ClientsTyped' /\ Halves'
  BY <1>1, ClientsTypedNext
<1>3. TypeOK'
  <2>1. ServerTyped'
    BY <1>1, ServerTypedNext
  <2> QED
    BY <1>2, <2>1 DEF TypeOK, ServerTyped, ClientsTyped
<1>4. Position' /\ Serving'
  BY <1>1, PositionNext, ServingNext
<1>5. ConnectedOnce' /\ OneSlotEach'
  BY <1>1, ConnectedOnceNext, OneSlotEachNext
<1>6. BehindBlank' /\ ReadWhereSeen'
  BY <1>1, BehindBlankNext, ReadWhereSeenNext
<1>7. StillReady'
  BY <1>1, StillReadyNext
<1> QED
  BY <1>2, <1>3, <1>4, <1>5, <1>6, <1>7 DEF NInv

LEMMA NInvariance == Spec => []NInv
BY InitInv, NextInv, NetAssumption, PTL DEF Spec

\* Every variable keeps its type, and no client or server ever has more than
\* two halves of a message under way.
THEOREM TypeCorrect == Spec => []TypeOK
BY NInvariance, PTL DEF NInv

\* Connections and slots match one to one, until a network_send fails.
THEOREM SlotsMatch == Spec => []OneSlotEach
BY NInvariance, PTL DEF NInv

\* The server reads the first half of a message only from a connection on which
\* there is something to read.
THEOREM ReadsReady == Spec => []ReadsWhatIsReady
<1>1. NInv => ReadsWhatIsReady
  <2> SUFFICES ASSUME NInv, ~aliased, ~overrun, spc = "length" PROVE Readable(Mine)
    BY DEF ReadsWhatIsReady
  <2>1. TypeOK /\ Position /\ StillReady /\ ReadWhereSeen
    BY DEF NInv
  <2>2. i < nfds /\ i \in Nat /\ i >= 1 /\ nfds \in Nat /\ nfds <= NFDESC /\ NFDESC \in Nat
    BY <2>1, NetAssumption, Ranges DEF Position, InSlot
  <2>3. i \in Slot /\ i \in InUse /\ i >= i
    BY <2>2 DEF Slot, InUse
  <2>4. Ahead(i) /\ "in" \in conn[i].seen
    BY <2>1, <2>3 DEF Ahead, ReadWhereSeen
  <2> QED
    BY <2>1, <2>3, <2>4 DEF StillReady, Mine
<1> QED
  BY <1>1, NInvariance, PTL

\* The server's reply goes to the client whose request it has read.
THEOREM RepliesReach == Spec => []RepliesToAsker
<1>1. NInv => RepliesToAsker
  <2> SUFFICES ASSUME NInv PROVE RepliesToAsker
    OBVIOUS
  <2>1. \A c \in Endpoint : outq[c] > 0 => cpc[c] \in {"wait", "gone", "cut"}
    BY DEF NInv, Halves
  <2>2. spc \in {"invoke", "reply length", "reply body"} =>
          cpc[Peer] \in {"wait", "gone", "cut"} /\ inq[Peer] = 0
    BY DEF NInv, Serving
  <2> QED
    BY <2>1, <2>2 DEF RepliesToAsker
<1> QED
  BY <1>1, NInvariance, PTL
=============================================================================

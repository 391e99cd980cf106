---------------------------- MODULE RemoteTableProofs ----------------------------
(***************************************************************************)
(* What is proved of the client library and the server behind it, for      *)
(* every number of clients, keys, values and writes: the type invariant,   *)
(* that the number a client is told is the number of its own write, that   *)
(* reads never go back, and that the bytes of a value survive, as long as  *)
(* no defect of the server has struck and no answer is made up from memory *)
(* that was freed.                                                         *)
(***************************************************************************)
EXTENDS RemoteTable, DataBlockProofs, FiniteSetTheorems

-----------------------------------------------------------------------------
(***************************************************************************)
(* What the first n writes leave is defined by recursion on n.             *)
(***************************************************************************)
Empty == [k \in Key |-> Absent]

\* What the write w makes of what the keys have.
Effect(s, w) ==
  IF w.op = "del" THEN [s EXCEPT ![w.key] = Absent]
  ELSE IF ~HasText(w.data) THEN s
  ELSE [s EXCEPT ![w.key] = Carried(w.data)]

\* f lists what the first n writes of l leave, one after the other.
Results(f, l, n) ==
  f = [i \in 0 .. n |-> IF i = 0 THEN Empty ELSE Effect(f[i - 1], l[i])]

\* What the first n writes of l leave.
Result(l, n) == (CHOOSE f : Results(f, l, n))[n]

Calls == {"put", "del", "get", "size", "getkeys", "verify"}
Writes == {"put", "del"}

\* What the log holds.
Entry ==
  [by : Client, op : {"put"}, key : Key, data : Value]
    \cup [by : Client, op : {"del"}, key : Key, data : {NoData}]

\* What replies hold.
Replies ==
  {None, Absent} \cup Int \cup (SUBSET Key) \cup {Carried(v) : v \in Value}
    \cup Junked

\* What the table holds for a key.
Kepts == {Absent} \cup {Kept(v) : v \in Value}

Typed ==
  /\ log \in Seq(Entry) /\ done \in Nat /\ op_count \in Nat
  /\ store \in [Key -> Kepts]
  /\ wpc \in {"idle", "readd", "applied"} /\ main \in {"poll", "get", "spin"}
  /\ seen \subseteq Kepts /\ asker \in Client \cup {None}
  /\ freed \in BOOLEAN /\ struck \in BOOLEAN /\ alive \in BOOLEAN
  /\ link \in [Client -> {"null", "up", "eof", "reset"}]
  /\ inq \in [Client -> 0 .. 2]
  /\ reply \in [Client -> Replies]
  /\ pc \in [Client -> {"idle", "half", "wait", "back", "ended"}]
  /\ call \in [Client -> Requests \cup {NoCall}]
  /\ ret \in [Client -> Replies \cup {Failed}]
  /\ garbled \in [Client -> BOOLEAN]
  /\ known \in Nat /\ floor \in [Client -> Nat]

\* Where the worker is, from the writes it has applied and counted.
Working ==
  /\ done <= Len(log)
  /\ done = IF wpc = "applied" THEN op_count + 1 ELSE op_count
  /\ wpc = "readd" => done < Len(log) /\ Task.op = "put" /\ HasText(Task.data)

\* The writes on their way fit behind those in the log.
Room == Len(log) + Cardinality(Writing) <= MaxOps

\* Where a client is, its connection and the reply on its way belong together.
Stage(p, l, q, r, k) ==
  /\ l = "null" => q = 0 /\ p \notin {"half", "wait"}
  /\ (l = "up" /\ q = 1) => p = "half"
  /\ (l = "up" /\ q = 2) => p = "wait" /\ r = None
  /\ (p # "wait" \/ l = "reset") => r = None
  /\ p \in {"half", "wait"} => k \in Requests

Staged == \A c \in Client : Stage(pc[c], link[c], inq[c], reply[c], call[c])

\* The answer a to client c for a write with the request k is its number.
NumberOf(l, c, k, a) ==
  /\ a \in 0 .. Len(l) - 1
  /\ l[a + 1] = [by |-> c, op |-> k.op, key |-> k.key, data |-> k.data]

\* So are the reply r on its way and the result t of the call, unless it is
\* garbled (g).
Told(l, c, p, r, k, t, g) ==
  k.op \in Writes =>
    /\ (p = "wait" /\ r # None) => NumberOf(l, c, k, r)
    /\ (p = "back" /\ t # Failed /\ ~g) => NumberOf(l, c, k, t)

Numbers ==
  \A c \in Client : Told(log, c, pc[c], reply[c], call[c], ret[c], garbled[c])

\* What a key may show between the first lo writes and the first hi.  A put in
\* the middle of the next write may have removed it.
Shows(l, key, lo, hi, a) ==
  \/ \E m \in lo .. hi : Result(l, m)[key] = a
  \/ /\ a = Absent
     /\ \E m \in lo + 1 .. hi + 1 : m <= Len(l) /\ l[m].op = "put" /\ l[m].key = key

\* What a client is told when d writes are applied and n are counted, if f were
\* known when its call began, and what it is told is not garbled.
Saw(l, d, n, f, p, r, k, t, g) ==
  /\ (p = "wait" /\ r # None /\ k.op = "verify" /\ r = 0) => k.n < n
  /\ (p = "wait" /\ r # None /\ k.op = "get" /\ ~g) => Shows(l, k.key, f, d, r)
  /\ (p = "back" /\ t # Failed /\ k.op = "get" /\ ~g) => Shows(l, k.key, f, d, t)

Reads ==
  /\ known <= done
  /\ \A c \in Client :
       /\ floor[c] <= known
       /\ ~struck => Saw(log, done, op_count, floor[c], pc[c], reply[c], call[c],
                         ret[c], garbled[c])

\* The table holds what the writes applied so far should leave, but for a key
\* that is being overwritten.
Same(s, a) == (s = Absent /\ a = Absent) \/ \E v \in Value : s = Kept(v) /\ a = Carried(v)

Agrees ==
  ~struck =>
    \A k \in Key :
      \/ Same(store[k], Result(log, done)[k])
      \/ wpc = "readd" /\ k = Task.key /\ store[k] = Absent

\* The client whose get is being answered waits for it, and nothing can end its
\* call but the reply.
Asking ==
  main = "get" =>
    /\ asker \in Client /\ pc[asker] = "wait" /\ call[asker] \in Requests
    /\ call[asker].op = "get" /\ reply[asker] = None
    /\ link[asker] \in {"up", "eof"} /\ inq[asker] = 0

\* What the table had, s, is what a key may show.
Sees(l, key, lo, hi, s) == \E a : Same(s, a) /\ Shows(l, key, lo, hi, a)

\* So is all that the walk of table_get may come upon.
Seeing ==
  (main = "get" /\ ~struck) =>
    \A s \in seen : Sees(log, call[asker].key, floor[asker], done, s)

RInv ==
  /\ Typed /\ Working /\ Room /\ Staged /\ Numbers /\ Reads /\ Agrees
  /\ Asking /\ Seeing

-----------------------------------------------------------------------------
(***************************************************************************)
(* The writes and what they leave.                                         *)
(***************************************************************************)
\* There is such a list for every number of writes.
LEMMA ResultsExist ==
  ASSUME NEW l
  PROVE  \A n \in Nat : \E f : Results(f, l, n)
<1> DEFINE S == {n \in Nat : \E f : Results(f, l, n)}
<1>1. 0 \in S
  <2> DEFINE f == [i \in 0 .. 0 |-> Empty]
  <2>1. Results(f, l, 0)
    BY DEF Results
  <2> QED
    BY <2>1
<1>2. ASSUME NEW n \in Nat, n \in S PROVE n + 1 \in S
  <2>1. PICK f : Results(f, l, n)
    BY <1>2
  <2> DEFINE g == [i \in 0 .. n + 1 |->
                     IF i = n + 1 THEN Effect(f[n], l[n + 1]) ELSE f[i]]
  <2>2. \A i \in 0 .. n + 1 :
          g[i] = IF i = 0 THEN Empty ELSE Effect(g[i - 1], l[i])
    <3> SUFFICES ASSUME NEW i \in 0 .. n + 1
                 PROVE  g[i] = IF i = 0 THEN Empty ELSE Effect(g[i - 1], l[i])
      OBVIOUS
    <3>1. CASE i = n + 1
      BY <3>1
    <3>2. CASE i # n + 1
      <4>1. i \in 0 .. n /\ g[i] = f[i] /\ (i # 0 => g[i - 1] = f[i - 1])
        BY <3>2
      <4>2. f[i] = IF i = 0 THEN Empty ELSE Effect(f[i - 1], l[i])
        BY <2>1, <4>1 DEF Results
      <4> QED
        BY <4>1, <4>2
    <3> QED
      BY <3>1, <3>2
  <2>3. Results(g, l, n + 1)
    BY <2>2 DEF Results
  <2> QED
    BY <2>3
<1> HIDE DEF S
<1>3. \A n \in Nat : n \in S
  BY <1>1, <1>2, NatSetInduction
<1> QED
  BY <1>3 DEF S

\* Two such lists agree as far as both go and their writes are the same.
LEMMA ResultsUnique ==
  ASSUME NEW f, NEW g, NEW l, NEW h, NEW m \in Nat, NEW n \in Nat, m <= n,
         Results(f, l, m), Results(g, h, n), \A i \in 1 .. m : l[i] = h[i]
  PROVE  \A i \in 0 .. m : f[i] = g[i]
<1> DEFINE S == {i \in Nat : i <= m => f[i] = g[i]}
<1>1. 0 \in S
  <2>1. f[0] = Empty /\ g[0] = Empty
    BY DEF Results
  <2> QED
    BY <2>1
<1>2. ASSUME NEW i \in Nat, i \in S PROVE i + 1 \in S
  <2> SUFFICES ASSUME i + 1 <= m PROVE f[i + 1] = g[i + 1]
    OBVIOUS
  <2>1. i + 1 \in 0 .. m /\ i + 1 \in 0 .. n /\ i + 1 # 0 /\ (i + 1) - 1 = i
    OBVIOUS
  <2>2. f[i + 1] = Effect(f[i], l[i + 1]) /\ g[i + 1] = Effect(g[i], h[i + 1])
    BY <2>1 DEF Results
  <2>3. f[i] = g[i] /\ l[i + 1] = h[i + 1]
    BY <1>2, <2>1
  <2> QED
    BY <2>2, <2>3
<1> HIDE DEF S
<1>3. \A i \in Nat : i \in S
  BY <1>1, <1>2, NatSetInduction
<1> QED
  BY <1>3 DEF S

LEMMA ResultExists ==
  ASSUME NEW l, NEW n \in Nat
  PROVE  \E f : Results(f, l, n) /\ Result(l, n) = f[n]
<1> DEFINE f == CHOOSE x : Results(x, l, n)
<1>1. Results(f, l, n)
  BY ResultsExist
<1>2. Result(l, n) = f[n]
  BY DEF Result
<1> HIDE DEF f
<1> QED
  BY <1>1, <1>2

\* It does not depend on the writes behind them.
LEMMA ResultKept ==
  ASSUME NEW l, NEW h, NEW n \in Nat, \A i \in 1 .. n : l[i] = h[i]
  PROVE  Result(l, n) = Result(h, n)
<1>1. PICK f : Results(f, l, n) /\ Result(l, n) = f[n]
  BY ResultExists
<1>2. PICK g : Results(g, h, n) /\ Result(h, n) = g[n]
  BY ResultExists
<1>3. n <= n /\ n \in 0 .. n
  OBVIOUS
<1>4. \A i \in 0 .. n : f[i] = g[i]
  BY <1>1, <1>2, <1>3, ResultsUnique
<1> QED
  BY <1>1, <1>2, <1>3, <1>4

\* No write leaves an empty table, and each write has its effect.
LEMMA ResultNext ==
  ASSUME NEW l
  PROVE  /\ Result(l, 0) = Empty
         /\ \A n \in Nat : Result(l, n + 1) = Effect(Result(l, n), l[n + 1])
<1>1. Result(l, 0) = Empty
  BY ResultExists DEF Results
<1>2. ASSUME NEW n \in Nat PROVE Result(l, n + 1) = Effect(Result(l, n), l[n + 1])
  <2>1. PICK f : Results(f, l, n) /\ Result(l, n) = f[n]
    BY ResultExists
  <2>2. PICK g : Results(g, l, n + 1) /\ Result(l, n + 1) = g[n + 1]
    BY ResultExists
  <2>3. g[n + 1] = Effect(g[n], l[n + 1])
    BY <2>2 DEF Results
  <2>4. n <= n + 1 /\ n \in 0 .. n
    OBVIOUS
  <2>5. \A i \in 0 .. n : f[i] = g[i]
    BY <2>1, <2>2, <2>4, ResultsUnique
  <2> QED
    BY <2>1, <2>2, <2>3, <2>4, <2>5
<1> QED
  BY <1>1, <1>2

\* The model's own definition says the same.
LEMMA AfterResult ==
  ASSUME NEW n \in Nat
  PROVE  After(n) = Result(log, n)
BY DEF After, Result, Results, Empty, Effect

\* Every key has nothing or what can be carried of a value.
LEMMA ResultTyped ==
  ASSUME NEW l \in Seq(Entry), NEW n \in 0 .. Len(l)
  PROVE  Result(l, n) \in [Key -> {Absent} \cup {Carried(v) : v \in Value}]
<1> DEFINE T == [Key -> {Absent} \cup {Carried(v) : v \in Value}]
           S == {i \in Nat : i <= Len(l) => Result(l, i) \in T}
<1>1. 0 \in S
  BY ResultNext DEF Empty
<1>2. ASSUME NEW i \in Nat, i \in S PROVE i + 1 \in S
  <2> SUFFICES ASSUME i + 1 <= Len(l) PROVE Result(l, i + 1) \in T
    OBVIOUS
  <2>1. Result(l, i) \in T
    BY <1>2
  <2>2. l[i + 1] \in Entry
    OBVIOUS
  <2>3. Result(l, i + 1) = Effect(Result(l, i), l[i + 1])
    BY ResultNext
  <2> HIDE DEF T
  <2>4. \A s \in T, w \in Entry : Effect(s, w) \in T
    BY DEF Effect, Entry, T
  <2> QED
    BY <2>1, <2>2, <2>3, <2>4
<1> HIDE DEF S
<1>3. \A i \in Nat : i \in S
  BY <1>1, <1>2, NatSetInduction
<1>4. n \in Nat /\ n <= Len(l)
  OBVIOUS
<1> QED
  BY <1>3, <1>4 DEF S

\* A log that goes on.
GoesOn(l, h) == Len(l) <= Len(h) /\ \A i \in 1 .. Len(l) : h[i] = l[i]

LEMMA AppendGoesOn ==
  ASSUME NEW l \in Seq(Entry), NEW w \in Entry
  PROVE  /\ Append(l, w) \in Seq(Entry) /\ Len(Append(l, w)) = Len(l) + 1
         /\ GoesOn(l, Append(l, w)) /\ Append(l, w)[Len(l) + 1] = w
BY AppendProperties DEF GoesOn

\* What was shown once still is when the log and the table go on.
LEMMA ShowsKept ==
  ASSUME NEW l \in Seq(Entry), NEW h \in Seq(Entry), GoesOn(l, h),
         NEW lo \in Nat, NEW d \in Nat, NEW e \in Nat, d <= e, d <= Len(l),
         NEW key, NEW a, Shows(l, key, lo, d, a)
  PROVE  Shows(h, key, lo, e, a)
<1>1. Len(l) \in Nat /\ Len(h) \in Nat /\ Len(l) <= Len(h)
  BY DEF GoesOn
<1>2. ASSUME NEW m \in lo .. d, Result(l, m)[key] = a
      PROVE  Shows(h, key, lo, e, a)
  <2>1. m \in Nat /\ m \in lo .. e /\ m <= Len(l)
    BY <1>1
  <2>2. \A i \in 1 .. m : l[i] = h[i]
    BY <1>1, <2>1 DEF GoesOn
  <2>3. Result(l, m) = Result(h, m)
    BY <2>1, <2>2, ResultKept
  <2> QED
    BY <1>2, <2>1, <2>3 DEF Shows
<1>3. ASSUME a = Absent, NEW m \in lo + 1 .. d + 1,
             m <= Len(l), l[m].op = "put", l[m].key = key
      PROVE  Shows(h, key, lo, e, a)
  <2>1. m \in 1 .. Len(l) /\ m <= Len(h) /\ m \in lo + 1 .. e + 1
    BY <1>1, <1>3
  <2>2. h[m] = l[m]
    BY <2>1 DEF GoesOn
  <2> QED
    BY <1>3, <2>1, <2>2 DEF Shows
<1> QED
  BY <1>2, <1>3 DEF Shows

LEMMA SawKept ==
  ASSUME NEW l \in Seq(Entry), NEW h \in Seq(Entry), GoesOn(l, h),
         NEW d \in Nat, NEW e \in Nat, d <= e, d <= Len(l),
         NEW n \in Nat, NEW o \in Nat, n <= o,
         NEW f \in Nat, NEW p, NEW r, NEW k \in Requests \cup {NoCall}, NEW t,
         NEW g, Saw(l, d, n, f, p, r, k, t, g)
  PROVE  Saw(h, e, o, f, p, r, k, t, g)
<1>1. ASSUME p = "wait", r # None, k.op = "verify", r = 0 PROVE k.n < o
  <2>1. k.n < n
    BY <1>1 DEF Saw
  <2>2. k.n \in Int
    BY DEF Requests, NoCall
  <2> QED
    BY <2>1, <2>2
<1>2. ASSUME p = "wait", r # None, k.op = "get", ~g PROVE Shows(h, k.key, f, e, r)
  <2>1. Shows(l, k.key, f, d, r)
    BY <1>2 DEF Saw
  <2> QED
    BY <2>1, ShowsKept
<1>3. ASSUME p = "back", t # Failed, k.op = "get", ~g PROVE Shows(h, k.key, f, e, t)
  <2>1. Shows(l, k.key, f, d, t)
    BY <1>3 DEF Saw
  <2> QED
    BY <2>1, ShowsKept
<1> QED
  BY <1>1, <1>2, <1>3 DEF Saw

LEMMA ToldKept ==
  ASSUME NEW l \in Seq(Entry), NEW h \in Seq(Entry), GoesOn(l, h),
         NEW c, NEW p, NEW r, NEW k, NEW t, NEW g, Told(l, c, p, r, k, t, g)
  PROVE  Told(h, c, p, r, k, t, g)
<1>1. ASSUME NEW a, NumberOf(l, c, k, a) PROVE NumberOf(h, c, k, a)
  <2>1. Len(l) \in Nat /\ Len(h) \in Nat /\ Len(l) <= Len(h)
    BY DEF GoesOn
  <2>2. a \in 0 .. Len(h) - 1 /\ a + 1 \in 1 .. Len(l)
    BY <1>1, <2>1 DEF NumberOf
  <2>3. h[a + 1] = l[a + 1]
    BY <2>2 DEF GoesOn
  <2> QED
    BY <1>1, <2>2, <2>3 DEF NumberOf
<1> QED
  BY <1>1 DEF Told

LEMMA SeesKept ==
  ASSUME NEW l \in Seq(Entry), NEW h \in Seq(Entry), GoesOn(l, h),
         NEW lo \in Nat, NEW d \in Nat, NEW e \in Nat, d <= e, d <= Len(l),
         NEW key, NEW s, Sees(l, key, lo, d, s)
  PROVE  Sees(h, key, lo, e, s)
<1>1. PICK a : Same(s, a) /\ Shows(l, key, lo, d, a)
  BY DEF Sees
<1>2. Shows(h, key, lo, e, a)
  BY <1>1, ShowsKept
<1> QED
  BY <1>1, <1>2 DEF Sees

\* What the table has for a key is what the key may show.
LEMMA StoreShows ==
  ASSUME NEW l, NEW d \in Nat, NEW f \in Nat, f <= d, NEW key, NEW s,
         \/ Same(s, Result(l, d)[key])
         \/ /\ s = Absent /\ d + 1 <= Len(l)
            /\ l[d + 1].op = "put" /\ l[d + 1].key = key
  PROVE  Sees(l, key, f, d, s)
<1>1. d \in f .. d /\ d + 1 \in f + 1 .. d + 1
  OBVIOUS
<1>2. CASE Same(s, Result(l, d)[key])
  <2>1. Shows(l, key, f, d, Result(l, d)[key])
    BY <1>1 DEF Shows
  <2> QED
    BY <1>2, <2>1 DEF Sees
<1>3. CASE /\ s = Absent /\ d + 1 <= Len(l)
           /\ l[d + 1].op = "put" /\ l[d + 1].key = key
  <2>1. Shows(l, key, f, d, Absent)
    BY <1>1, <1>3 DEF Shows
  <2>2. Same(s, Absent)
    BY <1>3 DEF Same
  <2> QED
    BY <2>1, <2>2 DEF Sees
<1> QED
  BY <1>2, <1>3

-----------------------------------------------------------------------------
(***************************************************************************)
(* What a step leaves alone.                                               *)
(***************************************************************************)

\* A step that leaves the worker, the log and the table alone.
LEMMA WorkerStays ==
  ASSUME RInv, UNCHANGED <<log, done, op_count, store, wpc, struck>>
  PROVE  Working' /\ Agrees'
BY DEF RInv, Working, Agrees, Task

\* A step of client c, or of the server for it.
LEMMA OneMoves ==
  ASSUME RInv, NEW c \in Client,
         log' \in Seq(Entry), GoesOn(log, log'), UNCHANGED <<done, op_count, struck>>,
         known' \in Nat, known <= known', known' <= done,
         \A d \in Client \ {c} :
           /\ pc'[d] = pc[d] /\ link'[d] = link[d] /\ inq'[d] = inq[d]
           /\ reply'[d] = reply[d] /\ call'[d] = call[d] /\ ret'[d] = ret[d]
           /\ floor'[d] = floor[d] /\ garbled'[d] = garbled[d],
         Stage(pc'[c], link'[c], inq'[c], reply'[c], call'[c]),
         Told(log', c, pc'[c], reply'[c], call'[c], ret'[c], garbled'[c]),
         ~struck => Saw(log', done, op_count, floor'[c], pc'[c], reply'[c], call'[c],
                        ret'[c], garbled'[c]),
         floor'[c] <= known'
  PROVE  Staged' /\ Numbers' /\ Reads'
<1>1. done \in Nat /\ op_count \in Nat /\ known \in Nat /\ log \in Seq(Entry)
      /\ done <= Len(log)
  BY DEF RInv, Typed, Working
<1>2. ASSUME NEW d \in Client \ {c}
      PROVE  /\ Stage(pc'[d], link'[d], inq'[d], reply'[d], call'[d])
             /\ Told(log', d, pc'[d], reply'[d], call'[d], ret'[d], garbled'[d])
             /\ ~struck => Saw(log', done, op_count, floor'[d], pc'[d], reply'[d],
                               call'[d], ret'[d], garbled'[d])
             /\ floor'[d] <= known'
  <2>1. /\ Stage(pc[d], link[d], inq[d], reply[d], call[d])
        /\ Told(log, d, pc[d], reply[d], call[d], ret[d], garbled[d])
        /\ ~struck => Saw(log, done, op_count, floor[d], pc[d], reply[d], call[d],
                          ret[d], garbled[d])
        /\ floor[d] <= known /\ floor[d] \in Nat
        /\ call[d] \in Requests \cup {NoCall}
    BY DEF RInv, Staged, Numbers, Reads, Typed
  <2>2. Told(log', d, pc[d], reply[d], call[d], ret[d], garbled[d])
    BY <1>1, <2>1, ToldKept
  <2>3. ~struck => Saw(log', done, op_count, floor[d], pc[d], reply[d], call[d],
                       ret[d], garbled[d])
    <3>1. done <= done /\ op_count <= op_count
      BY <1>1
    <3> QED
      BY <1>1, <2>1, <3>1, SawKept
  <2>4. floor[d] <= known'
    BY <1>1, <2>1
  <2> QED
    BY <2>1, <2>2, <2>3, <2>4
<1>3. Staged'
  BY <1>2 DEF Staged
<1>4. Numbers'
  BY <1>2 DEF Numbers
<1>5. Reads'
  BY <1>2 DEF Reads
<1> QED
  BY <1>3, <1>4, <1>5

\* A step of the worker.
LEMMA NobodyMoves ==
  ASSUME RInv, struck => struck',
         UNCHANGED <<log, pc, link, inq, reply, call, ret, garbled, floor, known>>,
         done' \in Nat, done <= done', op_count' \in Nat, op_count <= op_count'
  PROVE  Staged' /\ Numbers' /\ Reads'
<1>1. done \in Nat /\ op_count \in Nat /\ known \in Nat /\ log \in Seq(Entry)
      /\ done <= Len(log)
  BY DEF RInv, Typed, Working
<1>2. GoesOn(log, log)
  BY <1>1 DEF GoesOn
<1>3. Staged' /\ Numbers'
  BY DEF RInv, Staged, Numbers
<1>4. ASSUME NEW d \in Client
      PROVE  ~struck' => Saw(log, done', op_count', floor[d], pc[d], reply[d],
                             call[d], ret[d], garbled[d])
  <2>1. /\ ~struck => Saw(log, done, op_count, floor[d], pc[d], reply[d], call[d],
                          ret[d], garbled[d])
        /\ floor[d] \in Nat /\ call[d] \in Requests \cup {NoCall}
    BY DEF RInv, Reads, Typed
  <2> QED
    BY <1>1, <1>2, <2>1, SawKept
<1>5. known <= done' /\ \A d \in Client : floor[d] <= known
  <2>1. known <= done /\ \A d \in Client : floor[d] <= known
    BY DEF RInv, Reads
  <2> QED
    BY <1>1, <2>1
<1>6. Reads'
  BY <1>4, <1>5 DEF Reads
<1> QED
  BY <1>3, <1>6

\* The writes on their way do not become more.
LEMMA RoomKept ==
  ASSUME RemoteAssumption, RInv, Len(log') = Len(log), Writing' \subseteq Writing
  PROVE  Room'
<1>1. IsFiniteSet(Writing)
  BY FS_Subset DEF RemoteAssumption, Writing
<1>2. Cardinality(Writing') <= Cardinality(Writing) /\ IsFiniteSet(Writing')
  BY <1>1, FS_Subset
<1>3. /\ Cardinality(Writing) \in Nat /\ Cardinality(Writing') \in Nat
      /\ Len(log) \in Nat /\ MaxOps \in Nat
  BY <1>1, <1>2, FS_CardinalityType DEF RemoteAssumption, RInv, Typed
<1> QED
  BY <1>2, <1>3 DEF RInv, Room

\* What is a reply.
LEMMA RepliesAre ==
  /\ None \in Replies /\ Absent \in Replies /\ Junked \subseteq Replies
  /\ \A x \in Int : x \in Replies
  /\ \A S \in SUBSET Key : S \in Replies
  /\ \A v \in Value : Carried(v) \in Replies
BY DEF Replies

\* Nothing is asked and nothing answered to a client that is in no call.
LEMMA OutsideCalls ==
  ASSUME NEW l, NEW d, NEW n, NEW f, NEW c, NEW p, NEW r, NEW k, NEW t, NEW g,
         \/ p \in {"half", "ended"}
         \/ p = "wait" /\ r = None
         \/ p = "back" /\ (t = Failed \/ g)
  PROVE  Told(l, c, p, r, k, t, g) /\ Saw(l, d, n, f, p, r, k, t, g)
BY DEF Told, Saw

-----------------------------------------------------------------------------
(***************************************************************************)
(* The steps of a client.                                                  *)
(***************************************************************************)

\* What the invariant says of one client.
LEMMA OneClient ==
  ASSUME RInv, NEW c \in Client
  PROVE  /\ Stage(pc[c], link[c], inq[c], reply[c], call[c])
         /\ Told(log, c, pc[c], reply[c], call[c], ret[c], garbled[c])
         /\ ~struck => Saw(log, done, op_count, floor[c], pc[c], reply[c], call[c],
                           ret[c], garbled[c])
         /\ floor[c] <= known /\ floor[c] \in Nat
         /\ known \in Nat /\ known <= done /\ known <= known
         /\ log \in Seq(Entry) /\ GoesOn(log, log)
BY DEF RInv, Staged, Numbers, Reads, Typed, GoesOn

\* A client other than the one whose get is being answered moves.
LEMMA AskerStays ==
  ASSUME RInv, NEW c \in Client,
         pc[c] # "wait" \/ reply[c] # None \/ link[c] = "reset",
         UNCHANGED <<main, asker, seen, struck, log, done>>,
         \A d \in Client \ {c} :
           /\ pc'[d] = pc[d] /\ link'[d] = link[d] /\ inq'[d] = inq[d]
           /\ reply'[d] = reply[d] /\ call'[d] = call[d] /\ floor'[d] = floor[d]
  PROVE  Asking' /\ Seeing'
<1>1. Asking /\ Seeing
  BY DEF RInv
<1>2. main = "get" => asker \in Client \ {c}
  BY <1>1 DEF Asking
<1>3. main = "get" =>
        /\ pc'[asker] = pc[asker] /\ link'[asker] = link[asker]
        /\ inq'[asker] = inq[asker] /\ reply'[asker] = reply[asker]
        /\ call'[asker] = call[asker] /\ floor'[asker] = floor[asker]
  BY <1>2
<1> QED
  BY <1>1, <1>3 DEF Asking, Seeing

\* The steps that leave the server alone.
LEMMA ClientSteps ==
  ASSUME RemoteAssumption, RInv, NEW c \in Client, UNCHANGED serverVars,
         pc[c] # "wait" \/ reply[c] # None \/ link[c] = "reset",
         \A d \in Client \ {c} :
           /\ pc'[d] = pc[d] /\ link'[d] = link[d] /\ inq'[d] = inq[d]
           /\ reply'[d] = reply[d] /\ call'[d] = call[d] /\ floor'[d] = floor[d],
         Typed', Staged', Numbers', Reads', Writing' \subseteq Writing
  PROVE  RInv'
<1>1. Working' /\ Agrees'
  BY WorkerStays DEF serverVars, tableVars
<1>2. Room'
  BY RoomKept DEF serverVars
<1>3. Asking' /\ Seeing'
  BY AskerStays DEF serverVars, tableVars, walkVars
<1> QED
  BY <1>1, <1>2, <1>3 DEF RInv

LEMMA ConnectKeeps ==
  ASSUME RemoteAssumption, RInv, NEW c \in Client, Connect(c)
  PROVE  RInv'
<1> USE DEF Connect, serverVars, tableVars, walkVars, clientVars
<1>1. Typed'
  BY DEF RInv, Typed
<1>2. Stage(pc'[c], link'[c], inq'[c], reply'[c], call'[c])
  BY OneClient DEF Stage, RInv, Typed
<1>3. \A d \in Client \ {c} : link'[d] = link[d]
  BY DEF RInv, Typed
<1>4. Staged' /\ Numbers' /\ Reads'
  BY <1>2, <1>3, OneClient, OneMoves
<1>5. Writing' \subseteq Writing
  BY DEF Writing
<1>6. pc[c] # "wait"
  BY DEF Between
<1> QED
  BY <1>1, <1>3, <1>4, <1>5, <1>6, ClientSteps

\* The client's process ends, when no half of a request is left to read.
LEMMA EndsKeeps ==
  ASSUME RemoteAssumption, RInv, NEW c \in Client, Ends(c),
         link[c] = "up" => inq[c] \notin {1, 2},
         pc[c] # "wait" \/ reply[c] # None \/ link[c] = "reset"
  PROVE  RInv'
<1> USE DEF Ends, serverVars, tableVars, walkVars
<1>1. Typed'
  BY RepliesAre DEF RInv, Typed
<1>2. Stage(pc'[c], link'[c], inq'[c], reply'[c], call'[c])
  BY OneClient DEF Stage, RInv, Typed
<1>3. \A d \in Client \ {c} :
        /\ pc'[d] = pc[d] /\ reply'[d] = reply[d] /\ call'[d] = call[d]
        /\ ret'[d] = ret[d] /\ floor'[d] = floor[d] /\ garbled'[d] = garbled[d]
        /\ link'[d] = link[d] /\ inq'[d] = inq[d]
  BY DEF RInv, Typed
<1>4. pc'[c] = "ended" /\ floor'[c] = 0
  BY DEF RInv, Typed
<1>5. floor'[c] <= known'
  BY <1>4, OneClient
<1>6. /\ Told(log', c, pc'[c], reply'[c], call'[c], ret'[c], garbled'[c])
      /\ Saw(log', done, op_count, floor'[c], pc'[c], reply'[c], call'[c], ret'[c],
             garbled'[c])
  BY <1>4, OutsideCalls
<1>7. Staged' /\ Numbers' /\ Reads'
  <2>1. /\ log' \in Seq(Entry) /\ GoesOn(log, log')
        /\ UNCHANGED <<done, op_count, struck>>
        /\ known' \in Nat /\ known <= known' /\ known' <= done
    BY OneClient
  <2> HIDE DEF Ends
  <2> QED
    BY <2>1, <1>2, <1>3, <1>5, <1>6, OneMoves
<1>8. Writing' \subseteq Writing
  <2>1. \A d \in Writing' : d # c
    BY <1>4 DEF Writing
  <2> QED
    BY <1>3, <2>1 DEF Writing
<1> HIDE DEF Ends
<1> QED
  BY <1>1, <1>3, <1>7, <1>8, ClientSteps DEF Ends

\* A call that returns r, whatever came of its reply.
LEMMA ReturnsKeeps ==
  ASSUME RemoteAssumption, RInv, NEW c \in Client, NEW r \in Replies \cup {Failed},
         Returns(c, r), UNCHANGED <<serverVars, link, inq, floor>>,
         \/ call' = call
         \/ call' = [call EXCEPT ![c] = NoCall] /\ r = Failed,
         reply' = [reply EXCEPT ![c] = None], garbled' \in [Client -> BOOLEAN],
         \A d \in Client \ {c} : garbled'[d] = garbled[d],
         known' \in Nat, known <= known', known' <= done,
         link[c] = "up" => inq[c] \notin {1, 2},
         pc[c] # "wait" \/ reply[c] # None \/ link[c] = "reset",
         \/ r = Failed \/ garbled'[c]
         \/ pc[c] = "wait" /\ reply[c] = r /\ r # None /\ garbled'[c] = garbled[c]
  PROVE  RInv'
<1> USE DEF Returns, serverVars, tableVars, walkVars
<1>1. Typed'
  <2>1. call' \in [Client -> Requests \cup {NoCall}] /\ reply' \in [Client -> Replies]
    BY RepliesAre DEF RInv, Typed
  <2>2. ret' \in [Client -> Replies \cup {Failed}]
        /\ pc' \in [Client -> {"idle", "half", "wait", "back", "ended"}]
    BY DEF RInv, Typed
  <2> QED
    BY <2>1, <2>2 DEF RInv, Typed
<1>2. pc'[c] = "back" /\ ret'[c] = r /\ reply'[c] = None
  BY DEF RInv, Typed
<1>3. Stage(pc'[c], link'[c], inq'[c], reply'[c], call'[c])
  BY <1>2, OneClient DEF Stage, RInv, Typed
<1>4. \A d \in Client \ {c} :
        /\ pc'[d] = pc[d] /\ reply'[d] = reply[d] /\ call'[d] = call[d]
        /\ ret'[d] = ret[d] /\ link'[d] = link[d] /\ inq'[d] = inq[d]
        /\ floor'[d] = floor[d]
  BY DEF RInv, Typed
<1>5. floor'[c] <= known'
  BY OneClient
<1>6. /\ Told(log', c, pc'[c], reply'[c], call'[c], ret'[c], garbled'[c])
      /\ ~struck => Saw(log', done, op_count, floor'[c], pc'[c], reply'[c], call'[c],
                        ret'[c], garbled'[c])
  <2>1. CASE r = Failed \/ garbled'[c]
    BY <1>2, <2>1, OutsideCalls
  <2>2. CASE ~(r = Failed \/ garbled'[c])
    <3>1. /\ call' = call /\ pc[c] = "wait" /\ reply[c] = r /\ r # None
          /\ garbled'[c] = garbled[c]
      BY <2>2
    <3>2. /\ Told(log, c, pc[c], reply[c], call[c], ret[c], garbled[c])
          /\ ~struck => Saw(log, done, op_count, floor[c], pc[c], reply[c], call[c],
                            ret[c], garbled[c])
      BY OneClient
    <3>3. Told(log, c, "back", None, call[c], r, garbled[c])
      BY <3>1, <3>2 DEF Told
    <3>4. ~struck => Saw(log, done, op_count, floor[c], "back", None, call[c], r,
                         garbled[c])
      BY <3>1, <3>2 DEF Saw
    <3> QED
      BY <1>2, <3>1, <3>3, <3>4
  <2> QED
    BY <2>1, <2>2
<1>7. Staged' /\ Numbers' /\ Reads'
  BY <1>3, <1>4, <1>5, <1>6, OneClient, OneMoves
<1>8. Writing' \subseteq Writing
  <2>1. \A d \in Writing' : d # c
    BY <1>2 DEF Writing
  <2> QED
    BY <1>4, <2>1 DEF Writing
<1> QED
  BY <1>1, <1>4, <1>7, <1>8, ClientSteps, SMTT(20)

\* What a reply shows to be in effect has been applied.
LEMMA ShownIsDone ==
  ASSUME RInv, NEW c \in Client, pc[c] = "wait", reply[c] # None,
         ~struck, ~garbled[c], NEW m \in Shown(c)
  PROVE  m \in Nat /\ known < m /\ m <= done
<1>1. /\ known \in Nat /\ log \in Seq(Entry) /\ floor[c] \in Nat /\ floor[c] <= known
      /\ done \in Nat /\ op_count \in Nat /\ op_count <= done /\ done <= Len(log)
  BY DEF RInv, Typed, Working, Reads
<1>2. m \in known + 1 .. Len(log)
  BY DEF Shown
<1>3. Saw(log, done, op_count, floor[c], pc[c], reply[c], call[c], ret[c], garbled[c])
  BY OneClient
<1>4. m \in Nat /\ known < m
  BY <1>1, <1>2
<1>5. CASE call[c].op = "verify" /\ reply[c] = 0 /\ m = call[c].n + 1
  <2>1. call[c].n < op_count /\ call[c].n \in Int
    BY <1>3, <1>5 DEF Saw, RInv, Typed, Requests, NoCall
  <2> QED
    BY <1>1, <1>4, <1>5, <2>1
<1>6. CASE /\ call[c].op = "get" /\ reply[c] # Absent
           /\ \A l \in floor[c] .. m - 1 : After(l)[call[c].key] # reply[c]
  <2>1. Shows(log, call[c].key, floor[c], done, reply[c])
    BY <1>3, <1>6 DEF Saw
  <2>2. PICK l \in floor[c] .. done : Result(log, l)[call[c].key] = reply[c]
    BY <1>6, <2>1 DEF Shows
  <2>3. l \in Nat
    BY <1>1
  <2>4. After(l)[call[c].key] = reply[c]
    BY <2>2, <2>3, AfterResult
  <2>5. l \notin floor[c] .. m - 1
    BY <1>6, <2>4
  <2> QED
    BY <1>1, <1>4, <2>5
<1> QED
  BY <1>5, <1>6 DEF Shown

LEMMA ReceiveReplyKeeps ==
  ASSUME RemoteAssumption, RInv, NEW c \in Client, ReceiveReply(c)
  PROVE  RInv'
<1> USE DEF ReceiveReply
<1>1. known' \in Nat /\ known <= known' /\ known' <= done
  <2>1. CASE struck \/ garbled[c] \/ Shown(c) = {}
    BY <2>1, OneClient
  <2>2. CASE ~struck /\ ~garbled[c] /\ Shown(c) # {}
    <3>1. Shown(c) \subseteq Nat
      BY <2>2, ShownIsDone
    <3>2. \E m \in Shown(c) : \A l \in Shown(c) : m <= l
      BY <2>2, <3>1, LeastNat
    <3>3. Least(Shown(c)) \in Shown(c)
      BY <3>2 DEF Least
    <3>4. known' \in Nat /\ known < known' /\ known' <= done
      BY <2>2, <3>3, ShownIsDone
    <3> QED
      BY <3>4, OneClient
  <2> QED
    BY <2>1, <2>2
<1>2. reply[c] \in Replies \cup {Failed}
  BY DEF RInv, Typed
<1>3. link[c] = "up" => inq[c] \notin {1, 2}
  BY OneClient DEF Stage
<1>4. garbled' \in [Client -> BOOLEAN] /\ garbled' = garbled
  BY DEF RInv, Typed
<1> QED
  BY <1>1, <1>2, <1>3, <1>4, ReturnsKeeps

LEMMA RefusedKeeps ==
  ASSUME RemoteAssumption, RInv, NEW c \in Client, Refused(c)
  PROVE  RInv'
<1> USE DEF Refused
<1>1. pc[c] # "wait" /\ pc[c] # "half"
  BY DEF Between
<1>2. reply[c] = None /\ (link[c] = "up" => inq[c] \notin {1, 2})
  BY <1>1, OneClient DEF Stage
<1>3. /\ reply' = [reply EXCEPT ![c] = None]
      /\ garbled' \in [Client -> BOOLEAN] /\ garbled' = garbled
  BY <1>2 DEF RInv, Typed
<1>4. known' \in Nat /\ known <= known' /\ known' <= done
  BY OneClient
<1> QED
  BY <1>1, <1>2, <1>3, <1>4, ReturnsKeeps

\* What comes from memory that was freed is a reply.
LEMMA AnythingTyped ==
  ASSUME NEW op, NEW a \in Anything(op)
  PROVE  a \in Replies
BY RepliesAre DEF Anything

\* ReadFails, where the process goes on with freed memory.
LEMMA ReadFailsKeeps ==
  ASSUME RemoteAssumption, RInv, NEW c \in Client, ReadFails(c)
  PROVE  RInv'
<1> USE DEF ReadFails
<1>1. CASE Ends(c)
  BY <1>1, EndsKeeps
<1>2. CASE ~Ends(c)
  <2>1. PICK a \in Anything(call[c].op) : Returns(c, a)
    BY <1>2
  <2>2. pc[c] = "wait" /\ link[c] = "reset"
        /\ garbled' = [garbled EXCEPT ![c] = TRUE]
        /\ UNCHANGED <<serverVars, link, inq, reply, call, floor, known>>
    BY <1>2
  <2>3. garbled' \in [Client -> BOOLEAN] /\ garbled'[c]
        /\ \A d \in Client \ {c} : garbled'[d] = garbled[d]
    BY <2>2 DEF RInv, Typed
  <2>4. known' \in Nat /\ known <= known' /\ known' <= done
    BY <2>2, OneClient
  <2>5. reply[c] = None
    BY <2>2, OneClient DEF Stage
  <2>6. reply' = [reply EXCEPT ![c] = None]
    BY <2>2, <2>5 DEF RInv, Typed
  <2>7. a \in Replies \cup {Failed}
    BY AnythingTyped
  <2> QED
    BY <2>1, <2>2, <2>3, <2>4, <2>6, <2>7, ReturnsKeeps
<1> QED
  BY <1>1, <1>2

\* A call begins: there is room for the write it may be.
LEMMA SendLengthRoom ==
  ASSUME RemoteAssumption, RInv, NEW c \in Client, NEW r \in Requests, SendLength(c, r)
  PROVE  Room'
<1> USE DEF SendLength, serverVars, tableVars, walkVars
<1>1. pc[c] # "half" /\ pc[c] # "wait"
  BY DEF Between
<1>2. c \notin Writing
  BY <1>1 DEF Writing
<1>3. \A d \in Client \ {c} : pc'[d] = pc[d] /\ call'[d] = call[d]
  BY DEF RInv, Typed
<1>4. call'[c] = r
  BY DEF RInv, Typed
<1>5. CASE r.op \notin {"put", "del"}
  <2>1. \A d \in Writing' : d # c
    BY <1>4, <1>5 DEF Writing
  <2>2. Writing' \subseteq Writing
    BY <1>3, <2>1 DEF Writing
  <2> QED
    BY <2>2, RoomKept
<1>6. CASE r.op \in {"put", "del"}
  <2>1. Len(log) + Cardinality(Writing) < MaxOps
    BY <1>6 DEF RoomFor
  <2>2. IsFiniteSet(Writing)
    BY FS_Subset DEF RemoteAssumption, Writing
  <2>3. Writing' \subseteq Writing \cup {c}
    BY <1>3 DEF Writing
  <2>4. /\ Cardinality(Writing \cup {c}) = Cardinality(Writing) + 1
        /\ IsFiniteSet(Writing \cup {c})
    BY <1>2, <2>2, FS_AddElement
  <2>5. /\ Cardinality(Writing') <= Cardinality(Writing \cup {c})
        /\ IsFiniteSet(Writing')
    BY <2>3, <2>4, FS_Subset
  <2>6. /\ Cardinality(Writing) \in Nat /\ Cardinality(Writing') \in Nat
        /\ Len(log) \in Nat /\ MaxOps \in Nat
    BY <2>2, <2>5, FS_CardinalityType DEF RemoteAssumption, RInv, Typed
  <2> QED
    BY <2>1, <2>4, <2>5, <2>6 DEF Room
<1> QED
  BY <1>5, <1>6

LEMMA SendLengthKeeps ==
  ASSUME RemoteAssumption, RInv, NEW c \in Client, NEW r \in Requests, SendLength(c, r)
  PROVE  RInv'
<1> USE DEF SendLength, serverVars, tableVars, walkVars
<1>1. floor' \in [Client -> Nat] /\ inq' \in [Client -> 0 .. 2]
      /\ garbled' \in [Client -> BOOLEAN]
      /\ ret' \in [Client -> Replies \cup {Failed}]
  BY RepliesAre DEF RInv, Typed
<1>2. pc' \in [Client -> {"idle", "half", "wait", "back", "ended"}]
      /\ call' \in [Client -> Requests \cup {NoCall}]
  BY DEF RInv, Typed
<1>3. Typed'
  BY <1>1, <1>2 DEF RInv, Typed
<1>4. pc'[c] = "half" /\ call'[c] = r /\ inq'[c] = IF link[c] = "up" THEN 1 ELSE 0
  BY DEF RInv, Typed
<1>5. pc[c] # "wait"
  BY DEF Between
<1>6. reply[c] = None
  BY <1>5, OneClient DEF Stage
<1>7. Stage(pc'[c], link'[c], inq'[c], reply'[c], call'[c])
  BY <1>4, <1>6 DEF Stage
<1>8. \A d \in Client \ {c} :
        /\ pc'[d] = pc[d] /\ inq'[d] = inq[d] /\ call'[d] = call[d]
        /\ ret'[d] = ret[d] /\ floor'[d] = floor[d] /\ garbled'[d] = garbled[d]
        /\ link'[d] = link[d] /\ reply'[d] = reply[d]
  BY DEF RInv, Typed
<1>9. floor'[c] <= known'
  <2>1. floor'[c] = IF r.op = "get" THEN known ELSE 0
    BY DEF RInv, Typed
  <2> QED
    BY <2>1, OneClient
<1>10. /\ Told(log', c, pc'[c], reply'[c], call'[c], ret'[c], garbled'[c])
       /\ Saw(log', done, op_count, floor'[c], pc'[c], reply'[c], call'[c], ret'[c],
              garbled'[c])
  BY <1>4, OutsideCalls
<1>11. Staged' /\ Numbers' /\ Reads'
  <2>1. /\ log' \in Seq(Entry) /\ GoesOn(log, log')
        /\ UNCHANGED <<done, op_count, struck>>
        /\ known' \in Nat /\ known <= known' /\ known' <= done
    BY OneClient
  <2> HIDE DEF SendLength
  <2> QED
    BY <2>1, <1>7, <1>8, <1>9, <1>10, OneMoves
<1>12. Working' /\ Agrees'
  BY WorkerStays
<1>13. Asking' /\ Seeing'
  BY <1>5, <1>8, AskerStays, SMTT(20)
<1> QED
  BY <1>3, <1>11, <1>12, <1>13, SendLengthRoom DEF RInv

LEMMA SendRequestKeeps ==
  ASSUME RemoteAssumption, RInv, NEW c \in Client, SendRequest(c)
  PROVE  RInv'
<1> USE DEF SendRequest
<1>1. inq' \in [Client -> 0 .. 2]
      /\ pc' \in [Client -> {"idle", "half", "wait", "back", "ended"}]
  BY DEF RInv, Typed
<1>2. Typed'
  BY <1>1 DEF RInv, Typed, serverVars, tableVars, walkVars
<1>3. pc'[c] = "wait" /\ inq'[c] = IF link[c] = "up" THEN 2 ELSE inq[c]
  BY DEF RInv, Typed
<1>4. reply[c] = None /\ call[c] \in Requests
  BY OneClient DEF Stage
<1>5. Stage(pc'[c], link'[c], inq'[c], reply'[c], call'[c])
  BY <1>3, <1>4 DEF Stage
<1>6. \A d \in Client \ {c} : pc'[d] = pc[d] /\ inq'[d] = inq[d]
  BY DEF RInv, Typed
<1>7. /\ Told(log', c, pc'[c], reply'[c], call'[c], ret'[c], garbled'[c])
      /\ Saw(log', done, op_count, floor'[c], pc'[c], reply'[c], call'[c], ret'[c],
             garbled'[c])
  BY <1>3, <1>4, OutsideCalls
<1>8. Staged' /\ Numbers' /\ Reads'
  BY <1>5, <1>6, <1>7, OneClient, OneMoves DEF serverVars, tableVars
<1>9. Writing' \subseteq Writing
  BY <1>6, <1>3 DEF Writing
<1> QED
  BY <1>2, <1>6, <1>8, <1>9, ClientSteps

-----------------------------------------------------------------------------
(***************************************************************************)
(* The steps of the server.                                                *)
(***************************************************************************)

\* The values clients put are sequences of integers.
LEMMA ValuesAreBytes ==
  ASSUME RemoteAssumption
  PROVE  \A v \in Value : v \in Seq(Int) /\ Absent # Kept(v) /\ Absent # Carried(v)
<1>1. \A v \in Value : v \in Seq(0 .. 255)
  BY DEF RemoteAssumption
<1>2. \A v \in Seq(0 .. 255) : v \in Seq(Int)
  <2>1. 0 .. 255 \subseteq Int
    OBVIOUS
  <2> QED
    BY <2>1, SeqMonotonic
<1> QED
  BY <1>1, <1>2 DEF RemoteAssumption

\* The log grows behind the writes the worker has to do with.
LEMMA LogGrows ==
  ASSUME RInv, log' \in Seq(Entry), GoesOn(log, log'),
         UNCHANGED <<done, op_count, store, wpc, struck>>
  PROVE  Working' /\ Agrees'
<1>1. /\ done \in Nat /\ done <= Len(log) /\ Len(log) \in Nat /\ Len(log') \in Nat
      /\ Len(log) <= Len(log')
  BY DEF RInv, Typed, Working, GoesOn
<1>2. Result(log', done) = Result(log, done)
  <2>1. \A m \in 1 .. done : log[m] = log'[m]
    BY <1>1 DEF GoesOn
  <2> QED
    BY <1>1, <2>1, ResultKept
<1>3. wpc = "readd" => done < Len(log) /\ Task' = Task
  <2>1. wpc = "readd" => done < Len(log)
    BY DEF RInv, Working
  <2>2. done < Len(log) => done + 1 \in 1 .. Len(log)
    BY <1>1
  <2> QED
    BY <2>1, <2>2 DEF Task, GoesOn
<1>4. Working'
  <2>1. done <= Len(log') /\ (wpc = "readd" => done < Len(log'))
    BY <1>1, <1>3
  <2> QED
    BY <1>3, <2>1 DEF RInv, Working
<1>5. Agrees'
  BY <1>2, <1>3 DEF RInv, Agrees
<1> QED
  BY <1>4, <1>5

\* The answer to a write.
LEMMA HandleWrite ==
  ASSUME RemoteAssumption, RInv, NEW c \in Client, Handle(c), call[c].op \in Writes
  PROVE  RInv'
<1> USE DEF Handle, clientVars, tableVars, walkVars
<1>1. pc[c] = "wait" /\ reply[c] = None /\ call[c] \in Requests
  BY OneClient DEF Stage
<1>2. log' = Append(log, Write(c)) /\ reply' = [reply EXCEPT ![c] = Len(log)]
      /\ UNCHANGED <<main, asker, seen, freed>> /\ main = "poll"
  BY DEF Numbered, Writes
<1>3. Write(c) \in Entry
  BY <1>1 DEF Write, Entry, Requests, Writes
<1>4. log \in Seq(Entry) /\ Len(log) \in Nat
  BY DEF RInv, Typed
<1>5. /\ log' \in Seq(Entry) /\ Len(log') = Len(log) + 1
      /\ GoesOn(log, log') /\ log'[Len(log) + 1] = Write(c)
  BY <1>2, <1>3, <1>4, AppendGoesOn
<1>6. reply'[c] = Len(log) /\ inq'[c] = 0 /\ reply'[c] # None
  BY <1>2, <1>4 DEF RInv, Typed, RemoteAssumption
<1>7. Typed'
  <2>1. reply' \in [Client -> Replies] /\ inq' \in [Client -> 0 .. 2]
    BY <1>2, <1>4, RepliesAre DEF RInv, Typed
  <2> QED
    BY <1>2, <1>5, <2>1 DEF RInv, Typed
<1>8. Stage(pc'[c], link'[c], inq'[c], reply'[c], call'[c])
  BY <1>1, <1>6 DEF Stage
<1>9. \A d \in Client \ {c} : inq'[d] = inq[d] /\ reply'[d] = reply[d]
  BY <1>2 DEF RInv, Typed
<1>10. Told(log', c, pc'[c], reply'[c], call'[c], ret'[c], garbled'[c])
  <2>1. NumberOf(log', c, call[c], Len(log))
    <3>1. Len(log) \in 0 .. Len(log') - 1
      BY <1>4, <1>5
    <3> QED
      BY <1>5, <3>1 DEF NumberOf, Write
  <2> QED
    BY <1>1, <1>6, <2>1 DEF Told
<1>11. Saw(log', done, op_count, floor'[c], pc'[c], reply'[c], call'[c], ret'[c],
           garbled'[c])
  BY <1>1 DEF Saw, Writes
<1>12. Staged' /\ Numbers' /\ Reads'
  BY <1>5, <1>8, <1>9, <1>10, <1>11, OneClient, OneMoves
<1>13. Working' /\ Agrees'
  BY <1>5, LogGrows
<1>14. Room'
  <2>1. c \in Writing /\ IsFiniteSet(Writing)
    BY <1>1, FS_Subset DEF RemoteAssumption, Writing, Writes
  <2>2. Writing' \subseteq Writing \ {c}
    BY <1>6, <1>9 DEF Writing
  <2>3. /\ Cardinality(Writing \ {c}) = Cardinality(Writing) - 1
        /\ IsFiniteSet(Writing \ {c})
    BY <2>1, FS_RemoveElement
  <2>4. Cardinality(Writing') <= Cardinality(Writing \ {c}) /\ IsFiniteSet(Writing')
    BY <2>2, <2>3, FS_Subset
  <2>5. /\ Cardinality(Writing) \in Nat /\ Cardinality(Writing') \in Nat /\ MaxOps \in Nat
    BY <2>1, <2>4, FS_CardinalityType DEF RemoteAssumption
  <2> QED
    BY <1>4, <1>5, <2>3, <2>4, <2>5 DEF RInv, Room
<1>15. Asking' /\ Seeing'
  BY <1>2 DEF Asking, Seeing
<1> QED
  BY <1>7, <1>12, <1>13, <1>14, <1>15 DEF RInv

\* What the table answers to verify.
LEMMA AnswersTyped ==
  ASSUME NEW c \in Client, NEW a \in Answers(c)
  PROVE  /\ a \in Replies
         /\ (~struck /\ call[c].op = "verify" /\ a = 0) => call[c].n < op_count
<1>1. CASE call[c].op = "verify" /\ ~struck
  BY <1>1, RepliesAre DEF Answers, Verified
<1>2. CASE ~(call[c].op = "verify" /\ ~struck)
  BY <1>2, AnythingTyped DEF Answers
<1> QED
  BY <1>1, <1>2

\* The answer to a call that writes nothing and does not walk.
LEMMA HandleRead ==
  ASSUME RemoteAssumption, RInv, NEW c \in Client, Handle(c),
         call[c].op \in {"size", "getkeys", "verify"}
  PROVE  RInv'
<1> USE DEF Handle, clientVars, tableVars, walkVars
<1>1. pc[c] = "wait" /\ reply[c] = None /\ call[c] \in Requests
  BY OneClient DEF Stage
<1>2. PICK a \in Answers(c) : reply' = [reply EXCEPT ![c] = a] /\ log' = log
        /\ UNCHANGED <<main, asker, seen, freed>> /\ main = "poll"
  OBVIOUS
<1>3. a \in Replies
      /\ ((~struck /\ call[c].op = "verify" /\ a = 0) => call[c].n < op_count)
  BY AnswersTyped
<1>4. Typed'
  <2>1. reply' \in [Client -> Replies] /\ inq' \in [Client -> 0 .. 2]
    BY <1>2, <1>3 DEF RInv, Typed
  <2> QED
    BY <1>2, <2>1 DEF RInv, Typed
<1>5. inq'[c] = 0 /\ reply'[c] = a
  BY <1>2 DEF RInv, Typed
<1>6. Stage(pc'[c], link'[c], inq'[c], reply'[c], call'[c])
  BY <1>1, <1>5 DEF Stage
<1>7. Told(log', c, pc'[c], reply'[c], call'[c], ret'[c], garbled'[c])
  BY DEF Told, Writes
<1>8. ~struck => Saw(log', done, op_count, floor'[c], pc'[c], reply'[c], call'[c],
                     ret'[c], garbled'[c])
  BY <1>1, <1>2, <1>3, <1>5 DEF Saw
<1>9. \A d \in Client \ {c} : inq'[d] = inq[d] /\ reply'[d] = reply[d]
  BY <1>2 DEF RInv, Typed
<1>10. Staged' /\ Numbers' /\ Reads'
  BY <1>2, <1>6, <1>7, <1>8, <1>9, OneClient, OneMoves
<1>11. Working' /\ Agrees'
  BY <1>2, WorkerStays
<1>12. Room'
  <2>1. Writing' \subseteq Writing
    BY <1>1, <1>9 DEF Writing
  <2> QED
    BY <1>2, <2>1, RoomKept
<1>13. Asking' /\ Seeing'
  BY <1>2 DEF Asking, Seeing
<1> QED
  BY <1>4, <1>10, <1>11, <1>12, <1>13 DEF RInv

\* A get begins its walk over a table that holds what a key may show.
LEMMA HandleGet ==
  ASSUME RemoteAssumption, RInv, NEW c \in Client, Handle(c), call[c].op = "get"
  PROVE  RInv'
<1> USE DEF Handle, clientVars, tableVars, walkVars
<1> DEFINE k == call[c].key
<1>1. pc[c] = "wait" /\ reply[c] = None /\ call[c] \in Requests /\ k \in Key
      /\ link[c] = "up"
  BY OneClient DEF Stage, Requests
<1>2. /\ main' = "get" /\ asker' = c /\ seen' = {store[k]} /\ freed' = FALSE
      /\ UNCHANGED <<log, reply, link, pc, call, ret, garbled, floor, known>>
      /\ UNCHANGED <<done, op_count, store, wpc, struck, alive>>
      /\ inq' = [inq EXCEPT ![c] = 0]
  OBVIOUS
<1> HIDE DEF Handle
<1>3. Typed'
  <2>1. inq' \in [Client -> 0 .. 2] /\ store[k] \in Kepts
    BY <1>1, <1>2 DEF RInv, Typed
  <2> QED
    BY <1>2, <2>1 DEF RInv, Typed
<1>4. inq'[c] = 0 /\ \A d \in Client \ {c} : inq'[d] = inq[d]
  BY <1>2 DEF RInv, Typed
<1>5. Stage(pc'[c], link'[c], inq'[c], reply'[c], call'[c])
  BY <1>1, <1>2, <1>4 DEF Stage
<1>6. Told(log', c, pc'[c], reply'[c], call'[c], ret'[c], garbled'[c])
      /\ Saw(log', done, op_count, floor'[c], pc'[c], reply'[c], call'[c], ret'[c],
             garbled'[c])
  BY <1>1, <1>2, OutsideCalls
<1>7. Staged' /\ Numbers' /\ Reads'
  BY <1>2, <1>4, <1>5, <1>6, OneClient, OneMoves
<1>8. Working' /\ Agrees'
  BY <1>2, WorkerStays
<1>9. Room'
  <2>1. Writing' \subseteq Writing
    BY <1>2 DEF Writing
  <2> QED
    BY <1>2, <2>1, RoomKept
<1>10. Asking'
  BY <1>1, <1>2, <1>4 DEF Asking
<1>11. Seeing'
  <2> SUFFICES ASSUME ~struck PROVE Sees(log, k, floor[c], done, store[k])
    BY <1>2 DEF Seeing
  <2>1. /\ done \in Nat /\ floor[c] \in Nat /\ known \in Nat /\ floor[c] <= known
        /\ known <= done /\ Len(log) \in Nat
    BY DEF RInv, Typed, Reads
  <2>2. floor[c] <= done
    BY <2>1
  <2>3. \/ Same(store[k], Result(log, done)[k])
        \/ wpc = "readd" /\ k = Task.key /\ store[k] = Absent
    BY <1>1 DEF RInv, Agrees
  <2>4. wpc = "readd" => done + 1 <= Len(log) /\ log[done + 1].op = "put"
    BY <2>1 DEF RInv, Working, Task
  <2> HIDE DEF k
  <2> QED
    BY <2>1, <2>2, <2>3, <2>4, StoreShows DEF Task
<1> QED
  BY <1>3, <1>7, <1>8, <1>9, <1>10, <1>11 DEF RInv

\* The walk ends, and what it answers is what the key may show or is garbled.
LEMMA EndGetKeeps ==
  ASSUME RemoteAssumption, RInv, EndGet
  PROVE  RInv'
<1> USE DEF tableVars
<1> DEFINE c == asker
<1>1. /\ c \in Client /\ pc[c] = "wait" /\ call[c].op = "get" /\ inq[c] = 0
      /\ call[c] \in Requests
  BY DEF EndGet, RInv, Asking
<1>2. /\ main' = "poll" /\ asker' = None /\ seen' = {} /\ freed' = FALSE
      /\ UNCHANGED <<log, done, op_count, store, wpc, struck, alive, link, inq, pc, call,
                     ret, floor, known>>
  BY DEF EndGet
<1>3. PICK a \in Replies :
        /\ reply' = [reply EXCEPT ![c] = a]
        /\ \/ /\ Shows(log, call[c].key, floor[c], done, a) /\ UNCHANGED garbled
           \/ garbled' = [garbled EXCEPT ![c] = TRUE]
  <2>1. CASE ~struck /\ (\E s \in seen : reply' = [reply EXCEPT ![c] = Answer(s)])
             /\ UNCHANGED garbled
    <3>1. PICK s \in seen : reply' = [reply EXCEPT ![c] = Answer(s)]
      BY <2>1
    <3>2. PICK x : Same(s, x) /\ Shows(log, call[c].key, floor[c], done, x)
      BY <2>1 DEF RInv, Seeing, Sees, EndGet
    <3>3. Answer(s) = x /\ x \in Replies
      BY <3>2, ValuesAreBytes, CopiesCarry, RepliesAre DEF Same, Answer
    <3> QED
      BY <2>1, <3>1, <3>2, <3>3
  <2>2. CASE \E a \in Anything("get") :
               /\ reply' = [reply EXCEPT ![c] = a]
               /\ garbled' = [garbled EXCEPT ![c] = TRUE]
    BY <2>2, AnythingTyped
  <2> QED
    BY <2>1, <2>2 DEF EndGet
<1>4. Typed'
  <2>1. reply' \in [Client -> Replies] /\ garbled' \in [Client -> BOOLEAN]
    BY <1>3 DEF RInv, Typed
  <2> QED
    BY <1>2, <2>1 DEF RInv, Typed
<1>5. /\ reply'[c] = a
      /\ \/ Shows(log, call[c].key, floor[c], done, a)
         \/ garbled'[c]
      /\ \A d \in Client \ {c} : reply'[d] = reply[d] /\ garbled'[d] = garbled[d]
  BY <1>1, <1>3 DEF RInv, Typed
<1>6. Stage(pc'[c], link'[c], inq'[c], reply'[c], call'[c])
  <2>1. Stage(pc[c], link[c], inq[c], reply[c], call[c]) /\ link[c] \in {"up", "eof"}
    BY <1>1, OneClient DEF RInv, Asking, EndGet
  <2> QED
    BY <1>1, <1>2, <2>1 DEF Stage
<1>7. Told(log', c, pc'[c], reply'[c], call'[c], ret'[c], garbled'[c])
  BY <1>1, <1>2 DEF Told, Writes
<1>8. Saw(log', done, op_count, floor'[c], pc'[c], reply'[c], call'[c], ret'[c],
          garbled'[c])
  BY <1>1, <1>2, <1>5 DEF Saw
<1>9. Staged' /\ Numbers' /\ Reads'
  <2> HIDE DEF c
  <2> QED
    BY <1>1, <1>2, <1>5, <1>6, <1>7, <1>8, OneClient, OneMoves
<1>10. Working' /\ Agrees'
  BY <1>2, WorkerStays
<1>11. Room'
  <2>1. Writing' \subseteq Writing
    BY <1>1, <1>2, <1>5 DEF Writing
  <2> QED
    BY <1>2, <2>1, RoomKept
<1>12. Asking' /\ Seeing'
  BY <1>2 DEF Asking, Seeing
<1> QED
  BY <1>4, <1>9, <1>10, <1>11, <1>12 DEF RInv

\* The server stops, or its network thread does nothing but read.
LEMMA HangKeeps ==
  ASSUME RemoteAssumption, RInv, Hang
  PROVE  RInv'
BY DEF Hang, clientVars, tableVars, RInv, Typed, Working, Room, Writing, Staged,
       Numbers, Reads, Agrees, Task, Asking, Seeing

LEMMA StopKeeps ==
  ASSUME RemoteAssumption, RInv, Stop
  PROVE  RInv'
<1> USE DEF Stop, clientVars, tableVars, walkVars
<1>1. PICK cut \in SUBSET {c \in Client : link[c] = "up" /\ inq[c] > 0} :
        link' = [c \in Client |-> IF link[c] # "up" THEN link[c]
                                  ELSE IF c \in cut THEN "reset" ELSE "eof"]
  OBVIOUS
<1>2. Typed'
  BY <1>1 DEF RInv, Typed
<1>3. ASSUME NEW c \in Client
      PROVE  Stage(pc[c], link'[c], inq[c], reply[c], call[c])
  <2>1. Stage(pc[c], link[c], inq[c], reply[c], call[c])
    BY OneClient
  <2>2. CASE link[c] # "up"
    BY <1>1, <2>1, <2>2
  <2>3. CASE link[c] = "up" /\ c \in cut
    <3>1. inq[c] \in {1, 2}
      BY <2>3 DEF RInv, Typed
    <3> QED
      BY <1>1, <2>1, <2>3, <3>1 DEF Stage
  <2>4. CASE link[c] = "up" /\ c \notin cut
    BY <1>1, <2>1, <2>4 DEF Stage
  <2> QED
    BY <2>2, <2>3, <2>4
<1>4. Staged'
  BY <1>3 DEF Staged
<1>5. Numbers' /\ Reads' /\ Working' /\ Agrees' /\ Room'
  BY DEF RInv, Numbers, Reads, Working, Agrees, Task, Room, Writing
<1>6. Asking' /\ Seeing'
  <2>1. main = "get" => asker \in Client /\ asker \notin cut /\ link[asker] \in {"up", "eof"}
    BY DEF RInv, Asking
  <2>2. main = "get" => link'[asker] = "eof"
    BY <1>1, <2>1
  <2> QED
    BY <2>2 DEF RInv, Asking, Seeing
<1> QED
  BY <1>2, <1>4, <1>5, <1>6 DEF RInv

\* The worker moves, and the walk of a get may come upon what the table has now.
LEMMA WalkStays ==
  ASSUME RInv, struck => struck', done' \in Nat, done <= done',
         UNCHANGED <<log, main, asker, pc, link, inq, reply, call, floor>>,
         (main = "get" /\ ~struck') =>
           \A s \in seen' :
             s \in seen \/ Sees(log, call[asker].key, floor[asker], done', s)
  PROVE  Asking' /\ Seeing'
<1>1. Asking'
  BY DEF RInv, Asking
<1>2. Seeing'
  <2> SUFFICES ASSUME main = "get", ~struck', NEW s \in seen', s \in seen
               PROVE  Sees(log, call[asker].key, floor[asker], done', s)
    BY DEF Seeing
  <2>1. /\ log \in Seq(Entry) /\ GoesOn(log, log) /\ asker \in Client
        /\ floor[asker] \in Nat /\ done \in Nat /\ done <= Len(log)
    BY DEF RInv, Typed, Working, Asking, GoesOn
  <2>2. Sees(log, call[asker].key, floor[asker], done, s)
    BY DEF RInv, Seeing
  <2> QED
    BY <2>1, <2>2, SeesKept
<1> QED
  BY <1>1, <1>2

\* The worker moves without changing the table or the log.
LEMMA CountKeeps ==
  ASSUME RemoteAssumption, RInv, Count
  PROVE  RInv'
<1> USE DEF Count, Worker, clientVars
<1>1. done \in Nat /\ op_count \in Nat /\ done = op_count + 1 /\ op_count' = done
  BY DEF RInv, Typed, Working
<1>2. Typed'
  BY <1>1 DEF RInv, Typed
<1>3. Working'
  BY <1>1 DEF RInv, Working
<1>4. done' = done /\ done <= done' /\ op_count <= op_count' /\ op_count' \in Nat
  BY <1>1
<1>5. Staged' /\ Numbers' /\ Reads'
  BY <1>1, <1>4, NobodyMoves
<1>6. Agrees'
  BY DEF RInv, Agrees, Task
<1>7. Room'
  BY DEF RInv, Room, Writing
<1>8. Asking' /\ Seeing'
  BY <1>1, <1>4, WalkStays
<1> QED
  BY <1>2, <1>3, <1>5, <1>6, <1>7, <1>8 DEF RInv

\* A defect strikes, and the worker goes on with what it finds.
LEMMA StrikeKeeps ==
  ASSUME RemoteAssumption, RInv, Strike
  PROVE  RInv'
<1> USE DEF Strike, clientVars, walkVars
<1>1. done \in Nat /\ op_count \in Nat /\ done <= done /\ op_count <= op_count
  BY DEF RInv, Typed
<1>2. Typed' /\ Working' /\ Agrees' /\ Room'
  BY DEF RInv, Typed, Working, Agrees, Task, Room, Writing
<1>3. Staged' /\ Numbers' /\ Reads'
  BY <1>1, NobodyMoves
<1>4. Asking' /\ Seeing'
  BY <1>1, WalkStays
<1> QED
  BY <1>2, <1>3, <1>4 DEF RInv

LEMMA ApplyStruckKeeps ==
  ASSUME RemoteAssumption, RInv, ApplyStruck
  PROVE  RInv'
<1> USE DEF ApplyStruck, Worker, clientVars
<1>1. /\ done \in Nat /\ op_count \in Nat /\ done = op_count /\ done' = done + 1
      /\ Len(log) \in Nat /\ wpc' = "applied" /\ struck /\ struck'
  BY DEF RInv, Typed, Working
<1>2. done' \in Nat /\ done <= done' /\ op_count <= op_count' /\ op_count' \in Nat
  BY <1>1
<1>3. Typed'
  BY <1>1, <1>2 DEF RInv, Typed
<1>4. Working'
  BY <1>1 DEF Working
<1>5. Staged' /\ Numbers' /\ Reads'
  BY <1>1, <1>2, NobodyMoves
<1>6. Agrees' /\ Room'
  BY <1>1 DEF RInv, Agrees, Room, Writing
<1>7. Asking' /\ Seeing'
  BY <1>1, <1>2, WalkStays
<1> QED
  BY <1>3, <1>4, <1>5, <1>6, <1>7 DEF RInv

\* The table changes under the walk of a get.
LEMMA ChangeDoes ==
  ASSUME RemoteAssumption, RInv, NEW v \in Kepts, Task.key \in Key, Change(v), main' = main
  PROVE  /\ UNCHANGED <<struck, op_count>> /\ ~struck
         /\ store' \in [Key -> Kepts] /\ freed' \in BOOLEAN /\ seen' \subseteq Kepts
         /\ \A k \in Key : store'[k] = IF k = Task.key THEN v ELSE store[k]
         /\ main = "get" =>
              /\ call[asker].key \in Key
              /\ seen' \subseteq seen \cup {store'[call[asker].key]}
<1> USE DEF Change
<1>1. /\ store' \in [Key -> Kepts]
      /\ \A k \in Key : store'[k] = IF k = Task.key THEN v ELSE store[k]
  BY DEF RInv, Typed
<1>2. CASE main = "get"
  <2>1. call[asker].key \in Key
    BY <1>2 DEF RInv, Asking, Requests
  <2>2. store'[call[asker].key] \in Kepts
    BY <1>1, <2>1
  <2> QED
    BY <1>1, <1>2, <2>1, <2>2 DEF RInv, Typed
<1>3. CASE main # "get"
  BY <1>1, <1>3 DEF RInv, Typed
<1> QED
  BY <1>2, <1>3

\* The next write is applied, so that the table holds what it leaves.
LEMMA AppliedKeeps ==
  ASSUME RemoteAssumption, RInv, done < Len(log), wpc \in {"idle", "readd"},
         wpc' = "applied", done' = done + 1,
         store' \in [Key -> Kepts], freed' \in BOOLEAN, seen' \subseteq Kepts,
         \A k \in Key : Same(store'[k], Effect(Result(log, done), log[done + 1])[k]),
         main = "get" =>
           /\ call[asker].key \in Key
           /\ seen' \subseteq seen \cup {store'[call[asker].key]},
         UNCHANGED <<log, op_count, main, asker, struck, alive, link, inq, reply,
                     clientVars, known>>
  PROVE  RInv'
<1> USE DEF clientVars
<1>1. done \in Nat /\ done' \in Nat /\ op_count \in Nat /\ done = op_count /\ Len(log) \in Nat
  BY DEF RInv, Typed, Working
<1>2. Typed'
  BY <1>1 DEF RInv, Typed
<1>3. Working'
  BY <1>1 DEF Working
<1>4. done <= done' /\ op_count <= op_count' /\ op_count' \in Nat
  BY <1>1
<1>5. Staged' /\ Numbers' /\ Reads'
  BY <1>1, <1>4, NobodyMoves
<1>6. \A k \in Key : Same(store'[k], Result(log, done')[k])
  <2>1. Result(log, done + 1) = Effect(Result(log, done), log[done + 1])
    BY <1>1, ResultNext
  <2> QED
    BY <2>1
<1>7. Agrees'
  BY <1>6 DEF Agrees
<1>8. Room'
  BY DEF RInv, Room, Writing
<1>9. Asking' /\ Seeing'
  <2>1. ASSUME main = "get"
        PROVE  Sees(log, call[asker].key, floor[asker], done', store'[call[asker].key])
    <3>1. /\ floor[asker] \in Nat /\ known \in Nat /\ floor[asker] <= known
          /\ known <= done
      BY <2>1 DEF RInv, Typed, Reads, Asking
    <3>2. floor[asker] <= done'
      BY <1>1, <1>4, <3>1
    <3>3. Same(store'[call[asker].key], Result(log, done')[call[asker].key])
      BY <1>6, <2>1
    <3> QED
      BY <1>1, <3>1, <3>2, <3>3, StoreShows
  <2>2. (main = "get" /\ ~struck') =>
          \A s \in seen' :
            s \in seen \/ Sees(log, call[asker].key, floor[asker], done', s)
    BY <2>1
  <2> QED
    BY <1>1, <1>4, <2>2, WalkStays
<1> QED
  BY <1>2, <1>3, <1>5, <1>7, <1>8, <1>9 DEF RInv

\* What the next write will leave.
LEMMA NextEffect ==
  ASSUME RInv, done < Len(log)
  PROVE  /\ Task \in Entry /\ Task = log[done + 1]
         /\ \A k \in Key :
              Effect(Result(log, done), Task)[k] =
                IF k # Task.key \/ (Task.op = "put" /\ ~HasText(Task.data))
                THEN Result(log, done)[k]
                ELSE IF Task.op = "del" THEN Absent ELSE Carried(Task.data)
<1>1. log \in Seq(Entry) /\ done \in Nat /\ Len(log) \in Nat
  BY DEF RInv, Typed
<1>2. done + 1 \in 1 .. Len(log) /\ done \in 0 .. Len(log)
  BY <1>1
<1>3. Task \in Entry
  BY <1>1, <1>2, ElementOfSeq DEF Task
<1>4. Result(log, done) \in [Key -> {Absent} \cup {Carried(v) : v \in Value}]
  BY <1>1, <1>2, ResultTyped
<1>5. Task.key \in Key /\ Task.op \in {"put", "del"}
  BY <1>3 DEF Entry
<1> QED
  BY <1>3, <1>4, <1>5 DEF Effect, Task

LEMMA ReaddKeeps ==
  ASSUME RemoteAssumption, RInv, Readd
  PROVE  RInv'
<1> USE DEF Readd, Worker
<1>1. done < Len(log) /\ Task.op = "put" /\ HasText(Task.data)
  BY DEF RInv, Working
<1>2. Task.key \in Key /\ Task.data \in Value /\ Kept(Task.data) \in Kepts
  BY <1>1, NextEffect DEF Entry, Kepts
<1>3. /\ UNCHANGED <<struck, op_count>> /\ ~struck
      /\ store' \in [Key -> Kepts] /\ freed' \in BOOLEAN /\ seen' \subseteq Kepts
      /\ \A k \in Key : store'[k] = IF k = Task.key THEN Kept(Task.data) ELSE store[k]
      /\ main = "get" =>
           /\ call[asker].key \in Key
           /\ seen' \subseteq seen \cup {store'[call[asker].key]}
  BY <1>2, ChangeDoes
<1>4. ASSUME NEW k \in Key
      PROVE  Same(store'[k], Effect(Result(log, done), log[done + 1])[k])
  <2>1. store'[k] = IF k = Task.key THEN Kept(Task.data) ELSE store[k]
    BY <1>3
  <2>2. k # Task.key => Same(store[k], Result(log, done)[k])
    BY <1>3 DEF RInv, Agrees
  <2> QED
    BY <1>1, <1>2, <2>1, <2>2, NextEffect DEF Same
<1> QED
  BY <1>1, <1>3, <1>4, AppliedKeeps

\* A put removes the key before it adds it again.
LEMMA RemovedKeeps ==
  ASSUME RemoteAssumption, RInv, Apply, wpc' = "readd"
  PROVE  RInv'
<1> USE DEF Worker, clientVars
<1>1. /\ done < Len(log) /\ Task.op = "put" /\ HasText(Task.data) /\ wpc = "idle"
      /\ Change(Absent)
      /\ UNCHANGED <<log, done, main, asker, alive, link, inq, reply, clientVars, known>>
  BY DEF Apply
<1>2. Task.key \in Key /\ Absent \in Kepts
  BY <1>1, NextEffect DEF Entry, Kepts
<1>3. /\ UNCHANGED <<struck, op_count>> /\ ~struck
      /\ store' \in [Key -> Kepts] /\ freed' \in BOOLEAN /\ seen' \subseteq Kepts
      /\ \A k \in Key : store'[k] = IF k = Task.key THEN Absent ELSE store[k]
      /\ main = "get" =>
           /\ call[asker].key \in Key
           /\ seen' \subseteq seen \cup {store'[call[asker].key]}
  BY <1>1, <1>2, ChangeDoes
<1>4. Typed'
  BY <1>1, <1>3 DEF RInv, Typed
<1>5. Working' /\ Task' = Task
  BY <1>1, <1>3 DEF RInv, Working, Task
<1>6. done \in Nat /\ op_count \in Nat /\ done <= done /\ op_count <= op_count
      /\ Len(log) \in Nat
  BY DEF RInv, Typed
<1>7. Staged' /\ Numbers' /\ Reads'
  BY <1>1, <1>3, <1>6, NobodyMoves
<1>8. \A k \in Key : Same(store[k], Result(log, done)[k])
  BY <1>1, <1>3 DEF RInv, Agrees
<1>9. Agrees'
  BY <1>1, <1>3, <1>5, <1>8 DEF Agrees
<1>10. Room'
  BY <1>1 DEF RInv, Room, Writing
<1>11. Asking' /\ Seeing'
  <2>1. ASSUME main = "get"
        PROVE  Sees(log, call[asker].key, floor[asker], done, store'[call[asker].key])
    <3> DEFINE key == call[asker].key
    <3>1. /\ floor[asker] \in Nat /\ known \in Nat /\ floor[asker] <= known
          /\ known <= done
      BY <2>1 DEF RInv, Typed, Reads, Asking
    <3>2. floor[asker] <= done
      BY <1>6, <3>1
    <3>3. \/ Same(store'[key], Result(log, done)[key])
          \/ /\ store'[key] = Absent /\ done + 1 <= Len(log)
             /\ log[done + 1].op = "put" /\ log[done + 1].key = key
      BY <1>1, <1>3, <1>6, <1>8, <2>1 DEF Task
    <3> HIDE DEF key
    <3>4. Sees(log, key, floor[asker], done, store'[key])
      BY <1>6, <3>1, <3>2, <3>3, StoreShows
    <3> QED
      BY <3>4 DEF key
  <2>2. (main = "get" /\ ~struck') =>
          \A s \in seen' :
            s \in seen \/ Sees(log, call[asker].key, floor[asker], done', s)
    BY <1>1, <1>3, <2>1
  <2> QED
    BY <1>1, <1>3, <1>6, <2>2, WalkStays
<1> QED
  BY <1>4, <1>5, <1>7, <1>9, <1>10, <1>11 DEF RInv

LEMMA ApplyKeeps ==
  ASSUME RemoteAssumption, RInv, Apply
  PROVE  RInv'
<1> USE DEF Worker, clientVars
<1> SUFFICES ASSUME wpc' # "readd" PROVE RInv'
  BY RemovedKeeps
<1>1. /\ done < Len(log) /\ wpc = "idle" /\ wpc' = "applied" /\ done' = done + 1
      /\ UNCHANGED <<log, main, asker, alive, link, inq, reply, clientVars, known>>
  BY DEF Apply
<1>2. Task \in Entry /\ Task.key \in Key
  BY <1>1, NextEffect DEF Entry
<1>3. \A k \in Key : ~struck => Same(store[k], Result(log, done)[k])
  BY <1>1 DEF RInv, Agrees
<1>4. \/ /\ Task.op = "put" /\ HasText(Task.data) /\ Change(Kept(Task.data))
      \/ /\ Task.op = "put" /\ ~HasText(Task.data) /\ ~struck
         /\ UNCHANGED <<op_count, store, struck, seen, freed>>
      \/ Task.op = "del" /\ Change(Absent)
  BY DEF Apply
<1>5. Task.op = "put" => Task.data \in Value
  BY <1>2 DEF Entry
<1>6. /\ UNCHANGED <<struck, op_count>> /\ ~struck
      /\ store' \in [Key -> Kepts] /\ freed' \in BOOLEAN /\ seen' \subseteq Kepts
      /\ main = "get" =>
           /\ call[asker].key \in Key
           /\ seen' \subseteq seen \cup {store'[call[asker].key]}
      /\ \A k \in Key :
           store'[k] = IF k # Task.key \/ (Task.op = "put" /\ ~HasText(Task.data))
                       THEN store[k]
                       ELSE IF Task.op = "del" THEN Absent ELSE Kept(Task.data)
  <2>1. CASE Task.op = "put" /\ HasText(Task.data) /\ Change(Kept(Task.data))
    <3>1. Kept(Task.data) \in Kepts
      BY <1>5, <2>1 DEF Kepts
    <3> QED
      BY <1>1, <1>2, <2>1, <3>1, ChangeDoes
  <2>2. CASE /\ Task.op = "put" /\ ~HasText(Task.data) /\ ~struck
             /\ UNCHANGED <<op_count, store, struck, seen, freed>>
    <3>1. main = "get" => call[asker].key \in Key
      BY DEF RInv, Asking, Requests
    <3> QED
      BY <2>2, <3>1 DEF RInv, Typed
  <2>3. CASE Task.op = "del" /\ Change(Absent)
    <3>1. Absent \in Kepts
      BY DEF Kepts
    <3> QED
      BY <1>1, <1>2, <2>3, <3>1, ChangeDoes
  <2> QED
    BY <1>4, <2>1, <2>2, <2>3
<1>7. ASSUME NEW k \in Key
      PROVE  Same(store'[k], Effect(Result(log, done), log[done + 1])[k])
  <2>0. Same(store[k], Result(log, done)[k])
    BY <1>3, <1>6
  <2>1. CASE k # Task.key \/ (Task.op = "put" /\ ~HasText(Task.data))
    BY <1>1, <1>6, <2>0, <2>1, NextEffect
  <2>2. CASE k = Task.key /\ Task.op = "put" /\ HasText(Task.data)
    <3>1. store'[k] = Kept(Task.data)
      BY <1>6, <2>2
    <3> QED
      BY <1>1, <1>5, <2>2, <3>1, NextEffect DEF Same
  <2>3. CASE k = Task.key /\ Task.op = "del"
    <3>1. store'[k] = Absent
      BY <1>6, <2>3
    <3> QED
      BY <1>1, <2>3, <3>1, NextEffect DEF Same
  <2> QED
    BY <1>4, <2>1, <2>2, <2>3
<1> QED
  BY <1>1, <1>6, <1>7, AppliedKeeps

-----------------------------------------------------------------------------
(***************************************************************************)
(* The invariant.                                                          *)
(***************************************************************************)
LEMMA Initially ==
  ASSUME RemoteAssumption, Init
  PROVE  RInv
<1> USE DEF Init
<1>1. Typed
  <2>1. reply \in [Client -> Replies] /\ ret \in [Client -> Replies \cup {Failed}]
    BY RepliesAre
  <2>2. log \in Seq(Entry)
    BY EmptySeq
  <2>3. store \in [Key -> Kepts]
    BY DEF Kepts
  <2>4. seen \subseteq Kepts /\ asker \in Client \cup {None}
        /\ freed \in BOOLEAN /\ struck \in BOOLEAN /\ alive \in BOOLEAN
    OBVIOUS
  <2>5. /\ link \in [Client -> {"null", "up", "eof", "reset"}]
        /\ inq \in [Client -> 0 .. 2]
        /\ pc \in [Client -> {"idle", "half", "wait", "back", "ended"}]
        /\ call \in [Client -> Requests \cup {NoCall}]
        /\ garbled \in [Client -> BOOLEAN] /\ floor \in [Client -> Nat]
    OBVIOUS
  <2>6. done \in Nat /\ op_count \in Nat /\ known \in Nat
        /\ wpc \in {"idle", "readd", "applied"} /\ main \in {"poll", "get", "spin"}
    OBVIOUS
  <2> HIDE DEF Init
  <2> QED
    BY <2>1, <2>2, <2>3, <2>4, <2>5, <2>6 DEF Typed
<1>2. Len(log) = 0
  BY EmptySeq
<1>3. Working
  BY <1>2 DEF Working
<1>4. Room
  <2>1. Writing = {}
    BY DEF Writing
  <2> QED
    BY <1>2, <2>1, FS_EmptySet DEF Room, RemoteAssumption
<1>5. Staged
  BY DEF Staged, Stage
<1>6. Numbers
  BY DEF Numbers, Told
<1>7. Reads
  BY DEF Reads, Saw
<1>8. Agrees
  <2>1. Result(log, 0) = [k \in Key |-> Absent]
    BY ResultNext DEF Empty
  <2> QED
    BY <2>1 DEF Agrees, Same
<1>9. Asking /\ Seeing
  BY DEF Asking, Seeing
<1> QED
  BY <1>1, <1>3, <1>4, <1>5, <1>6, <1>7, <1>8, <1>9 DEF RInv

\* The steps that end a client's process leave no half of a request to read.
LEMMA EndingKeeps ==
  ASSUME RemoteAssumption, RInv, NEW c \in Client,
         \/ SendFails(c) \/ FetchOverruns(c) \/ VerifyNegative(c)
         \/ Disconnect(c) \/ InteractiveEnds(c)
  PROVE  RInv'
<1>1. CASE Between(c) /\ Ends(c)
  BY <1>1, EndsKeeps, OneClient DEF Between, Stage
<1>2. CASE SendFails(c) /\ ~Between(c)
  BY <1>2, EndsKeeps DEF SendFails
<1>3. CASE FetchOverruns(c)
  BY <1>3, EndsKeeps, OneClient DEF FetchOverruns, Stage
<1> QED
  BY <1>1, <1>2, <1>3 DEF SendFails, VerifyNegative, Disconnect, InteractiveEnds

LEMMA Inductive ==
  ASSUME RemoteAssumption, RInv, [Next]_vars
  PROVE  RInv'
<1>1. CASE UNCHANGED vars
  BY <1>1 DEF vars, serverVars, tableVars, walkVars, clientVars, RInv, Typed, Working,
              Room, Writing, Staged, Numbers, Reads, Agrees, Task, Asking, Seeing
<1>2. ASSUME NEW c \in Client, Connect(c) PROVE RInv'
  BY <1>2, ConnectKeeps
<1>3. ASSUME NEW c \in Client,
             Refused(c) \/ ReadCommand(c) \/ WriteCommand(c) \/ VerifyCommand(c)
      PROVE  RInv'
  BY <1>3, RefusedKeeps DEF ReadCommand, WriteCommand, VerifyCommand
<1>4. ASSUME NEW c \in Client, Calling(c) PROVE RInv'
  BY <1>4, SendRequestKeeps, EndingKeeps, ReceiveReplyKeeps, ReadFailsKeeps DEF Calling
<1>5. ASSUME NEW c \in Client,
             \/ VerifyNegative(c) \/ Disconnect(c)
             \/ GetCommand(c) \/ ChainChanges(c) \/ Quit(c)
      PROVE  RInv'
  BY <1>5, EndingKeeps DEF GetCommand, ChainChanges, Quit
<1>6. ASSUME NEW c \in Client, NEW r \in Requests, SendLength(c, r) PROVE RInv'
  BY <1>6, SendLengthKeeps
<1>7. ASSUME NEW c \in Client, Handle(c) PROVE RInv'
  BY <1>7, HandleWrite, HandleRead, HandleGet DEF Handle, Writes
<1>8. CASE Server
  BY <1>8, EndGetKeeps, HangKeeps, ApplyKeeps, ReaddKeeps, StrikeKeeps,
     ApplyStruckKeeps, CountKeeps DEF Server
<1>9. CASE Stop
  BY <1>9, StopKeeps
<1> QED
  BY <1>1, <1>2, <1>3, <1>4, <1>5, <1>6, <1>7, <1>8, <1>9 DEF Next

LEMMA AlwaysRInv == Spec => []RInv
<1>1. Init => RInv
  BY Initially, RemoteAssumption
<1>2. RInv /\ [Next]_vars => RInv'
  BY Inductive, RemoteAssumption
<1> QED
  BY <1>1, <1>2, PTL DEF Spec

-----------------------------------------------------------------------------
(***************************************************************************)
(* The theorems.                                                           *)
(***************************************************************************)

\* The library and the server give the fields of calls, replies, connections
\* and writes the values they may have; what is counted was applied, and what
\* is applied was numbered.
THEOREM TypeCorrect == Spec => []TypeOK
<1>1. RInv => TypeOK
  <2> SUFFICES ASSUME RInv PROVE TypeOK
    OBVIOUS
  <2>1. /\ log \in Seq(Entry) /\ Len(log) \in Nat /\ done \in Nat /\ op_count \in Nat
        /\ op_count <= done /\ done <= Len(log)
    BY DEF RInv, Typed, Working
  <2>2. Len(log) <= MaxOps /\ MaxOps \in Nat
    <3>1. IsFiniteSet(Writing)
      BY RemoteAssumption, FS_Subset DEF RemoteAssumption, Writing
    <3>2. Cardinality(Writing) \in Nat /\ MaxOps \in Nat
      BY <3>1, RemoteAssumption, FS_CardinalityType DEF RemoteAssumption
    <3> QED
      BY <2>1, <3>2 DEF RInv, Room
  <2>3. ASSUME NEW i \in 1 .. Len(log)
        PROVE  /\ log[i].by \in Client /\ log[i].key \in Key
               /\ IF log[i].op = "put" THEN log[i].data \in Value
                                       ELSE log[i].op = "del" /\ log[i].data = NoData
    <3>1. log[i] \in Entry
      BY <2>1, ElementOfSeq
    <3> QED
      BY <3>1 DEF Entry
  <2>4. ASSUME NEW k \in Key, store[k] # Absent PROVE DOMAIN store[k].block = 1 .. Usable
    <3>1. PICK v \in Value : store[k] = Kept(v)
      BY <2>4 DEF RInv, Typed, Kepts
    <3> QED
      BY <3>1 DEF Kept, DataDup
  <2>5. known \in Nat /\ known <= done /\ floor \in [Client -> Nat]
        /\ \A c \in Client : floor[c] <= known
    BY DEF RInv, Typed, Reads
  <2>6. known \in 0 .. MaxOps /\ floor \in [Client -> 0 .. MaxOps]
    <3>1. \A c \in Client : floor[c] \in 0 .. MaxOps
      BY <2>1, <2>2, <2>5
    <3> QED
      BY <2>1, <2>2, <2>5, <3>1
  <2> QED
    BY <2>1, <2>2, <2>3, <2>4, <2>6 DEF TypeOK, RInv, Typed, Asking
<1> QED
  BY <1>1, AlwaysRInv, PTL

\* Every client is told the number of its own write, whatever other clients
\* send, however the worker goes on meanwhile and whatever it makes of the
\* write, unless the library has made the answer up from freed memory.
THEOREM OwnNumbers == Spec => []NumbersAreOwn
<1>1. RInv => NumbersAreOwn
  BY DEF RInv, Numbers, Told, NumberOf, NumbersAreOwn, Answered, Write, Writes
<1> QED
  BY <1>1, AlwaysRInv, PTL

\* Until a defect of the server strikes, a get whose walk stays out of freed
\* memory never answers what was in the table before a state that an earlier
\* answer, to whatever client, has shown to be in effect.
THEOREM ReadsGoOn == Spec => []ReadsNeverGoBack
<1>1. RInv => ReadsNeverGoBack
  <2> SUFFICES ASSUME RInv, NEW c \in Client, ToldOfTable(c)
               PROVE  LET k == call[c].key
                          later == floor[c] .. Len(log)
                      IN \/ ret[c] \in {After(m)[k] : m \in later}
                         \/ /\ ret[c] = Absent
                            /\ \E m \in later \ {floor[c]} :
                                 log[m].op = "put" /\ log[m].key = k
    BY DEF ReadsNeverGoBack
  <2>1. /\ done \in Nat /\ done <= Len(log) /\ Len(log) \in Nat /\ floor[c] \in Nat
    BY DEF RInv, Typed, Working
  <2>2. Shows(log, call[c].key, floor[c], done, ret[c])
    BY DEF RInv, Reads, Saw, ToldOfTable, Answered
  <2>3. ASSUME NEW m \in floor[c] .. done, Result(log, m)[call[c].key] = ret[c]
        PROVE  \E n \in floor[c] .. Len(log) : After(n)[call[c].key] = ret[c]
    <3>1. m \in Nat /\ m \in floor[c] .. Len(log)
      BY <2>1
    <3> QED
      BY <2>3, <3>1, AfterResult
  <2>4. ASSUME NEW m \in floor[c] + 1 .. done + 1, m <= Len(log)
        PROVE  m \in (floor[c] .. Len(log)) \ {floor[c]}
    BY <2>1, <2>4
  <2> QED
    BY <2>2, <2>3, <2>4 DEF Shows
<1> QED
  BY <1>1, AlwaysRInv, PTL

\* What a key has was put, as far as it can be carried.
LEMMA ResultWasPut ==
  ASSUME NEW l \in Seq(Entry), NEW n \in 0 .. Len(l), NEW k \in Key,
         Result(l, n)[k] # Absent
  PROVE  \E i \in 1 .. n : l[i].op = "put" /\ Result(l, n)[k] = Carried(l[i].data)
<1> DEFINE P(m) == Result(l, m)[k] # Absent =>
                     \E i \in 1 .. m : l[i].op = "put" /\ Result(l, m)[k] = Carried(l[i].data)
           S == {m \in Nat : m <= Len(l) => P(m)}
<1>1. 0 \in S
  BY ResultNext DEF Empty
<1>2. ASSUME NEW m \in Nat, m \in S PROVE m + 1 \in S
  <2> SUFFICES ASSUME m + 1 <= Len(l), Result(l, m + 1)[k] # Absent
               PROVE  \E i \in 1 .. m + 1 :
                        l[i].op = "put" /\ Result(l, m + 1)[k] = Carried(l[i].data)
    OBVIOUS
  <2>1. Len(l) \in Nat /\ m \in 0 .. Len(l) /\ m + 1 \in 1 .. Len(l)
    OBVIOUS
  <2>2. l[m + 1] \in Entry
    BY <2>1, ElementOfSeq
  <2>3. Result(l, m) \in [Key -> {Absent} \cup {Carried(v) : v \in Value}]
    BY <2>1, ResultTyped
  <2>4. Result(l, m + 1) = Effect(Result(l, m), l[m + 1])
    BY ResultNext
  <2>5. CASE Result(l, m + 1)[k] = Result(l, m)[k]
    <3>1. PICK i \in 1 .. m : l[i].op = "put" /\ Result(l, m)[k] = Carried(l[i].data)
      BY <1>2, <2>1, <2>5
    <3>2. i \in 1 .. m + 1
      OBVIOUS
    <3> QED
      BY <2>5, <3>1, <3>2
  <2>6. CASE Result(l, m + 1)[k] # Result(l, m)[k]
    <3>1. l[m + 1].op = "put" /\ Result(l, m + 1)[k] = Carried(l[m + 1].data)
      BY <2>2, <2>3, <2>4, <2>6 DEF Effect, Entry
    <3>2. m + 1 \in 1 .. m + 1
      OBVIOUS
    <3> QED
      BY <3>1, <3>2
  <2> QED
    BY <2>5, <2>6
<1> HIDE DEF S
<1>3. \A m \in Nat : m \in S
  BY <1>1, <1>2, NatSetInduction
<1>4. n \in Nat /\ n <= Len(l)
  OBVIOUS
<1> QED
  BY <1>3, <1>4 DEF S

\* A value that such a get returns has the size with which some put sent it,
\* and its bytes as far as strings and blocks carry them.
THEOREM BytesComeBack == Spec => []BytesSurvive
<1>1. RInv => BytesSurvive
  <2> SUFFICES ASSUME RInv, NEW c \in Client, ToldOfTable(c), ret[c] # Absent
               PROVE  \E i \in 1 .. Len(log) :
                        LET v == log[i].data
                        IN /\ log[i].op = "put" /\ Len(v) = Len(ret[c])
                           /\ \A j \in 1 .. Len(v) :
                                (j <= Usable /\ \A l \in 1 .. j : v[l] # Nul) =>
                                  ret[c][j] = v[j]
    BY DEF BytesSurvive
  <2>1. /\ log \in Seq(Entry) /\ done \in Nat /\ done <= Len(log) /\ Len(log) \in Nat
        /\ floor[c] \in Nat /\ call[c] \in Requests \cup {NoCall}
    BY DEF RInv, Typed, Working
  <2>2. call[c].key \in Key
    BY <2>1 DEF Requests, NoCall, ToldOfTable
  <2>3. PICK m \in floor[c] .. done : Result(log, m)[call[c].key] = ret[c]
    BY DEF RInv, Reads, Saw, ToldOfTable, Answered, Shows
  <2>4. m \in 0 .. Len(log)
    BY <2>1
  <2>5. PICK i \in 1 .. m : log[i].op = "put" /\ ret[c] = Carried(log[i].data)
    BY <2>1, <2>2, <2>3, <2>4, ResultWasPut
  <2>6. i \in 1 .. Len(log) /\ log[i] \in Entry
    BY <2>1, <2>4, ElementOfSeq
  <2> DEFINE v == log[i].data
  <2>7. v \in Seq(Int)
    BY <2>5, <2>6, RemoteAssumption, ValuesAreBytes DEF Entry
  <2> HIDE DEF v
  <2>8. Len(v) \in Nat /\ ret[c] = Carried(v)
    BY <2>5, <2>7 DEF v
  <2>9. Carried(v) \in Seq(Int) /\ Len(Carried(v)) = Len(v)
    <3>1. \A j \in 1 .. Len(v) : Carried(v)[j] \in Int
      BY <2>7, <2>8, ElementOfSeq DEF Carried, Junk
    <3>2. Carried(v) \in [1 .. Len(v) -> Int]
      BY <3>1 DEF Carried
    <3> QED
      BY <2>8, <3>2, SeqDef
  <2>10. ASSUME NEW j \in 1 .. Len(v), j <= Usable, \A l \in 1 .. j : v[l] # Nul
         PROVE  Carried(v)[j] = v[j]
    <3>1. \A l \in 1 .. j - 1 : l \in 1 .. j
      BY <2>8
    <3>2. ~(j > Usable)
      BY <2>8, <2>10, UsableAssumption DEF UsableAssumption
    <3> QED
      BY <2>10, <3>1, <3>2 DEF Carried
  <2> QED
    BY <2>5, <2>6, <2>8, <2>9, <2>10 DEF v
<1> QED
  BY <1>1, AlwaysRInv, PTL
==================================================================================

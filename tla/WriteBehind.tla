------------------------------ MODULE WriteBehind ------------------------------
(***************************************************************************)
(* What the server promises about writes: put and del are numbered in the  *)
(* order they are accepted and applied to the store later, one at a time,  *)
(* in that order.  The numbers start at 0, so write n is log[n + 1].       *)
(***************************************************************************)
EXTENDS Integers, Sequences

CONSTANTS Key, Value, Absent

Write == [op : {"put", "del"}, key : Key, val : Value \cup {Absent}]

VARIABLES
  log,      \* the writes accepted so far
  done,     \* how many of them have been applied
  store     \* the key-value pairs a get would see

abstractVars == <<log, done, store>>

Init ==
  /\ log = <<>>
  /\ done = 0
  /\ store = [k \in Key |-> Absent]

Effect(s, w) ==
  [s EXCEPT ![w.key] = IF w.op = "put" THEN w.val ELSE Absent]

Accept ==
  /\ \E w \in Write : log' = Append(log, w)
  /\ UNCHANGED <<done, store>>

Serve ==
  /\ done < Len(log)
  /\ done' = done + 1
  /\ store' = Effect(store, log[done + 1])
  /\ UNCHANGED log

Next == Accept \/ Serve

Spec == Init /\ [][Next]_abstractVars /\ WF_abstractVars(Serve)
=============================================================================

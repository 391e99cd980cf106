----------------------------- MODULE DataBlockProofs -----------------------------
(***************************************************************************)
(* What the copies of a value do to its bytes, for every value and every   *)
(* size of the block: the strings and the copies over the fields of a      *)
(* struct data_t lose what Carried says, and nothing else.                 *)
(***************************************************************************)
EXTENDS DataBlock, SetInduction, SequenceTheorems

\* A string ends at the first null byte: First(s, p) says that p is its place,
\* or the place behind the bytes when none of them is null.
First(s, p) ==
  /\ p \in 1 .. Len(s) + 1
  /\ \A i \in 1 .. p - 1 : s[i] # Nul
  /\ p <= Len(s) => s[p] = Nul

LEMMA FirstExists ==
  ASSUME NEW s \in Seq(Int)
  PROVE  \E p : First(s, p)
<1> DEFINE ends == {i \in 1 .. Len(s) : s[i] = Nul}
<1>1. Len(s) \in Nat
  OBVIOUS
<1>2. CASE ends = {}
  <2>1. First(s, Len(s) + 1)
    BY <1>1, <1>2 DEF First
  <2> QED
    BY <2>1
<1>3. CASE ends # {}
  <2>1. ends \in SUBSET Nat
    BY <1>1
  <2>2. PICK p \in ends : \A k \in ends : p <= k
    BY <1>3, <2>1, LeastNat
  <2>3. First(s, p)
    BY <1>1, <2>2 DEF First
  <2> QED
    BY <2>3
<1> QED
  BY <1>2, <1>3

\* What CString returns.
LEMMA CStringEnds ==
  ASSUME NEW s \in Seq(Int), NEW p, First(s, p)
  PROVE  /\ CString(s) \in Seq(Int)
         /\ Len(CString(s)) = p - 1
         /\ \A i \in 1 .. p - 1 : CString(s)[i] = s[i]
<1> DEFINE ends == {i \in 1 .. Len(s) : s[i] = Nul}
           first == CHOOSE i \in ends : \A j \in ends : i <= j
<1>1. Len(s) \in Nat /\ p \in 1 .. Len(s) + 1
  BY DEF First
<1>2. CASE ends = {}
  <2>1. CString(s) = s
    BY <1>2 DEF CString
  <2>2. p = Len(s) + 1
    BY <1>1, <1>2 DEF First
  <2> QED
    BY <1>1, <2>1, <2>2
<1>3. CASE ends # {}
  <2>1. p \in ends /\ \A j \in ends : p <= j
    BY <1>1, <1>3 DEF First
  <2>2. first \in ends /\ \A j \in ends : first <= j
    BY <2>1
  <2>3. first = p
    <3> HIDE DEF first
    <3>1. first <= p /\ p <= first /\ first \in Int /\ p \in Int
      BY <2>1, <2>2
    <3> QED
      BY <3>1
  <2>4. CString(s) = SubSeq(s, 1, p - 1)
    BY <1>3, <2>3 DEF CString
  <2>5. 1 <= p /\ p <= Len(s)
    BY <2>1
  <2> QED
    BY <1>1, <2>4, <2>5, SubSeqProperties
<1> QED
  BY <1>2, <1>3

\* Null bytes before a byte of a string, told from the end of the string.
LEMMA BehindFirst ==
  ASSUME NEW s \in Seq(Int), NEW p, First(s, p), NEW i \in 1 .. Len(s)
  PROVE  (\E j \in 1 .. i - 1 : s[j] = Nul) <=> i > p
<1>1. Len(s) \in Nat /\ p \in 1 .. Len(s) + 1
  BY DEF First
<1>2. ASSUME i > p PROVE \E j \in 1 .. i - 1 : s[j] = Nul
  <2>1. p <= Len(s) /\ p \in 1 .. i - 1
    BY <1>1, <1>2
  <2> QED
    BY <2>1 DEF First
<1>3. ASSUME NEW j \in 1 .. i - 1, s[j] = Nul PROVE i > p
  <2>1. j \notin 1 .. p - 1
    BY <1>3 DEF First
  <2> QED
    BY <1>1, <2>1
<1> QED
  BY <1>2, <1>3

\* Strings and blocks are as long as what malloc gives.
LEMMA StrdupTyped ==
  ASSUME NEW s \in Seq(Int)
  PROVE  /\ Strdup(s) \in [1 .. Usable -> Int]
         /\ \A i \in 1 .. Usable : Strdup(s)[i] = IF i <= Len(s) THEN s[i]
                                                  ELSE IF i = Len(s) + 1 THEN Nul ELSE Junk
<1>1. Len(s) \in Nat /\ Usable \in Nat
  BY UsableAssumption DEF UsableAssumption
<1>2. ASSUME NEW i \in 1 .. Usable, i <= Len(s) PROVE s[i] \in Int
  BY <1>1, <1>2
<1> QED
  BY <1>1, <1>2 DEF Strdup, Nul, Junk

LEMMA DataDupTyped ==
  ASSUME NEW n \in Nat, NEW source \in [1 .. Usable -> Int]
  PROVE  /\ DataDup(n, source) \in Seq(Int) /\ Len(DataDup(n, source)) = Usable
         /\ DataDup(n, source) \in [1 .. Usable -> Int]
         /\ \A i \in 1 .. Usable : i <= n => DataDup(n, source)[i] = source[i]
<1>1. Usable \in Nat
  BY UsableAssumption DEF UsableAssumption
<1>2. \A i \in 1 .. Usable : DataCreate(n)[i] \in Int
  BY DEF DataCreate, Nul, Junk
<1>3. DataDup(n, source) \in [1 .. Usable -> Int]
  BY <1>2 DEF DataDup
<1>4. \A i \in 1 .. Usable : i <= n => DataDup(n, source)[i] = source[i]
  BY DEF DataDup
<1> QED
  BY <1>1, <1>3, <1>4, SeqDef

\* Whatever bytes and sizes, rtable_get returns what a string and a size can
\* carry of a value, however often it is copied over a struct data_t on the way.
THEOREM CopiesCarry ==
  ASSUME NEW v \in Seq(Int)
  PROVE  Fetched(Kept(v)) = Carried(v)
<1>1. PICK p : First(v, p)
  BY FirstExists
<1> DEFINE n == Len(v)
           text == CString(v)
           block == DataDup(n, Strdup(text))
           sent == CString(DataDup(n, block))
           got == DataDup(n, Strdup(sent))
<1>2. n \in Nat /\ p \in 1 .. n + 1 /\ Usable \in Nat
  BY <1>1, UsableAssumption DEF First, UsableAssumption
<1>3. text \in Seq(Int) /\ Len(text) = p - 1 /\ \A i \in 1 .. p - 1 : text[i] = v[i]
  BY <1>1, CStringEnds
<1> HIDE DEF text
<1>4. /\ block \in [1 .. Usable -> Int]
      /\ \A i \in 1 .. Usable : i <= n =>
           block[i] = IF i < p THEN v[i] ELSE IF i = p THEN Nul ELSE Junk
  <2>1. /\ Strdup(text) \in [1 .. Usable -> Int]
        /\ \A i \in 1 .. Usable : Strdup(text)[i] = IF i < p THEN v[i]
                                                    ELSE IF i = p THEN Nul ELSE Junk
    <3>1. /\ Strdup(text) \in [1 .. Usable -> Int]
          /\ \A i \in 1 .. Usable : Strdup(text)[i] = IF i <= Len(text) THEN text[i]
                                                      ELSE IF i = Len(text) + 1 THEN Nul ELSE Junk
      BY <1>3, StrdupTyped
    <3>2. \A i \in 1 .. Usable : /\ i <= Len(text) <=> i < p
                                 /\ i = Len(text) + 1 <=> i = p
                                 /\ i < p => i \in 1 .. p - 1
      BY <1>2, <1>3
    <3> QED
      BY <1>3, <3>1, <3>2
  <2> QED
    BY <1>2, <2>1, DataDupTyped
<1> HIDE DEF block
<1> DEFINE again == DataDup(n, block)
<1>5. /\ again \in Seq(Int) /\ Len(again) = Usable
      /\ \A i \in 1 .. Usable : i <= n => again[i] = block[i]
  BY <1>2, <1>4, DataDupTyped
<1> HIDE DEF again
<1>6. PICK q : First(again, q)
  BY <1>5, FirstExists
<1>7. sent \in Seq(Int) /\ Len(sent) = q - 1 /\ \A i \in 1 .. q - 1 : sent[i] = again[i]
  BY <1>5, <1>6, CStringEnds DEF again
<1>8. q \in 1 .. Usable + 1 /\ (q <= Usable => again[q] = Nul)
      /\ \A i \in 1 .. q - 1 : again[i] # Nul
  BY <1>5, <1>6 DEF First
<1> HIDE DEF sent
<1>9. /\ Strdup(sent) \in [1 .. Usable -> Int]
      /\ \A i \in 1 .. Usable : Strdup(sent)[i] = IF i < q THEN again[i]
                                                  ELSE IF i = q THEN Nul ELSE Junk
  <2>1. /\ Strdup(sent) \in [1 .. Usable -> Int]
        /\ \A i \in 1 .. Usable : Strdup(sent)[i] = IF i <= Len(sent) THEN sent[i]
                                                    ELSE IF i = Len(sent) + 1 THEN Nul ELSE Junk
    BY <1>7, StrdupTyped
  <2>2. \A i \in 1 .. Usable : /\ i <= Len(sent) <=> i < q
                               /\ i = Len(sent) + 1 <=> i = q
                               /\ i < q => i \in 1 .. q - 1
    BY <1>2, <1>7, <1>8
  <2> QED
    BY <1>7, <2>1, <2>2
<1>10. \A i \in 1 .. Usable : i <= n => got[i] = Strdup(sent)[i]
  BY <1>2, <1>9, DataDupTyped
<1> HIDE DEF got
\* The string that is sent back ends where the first one did, unless the block
\* ends before.
<1>11. \A i \in 1 .. p - 1 : i <= Usable => i < q
  <2> SUFFICES ASSUME NEW i \in 1 .. p - 1, i <= Usable, q <= i PROVE FALSE
    BY <1>2, <1>8
  <2>1. q \in 1 .. Usable /\ q < p /\ q <= n
    BY <1>2, <1>8
  <2>2. again[q] = block[q] /\ block[q] = v[q] /\ again[q] = Nul
    BY <1>4, <1>5, <1>8, <2>1
  <2>3. v[q] # Nul
    BY <1>1, <1>2, <2>1 DEF First
  <2> QED
    BY <2>2, <2>3
<1>12. (p <= n /\ p <= Usable) => q = p
  <2> SUFFICES ASSUME p <= n, p <= Usable PROVE q = p
    OBVIOUS
  <2>1. again[p] = Nul
    BY <1>2, <1>4, <1>5
  <2>2. ~(p < q)
    BY <1>2, <1>8, <2>1
  <2>3. ~(q < p)
    <3>1. q < p => q \in 1 .. p - 1 /\ q <= Usable
      BY <1>2, <1>8
    <3> QED
      BY <1>8, <1>11, <3>1
  <2> QED
    BY <1>2, <1>8, <2>2, <2>3
<1>13. ASSUME NEW i \in 1 .. n, i <= Usable
       PROVE  got[i] = IF i > p THEN Junk ELSE v[i]
  <2>1. i \in 1 .. Usable /\ i \in Nat
    BY <1>2, <1>13
  <2>2. got[i] = IF i < q THEN again[i] ELSE IF i = q THEN Nul ELSE Junk
    BY <1>9, <1>10, <1>13, <2>1
  <2>3. again[i] = IF i < p THEN v[i] ELSE IF i = p THEN Nul ELSE Junk
    BY <1>4, <1>5, <1>13, <2>1
  <2>4. CASE i < p
    <3>1. i < q
      BY <1>2, <1>11, <1>13, <2>4
    <3> QED
      BY <1>2, <2>2, <2>3, <2>4, <3>1
  <2>5. CASE i >= p
    <3>1. q = p /\ v[p] = Nul
      BY <1>1, <1>2, <1>12, <1>13, <2>5 DEF First
    <3> QED
      BY <1>2, <2>2, <2>5, <3>1
  <2> QED
    BY <1>2, <2>1, <2>4, <2>5
<1>14. ASSUME NEW i \in 1 .. n
       PROVE  (IF i <= Usable THEN got[i] ELSE Junk) = Carried(v)[i]
  <2>1. Carried(v)[i] = IF i > Usable \/ i > p THEN Junk ELSE v[i]
    BY <1>1, BehindFirst DEF Carried
  <2> QED
    BY <1>2, <1>13, <1>14, <2>1
<1>15. Fetched(Kept(v)) = [i \in 1 .. n |-> IF i <= Usable THEN got[i] ELSE Junk]
  BY DEF Fetched, Kept, got, sent, again, block, text
<1>16. Carried(v) = [i \in 1 .. n |-> Carried(v)[i]]
  BY DEF Carried
<1> QED
  BY <1>14, <1>15, <1>16
==================================================================================

-------------------------------- MODULE DataBlock --------------------------------
(***************************************************************************)
(* The bytes of a value on their way through the program (source/data.c    *)
(* and the strings of source/message.c).  A value is a sequence of bytes,  *)
(* its datasize the length of the sequence.                                *)
(*                                                                         *)
(* data_dup does not allocate the bytes it copies to: data_create returns  *)
(* a struct data_t, and the bytes go over the fields of that struct.  In a *)
(* message the bytes are a string and end at the first null byte, while    *)
(* the size travels in a field of its own.                                 *)
(***************************************************************************)
EXTENDS Integers, Sequences

CONSTANT Usable   \* the bytes malloc(sizeof(struct data_t)) really provides

ASSUME UsableAssumption == Usable \in Nat /\ Usable >= 16

Nul == 0
Junk == -1        \* a byte nobody has written, which may read as anything

\* The string at the start of some bytes.
CString(s) ==
  LET ends == {i \in 1 .. Len(s) : s[i] = Nul}
  IN IF ends = {} THEN s
     ELSE SubSeq(s, 1, (CHOOSE i \in ends : \A j \in ends : i <= j) - 1)

\* What strdup allocates for a string, followed by what is behind it.
Strdup(s) == [i \in 1 .. Usable |-> IF i <= Len(s) THEN s[i]
                                    ELSE IF i = Len(s) + 1 THEN Nul ELSE Junk]

\* data_create as data_dup uses it, for a size of one byte: a struct data_t of
\* four bytes of datasize, four of padding and eight of an address, the last
\* two of them null.
DataCreate(size) ==
  [i \in 1 .. Usable |-> IF i = 1 THEN size
                         ELSE IF i \in 2 .. 4 \cup 15 .. 16 THEN Nul ELSE Junk]

\* Mutant of DataDup: the last byte is not copied.
DataDupShort(size, source) ==
  [i \in 1 .. Usable |-> IF i < size THEN source[i] ELSE DataCreate(size)[i]]

\* data_dup of size bytes, as far as they lie inside the block.
DataDup(size, source) ==
  [i \in 1 .. Usable |-> IF i <= size THEN source[i] ELSE DataCreate(size)[i]]

Fits(v) == Len(v) <= Usable

\* to_message on the server's side of a put: no data for an empty string.
HasText(v) == CString(v) # <<>>

\* What table_put keeps of a value that was sent as a string.
Kept(v) == [size |-> Len(v), block |-> DataDup(Len(v), Strdup(CString(v)))]

\* What rtable_get makes of a value table_get has found: a duplicate, sent as
\* a string, duplicated again.
Fetched(d) ==
  LET sent == CString(DataDup(d.size, d.block))
      got == DataDup(d.size, Strdup(sent))
  IN [i \in 1 .. d.size |-> IF i <= Usable THEN got[i] ELSE Junk]

\* The bytes of a value that a string and its size can carry: those up to the
\* first null byte.
Carried(v) ==
  [i \in 1 .. Len(v) |->
     IF i > Usable \/ \E j \in 1 .. i - 1 : v[j] = Nul THEN Junk ELSE v[i]]
==================================================================================

--------------------------- MODULE RingBufferProofs --------------------------
(***************************************************************************)
(* The properties of RingBuffer, proved for every size, every set of byte  *)
(* values and every bound.  The inductive invariant is the type invariant  *)
(* together with ASSERT_STATE; the other two results follow from it by     *)
(* arithmetic modulo Size.                                                 *)
(***************************************************************************)
EXTENDS RingBuffer, SequenceTheorems, TLAPS

------------------------------------------------------------------------------
(* Arithmetic modulo the size of the buffer. *)

\* A remainder is a cell.
LEMMA ModRange ==
    ASSUME NEW S \in Nat \ {0}, NEW x \in Int
    PROVE  x % S \in 0 .. (S - 1)
OBVIOUS

\* Quotient and remainder determine the number.
LEMMA DivMod ==
    ASSUME NEW S \in Nat \ {0}, NEW x \in Int
    PROVE  x \div S \in Int /\ x = S * (x \div S) + (x % S)
OBVIOUS

\* The only multiple of S strictly between -S and S is zero.
LEMMA SmallMultiple ==
    ASSUME NEW S \in Nat \ {0}, NEW k \in Int, S * k < S, S * k > -S
    PROVE  k = 0
OBVIOUS

\* Indices less than a whole buffer apart live in different cells.
LEMMA ModUnique ==
    ASSUME NEW S \in Nat \ {0}, NEW a \in Int, NEW b \in Int,
           a % S = b % S, a - b < S, b - a < S
    PROVE  a = b
<1>1. S * ((a \div S) - (b \div S)) = a - b
  BY DivMod
<1>. QED
  BY <1>1, DivMod, SmallMultiple, SMTT(30)

\* A number written as a multiple of S plus a cell has that cell as remainder.
LEMMA ModUnfold ==
    ASSUME NEW S \in Nat \ {0}, NEW x \in Int, NEW q \in Int,
           NEW r \in 0 .. (S - 1), x = S * q + r
    PROVE  x % S = r
OBVIOUS

\* Numbers that differ by a multiple of S share their cell.
LEMMA ModCongruent ==
    ASSUME NEW S \in Nat \ {0}, NEW x \in Int, NEW y \in Int, NEW k \in Int,
           x = y + S * k
    PROVE  x % S = y % S
<1> DEFINE q == (y \div S) + k
           r == y % S
<1>1. q \in Int /\ r \in 0 .. (S - 1) /\ x = S * q + r
  BY ModRange, DivMod
<1>2. \A n, m \in Int, c \in 0 .. (S - 1) : n = S * m + c => n % S = c
  BY ModUnfold, Zenon
<1>3. x % S = r
  <2> HIDE DEF q, r
  <2>. QED
    BY <1>1, <1>2, Zenon
<1>. QED
  BY <1>3, Zenon

\* Adding before or after taking the remainder gives the same cell: the
\* address a caller computes from its pointer is the cell of the index.
LEMMA ModShift ==
    ASSUME NEW S \in Nat \ {0}, NEW a \in Int, NEW i \in Int
    PROVE  ((a % S) + i) % S = (a + i) % S
<1> DEFINE p == (a % S) + i
           k == a \div S
           t == a + i
<1>1. p \in Int /\ k \in Int /\ t \in Int /\ t = p + S * k
  BY ModRange, DivMod
<1>2. \A x, y, m \in Int : x = y + S * m => x % S = y % S
  BY ModCongruent, Zenon
<1>3. t % S = p % S
  <2> HIDE DEF p, k, t
  <2>. QED
    BY <1>1, <1>2, Zenon
<1>. QED
  BY <1>3, Zenon

\* The cell j places after the cell of index a is at distance j from it.
LEMMA ModDistance ==
    ASSUME NEW S \in Nat \ {0}, NEW a \in Int, NEW j \in 0 .. (S - 1)
    PROVE  (((a + j) % S) - (a % S)) % S = j
<1> DEFINE d == ((a + j) % S) - (a % S)
           q == (a \div S) - ((a + j) \div S)
<1>1. d \in Int /\ q \in Int /\ d = S * q + j
  <2>1. a + j \in Int
    OBVIOUS
  <2>2. a = S * (a \div S) + (a % S) /\ a \div S \in Int /\ a % S \in Int
    BY ModRange, DivMod
  <2>3. /\ a + j = S * ((a + j) \div S) + ((a + j) % S)
        /\ (a + j) \div S \in Int
        /\ (a + j) % S \in Int
    BY <2>1, ModRange, DivMod
  <2>. QED
    BY <2>2, <2>3
<1>2. \A n, m \in Int, c \in 0 .. (S - 1) : n = S * m + c => n % S = c
  BY ModUnfold, Zenon
<1>3. d % S = j
  <2> HIDE DEF d, q
  <2>. QED
    BY <1>1, <1>2, Zenon
<1>. QED
  BY <1>3, Zenon

------------------------------------------------------------------------------
(* The type invariant and ASSERT_STATE. *)

Inv == TypeOK /\ AssertState

\* Copying into the writable view leaves a memory of the same type.
LEMMA CopiedType ==
    ASSUME TypeOK, NEW bytes \in Block
    PROVE  Copied(bytes) \in [Cell -> Byte]
<1>1. \A c \in Cell : ((c - WritePtr) % Size) + 1 \in 1 .. Size
  BY SizeAssumption, ModRange DEF TypeOK, Cell, WritePtr
<1>2. \A i \in 1 .. Len(bytes) : bytes[i] \in Byte
  BY DEF Block
<1>3. ASSUME NEW c \in Cell PROVE Copied(bytes)[c] \in Byte
  <2> DEFINE i == ((c - WritePtr) % Size) + 1
  <2>1. i \in 1 .. Size
    BY <1>1, Zenon
  <2>2. Copied(bytes)[c] = IF i + Size <= Len(bytes) THEN bytes[i + Size]
                           ELSE IF i <= Len(bytes) THEN bytes[i] ELSE region[c]
    BY Zenon DEF Copied
  <2>3. Len(bytes) \in Nat /\ region[c] \in Byte
    BY DEF Block, TypeOK
  <2> HIDE DEF i
  <2>. QED
    BY <1>2, <2>1, <2>2, <2>3, SizeAssumption
<1>. QED
  BY <1>3, Zenon DEF Copied

\* Every operation, successful or refused, keeps ASSERT_STATE.
LEMMA InvInductive == Inv /\ [Next]_vars => Inv'
<1> SUFFICES ASSUME Inv, [Next]_vars
             PROVE  Inv'
  BY Zenon
<1> USE SizeAssumption, BoundAssumption DEF Inv
<1>1. ASSUME NEW bytes \in Block, Put(bytes)
      PROVE  Inv'
  <2>1. Len(bytes) \in Nat
    BY DEF Block
  <2>2. TypeOK'
    BY <1>1, <2>1, CopiedType DEF Put, TypeOK, AssertState
  <2>3. AssertState'
    BY <1>1, <2>1 DEF Put, TypeOK, AssertState, writable_len, readable_len
  <2>. QED
    BY <2>2, <2>3, Zenon
<1>2. ASSUME NEW n \in 0 .. (Size + 1), Get(n)
      PROVE  Inv'
  BY <1>2 DEF Get, TypeOK, AssertState, readable_len
<1>3. CASE UNCHANGED vars
  BY <1>3, Zenon DEF vars, TypeOK, AssertState
<1>. QED
  BY <1>1, <1>2, <1>3, Zenon DEF Next

LEMMA InvCorrect == Spec => []Inv
<1>1. Init => Inv
  BY SizeAssumption, BoundAssumption DEF Init, Inv, TypeOK, AssertState
<1>. QED
  BY <1>1, InvInductive, PTL DEF Spec

\* The fields of the buffer keep their types, for every size.
THEOREM TypeCorrect == Spec => []TypeOK
BY InvCorrect, PTL DEF Inv

\* ASSERT_STATE never fails, for every size: no sequence of rb_read and
\* rb_write calls, whatever lengths are asked for, lets the reader overtake
\* the writer or the writer lap the reader.
THEOREM AssertNeverFails == Spec => []AssertState
BY InvCorrect, PTL DEF Inv

------------------------------------------------------------------------------
(* The two views. *)

\* A caller's address is the cell of the index it stands for.
LEMMA AddressOfIndex ==
    ASSUME Inv, NEW i \in Int
    PROVE  /\ CellOf(ReadPtr + i) = (read_index + i) % Size
           /\ CellOf(WritePtr + i) = (write_index + i) % Size
<1>1. read_index \in Int /\ write_index \in Int
  BY BoundAssumption DEF Inv, TypeOK
<1>. QED
  BY <1>1, SizeAssumption, ModShift, Zenon DEF CellOf, ReadPtr, WritePtr

LEMMA InvDisjoint == Inv => ViewsDisjoint
<1> SUFFICES ASSUME Inv PROVE ViewsDisjoint
  BY Zenon
<1> USE SizeAssumption, BoundAssumption
<1>1. /\ ReadPtr + readable_len <= 2 * Size
      /\ WritePtr + writable_len <= 2 * Size
  <2>1. ReadPtr \in 0 .. (Size - 1) /\ WritePtr \in 0 .. (Size - 1)
    BY ModRange DEF Inv, TypeOK, ReadPtr, WritePtr
  <2>. QED
    BY <2>1 DEF Inv, TypeOK, AssertState, readable_len, writable_len
<1>2. ASSUME NEW i \in 0 .. (readable_len - 1),
             NEW j \in 0 .. (writable_len - 1),
             CellOf(ReadPtr + i) = CellOf(WritePtr + j)
      PROVE  FALSE
  <2> DEFINE x == read_index + i
             y == write_index + j
  <2>1. x \in Int /\ y \in Int /\ y - x < Size /\ x - y < Size /\ x # y
    BY DEF Inv, TypeOK, AssertState, readable_len, writable_len
  <2>2. x % Size = y % Size
    BY <1>2, AddressOfIndex DEF Inv, TypeOK, readable_len, writable_len
  <2> HIDE DEF x, y
  <2>. QED
    BY <2>1, <2>2, SizeAssumption, ModUnique, Zenon
<1>. QED
  BY <1>1, <1>2, Zenon DEF ViewsDisjoint

\* For every size, the writable view never covers a byte that is still to be
\* read, and neither view leaves the double mapping.
THEOREM ViewsNeverOverlap == Spec => []ViewsDisjoint
BY InvCorrect, InvDisjoint, PTL

------------------------------------------------------------------------------
(* The ring buffer implements the queue. *)

\* The reader's view as a sequence over the indices.
ViewMeaning ==
    /\ View \in Seq(Byte)
    /\ Len(View) = readable_len
    /\ readable_len \in Nat
    /\ \A i \in 1 .. readable_len :
           View[i] = region[(read_index + i - 1) % Size]

LEMMA ViewType == Inv => ViewMeaning
<1> SUFFICES ASSUME Inv PROVE ViewMeaning
  BY Zenon
<1> USE SizeAssumption, BoundAssumption
<1>1. readable_len \in Nat
  BY DEF Inv, TypeOK, AssertState, readable_len
<1>2. ASSUME NEW i \in 1 .. readable_len
      PROVE  /\ CellOf(ReadPtr + i - 1) = (read_index + i - 1) % Size
             /\ region[CellOf(ReadPtr + i - 1)] \in Byte
  <2>1. i - 1 \in Int /\ read_index \in Int /\ ReadPtr \in Int
    BY <1>1, ModRange DEF Inv, TypeOK, ReadPtr
  <2>2. CellOf(ReadPtr + (i - 1)) = (read_index + (i - 1)) % Size
    BY <2>1, AddressOfIndex, Zenon
  <2>3. ReadPtr + (i - 1) = ReadPtr + i - 1 /\ read_index + (i - 1) = read_index + i - 1
    BY <2>1, Zenon
  <2>4. (read_index + i - 1) % Size \in Cell
    BY <2>1, ModRange DEF Cell
  <2>. QED
    BY <2>2, <2>3, <2>4, Zenon DEF Inv, TypeOK
<1>3. View \in [1 .. readable_len -> Byte]
  BY <1>2, Zenon DEF View
<1>. QED
  BY <1>1, <1>2, <1>3 DEF View, ViewMeaning

\* An unread byte lives in a cell, and how far that cell is from the write
\* pointer, going round.
LEMMA UnreadCell ==
    ASSUME Inv, NEW x \in read_index .. (write_index - 1)
    PROVE  /\ x % Size \in Cell
           /\ ((x % Size) - WritePtr) % Size = Size - (write_index - x)
           /\ Size - (write_index - x) \in 0 .. (Size - 1)
<1> USE SizeAssumption, BoundAssumption
<1> DEFINE d == Size - (write_index - x)
           y == write_index + d
<1>1. /\ write_index \in Int /\ x \in Int /\ y \in Int /\ -1 \in Int
      /\ d \in 0 .. (Size - 1) /\ x = y + Size * (-1)
  BY DEF Inv, TypeOK, AssertState
<1>2. x % Size = y % Size
  <2>1. \A n, k, m \in Int : n = k + Size * m => n % Size = k % Size
    BY ModCongruent, Zenon
  <2> HIDE DEF d, y
  <2>. QED
    BY <1>1, <2>1, Zenon
<1>3. y % Size \in Cell /\ ((y % Size) - WritePtr) % Size = d
  BY <1>1, ModRange, ModDistance, Zenon DEF Cell, WritePtr
<1>. QED
  BY <1>1, <1>2, <1>3, Zenon

\* The memory after a copy that fits: the copied bytes are at the write index
\* and after, and every byte that was still to be read is where it was.
LEMMA CopiedCells ==
    ASSUME Inv, NEW bytes \in Block, Len(bytes) <= writable_len
    PROVE  /\ \A j \in 1 .. Len(bytes) :
                  Copied(bytes)[(write_index + j - 1) % Size] = bytes[j]
           /\ \A x \in read_index .. (write_index - 1) :
                  Copied(bytes)[x % Size] = region[x % Size]
<1> USE SizeAssumption, BoundAssumption
<1>1. Len(bytes) \in Nat /\ Len(bytes) <= Size /\ write_index \in Int
  BY DEF Block, Inv, TypeOK, AssertState, writable_len, readable_len
<1>2. ASSUME NEW d \in 0 .. (Size - 1)
      PROVE  /\ (write_index + d) % Size \in Cell
             /\ (((write_index + d) % Size) - WritePtr) % Size = d
  <2>1. write_index + d \in Int
    BY <1>1
  <2>. QED
    BY <1>1, <2>1, ModRange, ModDistance, Zenon DEF Cell, WritePtr
<1>3. ASSUME NEW j \in 1 .. Len(bytes)
      PROVE  Copied(bytes)[(write_index + j - 1) % Size] = bytes[j]
  <2> DEFINE d == j - 1
  <2>1. d \in 0 .. (Size - 1) /\ write_index + j - 1 = write_index + d /\ d + 1 = j
    BY <1>1
  <2> DEFINE c == (write_index + d) % Size
  <2>2. c \in Cell /\ (c - WritePtr) % Size = d
    BY <1>2, <2>1, Zenon
  <2>3. Copied(bytes)[c] = bytes[d + 1]
    <3> HIDE DEF c, d
    <3>. QED
      BY <1>1, <2>1, <2>2 DEF Copied
  <2>. QED
    BY <2>1, <2>3, Zenon
<1>4. ASSUME NEW x \in read_index .. (write_index - 1)
      PROVE  Copied(bytes)[x % Size] = region[x % Size]
  <2> DEFINE d == Size - (write_index - x)
  <2>1. x % Size \in Cell /\ ((x % Size) - WritePtr) % Size = d
    BY UnreadCell, Zenon
  <2>2. ~ (d + 1 <= Len(bytes)) /\ ~ ((d + 1) + Size <= Len(bytes))
    BY <1>1 DEF Inv, TypeOK, AssertState, writable_len, readable_len
  <2> HIDE DEF d
  <2>. QED
    BY <2>1, <2>2, Zenon DEF Copied
<1>. QED
  BY <1>3, <1>4, Zenon

\* A successful put appends to the reader's view.
LEMMA PutAppends ==
    ASSUME Inv, Inv', NEW bytes \in Block, Put(bytes), Len(bytes) <= writable_len
    PROVE  View' = View \o bytes
<1> USE SizeAssumption, BoundAssumption
<1>1. ViewMeaning /\ ViewMeaning'
  <2>1. Inv' => ViewMeaning'
    BY ViewType, PTL
  <2>. QED
    BY <2>1, ViewType, Zenon
<1>2. bytes \in Seq(Byte) /\ Len(bytes) \in Nat
  BY DEF Block
<1>3. /\ read_index' = read_index
      /\ write_index' = write_index + Len(bytes)
      /\ region' = Copied(bytes)
      /\ read_index \in Int /\ write_index \in Int
  BY <1>2 DEF Put, Inv, TypeOK, writable_len, readable_len
<1>4. readable_len' = readable_len + Len(bytes)
  BY <1>2, <1>3 DEF readable_len
<1>5. ASSUME NEW i \in 1 .. (readable_len + Len(bytes))
      PROVE  View'[i] = (View \o bytes)[i]
  <2>1. View'[i] = Copied(bytes)[(read_index + i - 1) % Size]
    BY <1>1, <1>3, <1>4, Zenon DEF ViewMeaning
  <2>2. CASE i <= readable_len
    <3>1. read_index + i - 1 \in read_index .. (write_index - 1)
      BY <1>1, <1>2, <1>3, <2>2 DEF readable_len, ViewMeaning
    <3>2. View'[i] = region[(read_index + i - 1) % Size]
      BY <2>1, <3>1, CopiedCells, Zenon
    <3>3. (View \o bytes)[i] = View[i] /\ i \in 1 .. readable_len
      BY <1>1, <1>2, <2>2, ConcatProperties DEF ViewMeaning
    <3>. QED
      BY <1>1, <3>2, <3>3, Zenon DEF ViewMeaning
  <2>3. CASE i > readable_len
    <3> DEFINE j == i - readable_len
    <3>1. j \in 1 .. Len(bytes) /\ read_index + i - 1 = write_index + j - 1
      BY <1>1, <1>2, <1>3, <2>3 DEF readable_len, ViewMeaning
    <3>2. (View \o bytes)[i] = bytes[j]
      BY <1>1, <1>2, <2>3, ConcatProperties DEF ViewMeaning
    <3>3. View'[i] = Copied(bytes)[(write_index + j - 1) % Size]
      BY <2>1, <3>1, Zenon
    <3> HIDE DEF j
    <3>. QED
      BY <3>1, <3>2, <3>3, CopiedCells, Zenon
  <2>. QED
    BY <1>1, <1>2, <2>2, <2>3 DEF ViewMeaning
<1>6. /\ View' \in Seq(Byte) /\ Len(View') = readable_len + Len(bytes)
      /\ View \o bytes \in Seq(Byte)
      /\ Len(View \o bytes) = readable_len + Len(bytes)
  BY <1>1, <1>2, <1>4, ConcatProperties, Zenon DEF ViewMeaning
<1>. QED
  BY <1>5, <1>6, SeqEqual, Zenon

\* A block copied without regard to the room overwrites the oldest bytes of
\* the reader's view, as far as it comes round to them.
LEMMA CopyOverruns ==
    ASSUME Inv, Inv', NEW bytes \in Block, region' = Copied(bytes),
           read_index' = read_index, write_index' = write_index
    PROVE  View' = Queue!Overrun(bytes)
<1> USE SizeAssumption, BoundAssumption
<1>1. ViewMeaning /\ ViewMeaning'
  <2>1. Inv' => ViewMeaning'
    BY ViewType, PTL
  <2>. QED
    BY <2>1, ViewType, Zenon
<1>2. /\ readable_len' = readable_len /\ readable_len \in Nat /\ Len(View) = readable_len
      /\ View' = [j \in 1 .. readable_len |-> View'[j]]
  BY <1>1 DEF readable_len, ViewMeaning, View
<1>3. ASSUME NEW j \in 1 .. readable_len
      PROVE  View'[j] = Queue!Overrun(bytes)[j]
  <2> DEFINE x == read_index + j - 1
             d == Size - (write_index - x)
             i == (Size - Len(View)) + j
  <2>1. x \in read_index .. (write_index - 1) /\ d + 1 = i
    <3>1. /\ read_index \in Int /\ write_index \in Int
          /\ j \in 1 .. (write_index - read_index)
      BY DEF Inv, TypeOK, readable_len
    <3>2. i = (Size - (write_index - read_index)) + j
      BY <1>2, Zenon DEF readable_len
    <3> HIDE DEF i
    <3>. QED
      BY <3>1, <3>2
  <2>2. x % Size \in Cell /\ ((x % Size) - WritePtr) % Size = d
    BY <2>1, UnreadCell, Zenon
  <2>3. View'[j] = Copied(bytes)[x % Size] /\ View[j] = region[x % Size]
    BY <1>1, <1>2, Zenon DEF ViewMeaning
  <2>4. Queue!Overrun(bytes)[j] =
            IF i + Size <= Len(bytes) THEN bytes[i + Size]
            ELSE IF i <= Len(bytes) THEN bytes[i]
            ELSE View[j]
    BY <1>2, Zenon DEF Queue!Overrun
  <2>5. Copied(bytes)[x % Size] =
            IF (d + 1) + Size <= Len(bytes) THEN bytes[(d + 1) + Size]
            ELSE IF d + 1 <= Len(bytes) THEN bytes[d + 1]
            ELSE region[x % Size]
    <3> HIDE DEF x, d
    <3>. QED
      BY <2>2, Zenon DEF Copied
  <2> HIDE DEF x, d, i
  <2>. QED
    BY <2>1, <2>3, <2>4, <2>5, Zenon
<1>4. Queue!Overrun(bytes) = [j \in 1 .. readable_len |-> Queue!Overrun(bytes)[j]]
  BY <1>2, Zenon DEF Queue!Overrun
<1>. QED
  BY <1>2, <1>3, <1>4, Zenon

\* A successful get drops the oldest bytes of the reader's view.
LEMMA GetDrops ==
    ASSUME Inv, Inv', NEW n \in 0 .. (Size + 1), Get(n), n <= readable_len
    PROVE  View' = SubSeq(View, n + 1, Len(View))
<1> USE SizeAssumption, BoundAssumption
<1>1. ViewMeaning /\ ViewMeaning'
  <2>1. Inv' => ViewMeaning'
    BY ViewType, PTL
  <2>. QED
    BY <2>1, ViewType, Zenon
<1>2. /\ read_index' = read_index + n
      /\ write_index' = write_index
      /\ region' = region
      /\ read_index \in Int /\ write_index \in Int
      /\ readable_len' = readable_len - n
      /\ n \in Nat
  <2>1. n \in Nat /\ read_index \in Int /\ write_index \in Int
    BY DEF Inv, TypeOK
  <2>2. ~ (n > readable_len)
    BY <2>1 DEF readable_len
  <2>3. read_index' = read_index + n /\ write_index' = write_index /\ region' = region
    BY <2>2, Zenon DEF Get
  <2>. QED
    BY <2>1, <2>3 DEF readable_len
<1> DEFINE rest == SubSeq(View, n + 1, Len(View))
<1>3. /\ rest \in Seq(Byte)
      /\ Len(rest) = readable_len - n
      /\ \A i \in 1 .. (readable_len - n) : rest[i] = View[n + i]
  <2>1. PICK v \in Seq(Byte), l \in Nat : v = View /\ l = readable_len /\ Len(v) = l
    BY <1>1, <1>2 DEF ViewMeaning
  <2>2. /\ SubSeq(v, n + 1, Len(v)) \in Seq(Byte) /\ Len(SubSeq(v, n + 1, Len(v))) = l - n
        /\ \A i \in 1 .. (l - n) : SubSeq(v, n + 1, Len(v))[i] = v[n + i]
    BY <1>1, <2>1
  <2>. QED
    BY <2>1, <2>2, Zenon
<1>4. ASSUME NEW i \in 1 .. (readable_len - n)
      PROVE  View'[i] = rest[i]
  <2>1. View'[i] = region[(read_index + n + i - 1) % Size]
    BY <1>1, <1>2, Zenon DEF ViewMeaning
  <2>2. n + i \in 1 .. readable_len
    BY <1>1, <1>2 DEF ViewMeaning
  <2>3. View[n + i] = region[(read_index + (n + i) - 1) % Size]
    BY <1>1, <2>2, Zenon DEF ViewMeaning
  <2>4. read_index + (n + i) - 1 = read_index + n + i - 1
    BY <1>1, <1>2
  <2>. QED
    BY <1>3, <2>1, <2>3, <2>4, Zenon
<1>5. View' \in Seq(Byte) /\ Len(View') = readable_len - n
  BY <1>1, <1>2, Zenon DEF ViewMeaning
<1>. QED
  BY <1>3, <1>4, <1>5, SeqEqual, Zenon

\* For every size, the ring buffer implements the bounded queue: reading
\* yields exactly the bytes written, in order, across every wrap; an
\* operation is refused only when the queue is too full or too short; and a
\* refused write that was copied all the same has replaced the oldest unread
\* bytes and nothing else.
THEOREM RingBufferIsQueue == Spec => ImplementsQueue
<1> USE SizeAssumption, BoundAssumption
<1>1. Init => Queue!Init
  BY DEF Init, Queue!Init, View, readable_len
<1>2. Inv /\ Inv' /\ [Next]_vars => [Queue!Next]_(Queue!vars)
  <2> SUFFICES ASSUME Inv, Inv', [Next]_vars
               PROVE  [Queue!Next]_(Queue!vars)
    BY Zenon
  <2>1. Len(View) = readable_len /\ readable_len \in Nat
    BY ViewType, Zenon DEF ViewMeaning
  <2>2. ASSUME NEW bytes \in Block, Put(bytes)
        PROVE  Queue!Put(bytes)
    <3>1. Len(bytes) \in Nat
      BY DEF Block
    <3>2. CASE Len(bytes) <= writable_len
      BY <2>1, <2>2, <3>1, <3>2, PutAppends DEF Put, Queue!Put, writable_len
    <3>3. CASE Len(bytes) > writable_len
      <4>1. /\ ret' = -1 /\ call' = <<"put", bytes>>
            /\ read_index' = read_index /\ write_index' = write_index
            /\ region' = region \/ region' = Copied(bytes)
        BY <2>1, <2>2, <3>1, <3>3 DEF Put, writable_len
      <4>2. View' = View \/ View' = Queue!Overrun(bytes)
        <5>1. CASE region' = region
          BY <4>1, <5>1, Zenon DEF View, readable_len, ReadPtr
        <5>2. CASE region' = Copied(bytes)
          BY <4>1, <5>2, CopyOverruns, Zenon
        <5>. QED
          BY <4>1, <5>1, <5>2, Zenon
      <4>3. Len(View) + Len(bytes) > Size
        BY <2>1, <3>1, <3>3 DEF writable_len
      <4>. QED
        BY <4>1, <4>2, <4>3, Zenon DEF Queue!Put
    <3>. QED
      BY <2>1, <3>1, <3>2, <3>3 DEF writable_len
  <2>3. ASSUME NEW n \in 0 .. (Size + 1), Get(n)
        PROVE  Queue!Get(n)
    <3>1. CASE n <= readable_len
      BY <2>1, <2>3, <3>1, GetDrops DEF Get, Queue!Get
    <3>2. CASE n > readable_len
      <4>1. View' = View /\ ret' = -1 /\ call' = <<"get", n>>
        BY <2>1, <2>3, <3>2 DEF Get, View, readable_len, ReadPtr
      <4>. QED
        BY <2>1, <3>2, <4>1, Zenon DEF Queue!Get
    <3>. QED
      BY <2>1, <3>1, <3>2
  <2>4. CASE UNCHANGED vars
    BY <2>4, Zenon DEF vars, Queue!vars, View, readable_len, ReadPtr
  <2>. QED
    BY <2>2, <2>3, <2>4, Zenon DEF Next, Queue!Next
<1>. QED
  BY <1>1, <1>2, InvCorrect, PTL DEF Spec, ImplementsQueue, Queue!Spec
==============================================================================

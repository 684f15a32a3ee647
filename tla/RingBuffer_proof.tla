-------------------------- MODULE RingBuffer_proof --------------------------
(* The zero-copy ring, for every capacity and every set of byte values: the *)
(* two sides never touch the same cell, and the ring implements the stream  *)
(* of BoundedFifo.                                                          *)
EXTENDS RingBuffer, SequenceTheorems, TLAPS

(* A position plus a length of at most one lap: the remainder is at most   *)
(* one subtraction.                                                        *)
Wrap(x) == IF x < Capacity THEN x ELSE x - Capacity

(* A call in progress still fits in what it saw, whatever the other side   *)
(* has done since; what the producer has copied is in place, and what the  *)
(* consumer has copied is still what the ring holds.                       *)
CallsFit ==
  /\ prod.pc # "idle" => Len(prod.chunk) <= AvailableWrite
  /\ prod.pc = "second" => /\ WriteFirstSeg < Len(prod.chunk)
                           /\ \A i \in 1..WriteFirstSeg : data[Wrap(writePos + i - 1)] = prod.chunk[i]
  /\ prod.pc = "publish" => \A i \in 1..Len(prod.chunk) : data[Wrap(writePos + i - 1)] = prod.chunk[i]
  /\ cons.pc # "idle" => cons.want <= AvailableRead
  /\ cons.pc = "second" => ReadFirstSeg < cons.want /\ Len(cons.buf) = ReadFirstSeg
  /\ cons.pc = "publish" => Len(cons.buf) = cons.want
  /\ cons.pc \in {"second", "publish"} =>
       \A i \in 1..Len(cons.buf) : cons.buf[i] = data[Wrap(readPos + i - 1)]

(* The inductive invariant *)
RingInv == TypeOK /\ CallsFit

(* The remainder that write, read and clear compute wraps at most once *)
LEMMA ModIsWrap ==
    ASSUME NEW x \in Nat, x < 2 * Capacity
    PROVE  x % Capacity = Wrap(x) /\ Wrap(x) \in 0..Capacity-1
  <1>0. Capacity \in Nat \ {0}
    BY RingAssumption
  <1>1. Wrap(x) \in 0..Capacity-1
    BY <1>0 DEF Wrap
  <1>2. CASE x < Capacity
    BY <1>0, <1>2 DEF Wrap
  <1>3. CASE x >= Capacity
    BY <1>0, <1>3 DEF Wrap
  <1> QED BY <1>1, <1>2, <1>3, <1>0

(* Wrapping an offset in two stages *)
LEMMA WrapTwice ==
    ASSUME NEW r \in 0..Capacity-1, NEW a \in Nat, NEW i \in Nat \ {0}, a + i <= Capacity
    PROVE  Wrap(Wrap(r + a) + i - 1) = Wrap(r + (a + i) - 1)
  BY RingAssumption DEF Wrap

(* The cells from a read position up to a write position *)
Span(w, r) == IF w >= r THEN w - r ELSE Capacity - (r - w)

(* A write position that moves on by at most the free cells adds them *)
LEMMA SpanGrows ==
    ASSUME NEW w \in 0..Capacity-1, NEW r \in 0..Capacity-1, NEW n \in Nat,
           n <= Capacity - 1 - Span(w, r)
    PROVE  Span(Wrap(w + n), r) = Span(w, r) + n
  BY RingAssumption DEF Wrap, Span

(* A read position that moves on by at most the filled cells takes them *)
LEMMA SpanShrinks ==
    ASSUME NEW w \in 0..Capacity-1, NEW r \in 0..Capacity-1, NEW n \in Nat, n <= Span(w, r)
    PROVE  Span(w, Wrap(r + n)) = Span(w, r) - n
  BY RingAssumption DEF Wrap, Span

(* What one load of both positions shows lies within the capacity, the     *)
(* space and the data make up all but one cell, and the stretches of       *)
(* write_ptr and read_ptr are no longer than what write and read allow.    *)
LEMMA Available ==
    ASSUME TypeOK
    PROVE  /\ AvailableRead \in 0..Capacity-1
           /\ AvailableWrite \in 0..Capacity-1
           /\ AvailableRead + AvailableWrite = Capacity - 1
           /\ WritePtrLen <= AvailableWrite
           /\ ReadPtrLen <= AvailableRead
  BY RingAssumption DEF TypeOK, AvailableRead, AvailableWrite, WritePtrLen, ReadPtrLen, Least

(* The cell an offset from a position stands for *)
LEMMA CellIsWrap ==
    ASSUME NEW p \in 0..Capacity-1, NEW i \in 1..Capacity
    PROVE  /\ (p + i - 1) % Capacity = Wrap(p + i - 1)
           /\ Wrap(p + i - 1) \in 0..Capacity-1
  <1>1. p + i - 1 \in Nat /\ p + i - 1 < 2 * Capacity
    BY RingAssumption
  <1> QED BY <1>1, ModIsWrap

(* The cells of a stretch that starts at a position and is no longer than  *)
(* the ring.                                                               *)
LEMMA CellsAreWrap ==
    ASSUME NEW p \in 0..Capacity-1, NEW n \in 0..Capacity
    PROVE  Cells(p, n) = {Wrap(p + i) : i \in 0..n-1}
  <1>1. \A i \in 0..n-1 : (p + i) % Capacity = Wrap(p + i)
    <2> TAKE i \in 0..n-1
    <2>1. p + i \in Nat /\ p + i < 2 * Capacity
      BY RingAssumption
    <2> QED BY <2>1, ModIsWrap
  <1> QED BY Zenon, <1>1 DEF Cells

(* The free stretch after the write position and the published stretch     *)
(* after the read position share no cell.                                  *)
LEMMA StretchesApart ==
    ASSUME TypeOK, NEW n \in Nat, NEW m \in Nat, n <= AvailableWrite, m <= AvailableRead
    PROVE  /\ Cells(writePos, n) \cap Cells(readPos, m) = {}
           /\ \A i \in 1..n, j \in 1..m : Wrap(writePos + i - 1) # Wrap(readPos + j - 1)
  <1>0. /\ Capacity \in Nat \ {0} /\ writePos \in 0..Capacity-1 /\ readPos \in 0..Capacity-1
        /\ n \in 0..Capacity /\ m \in 0..Capacity
    BY RingAssumption, Available DEF TypeOK
  <1>1. ASSUME NEW i \in 0..n-1, NEW j \in 0..m-1
        PROVE  Wrap(writePos + i) # Wrap(readPos + j)
    BY <1>0, <1>1 DEF Wrap, AvailableWrite, AvailableRead
  <1>2. ASSUME NEW i \in 1..n, NEW j \in 1..m
        PROVE  Wrap(writePos + i - 1) # Wrap(readPos + j - 1)
    BY <1>0, <1>2 DEF Wrap, AvailableWrite, AvailableRead
  <1>3. /\ Cells(writePos, n) = {Wrap(writePos + i) : i \in 0..n-1}
        /\ Cells(readPos, m) = {Wrap(readPos + i) : i \in 0..m-1}
    BY Zenon, <1>0, CellsAreWrap
  <1> QED BY <1>1, <1>2, <1>3

(* A chunk that a caller hands to write *)
LEMMA ChunkIsSeq ==
    ASSUME NEW chunk \in Chunks
    PROVE  chunk \in Seq(Byte)
  <1>1. PICK n \in 0..Capacity : chunk \in [1..n -> Byte]
    BY DEF Chunks
  <1>2. n \in Nat
    BY RingAssumption
  <1> QED BY <1>1, <1>2

(* A function on an initial stretch of the numbers is a sequence *)
LEMMA StretchIsSeq ==
    ASSUME NEW n \in Nat, NEW f \in [1..n -> Byte]
    PROVE  f \in Seq(Byte) /\ Len(f) = n /\ \A i \in 1..n : f[i] \in Byte
  OBVIOUS

-----------------------------------------------------------------------------
(* Every step keeps the shapes: a copy stays inside the allocation and     *)
(* inside the caller's buffer.                                             *)
LEMMA StepKeepsTypes ==
    ASSUME RingInv, [Next]_vars
    PROVE  TypeOK'
  <1>0. /\ TypeOK /\ CallsFit /\ Capacity \in Nat \ {0}
    BY RingAssumption DEF RingInv
  <1>a. /\ Len(prod.chunk) \in Nat /\ \A i \in 1..Len(prod.chunk) : prod.chunk[i] \in Byte
        /\ Len(cons.buf) \in Nat /\ \A i \in 1..Len(cons.buf) : cons.buf[i] \in Byte
    BY <1>0 DEF TypeOK
  <1>1. ASSUME NEW chunk \in Chunks, BeginWrite(chunk) \/ BeginWritePtr(chunk)
        PROVE  TypeOK'
    BY <1>0, <1>1, ChunkIsSeq DEF TypeOK, BeginWrite, BeginWritePtr
  <1>2. CASE WriteFirst
    <2>1. data' \in [0..Capacity-1 -> Byte]
      BY SMTT(30), <1>0, <1>a, <1>2 DEF TypeOK, WriteFirst, WriteFirstSeg, Least
    <2> QED BY Zenon, <1>0, <1>2, <2>1 DEF TypeOK, WriteFirst
  <1>3. CASE WriteSecond
    <2>1. WriteFirstSeg \in Nat
      BY <1>0, <1>a DEF WriteFirstSeg, Least, TypeOK
    <2>2. data' \in [0..Capacity-1 -> Byte]
      BY <1>0, <1>a, <1>3, <2>1 DEF TypeOK, WriteSecond
    <2> QED BY Zenon, <1>0, <1>3, <2>2 DEF TypeOK, WriteSecond
  <1>4. CASE PublishWrite
    <2>1. AvailableWrite \in 0..Capacity-1 /\ Len(prod.chunk) <= AvailableWrite
      BY <1>0, <1>4, Available DEF CallsFit, PublishWrite
    <2>2. writePos + Len(prod.chunk) \in Nat /\ writePos + Len(prod.chunk) < 2 * Capacity
      BY <1>0, <1>a, <2>1 DEF TypeOK
    <2>a. (writePos + Len(prod.chunk)) % Capacity \in 0..Capacity-1
      BY <2>2, ModIsWrap
    <2>3. writePos' \in 0..Capacity-1
      <3>1. writePos \in 0..Capacity-1
        BY <1>0 DEF TypeOK
      <3> QED BY Zenon, <1>4, <2>a, <3>1 DEF PublishWrite
    <2> QED BY <1>0, <1>4, <2>3 DEF TypeOK, PublishWrite, IdleP
  <1>5. ASSUME NEW n \in 0..Capacity, BeginRead(n) \/ BeginReadPtr(n)
        PROVE  TypeOK'
    <2>1. AvailableRead \in Nat
      BY <1>0, Available
    <2>2. Least(n, AvailableRead) \in Nat
      BY <2>1 DEF Least
    <2>3. <<>> \in Seq(Byte)
      OBVIOUS
    <2>4. n \in Nat
      BY <1>0, <1>5
    <2>5. \/ cons' = [pc |-> "first", via |-> "memcpy", want |-> Least(n, AvailableRead), buf |-> <<>>]
          \/ cons' = [pc |-> "first", via |-> "pointer", want |-> n, buf |-> <<>>]
      BY <1>5 DEF BeginRead, BeginReadPtr
    <2>6. UNCHANGED <<data, writePos, readPos, prod, out>>
      BY <1>5 DEF BeginRead, BeginReadPtr
    <2>7. cons' \in [pc : {"idle", "first", "second", "publish"},
                    via : {"memcpy", "pointer"}, want : Nat, buf : Seq(Byte)]
      <3>1. PICK v \in {"memcpy", "pointer"}, m \in Nat :
                cons' = [pc |-> "first", via |-> v, want |-> m, buf |-> <<>>]
        BY <2>2, <2>4, <2>5
      <3> QED BY <2>3, <3>1
    <2> QED BY <1>0, <2>6, <2>7 DEF TypeOK
  <1>6. CASE ReadFirst
    <2>1. /\ ReadFirstSeg \in Nat /\ \A i \in 1..ReadFirstSeg : data[readPos + i - 1] \in Byte
      BY <1>0 DEF ReadFirstSeg, Least, TypeOK
    <2>2. [i \in 1..ReadFirstSeg |-> data[readPos + i - 1]] \in Seq(Byte)
      BY <2>1
    <2> QED BY Zenon, <1>0, <1>6, <2>2 DEF TypeOK, ReadFirst
  <1>7. CASE ReadSecond
    <2> DEFINE got(i) == IF i <= Len(cons.buf) THEN cons.buf[i] ELSE data[i - Len(cons.buf) - 1]
    <2>1. cons.want \in Nat /\ cons.want <= AvailableRead /\ AvailableRead < Capacity /\ AvailableRead \in Nat
      BY <1>0, <1>7, Available DEF TypeOK, CallsFit, ReadSecond
    <2>2. \A i \in 1..cons.want : got(i) \in Byte
      BY <1>0, <1>a, <2>1 DEF TypeOK
    <2> HIDE DEF got
    <2>a. [i \in 1..cons.want |-> got(i)] \in [1..cons.want -> Byte]
      BY <2>2
    <2>3. [i \in 1..cons.want |-> got(i)] \in Seq(Byte)
      BY <2>1, <2>a
    <2> QED BY Zenon, <1>0, <1>7, <2>3 DEF TypeOK, ReadSecond, got
  <1>8. CASE PublishRead
    <2>1. cons.want \in Nat /\ cons.want <= AvailableRead /\ AvailableRead < Capacity /\ AvailableRead \in Nat
      BY <1>0, <1>8, Available DEF TypeOK, CallsFit, PublishRead
    <2>2. readPos + cons.want \in Nat /\ readPos + cons.want < 2 * Capacity
      BY <1>0, <2>1 DEF TypeOK
    <2>a. (readPos + cons.want) % Capacity \in 0..Capacity-1
      BY <2>2, ModIsWrap
    <2>3. readPos' \in 0..Capacity-1
      BY <1>0, <1>8, <2>a DEF PublishRead, TypeOK
    <2>4. out' \in Seq(Byte)
      BY <1>0, <1>8 DEF PublishRead, TypeOK
    <2>5. cons' \in [pc : {"idle", "first", "second", "publish"},
                    via : {"memcpy", "pointer"}, want : Nat, buf : Seq(Byte)]
      BY <1>8 DEF PublishRead, IdleC
    <2> QED BY <1>0, <1>8, <2>3, <2>4, <2>5 DEF TypeOK, PublishRead
  <1>9. CASE Clear
    BY <1>0, <1>9 DEF TypeOK, Clear
  <1>10. CASE UNCHANGED vars
    BY <1>0, <1>10 DEF TypeOK, vars
  <1> QED BY <1>1, <1>2, <1>3, <1>4, <1>5, <1>6, <1>7, <1>8, <1>9, <1>10 DEF Next

(* The copies of write and of a write_ptr caller: what has been copied is  *)
(* in its cell, and no published byte is touched.                          *)
LEMMA CopiesLand ==
    ASSUME TypeOK, prod.pc # "idle", Len(prod.chunk) <= AvailableWrite
    PROVE  /\ WriteFirst => /\ \A i \in 1..WriteFirstSeg : data'[Wrap(writePos + i - 1)] = prod.chunk[i]
                            /\ \A j \in 1..AvailableRead : data'[Wrap(readPos + j - 1)] = data[Wrap(readPos + j - 1)]
           /\ WriteSecond => /\ \A i \in 1..WriteFirstSeg :
                                    data'[Wrap(writePos + i - 1)] = data[Wrap(writePos + i - 1)]
                             /\ \A i \in WriteFirstSeg+1..Len(prod.chunk) :
                                    data'[Wrap(writePos + i - 1)] = prod.chunk[i]
                             /\ \A j \in 1..AvailableRead : data'[Wrap(readPos + j - 1)] = data[Wrap(readPos + j - 1)]
  <1> DEFINE n == Len(prod.chunk)
             seg == WriteFirstSeg
             w(i) == Wrap(writePos + i - 1)
             r(j) == Wrap(readPos + j - 1)
  <1>0. /\ Capacity \in Nat \ {0} /\ writePos \in 0..Capacity-1 /\ readPos \in 0..Capacity-1
        /\ n \in Nat /\ n < Capacity /\ seg \in Nat /\ seg <= n /\ seg <= Capacity - writePos
        /\ AvailableRead \in 0..Capacity-1
        /\ seg < n => seg = Capacity - writePos
    BY RingAssumption, Available DEF TypeOK, WriteFirstSeg, Least
  <1>1. \A i \in 1..n : w(i) \in 0..Capacity-1 /\ (i <= seg => w(i) = writePos + i - 1)
                       /\ (i > seg => w(i) = i - seg - 1 /\ w(i) < n - seg)
    BY <1>0 DEF Wrap
  <1>2. \A j \in 1..AvailableRead : r(j) \in 0..Capacity-1 /\ \A i \in 1..n : w(i) # r(j)
    <2>1. \A i \in 1..n, j \in 1..AvailableRead : w(i) # r(j)
      <3>1. n \in Nat /\ AvailableRead \in Nat /\ n <= AvailableWrite /\ AvailableRead <= AvailableRead
        BY <1>0
      <3> HIDE DEF n
      <3> QED BY Zenon, <3>1, StretchesApart
    <2>2. \A j \in 1..AvailableRead : r(j) \in 0..Capacity-1
      BY <1>0 DEF Wrap
    <2> QED BY <2>1, <2>2
  <1> HIDE DEF w, r, n, seg
  <1>3. ASSUME WriteFirst
        PROVE  /\ \A i \in 1..seg : data'[w(i)] = prod.chunk[i]
               /\ \A j \in 1..AvailableRead : data'[r(j)] = data[r(j)]
    <2>1. \A c \in 0..Capacity-1 : data'[c] = IF c \in writePos..(writePos + seg - 1)
                                             THEN prod.chunk[c - writePos + 1] ELSE data[c]
      BY <1>3 DEF WriteFirst, seg
    <2>2. ASSUME NEW i \in 1..seg
          PROVE  data'[w(i)] = prod.chunk[i]
      <3>1. w(i) \in 0..Capacity-1 /\ w(i) = writePos + i - 1 /\ w(i) - writePos + 1 = i
            /\ w(i) \in writePos..(writePos + seg - 1)
        BY <1>0, <1>1
      <3> QED BY <2>1, <3>1
    <2>3. ASSUME NEW j \in 1..AvailableRead
          PROVE  data'[r(j)] = data[r(j)]
      <3>1. r(j) \in 0..Capacity-1
        BY <1>2
      <3>2. ASSUME r(j) \in writePos..(writePos + seg - 1)
            PROVE  FALSE
        <4>1. r(j) - writePos + 1 \in 1..n /\ r(j) - writePos + 1 <= seg
          BY <1>0, <3>1, <3>2
        <4>2. w(r(j) - writePos + 1) = r(j)
          BY <1>0, <1>1, <3>1, <4>1
        <4> QED BY <1>2, <4>1, <4>2
      <3> QED BY <2>1, <3>1, <3>2
    <2> QED BY <2>2, <2>3
  <1>4. ASSUME WriteSecond
        PROVE  /\ \A i \in 1..seg : data'[w(i)] = data[w(i)]
               /\ \A i \in seg+1..n : data'[w(i)] = prod.chunk[i]
               /\ \A j \in 1..AvailableRead : data'[r(j)] = data[r(j)]
    <2>1. \A c \in 0..Capacity-1 : data'[c] = IF c < n - seg THEN prod.chunk[seg + c + 1] ELSE data[c]
      BY <1>4 DEF WriteSecond, seg, n
    <2>2. ASSUME NEW i \in 1..seg
          PROVE  data'[w(i)] = data[w(i)]
      <3>1. w(i) \in 0..Capacity-1 /\ w(i) = writePos + i - 1 /\ ~(w(i) < n - seg)
        BY <1>0, <1>1
      <3> QED BY <2>1, <3>1
    <2>3. ASSUME NEW i \in seg+1..n
          PROVE  data'[w(i)] = prod.chunk[i]
      <3>1. w(i) \in 0..Capacity-1 /\ w(i) < n - seg /\ seg + w(i) + 1 = i
        BY <1>0, <1>1
      <3> QED BY <2>1, <3>1
    <2>4. ASSUME NEW j \in 1..AvailableRead
          PROVE  data'[r(j)] = data[r(j)]
      <3>1. r(j) \in 0..Capacity-1
        BY <1>2
      <3>2. ASSUME r(j) < n - seg
            PROVE  FALSE
        <4>1. seg + r(j) + 1 \in 1..n /\ seg + r(j) + 1 > seg
          BY <1>0, <3>1, <3>2
        <4>2. w(seg + r(j) + 1) = r(j)
          BY <1>0, <1>1, <3>1, <4>1
        <4> QED BY <1>2, <4>1, <4>2
      <3> QED BY <2>1, <3>1, <3>2
    <2> QED BY <2>2, <2>3, <2>4
  <1> QED BY <1>3, <1>4 DEF w, r, n, seg

(* The stores that end a call: neither is refused, and each moves its      *)
(* position by what was copied.                                            *)
LEMMA PublishedWrite ==
    ASSUME TypeOK, Len(prod.chunk) <= AvailableWrite, PublishWrite
    PROVE  writePos' = Wrap(writePos + Len(prod.chunk))
  <1>1. /\ Capacity \in Nat \ {0} /\ Len(prod.chunk) \in Nat /\ writePos \in 0..Capacity-1
        /\ AvailableWrite \in 0..Capacity-1
    BY RingAssumption, Available DEF TypeOK
  <1>2. writePos + Len(prod.chunk) \in Nat /\ writePos + Len(prod.chunk) < 2 * Capacity
    BY <1>1
  <1>3. ~(Len(prod.chunk) > AvailableWrite)
    BY <1>1
  <1>4. writePos' = (writePos + Len(prod.chunk)) % Capacity
    BY <1>3 DEF PublishWrite
  <1> QED BY <1>2, <1>4, ModIsWrap

(* The same for the consumer *)
LEMMA PublishedRead ==
    ASSUME TypeOK, cons.want <= AvailableRead, PublishRead
    PROVE  readPos' = Wrap(readPos + cons.want) /\ out' = cons.buf
  <1>1. /\ Capacity \in Nat \ {0} /\ cons.want \in Nat /\ readPos \in 0..Capacity-1
        /\ AvailableRead \in 0..Capacity-1
    BY RingAssumption, Available DEF TypeOK
  <1>2. readPos + cons.want \in Nat /\ readPos + cons.want < 2 * Capacity
    BY <1>1
  <1>3. ~(cons.want > AvailableRead)
    BY <1>1
  <1>4. readPos' = (readPos + cons.want) % Capacity /\ out' = cons.buf
    BY <1>3 DEF PublishRead
  <1> QED BY <1>2, <1>4, ModIsWrap

(* Every step keeps both calls within what they saw: a call of one side    *)
(* only adds to what the other side may use, and copies land in cells the  *)
(* other side does not look at.                                            *)
LEMMA StepKeepsCalls ==
    ASSUME RingInv, [Next]_vars
    PROVE  CallsFit'
  <1>0. /\ TypeOK /\ CallsFit /\ TypeOK' /\ Capacity \in Nat \ {0}
    BY RingAssumption, StepKeepsTypes DEF RingInv
  <1>a. /\ Len(prod.chunk) \in Nat /\ Len(cons.buf) \in Nat /\ cons.want \in Nat
        /\ writePos \in 0..Capacity-1 /\ readPos \in 0..Capacity-1
        /\ AvailableRead \in 0..Capacity-1 /\ AvailableWrite \in 0..Capacity-1
        /\ AvailableRead + AvailableWrite = Capacity - 1
        /\ WritePtrLen <= AvailableWrite /\ ReadPtrLen <= AvailableRead
        /\ WritePtrLen \in Int /\ ReadPtrLen \in Int
    <2>1. WritePtrLen \in Int /\ ReadPtrLen \in Int
      BY <1>0 DEF TypeOK, WritePtrLen, ReadPtrLen, Least
    <2>2. /\ Len(prod.chunk) \in Nat /\ Len(cons.buf) \in Nat /\ cons.want \in Nat
          /\ writePos \in 0..Capacity-1 /\ readPos \in 0..Capacity-1
      BY <1>0 DEF TypeOK
    <2> QED BY <1>0, <2>1, <2>2, Available
  <1>1. ASSUME NEW chunk \in Chunks, BeginWrite(chunk) \/ BeginWritePtr(chunk)
        PROVE  CallsFit'
    <2>1. chunk \in Seq(Byte) /\ Len(chunk) \in Nat
      BY ChunkIsSeq
    <2>2. /\ prod'.pc = "first" /\ prod'.chunk = chunk /\ Len(chunk) <= AvailableWrite
          /\ UNCHANGED <<data, writePos, readPos, cons, out>>
      BY <1>1, <1>a, <2>1 DEF BeginWrite, BeginWritePtr
    <2> QED BY <1>0, <2>2 DEF CallsFit, AvailableWrite, AvailableRead, ReadFirstSeg
  <1>2. CASE WriteFirst
    <2>1. /\ UNCHANGED <<writePos, readPos, cons, out>> /\ prod'.chunk = prod.chunk
          /\ prod'.pc = IF WriteFirstSeg < Len(prod.chunk) THEN "second" ELSE "publish"
          /\ prod.pc = "first"
      BY <1>0, <1>2 DEF WriteFirst, TypeOK
    <2>2. /\ AvailableWrite' = AvailableWrite /\ AvailableRead' = AvailableRead
          /\ ReadFirstSeg' = ReadFirstSeg /\ WriteFirstSeg' = WriteFirstSeg
          /\ \A x \in Int : Wrap(x)' = Wrap(x)
      BY <2>1 DEF AvailableWrite, AvailableRead, ReadFirstSeg, WriteFirstSeg, Wrap
    <2>3. Len(prod.chunk) <= AvailableWrite
      BY <1>0, <2>1 DEF CallsFit
    <2>4. /\ \A i \in 1..WriteFirstSeg : data'[Wrap(writePos + i - 1)] = prod.chunk[i]
          /\ \A j \in 1..AvailableRead : data'[Wrap(readPos + j - 1)] = data[Wrap(readPos + j - 1)]
      BY <1>0, <1>2, <2>1, <2>3, CopiesLand
    <2>5. ~(WriteFirstSeg < Len(prod.chunk)) => WriteFirstSeg = Len(prod.chunk)
      BY <1>a, <1>0 DEF WriteFirstSeg, Least
    <2>6. cons.pc \in {"second", "publish"} => Len(cons.buf) <= AvailableRead
      BY <1>0, <1>a DEF CallsFit, ReadFirstSeg, Least
    <2>7. cons.pc \in {"second", "publish"} =>
            \A i \in 1..Len(cons.buf) : cons.buf[i] = data'[Wrap(readPos + i - 1)]
      BY <1>0, <1>a, <2>4, <2>6 DEF CallsFit
    <2> QED BY <1>0, <2>1, <2>2, <2>3, <2>4, <2>5, <2>7 DEF CallsFit, Wrap
  <1>3. CASE WriteSecond
    <2>1. /\ UNCHANGED <<writePos, readPos, cons, out>> /\ prod'.chunk = prod.chunk
          /\ prod'.pc = "publish" /\ prod.pc = "second"
      BY <1>0, <1>3 DEF WriteSecond, TypeOK
    <2>2. /\ AvailableWrite' = AvailableWrite /\ AvailableRead' = AvailableRead
          /\ ReadFirstSeg' = ReadFirstSeg
      BY <2>1 DEF AvailableWrite, AvailableRead, ReadFirstSeg
    <2>3. Len(prod.chunk) <= AvailableWrite /\ WriteFirstSeg \in Nat
      BY <1>0, <1>a, <2>1 DEF CallsFit, WriteFirstSeg, Least
    <2>4. /\ \A i \in 1..WriteFirstSeg : data'[Wrap(writePos + i - 1)] = data[Wrap(writePos + i - 1)]
          /\ \A i \in WriteFirstSeg+1..Len(prod.chunk) : data'[Wrap(writePos + i - 1)] = prod.chunk[i]
          /\ \A j \in 1..AvailableRead : data'[Wrap(readPos + j - 1)] = data[Wrap(readPos + j - 1)]
      BY Zenon, <1>0, <1>3, <2>1, <2>3, CopiesLand
    <2>5. \A i \in 1..Len(prod.chunk) : data'[Wrap(writePos + i - 1)] = prod.chunk[i]
      <3> TAKE i \in 1..Len(prod.chunk)
      <3>1. CASE i <= WriteFirstSeg
        <4>1. i \in 1..WriteFirstSeg
          BY <1>a, <2>3, <3>1
        <4>2. data[Wrap(writePos + i - 1)] = prod.chunk[i]
          BY <1>0, <2>1, <4>1 DEF CallsFit
        <4> QED BY <2>4, <4>1, <4>2
      <3>2. CASE i > WriteFirstSeg
        BY <1>a, <2>3, <2>4, <3>2
      <3> QED BY <1>a, <2>3, <3>1, <3>2
    <2>6. cons.pc \in {"second", "publish"} => Len(cons.buf) <= AvailableRead
      BY <1>0, <1>a DEF CallsFit, ReadFirstSeg, Least
    <2>7. cons.pc \in {"second", "publish"} =>
            \A i \in 1..Len(cons.buf) : cons.buf[i] = data'[Wrap(readPos + i - 1)]
      BY <1>0, <1>a, <2>4, <2>6 DEF CallsFit
    <2> QED BY <1>0, <2>1, <2>2, <2>3, <2>5, <2>7 DEF CallsFit, Wrap
  <1>4. CASE PublishWrite
    <2>1. /\ prod'.pc = "idle" /\ UNCHANGED <<data, readPos, cons, out>>
          /\ Len(prod.chunk) <= AvailableWrite
      BY <1>0, <1>4 DEF PublishWrite, IdleP, CallsFit
    <2>2. AvailableRead' >= AvailableRead
      <3>1. writePos' = Wrap(writePos + Len(prod.chunk))
        BY <1>0, <1>4, PublishedWrite DEF PublishWrite, CallsFit
      <3> QED BY <1>0, <1>a, <2>1, <3>1 DEF AvailableRead, AvailableWrite, Wrap
    <2>3. AvailableRead' \in Int
      <3>1. writePos' \in Int /\ readPos' \in Int
        BY <1>0 DEF TypeOK
      <3> QED BY <3>1, RingAssumption DEF AvailableRead
    <2> QED BY <1>0, <1>a, <2>1, <2>2, <2>3 DEF CallsFit, ReadFirstSeg, Wrap
  <1>5. ASSUME NEW n \in 0..Capacity, BeginRead(n) \/ BeginReadPtr(n)
        PROVE  CallsFit'
    <2>1. /\ cons'.pc = "first" /\ cons'.want <= AvailableRead
          /\ UNCHANGED <<data, writePos, readPos, prod, out>>
      BY <1>0, <1>a, <1>5 DEF BeginRead, BeginReadPtr, Least
    <2> QED BY <1>0, <2>1 DEF CallsFit, AvailableWrite, AvailableRead, WriteFirstSeg, Wrap
  <1>6. CASE ReadFirst
    <2>1. /\ UNCHANGED <<data, writePos, readPos, prod, out>> /\ cons'.want = cons.want
          /\ cons'.buf = [i \in 1..ReadFirstSeg |-> data[readPos + i - 1]]
          /\ cons'.pc = IF ReadFirstSeg < cons.want THEN "second" ELSE "publish"
          /\ cons.pc = "first"
      BY <1>0, <1>6 DEF ReadFirst, TypeOK
    <2>2. /\ ReadFirstSeg \in Nat /\ ReadFirstSeg <= cons.want /\ ReadFirstSeg <= Capacity - readPos
          /\ cons.want <= AvailableRead
      BY SMTT(30), <1>0, <1>a, <2>1 DEF ReadFirstSeg, Least, CallsFit
    <2>3. Len(cons'.buf) = ReadFirstSeg
      BY <2>1, <2>2
    <2>4. \A i \in 1..ReadFirstSeg : cons'.buf[i] = data[Wrap(readPos + i - 1)]
      BY <1>0, <1>a, <2>1, <2>2 DEF Wrap
    <2> QED BY SMTT(30), <1>0, <1>a, <2>1, <2>2, <2>3, <2>4 DEF CallsFit, AvailableWrite, AvailableRead, WriteFirstSeg,
                                            ReadFirstSeg, Wrap
  <1>7. CASE ReadSecond
    <2>1. /\ UNCHANGED <<data, writePos, readPos, prod, out>> /\ cons'.want = cons.want
          /\ cons'.buf = [i \in 1..cons.want |-> IF i <= Len(cons.buf) THEN cons.buf[i]
                                                  ELSE data[i - Len(cons.buf) - 1]]
          /\ cons'.pc = "publish" /\ cons.pc = "second"
      BY <1>0, <1>7 DEF ReadSecond, TypeOK
    <2>2. /\ cons.want <= AvailableRead /\ ReadFirstSeg < cons.want /\ Len(cons.buf) = ReadFirstSeg
          /\ ReadFirstSeg = Capacity - readPos
      BY <1>0, <1>a, <2>1 DEF ReadFirstSeg, Least, CallsFit
    <2>3. Len(cons'.buf) = cons.want
      BY <1>a, <2>1
    <2>4. \A i \in 1..cons.want : cons'.buf[i] = data[Wrap(readPos + i - 1)]
      <3> TAKE i \in 1..cons.want
      <3>1. CASE i <= Len(cons.buf)
        BY <1>0, <1>a, <2>1, <2>2, <3>1 DEF CallsFit
      <3>2. CASE i > Len(cons.buf)
        <4>1. i - Len(cons.buf) - 1 = Wrap(readPos + i - 1)
          BY <1>0, <1>a, <2>2, <3>2 DEF Wrap
        <4>2. cons'.buf[i] = data[i - Len(cons.buf) - 1]
          BY <1>a, <2>1, <3>2
        <4> QED BY <4>1, <4>2
      <3> QED BY <1>a, <3>1, <3>2
    <2> QED BY <1>0, <1>a, <2>1, <2>2, <2>3, <2>4 DEF CallsFit, AvailableWrite, AvailableRead, WriteFirstSeg, Wrap
  <1>8. CASE PublishRead
    <2>1. /\ cons'.pc = "idle" /\ UNCHANGED <<data, writePos, prod>> /\ cons.want <= AvailableRead
      BY <1>0, <1>8 DEF PublishRead, IdleC, CallsFit
    <2>2. AvailableWrite' >= AvailableWrite
      <3>1. readPos' = Wrap(readPos + cons.want)
        BY <1>0, <1>8, PublishedRead DEF PublishRead, CallsFit
      <3>2. writePos' = writePos
        BY <2>1
      <3>3. CASE writePos >= readPos
        BY SMTT(30), <1>0, <1>a, <2>1, <3>1, <3>2, <3>3 DEF AvailableRead, AvailableWrite, Wrap
      <3>4. CASE writePos < readPos
        <4>1. AvailableWrite = readPos - writePos - 1 /\ cons.want <= Capacity - (readPos - writePos)
          BY <1>a, <2>1, <3>4 DEF AvailableRead, AvailableWrite
        <4>2. CASE readPos + cons.want < Capacity
          <5>1. readPos' = readPos + cons.want
            BY <1>0, <1>a, <3>1, <4>2 DEF Wrap
          <5> QED BY <1>0, <1>a, <3>2, <3>4, <4>1, <5>1 DEF AvailableWrite
        <4>3. CASE ~(readPos + cons.want < Capacity)
          <5>1. readPos' = readPos + cons.want - Capacity
            BY <1>0, <1>a, <3>1, <4>3 DEF Wrap
          <5> QED BY SMTT(30), <1>0, <1>a, <3>2, <3>4, <4>1, <4>3, <5>1 DEF AvailableWrite
        <4> QED BY <4>2, <4>3
      <3> QED BY <1>a, <3>3, <3>4
    <2>3. AvailableWrite' \in Int
      <3>1. writePos' \in Int /\ readPos' \in Int
        BY <1>0 DEF TypeOK
      <3> QED BY <3>1, RingAssumption DEF AvailableWrite
    <2>4. prod.pc # "idle" => Len(prod.chunk) <= AvailableWrite'
      BY SMTT(30), <1>0, <1>a, <2>2, <2>3 DEF CallsFit
    <2> QED BY <1>0, <2>1, <2>4 DEF CallsFit, WriteFirstSeg, Wrap
  <1>9. CASE Clear
    BY <1>0, <1>9 DEF CallsFit, Clear
  <1>10. CASE UNCHANGED vars
    BY <1>0, <1>10 DEF CallsFit, vars, AvailableWrite, AvailableRead, WriteFirstSeg, ReadFirstSeg, Wrap
  <1> QED BY <1>1, <1>2, <1>3, <1>4, <1>5, <1>6, <1>7, <1>8, <1>9, <1>10 DEF Next

(* The invariant holds from RingBuffer::new on *)
LEMMA Invariant == Spec => []RingInv
  <1>1. Init => RingInv
    BY RingAssumption DEF Init, RingInv, TypeOK, CallsFit, IdleP, IdleC
  <1>2. RingInv /\ [Next]_vars => RingInv'
    BY StepKeepsTypes, StepKeepsCalls DEF RingInv
  <1> QED BY <1>1, <1>2, PTL DEF Spec

(* No data race on the raw buffer, for every capacity: while the copies of *)
(* write and of write_ptr's caller are under way their cells are neither   *)
(* read by the other side nor hold published bytes (buffer.rs write, read).*)
THEOREM NoDataRace == Spec => []NoSharedCell
  <1>1. ASSUME RingInv
        PROVE  NoSharedCell
    <2>0. /\ TypeOK /\ CallsFit /\ Len(prod.chunk) \in Nat /\ cons.want \in Nat /\ AvailableRead \in Nat
          /\ AvailableRead <= AvailableRead
      BY <1>1, Available, RingAssumption DEF RingInv, TypeOK
    <2>1. CASE prod.pc = "idle"
      BY <2>1 DEF NoSharedCell, Writing
    <2>2. CASE prod.pc # "idle"
      <3>1. Cells(writePos, Len(prod.chunk)) \cap Cells(readPos, AvailableRead) = {}
        BY <2>0, <2>2, StretchesApart DEF CallsFit
      <3>2. cons.pc # "idle" => Cells(writePos, Len(prod.chunk)) \cap Cells(readPos, cons.want) = {}
        BY <2>0, <2>2, StretchesApart DEF CallsFit
      <3> QED BY <2>2, <3>1, <3>2 DEF NoSharedCell, Writing, Reading
    <2> QED BY <2>1, <2>2
  <1> QED BY <1>1, Invariant, PTL

-----------------------------------------------------------------------------
(* The published bytes, cell by cell *)
Published == [i \in 1..AvailableRead |-> data[Wrap(readPos + i - 1)]]

(* The stream that the ring stands for holds the published bytes *)
LEMMA ContentsShape ==
    TypeOK => Contents = Published /\ Published \in Seq(Byte) /\ Len(Published) = AvailableRead
  <1> SUFFICES ASSUME TypeOK
               PROVE  Contents = Published /\ Published \in Seq(Byte) /\ Len(Published) = AvailableRead
    OBVIOUS
  <1>0. /\ Capacity \in Nat \ {0} /\ readPos \in 0..Capacity-1 /\ data \in [0..Capacity-1 -> Byte]
        /\ AvailableRead \in 0..Capacity-1 /\ AvailableRead \in Nat
    BY RingAssumption, Available DEF TypeOK
  <1>1. \A i \in 1..AvailableRead : /\ (readPos + i - 1) % Capacity = Wrap(readPos + i - 1)
                                    /\ Wrap(readPos + i - 1) \in 0..Capacity-1
    <2> TAKE i \in 1..AvailableRead
    <2>1. i \in 1..Capacity
      BY <1>0
    <2> QED BY Zenon, <1>0, <2>1, CellIsWrap
  <1>2. Contents = Published
    BY <1>1 DEF Contents, Published
  <1>3. Published \in [1..AvailableRead -> Byte]
    BY Zenon, <1>0, <1>1 DEF Published
  <1> QED BY <1>0, <1>2, <1>3, StretchIsSeq

(* The same of the next state *)
LEMMA ContentsShapeNext ==
    TypeOK' => (Contents = Published /\ Published \in Seq(Byte) /\ Len(Published) = AvailableRead)'
  BY ContentsShape, PTL

(* The copies of the producer do not show: the stream stutters *)
LEMMA CopyStutters ==
    ASSUME RingInv, WriteFirst \/ WriteSecond
    PROVE  Contents' = Contents
  <1>1. /\ TypeOK /\ prod.pc # "idle" /\ Len(prod.chunk) <= AvailableWrite
        /\ writePos' = writePos /\ readPos' = readPos
    BY DEF RingInv, CallsFit, WriteFirst, WriteSecond
  <1>2. TypeOK'
    BY StepKeepsTypes DEF Next
  <1>3. AvailableRead' = AvailableRead
    BY <1>1 DEF AvailableRead
  <1>4. \A j \in 1..AvailableRead : data'[Wrap(readPos + j - 1)] = data[Wrap(readPos + j - 1)]
    BY <1>1, CopiesLand
  <1>5. Contents = [i \in 1..AvailableRead |-> data[Wrap(readPos + i - 1)]]
    BY <1>1, ContentsShape DEF Published
  <1>6. Contents' = [i \in 1..AvailableRead |-> data'[Wrap(readPos + i - 1)]]
    <2>1. Contents' = Published'
      BY <1>2, ContentsShapeNext
    <2> QED BY <1>1, <1>3, <2>1 DEF Wrap, Published
  <1> QED BY <1>4, <1>5, <1>6

(* The store that ends a write appends the chunk to the stream *)
LEMMA PublishWriteIsPut ==
    ASSUME RingInv, PublishWrite
    PROVE  Fifo!Put
  <1>0. /\ TypeOK /\ prod.pc = "publish" /\ Len(prod.chunk) <= AvailableWrite /\ Len(prod.chunk) \in Nat
        /\ data' = data /\ readPos' = readPos /\ out' = out /\ Capacity \in Nat \ {0}
        /\ writePos \in 0..Capacity-1 /\ readPos \in 0..Capacity-1
        /\ AvailableRead \in 0..Capacity-1 /\ AvailableWrite \in 0..Capacity-1
        /\ AvailableRead + AvailableWrite = Capacity - 1
    BY RingAssumption, Available DEF RingInv, CallsFit, PublishWrite, TypeOK
  <1>1. TypeOK'
    BY StepKeepsTypes DEF Next
  <1>2. writePos' = Wrap(writePos + Len(prod.chunk))
    BY <1>0, PublishedWrite
  <1>3. AvailableRead' = AvailableRead + Len(prod.chunk)
    <2>1. /\ AvailableRead = Span(writePos, readPos)
          /\ AvailableRead' = Span(Wrap(writePos + Len(prod.chunk)), readPos)
      BY <1>0, <1>2 DEF AvailableRead, Span
    <2>2. Len(prod.chunk) <= Capacity - 1 - Span(writePos, readPos)
      <3>1. Len(prod.chunk) <= Capacity - 1 - AvailableRead
        BY <1>0
      <3> QED BY Zenon, <2>1, <3>1
    <2> QED BY Zenon, <1>0, <2>1, <2>2, SpanGrows
  <1>4. /\ Contents = Published /\ Contents' = Published'
        /\ Contents \in Seq(Byte) /\ Contents' \in Seq(Byte)
        /\ Len(Contents) = AvailableRead /\ Len(Contents') = AvailableRead + Len(prod.chunk)
    BY <1>0, <1>1, <1>3, ContentsShape, ContentsShapeNext
  <1>5. \A i \in 1..AvailableRead : Contents'[i] = Contents[i]
    BY <1>0, <1>3, <1>4 DEF Published, Wrap
  <1>6. SubSeq(Contents', 1, Len(Contents)) = Contents
    BY <1>0, <1>4, <1>5
  <1> QED BY <1>0, <1>4, <1>6 DEF Fifo!Put

(* The store that ends a read hands out a prefix and removes it *)
LEMMA PublishReadIsGet ==
    ASSUME RingInv, PublishRead
    PROVE  Fifo!Get
  <1>0. /\ TypeOK /\ cons.pc = "publish" /\ cons.want <= AvailableRead /\ cons.want \in Nat
        /\ Len(cons.buf) = cons.want /\ cons.buf \in Seq(Byte)
        /\ \A i \in 1..cons.want : cons.buf[i] = data[Wrap(readPos + i - 1)]
        /\ data' = data /\ writePos' = writePos /\ Capacity \in Nat \ {0}
        /\ writePos \in 0..Capacity-1 /\ readPos \in 0..Capacity-1
        /\ AvailableRead \in 0..Capacity-1
    BY SMTT(30), RingAssumption, Available DEF RingInv, CallsFit, PublishRead, TypeOK
  <1>1. TypeOK'
    BY StepKeepsTypes DEF Next
  <1>2. readPos' = Wrap(readPos + cons.want) /\ out' = cons.buf
    BY <1>0, PublishedRead
  <1>3. AvailableRead' = AvailableRead - cons.want
    <2>1. /\ AvailableRead = Span(writePos, readPos)
          /\ AvailableRead' = Span(writePos, Wrap(readPos + cons.want))
      BY <1>0, <1>2 DEF AvailableRead, Span
    <2> QED BY <1>0, <2>1, SpanShrinks
  <1>4. /\ Contents = Published /\ Contents' = Published'
        /\ Contents \in Seq(Byte) /\ Contents' \in Seq(Byte)
        /\ Len(Contents) = AvailableRead /\ Len(Contents') = AvailableRead - cons.want
    BY <1>0, <1>1, <1>3, ContentsShape, ContentsShapeNext
  <1>5. \A i \in 1..AvailableRead : Contents[i] = data[Wrap(readPos + i - 1)]
    BY <1>4 DEF Published
  <1>6. out' = SubSeq(Contents, 1, cons.want)
    <2>1. \A i \in 1..cons.want : Contents[i] \in Byte
      BY <1>0, <1>4
    <2>2. /\ SubSeq(Contents, 1, cons.want) \in Seq(Byte)
          /\ Len(SubSeq(Contents, 1, cons.want)) = cons.want
          /\ \A i \in 1..cons.want : SubSeq(Contents, 1, cons.want)[i] = Contents[i]
      BY <1>0, <2>1, SubSeqProperties
    <2>3. \A i \in 1..Len(cons.buf) : cons.buf[i] = SubSeq(Contents, 1, cons.want)[i]
      BY <1>0, <1>5, <2>2
    <2> QED BY SMTT(30), <1>0, <1>2, <2>2, <2>3, SeqEqual
  <1>7. \A i \in 1..AvailableRead - cons.want : Contents'[i] = Contents[cons.want + i]
    <2> TAKE i \in 1..AvailableRead - cons.want
    <2>1. Contents'[i] = data[Wrap(Wrap(readPos + cons.want) + i - 1)]
      BY <1>0, <1>2, <1>3, <1>4 DEF Published, Wrap
    <2>2. cons.want + i \in 1..AvailableRead
      BY <1>0
    <2>3. Wrap(Wrap(readPos + cons.want) + i - 1) = Wrap(readPos + (cons.want + i) - 1)
      <3>1. i \in Nat \ {0} /\ cons.want + i <= Capacity
        BY <1>0, <2>2
      <3> QED BY Zenon, <1>0, <3>1, WrapTwice
    <2> QED BY <1>5, <2>1, <2>2, <2>3
  <1>8. Contents' = SubSeq(Contents, cons.want + 1, Len(Contents))
    <2> DEFINE rest == SubSeq(Contents, cons.want + 1, AvailableRead)
    <2>1. \A i \in cons.want + 1..AvailableRead : Contents[i] \in Byte
      BY <1>0, <1>4
    <2>2. /\ rest \in Seq(Byte)
          /\ Len(rest) = AvailableRead - cons.want
          /\ \A i \in 1..AvailableRead - cons.want : rest[i] = Contents[cons.want + i]
      <3>1. /\ cons.want + 1 \in Int /\ AvailableRead \in Int
        BY <1>0
      <3>2. /\ rest \in Seq(Byte)
            /\ Len(rest) = IF cons.want + 1 <= AvailableRead THEN AvailableRead - (cons.want + 1) + 1 ELSE 0
            /\ \A i \in 1..AvailableRead - (cons.want + 1) + 1 : rest[i] = Contents[cons.want + 1 + i - 1]
        BY <2>1, <3>1, SubSeqProperties
      <3> HIDE DEF rest
      <3>3. Len(rest) = AvailableRead - cons.want
        BY <1>0, <3>2
      <3>4. ASSUME NEW i \in 1..AvailableRead - cons.want
            PROVE  rest[i] = Contents[cons.want + i]
        <4>1. i \in 1..AvailableRead - (cons.want + 1) + 1 /\ cons.want + 1 + i - 1 = cons.want + i
          BY <1>0
        <4> QED BY <3>2, <4>1
      <3> QED BY <3>2, <3>3, <3>4
    <2> HIDE DEF rest
    <2>3. Len(Contents') = Len(rest) /\ \A i \in 1..Len(Contents') : Contents'[i] = rest[i]
      BY <1>0, <1>4, <1>7, <2>2
    <2>4. Contents' = rest
      BY <1>4, <2>2, <2>3, SeqEqual
    <2> QED BY <1>4, <2>4 DEF rest
  <1>9. cons.want \in 0..Len(Contents)
    BY <1>0, <1>4
  <1> QED BY Zenon, <1>6, <1>8, <1>9 DEF Fifo!Get

(* The ring implements the bounded first-in first-out stream, for every    *)
(* capacity and whatever the interleaving: a chunk becomes visible as a    *)
(* whole when the producer stores its position, the consumer's store       *)
(* removes exactly the prefix it handed out, and no other step shows       *)
(* (buffer.rs write, read, advance_write, advance_read, clear).            *)
THEOREM ImplementsStream == Spec => IsFifo
  <1>1. Init => Fifo!Init
    <2> SUFFICES ASSUME Init
                 PROVE  Fifo!Init
      OBVIOUS
    <2>1. AvailableRead = 0 /\ out = <<>>
      BY DEF Init, AvailableRead
    <2>2. Contents = <<>>
      BY <2>1 DEF Contents
    <2> QED BY <2>1, <2>2 DEF Fifo!Init
  <1>2. RingInv /\ [Next]_vars => [Fifo!Next]_<<Contents, out>>
    <2> SUFFICES ASSUME RingInv, [Next]_vars
                 PROVE  [Fifo!Next]_<<Contents, out>>
      OBVIOUS
    <2>1. CASE PublishWrite
      BY <2>1, PublishWriteIsPut DEF Fifo!Next
    <2>2. CASE PublishRead
      BY <2>2, PublishReadIsGet DEF Fifo!Next
    <2>3. CASE Clear
      <3>1. AvailableRead' = 0 /\ out' = out
        BY <2>3 DEF Clear, AvailableRead
      <3>2. Contents' = <<>>
        BY <3>1 DEF Contents
      <3> QED BY <3>1, <3>2 DEF Fifo!Next, Fifo!Reset
    <2>4. CASE WriteFirst \/ WriteSecond
      <3>1. out' = out
        BY <2>4 DEF WriteFirst, WriteSecond
      <3> QED BY <2>4, <3>1, CopyStutters
    <2>5. ASSUME UNCHANGED <<data, writePos, readPos, out>>
          PROVE  UNCHANGED <<Contents, out>>
      BY <2>5 DEF Contents, AvailableRead
    <2>6. ASSUME NEW chunk \in Chunks, BeginWrite(chunk) \/ BeginWritePtr(chunk)
          PROVE  UNCHANGED <<Contents, out>>
      BY <2>5, <2>6 DEF BeginWrite, BeginWritePtr
    <2>7. ASSUME NEW n \in 0..Capacity, BeginRead(n) \/ BeginReadPtr(n)
          PROVE  UNCHANGED <<Contents, out>>
      BY <2>5, <2>7 DEF BeginRead, BeginReadPtr
    <2>8. CASE ReadFirst \/ ReadSecond \/ UNCHANGED vars
      BY <2>5, <2>8 DEF ReadFirst, ReadSecond, vars
    <2> QED BY <2>1, <2>2, <2>3, <2>4, <2>6, <2>7, <2>8 DEF Next
  <1> QED BY <1>1, <1>2, Invariant, PTL DEF Spec, IsFifo, Fifo!Spec
=============================================================================

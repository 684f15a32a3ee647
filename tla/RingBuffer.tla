---------------------------- MODULE RingBuffer -----------------------------
(***************************************************************************)
(* aios-ringbuf: the single-producer single-consumer ring of buffer.rs and *)
(* its writer.rs and reader.rs faces.  The two positions are the only      *)
(* shared words; each side loads the other's once per call, copies at most *)
(* two segments and then publishes its own position.  The producer and the *)
(* consumer interleave between any two of those steps.                     *)
(***************************************************************************)
EXTENDS Integers, Sequences

CONSTANTS Capacity,   \* RingBufferConfig::capacity; RingBuffer::new refuses 0
          Byte        \* the values of one byte that the checks tell apart

ASSUME RingAssumption == Capacity \in Nat \ {0} /\ Byte # {}

VARIABLES data,       \* the allocation behind the raw pointer
          writePos,   \* RingBufferState::write_pos, stored by the producer
          readPos,    \* RingBufferState::read_pos, stored by the consumer
          prod,       \* where the producer is in its call, and its locals
          cons,       \* the same for the consumer
          out         \* the bytes the last completed read handed out

vars == <<data, writePos, readPos, prod, cons, out>>

Chunks == UNION {[1..n -> Byte] : n \in 0..Capacity}

IdleP == [pc |-> "idle", via |-> "memcpy", chunk |-> <<>>]
IdleC == [pc |-> "idle", via |-> "memcpy", want |-> 0, buf |-> <<>>]

Least(a, b) == IF a <= b THEN a ELSE b

----------------------------------------------------------------------------
(* The space and the data that one load of both positions shows.           *)

\* available_write with the slot that tells full from empty forgotten.
AvailableWriteNoGap ==
  IF writePos >= readPos THEN Capacity - (writePos - readPos)
  ELSE readPos - writePos - 1

AvailableWrite ==
  IF writePos >= readPos THEN Capacity - (writePos - readPos) - 1
  ELSE readPos - writePos - 1

AvailableRead ==
  IF writePos >= readPos THEN writePos - readPos
  ELSE Capacity - (readPos - writePos)

\* read_ptr and write_ptr: the length of the stretch usable without wrapping.
ReadPtrLen ==
  IF writePos > readPos THEN writePos - readPos
  ELSE IF writePos < readPos THEN Capacity - readPos
  ELSE 0

WritePtrLen ==
  IF writePos >= readPos
  THEN Least(Capacity - writePos + readPos - 1, Capacity - writePos)
  ELSE readPos - writePos - 1

----------------------------------------------------------------------------
(* The producer.                                                           *)

\* RingBuffer::write: refused as a whole unless the chunk fits.
BeginWrite(chunk) ==
  /\ prod.pc = "idle"
  /\ Len(chunk) <= AvailableWrite
  /\ prod' = [pc |-> "first", via |-> "memcpy", chunk |-> chunk]
  /\ UNCHANGED <<data, writePos, readPos, cons, out>>

\* write_ptr: the caller fills part of the stretch it is given in place.
BeginWritePtr(chunk) ==
  /\ prod.pc = "idle"
  /\ Len(chunk) <= WritePtrLen
  /\ prod' = [pc |-> "first", via |-> "pointer", chunk |-> chunk]
  /\ UNCHANGED <<data, writePos, readPos, cons, out>>

WriteFirstSeg == Least(Len(prod.chunk), Capacity - writePos)

\* The first copy_nonoverlapping: up to the end of the allocation.
WriteFirst ==
  /\ prod.pc = "first"
  /\ data' = [i \in 0..Capacity-1 |->
                IF i \in writePos..(writePos + WriteFirstSeg - 1)
                THEN prod.chunk[i - writePos + 1] ELSE data[i]]
  /\ prod' = [prod EXCEPT !.pc = IF WriteFirstSeg < Len(prod.chunk)
                                 THEN "second" ELSE "publish"]
  /\ UNCHANGED <<writePos, readPos, cons, out>>

\* The second one: what wrapped, from the start of the allocation.
WriteSecond ==
  /\ prod.pc = "second"
  /\ data' = [i \in 0..Capacity-1 |->
                IF i < Len(prod.chunk) - WriteFirstSeg
                THEN prod.chunk[WriteFirstSeg + i + 1] ELSE data[i]]
  /\ prod' = [prod EXCEPT !.pc = "publish"]
  /\ UNCHANGED <<writePos, readPos, cons, out>>

\* The Release store that ends write, and advance_write after write_ptr, which
\* checks the space once more.
PublishWrite ==
  /\ prod.pc = "publish"
  /\ writePos' = IF prod.via = "pointer" /\ Len(prod.chunk) > AvailableWrite
                 THEN writePos
                 ELSE (writePos + Len(prod.chunk)) % Capacity
  /\ prod' = IdleP
  /\ UNCHANGED <<data, readPos, cons, out>>

----------------------------------------------------------------------------
(* The consumer.                                                           *)

\* RingBuffer::read with the position stored before the bytes are copied out.
BeginReadEarly(n) ==
  LET toRead == Least(n, AvailableRead)
  IN /\ cons.pc = "idle"
     /\ toRead > 0
     /\ cons' = [pc |-> "first", via |-> "memcpy", want |-> toRead, buf |-> <<>>]
     /\ readPos' = (readPos + toRead) % Capacity
     /\ UNCHANGED <<data, writePos, prod, out>>

\* RingBuffer::read into a buffer of n bytes; nothing to read returns at once.
BeginRead(n) ==
  LET toRead == Least(n, AvailableRead)
  IN /\ cons.pc = "idle"
     /\ toRead > 0
     /\ cons' = [pc |-> "first", via |-> "memcpy", want |-> toRead, buf |-> <<>>]
     /\ UNCHANGED <<data, writePos, readPos, prod, out>>

\* read_ptr: the caller looks at n bytes of the stretch in place.
BeginReadPtr(n) ==
  /\ cons.pc = "idle"
  /\ n <= ReadPtrLen
  /\ cons' = [pc |-> "first", via |-> "pointer", want |-> n, buf |-> <<>>]
  /\ UNCHANGED <<data, writePos, readPos, prod, out>>

ReadFirstSeg == Least(cons.want, Capacity - readPos)

ReadFirst ==
  /\ cons.pc = "first"
  /\ cons' = [cons EXCEPT !.buf = [i \in 1..ReadFirstSeg |-> data[readPos + i - 1]],
                          !.pc = IF ReadFirstSeg < cons.want
                                 THEN "second" ELSE "publish"]
  /\ UNCHANGED <<data, writePos, readPos, prod, out>>

ReadSecond ==
  /\ cons.pc = "second"
  /\ cons' = [cons EXCEPT !.buf = [i \in 1..cons.want |->
                                     IF i <= Len(cons.buf) THEN cons.buf[i]
                                     ELSE data[i - Len(cons.buf) - 1]],
                          !.pc = "publish"]
  /\ UNCHANGED <<data, writePos, readPos, prod, out>>

\* The Release store that ends read, and advance_read after read_ptr.
PublishRead ==
  /\ cons.pc = "publish"
  /\ IF cons.via = "pointer" /\ cons.want > AvailableRead
     THEN UNCHANGED <<readPos, out>>
     ELSE /\ readPos' = (readPos + cons.want) % Capacity
          /\ out' = cons.buf
  /\ cons' = IdleC
  /\ UNCHANGED <<data, writePos, prod>>

----------------------------------------------------------------------------
\* clear: two stores, called while neither side is inside a call.
Clear ==
  /\ prod.pc = "idle" /\ cons.pc = "idle"
  /\ writePos' = 0
  /\ readPos' = 0
  /\ UNCHANGED <<data, prod, cons, out>>

\* RingBuffer::new: alloc leaves the bytes uninitialised.
Init ==
  /\ data \in [0..Capacity-1 -> Byte]
  /\ writePos = 0
  /\ readPos = 0
  /\ prod = IdleP
  /\ cons = IdleC
  /\ out = <<>>

Next ==
  \/ \E chunk \in Chunks : BeginWrite(chunk) \/ BeginWritePtr(chunk)
  \/ WriteFirst \/ WriteSecond \/ PublishWrite
  \/ \E n \in 0..Capacity : BeginRead(n) \/ BeginReadPtr(n)
  \/ ReadFirst \/ ReadSecond \/ PublishRead
  \/ Clear

Spec == Init /\ [][Next]_vars

----------------------------------------------------------------------------
\* The bytes published and not yet consumed, oldest first.
Contents == [i \in 1..AvailableRead |-> data[(readPos + i - 1) % Capacity]]

Fifo == INSTANCE BoundedFifo WITH fifo <- Contents, out <- out,
                                  Bound <- Capacity - 1

\* The ring is a first-in first-out stream: whatever the interleaving of the
\* two sides, the only visible steps are a chunk appended at the end, a prefix
\* removed and handed out unchanged, and a reset (buffer.rs write, read,
\* write_ptr/advance_write, read_ptr/advance_read, clear).
IsFifo == Fifo!Spec

Cells(from, n) == {(from + i) % Capacity : i \in 0..n-1}
Writing == IF prod.pc = "idle" THEN {} ELSE Cells(writePos, Len(prod.chunk))
Reading == IF cons.pc = "idle" THEN {} ELSE Cells(readPos, cons.want)

\* The shapes of the positions and of the two calls in progress.
TypeOK ==
  /\ data \in [0..Capacity-1 -> Byte]
  /\ writePos \in 0..Capacity-1
  /\ readPos \in 0..Capacity-1
  /\ prod \in [pc : {"idle", "first", "second", "publish"},
               via : {"memcpy", "pointer"}, chunk : Seq(Byte)]
  /\ cons \in [pc : {"idle", "first", "second", "publish"},
               via : {"memcpy", "pointer"}, want : Nat, buf : Seq(Byte)]
  /\ out \in Seq(Byte)

\* No data race on the raw buffer: the cells a producer call may still store to
\* are never cells a consumer call may still load from, nor cells that hold
\* published bytes (the copy_nonoverlapping calls of write and read).
NoSharedCell ==
  /\ Writing \cap Reading = {}
  /\ Writing \cap Cells(readPos, AvailableRead) = {}
=============================================================================

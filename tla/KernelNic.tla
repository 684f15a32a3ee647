----------------------------- MODULE KernelNic ------------------------------
(***************************************************************************)
(* The kernel's polled network drivers (aios-kernel/src/nic.rs): the       *)
(* driver's receive and transmit paths against the device that shares      *)
(* their descriptors, for each of the ring disciplines of the file.        *)
(*                                                                         *)
(*   e1000, e1000e    head and tail registers and a done bit               *)
(*   rtl8169, pcnet   an ownership bit in every descriptor                 *)
(*   virtio           an available and a used ring with free-running       *)
(*                    indices; one transmit buffer                         *)
(*   rtl8139          one linear receive buffer; four transmit slots       *)
(*                                                                         *)
(* The device is external: it does what the head comment of nic.rs says of *)
(* it.  It writes memory and reports that it did in two steps, reads a     *)
(* frame and reports it sent in two, and may be slower than the bounded    *)
(* spin of send.  A good frame is one long enough to be handed out.        *)
(* The linear buffer is counted in its alignment of four bytes: a header   *)
(* fills one cell, a frame `len` cells.  What a frame holds is abstracted, *)
(* the header virtio puts before one included.                             *)
(***************************************************************************)
EXTENDS Integers, SequencesExt

CONSTANTS
    Kind,
    Ring,          \* descriptors of a ring, or the size of a virtqueue
    RxBufs,        \* VIRTIO_RX_BUFS
    Size,          \* RTL_RX_SIZE, in cells
    Lens,          \* lengths of frames, in cells
    Indices,       \* free-running indices are taken modulo this (2^16)
    MaxRx, MaxTx   \* bounds on the frames received and sent

Owned == {"rtl8169", "pcnet"}
Kinds == Owned \cup {"e1000", "virtio", "rtl8139"}

NicAssumption ==
    /\ Kind \in Kinds /\ Ring \in Nat \ {0, 1} /\ RxBufs \in Nat \ {0}
    /\ Indices % Ring = 0 /\ Indices > Ring
    /\ \A l \in Lens : l \in Nat /\ 1 + l < Size

VARIABLES rx, tx,
          accepted, delivered,   \* received frames the device stored, poll_rx returned
          wire, reported,        \* frames the device sent, send reported as sent
          late                   \* a send has timed out

rxVars == <<rx, accepted, delivered>>
txVars == <<tx, wire, reported, late>>
vars == <<rxVars, txVars>>

Slots == 0 .. Ring - 1
Cells == 0 .. Size - 1
Empty == [id |-> 0, good |-> FALSE, len |-> 0]
NoPoll == [at |-> 0, read |-> <<>>]
Lowest(a, b) == IF a < b THEN a ELSE b

(* The receive side as each init_* leaves it: the driver's position, the   *)
(* device's, what the driver last gave back, and memory                    *)
RxIdle == [pos |-> 0, head |-> 0, tail |-> 0, stored |-> FALSE, poll |-> NoPoll,
           cells |-> [c \in Slots |-> <<Empty, 0>>], done |-> [c \in Slots |-> FALSE],
           avail |-> [c \in Slots |-> 0], aidx |-> 0, used |-> [c \in Slots |-> 0], uidx |-> 0]
InitE1000 == [RxIdle EXCEPT !.tail = Ring - 1]
InitRtl8169 == RxIdle
InitPcnet == RxIdle
InitVirtio ==
    LET bufs == Lowest(RxBufs, Ring)
    IN [RxIdle EXCEPT !.avail = [i \in Slots |-> IF i < bufs THEN i ELSE 0], !.aidx = bufs]
InitRtl8139 == [RxIdle EXCEPT !.cells = [c \in Cells |-> <<Empty, 0>>]]

Init ==
    /\ rx = CASE Kind = "e1000" -> InitE1000
              [] Kind = "rtl8169" -> InitRtl8169
              [] Kind = "pcnet" -> InitPcnet
              [] Kind = "virtio" -> InitVirtio
              [] Kind = "rtl8139" -> InitRtl8139
    /\ tx = [pos |-> 0, head |-> 0, tail |-> 0, uidx |-> 0, calls |-> 0, wait |-> 0,
             reading |-> 0, buf |-> [c \in Slots |-> 0], own |-> [c \in Slots |-> FALSE],
             done |-> [c \in Slots |-> FALSE]]
    /\ accepted = <<>> /\ delivered = <<>> /\ wire = <<>> /\ reported = <<>>
    /\ late = FALSE

-----------------------------------------------------------------------------
(* The device receives                                                     *)

Room(f) ==
    CASE Kind = "e1000" -> rx.head # rx.tail
      [] Kind \in Owned -> ~rx.done[rx.head]
      [] Kind = "virtio" -> rx.head # rx.aidx
      [] Kind = "rtl8139" -> LET free == (rx.tail - rx.head) % Size
                             IN free = 0 \/ 1 + f.len < free

(* Where the next frame goes                                               *)
Target == IF Kind = "virtio" THEN rx.avail[rx.head % Ring] ELSE rx.head

Written(f) ==
    IF Kind = "rtl8139"
    THEN [c \in Cells |-> LET k == (c - rx.head) % Size
                          IN IF k <= f.len THEN <<f, k>> ELSE rx.cells[c]]
    ELSE [rx.cells EXCEPT ![Target] = <<f, 0>>]

(* The frame is in memory, and the device has not said so                  *)
DeviceStores(f) ==
    /\ f.id = Len(accepted) + 1 /\ ~rx.stored /\ Room(f)
    /\ rx' = [rx EXCEPT !.cells = Written(f), !.stored = TRUE]
    /\ accepted' = Append(accepted, f)
    /\ UNCHANGED <<delivered, txVars>>

DeviceReports ==
    /\ rx.stored
    /\ LET r == [rx EXCEPT !.stored = FALSE]
       IN rx' = CASE Kind \in Owned \cup {"e1000"} ->
                       [r EXCEPT !.done[rx.head] = TRUE, !.head = (@ + 1) % Ring]
                  [] Kind = "virtio" ->
                       [r EXCEPT !.used[rx.uidx % Ring] = Target,
                                 !.uidx = (@ + 1) % Indices, !.head = (@ + 1) % Indices]
                  [] Kind = "rtl8139" ->
                       [r EXCEPT !.head = (@ + 1 + Last(accepted).len) % Size]
    /\ UNCHANGED <<accepted, delivered, txVars>>

-----------------------------------------------------------------------------
(* poll_rx.  A frame that is not good is skipped: the ring drivers call    *)
(* themselves again, the rtl8139 returns, and the next step is the next    *)
(* poll either way.  The copy is one step, giving the memory back another: *)
(* the device may write in between what it believes to be its own.         *)

Waiting ==
    CASE Kind = "e1000" -> rx.pos # rx.head /\ rx.done[rx.pos]
      [] Kind \in Owned -> rx.done[rx.pos]
      [] Kind = "virtio" -> rx.pos # rx.uidx
      [] Kind = "rtl8139" -> rx.head # rx.pos

(* rtl_copy: up to the end of the buffer, and on from its start            *)
RtlCopy(offset, n) ==
    LET first == Lowest(Size - offset, n)
    IN [i \in 1 .. n |-> rx.cells[IF i <= first THEN offset + i - 1 ELSE i - 1 - first]]

(* rtl_copy is called with an offset of at most RTL_RX_SIZE: the header    *)
(* may be the last cell                                                    *)
ReadAt(at) ==
    IF Kind = "rtl8139"
    THEN LET hdr == RtlCopy(at, 1) IN hdr \o RtlCopy(at + 1, hdr[1][1].len)
    ELSE <<rx.cells[at]>>

PollCopies ==
    /\ rx.poll = NoPoll /\ Waiting
    /\ LET at == IF Kind = "virtio" THEN rx.used[rx.pos % Ring] ELSE rx.pos
       IN rx' = [rx EXCEPT !.poll = [at |-> at, read |-> ReadAt(at)]]
    /\ UNCHANGED <<accepted, delivered, txVars>>

(* The descriptor is primed and the tail written, with the position just   *)
(* consumed                                                                *)
PrimeE1000Early == [rx EXCEPT !.done[rx.pos] = FALSE, !.tail = (rx.pos + 1) % Ring,
                              !.pos = (@ + 1) % Ring, !.poll = NoPoll]
PrimeE1000 == [rx EXCEPT !.done[rx.pos] = FALSE, !.tail = rx.pos,
                         !.pos = (@ + 1) % Ring, !.poll = NoPoll]

PrimeRtl8169 == [rx EXCEPT !.done[rx.pos] = FALSE, !.pos = (@ + 1) % Ring, !.poll = NoPoll]
PrimePcnet == [rx EXCEPT !.done[rx.pos] = FALSE, !.pos = (@ + 1) % Ring, !.poll = NoPoll]

PrimeVirtio == [rx EXCEPT !.avail[rx.aidx % Ring] = rx.poll.at, !.aidx = (@ + 1) % Indices,
                          !.pos = (@ + 1) % Indices, !.poll = NoPoll]

(* CAPR = pos - 16: the device knows how far the driver has read           *)
RtlAdvance(len) ==
    LET next == (rx.pos + 1 + len) % Size
    IN [rx EXCEPT !.pos = next, !.tail = next, !.poll = NoPoll]

Primed ==
    CASE Kind = "e1000" -> PrimeE1000
      [] Kind = "rtl8169" -> PrimeRtl8169
      [] Kind = "pcnet" -> PrimePcnet
      [] Kind = "virtio" -> PrimeVirtio
      [] Kind = "rtl8139" -> RtlAdvance(rx.poll.read[1][1].len)

(* What the caller gets: the cells read, and whether they were still what  *)
(* was in memory when the memory was given back                            *)
PollReturns ==
    /\ rx.poll # NoPoll
    /\ rx' = Primed
    /\ delivered' = IF rx.poll.read[1][1].good
                    THEN Append(delivered, <<rx.poll.read, rx.poll.read = ReadAt(rx.poll.at)>>)
                    ELSE delivered
    /\ UNCHANGED <<accepted, txVars>>

-----------------------------------------------------------------------------
(* send, and the device that transmits                                     *)

Slot == IF Kind = "virtio" THEN 0 ELSE tx.pos
Frame == tx.calls + 1
MayCall == tx.wait = 0 /\ tx.calls < MaxTx

(* The frame is copied and the descriptor handed over; then send spins     *)
FillE1000 == [tx EXCEPT !.buf[Slot] = Frame, !.done[Slot] = FALSE, !.tail = (tx.pos + 1) % Ring]
FillRtl8139 == [tx EXCEPT !.buf[Slot] = Frame, !.own[Slot] = TRUE]
FillOwned == [tx EXCEPT !.buf[Slot] = Frame, !.own[Slot] = TRUE]
FillVirtio == [tx EXCEPT !.buf[Slot] = Frame, !.tail = (@ + 1) % Indices]

BusyNever == FALSE
Busy == Kind \in Owned /\ tx.own[Slot]

SendBusy ==
    /\ MayCall /\ Busy
    /\ tx' = [tx EXCEPT !.calls = @ + 1]
    /\ UNCHANGED <<rxVars, wire, reported, late>>

SendStarts ==
    /\ MayCall /\ ~Busy
    /\ LET t == CASE Kind = "e1000" -> FillE1000
                  [] Kind = "rtl8139" -> FillRtl8139
                  [] Kind \in Owned -> FillOwned
                  [] Kind = "virtio" -> FillVirtio
       IN tx' = [t EXCEPT !.calls = Frame, !.wait = Frame]
    /\ UNCHANGED <<rxVars, wire, reported, late>>

Want == (tx.pos + 1) % (IF Kind = "virtio" THEN Indices ELSE Ring)

Complete ==
    CASE Kind = "e1000" -> tx.done[tx.pos]
      [] Kind \in Owned \cup {"rtl8139"} -> ~tx.own[tx.pos]
      [] Kind = "virtio" -> tx.uidx = Want

SendReturns ==
    /\ tx.wait # 0 /\ Complete
    /\ tx' = [tx EXCEPT !.pos = Want, !.wait = 0]
    /\ reported' = Append(reported, tx.wait)
    /\ UNCHANGED <<rxVars, wire, late>>

(* The spin of 100 000 rounds ends first: the position stays               *)
SendTimesOut ==
    /\ tx.wait # 0 /\ ~Complete
    /\ tx' = [tx EXCEPT !.wait = 0]
    /\ late' = TRUE
    /\ UNCHANGED <<rxVars, wire, reported>>

HandedOver ==
    CASE Kind \in {"e1000", "virtio"} -> tx.head # tx.tail
      [] Kind \in Owned \cup {"rtl8139"} -> tx.own[tx.head]

Source == IF Kind = "virtio" THEN 0 ELSE tx.head

DeviceFetches ==
    /\ tx.reading = 0 /\ HandedOver
    /\ tx' = [tx EXCEPT !.reading = tx.buf[Source]]
    /\ UNCHANGED <<rxVars, wire, reported, late>>

DeviceSent ==
    /\ tx.reading # 0
    /\ LET t == [tx EXCEPT !.reading = 0]
       IN tx' = CASE Kind = "e1000" ->
                       [t EXCEPT !.done[tx.head] = TRUE, !.head = (@ + 1) % Ring]
                  [] Kind \in Owned \cup {"rtl8139"} ->
                       [t EXCEPT !.own[tx.head] = FALSE, !.head = (@ + 1) % Ring]
                  [] Kind = "virtio" ->
                       [t EXCEPT !.uidx = (@ + 1) % Indices, !.head = (@ + 1) % Indices]
    /\ wire' = Append(wire, <<tx.reading, tx.buf[Source]>>)
    /\ UNCHANGED <<rxVars, reported, late>>

Frames == [id : 1 .. MaxRx, good : BOOLEAN, len : Lens]

Next ==
    \/ \E f \in Frames : DeviceStores(f)
    \/ DeviceReports
    \/ PollCopies \/ PollReturns
    \/ SendBusy \/ SendStarts \/ SendReturns \/ SendTimesOut
    \/ DeviceFetches \/ DeviceSent

Spec == Init /\ [][Next]_vars

-----------------------------------------------------------------------------
IsGood(f) == f.good
Whole(f) == [i \in 1 .. (IF Kind = "rtl8139" THEN f.len + 1 ELSE 1) |-> <<f, i - 1>>]
Received == [i \in DOMAIN delivered |-> delivered[i][1]]
Expected == LET g == SelectSeq(accepted, IsGood) IN [i \in DOMAIN g |-> Whole(g[i])]

(* What poll_rx returns is every good frame the device stored, whole, once *)
(* and in order, whatever the rings wrapped: nothing is overwritten while  *)
(* it is copied, and when poll_rx answers None nothing the device reported *)
(* is left behind.                                                         *)
RxInOrder ==
    /\ \A i \in DOMAIN delivered : delivered[i][2]
    /\ IsPrefix(Received, Expected)
    /\ ~rx.stored /\ rx.poll = NoPoll /\ ~Waiting => Received = Expected

(* While no send has timed out, the frames reported as sent are exactly    *)
(* those on the wire, once and in order, but for the one send still waits  *)
(* for, and the device has that one to work on.                            *)
SentOnce ==
    LET sent == [i \in DOMAIN wire |-> wire[i][1]]
    IN /\ sent = reported \/ (tx.wait # 0 /\ sent = Append(reported, tx.wait))
       /\ tx.wait # 0 => Complete \/ HandedOver

(* A frame on the wire is one frame and not parts of two: the drivers that *)
(* look at the ownership bit before they fill a buffer keep this even      *)
(* after a timeout, the others only before one.                            *)
NotTorn == \A i \in DOMAIN wire : wire[i][1] = wire[i][2]

(* The two for the sending side, by what each driver guarantees            *)
TxHonest ==
    /\ ~late => SentOnce
    /\ ~late \/ Kind \in Owned => NotTorn

(* A send that waits can still succeed, after a timeout too.  Not so: when *)
(* the device completes a frame late, it is one ahead of the position.     *)
\* Refuted: section 5 of the README.
SendIsHeard == tx.wait # 0 => Complete \/ HandedOver
=============================================================================
